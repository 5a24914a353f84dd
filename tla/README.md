# A verification model of qpwgraph-rs

qpwgraph-rs is a patchbay for desktop audio graphs (PipeWire, Windows, ALSA)
with audio effects, video filters and a network relay that carries audio between
a desktop and other devices. This directory holds TLA+ modules for the parts of
it whose correctness depends on order and concurrency, TLC configurations that
check them on small instances, and theorems about them checked by TLAPS. Paths
below are relative to `src/`; `relay/` abbreviates `crates/pw-graph-relay/src/`.

Ten subsystems are modelled. Five belong to the relay, in which two processes on
two machines, with several threads each, have to agree over a link that drops.
The others are the desktop's own: link commands and the driver below them, the
patchbay and its reconciler, the recorder, the insertion of effects, and the
noise suppressor between a real-time callback and its worker. Section 2 says
what is left.

## 1. Inventory

### 1.1 The relay engine (`crates/pw-graph-relay`)

**Engine core** (`relay/engine/inner.rs`, `handle.rs`, `limits.rs`). State: the
`running` flag, the session table, the counter of handshake slots, the live map
of trusted peers, the table of open enrollments, pairing and candidate back-off
tables, a bounded event queue. Operations: start and stop hosting, connect,
disconnect, offer a flow, remember / forget a peer, accept / reject an
enrollment, poll events, shut down. Every operation may be called from any
thread of the embedding while every session's threads use the same tables.
Correct when each session leaves the table once and its loss is announced once,
the table stays within `max_sessions`, each dialled attempt is answered, and a
shutdown leaves nothing behind.

**Session record and flow negotiation** (`relay/engine/record.rs`, the resolution
rules of `relay/protocol.rs`). State: control state and generation, stop and bye
flags, two negotiations (emitter, and the direction of older peers), audio
addresses, roles. Operations: the transitions of the control state, queueing
of offers, receipt of offers and acknowledgements. Correct when both ends settle
on one emitter whatever they chose meanwhile, and no choice is silently dropped.

**Session set-up** (`relay/session/host.rs`, `client.rs`, `handshake.rs`,
`relay/pairing.rs`). One thread per attempt goes through dialling or
accepting, PIN pairing or proof of a credential, capability checks, registration,
worker start, announcement. Nearly every line may fail; correct when no failure
leaves a record, a slot or a caller behind.

**Control channel** (`relay/session/control.rs`). The loop every established
session runs on both sides: stop flags, enrollment decisions, offers,
keepalives, bye, audio announces. It interacts with the embedding through flags
of the record and with the peer through sealed frames.

**Resume** (`relay/session/resume.rs`, the reconnection loop of `client.rs`).
After a link drops the host keeps the session for a grace period; any new
connection that proves the session key may take it over. Correct when a live
session always has one thread responsible for it, and a stale grace wait never
ends a session somebody has taken over.

**Trusted enrollment** (`relay/engine/trust.rs`, `limits.rs`, `handshake.rs`, the
desktop bridge `crates/pw-graph-slint/src/bridge/relay.rs`). The secret a client
proposes goes through the host's control thread, the transaction table, the
user, the configuration file, back through the control thread. Correct when both
ends remember the same secret, or neither does.

**Audio path** (`relay/session/workers.rs`, `audio_worker.rs`, `transport.rs`,
`relay/audio.rs`, `queue.rs`, `crypto.rs`). RX and TX worker per session, a UDP or
TCP socket in a slot that a resume may migrate, a replay window, a jitter buffer,
a sample queue to the audio thread. Correct when no datagram is played twice,
loss and reordering are told apart, and playback goes on after every outage the
buffer's window has room for.

**Codec, conversion, discovery, links, SDK, JNI bridge.** Signal processing,
operating system queries, and thin wrappers of the engine handle.

### 1.2 The patchbay and its graph

**Graph model** (`crates/pw-graph-core`): nodes, ports, links, identities that
survive a restart of the audio server, matching of rules, layout. Data the other
parts work on.

**Commands** (`crates/pw-graph-command`). State: undo and redo stacks of commands,
each with what its last execution did. A command is a sequence of driver calls,
each of which refreshes the graph first and may fail; `transaction.rs:53` rolls
back. The driver (`crates/pw-graph-backend/src/pipewire/links.rs`) keeps a set of
blocked pairs that every refresh destroys when it meets them. Correct when a
failed command leaves the graph as it was, an entry of a stack describes the
graph it would be undone in, and a link of ours is never swept away.

**Patchbay** (`crates/pw-graph-patchbay`, `crates/pw-graph-slint/src/bridge`:
`connections.rs`, `patchbay.rs`, `actions.rs`, `app.rs`). State: saved rules, the
set of pairs the user removed by hand, the reconciler's debounce and its retries
per rule. Operations: every handler that edits links or rules, activation, the
periodic pass. Correct when a saved route is made whenever it can be, and one
the user removed does not come back.

**Application core** (`crates/pw-graph-app-core`): routing of identifiers to
several backends, batching of refreshes.

### 1.3 Effects, recorder and video

**Effect lifecycle** (`crates/pw-graph-effects/src/lifecycle.rs`, the insertion in
`crates/pw-graph-backend/src/pipewire.rs`). Loader threads prepare a processor, the
interface thread cancels or polls its ticket and has the driver put it into a
link: three to six daemon calls, with a roll-back that consists of such calls too.
Correct when a cancelled effect never becomes active, every ticket is answered,
and the route the effect was inserted into carries audio before and after.

**Hush** (`hush_worker.rs`, `hush_queue.rs`, `hush_noise.rs`). A real-time callback
and an inference thread share two rings and a handful of atomics; the worker
measures its own load, resynchronises, gives up and retries. Correct when the
denoised audio stays aligned with the dry signal, and a gate that closed opens
again.

**Recorder** (`crates/pw-graph-backend/src/router/recorder.rs`, the recorder
operations of `pipewire.rs`, `crates/pw-graph-slint/src/bridge/recorders.rs`). A
real-time callback, a writer thread with a pending `.wav.part` file, the backend's
instance and the desktop's copy of its state; start, stop, save, discard, remove,
recover. Correct when a take is kept until the user saves or discards it.

**Video** (`crates/pw-graph-video`): frame queue, processor, filters.

### 1.4 Backends and drivers

**PipeWire** and **ALSA** talk to foreign event loops; of the former, links, effect
nodes and recorders are modelled with the components above. **The audio router**
(`crates/pw-graph-backend/src/router`) owns routes on a thread of its own. **The
Windows backend** has an application-route reconciler and a worker. **The Windows
driver core** (`drivers/windows-audio/core`) has packet layout and end-of-stream
state; the driver around it consists of kernel callbacks.

### 1.5 Applications

**The desktop bridge** (`crates/pw-graph-slint/src/bridge`) polls relay events,
persists credentials, and switches the relay's mode over the flow exchange with
a timeout. **The Android application** (`android/`) wraps the engine in a service
and view models. Configuration, translations, user interface, packaging and
vendored libraries hold no concurrent state.

### 1.6 Interactions and what makes them hard

- The threads of one host meet in the `SessionRecord` and the session table:
  the connection threads of a session, both audio workers, the listener, the
  embedding's calls and a shutdown interleave between any two lock acquisitions.
- The two ends meet only in frames; a link may die after a write succeeded
  locally, so each side may know a thing the other does not.
- Durable state (`trusted_peers` of the configuration) and live state (the map
  in the engine) are written in separate steps, with a restart possible between.
- Time matters through deadlines only: handshake 5 s, enrollment 30 s, resume
  grace, keepalive. Each races with the event it bounds.
- Every counter is bounded or wraps: datagram counters, 32-bit frame numbers,
  control generations, slots, queues.
- The desktop's handlers run one after the other on the interface thread, but each
  driver call in them is a round trip during which the daemon, its session
  manager, loader and writer threads and real-time callbacks go on; and a handler
  that fails half-way has already changed something.
- Real-time callbacks share atomics and rings, no lock, with the threads that
  serve them.

`PROJECT.json` lists the hazards at the line where each bites, with the properties
that cover them or the reason why none does.

## 2. Plan

Done, in this order:

1. `RelayResume` over `SessionOwnership`, with proofs: who owns a session.
2. `RelayFlow`: which side emits.
3. `RelayLifecycle`: admission, registration, loss, shutdown.
4. `RelayEnrollment`: trust across two machines, a user, a file and a restart.
5. `ReplayWindow` with proofs, and `JitterBuffer`: the audio path in pieces.
6. `LinkCommands`: commands, undo, redo and activation call by call, against a
   driver that fails and a daemon others change.
7. `PatchbayDesk`: rules, handlers and reconciler, commands atomic.
8. `Recorder`, `EffectInsertion`, `HushRuntime`.
9. `AudioPath`, which extends `ReplayWindow`: the socket slot with its leases and
   migration, the TCP slot and its locks; with the proof that it implements
   `ReplayWindow`.

Left:

10. `EventQueue` and `PcmQueue`: drop-oldest queues; what a slow consumer misses.
11. The ring of Hush slot by slot, with the second consumer a resynchronization
    adds (`hush_worker.rs:1324`).
12. `RelayModeSwitch`: the desktop's mode switch over the events of `RelayFlow` and
    `RelayLifecycle`, with its timeout; then the SDK's and Android's controllers.
13. The Windows application-route reconciler, the router's thread and the
    driver core's end-of-stream state.

Theorems: every safety property the runs check is proved, invariants and action
properties alike, and so is the safety part of both refinements; see section 5. TLC
alone checks the liveness properties.

Files: one module per component, an `MC...` module that gives finite sets to its
constants, one `.cfg` per run, `...Proofs` for theorems. A definition whose comment
begins "A slip:" or "Slip:" is a plausible mistake in the operator it precedes; it is never
part of `Next` and serves to show that a property reacts to it.

## 3. What each module models

### 3.1 `SessionOwnership` - the promise

Three phases (owned, orphaned, gone) and a generation. An owner may be dropped,
an orphan resumed under the next generation, anything lost; weak fairness says an
orphan does not stay one. It names no thread, no timer and no message.

### 3.2 `RelayResume` - the host's connection threads

`control_state`, `control_generation`, `stop`, `bye_requested` are the fields of
`SessionRecord`; `running` and `registered` belong to the engine. Each thread has a
`pc` through `resume_peer_session_with`, `host_control_loop`, and
`await_resume_grace_with_deadlines`. One action is one critical section of the
`control_state` lock or one access of an atomic, so that a thread may be
overtaken while it writes a challenge, derives keys, migrates the socket or
sleeps in its poll. `begin_resume`, `cancel_resume`, `FinishResume`, `ExpireGrace`
and `AbortResume` are the methods of those names. Deadlines are the two timer
actions `GraceElapses` and `ChallengeElapses`: they may pass at any moment.
Cryptography is reduced to its verdict: a proof is valid or the challenge is
cancelled. `MaxGeneration` stands for `u64::MAX`, where the code stops to admit
resumes as well, so the bound is behaviour of the program and not of the model.

Writing `ResumeOk` may fail, and the history variable `ack_lost` remembers that it
did, for the code keeps its single-owner promises only until then:
`handle_failed_resume_ok_with_deadlines` (resume.rs:217) marks the record dropped,
and the grace wait it calls marks it again (resume.rs:236). A client that resumes
between the two marks is declared dropped although its link is fine, and the
older wait may then tear it down, contrary to the comment at resume.rs:248-250.
`OneOwner` and `ImplementsOwnership` speak of the time until a `ResumeOk` is lost.
The session is still settled, never orphaned: `NoZombie`, `ChallengeHeld`,
`UniqueGenerations` and `OrphanSettles` hold with lost ones too.

Two more facts the model has as the code has them: the challenge deadline is set
by the first challenge a wait observes and not renewed (resume.rs:255), and the
generation to compare with is read after the lock was released (resume.rs:237).

### 3.3 `RelayFlow` - offers, acknowledgements, roles

`local`, `resolved`, `remote`, `pending`, `sent` are the fields of `FlowNegotiation` on
each side, `role` the emitter the audio roles were last derived from, `writing` the
offer between `flush_pending_flow_offer`'s write and `mark_sent`. A device id is a
number, compared as the ids are. `wire` is the sealed control stream: ordered,
never duplicated, cut by a drop. A broken link still delivers what was in
flight, or does not: `NoticeDrop` may come before or after the reads. A resume
puts both sides into a new `watch_control`, whose first act is `reset_send`; a
client that was still in `enroll_trusted_peer` gets there without a resume.
`DirectionNegotiation`, the exchange of older peers, is the same algorithm whose
sides begin with an offer each; `OfferAtStart` covers both.

`AckWriteFails` is the error path of `apply_flow_offer` (control.rs:121): the winner is
recorded, the function returns early, and the roles are not derived. It is the
reason why `OneEmitter` is violated, and why `EventuallyOneEmitter` excuses runs in
which it has happened (`ackLost`).

### 3.4 `RelayLifecycle` - the sessions of one engine

An attempt is its session id. `pc` follows `host_peer_thread` or `client_thread`
from the connection to the end of the thread, `worker` the two audio workers,
`owed` the callers of `remove_session` that found the record and have not emitted
`SessionLost` yet, `events` what the embedding saw. `Teardown` is
`EngineInner::remove_session` with its test, `FailAttempt` is `fail_attempt`,
`StopBegins` to `StopEnds` are `stop_all` step by step: the flag, the listener, the
collected ids, one teardown after the other. `StrangerConnects` stands for
connections that never get past the handshake and hold a slot meanwhile; `others`
are records of sessions whose threads are not followed: they occupy the table, may
be removed at any time, and `stop_all` takes them down with the rest.

Facts of the code a reader may not expect, all modelled: a peer thread keeps its
handshake slot as long as its session lives (inner.rs:522, where
`engine/config.rs:57` speaks of pending handshakes), so a host full of sessions
refuses resumes too; `SessionLost` may come before `SessionEstablished`, for a worker
can fail between the last aliveness check and the announcement (client.rs:580).

### 3.5 `RelayEnrollment` - how a peer becomes trusted

`client` is `enroll_trusted_peer`; `host` is one pass of the control loop: stop flag,
`take_trusted_enrollment`, import, acknowledgement, read, `begin_trusted_enrollment`.
`decision` and `late` are the transaction table, `trusted` the live map of the engine. A
session stands for the secret its client made up; `Pairings` says which peer each
session may turn out to be of.

The application is the desktop bridge. It has the credentials three times: in its
configuration (`config`), as it last saved them without an error (`snapshot`), and in
the file (`durable`). A save may fail (`SaveFails`), before or after `atomic_write` has
renamed the new file into place. `commit_enrollment` puts the secret into the
configuration and saves (`Commit`), then either calls `accept_trusted_enrollment` and
rolls back with a second save when that fails (`RollBack`), or rejects the
transaction because its own save failed, and leaves the configuration as it is
(`RejectUnsaved`). `Autosave` writes whatever the configuration holds, at any moment
the application is between two handlers; `Configure` loads it into the engine, as a
connection and a relay start do. `forget_trusted_peer` is four steps, three of which
are `remove_trusted_peer`'s; when the fourth one's save fails it puts the
configuration back and gives it to the engine again. `Crash` restarts the host with
what the file holds.

`ClientTimeout` waits until no step of the host can still answer: the client's
deadline is the host's 30 s plus 5 s, and the model assumes that the host's
thread runs within this slack. `docs/relay-protocol.md:151-152` gives the table
10 s; the code has 30.

Behaviour that is in the model and that no property forbids, for the record:
- a control drop between the host's import and the client's receipt leaves the
  host with a credential the client has given up (handshake.rs:343); the next
  pairing of the device replaces it;
- `begin_trusted_enrollment` prunes transactions by age alone, accepted ones
  included (inner.rs:324), after the application was told that it accepted;
- a revocation between `take_trusted_enrollment` and `remember_trusted_peer` is
  undone by the import (control.rs:394) until the next restart, though
  handle.rs:307 says the peer is forgotten;
- capacity is tested when a transaction begins (inner.rs:310), so two of them
  may exceed `MAX_TRUSTED_PEERS` (limits.rs:53) by one;
- a restart between persisting and rolling back keeps the credential of a
  transaction that was never accepted (slint `bridge/relay.rs:1109`, against
  `docs/relay-protocol.md:154`); `RefusalIsFinal` exempts these (`cut`);
- a secret whose save failed stays in the configuration and may be written and
  trusted later (section 6); the save of the roll-back may fail too, and nothing
  looks at its outcome (relay.rs:1113), so that the file keeps the secret until
  the next save. The two properties exempt the secrets a save of which failed, no
  others (`unsaved`);
- after such a failure the peer is a known one, and its next enrollment rotates the
  secret without a dialog (`is_trusted_peer` asks the configuration);
- `forget_trusted_peer` detects a failed save by comparing with the snapshot: a
  peer that was never in the snapshot counts as forgotten although the file
  may hold it.

### 3.6 `ReplayWindow` - sealed datagrams

`seal` is `seal_datagram`, `open_windowed` the opener with the part of
`run_rx_source` behind it that moves the peer's address. The 64-bit map is the set
of distances below `highest` whose bit is set; `record` has the three cases of the
code (first datagram, a newer one, one inside the window). The network delivers
anything sealed so far, any number of times, in any order, intact or not. `Migrate`
is a client that resumes over another link and announces its new address. TLC
checks the module as part of `AudioPath`, which extends it.

### 3.7 `JitterBuffer` - playout

The sender numbers frames modulo `Numbers`; the network holds a frame back for at
most `disorder` later ones and loses at most `MaxOutage` in a row. `push`,
`PopUnprimed`, `PopFrame`, `PopMissing` are the methods, driven as `run_rx_source`
drives them: one datagram, then pops until the buffer waits. Adaptive depth,
its decay, the anchor of the first frame, the forward window, and the eviction by
smallest key are as in `audio.rs`; the payload is left out.

`Bridged` says which outages the window has room for: `MAX_FORWARD_FRAMES` must hold
the frames that playback waits for, each behind the longest gap. It is a statement
about the network and the constants, not an assumption of the module: the theorems
about playback name it as their hypothesis, and the run evaluates it.

### 3.8 `LinkCommands` - commands, undo, activation, and the driver below

`job` is the command, undo, redo or activation in progress: a script `todo` of driver
calls with what they have created and removed so far. `ExecuteScript`, `UndoScript`
and `ActivateScript` are the methods of connect.rs, disconnect.rs, reroute.rs and
activation.rs, `Rollback` is `transaction.rs`. Each call is a step, since each
refreshes the graph first: `SweptAway` is what that refresh destroys because
`disconnect_locked` has blocked it. `Call` says for each method of the driver what it
leaves blocked, what it answers, and how it may fail: the daemon's refusal comes
before or after the daemon acted. Between two calls `OtherClient` makes or destroys
any link. `CallReturns` continues as the error paths do: a roll-back goes on past
failing calls and counts them as stranded, and `MoveCommand` is `CommandStack`.

`spoilt` collects the pairs for which no stack is accountable: changed by another
client, behind a failing call, by a partial failure or by an activation, which is
no command. The properties speak of all other pairs, so a single foreign link does
not hide what a command does to the rest. Links the driver may not change (`Observed`)
are in no selection that a disconnection is made from, and `disconnect_all` skips them.

### 3.9 `PatchbayDesk` - rules, handlers and reconciler

`rules`, `suppressed` (`manually_suppressed_patchbay`) and the reconciler's `run`, `retry`
and `waiting` are the desktop's state. Each handler of connections.rs, patchbay.rs and
actions.rs is an action: the command, the refresh, the rules brought in line by
`Synced` and `Without`. `ThenRefresh` is the early return of a failing refresh, after
which the graph has changed and the rules have not. `Reconcile` is a whole pass:
`CleanUp` (exclusive mode), then `ApplyRule` per saved rule in order, with
auto-disconnect, retries and skipped rules. Commands are atomic here and do not
fail half-way, for that is `LinkCommands`; the calls of a pass do fail, in any
combination. Time is reduced to order: `later` becomes `due`, an index leaves
`waiting`, in any order the delays allow. An endpoint in `absent` is gone or
ambiguous, for `resolve_rule` treats both alike. `Pasts` lets a behaviour begin after
an earlier connection, so that an undo and a redo fit within the edits.

### 3.10 `Recorder` - takes

Each pending file has a number, a take. `writer` is the handle of a stream with its
writer thread: `state` and `accepting` are its shared atomics, `stop` the command
channel, `outcome` the result channel, `joined` whether a poll has collected it. The
thread opens, drains, sees the stop, finalizes and reports in five actions, and
the callback's test of `accepting` is separate from its push. `rec` is the backend's
instance, whose `path` is `temporary_path`; `shown` and `pending` are the desktop's copy.
Handlers that copy a file or join the thread take several steps (`task`), and the
process may crash or exit between any two. `StartUp` is the recovery scan of the
directory that is configured then.

Behaviour no property forbids, for the record: `temporary_path` is not set again by
`start_recording` after a save or a discard, so a recorder that fails in its second
take is removed, and its file with it, although `pipewire.rs:2051` asks to save or
discard first (`TakesKept` excepts exactly this); takes left in a directory that is no
longer configured are kept, but not offered (bridge/recorders.rs:444, against the
comment at router/recorder.rs:1157); a frame the callback pushes after the final drain
is neither written nor counted as dropped; a removal whose graph synchronization
fails leaves the desktop with a copy of a recorder that is gone.

### 3.11 `EffectInsertion` - tickets and routes

The pool's threads go through `check`, `prepare`, the second test and the
publication of their event; `cancelled`, `tokens`, `pending` and `waiting` are the ticket
tables of manager, driver and desktop. `Poll` applies the cancellations that came
too late for the worker, and the desktop handles what it polled one event at a
time. An insertion is `Activate`, `CreateNode`, three calls of `Rewire`, `Commit`; any
failure continues at `DestroyNode` and `Restore`, which is also what a removal does.
`links` is the daemon's graph, `view` what the driver saw last, `blocked` as in 3.8.
`told` is set when another client cut a link, or an error told the user that a
roll-back or a removal has failed.

For the record: with two failing calls in one insertion the roll-back may lose the
route; both its halves are attempted, and their errors are reported with the first
one (pipewire.rs:1364-1392). An effect whose endpoints have vanished cannot be removed
until they return. The saved chain of the configuration, which
start-up replays, is not modelled.

### 3.12 `HushRuntime` - a callback and a worker

One step is one access to a shared atomic or ring, except that the callback reads
its wet blocks at once. `accept`, `resync`, `retry`, `shown` (`worker_state`) and `failed` are
the atomics; `cb` and `worker` the local state of the two threads. Positions are ages
relative to `latest_frame`, cut off at `Far`, and generation and epoch are tags that
say whether a block carries the current one, for the code only compares
them for equality. `Far` is the one abstraction that forgets something: beyond it
every block is late for both threads. The load the worker measures is a choice in
`Denoise`. A stream is restarted by `SetMask`. `Schedule` is a constant: in the code
`observe_quantum` only makes it larger. Starting the model and dropping the instance
are not modelled: the loader waits for `worker_ready` before the effect is published.

For the record: the `Overloaded` mark the callback writes may be overwritten by the
worker's `Running`, after which only the backlog test closes the gate again (this
suffices, `GateReopens`); an effect whose channels are all unplugged lets its worker
time out into `Overloaded`; a request that arrives late may restart the worker
before its cooldown is over.

### 3.13 `AudioPath` - who holds which socket, and which lock

`transport` is chosen once: UDP, seen from the host, or TCP, from either side. The
datagrams of UDP are those of `ReplayWindow`.

UDP: `slot` is `UdpAudioSlot::current`, `leased` the clone each worker holds during a
call. `resume` is the connection thread that moves the socket, step by step:
`Decide` (`migrate_udp_audio_socket_with`), then `BindBeside`, or `Take`, `Drained` or
`DrainTimesOut`, `Rebind` and `Fallback` (`migrate_udp_slot`), `Commit` (the rest of the
resume), `ClientMoves` (`client_control_loop`). `Binds` is the kernel's answer: a
socket with the same port, open anywhere in the process, stands in the way when
the addresses are equal or one is the wildcard; any other bind may fail as well.

TCP: `current` and `connecting` are `TcpAudioSlot`; `held` says which thread has the
slot's mutex or a half of a stream. `thread` is where each worker, the client's
supervisor and the host's connection threads are: `WorkerTakes`, `WorkerEnters`,
`WorkerReturns`, `WorkerClears` are a read or a write and what its error does;
`Installs`, `ShutReader`, `ShutWriter`, `Leave` are `install`, the last three also
`clear`; `SupervisorLooks`, `SupervisorDials`, `DialFails` and `HostAccepts` bring
streams. A stream is torn when a read times out in the middle of a frame.

For the record: the host binds to `host_bind_addr` of its configuration and not to
the link the client came in on, so a configuration that names another link leaves
the audio there; when a bind beside the old socket fails, the socket stays on the
old link while the client already sends to the new one, where the comment at
transport.rs:292-295 calls the audio path unharmed (`AudioReachable` excepts both,
`astray`). A host that does not answer the supervisor in time gives `WouldBlock`,
which the supervisor takes for a dial in progress (audio_worker.rs:190) and does
not count. A torn stream is read as noise until a length is out of range. While
the socket is drained, RX finds the slot empty and asks again without a pause.

## 4. The runs

State counts are distinct states; every run ends within five minutes on two
workers, most within one.

| run | instance | states | properties |
| --- | --- | --- | --- |
| `resume_ownership` | 3 threads, 3 generations | 349 k | `NoZombie` `ChallengeHeld` `UniqueGenerations` `OneOwner` `OrphanSettles` `ImplementsOwnership` |
| `flow_exchange` | 2 peers, generations 0..1, 1 drop, both exchanges | 692 k | `SettledAgree` `PendingUntilDecided` `WinnerOnlyGrows` `EventuallyOneEmitter` |
| `flow_ack_lost` | the emitter exchange alone | violation | `OneEmitter` |
| `life_one` | 1 attempt of either kind, table of 1, 2 handshake slots, 2 strangers, shutdown | 51 k | `OneLossPerSession` `NoOrphanSession` `ConnectAnswered` `DisconnectEnds` `ThreadsObserveStop` |
| `enroll_outcome` | 2 sessions of 1 or 2 peers, 1 drop or failing save, 1 restart | 572 k | `RefusalIsFinal` `AcknowledgedIsDurable` `TransactionSettles` |
| `audio_transport` | window of 3, 5 datagrams, 2 links, 2 resumes; 4 streams, 2 threads that bring them, 3 mishaps | 375 k | `OpenedOnce` `FreshAllowed` `AudioReachable` `StreamReturns` |
| `jitter_playout` | 32 numbers, window of 6, depth 2..3 | 2.3 M | `QueuePlayable` `NoFalseLoss` `NoStall` |
| `commands_atomic` | 3 pairs (1 observed), 3 operations, 2 faults, 1 foreign change | 1.2 M | `StacksDescribeGraph` `SweepSparesOurLinks` `FailureLeavesNoTrace` |
| `desk_converge` | 2 pairs that share an input, 2 edits, 1 fault, 1 foreign change | 325 k | `DeletedStaysGone` `RulesConverge` |
| `recorder_takes` | 2 directories, 2 takes, 2 frames, 2 faults, 1 exit | 158 k | `UnsavedIsFinal` `StopDrains` `TakesKept` `RecordingSettles` |
| `effects_route` | 2 effects, 1 thread, queue of 1, 2 faults, 1 foreign change | 862 k | `CancelledNeverActive` `RouteKept` `TicketsAnswered` |
| `hush_gate` | callbacks of 2 blocks, rings of 2, 1 automatic attempt | 698 k | `WetAligned` `GateReopens` `RetryReopens` |

### 4.1 Why the bounds are enough

- **Resume.** Three connections are needed for the races that matter: the owner
  whose link dropped, a client that resumes, and one that comes between the
  second one's failure and its grace wait. A generation advances by one
  per resume, and a fourth would repeat the third under another name. The
  proofs of section 5 hold for any number of either.
- **Flow.** Two peers is the whole system. Generations are only compared, so 0
  and 1 give the three orders a pair of offers can have, ties broken by proposer
  and emitter included. One drop at every position of the exchange is followed
  by a full exchange. `MaxWire` stops offers (not acknowledgements) from piling
  up; two in flight let an offer overtake an acknowledgement each way.
- **Lifecycle.** Threads of two attempts meet only in the session table and the
  handshake slots. One attempt is followed step by step, accepted or dialled;
  `others` fill a table of one and the strangers two slots, at any moment.
- **Enrollment.** Two sessions of one peer exercise rotation and the second
  pairing of a device; of two peers, with one place, the capacity. One restart may
  fall on any step, and so may one drop, or one failing save of a commit, a
  roll-back, a revocation or an autosave (`MaxMishaps` bounds the two together): a
  drop ends the wait of one client and does not meet the saves of the application
  but through a transaction that is given up, which timeouts bring about as well.
  The theorems of 5.5 hold for any number of either.
- **Audio path.** The window of three advances by one, by two, by exactly
  its width and by more, and a datagram may be just inside or just outside it.
  The theorems cover the real width of 64. Two resumes let a second one meet what
  the first one's failure left, and two links with the wildcard give every pair
  of old and new address. Four streams are one installed, one clone a worker
  still holds, and one in the hands of each thread that brings them. Three mishaps
  are a broken stream, a second one while the first is replaced, and a reconnection
  on the host. The client has one address: no property of this run sees it move,
  and the theorems of 5.2 hold for any set of addresses.
- **Jitter buffer.** `Numbers = 32` wraps in every long run. The other constants
  keep the proportions of the code: look-ahead at most half the window, depth
  not above the cap, window below the cap. The instance satisfies `Bridged`. A window
  of 4 would do as well; with one of 3 `NoStall` is violated, so the bound is
  sharp here. At the tolerance (`disorder = MinLookahead`) and beyond, `NoFalseLoss`
  and `NoStall` do not hold and are not claimed; `QueuePlayable` is checked there too.
- **Commands.** A group of three has a call before, at and after the failing one.
  Two faults are a failing call and a failing roll-back; three operations are a
  command, its undo and its redo, or a second command that follows the undo. The
  foreign change falls between any two calls.
- **Desk.** Two sources of one sink are the smallest rule list whose rules take
  the input from each other and whose indices shift when one goes. `MaxAttempts`
  is 2 with one fault: as with the code's 6 attempts, a route is given up only
  when it fails more often than the world does; afterwards a refresh starts anew.
- **Recorder.** Two takes are one that ends and the one the restart begins. With
  a ring of one and two frames the ring is full, empty, and filled after the
  writer's look at it. A second fault can hit the restart after a failed stream.
- **Effects.** An effect in the link of another one, and a queue that runs full while
  the one thread is busy. Two faults: the roll-back of a failing insertion may fail
  itself, which loses the route and must be reported. The theorems of 5.7 hold for
  any number of threads, effects and faults.
- **Hush.** A callback of two blocks fills a ring of two, so every third push
  finds it full. `Lead < Schedule < BacklogLimit` is the order of the code's
  constants; one automatic attempt can be used up.

### 4.2 What the properties are about

`NoZombie` speaks of a live session nobody watches: it would sit in the table
until shutdown. `ChallengeHeld` is its counterpart for a record stuck in
`Resuming`, which refuses every resume. `UniqueGenerations` matters as control keys
are derived from the generation, so that two owners with one generation would
use one key and nonce sequence. `ImplementsOwnership` says that all of this is
invisible from outside: the threads implement the three-phase promise, liveness
included.

`SettledAgree` compares the negotiations of both ends once nothing is pending or
in flight; `PendingUntilDecided` follows a queued choice through drops, resumes
and a write that races a new choice; `WinnerOnlyGrows` rules out that a late
acknowledgement resurrects an older winner. `EventuallyOneEmitter` is the
composition a user cares about: stop choosing, and one side emits.

`OneLossPerSession` relates the table, the stop flags and the announcements:
five actors may remove a record and exactly one of them must speak. `NoOrphanSession`
is about the early returns between registration and the control loop.
`ConnectAnswered`, `DisconnectEnds` and `ThreadsObserveStop` are the promises of
`RelayHandle::connect`, `disconnect` and `shutdown` as far as they hold.

`AcknowledgedIsDurable` and `RefusalIsFinal` tie a client's memory, the live map, the
configuration and the file together across timeouts, failing saves and reloads at
every step. What they exempt is exact: a secret that a restart cut off between
persisting and accepting, and one whose own save failed; the documents' stronger
claim, without the second exemption, is false (section 6). `TransactionSettles` holds
though the user may never answer and the application may hang: only the host's
control threads and its clock are fair.

`OpenedOnce` and `FreshAllowed` bound the replay window from both sides.
`AudioReachable` relates the socket a live session ends up with to the port and the
address the client uses, whichever step of whichever resume failed, and whoever
held a clone. `StreamReturns` is the absence of a deadlock among the slot's mutex,
the mutexes of a stream's halves and the blocking calls made with them.
`QueuePlayable` shows that the eviction by smallest key, which would throw away the
newest frames after a wrap-around, never runs once playback has begun.
`NoFalseLoss` and `NoStall` bound the decisions of `pop` from both sides.

`StacksDescribeGraph` is what makes undo meaningful after a history of commands some
of which failed; `SweepSparesOurLinks` ties the driver's blocked pairs, which outlive
every command, to the links later commands make; `FailureLeavesNoTrace` compares the
graph before and after a command that reports a plain failure.

`DeletedStaysGone` and `RulesConverge` pull in opposite directions: a saved route
comes back by itself, a removed one must not. The first has to hold although
passes, undo, redo and profile loads come between the removal and the next pass,
the second although a pass skips rules, fails in the middle, or is cleared by
another one.

`TakesKept` follows a file with audio through every failure, exit and recovery.
`UnsavedIsFinal` excludes a take offered for saving before its header is final;
`StopDrains` says that what the ring held at the stop reaches the file;
`RecordingSettles` that a requested stop does not wait for ever, whoever notices an
error first.

`CancelledNeverActive` is a race of three threads for one ticket; `TicketsAnswered`
is its liveness side. `RouteKept` is a statement about paths: effects in each other's
links, a failing call anywhere, and audio still gets from source to destination.

`WetAligned` is the invariant of the delay line across drops, resets and restarts.
`GateReopens` and `RetryReopens` are about flags two threads write without a lock.

### 4.3 Fairness

Fairness is given to what the program's own scheduling guarantees: a thread
that can take a step takes one, a deadline passes, a teardown that was begun is
carried out, the desktop's event loop turns (every 50 ms it polls recorders,
effects and the reconciler), the audio graph keeps calling an active effect. A
broken control link is noticed since keepalives time out. `RelayFlow` adds that a
session whose link broke is resumed: a session that is not has no exchange to
finish, and `RelayResume` says what becomes of it. In `AudioPath` only a call that has
begun must end, which the read and write timeouts of 500 ms ensure, and the
supervisor must go on; streams break finitely often. Nothing obliges a client to
connect, a user to act, a link to hold or to fail, a device to report an error, or
the embedding to call anything.

One strong fairness is assumed, of `Reconcile` in `PatchbayDesk`. A refresh of the
graph puts a pass off by the debounce of 100 ms, so a pass may be enabled and
disabled again for ever if refreshes come faster than that. The pump refreshes
at intervals of 500 ms to 5 s, hence a due pass is run between two of them; foreign
changes, which are reported at once, are bounded in the model.

Deadlock is checked for the jitter buffer, whose sender never stops. Elsewhere a
state without successors is one the program may end in: every connection thread
done and the session removed, both peers settled with their bounds used up, the
engine shut down, all transactions over; or one the bounds end, when the user's
and the world's budget are used up.

## 5. What is proved

`tlapm` checks eight modules, 13420 obligations in all. Each theorem holds for every
value of the constants that satisfies the module's named assumption, which TLC
evaluates for the instances of section 4. Bounds such as `MaxBreaks`, `MaxFaults` or
`MaxTakes` are constants too: the theorems hold for any number of drops, faults or
takes.

### 5.1 `RelayResumeProofs` - one owner, never none

Assumption: `ResumeAssumption` (the first owner is a thread, `MaxGeneration` is a
positive number). The set of threads may be infinite.

- `TypeCorrect`: `Spec => []TypeOK`. `TypeOK` alone is not inductive, for it says that
  `SessionLost` is emitted at most once: the strengthening `TypeInv` adds
  `LossCounted`, that a registered record is not stopped and not announced lost.
- `GenerationsUnique`: `Spec => []UniqueGenerations`. The inductive invariant
  `RecordInv` adds `Coherent` (the state carries the current generation when
  eligible and its successor while resuming) and `ClaimsBehind` (no past or
  present owner has a generation above the current one). A finishing thread thus
  becomes owner under a generation strictly above all others.
- `NoZombies`: `Spec => []NoZombie`. `NoZombie` is inductive relative to `RecordInv`:
  every step that takes responsibility from a thread either removes the
  session or gives it to the thread that took the step. The interesting case is
  `LeaveWait`, where the changed generation proves that the thread which left was
  not the responsible one.
- `ChallengesHeld`: `Spec => []ChallengeHeld`, inductive relative to `RecordInv`; the
  case that needs it is a thread whose cancellation meets the challenge of
  another thread, which `Coherent` and the comparison of generations settle.
- `OwnerUnique`: `Spec => []OneOwner`. The invariant `SoleOwner` extends the claim to
  the threads whose link has dropped and that have not marked the record yet, as
  long as no `ResumeOk` was lost (`~ack_lost`); the loss is what breaks it.
- `OwnershipRefined`: every behaviour is one of `SessionOwnership` without its
  fairness, under the mapping of `RelayResume`. From `RefinementInv`, `RecordInv` and
  `SoleOwner` together, each step of a thread is one of owned, dropped, resumed,
  lost, or none (`PromisedStep`), and a session that is no longer promised anything
  never is again (`PromiseEnds`). That an orphan does not stay one is checked by TLC.

### 5.2 `RelayAudioProofs` - datagrams, the socket, playout

Assumptions: `WindowAssumption` (a positive width, any bound on the datagrams),
`TransportConstants` (wildcard, lost link and the absent value are no addresses,
and the latter is no socket) and `JitterAssumption` (the order of the buffer's
constants). The module extends `AudioPath` and `JitterBuffer`, which share no state.

The window alone:

- `WindowTyped`: `Spec => []TypeOK`, in particular no sealed datagram has a counter
  that the sealer will use again.
- `NeverTwice`: `Spec => []OpenedOnce`; `NothingWasted`: `Spec => []FreshAllowed`.

They follow from `IInv`, the conjunction of `TypeOK`, `OpenedOnce` and `BitmapExact`: bit
`b` is set exactly when counter `highest - b` was opened. The lemma `RecordExact` proves
that `record` keeps this in its three cases, where the shift by the width or more is
the one that needs arithmetic; `AllowedIsNew` derives that what the window lets
through has not been opened.

The whole path:

- `PathIsWindow`: `PathSpec => Spec`, the composed path implements `ReplayWindow`. The
  one step that is neither a datagram's nor without effect on datagrams is the
  client's move, an announce sealed under the next counter (`MoveAnnounces`).
- `PathNeverTwice` and `PathNothingWasted` follow: `OpenedOnce` and `FreshAllowed`
  hold of the path with its migrations, for any number of links, threads,
  streams, resumes and failures.
- `SocketReachable`: `PathSpec => []AudioReachable`. `AudioReachable` speaks of the time
  between two resumes. `ReachInv` says for every stage of a resume what there is
  in the slot and in the migrating thread's hands: the slot is empty only from
  the taking to the binding, or for ever; what will be committed has the
  negotiated port and is where the client looks for it, or an error was reported.

The jitter buffer:

- `QueueBounded`: `JitterSpec => []QueuePlayable`, on any network. `WindowInv` keeps what is
  queued inside the window across the wrap-around (lemmas `Subtracted` to
  `Nearer`), `PrimingInv` bounds the queue and gives it an anchor before playback.
- `NothingConcealedInFlight` and `PlaybackGoesOn`: under `Bridged`,
  `JitterSpec => []NoFalseLoss` and `JitterSpec => []NoStall`. Positions are counted backwards from the frame to be sent
  next (`Age`), so that the wrap-around is met in a few lemmas only. `PlayInv` says
  that all that is in flight and queued is still to be played (`Placed`), that no
  more than `MaxOutage` frames in a row are missing between them (`Covered`,
  `Trailing`), that playback begins with the first frame that arrived or one close
  behind (`Anchored`), that the worker has played what it can, with at most `Wide`
  frames queued and the tolerance still at its minimum (`DrainedOut`), and that what
  arrived since the last played frame is in the queue (`Fed`). `Playback` shows it
  invariant. With the code's constants (depth 2, minimal tolerance 2, window
  64) `Bridged` allows 31 lost frames in a row, again and again; weakening its
  second line by one makes the instance of section 4 stall.

### 5.3 `RelayFlowProofs` - agreement

Assumption: `FlowAssumption` (two different device ids).

- `Agreement`: `Spec => []SettledAgree`. Offers are totally ordered (`Total`, `Transitive`,
  `Antisymmetric`) and `resolve_flow_offers` is their maximum (`ResolveIsMax`), so the
  question is which choices a side has heard of. `KnownInv` is the heart: a choice
  that is no longer queued is `Harmless`, for one of four reasons. The other side
  has `Heard` of it; or it is `Overtaken` by a choice the other side still queues; or
  the other side holds the `Twin` of it, the same emitter and generation; or it is
  the `Initial` one, which answers whatever comes. The last two are needed because an
  acknowledgement names no proposer and a side that has queued nothing never says
  what it holds. `FrameInv` says what each frame in flight vouches for, `OwnInv`
  what a side knows of its own choice. The steps fall into classes (`Moves`): most are
  `Quiet`, the others write a frame, queue a choice, take an offer or take an
  acknowledgement, and `KnownStep` treats each class for each of the four reasons.
- `NoReturn`: `Spec => WinnerOnlyGrows`. `ChoiceSurvives`: `Spec => PendingUntilDecided`. Both
  from the same invariant; drops and resumes are among the steps.
- `OneEmitterUnlessAckLost`: as long as no acknowledgement failed to be written, a
  settled session has one emitter. It complements the run `flow_ack_lost`, which
  shows that the hypothesis cannot be dropped (section 6). The liveness
  `EventuallyOneEmitter` is checked by TLC.

### 5.4 `RelayLifecycleProofs` - one loss, no orphan

Assumption: `LifecycleAssumption` (finitely many attempts, any limits).

- `LossAnnouncedOnce`: `Spec => []OneLossPerSession`. A loss counts when it was announced
  or is owed by a caller of `remove_session` that found the record. The invariant is
  one of each attempt (`AttemptInv`): `RecordLife` ties the thread's place to the table
  and the stop flag, `OneLoss` the count of losses to the two. `stop` is set and the
  record taken out in one step by whoever comes first, except between a failed
  start-up and its teardown (`abort`), which `RecordLife` singles out.
- `RegisteredHasThread`: `Spec => []NoOrphanSession`, the third conjunct of `AttemptInv`. It
  is limited to a running engine, for the reason given in section 6.

### 5.5 `UserChoiceProofs` - trust, and routes that stay removed

What the user has decided stays decided, in two components that share no state.
Assumptions: `EnrollmentAssumption`, and for the patchbay `DeskConstants` (finitely
many pairs, lists of rules of any length, any limits).

- `LearnedIsDurable`: `Spec => []AcknowledgedIsDurable`, and `NeverTrustedAfterRefusal`:
  `Spec => []RefusalIsFinal`. A secret has one life: asked for, waiting with the
  application, being committed, accepted or given up. `AskedOnce` says that the stages
  do not overlap, `Settled` that no undecided secret is a credential, on either side
  (`Granted`) or in the host's stores (`Retained`), and that one that is a credential was
  committed and not refused. In the stores this is said of secrets whose saves
  did not fail (`unsaved`); in what the client is told and keeps it has no
  exception. The commit is between the two: its secret is in the configuration
  and perhaps in the file before it is one or the other, which is why `Retained`
  leaves the secret being committed out. `FileInv` adds that configuration and file
  hold a secret under its own peer, without which the roll-back would restore the
  wrong one, and that a revocation and a commit exclude each other. Most steps
  bring a life forward or end it (`Calm`), among them every autosave and every
  reload of the live map (`StoreCalm`); taking, beginning, committing, deciding and
  the restart are proved one by one.
- `RemovedStaysRemoved`: `DeskSpec => DeletedStaysGone`, an action property: nothing
  but the user, by a connection, an undo or a redo, by saving a rule or by loading a
  profile that has it, brings back a link that was removed by hand. The invariant
  (`DeskInvariant`) is `Remembered`: what was removed is suppressed, and no rule asks for
  it. A pass makes links of rules only (`PassMakesRules`), whatever it cleans up,
  retries, skips or fails at.
  The passes and the lists of rules are recursive functions over a list. What such
  a function does is proved without an induction principle: a least element at
  which it goes wrong (`Smallest`, from the well-foundedness of the order on numbers)
  would have a predecessor at which it does not. `StepByStep` and `Iterated` say this
  once, for an invariant and for the existence of the chain of results.

### 5.6 `RecorderProofs` - takes

Assumption: `RecorderConstants` (some directory, a ring that holds something, and 0,
which stands for no take, is no directory).

- `OfferedIsFinal`: `Spec => []UnsavedIsFinal`; `StopKeepsAudio`: `Spec => []StopDrains`;
  `AudioIsNotLost`: `Spec => TakesKept`, an action property.
- `IInv` relates what the four parties know. `WriterInv`: a writer that reports
  success has seen the command, closed its file and written what the Stop was
  promised; until then that is in the file or the ring. `UnsavedInv` and `RecInv`:
  what the backend and the desktop believe of the recorder. `TaskInv`: what a
  handler tested before a round trip still holds after it, because whatever
  could change it needs the interface thread or cannot run in that state.
  `TakesKept` needs that an idle recorder's file is without audio
  (`IdleHoldsNothing`) and that what a handler removes after the join was saved or
  discarded (`JoinedIsKept`).

### 5.7 `EffectProofs` - tickets, the route, wet audio

The module extends `EffectInsertion` and `HushRuntime`, which share no state.
Assumptions: `EffectConstants` (finitely many effects, none of which is one of the two
ends) and `HushConstants`.

- `CancellationIsFinal`: `Spec => []CancelledNeverActive`. The invariant follows a ticket:
  it is in one of queue, loader, events and inbox, once (`Once`); it can be
  cancelled until it is polled, and its target is known until it is handled
  (`Tracked`); nothing of a ticket that may be or was cancelled is in the graph, nor
  ready in the inbox, where a cancellation is no longer heard (`Admitted`).
- `TicketsKept`: `Spec => []NoTicketLost`, the part of `TicketsAnswered` that needs no
  fairness: who waits for a ticket waits for one that is in exactly one place.
- `AudioGetsThrough`: `Spec => []RouteKept`. That there is some path is not inductive: a
  removal restores the link its effect had replaced, and nothing says that the ends
  of this link are still on the path. The invariant therefore keeps the whole route
  (`Spine`): a chain of distinct nodes from source to destination, and for each effect
  on it the places of the two ends of the link it replaced, one before it and one
  behind it, such that what two effects replaced does not cross. An insertion makes
  the chain longer by one (`Lengthened`, `Spliced`); a removal cuts out all that is
  between the two ends (`Shortcut`, `Unspliced`), effects that were inserted into the
  links of the removed one included; an effect off the chain does not matter
  (`OffRoute`). `Routed` demands that the links of the chain are there and not blocked,
  but for the one that the handler in progress has opened and will close again
  (`Gap`). Once the chain is there, no set that holds the source and is closed under
  links can miss the destination (`RouteCarries`), which is how `RouteKept` states
  reachability.
- `Aligned`: `HushSpec => []WetAligned`. The output ring gets its positions from the
  worker and its samples from the delay line, so `Line` relates the two: between
  blocks, the position to be given out next is that of the last block taken, and
  what is held is one block older; while a block is denoised, the position is one
  block older than it. A worker of an old generation, one that was reset and one that has
  failed are exempt (`Streams`), and `Denoising` says that what is denoised is the head
  of the input ring and is of the worker's generation. A change of generation
  restarts the positions at the next callback; `Renewed` says that nothing on the
  way is current until then, or the tick would shift it.

### 5.8 `LinkCommandsProofs` - undo, roll-back, the sweep

Assumption: `CommandConstants` (finitely many pairs; groups and lists of rules of any
length, any limits).

- `StacksTell`: `Spec => []StacksDescribeGraph`. Of the pairs nobody spoilt (`Ours`) the
  stacks are a history and a future: each entry was found in the graph its
  predecessor left, and the top one left the present graph (`Past`, `Future`). An entry
  tells what it found, what it left, and what an undo has to take back (`Entry`).
  For the operation in progress `JobInv` says of each pair two things: what was
  created and removed so far, taken back, gives the graph it began with (`Ledger`),
  and the last call left for the pair, or the graph when there is none, decides what
  becomes of it (`Leads`), namely what the command is for, or what was there before
  when it is rolled back (`Goal`). A call that succeeds moves its pair from one account
  to the other, and a failing one turns the first account into the new script.
- `NoTrace`: `Spec => FailureLeavesNoTrace`, an action property: with nothing stranded
  and no call left, `Leads` says that the graph is the one from before.
- `SweepSpares`: `Spec => []SweepSparesOurLinks`, which is inductive by itself. The
  lemma `CallSpares` has the case that matters, a driver call: each begins with the
  sweep, so only its own pair can be live and blocked behind it, and only if it
  reports an error.

### 5.9 What only TLC has checked

- Liveness: `OrphanSettles` and the fairness of `ImplementsOwnership`,
  `EventuallyOneEmitter`, `ConnectAnswered`, `DisconnectEnds`, `ThreadsObserveStop`,
  `TransactionSettles`, `StreamReturns`, `RulesConverge`, `RecordingSettles`,
  `TicketsAnswered`, `GateReopens`, `RetryReopens`. Liveness under fairness is outside what
  the prover supports.

## 6. Where the code and its documents disagree

One disagreement is shown by a run:

- **A lost acknowledgement leaves the roles underived** (`flow_ack_lost`).
  `apply_flow_offer` (relay/session/control.rs:121) records the winner, then
  writes the acknowledgement, then derives the roles; the write's error returns in
  between, and the re-sent offer "changes nothing" after the resume. Both sides
  agree on the winner and have different roles, where
  `docs/relay-protocol.md:239-241` says that no resolution can activate both
  directions. It is the only way this can happen: `OneEmitterUnlessAckLost` (5.3)
  shows it impossible as long as every acknowledgement is written.

Others were met while modelling. They follow from the code as the modules have
it; no run is devoted to them.

- **A refused secret becomes the credential.** When the save in
  `commit_enrollment` fails, the transaction is rejected (slint
  `bridge/relay.rs:1118`), but the configuration keeps the new secret: only the
  branch at 1112 restores it. Autosave writes it once a save succeeds
  (`bridge/config.rs:271`), and the next connection or relay start loads it into the
  live map (`configure_relay_identity`, relay.rs:190) whether it was written or not.
  The host then trusts a secret whose client was told that it was refused, and has
  lost the one that client still has. `docs/relay-protocol.md:153-155`:
  "Persistence failure, timeout, malformed credentials, and a second enrollment for
  the same peer leave the existing credential unchanged."
  The model does this with one failing save (`Commit`, `RejectUnsaved`, `Configure`): without
  `unsaved`, `RefusalIsFinal` is violated in nine states, and with it
  `NeverTrustedAfterRefusal` (5.5) says that a secret that was refused gets there
  in no other way but a restart (`cut`).
- **A session may outlive the shutdown.** `insert_session` (relay/engine/inner.rs:488)
  does not test `running`; an attempt in its handshake registers after `stop_all`
  collected the table, and its thread then returns without removing the record.
  `relay/engine/handle.rs:64`: "Stop the host, end all sessions". Its threads do end
  (`ThreadsObserveStop`); the record stays.
- **An old datagram moves the peer's address back.** Every datagram that opens sets
  the address (relay/session/audio_worker.rs:335), also one that is older than the
  announce from the new address; audio_worker.rs:331 says "Keep the peer's audio
  address current".
- **Playback stops for good after a long outage.** Beyond `MAX_FORWARD_FRAMES` `push`
  refuses every frame (relay/audio.rs:281), while `pop` gives up a missing frame only
  when later ones are queued. The missing ones never "surface as `JitterPop::Lost`"
  (audio.rs:198). Several shorter outages close together have the same effect. With
  the code's constants it takes more than 31 frames lost in a row, or frames
  overtaken by two others or more: short of that `PlaybackGoesOn` (5.2) excludes it.
- **A lost `ResumeOk` is marked twice** (3.2), contrary to the comment at
  resume.rs:248-250.
- **A failed disconnection may still happen later.** `disconnect_locked` blocks the pair
  before it asks the daemon (`pipewire/links.rs:113`); when the daemon refuses, the
  next refresh destroys the link all the same, while `transaction.rs:43` promises all
  or nothing. `FailureLeavesNoTrace` therefore excepts the pair of the failing call.
- **A rerouted link is not saved.** `handle_link_rerouted` (bridge/connections.rs:15)
  leaves rules and suppressed pairs as they are, where `docs/configuration.md:43-44`
  has live graph changes keep the saved patchbay synchronized. When the old route
  was saved and the patchbay is active, the next pass restores it beside the new one.
- **Takes**, **effects** and **Hush**: see the last paragraphs of 3.10 to 3.12. For
  Hush also: a resynchronization empties the output ring from the worker
  (hush_worker.rs:1324) while the callback may be reading it, although the ring is
  documented for one consumer (hush_queue.rs:38).

## 7. What is not modelled, and why

- Cryptography, serialisation, codecs, sample conversion, signal and video
  filters: functions of their input, which unit tests reach. A proof or a frame
  is accepted or refused here, and both outcomes are explored.
- Discovery, adb, netlink, ALSA, WASAPI, the Windows kernel driver and Android's
  user interface: input and output of the operating system. Of PipeWire, what
  its driver does to links, effects and recorders is in 3.8, 3.10 and 3.11.
- The Windows backend. Its application-route reconciler is the part with state;
  the desktop changes its rule list at start-up only.
- Client-side resume in detail: candidates, back-off delays and attempt counts
  are one choice in `RelayLifecycle` (`Resume` or `GiveUp`) and one in `RelayFlow`.
- Wall-clock durations: a deadline may pass at any time after it was set. Where a
  duration matters it is an assumption: the slack of the enrollment's client
  (3.5), the refresh interval against the debounce (4.3).
- The audio announce is never repeated (control.rs:262): when it is lost, a host
  that only sends keeps sending to the old address. The code leaves this open, and
  no property claims otherwise.
- The event queue, the pairing limiter, the mode switch, the application core and the
  video queue are planned or left out; `PROJECT.json` names each with its status.

## 8. Running it

    tlc -workers 2 -config MCRelayResume_ownership.cfg MCRelayResume
    tlapm RelayResumeProofs.tla

The other runs are listed in `PROJECT.json` with their module and configuration.
