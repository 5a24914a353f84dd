------------------------------ MODULE RelayResume ------------------------------
(***************************************************************************)
(* The host's side of one relay session once it is established: who owns   *)
(* its control channel, what happens when that channel drops, and how a    *)
(* re-dialling client takes the session over.                              *)
(*                                                                         *)
(* Every TCP connection the host accepts is served by one thread, which    *)
(* runs resume_peer_session_with, then host_control_loop, then (when the   *)
(* link drops) await_resume_grace_with_deadlines.  The threads share the   *)
(* SessionRecord (control_state under its lock, control_generation and     *)
(* stop as atomics) and the session table of the engine.  Each action is   *)
(* one critical section or one access of a shared atomic; what the thread  *)
(* does in between (network I/O, key derivation) is the gap between two    *)
(* actions.  Time appears only as deadlines that may pass.                 *)
(***************************************************************************)
EXTENDS Naturals

CONSTANTS
    Thread,         \* the host's connection threads; each serves one connection
    FirstOwner,     \* the thread that established the session
    MaxGeneration   \* u64::MAX in the code: no resume can be claimed at it

ASSUME ResumeAssumption ==
    /\ FirstOwner \in Thread
    /\ MaxGeneration \in Nat \ {0}

VARIABLES
    control_state,      \* SessionRecord::control_state
    control_generation, \* SessionRecord::control_generation
    stop,               \* SessionRecord::stop
    bye_requested,      \* SessionRecord::bye_requested
    running,            \* EngineInner::running
    registered,         \* the record is in EngineInner::sessions
    session_lost,       \* number of RelayEvent::SessionLost emitted for the session
    pc,                 \* where each connection thread stands
    claim,              \* the generation a thread claimed with begin_resume
    ack_lost,           \* history: some ResumeOk could not be written
    watched,            \* the generation a thread's grace wait compares with
    grace_over,         \* the threads whose grace deadline has passed
    in_flight,          \* its in_flight_deadline: unset, running or over
    aborting            \* the generation expire_resume_grace reported in progress

record == <<control_state, control_generation, stop, bye_requested>>
engine == <<running, registered, session_lost>>
grace  == <<watched, grace_over, in_flight, aborting>>
vars   == <<record, engine, pc, claim, ack_lost, grace>>

--------------------------------------------------------------------------------
Generation == 0..MaxGeneration

Active            == [kind |-> "Active", generation |-> 0]
ResumeEligible(g) == [kind |-> "ResumeEligible", generation |-> g]
Resuming(g)       == [kind |-> "Resuming", generation |-> g]

ControlState ==
    [kind : {"Active", "ResumeEligible", "Resuming"}, generation : Generation]

\* A thread between begin_resume and finish_resume holds a challenge.
Challenging == {"challenge", "migrating", "finishing"}
\* A thread between finish_resume (or session start) and the loss of its link
\* is the session's control owner.
Owning      == {"acking", "control", "dropped"}
\* A thread in await_resume_grace_with_deadlines.
Waiting     == {"waiting", "expiring", "aborting"}

PC == {"idle", "hello", "ending", "done", "reading"}
          \cup Challenging \cup Owning \cup Waiting

TypeOK ==
    /\ control_state \in ControlState
    /\ control_generation \in Generation
    /\ stop \in BOOLEAN
    /\ bye_requested \in BOOLEAN
    /\ running \in BOOLEAN
    /\ registered \in BOOLEAN
    /\ session_lost \in {0, 1}
    /\ pc \in [Thread -> PC]
    /\ claim \in [Thread -> Generation]
    /\ ack_lost \in BOOLEAN
    /\ watched \in [Thread -> Generation]
    /\ grace_over \subseteq Thread
    /\ in_flight \in [Thread -> {"unset", "running", "over"}]
    /\ aborting \in [Thread -> Generation]

Init ==
    /\ control_state = Active
    /\ control_generation = 1
    /\ stop = FALSE
    /\ bye_requested = FALSE
    /\ running = TRUE
    /\ registered = TRUE
    /\ session_lost = 0
    /\ pc = [t \in Thread |-> IF t = FirstOwner THEN "control" ELSE "idle"]
    /\ claim = [t \in Thread |-> IF t = FirstOwner THEN 1 ELSE 0]
    /\ ack_lost = FALSE
    /\ watched = [t \in Thread |-> 0]
    /\ grace_over = {}
    /\ in_flight = [t \in Thread |-> "unset"]
    /\ aborting = [t \in Thread |-> 0]

--------------------------------------------------------------------------------
(* The record's transitions, each under the control_state lock.            *)

session_alive == running /\ registered

mark_control_dropped ==
    control_state' = IF control_state.kind = "Active"
                     THEN ResumeEligible(control_generation)
                     ELSE control_state

begin_resume_keeps_generation(t) ==
    /\ control_state.kind = "ResumeEligible"
    /\ control_state' = Resuming(control_state.generation)
    /\ claim' = [claim EXCEPT ![t] = control_state.generation]

begin_resume_when_active(t) ==
    /\ control_state.kind # "Resuming"
    /\ control_generation < MaxGeneration
    /\ control_state' = Resuming(control_generation + 1)
    /\ claim' = [claim EXCEPT ![t] = control_generation + 1]

begin_resume(t) ==
    /\ control_state.kind = "ResumeEligible"
    /\ control_state.generation < MaxGeneration
    /\ control_state' = Resuming(control_state.generation + 1)
    /\ claim' = [claim EXCEPT ![t] = control_state.generation + 1]

cancel_resume_forgotten(t) == UNCHANGED control_state

cancel_resume(t) ==
    control_state' = IF control_state = Resuming(claim[t])
                     THEN ResumeEligible(control_generation)
                     ELSE control_state

remove_session ==
    /\ registered' = FALSE
    /\ stop' = (stop \/ registered)
    /\ session_lost' = IF registered THEN session_lost + 1 ELSE session_lost

--------------------------------------------------------------------------------
(* A resume connection: resume_peer_session_with, in the order of the code. *)

Goto(t, from, to) ==
    /\ pc[t] = from
    /\ pc' = [pc EXCEPT ![t] = to]

\* A ResumeHello for a live session; a decodable nonce leads to the claim.
LookUp(t) ==
    /\ registered
    /\ Goto(t, "idle", "hello")
    /\ UNCHANGED <<record, engine, claim, ack_lost, grace>>

\* Unknown session or malformed nonce: PairFail, nothing claimed.
RefuseHello(t) ==
    /\ Goto(t, "idle", "done")
    /\ UNCHANGED <<record, engine, claim, ack_lost, grace>>

ClaimResume(t) ==
    /\ Goto(t, "hello", "challenge")
    /\ begin_resume(t)
    /\ UNCHANGED <<control_generation, stop, bye_requested, engine, ack_lost, grace>>

\* begin_resume returned None: "the session control channel is still active".
StillActive(t) ==
    /\ Goto(t, "hello", "done")
    /\ \/ control_state.kind # "ResumeEligible"
       \/ control_state.generation >= MaxGeneration
    /\ UNCHANGED <<record, engine, claim, ack_lost, grace>>

\* The challenge could not be sent, no valid proof arrived before the read
\* timeout, the session is no longer alive, or no cipher could be derived.
CancelChallenge(t) ==
    /\ Goto(t, "challenge", "done")
    /\ cancel_resume(t)
    /\ UNCHANGED <<control_generation, stop, bye_requested, engine, claim, ack_lost, grace>>

\* The proof is right, and the session still alive.
VerifyProof(t) ==
    /\ session_alive
    /\ Goto(t, "challenge", "migrating")
    /\ UNCHANGED <<record, engine, claim, ack_lost, grace>>

\* The UDP socket moved, or failed to in a way the session survives.
MigrateAudio(t) ==
    /\ Goto(t, "migrating", "finishing")
    /\ UNCHANGED <<record, engine, claim, ack_lost, grace>>

\* The negotiated UDP port is gone: give the claim back and end the session.
MigrationFatal(t) ==
    /\ Goto(t, "migrating", "ending")
    /\ cancel_resume(t)
    /\ UNCHANGED <<control_generation, stop, bye_requested, engine, claim, ack_lost, grace>>

FinishResume_keeps_generation(t) ==
    /\ control_state = Resuming(claim[t])
    /\ Goto(t, "finishing", "acking")
    /\ control_state' = Active
    /\ UNCHANGED <<control_generation, stop, bye_requested, engine, claim, ack_lost, grace>>

FinishResume(t) ==
    /\ control_state = Resuming(claim[t])
    /\ Goto(t, "finishing", "acking")
    /\ control_generation' = claim[t]
    /\ control_state' = Active
    /\ UNCHANGED <<stop, bye_requested, engine, claim, ack_lost, grace>>

\* finish_resume lost the race against the grace watcher.
FinishRefused(t) ==
    /\ control_state # Resuming(claim[t])
    /\ Goto(t, "finishing", "done")
    /\ UNCHANGED <<record, engine, claim, ack_lost, grace>>

SendResumeOk(t) ==
    /\ Goto(t, "acking", "control")
    /\ UNCHANGED <<record, engine, claim, ack_lost, grace>>

LoseResumeOk_gives_up(t) ==
    /\ Goto(t, "acking", "done")
    /\ ack_lost' = TRUE
    /\ UNCHANGED <<record, engine, claim, grace>>

\* handle_failed_resume_ok_with_deadlines marks the record itself, before the
\* grace wait it calls marks it once more.
LoseResumeOk(t) ==
    /\ Goto(t, "acking", "dropped")
    /\ mark_control_dropped
    /\ ack_lost' = TRUE
    /\ UNCHANGED <<control_generation, stop, bye_requested, engine, claim, grace>>

--------------------------------------------------------------------------------
(* The control owner: host_control_loop and watch_control.                 *)

\* Closed stream, failed write, keepalive timeout or an invalid offer.
LinkDrops(t) ==
    /\ Goto(t, "control", "dropped")
    /\ UNCHANGED <<record, engine, claim, ack_lost, grace>>

\* The peer's Bye, or a stop or disconnect the watcher noticed.
WatchEnds(t) ==
    /\ Goto(t, "control", "ending")
    /\ UNCHANGED <<record, engine, claim, ack_lost, grace>>

MustStop == ~running \/ stop \/ bye_requested

StopNoticed(t) == MustStop /\ WatchEnds(t)

PeerSaysBye(t) == WatchEnds(t)

--------------------------------------------------------------------------------
(* The grace wait: await_resume_grace_with_deadlines.                      *)

MarkDropped(t) ==
    /\ Goto(t, "dropped", "reading")
    /\ mark_control_dropped
    /\ UNCHANGED <<control_generation, stop, bye_requested, engine, claim, ack_lost, grace>>

\* The generation is read after the lock is released.
ReadGeneration(t) ==
    /\ Goto(t, "reading", "waiting")
    /\ watched' = [watched EXCEPT ![t] = control_generation]
    /\ UNCHANGED <<record, engine, claim, ack_lost, grace_over, in_flight, aborting>>

\* The deadline, RESUME_GRACE after the wait began.
GraceElapses(t) ==
    /\ pc[t] \in Waiting
    /\ t \notin grace_over
    /\ grace_over' = grace_over \cup {t}
    /\ UNCHANGED <<record, engine, pc, claim, ack_lost, watched, in_flight, aborting>>

\* The challenge deadline, HANDSHAKE_TIMEOUT after it was first set.
ChallengeElapses(t) ==
    /\ in_flight[t] = "running"
    /\ in_flight' = [in_flight EXCEPT ![t] = "over"]
    /\ UNCHANGED <<record, engine, pc, claim, ack_lost, watched, grace_over, aborting>>

\* Stopped, gone, or somebody else committed a newer generation: no teardown.
LeaveWait(t) ==
    /\ stop \/ ~session_alive \/ control_generation # watched[t]
    /\ Goto(t, "waiting", "done")
    /\ UNCHANGED <<record, engine, claim, ack_lost, grace>>

PollDeadline(t) ==
    /\ t \in grace_over
    /\ Goto(t, "waiting", "expiring")
    /\ UNCHANGED <<record, engine, claim, ack_lost, grace>>

\* expire_resume_grace: Expired.
ExpireGrace(t) ==
    /\ control_generation = watched[t]
    /\ control_state = ResumeEligible(watched[t])
    /\ Goto(t, "expiring", "ending")
    /\ control_state' = Active
    /\ UNCHANGED <<control_generation, stop, bye_requested, engine, claim, ack_lost, grace>>

\* expire_resume_grace: Resumed.
GraceResumed(t) ==
    /\ \/ control_generation # watched[t]
       \/ control_state.kind = "Active"
       \/ /\ control_state.kind = "ResumeEligible"
          /\ control_state.generation # watched[t]
    /\ Goto(t, "expiring", "done")
    /\ UNCHANGED <<record, engine, claim, ack_lost, grace>>

\* expire_resume_grace: InProgress.  The challenge deadline is set once, by the
\* first challenge found in flight.
GraceInProgress(t) ==
    /\ control_generation = watched[t]
    /\ control_state.kind = "Resuming"
    /\ Goto(t, "expiring", IF in_flight[t] = "over" THEN "aborting" ELSE "waiting")
    /\ aborting' = [aborting EXCEPT ![t] = control_state.generation]
    /\ in_flight' = [in_flight EXCEPT ![t] = IF @ = "unset" THEN "running" ELSE @]
    /\ UNCHANGED <<record, engine, claim, ack_lost, watched, grace_over>>

AbortResume(t) ==
    /\ control_state = Resuming(aborting[t])
    /\ Goto(t, "aborting", "ending")
    /\ control_state' = Active
    /\ UNCHANGED <<control_generation, stop, bye_requested, engine, claim, ack_lost, grace>>

AbortMissed(t) ==
    /\ control_state # Resuming(aborting[t])
    /\ Goto(t, "aborting", "waiting")
    /\ UNCHANGED <<record, engine, claim, ack_lost, grace>>

\* teardown: remove_session, and SessionLost if it removed anything.
Teardown(t) ==
    /\ Goto(t, "ending", "done")
    /\ remove_session
    /\ UNCHANGED <<control_state, control_generation, bye_requested, running,
                   claim, ack_lost, grace>>

--------------------------------------------------------------------------------
(* The rest of the engine.                                                 *)

\* disconnect -> request_bye.
RequestBye ==
    /\ registered
    /\ ~bye_requested
    /\ bye_requested' = TRUE
    /\ UNCHANGED <<control_state, control_generation, stop, engine, pc, claim, ack_lost, grace>>

\* fail_session of an audio worker: the aliveness it checks can only turn into
\* a removal that leaves its own remove_session without effect.
WorkerFails ==
    /\ session_alive
    /\ ~stop
    /\ remove_session
    /\ UNCHANGED <<control_state, control_generation, bye_requested, running, pc, claim,
                   ack_lost, grace>>

\* stop_all: running is cleared first, every session is torn down afterwards.
StopEngine ==
    /\ running
    /\ running' = FALSE
    /\ UNCHANGED <<record, registered, session_lost, pc, claim, ack_lost, grace>>

StopAllTeardown ==
    /\ ~running
    /\ registered
    /\ remove_session
    /\ UNCHANGED <<control_state, control_generation, bye_requested, running, pc,
                   claim, ack_lost, grace>>

--------------------------------------------------------------------------------
\* What a connection thread does once it runs (no new connection, no timer).
ThreadStep(t) ==
    \/ ClaimResume(t) \/ StillActive(t) \/ CancelChallenge(t)
    \/ VerifyProof(t) \/ MigrateAudio(t) \/ MigrationFatal(t)
    \/ FinishResume(t) \/ FinishRefused(t) \/ SendResumeOk(t) \/ LoseResumeOk(t)
    \/ StopNoticed(t) \/ MarkDropped(t) \/ ReadGeneration(t)
    \/ LeaveWait(t) \/ PollDeadline(t) \/ ExpireGrace(t) \/ GraceResumed(t)
    \/ GraceInProgress(t) \/ AbortResume(t) \/ AbortMissed(t) \/ Teardown(t)

Connect(t)    == LookUp(t) \/ RefuseHello(t)
LinkEvent(t)  == LinkDrops(t) \/ PeerSaysBye(t)
TimerStep(t)  == GraceElapses(t) \/ ChallengeElapses(t)
EngineStep    == RequestBye \/ WorkerFails \/ StopEngine \/ StopAllTeardown

Next ==
    \/ \E t \in Thread : Connect(t) \/ LinkEvent(t) \/ TimerStep(t) \/ ThreadStep(t)
    \/ EngineStep

Spec == Init /\ [][Next]_vars

\* Threads are scheduled, deadlines pass, and a teardown that was begun is
\* carried out.  Nothing makes a client connect, a link drop or a user act.
Fairness ==
    /\ \A t \in Thread : WF_vars(ThreadStep(t)) /\ WF_vars(TimerStep(t))
    /\ WF_vars(StopAllTeardown)

FairSpec == Spec /\ Fairness

--------------------------------------------------------------------------------
(* Properties.                                                             *)

Owned == \E t \in Thread : pc[t] \in {"acking", "control"}

\* Somebody will still decide the fate of the session.
Responsible(t) ==
    \/ pc[t] = "ending"
    \/ control_state.kind = "Active" /\ pc[t] \in Owning
    \/ /\ control_state.kind # "Active"
       /\ \/ pc[t] \in {"dropped", "reading"}
          \/ pc[t] \in Waiting /\ watched[t] = control_generation

\* No zombie: while the session is alive some thread owns its control channel,
\* waits out the grace of its current generation, or is about to tear it down
\* (the case handle_failed_resume_ok_with_deadlines exists for).
NoZombie == session_alive => \E t \in Thread : Responsible(t)

\* A record left in Resuming refuses every later resume, so a challenge in
\* flight always belongs to a thread that has still to finish or cancel it.
ChallengeHeld ==
    control_state.kind = "Resuming" =>
        \E t \in Thread : pc[t] \in Challenging /\ claim[t] = control_state.generation

\* The control keys of a resume are derived for its generation: no two
\* connections that own or owned the channel did so under one generation.
UniqueGenerations ==
    \A t, u \in Thread :
        /\ pc[t] \in Owning \cup Waiting \cup {"reading"}
        /\ pc[u] \in Owning \cup Waiting \cup {"reading"}
        /\ claim[t] = claim[u]
        => t = u

\* The host never has two control watches on one session, and refuses a resume
\* while the old one is active: as long as every ResumeOk could be written.
OneOwner ==
    ~ack_lost => \A t, u \in Thread : pc[t] \in {"acking", "control"} =>
        /\ control_state.kind = "Active"
        /\ pc[u] \in {"acking", "control"} => t = u

\* A session that lost its control owner is resumed or removed, whatever the
\* reconnecting clients do.
OrphanSettles == (session_alive /\ ~Owned) ~> (Owned \/ ~session_alive)

\* The host's threads implement the abstract ownership of the session, up to
\* the first ResumeOk that is lost.
Promised == session_alive /\ ~ack_lost

Phase == IF ~Promised THEN "gone" ELSE IF Owned THEN "owned" ELSE "orphaned"

Ownership == INSTANCE SessionOwnership
                 WITH phase <- Phase,
                      generation <- IF Promised THEN control_generation ELSE 0

ImplementsOwnership == Ownership!Spec
================================================================================
