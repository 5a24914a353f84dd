----------------------------- MODULE RelayLifecycle -----------------------------
(***************************************************************************)
(* The life of the sessions of one relay engine: admission of connections, *)
(* registration, start of the audio workers, announcement, loss.           *)
(*                                                                         *)
(* Every attempt, accepted from the listener or dialled by the embedding,  *)
(* has a thread of its own, whose position is pc; a registered session     *)
(* adds an RX and a TX worker.  All of them, the                           *)
(* revocation of a credential and RelayEngine::shutdown race to remove the *)
(* record from EngineInner::sessions, and each announces what it did in a  *)
(* separate step.  Session ids are never reused, so an attempt is its id.  *)
(* What the two ends say to each other is abstracted to its outcomes; who  *)
(* owns the control channel across a resume is module RelayResume.         *)
(***************************************************************************)
EXTENDS Naturals, Sequences, FiniteSets

CONSTANTS
    Hosted,         \* attempts that may be connections the listener accepts
    Dialled,        \* attempts that may be ids returned by RelayHandle::connect
    MaxStrangers,   \* bound on other connections, which fail their handshake
    MaxSessions,    \* EngineConfig::max_sessions
    MaxHandshakes   \* EngineConfig::max_pending_handshakes

Attempt == Hosted \cup Dialled

ASSUME LifecycleAssumption ==
    /\ MaxStrangers \in Nat
    /\ IsFiniteSet(Attempt)
    /\ MaxSessions \in Nat /\ MaxHandshakes \in Nat \ {0}

VARIABLES
    dialled,            \* which attempts are dialled; the others are accepted
    strangers,          \* the connections in a handshake that will fail
    others,             \* the records of sessions that are not followed here
    running,            \* EngineInner::running
    hosting,            \* the accept loop is running
    pending_handshakes, \* EngineInner::pending_handshakes
    sessions,           \* EngineInner::sessions
    stop,               \* the records whose stop flag is set
    bye_requested,      \* the records whose bye_requested flag is set
    pc,                 \* where the thread of an attempt is
    worker,             \* where the RX and TX workers of an attempt are
    owed,               \* who still has to announce the loss of an attempt
    events,             \* what has been announced about an attempt
    stopper,            \* where RelayEngine::shutdown is
    ids                 \* the ids stop_all has collected and not yet ended

slots == <<dialled, strangers, others, pending_handshakes>>
flags == <<stop, bye_requested>>
engine == <<running, hosting, stopper, ids>>
vars == <<engine, slots, sessions, flags, pc, worker, owed, events>>

--------------------------------------------------------------------------------
Direction == {"RX", "TX"}
Actor == {"control", "RX", "TX", "revoke", "stop"}

\* EngineInner::session_alive.
session_alive(c) == running /\ c \in sessions

TableSize == Cardinality(sessions) + others

Announced(c, e) == \E i \in DOMAIN events[c] : events[c][i] = e
Goto(c, p) == pc' = [pc EXCEPT ![c] = p]

\* A peer thread gives its HandshakeSlot back when it ends, however it ends.
EndThread(c, p) ==
    /\ Goto(c, p)
    /\ pending_handshakes' = pending_handshakes - IF c \in dialled THEN 0 ELSE 1
    /\ UNCHANGED <<dialled, strangers, others>>

\* A slip: the loss is announced whether or not the record was found.
Teardown_announces_always(c, actor) ==
    /\ sessions' = sessions \ {c}
    /\ stop' = stop \cup {c}
    /\ owed' = [owed EXCEPT ![c] = @ \cup {actor}]

\* EngineInner::remove_session and, for the one caller that found the record,
\* the duty to announce the loss.
Teardown(c, actor) ==
    /\ sessions' = sessions \ {c}
    /\ IF c \in sessions
       THEN stop' = stop \cup {c} /\ owed' = [owed EXCEPT ![c] = @ \cup {actor}]
       ELSE UNCHANGED <<stop, owed>>

TeardownAndClose(c) ==
    /\ Teardown(c, "control")
    /\ Goto(c, "closing")
    /\ UNCHANGED <<engine, slots, bye_requested, worker, events>>

\* fail_attempt: the loss of an attempt that never had a record.
FailAttempt(c) ==
    /\ owed' = [owed EXCEPT ![c] = @ \cup {"control"}]
    /\ Goto(c, "closing")
    /\ UNCHANGED <<engine, slots, sessions, flags, worker, events>>

\* The thread returns and says nothing.
Close(c) ==
    /\ Goto(c, "closing")
    /\ UNCHANGED <<engine, slots, sessions, flags, worker, owed, events>>

Advance(c, p) ==
    /\ Goto(c, p)
    /\ UNCHANGED <<engine, slots, sessions, flags, worker, owed, events>>

--------------------------------------------------------------------------------
Init ==
    /\ dialled \in SUBSET Dialled /\ Attempt \ Hosted \subseteq dialled
    /\ strangers = 0 /\ others = 0
    /\ running = TRUE /\ hosting = FALSE
    /\ pending_handshakes = 0
    /\ sessions = {} /\ stop = {} /\ bye_requested = {}
    /\ pc = [c \in Attempt |-> "idle"]
    /\ worker = [c \in Attempt |-> [d \in Direction |-> "off"]]
    /\ owed = [c \in Attempt |-> {}]
    /\ events = [c \in Attempt |-> <<>>]
    /\ stopper = "none" /\ ids = {}

\* The listener.

HostStart ==
    /\ running /\ ~hosting
    /\ hosting' = TRUE
    /\ UNCHANGED <<running, stopper, ids, slots, sessions, flags, pc, worker,
                   owed, events>>

\* host_stop returns once the accept loop has been joined; sessions go on.
HostStop ==
    /\ running /\ hosting
    /\ hosting' = FALSE
    /\ UNCHANGED <<running, stopper, ids, slots, sessions, flags, pc, worker,
                   owed, events>>

\* A slot is claimed and the peer thread started; when it cannot be started
\* its closure, and the slot in it, is dropped at once.
Accept(c) ==
    /\ hosting /\ pc[c] = "idle" /\ c \notin dialled
    /\ pending_handshakes < MaxHandshakes
    /\ \/ Goto(c, "hello") /\ pending_handshakes' = pending_handshakes + 1
       \/ Goto(c, "closed") /\ UNCHANGED pending_handshakes
    /\ UNCHANGED <<engine, dialled, strangers, others, sessions, flags, worker, owed, events>>

\* No slot is free: PairFail "the host is busy".
Refuse(c) ==
    /\ hosting /\ pc[c] = "idle" /\ c \notin dialled
    /\ pending_handshakes >= MaxHandshakes
    /\ Advance(c, "refused")

\* A connection that sits in the handshake and fails it.
StrangerConnects ==
    /\ hosting /\ strangers < MaxStrangers
    /\ pending_handshakes < MaxHandshakes
    /\ strangers' = strangers + 1 /\ pending_handshakes' = pending_handshakes + 1
    /\ UNCHANGED <<engine, dialled, others, sessions, flags, pc, worker, owed, events>>

StrangerFails ==
    /\ strangers > 0
    /\ strangers' = strangers - 1 /\ pending_handshakes' = pending_handshakes - 1
    /\ UNCHANGED <<engine, dialled, others, sessions, flags, pc, worker, owed, events>>

\* The sessions that are not followed come and go, and fill the table.
OtherRegisters ==
    /\ running /\ TableSize < MaxSessions
    /\ others' = others + 1
    /\ UNCHANGED <<engine, dialled, strangers, pending_handshakes, sessions, flags, pc, worker,
                   owed, events>>

OtherLeaves ==
    /\ others > 0
    /\ others' = others - 1
    /\ UNCHANGED <<engine, dialled, strangers, pending_handshakes, sessions, flags, pc, worker,
                   owed, events>>

\* The first frame asks for a PIN pairing, which is turned away early when the
\* table is full, or proves a credential and goes on to insert_session.  A
\* peer that fails either, or is locked out, is turned away.
PairByPin(c) ==
    /\ pc[c] = "hello"
    /\ \/ TableSize < MaxSessions /\ Advance(c, "setup")
       \/ Close(c)

PairTrusted(c) ==
    /\ pc[c] = "hello"
    /\ Advance(c, "setup")

\* PairOk, SessionStart and the checks of what was asked for.
Negotiate(c) ==
    /\ pc[c] = "setup" /\ c \notin dialled
    /\ \/ Advance(c, "insert")
       \/ Close(c)

\* RelayHandle::connect: the attempt's own thread may fail to start.
Connect(c) ==
    /\ running /\ pc[c] = "idle" /\ c \in dialled
    /\ \/ Advance(c, "dialling")
       \/ FailAttempt(c)

\* The connection and the pairing, by PIN or by credential.
Dial(c) ==
    /\ pc[c] = "dialling"
    /\ \/ Advance(c, "setup")
       \/ FailAttempt(c)

\* PairOk, SessionStart, SessionReady and the audio socket.
StartSession(c) ==
    /\ pc[c] = "setup" /\ c \in dialled
    /\ \/ Advance(c, "insert")
       \/ FailAttempt(c)

\* EngineInner::insert_session, which re-checks the limit under the lock.
insert_session(c) ==
    /\ pc[c] = "insert"
    /\ \/ /\ TableSize < MaxSessions
          /\ sessions' = sessions \cup {c}
          /\ Goto(c, "RX")
          /\ UNCHANGED <<engine, slots, flags, worker, owed, events>>
       \/ /\ TableSize >= MaxSessions
          /\ IF c \in dialled THEN FailAttempt(c) ELSE Close(c)

\* One worker is started and reports that it is ready; a worker that failed
\* or took too long raises the stop flag and ends the start-up.
StartWorker(c, d) ==
    /\ pc[c] = d
    /\ \/ /\ worker' = [worker EXCEPT ![c][d] = "running"]
          /\ Goto(c, IF d = "RX" THEN "TX" ELSE "check")
          /\ UNCHANGED stop
       \/ /\ \E w \in {"off", "running"} : worker' = [worker EXCEPT ![c][d] = w]
          /\ stop' = stop \cup {c}
          /\ Goto(c, "abort")
    /\ UNCHANGED <<engine, slots, sessions, bye_requested, owed, events>>

\* A slip: a failed start-up ends through fail_session, which takes the
\* raised stop flag for an orderly shutdown.
AbortSetup_as_fail_session(c) ==
    /\ pc[c] = "abort"
    /\ IF c \in stop THEN Close(c) ELSE TeardownAndClose(c)

\* Start-up failed: the record is removed and the loss announced.
AbortSetup(c) ==
    /\ pc[c] = "abort"
    /\ TeardownAndClose(c)

\* The session may already have been removed: say nothing.
CheckAlive(c) ==
    /\ pc[c] = "check"
    /\ \/ session_alive(c) /\ Advance(c, IF c \in dialled THEN "announce" ELSE "ready")
       \/ ~session_alive(c) /\ Close(c)

SendReady(c) ==
    /\ pc[c] = "ready"
    /\ \/ Advance(c, "announce")
       \/ TeardownAndClose(c)

AnnounceEstablished(c) ==
    /\ pc[c] = "announce"
    /\ events' = [events EXCEPT ![c] = Append(@, "Established")]
    /\ Goto(c, "watch")
    /\ UNCHANGED <<engine, slots, sessions, flags, worker, owed>>

\* A slip: the farewell flag is not looked at.
WatchStops_without_bye(c) ==
    /\ pc[c] = "watch"
    /\ ~running \/ c \in stop
    /\ TeardownAndClose(c)

\* watch_control sees that the engine or the session has stopped, or that a
\* farewell was asked for and sends it.
WatchStops(c) ==
    /\ pc[c] = "watch"
    /\ ~running \/ c \in stop \/ c \in bye_requested
    /\ TeardownAndClose(c)

\* The peer says goodbye, or the link drops.
PeerBye(c) ==
    /\ pc[c] = "watch" /\ running /\ c \notin stop
    /\ TeardownAndClose(c)

LinkDrops(c) ==
    /\ pc[c] = "watch" /\ running /\ c \notin stop
    /\ Advance(c, "dropped")

\* A host waits for a resume: the resuming connection is a new peer thread,
\* so it needs a slot of its own, and the waiting thread then gives up its
\* own.  The new watch first looks at the flags.
Resume(c) ==
    /\ pc[c] = "dropped" /\ session_alive(c)
    /\ c \notin dialled => hosting /\ pending_handshakes < MaxHandshakes
    /\ c \in dialled => c \notin bye_requested
    /\ IF c \in bye_requested THEN TeardownAndClose(c) ELSE Advance(c, "watch")

\* The grace of a host or the attempts of a client run out, or the client
\* gives up because it was told to leave.
GiveUp(c) ==
    /\ pc[c] = "dropped" /\ session_alive(c) /\ c \notin stop
    /\ TeardownAndClose(c)

\* The session was ended while its link was down: a waiting host thread just
\* returns, a client thread tears down what is left.
DroppedEnds(c) ==
    /\ pc[c] = "dropped"
    /\ c \in stop \/ ~session_alive(c)
    /\ IF c \in dialled THEN TeardownAndClose(c) ELSE Close(c)

\* Whoever owes the announcement makes it.
AnnounceLoss(c, actor) ==
    /\ actor \in owed[c]
    /\ events' = [events EXCEPT ![c] = Append(@, "Lost")]
    /\ owed' = [owed EXCEPT ![c] = @ \ {actor}]
    /\ UNCHANGED <<engine, slots, sessions, flags, pc, worker>>

CloseThread(c) ==
    /\ pc[c] = "closing" /\ "control" \notin owed[c]
    /\ EndThread(c, "closed")
    /\ UNCHANGED <<engine, sessions, flags, worker, owed, events>>

ControlStep(c) ==
    \/ PairByPin(c) \/ PairTrusted(c) \/ Negotiate(c) \/ Dial(c) \/ StartSession(c)
    \/ insert_session(c)
    \/ \E d \in Direction : StartWorker(c, d)
    \/ AbortSetup(c) \/ CheckAlive(c) \/ SendReady(c) \/ AnnounceEstablished(c)
    \/ WatchStops(c) \/ Resume(c) \/ GiveUp(c) \/ DroppedEnds(c) \/ CloseThread(c)

--------------------------------------------------------------------------------
\* The audio workers.

SetWorker(c, d, w) == worker' = [worker EXCEPT ![c][d] = w]

\* fail_session, up to its Error event: an orderly shutdown is not a fault.
WorkerFaults(c, d) ==
    /\ worker[c][d] = "running"
    /\ SetWorker(c, d, IF c \in stop \/ ~session_alive(c) THEN "exited" ELSE "failing")
    /\ UNCHANGED <<engine, slots, sessions, flags, pc, owed, events>>

\* fail_session, its teardown.
WorkerTearsDown(c, d) ==
    /\ worker[c][d] = "failing"
    /\ Teardown(c, d)
    /\ SetWorker(c, d, "exited")
    /\ UNCHANGED <<engine, slots, bye_requested, pc, events>>

\* A slip: a worker looks for its record only, not at the running flag.
WorkerEnds_when_removed(c, d) ==
    /\ worker[c][d] = "running" /\ c \notin sessions
    /\ SetWorker(c, d, "exited")
    /\ UNCHANGED <<engine, slots, sessions, flags, pc, owed, events>>

WorkerEnds(c, d) ==
    /\ worker[c][d] = "running" /\ ~session_alive(c)
    /\ SetWorker(c, d, "exited")
    /\ UNCHANGED <<engine, slots, sessions, flags, pc, owed, events>>

--------------------------------------------------------------------------------
\* The embedding.

\* request_bye: an attempt that is not registered yet is not told anything.
Disconnect(c) ==
    /\ running /\ c \in sessions \ bye_requested
    /\ bye_requested' = bye_requested \cup {c}
    /\ UNCHANGED <<engine, slots, sessions, stop, pc, worker, owed, events>>

\* remove_trusted_peer ends the sessions of the revoked peer.
Revoke(c) ==
    /\ running /\ c \in sessions
    /\ Teardown(c, "revoke")
    /\ UNCHANGED <<engine, slots, bye_requested, pc, worker, events>>

\* stop_all: the running flag, the listener, then the sessions it finds.
StopBegins ==
    /\ stopper = "none"
    /\ running' = FALSE /\ stopper' = "host"
    /\ UNCHANGED <<hosting, ids, slots, sessions, flags, pc, worker, owed, events>>

StopHost ==
    /\ stopper = "host"
    /\ hosting' = FALSE /\ stopper' = "collect"
    /\ UNCHANGED <<running, ids, slots, sessions, flags, pc, worker, owed, events>>

CollectSessions ==
    /\ stopper = "collect"
    /\ ids' = sessions /\ stopper' = "ending"
    /\ UNCHANGED <<running, hosting, slots, sessions, flags, pc, worker, owed,
                   events>>

EndSession(c) ==
    /\ stopper = "ending" /\ c \in ids
    /\ \A b \in Attempt : "stop" \notin owed[b]
    /\ Teardown(c, "stop")
    /\ ids' = ids \ {c}
    /\ UNCHANGED <<running, hosting, stopper, slots, bye_requested, pc, worker,
                   events>>

StopEnds ==
    /\ stopper = "ending" /\ ids = {}
    /\ \A b \in Attempt : "stop" \notin owed[b]
    /\ stopper' = "done"
    /\ UNCHANGED <<running, hosting, ids, slots, sessions, flags, pc, worker, owed,
                   events>>

StopStep == StopHost \/ CollectSessions \/ StopEnds \/ \E c \in Attempt : EndSession(c)

--------------------------------------------------------------------------------
Next ==
    \/ HostStart \/ HostStop \/ StrangerConnects \/ StrangerFails \/ OtherRegisters \/ OtherLeaves
    \/ StopBegins \/ StopStep
    \/ \E c \in Attempt :
        \/ Accept(c) \/ Refuse(c) \/ Connect(c)
        \/ ControlStep(c)
        \/ PeerBye(c) \/ LinkDrops(c)
        \/ Disconnect(c) \/ Revoke(c)
        \/ \E d \in Direction : WorkerFaults(c, d) \/ WorkerTearsDown(c, d) \/ WorkerEnds(c, d)
        \/ \E a \in Actor : AnnounceLoss(c, a)

Spec == Init /\ [][Next]_vars

\* Threads that have something to do do it.  Nothing obliges a peer, a link, a
\* device or the embedding to do anything.
Fairness ==
    /\ WF_vars(StopStep)
    /\ \A c \in Attempt :
        /\ WF_vars(ControlStep(c))
        /\ \A d \in Direction : WF_vars(WorkerTearsDown(c, d)) /\ WF_vars(WorkerEnds(c, d))
        /\ \A a \in Actor : WF_vars(AnnounceLoss(c, a))

FairSpec == Spec /\ Fairness

--------------------------------------------------------------------------------
Losses(c) == Cardinality({i \in DOMAIN events[c] : events[c][i] = "Lost"}) + Cardinality(owed[c])

\* A session that left the table is announced as lost exactly once, whichever
\* of its control thread, its two workers, a revocation and the shutdown got
\* there first (teardown, fail_session, fail_attempt); one still in the table
\* is never announced as lost.
OneLossPerSession ==
    \A c \in Attempt :
        /\ Losses(c) <= 1
        /\ c \in stop \ sessions => Losses(c) = 1
        /\ c \in sessions => Losses(c) = 0

\* While the engine runs every registered session has a control thread that
\* is going to end it: none is left in the table with nobody to remove it
\* (the start-up failure paths of client_thread and host_session_after_auth).
NoOrphanSession ==
    running => \A c \in sessions :
        pc[c] \in {"RX", "TX", "abort", "check", "ready", "announce", "watch", "dropped"}

\* Every attempt the embedding dialled is answered by an event, as
\* RelayHandle::connect promises, unless the engine is shut down.
ConnectAnswered ==
    \A c \in Attempt :
        (c \in dialled /\ pc[c] # "idle") ~> (events[c] # <<>> \/ ~running)

\* A session the user disconnected is lost for good, wherever its control
\* thread was when the flag was set (request_bye, watch_control).
DisconnectEnds ==
    \A c \in Attempt : (c \in bye_requested) ~> (Announced(c, "Lost") \/ ~running)

\* After shutdown every control thread and every audio worker of the engine
\* ends, those of sessions that registered after the shutdown looked at the
\* table too (the running flag in session_alive and watch_control).
ThreadsObserveStop ==
    ~running ~> []( \A c \in Attempt :
        /\ pc[c] \in {"idle", "refused", "closed"}
        /\ \A d \in Direction : worker[c][d] \notin {"running", "failing"} )

================================================================================
