------------------------- MODULE RelayLifecycleProofs -------------------------
(***************************************************************************)
(* The losses RelayLifecycle announces, for any number of attempts and any *)
(* limit on sessions and handshakes.  Every action is about one attempt at *)
(* most, so the invariant is stated per attempt: an action is shown to     *)
(* keep it for the attempt it is about, and Untouched does the others.     *)
(***************************************************************************)
EXTENDS RelayLifecycle, FiniteSetTheorems, TLAPS

Event == {"Established", "Lost"}

\* Where a thread is before its attempt has a record, and while it owns one.
Unregistered == {"idle", "refused", "hello", "dialling", "setup", "insert"}
Registered   == {"RX", "TX", "abort", "check", "ready", "announce", "watch", "dropped"}
Place        == Unregistered \cup Registered \cup {"closing", "closed"}

TypeInv ==
    /\ running \in BOOLEAN
    /\ sessions \subseteq Attempt /\ stop \subseteq Attempt /\ ids \subseteq Attempt
    /\ pc \in [Attempt -> Place]
    /\ owed \in [Attempt -> SUBSET Actor]
    /\ events \in [Attempt -> Seq(Event)]

\* The life of one record: not there before insert_session, in the table or
\* stopped while its thread runs, stopped in the table only between a failed
\* start-up and its teardown.
RecordLife(c) ==
    /\ pc[c] \in Unregistered => c \notin sessions \cup stop /\ Losses(c) = 0
    /\ pc[c] \in Registered => c \in sessions \cup stop
    /\ c \in sessions \cap stop => pc[c] = "abort"

OneLoss(c) ==
    /\ Losses(c) <= 1
    /\ c \in stop \ sessions => Losses(c) = 1
    /\ c \in sessions => Losses(c) = 0

NoOrphan(c) == running /\ c \in sessions => pc[c] \in Registered

AttemptInv(c) == RecordLife(c) /\ OneLoss(c) /\ NoOrphan(c)

IInv == TypeInv /\ \A c \in Attempt : AttemptInv(c)

--------------------------------------------------------------------------------
(* Counting the losses.                                                    *)

LostAt(s) == {i \in DOMAIN s : s[i] = "Lost"}

LEMMA LostFinite ==
  ASSUME NEW s \in Seq(Event)
  PROVE  IsFiniteSet(LostAt(s)) /\ Cardinality(LostAt(s)) \in Nat
  <1>1. DOMAIN s = 1..Len(s) /\ Len(s) \in Nat
    OBVIOUS
  <1>2. IsFiniteSet(1..Len(s))
    BY <1>1, FS_Interval
  <1>3. IsFiniteSet(LostAt(s))
    BY <1>1, <1>2, FS_Subset DEF LostAt
  <1> QED  BY <1>3, FS_CardinalityType

LEMMA LostAppended ==
  ASSUME NEW s \in Seq(Event)
  PROVE  /\ Cardinality(LostAt(Append(s, "Lost"))) = Cardinality(LostAt(s)) + 1
         /\ LostAt(Append(s, "Established")) = LostAt(s)
  <1>1. Len(s) \in Nat /\ DOMAIN s = 1..Len(s)
    OBVIOUS
  <1>2. ASSUME NEW e \in Event
        PROVE  /\ DOMAIN Append(s, e) = 1..(Len(s) + 1)
               /\ \A i \in 1..Len(s) : Append(s, e)[i] = s[i]
               /\ Append(s, e)[Len(s) + 1] = e
    BY <1>2
  <1>3. LostAt(Append(s, "Established")) = LostAt(s)
    BY <1>1, <1>2 DEF LostAt, Event
  <1>4. LostAt(Append(s, "Lost")) = LostAt(s) \cup {Len(s) + 1}
    BY <1>1, <1>2 DEF LostAt, Event
  <1>5. Len(s) + 1 \notin LostAt(s)
    BY <1>1 DEF LostAt
  <1> QED  BY <1>3, <1>4, <1>5, LostFinite, FS_AddElement

LEMMA OwedFinite ==
  ASSUME NEW S \in SUBSET Actor
  PROVE  IsFiniteSet(S) /\ Cardinality(S) \in Nat /\ (Cardinality(S) = 0 <=> S = {})
  <1>1. IsFiniteSet(Actor)
    <2>1. IsFiniteSet({"control"} \cup {"RX"})
      BY FS_Singleton, FS_AddElement
    <2>2. IsFiniteSet(({"control"} \cup {"RX"}) \cup {"TX"})
      BY <2>1, FS_AddElement
    <2>3. IsFiniteSet((({"control"} \cup {"RX"}) \cup {"TX"}) \cup {"revoke"})
      BY <2>2, FS_AddElement
    <2>4. IsFiniteSet(((({"control"} \cup {"RX"}) \cup {"TX"}) \cup {"revoke"}) \cup {"stop"})
      BY <2>3, FS_AddElement
    <2>5. Actor = ((({"control"} \cup {"RX"}) \cup {"TX"}) \cup {"revoke"}) \cup {"stop"}
      BY DEF Actor
    <2> QED  BY <2>4, <2>5
  <1>2. IsFiniteSet(S)
    BY <1>1, FS_Subset
  <1> QED  BY <1>2, FS_CardinalityType, FS_EmptySet

LEMMA LossesTyped ==
  ASSUME TypeInv, NEW c \in Attempt
  PROVE  /\ Losses(c) \in Nat
         /\ Losses(c) = 0 => owed[c] = {}
  <1>1. events[c] \in Seq(Event) /\ owed[c] \in SUBSET Actor
    BY DEF TypeInv
  <1>2. Losses(c) = Cardinality(LostAt(events[c])) + Cardinality(owed[c])
    BY DEF Losses, LostAt
  <1> QED  BY <1>1, <1>2, LostFinite, OwedFinite

\* An actor that found the record takes on the duty to announce its loss.
LEMMA LossOwed ==
  ASSUME TypeInv, NEW c \in Attempt, NEW a \in Actor, Losses(c) = 0,
         owed'[c] = owed[c] \cup {a}, events'[c] = events[c]
  PROVE  Losses(c)' = 1
  <1>1. owed[c] = {}
    BY LossesTyped
  <1>2. Cardinality(owed'[c]) = 1 /\ Cardinality(owed[c]) = 0
    BY <1>1, FS_Singleton, FS_EmptySet
  <1>3. Losses(c) = Cardinality(LostAt(events[c])) + Cardinality(owed[c])
    BY DEF Losses, LostAt
  <1>4. Losses(c)' = Cardinality(LostAt(events'[c])) + Cardinality(owed'[c])
    BY DEF Losses, LostAt
  <1>5. Cardinality(LostAt(events[c])) \in Nat
    BY LostFinite DEF TypeInv
  <1> QED  BY <1>2, <1>3, <1>4, <1>5

\* Making the announcement discharges the duty: the sum stays.
LEMMA LossAnnounced ==
  ASSUME TypeInv, NEW c \in Attempt, NEW a \in owed[c],
         owed'[c] = owed[c] \ {a}, events'[c] = Append(events[c], "Lost")
  PROVE  Losses(c)' = Losses(c)
  <1>1. events[c] \in Seq(Event) /\ owed[c] \in SUBSET Actor
    BY DEF TypeInv
  <1>2. Cardinality(LostAt(events'[c])) = Cardinality(LostAt(events[c])) + 1
    BY <1>1, LostAppended
  <1>3. Cardinality(owed'[c]) = Cardinality(owed[c]) - 1
    BY <1>1, OwedFinite, FS_RemoveElement
  <1>4. Losses(c) = Cardinality(LostAt(events[c])) + Cardinality(owed[c])
    BY DEF Losses, LostAt
  <1>5. Losses(c)' = Cardinality(LostAt(events'[c])) + Cardinality(owed'[c])
    BY DEF Losses, LostAt
  <1>6. Cardinality(LostAt(events[c])) \in Nat /\ Cardinality(owed[c]) \in Nat
    BY <1>1, LostFinite, OwedFinite
  <1> QED  BY <1>2, <1>3, <1>4, <1>5, <1>6

LEMMA LossesKept ==
  ASSUME TypeInv, NEW c \in Attempt, owed'[c] = owed[c],
         events'[c] \in {events[c], Append(events[c], "Established")}
  PROVE  Losses(c)' = Losses(c)
  <1>1. events[c] \in Seq(Event)
    BY DEF TypeInv
  <1>2. LostAt(events'[c]) = LostAt(events[c])
    BY <1>1, LostAppended
  <1> QED  BY <1>2 DEF Losses, LostAt

--------------------------------------------------------------------------------
(* What a step does to one attempt.                                        *)

\* Nothing that the invariant says of attempt c changes; the engine may stop.
Untouched(c) ==
    /\ c \in sessions' <=> c \in sessions
    /\ c \in stop' <=> c \in stop
    /\ pc'[c] = pc[c] /\ owed'[c] = owed[c] /\ events'[c] = events[c]
    /\ running' => running

LEMMA UntouchedKeeps ==
  ASSUME TypeInv, NEW c \in Attempt, AttemptInv(c), Untouched(c)
  PROVE  AttemptInv(c)'
  <1>1. Losses(c)' = Losses(c)
    BY LossesKept DEF Untouched
  <1> QED  BY <1>1 DEF AttemptInv, RecordLife, OneLoss, NoOrphan, Untouched

\* remove_session by an actor that owes the loss if it found the record: the
\* thread of the attempt stays where it is, or goes on to its end.
LEMMA TeardownKeeps ==
  ASSUME TypeInv, NEW c \in Attempt, NEW a \in Actor, AttemptInv(c), Teardown(c, a),
         pc'[c] \in {pc[c], "closing"}, events' = events, running' = running
  PROVE  AttemptInv(c)'
  <1>1. pc[c] \in Place /\ pc'[c] \in Place
    BY DEF TypeInv, Place
  <1>2. c \notin sessions'
    BY DEF Teardown
  <1>3. CASE c \in sessions
    <2>1. owed'[c] = owed[c] \cup {a} /\ c \in stop'
      BY <1>3 DEF Teardown, TypeInv
    <2>2. Losses(c)' = 1
      BY <1>3, <2>1, LossOwed DEF AttemptInv, OneLoss
    <2>3. pc'[c] \notin Unregistered
      BY <1>3 DEF AttemptInv, RecordLife, Unregistered
    <2> QED  BY <1>2, <2>1, <2>2, <2>3 DEF AttemptInv, RecordLife, OneLoss, NoOrphan
  <1>4. CASE c \notin sessions
    <2>1. owed'[c] = owed[c] /\ stop' = stop
      BY <1>4 DEF Teardown
    <2>2. Losses(c)' = Losses(c)
      BY <2>1, LossesKept
    <2>3. "closing" \notin Unregistered /\ "closing" \notin Registered
      BY DEF Unregistered, Registered
    <2> QED  BY <1>2, <1>4, <2>1, <2>2, <2>3 DEF AttemptInv, RecordLife, OneLoss, NoOrphan
  <1> QED  BY <1>3, <1>4

\* fail_attempt, from a place at which there has not been a record.
LEMMA FailKeeps ==
  ASSUME TypeInv, NEW c \in Attempt, AttemptInv(c), pc[c] \in Unregistered,
         owed'[c] = owed[c] \cup {"control"}, events' = events, pc'[c] = "closing",
         sessions' = sessions, stop' = stop
  PROVE  AttemptInv(c)'
  <1>1. Losses(c) = 0 /\ c \notin sessions \cup stop
    BY DEF AttemptInv, RecordLife
  <1>2. Losses(c)' = 1
    BY <1>1, LossOwed DEF Actor
  <1>3. "closing" \notin Unregistered /\ "closing" \notin Registered
    BY DEF Unregistered, Registered
  <1> QED  BY <1>1, <1>2, <1>3 DEF AttemptInv, RecordLife, OneLoss, NoOrphan

\* The thread moves on within a phase of its life, and nothing else happens;
\* a thread that ends leaves no record behind in a running engine.
LEMMA AdvanceKeeps ==
  ASSUME TypeInv, NEW c \in Attempt, AttemptInv(c),
         owed'[c] = owed[c], events'[c] \in {events[c], Append(events[c], "Established")},
         sessions' = sessions, stop' = stop, running' = running,
         pc'[c] \in Place,
         pc'[c] \in Unregistered => pc[c] \in Unregistered /\ events'[c] = events[c],
         pc'[c] \in Registered => pc[c] \in Registered,
         pc[c] # "abort",
         pc'[c] \notin Registered => ~(running /\ c \in sessions) /\ c \notin sessions \cap stop
  PROVE  AttemptInv(c)'
  <1>1. Losses(c)' = Losses(c)
    BY LossesKept
  <1> QED  BY <1>1 DEF AttemptInv, RecordLife, OneLoss, NoOrphan

--------------------------------------------------------------------------------
(* Types.                                                                  *)

LEMMA TypeInit == Init => TypeInv
BY DEF Init, TypeInv, Place, Unregistered, Event

LEMMA TypeStep == TypeInv /\ [Next]_vars => TypeInv'
<1> SUFFICES ASSUME TypeInv, [Next]_vars PROVE TypeInv'
    OBVIOUS
<1> USE DEF TypeInv
<1>1. CASE UNCHANGED vars
    BY <1>1 DEF vars, engine, slots, flags
<1>2. CASE \/ HostStart \/ HostStop \/ StrangerConnects \/ StrangerFails
           \/ OtherRegisters \/ OtherLeaves \/ StopBegins \/ StopHost
           \/ CollectSessions \/ StopEnds
    BY <1>2 DEF HostStart, HostStop, StrangerConnects, StrangerFails, OtherRegisters, OtherLeaves,
                StopBegins, StopHost, CollectSessions, StopEnds, engine, flags
<1>3. ASSUME NEW c \in Attempt,
             \/ Accept(c) \/ Refuse(c) \/ PairByPin(c) \/ PairTrusted(c) \/ Negotiate(c)
             \/ Connect(c) \/ Dial(c) \/ StartSession(c) \/ insert_session(c)
             \/ CheckAlive(c) \/ LinkDrops(c) \/ CloseThread(c)
      PROVE TypeInv'
  <2>1. ASSUME NEW q \in Place, Advance(c, q) PROVE TypeInv'
    BY <2>1 DEF Advance, Goto, engine, flags
  <2>2. ASSUME FailAttempt(c) \/ Close(c) PROVE TypeInv'
    BY <2>2 DEF FailAttempt, Close, Goto, engine, flags, Place, Actor
  <2>3. CASE Accept(c) \/ CloseThread(c)
    BY <2>3 DEF Accept, CloseThread, EndThread, Goto, engine, flags, Place, Unregistered
  <2>4. CASE Refuse(c) \/ PairByPin(c) \/ PairTrusted(c) \/ Negotiate(c) \/ Connect(c)
             \/ Dial(c) \/ StartSession(c)
    BY <2>1, <2>2, <2>4 DEF Refuse, PairByPin, PairTrusted, Negotiate, Connect, Dial, StartSession,
                            Place, Unregistered
  <2>5. CASE insert_session(c)
    <3>1. CASE sessions' = sessions \cup {c} /\ Goto(c, "RX") /\ UNCHANGED <<engine, flags, owed, events>>
      BY <3>1 DEF Goto, engine, flags, Place, Registered
    <3> QED  BY <2>2, <2>5, <3>1 DEF insert_session
  <2>6. CASE CheckAlive(c) \/ LinkDrops(c)
    BY <2>1, <2>2, <2>6 DEF CheckAlive, LinkDrops, Place, Registered
  <2> QED  BY <1>3, <2>3, <2>4, <2>5, <2>6
<1>4. ASSUME NEW c \in Attempt, NEW d \in Direction, StartWorker(c, d) PROVE TypeInv'
    BY <1>4 DEF StartWorker, Goto, engine, Place, Registered
<1>5. ASSUME NEW c \in Attempt, NEW a \in Actor, Teardown(c, a)
      PROVE  sessions' \subseteq Attempt /\ stop' \subseteq Attempt
             /\ owed' \in [Attempt -> SUBSET Actor]
  <2>1. CASE c \in sessions
    <3>1. owed[c] \cup {a} \in SUBSET Actor
      OBVIOUS
    <3>2. stop' = stop \cup {c} /\ owed' = [owed EXCEPT ![c] = @ \cup {a}]
      BY <1>5, <2>1 DEF Teardown
    <3> QED  BY <1>5, <3>1, <3>2 DEF Teardown
  <2>2. CASE c \notin sessions
    BY <1>5, <2>2 DEF Teardown
  <2> QED  BY <2>1, <2>2
<1>6. ASSUME NEW c \in Attempt, TeardownAndClose(c) PROVE TypeInv'
    BY <1>5, <1>6 DEF TeardownAndClose, Goto, engine, Place, Actor
<1>7. ASSUME NEW c \in Attempt,
             \/ AbortSetup(c) \/ SendReady(c) \/ WatchStops(c) \/ PeerBye(c) \/ Resume(c)
             \/ GiveUp(c) \/ DroppedEnds(c)
      PROVE TypeInv'
  <2>1. CASE TeardownAndClose(c)
    BY <1>6, <2>1
  <2>2. CASE Advance(c, "announce") \/ Advance(c, "watch") \/ Close(c)
    BY <2>2 DEF Advance, Close, Goto, engine, flags, Place, Registered
  <2> QED
    BY ONLY <1>7, <2>1, <2>2 DEF AbortSetup, SendReady, WatchStops, PeerBye, Resume, GiveUp, DroppedEnds
<1>8. ASSUME NEW c \in Attempt,
             AnnounceEstablished(c) \/ \E a \in Actor : AnnounceLoss(c, a)
      PROVE TypeInv'
  <2>1. \A e \in Event : Append(events[c], e) \in Seq(Event)
    OBVIOUS
  <2>2. CASE AnnounceEstablished(c)
    BY <2>1, <2>2 DEF AnnounceEstablished, Goto, engine, flags, Place, Registered, Event
  <2>3. ASSUME NEW a \in Actor, AnnounceLoss(c, a) PROVE TypeInv'
    <3>1. owed[c] \ {a} \in SUBSET Actor
      OBVIOUS
    <3> QED  BY <2>1, <2>3, <3>1 DEF AnnounceLoss, engine, flags, Event
  <2> QED  BY <1>8, <2>2, <2>3
<1>9. ASSUME NEW c \in Attempt, NEW d \in Direction,
             WorkerFaults(c, d) \/ WorkerTearsDown(c, d) \/ WorkerEnds(c, d)
      PROVE TypeInv'
    BY <1>5, <1>9 DEF WorkerFaults, WorkerTearsDown, WorkerEnds, engine, flags, Actor, Direction
<1>10. ASSUME NEW c \in Attempt, Disconnect(c) \/ Revoke(c) \/ EndSession(c) PROVE TypeInv'
    BY <1>5, <1>10 DEF Disconnect, Revoke, EndSession, engine, flags, Actor
<1> QED
    BY <1>1, <1>2, <1>3, <1>4, <1>7, <1>8, <1>9, <1>10 DEF Next, ControlStep, StopStep

--------------------------------------------------------------------------------
(* The invariant.                                                          *)

LEMMA InitInv == Init => IInv
<1> SUFFICES ASSUME Init PROVE IInv
    OBVIOUS
<1>1. TypeInv
    BY TypeInit
<1>2. ASSUME NEW c \in Attempt PROVE AttemptInv(c)
  <2>1. sessions = {} /\ stop = {} /\ pc[c] = "idle" /\ owed[c] = {} /\ events[c] = <<>>
    BY DEF Init
  <2>2. Losses(c) = 0
    <3>1. {i \in DOMAIN events[c] : events[c][i] = "Lost"} = {}
      BY <2>1
    <3> QED  BY <2>1, <3>1, FS_EmptySet DEF Losses
  <2> QED  BY <2>1, <2>2 DEF AttemptInv, RecordLife, OneLoss, NoOrphan, Unregistered, Registered
<1> QED  BY <1>1, <1>2 DEF IInv

\* A step about attempt c keeps the invariant of the other attempts.
LEMMA OthersKeep ==
  ASSUME IInv, NEW c \in Attempt, AttemptInv(c)',
         \A b \in Attempt \ {c} : Untouched(b)
  PROVE  \A b \in Attempt : AttemptInv(b)'
BY UntouchedKeeps DEF IInv

LEMMA AdvanceInv ==
  ASSUME IInv, NEW c \in Attempt, NEW q \in Place, Goto(c, q),
         UNCHANGED <<running, sessions, stop, owed, events>>,
         q \in Unregistered => pc[c] \in Unregistered,
         q \in Registered => pc[c] \in Registered,
         pc[c] # "abort",
         q \notin Registered => ~(running /\ c \in sessions)
  PROVE  \A b \in Attempt : AttemptInv(b)'
  <1>1. TypeInv /\ AttemptInv(c)
    BY DEF IInv
  <1>2. pc'[c] = q /\ \A b \in Attempt \ {c} : pc'[b] = pc[b]
    BY <1>1 DEF Goto, TypeInv
  <1>3. AttemptInv(c)'
    BY <1>1, <1>2, AdvanceKeeps DEF AttemptInv, RecordLife
  <1>4. \A b \in Attempt \ {c} : Untouched(b)
    BY <1>2 DEF Untouched
  <1> QED  BY <1>3, <1>4, OthersKeep

LEMMA FailInv ==
  ASSUME IInv, NEW c \in Attempt, FailAttempt(c), pc[c] \in Unregistered
  PROVE  \A b \in Attempt : AttemptInv(b)'
  <1>1. TypeInv /\ AttemptInv(c)
    BY DEF IInv
  <1>2. /\ owed' = [owed EXCEPT ![c] = @ \cup {"control"}]
        /\ pc' = [pc EXCEPT ![c] = "closing"]
        /\ sessions' = sessions /\ stop' = stop /\ events' = events /\ running' = running
    BY DEF FailAttempt, Goto, engine, flags
  <1>3. owed'[c] = owed[c] \cup {"control"} /\ pc'[c] = "closing"
    BY <1>1, <1>2 DEF TypeInv
  <1>4. AttemptInv(c)'
    BY <1>1, <1>2, <1>3, FailKeeps
  <1>5. \A b \in Attempt \ {c} : Untouched(b)
    BY <1>1, <1>2 DEF Untouched, TypeInv
  <1> QED  BY <1>4, <1>5, OthersKeep

LEMMA TeardownInv ==
  ASSUME IInv, NEW c \in Attempt, NEW a \in Actor, Teardown(c, a),
         Goto(c, "closing") \/ UNCHANGED pc, UNCHANGED <<running, events>>
  PROVE  \A b \in Attempt : AttemptInv(b)'
  <1>1. TypeInv /\ AttemptInv(c)
    BY DEF IInv
  <1>2. pc'[c] \in {pc[c], "closing"} /\ \A b \in Attempt \ {c} : pc'[b] = pc[b]
    BY <1>1 DEF Goto, TypeInv
  <1>3. AttemptInv(c)'
    BY <1>1, <1>2, TeardownKeeps
  <1>4. ASSUME NEW b \in Attempt \ {c} PROVE Untouched(b)
    <2>1. owed'[b] = owed[b]
      BY <1>1 DEF Teardown, TypeInv
    <2>2. (b \in sessions' <=> b \in sessions) /\ (b \in stop' <=> b \in stop)
      BY DEF Teardown
    <2> QED  BY <1>2, <2>1, <2>2 DEF Untouched
  <1> QED  BY <1>3, <1>4, OthersKeep

LEMMA EndsInv ==
  ASSUME IInv, NEW c \in Attempt, TeardownAndClose(c)
  PROVE  \A b \in Attempt : AttemptInv(b)'
BY TeardownInv DEF TeardownAndClose, Actor, engine

\* The steps of an attempt that has no record yet.
LEMMA SetupInv ==
  ASSUME IInv, NEW c \in Attempt,
         \/ Accept(c) \/ Refuse(c) \/ PairByPin(c) \/ PairTrusted(c) \/ Negotiate(c)
         \/ Connect(c) \/ Dial(c) \/ StartSession(c)
  PROVE  \A b \in Attempt : AttemptInv(b)'
  <1>1. pc[c] \in Unregistered /\ c \notin sessions
    <2>1. pc[c] \in {"idle", "hello", "dialling", "setup"}
      BY DEF Accept, Refuse, Advance, PairByPin, PairTrusted, Negotiate, Connect, Dial, StartSession
    <2> QED  BY <2>1 DEF Unregistered, IInv, AttemptInv, RecordLife
  <1>2. ASSUME NEW q \in Place \ Registered, Goto(c, q), UNCHANGED <<running, sessions, stop, owed, events>>
        PROVE  \A b \in Attempt : AttemptInv(b)'
    BY <1>1, <1>2, AdvanceInv DEF Unregistered
  <1>3. ASSUME NEW q \in Place \ Registered, Advance(c, q)
        PROVE  \A b \in Attempt : AttemptInv(b)'
    BY <1>2, <1>3 DEF Advance, engine, flags
  <1>4. CASE Close(c)
    BY <1>2, <1>4 DEF Close, engine, flags, Place, Registered
  <1>5. CASE FailAttempt(c)
    BY <1>1, <1>5, FailInv
  <1>6. CASE Accept(c)
    BY <1>2, <1>6 DEF Accept, engine, flags, Place, Unregistered, Registered
  <1> QED
    BY <1>3, <1>4, <1>5, <1>6 DEF Refuse, PairByPin, PairTrusted, Negotiate, Connect, Dial, StartSession,
                                  Place, Unregistered, Registered

LEMMA InsertInv ==
  ASSUME IInv, NEW c \in Attempt, insert_session(c)
  PROVE  \A b \in Attempt : AttemptInv(b)'
  <1>1. TypeInv /\ AttemptInv(c) /\ pc[c] = "insert"
    BY DEF IInv, insert_session
  <1>2. c \notin sessions \cup stop /\ Losses(c) = 0
    BY <1>1 DEF AttemptInv, RecordLife, Unregistered
  <1>3. CASE sessions' = sessions \cup {c} /\ Goto(c, "RX") /\ UNCHANGED <<engine, flags, owed, events>>
    <2>1. Losses(c)' = 0
      BY <1>1, <1>2, <1>3, LossesKept
    <2>2. pc'[c] = "RX" /\ stop' = stop
      BY <1>1, <1>3 DEF Goto, TypeInv, flags
    <2>3. AttemptInv(c)'
      BY <1>2, <1>3, <2>1, <2>2 DEF AttemptInv, RecordLife, OneLoss, NoOrphan, Unregistered, Registered
    <2>4. \A b \in Attempt \ {c} : Untouched(b)
      BY <1>1, <1>3 DEF Untouched, Goto, TypeInv, engine, flags
    <2> QED  BY <2>3, <2>4, OthersKeep
  <1>4. CASE FailAttempt(c)
    BY <1>1, <1>4, FailInv DEF Unregistered
  <1>5. CASE Close(c)
    BY <1>1, <1>2, <1>5, AdvanceInv DEF Close, engine, flags, Place, Unregistered, Registered
  <1> QED  BY <1>3, <1>4, <1>5 DEF insert_session

\* A worker that does not start raises the stop flag of a record that may
\* still be in the table: AbortSetup then removes it and owes the loss.
LEMMA WorkerInv ==
  ASSUME IInv, NEW c \in Attempt, NEW d \in Direction, StartWorker(c, d)
  PROVE  \A b \in Attempt : AttemptInv(b)'
  <1>1. TypeInv /\ AttemptInv(c) /\ pc[c] \in {"RX", "TX"}
    BY DEF IInv, StartWorker, Direction
  <1>2. UNCHANGED <<running, sessions, owed, events>>
    BY DEF StartWorker, engine
  <1>3. CASE Goto(c, IF d = "RX" THEN "TX" ELSE "check") /\ UNCHANGED stop
    <2> DEFINE q == IF d = "RX" THEN "TX" ELSE "check"
    <2>1. q \in Place /\ q \in Registered /\ q \notin Unregistered
      BY DEF Place, Registered, Unregistered
    <2>2. pc[c] \in Registered /\ pc[c] # "abort"
      BY <1>1 DEF Registered
    <2>3. Goto(c, q)
      BY <1>3
    <2> HIDE DEF q
    <2> QED  BY <1>2, <1>3, <2>1, <2>2, <2>3, AdvanceInv
  <1>4. CASE stop' = stop \cup {c} /\ Goto(c, "abort")
    <2>1. pc'[c] = "abort" /\ Losses(c)' = Losses(c)
      BY <1>1, <1>2, <1>4, LossesKept DEF Goto, TypeInv
    <2>2. c \in sessions \cup stop
      BY <1>1 DEF AttemptInv, RecordLife, Registered
    <2>3. AttemptInv(c)'
      BY <1>1, <1>2, <1>4, <2>1, <2>2
         DEF AttemptInv, RecordLife, OneLoss, NoOrphan, Unregistered, Registered
    <2>4. \A b \in Attempt \ {c} : Untouched(b)
      BY <1>1, <1>2, <1>4 DEF Untouched, Goto, TypeInv
    <2> QED  BY <2>3, <2>4, OthersKeep
  <1> QED  BY <1>3, <1>4 DEF StartWorker

\* The thread of a registered attempt.
LEMMA ControlInv ==
  ASSUME IInv, NEW c \in Attempt,
         \/ AbortSetup(c) \/ CheckAlive(c) \/ SendReady(c) \/ WatchStops(c) \/ PeerBye(c)
         \/ LinkDrops(c) \/ Resume(c) \/ GiveUp(c) \/ DroppedEnds(c)
  PROVE  \A b \in Attempt : AttemptInv(b)'
  <1>1. TypeInv /\ AttemptInv(c)
    BY DEF IInv
  <1>2. CASE TeardownAndClose(c)
    BY <1>2, EndsInv
  <1>3. ASSUME NEW q \in Registered, Advance(c, q), pc[c] \in Registered, pc[c] # "abort"
        PROVE  \A b \in Attempt : AttemptInv(b)'
    <2>1. q \in Place /\ q \notin Unregistered
      BY DEF Place, Registered, Unregistered
    <2> QED  BY <1>3, <2>1, AdvanceInv DEF Advance, engine, flags
  <1>4. CASE Close(c) /\ pc[c] # "abort" /\ ~(running /\ c \in sessions)
    BY <1>4, AdvanceInv DEF Close, engine, flags, Place, Unregistered, Registered
  <1>5. CASE AbortSetup(c) \/ WatchStops(c) \/ PeerBye(c) \/ GiveUp(c)
    BY <1>2, <1>5 DEF AbortSetup, WatchStops, PeerBye, GiveUp
  <1>6. CASE CheckAlive(c)
    BY <1>3, <1>4, <1>6 DEF CheckAlive, session_alive, Registered
  <1>7. CASE SendReady(c) \/ LinkDrops(c) \/ Resume(c)
    BY <1>2, <1>3, <1>7 DEF SendReady, LinkDrops, Resume, Registered
  <1>8. CASE DroppedEnds(c)
    <2>1. pc[c] = "dropped" /\ ~(running /\ c \in sessions)
      BY <1>1, <1>8 DEF DroppedEnds, session_alive, AttemptInv, RecordLife
    <2> QED  BY <1>2, <1>4, <1>8, <2>1 DEF DroppedEnds
  <1> QED  BY <1>5, <1>6, <1>7, <1>8

\* The announcements.
LEMMA AnnounceInv ==
  ASSUME IInv, NEW c \in Attempt,
         AnnounceEstablished(c) \/ \E a \in Actor : AnnounceLoss(c, a)
  PROVE  \A b \in Attempt : AttemptInv(b)'
  <1>1. TypeInv /\ AttemptInv(c)
    BY DEF IInv
  <1>2. CASE AnnounceEstablished(c)
    <2>1. /\ pc[c] = "announce" /\ pc'[c] = "watch"
          /\ owed' = owed /\ events'[c] = Append(events[c], "Established")
          /\ sessions' = sessions /\ stop' = stop /\ running' = running
      BY <1>1, <1>2 DEF AnnounceEstablished, Goto, TypeInv, engine, flags
    <2>2. AttemptInv(c)'
      BY <1>1, <2>1, AdvanceKeeps DEF Place, Unregistered, Registered
    <2>3. \A b \in Attempt \ {c} : Untouched(b)
      BY <1>1, <1>2, <2>1 DEF AnnounceEstablished, Goto, TypeInv, Untouched
    <2> QED  BY <2>2, <2>3, OthersKeep
  <1>3. ASSUME NEW a \in Actor, AnnounceLoss(c, a)
        PROVE  \A b \in Attempt : AttemptInv(b)'
    <2>1. /\ a \in owed[c] /\ owed'[c] = owed[c] \ {a}
          /\ events'[c] = Append(events[c], "Lost")
          /\ pc' = pc /\ sessions' = sessions /\ stop' = stop /\ running' = running
      BY <1>1, <1>3 DEF AnnounceLoss, TypeInv, engine, flags
    <2>2. Losses(c)' = Losses(c)
      BY <1>1, <2>1, LossAnnounced
    <2>3. AttemptInv(c)'
      BY <1>1, <2>1, <2>2 DEF AttemptInv, RecordLife, OneLoss, NoOrphan
    <2>4. \A b \in Attempt \ {c} : Untouched(b)
      BY <1>1, <1>3, <2>1 DEF AnnounceLoss, TypeInv, Untouched
    <2> QED  BY <2>3, <2>4, OthersKeep
  <1> QED  BY <1>2, <1>3

LEMMA StepInv == IInv /\ [Next]_vars => IInv'
<1> SUFFICES ASSUME IInv, [Next]_vars PROVE IInv'
    OBVIOUS
<1>1. TypeInv /\ TypeInv'
    BY TypeStep DEF IInv
<1> SUFFICES \A b \in Attempt : AttemptInv(b)'
    BY <1>1 DEF IInv
<1>2. ASSUME \A b \in Attempt : Untouched(b) PROVE \A b \in Attempt : AttemptInv(b)'
    BY <1>1, <1>2, UntouchedKeeps DEF IInv
<1>3. CASE UNCHANGED vars
    BY <1>2, <1>3 DEF vars, engine, flags, Untouched
<1>4. CASE \/ HostStart \/ HostStop \/ StrangerConnects \/ StrangerFails
           \/ OtherRegisters \/ OtherLeaves \/ StopBegins \/ StopHost
           \/ CollectSessions \/ StopEnds
    BY <1>2, <1>4 DEF HostStart, HostStop, StrangerConnects, StrangerFails, OtherRegisters,
                      OtherLeaves, StopBegins, StopHost, CollectSessions, StopEnds, engine, flags,
                      Untouched
<1>5. ASSUME NEW c \in Attempt, NEW d \in Direction,
             WorkerFaults(c, d) \/ WorkerEnds(c, d) \/ Disconnect(c)
      PROVE  \A b \in Attempt : AttemptInv(b)'
  <2>1. UNCHANGED <<running, sessions, stop, pc, owed, events>>
    BY <1>5 DEF WorkerFaults, WorkerEnds, Disconnect, engine, flags
  <2> QED  BY <1>2, <2>1 DEF Untouched
<1>6. ASSUME NEW c \in Attempt, CloseThread(c)
      PROVE  \A b \in Attempt : AttemptInv(b)'
  <2>1. /\ pc[c] = "closing" /\ Goto(c, "closed")
        /\ UNCHANGED <<running, sessions, stop, owed, events>>
    BY <1>6 DEF CloseThread, EndThread, engine, flags
  <2>2. ~(running /\ c \in sessions)
    BY <2>1 DEF IInv, AttemptInv, NoOrphan, Registered
  <2> QED  BY <2>1, <2>2, AdvanceInv DEF Place, Unregistered, Registered
<1>7. ASSUME NEW c \in Attempt, NEW d \in Direction,
             WorkerTearsDown(c, d) \/ Revoke(c) \/ EndSession(c)
      PROVE  \A b \in Attempt : AttemptInv(b)'
    BY <1>7, TeardownInv DEF WorkerTearsDown, Revoke, EndSession, engine, Actor, Direction
<1>8. ASSUME NEW c \in Attempt, ControlStep(c)
      PROVE  \A b \in Attempt : AttemptInv(b)'
    BY <1>6, <1>8, SetupInv, InsertInv, WorkerInv, ControlInv, AnnounceInv DEF ControlStep
<1> QED
    BY <1>3, <1>4, <1>5, <1>7, <1>8, SetupInv, ControlInv, AnnounceInv
       DEF Next, StopStep, Direction

LEMMA Invariance == Spec => []IInv
<1> QED  BY InitInv, StepInv, PTL DEF Spec

\* Every record, thread position, duty and announcement keeps its type.
THEOREM TypeCorrect == Spec => []TypeInv
<1>1. IInv => TypeInv
    BY DEF IInv
<1> QED  BY <1>1, Invariance, PTL

\* Whichever of the control thread, the two workers, a revocation and the
\* shutdown removes a record (EngineInner::remove_session), its loss is
\* announced once, and never while it is still in the table (teardown,
\* fail_session, fail_attempt).
THEOREM LossAnnouncedOnce == Spec => []OneLossPerSession
<1>1. IInv => OneLossPerSession
    BY DEF IInv, AttemptInv, OneLoss, OneLossPerSession
<1> QED  BY <1>1, Invariance, PTL

\* While the engine runs, every record in the table has a control thread that
\* will end it, after a failed start-up of the workers too.
THEOREM RegisteredHasThread == Spec => []NoOrphanSession
<1>1. IInv => NoOrphanSession
    BY DEF IInv, AttemptInv, NoOrphan, NoOrphanSession, Registered, TypeInv
<1> QED  BY <1>1, Invariance, PTL
================================================================================
