--------------------------- MODULE RelayResumeProofs ---------------------------
(***************************************************************************)
(* Invariants of RelayResume for any number of connections, any bound on   *)
(* the generations, whether or not some ResumeOk fails to be written.     *)
(***************************************************************************)
EXTENDS RelayResume, TLAPS

\* Besides the types: the session is announced lost, and its record stopped,
\* only when it leaves the table.
LossCounted == registered => session_lost = 0 /\ ~stop

TypeInv == TypeOK /\ LossCounted

LEMMA StatesTyped ==
    /\ Active \in ControlState
    /\ \A g \in Generation : ResumeEligible(g) \in ControlState
    /\ \A g \in Generation : Resuming(g) \in ControlState
BY ResumeAssumption DEF Active, ResumeEligible, Resuming, ControlState, Generation

LEMMA RemovalTyped ==
    TypeInv /\ remove_session =>
        /\ registered' = FALSE
        /\ stop' \in BOOLEAN
        /\ session_lost' \in {0, 1}
        /\ LossCounted'
<1> SUFFICES ASSUME TypeInv, remove_session PROVE
        /\ registered' = FALSE
        /\ stop' \in BOOLEAN
        /\ session_lost' \in {0, 1}
        /\ LossCounted'
    OBVIOUS
<1>1. registered' = FALSE
    BY DEF remove_session
<1>2. stop' \in BOOLEAN
    BY Zenon DEF remove_session, TypeInv, TypeOK
<1>3. CASE registered
    BY <1>1, <1>2, <1>3 DEF remove_session, TypeInv, TypeOK, LossCounted
<1>4. CASE ~registered
    BY <1>1, <1>2, <1>4 DEF remove_session, TypeInv, TypeOK, LossCounted
<1>5. QED
    BY <1>3, <1>4 DEF TypeInv, TypeOK

LEMMA TypeInit == Init => TypeInv
<1> SUFFICES ASSUME Init PROVE TypeInv
    OBVIOUS
<1>1. 0 \in Generation /\ 1 \in Generation
    BY ResumeAssumption DEF Generation
<1>2. /\ control_state \in ControlState
      /\ stop \in BOOLEAN /\ bye_requested \in BOOLEAN
      /\ running \in BOOLEAN /\ registered \in BOOLEAN
    BY StatesTyped DEF Init
<1>3. pc \in [Thread -> PC]
    BY DEF Init, PC, Owning
<1>4. QED
    BY <1>1, <1>2, <1>3, ResumeAssumption DEF Init, TypeInv, TypeOK, LossCounted

LEMMA TypeStep == TypeInv /\ [Next]_vars => TypeInv'
<1> SUFFICES ASSUME TypeInv, [Next]_vars PROVE TypeInv'
    OBVIOUS
<1> USE DEF TypeInv, TypeOK, LossCounted
<1>1. CASE UNCHANGED vars
    BY <1>1 DEF vars, record, engine, grace
<1>2. ASSUME NEW t \in Thread, Connect(t) PROVE TypeInv'
    BY <1>2 DEF Connect, LookUp, RefuseHello, Goto, record, engine, grace, PC
<1>3. ASSUME NEW t \in Thread, LinkEvent(t) PROVE TypeInv'
    BY <1>3 DEF LinkEvent, LinkDrops, PeerSaysBye, WatchEnds, Goto, record, engine, grace,
                PC, Owning
<1>4. ASSUME NEW t \in Thread, TimerStep(t) PROVE TypeInv'
    BY <1>4 DEF TimerStep, GraceElapses, ChallengeElapses, record, engine
<1>5. ASSUME NEW t \in Thread, ThreadStep(t) PROVE TypeInv'
  <2> USE <1>5, ResumeAssumption, StatesTyped
      DEF Goto, record, engine, grace, PC, Challenging, Owning, Waiting
  <2>1. ASSUME \/ StillActive(t) \/ VerifyProof(t) \/ MigrateAudio(t)
               \/ FinishRefused(t) \/ SendResumeOk(t)
               \/ StopNoticed(t) \/ LeaveWait(t) \/ PollDeadline(t)
               \/ GraceResumed(t) \/ AbortMissed(t)
        PROVE TypeInv'
      BY <2>1 DEF StillActive, VerifyProof, MigrateAudio,
                  FinishRefused, SendResumeOk, StopNoticed, WatchEnds,
                  LeaveWait, PollDeadline, GraceResumed, AbortMissed
  <2>2. CASE ClaimResume(t)
    <3>1. control_state.generation \in Generation
        BY DEF ControlState
    <3>2. control_state.generation + 1 \in Generation
        BY <2>2, <3>1 DEF ClaimResume, begin_resume, Generation
    <3>3. QED
        BY <2>2, <3>2 DEF ClaimResume, begin_resume
  <2>3. ASSUME CancelChallenge(t) \/ MigrationFatal(t) PROVE TypeInv'
      BY <2>3 DEF CancelChallenge, MigrationFatal, cancel_resume
  <2>4. ASSUME LoseResumeOk(t) \/ MarkDropped(t) PROVE TypeInv'
    <3>1. ack_lost' \in BOOLEAN
        BY <2>4, Zenon DEF LoseResumeOk, MarkDropped
    <3>2. control_state' \in ControlState
        BY <2>4 DEF LoseResumeOk, MarkDropped, mark_control_dropped
    <3>3. pc' \in [Thread -> PC]
        BY <2>4 DEF LoseResumeOk, MarkDropped
    <3>4. QED
        BY <2>4, <3>1, <3>2, <3>3 DEF LoseResumeOk, MarkDropped
  <2>5. ASSUME FinishResume(t) \/ ExpireGrace(t) \/ AbortResume(t) PROVE TypeInv'
      BY <2>5 DEF FinishResume, ExpireGrace, AbortResume
  <2>6. ASSUME ReadGeneration(t) PROVE TypeInv'
      BY <2>6 DEF ReadGeneration
  <2>7. ASSUME GraceInProgress(t) PROVE TypeInv'
      BY <2>7 DEF GraceInProgress, ControlState
  <2>8. ASSUME Teardown(t) PROVE TypeInv'
      BY <2>8, RemovalTyped DEF Teardown
  <2>9. QED
      BY <2>1, <2>2, <2>3, <2>4, <2>5, <2>6, <2>7, <2>8 DEF ThreadStep
<1>6. CASE EngineStep
  <2> USE DEF record, engine, grace
  <2>1. CASE RequestBye
      BY <2>1 DEF RequestBye
  <2>2. CASE WorkerFails
      BY <2>2, RemovalTyped DEF WorkerFails
  <2>3. CASE StopEngine
      BY <2>3 DEF StopEngine
  <2>4. CASE StopAllTeardown
      BY <2>4, RemovalTyped DEF StopAllTeardown
  <2>6. QED
      BY <1>6, <2>1, <2>2, <2>3, <2>4 DEF EngineStep
<1>7. QED
    BY <1>1, <1>2, <1>3, <1>4, <1>5, <1>6 DEF Next

\* Type correctness, and with session_lost \in {0, 1}: SessionLost is announced
\* at most once however many threads tear the session down.
THEOREM TypeCorrect == Spec => []TypeOK
<1>1. Spec => []TypeInv
    BY TypeInit, TypeStep, PTL DEF Spec
<1>2. TypeInv => TypeOK
    BY DEF TypeInv
<1>3. QED
    BY <1>1, <1>2, PTL
--------------------------------------------------------------------------------
\* The state carries the generation of the channel that was lost, or the next.
Coherent ==
    /\ control_state.kind = "ResumeEligible" => control_state.generation = control_generation
    /\ control_state.kind = "Resuming" => control_state.generation = control_generation + 1

\* Every connection that owned the channel did so under its own generation,
\* none newer than the current one.
ClaimsBehind ==
    \A t \in Thread : pc[t] \in Owning \cup Waiting \cup {"reading"} =>
        claim[t] <= control_generation

RecordInv == TypeInv /\ Coherent /\ ClaimsBehind /\ UniqueGenerations

\* The fields of the three states, and that a state is determined by them.
LEMMA StateFields ==
    /\ Active.kind = "Active"
    /\ \A g : ResumeEligible(g).kind = "ResumeEligible" /\ ResumeEligible(g).generation = g
    /\ \A g : Resuming(g).kind = "Resuming" /\ Resuming(g).generation = g
    /\ \A s \in ControlState : s.kind = "Resuming" => s = Resuming(s.generation)
BY DEF Active, ResumeEligible, Resuming, ControlState

\* What the record's transitions do to the state.
LEMMA StateMoves ==
    ASSUME TypeInv, NEW t \in Thread
    PROVE  /\ mark_control_dropped => control_state' = IF control_state.kind = "Active"
                    THEN ResumeEligible(control_generation) ELSE control_state
           /\ cancel_resume(t) => \/ control_state' = control_state
                                  \/ control_state' = ResumeEligible(control_generation)
BY DEF mark_control_dropped, cancel_resume

LEMMA RecordStep == RecordInv /\ TypeInv' /\ [Next]_vars => RecordInv'
<1> SUFFICES ASSUME RecordInv, TypeInv', [Next]_vars PROVE RecordInv'
    OBVIOUS
<1> USE StateFields DEF RecordInv, Coherent, ClaimsBehind, UniqueGenerations
<1>t. /\ pc \in [Thread -> PC] /\ claim \in [Thread -> Nat]
      /\ control_generation \in Nat /\ control_generation' \in Nat
    BY ResumeAssumption DEF TypeInv, TypeOK, Generation
<1>1. CASE UNCHANGED vars
    BY <1>1 DEF vars, record, engine, grace
<1>2. ASSUME NEW t \in Thread, Connect(t) PROVE RecordInv'
    BY <1>2, <1>t DEF Connect, LookUp, RefuseHello, Goto, record, Owning, Waiting
<1>3. ASSUME NEW t \in Thread, LinkEvent(t) PROVE RecordInv'
    BY <1>3, <1>t DEF LinkEvent, LinkDrops, PeerSaysBye, WatchEnds, Goto, record, Owning,
                Waiting
<1>4. ASSUME NEW t \in Thread, TimerStep(t) PROVE RecordInv'
    BY <1>4, <1>t DEF TimerStep, GraceElapses, ChallengeElapses, record
<1>5. ASSUME NEW t \in Thread, ThreadStep(t) PROVE RecordInv'
  <2> USE <1>5, <1>t DEF Goto, record, Owning, Waiting
  <2>1. ASSUME \/ StillActive(t) \/ VerifyProof(t) \/ MigrateAudio(t)
               \/ FinishRefused(t) \/ SendResumeOk(t)
               \/ StopNoticed(t) \/ LeaveWait(t) \/ PollDeadline(t)
               \/ GraceResumed(t) \/ AbortMissed(t) \/ ReadGeneration(t)
               \/ GraceInProgress(t) \/ Teardown(t)
        PROVE RecordInv'
      BY <2>1 DEF StillActive, VerifyProof, MigrateAudio,
                  FinishRefused, SendResumeOk, StopNoticed, WatchEnds,
                  LeaveWait, PollDeadline, GraceResumed, AbortMissed, ReadGeneration,
                  GraceInProgress, Teardown
  <2>2. CASE ClaimResume(t)
      BY <2>2 DEF ClaimResume, begin_resume
  <2>3. ASSUME CancelChallenge(t) \/ MigrationFatal(t) PROVE RecordInv'
      BY <2>3, StateMoves DEF CancelChallenge, MigrationFatal
  <2>4. ASSUME LoseResumeOk(t) \/ MarkDropped(t) PROVE RecordInv'
      BY <2>4, StateMoves DEF LoseResumeOk, MarkDropped
  <2>5. CASE FinishResume(t)
    <3>1. control_generation' = control_generation + 1 /\ claim' = claim
        BY <2>5 DEF FinishResume
    <3>2. claim'[t] = control_generation + 1
        BY <2>5, <3>1 DEF FinishResume
    <3>3. \A u \in Thread : u # t => pc'[u] = pc[u]
        BY <2>5 DEF FinishResume
    <3>4. \A u \in Thread : u # t /\ pc'[u] \in Owning \cup Waiting \cup {"reading"}
              => claim'[u] < claim'[t]
        BY <3>1, <3>2, <3>3
    <3>5. ClaimsBehind'
        BY <3>1, <3>2, <3>4
    <3>6. UniqueGenerations'
      <4> SUFFICES ASSUME NEW u \in Thread, NEW v \in Thread,
                          pc'[u] \in Owning \cup Waiting \cup {"reading"},
                          pc'[v] \in Owning \cup Waiting \cup {"reading"},
                          claim'[u] = claim'[v]
                   PROVE u = v
          BY DEF UniqueGenerations
      <4>1. CASE u = t \/ v = t
          BY <4>1, <3>1, <3>4
      <4>2. CASE u # t /\ v # t
          BY <4>2, <3>1, <3>3
      <4>3. QED
          BY <4>1, <4>2
    <3>7. QED
        BY <2>5, <3>5, <3>6 DEF FinishResume
  <2>6. ASSUME ExpireGrace(t) \/ AbortResume(t) PROVE RecordInv'
      BY <2>6 DEF ExpireGrace, AbortResume
  <2>7. QED
      BY <2>1, <2>2, <2>3, <2>4, <2>5, <2>6 DEF ThreadStep
<1>6. CASE EngineStep
    BY <1>6 DEF EngineStep, RequestBye, WorkerFails, StopEngine,
                StopAllTeardown, record, engine
<1>7. QED
    BY <1>1, <1>2, <1>3, <1>4, <1>5, <1>6 DEF Next

LEMMA RecordInvariant == Spec => []RecordInv
<1>1. Init => RecordInv
    BY TypeInit, StateFields DEF Init, RecordInv, Coherent, ClaimsBehind, UniqueGenerations,
       Owning, Waiting
<1>2. TypeInv /\ [Next]_vars => TypeInv'
    BY TypeStep
<1>3. RecordInv => TypeInv
    BY DEF RecordInv
<1>4. RecordInv /\ [Next]_vars => RecordInv'
    BY <1>2, <1>3, RecordStep
<1>5. QED
    BY <1>1, <1>4, PTL DEF Spec

\* No two connections ever own the control channel under the same generation,
\* so no two channels share control keys: whatever races, for any bound.
THEOREM GenerationsUnique == Spec => []UniqueGenerations
<1>1. RecordInv => UniqueGenerations
    BY DEF RecordInv
<1>2. QED
    BY <1>1, RecordInvariant, PTL
--------------------------------------------------------------------------------
\* The thread that is responsible before a step, or the one that takes it, is
\* responsible after it.
LEMMA ZombieStep == NoZombie /\ RecordInv /\ [Next]_vars => NoZombie'
<1> SUFFICES ASSUME NoZombie, RecordInv, [Next]_vars, session_alive'
             PROVE \E v \in Thread : Responsible(v)'
    BY DEF NoZombie
<1> USE StateFields DEF RecordInv, Coherent, Responsible
<1>t. pc \in [Thread -> PC] /\ watched \in [Thread -> Generation]
    BY DEF TypeInv, TypeOK
<1>1. CASE UNCHANGED vars
  <2>1. PICK u \in Thread : Responsible(u)
      BY <1>1 DEF NoZombie, vars, engine, session_alive
  <2>2. Responsible(u)'
      BY <1>1, <2>1 DEF vars, record, grace
  <2>3. QED
      BY <2>2
<1>2. ASSUME NEW t \in Thread,
             \/ Connect(t) \/ LinkEvent(t) \/ TimerStep(t)
             \/ StillActive(t) \/ VerifyProof(t) \/ MigrateAudio(t)
             \/ FinishRefused(t) \/ SendResumeOk(t)
             \/ StopNoticed(t) \/ LeaveWait(t) \/ PollDeadline(t)
             \/ GraceResumed(t) \/ GraceInProgress(t) \/ AbortMissed(t)
      PROVE \E v \in Thread : Responsible(v)'
  <2> USE DEF Connect, LookUp, RefuseHello, LinkEvent, LinkDrops, PeerSaysBye, TimerStep,
              GraceElapses, ChallengeElapses, StillActive, VerifyProof, MigrateAudio,
              FinishRefused, SendResumeOk,
              StopNoticed, WatchEnds, LeaveWait, PollDeadline, GraceResumed,
              GraceInProgress, AbortMissed, Goto, record, engine, grace, Owning, Waiting
  <2>0. session_alive /\ UNCHANGED record /\ UNCHANGED watched
      BY <1>2 DEF session_alive
  <2>1. PICK u \in Thread : Responsible(u)
      BY <2>0 DEF NoZombie
  <2>2. Responsible(u)'
    <3>1. CASE u # t
        BY <1>2, <1>t, <2>0, <2>1, <3>1
    <3>2. CASE u = t
        BY <1>2, <1>t, <2>0, <2>1, <3>2 DEF session_alive, TypeInv, LossCounted
    <3>3. QED
        BY <3>1, <3>2
  <2>3. QED
      BY <2>2
<1>3. ASSUME NEW t \in Thread, ClaimResume(t) \/ CancelChallenge(t)
      PROVE \E v \in Thread : Responsible(v)'
  <2> USE DEF ClaimResume, begin_resume, CancelChallenge, Goto, engine, grace, Owning, Waiting
  <2>0. session_alive
      BY <1>3 DEF session_alive
  <2>1. PICK u \in Thread : Responsible(u)
      BY <2>0 DEF NoZombie
  <2>2. u # t /\ pc'[u] = pc[u] /\ watched'[u] = watched[u]
      BY <1>3, <1>t, <2>1
  <2>3. \/ control_state' = control_state
        \/ control_state.kind # "Active" /\ control_state'.kind # "Active"
      BY <1>3 DEF cancel_resume
  <2>4. Responsible(u)'
      BY <1>3, <2>1, <2>2, <2>3
  <2>5. QED
      BY <2>4
<1>4. ASSUME NEW t \in Thread, LoseResumeOk(t) \/ MarkDropped(t)
      PROVE \E v \in Thread : Responsible(v)'
  <2>1. control_state'.kind # "Active"
      BY <1>4 DEF LoseResumeOk, MarkDropped, mark_control_dropped
  <2>2. pc'[t] \in {"dropped", "reading"}
      BY <1>4, <1>t DEF LoseResumeOk, MarkDropped, Goto
  <2>3. QED
      BY <2>1, <2>2
<1>5. ASSUME NEW t \in Thread,
             FinishResume(t) \/ ExpireGrace(t) \/ AbortResume(t) \/ MigrationFatal(t)
      PROVE \E v \in Thread : Responsible(v)'
    BY <1>5, <1>t DEF FinishResume, ExpireGrace, AbortResume, MigrationFatal, Goto, Owning
<1>6. ASSUME NEW t \in Thread, ReadGeneration(t)
      PROVE \E v \in Thread : Responsible(v)'
  <2> USE DEF ReadGeneration, Goto, record, engine, Owning, Waiting
  <2>1. PICK u \in Thread : Responsible(u)
      BY <1>6 DEF NoZombie, session_alive
  <2>2. Responsible(u)'
    <3>1. CASE u # t
        BY <1>6, <1>t, <2>1, <3>1
    <3>2. CASE u = t
        BY <1>6, <1>t, <2>1, <3>2
    <3>3. QED
        BY <3>1, <3>2
  <2>3. QED
      BY <2>2
<1>7. ASSUME NEW t \in Thread, Teardown(t) PROVE FALSE
    BY <1>7 DEF Teardown, remove_session, session_alive
<1>8. ASSUME EngineStep PROVE \E v \in Thread : Responsible(v)'
  <2>1. RequestBye
      BY <1>8 DEF EngineStep, WorkerFails, StopEngine, StopAllTeardown, remove_session,
                  session_alive
  <2>2. PICK u \in Thread : Responsible(u)
      BY <2>1 DEF RequestBye, engine, NoZombie, session_alive
  <2>3. Responsible(u)'
      BY <2>1, <2>2 DEF RequestBye, record, grace
  <2>4. QED
      BY <2>3
<1>9. QED
    BY <1>1, <1>2, <1>3, <1>4, <1>5, <1>6, <1>7, <1>8 DEF Next, ThreadStep

\* While the session is alive some thread owns its channel, waits out the grace
\* of its current generation or is about to tear it down: no interleaving of
\* drops, resumes, failed acknowledgements and expiries leaves a zombie.
THEOREM NoZombies == Spec => []NoZombie
<1>1. Init => NoZombie
    BY ResumeAssumption, StateFields DEF Init, NoZombie, Responsible, Owning
<1>2. NoZombie /\ RecordInv /\ [Next]_vars => NoZombie'
    BY ZombieStep
<1>3. QED
    BY <1>1, <1>2, RecordInvariant, PTL DEF Spec
--------------------------------------------------------------------------------
LEMMA HeldStep == ChallengeHeld /\ RecordInv /\ [Next]_vars => ChallengeHeld'
<1> SUFFICES ASSUME ChallengeHeld, RecordInv, [Next]_vars, control_state'.kind = "Resuming"
             PROVE \E v \in Thread : /\ pc'[v] \in Challenging
                                     /\ claim'[v] = control_state'.generation
    BY DEF ChallengeHeld
<1> USE StateFields DEF ChallengeHeld
<1>t. pc \in [Thread -> PC] /\ claim \in [Thread -> Generation]
      /\ control_state \in ControlState
    BY DEF RecordInv, TypeInv, TypeOK
<1>1. CASE UNCHANGED <<control_state, claim, pc>>
    BY <1>1
<1>2. ASSUME NEW t \in Thread,
             \/ Connect(t) \/ LinkEvent(t) \/ TimerStep(t)
             \/ StillActive(t) \/ VerifyProof(t) \/ MigrateAudio(t)
             \/ FinishRefused(t) \/ SendResumeOk(t)
             \/ StopNoticed(t) \/ LeaveWait(t) \/ PollDeadline(t)
             \/ GraceResumed(t) \/ GraceInProgress(t) \/ AbortMissed(t)
             \/ ReadGeneration(t) \/ Teardown(t)
      PROVE \E v \in Thread : pc'[v] \in Challenging /\ claim'[v] = control_state'.generation
  <2> USE DEF Connect, LookUp, RefuseHello, LinkEvent, LinkDrops, PeerSaysBye, TimerStep,
              GraceElapses, ChallengeElapses, StillActive, VerifyProof, MigrateAudio,
              FinishRefused, SendResumeOk,
              StopNoticed, WatchEnds, LeaveWait, PollDeadline, GraceResumed,
              GraceInProgress, AbortMissed, ReadGeneration, Teardown, Goto, record, grace,
              Challenging
  <2>1. control_state' = control_state /\ claim' = claim
      BY <1>2
  <2>2. PICK u \in Thread : pc[u] \in Challenging /\ claim[u] = control_state.generation
      BY <2>1
  <2>3. pc'[u] \in Challenging
      BY <1>2, <1>t, <2>1, <2>2
  <2>4. QED
      BY <2>1, <2>2, <2>3
<1>3. ASSUME NEW t \in Thread, ClaimResume(t)
      PROVE \E v \in Thread : pc'[v] \in Challenging /\ claim'[v] = control_state'.generation
    BY <1>3, <1>t DEF ClaimResume, begin_resume, Goto, Challenging
<1>4. ASSUME NEW t \in Thread, CancelChallenge(t) \/ MigrationFatal(t)
      PROVE \E v \in Thread : pc'[v] \in Challenging /\ claim'[v] = control_state'.generation
  <2> USE DEF CancelChallenge, MigrationFatal, cancel_resume, Goto, grace
  <2>1. control_state' = control_state /\ claim' = claim
        /\ control_state.generation # claim[t]
      BY <1>4, <1>t
  <2>2. PICK u \in Thread : pc[u] \in Challenging /\ claim[u] = control_state.generation
      BY <2>1
  <2>3. pc'[u] = pc[u]
      BY <1>4, <1>t, <2>1, <2>2
  <2>4. QED
      BY <2>1, <2>2, <2>3
<1>5. ASSUME NEW t \in Thread, LoseResumeOk(t) \/ MarkDropped(t)
      PROVE \E v \in Thread : pc'[v] \in Challenging /\ claim'[v] = control_state'.generation
  <2> USE DEF LoseResumeOk, MarkDropped, mark_control_dropped, Goto, grace
  <2>1. control_state' = control_state /\ claim' = claim
      BY <1>5
  <2>2. PICK u \in Thread : pc[u] \in Challenging /\ claim[u] = control_state.generation
      BY <2>1
  <2>3. pc'[u] = pc[u]
      BY <1>5, <1>t, <2>2 DEF Challenging
  <2>4. QED
      BY <2>1, <2>2, <2>3
<1>6. ASSUME NEW t \in Thread, FinishResume(t) \/ ExpireGrace(t) \/ AbortResume(t)
      PROVE FALSE
    BY <1>6 DEF FinishResume, ExpireGrace, AbortResume
<1>7. CASE EngineStep
    BY <1>1, <1>7 DEF EngineStep, RequestBye, WorkerFails, StopEngine,
                      StopAllTeardown, record, engine
<1>8. QED
    BY <1>1, <1>2, <1>3, <1>4, <1>5, <1>6, <1>7 DEF Next, ThreadStep, vars, record

\* A record in Resuming always has a thread that will finish or cancel it, so a
\* session is never left refusing every resume.
THEOREM ChallengesHeld == Spec => []ChallengeHeld
<1>1. Init => ChallengeHeld
    BY StateFields DEF Init, ChallengeHeld
<1>2. ChallengeHeld /\ RecordInv /\ [Next]_vars => ChallengeHeld'
    BY HeldStep
<1>3. QED
    BY <1>1, <1>2, RecordInvariant, PTL DEF Spec

--------------------------------------------------------------------------------
\* A record with a control owner is Active, and the owner is the only one.
SoleOwner == ~ack_lost =>
    /\ \A t \in Thread : pc[t] \in Owning => control_state.kind = "Active"
    /\ \A t, u \in Thread : pc[t] \in Owning /\ pc[u] \in Owning => t = u

LEMMA SoleStep ==
    ASSUME SoleOwner, TypeInv, [Next]_vars
    PROVE  SoleOwner'
<1> USE StateFields DEF SoleOwner, Owning
<1>t. pc \in [Thread -> PC]
    BY DEF TypeInv, TypeOK
<1>1. CASE UNCHANGED <<control_state, pc, ack_lost>>
    BY <1>1
<1>2. ASSUME NEW t \in Thread,
             \/ Connect(t) \/ LinkEvent(t) \/ TimerStep(t)
             \/ StillActive(t) \/ VerifyProof(t) \/ MigrateAudio(t)
             \/ FinishRefused(t) \/ SendResumeOk(t)
             \/ StopNoticed(t) \/ LeaveWait(t) \/ PollDeadline(t)
             \/ GraceResumed(t) \/ GraceInProgress(t) \/ AbortMissed(t)
             \/ ReadGeneration(t) \/ Teardown(t)
      PROVE SoleOwner'
    BY <1>2, <1>t
       DEF Connect, LookUp, RefuseHello, LinkEvent, LinkDrops, PeerSaysBye, TimerStep,
           GraceElapses, ChallengeElapses, StillActive, VerifyProof, MigrateAudio,
              FinishRefused, SendResumeOk,
           StopNoticed, WatchEnds, LeaveWait, PollDeadline, GraceResumed,
           GraceInProgress, AbortMissed, ReadGeneration, Teardown, Goto, record
<1>3. ASSUME NEW t \in Thread,
             ClaimResume(t) \/ CancelChallenge(t) \/ MigrationFatal(t)
      PROVE SoleOwner'
    BY <1>3, <1>t DEF ClaimResume, begin_resume, CancelChallenge, MigrationFatal,
                      cancel_resume, Goto
<1>4. ASSUME NEW t \in Thread,
             MarkDropped(t) \/ FinishResume(t) \/ ExpireGrace(t) \/ AbortResume(t)
      PROVE SoleOwner'
    BY <1>4, <1>t DEF MarkDropped, mark_control_dropped, FinishResume, ExpireGrace,
                      AbortResume, Goto
<1>5. ASSUME NEW t \in Thread, LoseResumeOk(t) PROVE SoleOwner'
    BY <1>5 DEF LoseResumeOk
<1>6. CASE EngineStep
    BY <1>1, <1>6 DEF EngineStep, RequestBye, WorkerFails, StopEngine,
                      StopAllTeardown, record
<1>7. QED
    BY <1>1, <1>2, <1>3, <1>4, <1>5, <1>6 DEF Next, ThreadStep, vars, record

\* As long as every ResumeOk is written, the session has one control owner at a
\* time and no resume is admitted while it watches the link.
THEOREM OwnerUnique == Spec => []OneOwner
<1>1. Init => SoleOwner
    BY StateFields DEF Init, SoleOwner, Owning
<1>2. SoleOwner /\ TypeInv /\ [Next]_vars => SoleOwner'
    BY SoleStep
<1>3. Spec => []TypeInv
    BY TypeInit, TypeStep, PTL DEF Spec
<1>4. SoleOwner => OneOwner
    BY DEF SoleOwner, OneOwner, Owning
<1>5. QED
    BY <1>1, <1>2, <1>3, <1>4, PTL DEF Spec
--------------------------------------------------------------------------------
(* The refinement of SessionOwnership, step by step.                       *)

RefinementInv == RecordInv /\ SoleOwner

\* A session that is not promised any more never is again.
LEMMA PromiseEnds ==
    ASSUME TypeInv, [Next]_vars, Promised'
    PROVE  Promised
<1>1. ASSUME UNCHANGED <<engine, ack_lost>> PROVE Promised
    BY <1>1 DEF engine, Promised, session_alive
<1>2. ASSUME NEW t \in Thread,
             \/ Connect(t) \/ LinkEvent(t) \/ TimerStep(t) \/ ThreadStep(t)
      PROVE Promised
  <2>1. CASE LoseResumeOk(t)
      BY <2>1 DEF LoseResumeOk, Promised
  <2>2. CASE Teardown(t)
      BY <2>2 DEF Teardown, remove_session, Promised, session_alive
  <2>3. CASE ~LoseResumeOk(t) /\ ~Teardown(t)
    <3>1. UNCHANGED <<engine, ack_lost>>
        BY <1>2, <2>3
           DEF Connect, LookUp, RefuseHello, LinkEvent, LinkDrops, PeerSaysBye, WatchEnds, TimerStep,
               GraceElapses, ChallengeElapses, ThreadStep, ClaimResume, StillActive, CancelChallenge,
               VerifyProof, MigrateAudio, MigrationFatal, FinishResume, FinishRefused, SendResumeOk,
               StopNoticed, MarkDropped, ReadGeneration, LeaveWait, PollDeadline, ExpireGrace,
               GraceResumed, GraceInProgress, AbortResume, AbortMissed
    <3>2. QED
        BY <1>1, <3>1
  <2>4. QED
      BY <2>1, <2>2, <2>3
<1>3. CASE EngineStep
  <2>1. RequestBye
      BY <1>3 DEF EngineStep, WorkerFails, StopEngine, StopAllTeardown, remove_session, Promised,
                  session_alive
  <2>2. QED
      BY <1>1, <2>1 DEF RequestBye
<1>4. CASE UNCHANGED vars
    BY <1>1, <1>4 DEF vars
<1>5. QED
    BY <1>2, <1>3, <1>4 DEF Next

\* A step of a session that stays promised.
LEMMA PromisedStep ==
    ASSUME RefinementInv, [Next]_vars, Promised, Promised'
    PROVE  \/ Owned' = Owned /\ control_generation' = control_generation
           \/ Owned /\ ~Owned' /\ control_generation' = control_generation
           \/ ~Owned /\ Owned' /\ control_generation' = control_generation + 1
<1> USE StateFields DEF RefinementInv, RecordInv, Promised, Owned
<1>t. pc \in [Thread -> PC]
    BY DEF TypeInv, TypeOK
<1>1. CASE UNCHANGED vars
    BY <1>1 DEF vars, record
<1>2. ASSUME NEW t \in Thread,
             \/ Connect(t) \/ TimerStep(t)
             \/ ClaimResume(t) \/ StillActive(t) \/ CancelChallenge(t)
             \/ VerifyProof(t) \/ MigrateAudio(t) \/ MigrationFatal(t) \/ FinishRefused(t)
             \/ SendResumeOk(t) \/ MarkDropped(t) \/ ReadGeneration(t) \/ LeaveWait(t)
             \/ PollDeadline(t) \/ ExpireGrace(t) \/ GraceResumed(t) \/ GraceInProgress(t)
             \/ AbortResume(t) \/ AbortMissed(t) \/ Teardown(t)
      PROVE Owned' = Owned /\ control_generation' = control_generation
  <2>1. control_generation' = control_generation
      BY <1>2 DEF Connect, LookUp, RefuseHello, TimerStep, GraceElapses, ChallengeElapses, ClaimResume,
                  StillActive, CancelChallenge, VerifyProof, MigrateAudio, MigrationFatal, FinishRefused,
                  SendResumeOk, MarkDropped, ReadGeneration, LeaveWait, PollDeadline, ExpireGrace,
                  GraceResumed, GraceInProgress, AbortResume, AbortMissed, Teardown, record
  <2>2. \A u \in Thread : pc'[u] \in {"acking", "control"} <=> pc[u] \in {"acking", "control"}
      BY <1>2, <1>t
         DEF Connect, LookUp, RefuseHello, TimerStep, GraceElapses, ChallengeElapses, ClaimResume,
             StillActive, CancelChallenge, VerifyProof, MigrateAudio, MigrationFatal, FinishRefused,
             SendResumeOk, MarkDropped, ReadGeneration, LeaveWait, PollDeadline, ExpireGrace,
             GraceResumed, GraceInProgress, AbortResume, AbortMissed, Teardown, Goto
  <2>3. QED
      BY <2>1, <2>2
<1>3. ASSUME NEW t \in Thread, LinkEvent(t) \/ StopNoticed(t)
      PROVE Owned /\ ~Owned' /\ control_generation' = control_generation
  <2>1. /\ pc[t] = "control" /\ pc'[t] \in {"dropped", "ending"}
        /\ \A u \in Thread : u # t => pc'[u] = pc[u]
        /\ control_generation' = control_generation
      BY <1>3, <1>t DEF LinkEvent, LinkDrops, PeerSaysBye, StopNoticed, WatchEnds, Goto, record
  <2>2. \A u \in Thread : pc[u] \in {"acking", "control"} => u = t
      BY <2>1 DEF SoleOwner, Owning
  <2>3. QED
      BY <2>1, <2>2
<1>4. ASSUME NEW t \in Thread, FinishResume(t)
      PROVE ~Owned /\ Owned' /\ control_generation' = control_generation + 1
  <2>1. control_state = Resuming(claim[t]) /\ control_generation' = claim[t] /\ pc'[t] = "acking"
      BY <1>4, <1>t DEF FinishResume, Goto
  <2>2. control_generation' = control_generation + 1
      BY <2>1 DEF Coherent
  <2>3. ~Owned
      BY <2>1 DEF SoleOwner, Owning
  <2>4. QED
      BY <2>1, <2>2, <2>3
<1>5. ASSUME NEW t \in Thread, LoseResumeOk(t) PROVE FALSE
    BY <1>5 DEF LoseResumeOk
<1>6. CASE EngineStep
    BY <1>6 DEF EngineStep, RequestBye, WorkerFails, StopEngine, StopAllTeardown, record
<1>7. QED
    BY <1>1, <1>2, <1>3, <1>4, <1>5, <1>6 DEF Next, ThreadStep

LEMMA OwnershipStep ==
    ASSUME RefinementInv, [Next]_vars
    PROVE  [Ownership!Next]_(Ownership!vars)
<1> USE DEF Ownership!Next, Ownership!vars, Phase
<1>1. Promised' => Promised
    BY PromiseEnds DEF RefinementInv, RecordInv
<1>2. CASE ~Promised
    BY <1>1, <1>2
<1>3. CASE Promised /\ ~Promised'
  <2>1. Ownership!Lose
      BY <1>3 DEF Ownership!Lose, Ownership!Nothing
  <2>2. QED
      BY <2>1
<1>4. CASE Promised /\ Promised'
  <2>1. CASE Owned' = Owned /\ control_generation' = control_generation
      BY <1>4, <2>1
  <2>2. CASE Owned /\ ~Owned' /\ control_generation' = control_generation
    <3>1. Ownership!Drop
        BY <1>4, <2>2 DEF Ownership!Drop
    <3>2. QED
        BY <3>1
  <2>3. CASE ~Owned /\ Owned' /\ control_generation' = control_generation + 1
    <3>1. Ownership!Resume
        BY <1>4, <2>3 DEF Ownership!Resume
    <3>2. QED
        BY <3>1
  <2>4. QED
      BY <1>4, <2>1, <2>2, <2>3, PromisedStep
<1>5. QED
    BY <1>2, <1>3, <1>4

\* The threads of the host, however many, implement SessionOwnership up to the
\* first ResumeOk that is lost: one owner at a time, a resume only of an
\* orphaned session and with the next generation, and nothing after the loss
\* (begin_resume, finish_resume, teardown).
THEOREM OwnershipRefined == Spec => Ownership!Init /\ [][Ownership!Next]_(Ownership!vars)
<1>1. Init => RefinementInv
  <2>1. Init => SoleOwner
      BY StateFields DEF Init, SoleOwner, Owning
  <2>2. Init => RecordInv
      BY TypeInit, StateFields DEF Init, RecordInv, Coherent, ClaimsBehind, UniqueGenerations,
         Owning, Waiting
  <2>3. QED
      BY <2>1, <2>2 DEF RefinementInv
<1>2. RefinementInv /\ [Next]_vars => RefinementInv'
    BY TypeStep, RecordStep, SoleStep DEF RefinementInv, RecordInv
<1>3. Init => Ownership!Init
    BY ResumeAssumption DEF Init, Ownership!Init, Phase, Promised, Owned, session_alive
<1>4. RefinementInv /\ [Next]_vars => [Ownership!Next]_(Ownership!vars)
    BY OwnershipStep
<1>5. QED
    BY <1>1, <1>2, <1>3, <1>4, PTL DEF Spec
================================================================================
