---------------------------- MODULE UserChoiceProofs ----------------------------
(***************************************************************************)
(* What the user decided is not undone behind his back: who is trusted     *)
(* (RelayEnrollment), and which routes are kept (PatchbayDesk).            *)
(*                                                                         *)
(* Trust, for any number of sessions, peers, drops, restarts and failing   *)
(* saves and any limit on the live map and the table.  A secret has one    *)
(* life: it is asked for, waits with the application, is being committed,  *)
(* and is granted or given up.  The invariant says that these never        *)
(* overlap (AskedOnce), that a granted secret is durable and not refused,  *)
(* and that one the host merely keeps is so too, unless a save of it has   *)
(* failed (Settled).  Most steps only bring a life forward or end it       *)
(* (Calm); the few that decide something are proved one by one.            *)
(*                                                                         *)
(* Routes, for any pairs, rule lists, settings and failures.  What the     *)
(* user removed is suppressed and no rule asks for it (Remembered), and a  *)
(* pass makes no link that is not a rule (PassMakesRules).  The rule lists *)
(* are built by recursion over a list: StepByStep and Iterated carry what  *)
(* each step keeps to the last one.                                        *)
(***************************************************************************)
EXTENDS RelayEnrollment, PatchbayDesk, FiniteSetTheorems, SequenceTheorems, TLAPS

-----------------------------------------------------------------------------
(* Trust.                                                                  *)

Decision == {"none", "pending", "accepted", "rejected"}
Answer   == {"none", "accepted", "rejected"}
Phase    == {"watch", "take", "import", "ack", "read", "gone"}
Creds    == [Peer -> Session \cup {None}]

TypeInv ==
    /\ peerOf \in [Session -> Peer]
    /\ client \in [Session -> {"paired", "waiting", "learned", "gave_up"}]
    /\ toHost \subseteq Session /\ toClient \in [Session -> Answer]
    /\ host \in [Session -> Phase] /\ stop \subseteq Session
    /\ decision \in [Session -> Decision] /\ late \subseteq Session
    /\ trusted \in Creds /\ config \in Creds /\ snapshot \in Creds /\ durable \in Creds
    /\ requests \in Seq(Session)
    /\ {dialog, committing, before} \subseteq Session \cup {None}
    /\ persisted \in BOOLEAN /\ failedSaves \in Nat
    /\ \/ forgetting = NotForgetting
       \/ forgetting.peer \in Peer
    /\ committed \subseteq Session /\ refused \subseteq Session
    /\ unsaved \subseteq Session /\ cut \subseteq Session

\* Where the secret of a session is in its life.
Unasked(s)   == client[s] = "paired" \/ s \in toHost
Queued(s)    == \E i \in DOMAIN requests : requests[i] = s
InApp(s)     == Queued(s) \/ dialog = s \/ committing = s
Undecided(s) == Unasked(s) \/ InApp(s) \/ decision[s] \in {"pending", "rejected"}

\* The client has it for a credential, or is going to be told that it may.
Granted(s) ==
    \/ decision[s] = "accepted" \/ host[s] \in {"import", "ack"}
    \/ toClient[s] = "accepted" \/ client[s] = "learned"

\* The host may take it for a credential, now or when it loads what it has.
Stored(s) == \E p \in Peer : config[p] = s \/ durable[p] = s
Retained(s)   == before = s \/ (Stored(s) /\ committing # s) \/ \E p \in Peer : trusted[p] = s

Accepted(s) == Granted(s) \/ (Retained(s) /\ s \notin unsaved)

AskedOnce(s) ==
    /\ client[s] = "paired" => s \notin toHost
    /\ Unasked(s) => ~InApp(s) /\ decision[s] = "none" /\ s \notin refused
    /\ decision[s] = "pending" => s \notin refused
    /\ dialog = s => ~Queued(s) /\ committing # s
    /\ committing = s => /\ ~Queued(s)
                         /\ IF persisted THEN s \in committed ELSE s \in unsaved

Settled(s) ==
    /\ ~(Undecided(s) /\ Accepted(s))
    /\ Accepted(s) => s \in committed /\ s \notin refused \ cut
    /\ Granted(s) => s \notin refused

SecretInv(s) == AskedOnce(s) /\ Settled(s)

\* The configuration and the file hold a secret under its own peer, what is
\* kept for the roll-back is of the peer being committed, a request is queued
\* once, and nothing is committed while a peer is being forgotten.
OwnPeers(c) == \A p \in Peer : c[p] # None => peerOf[c[p]] = p

FileInv ==
    /\ OwnPeers(config) /\ OwnPeers(durable)
    /\ before # None => committing # None /\ peerOf[before] = peerOf[committing]
    /\ \A i, j \in DOMAIN requests : requests[i] = requests[j] => i = j
    /\ forgetting # NotForgetting => committing = None

IInv == TypeInv /\ FileInv /\ \A s \in Session : SecretInv(s)

--------------------------------------------------------------------------------
LEMMA InitHolds == ASSUME Init PROVE IInv
<1>1. TypeInv
  <2>1. persisted \in BOOLEAN
    BY DEF Init
  <2>2. trusted \in Creds /\ config \in Creds /\ snapshot \in Creds /\ durable \in Creds
    BY DEF Init, Creds
  <2> QED
    BY <2>1, <2>2, EnrollmentAssumption DEF Init, TypeInv, Decision, Answer, Phase
<1>2. FileInv
  BY DEF Init, FileInv, OwnPeers
<1>3. ASSUME NEW s \in Session PROVE SecretInv(s)
  <2>1. s # None
    BY EnrollmentAssumption
  <2>2. ~Queued(s)
    BY DEF Init, Queued
  <2>3. ~Accepted(s)
    BY <2>1 DEF Init, Accepted, Granted, Retained, Stored
  <2>4. AskedOnce(s)
    BY <2>1, <2>2 DEF Init, AskedOnce, Unasked, InApp
  <2> QED  BY <2>3, <2>4 DEF SecretInv, Settled, Accepted
<1> QED  BY <1>1, <1>2, <1>3 DEF IInv

\* A request leaves the queue at its head and is entered at its end.
LEMMA QueueTail ==
  ASSUME requests \in Seq(Session), requests # <<>>,
         \A i, j \in DOMAIN requests : requests[i] = requests[j] => i = j
  PROVE  LET rest == Tail(requests) IN
         /\ rest \in Seq(Session) /\ Head(requests) \in Session
         /\ \A i, j \in DOMAIN rest : rest[i] = rest[j] => i = j
         /\ \A i \in DOMAIN rest : rest[i] # Head(requests)
         /\ \A i \in DOMAIN rest : \E j \in DOMAIN requests : requests[j] = rest[i]
         /\ \E j \in DOMAIN requests : requests[j] = Head(requests)
<1> DEFINE rest == Tail(requests)
<1>1. Len(requests) \in Nat /\ Len(requests) > 0 /\ DOMAIN requests = 1..Len(requests)
  OBVIOUS
<1>2. /\ rest \in Seq(Session) /\ Len(rest) = Len(requests) - 1
      /\ DOMAIN rest = 1..(Len(requests) - 1)
      /\ \A i \in DOMAIN rest : rest[i] = requests[i + 1]
  BY <1>1
<1>3. Head(requests) = requests[1] /\ 1 \in DOMAIN requests /\ requests[1] \in Session
  BY <1>1
<1>4. \A i \in DOMAIN rest : i + 1 \in DOMAIN requests /\ i + 1 # 1
  BY <1>1, <1>2
<1>5. \A i, j \in DOMAIN rest : i + 1 = j + 1 => i = j
  BY <1>1, <1>2
<1> HIDE DEF rest
<1>6. \A i, j \in DOMAIN rest : rest[i] = rest[j] => i = j
  BY <1>2, <1>4, <1>5
<1>7. \A i \in DOMAIN rest : rest[i] # Head(requests)
  BY <1>2, <1>3, <1>4
<1>8. \A i \in DOMAIN rest : \E j \in DOMAIN requests : requests[j] = rest[i]
  BY <1>2, <1>4
<1> QED  BY <1>2, <1>3, <1>6, <1>7, <1>8 DEF rest

LEMMA QueueAppend ==
  ASSUME requests \in Seq(Session), NEW s \in Session, ~Queued(s),
         \A i, j \in DOMAIN requests : requests[i] = requests[j] => i = j
  PROVE  LET longer == Append(requests, s) IN
         /\ longer \in Seq(Session)
         /\ \A i, j \in DOMAIN longer : longer[i] = longer[j] => i = j
         /\ \A i \in DOMAIN longer : longer[i] = s \/ \E j \in DOMAIN requests : requests[j] = longer[i]
<1> DEFINE longer == Append(requests, s)
<1>1. Len(requests) \in Nat /\ DOMAIN requests = 1..Len(requests)
  OBVIOUS
<1>2. /\ longer \in Seq(Session) /\ DOMAIN longer = 1..(Len(requests) + 1)
      /\ \A i \in 1..Len(requests) : longer[i] = requests[i]
      /\ longer[Len(requests) + 1] = s
  BY <1>1
<1>3. \A i \in DOMAIN longer : i \in DOMAIN requests \/ i = Len(requests) + 1
  BY <1>1, <1>2
<1>4. \A i \in DOMAIN requests : requests[i] # s /\ longer[i] = requests[i]
  BY <1>1, <1>2 DEF Queued
<1> HIDE DEF longer
<1> QED  BY <1>2, <1>3, <1>4 DEF longer

--------------------------------------------------------------------------------
(* Types, and what a save and a load may do.                               *)

LEMMA SaveEffect ==
  ASSUME TypeInv, NEW c \in Creds, SaveOk(c) \/ SaveFails(c)
  PROVE  /\ durable' \in {durable, c} /\ durable' \in Creds /\ snapshot' \in Creds
         /\ failedSaves' \in Nat
  BY DEF TypeInv, SaveOk, SaveFails

LEMMA ImportEffect ==
  ASSUME NEW c \in Creds, NEW m \in Imports(c)
  PROVE  m \in Creds /\ \A p \in Peer : m[p] \in {c[p], None}
  BY DEF Imports, Creds

ClientSide(s) == SendEnroll(s) \/ ClientStep(s) \/ LinkDrops(s) \/ SessionLost(s) \/ Expire(s)
Forgetting == (\E p \in Peer : Forget(p)) \/ ForgetSessions \/ ForgetPending \/ ForgetDurable

LEMMA ClientTypes ==
  ASSUME TypeInv, NEW s \in Session, ClientSide(s)
  PROVE  TypeInv'
<1>1. CASE SendEnroll(s)
  BY <1>1 DEF TypeInv, SendEnroll, wire, table, app, disk, transaction, setting, history, NotForgetting
<1>2. CASE ClientStep(s)
  BY <1>2 DEF TypeInv, ClientStep, ReceiveAccepted, ReceiveRejected, ClientTimeout, ClientEnds,
              wire, table, app, disk, transaction, setting, history, NotForgetting
<1>3. CASE LinkDrops(s)
  BY <1>3 DEF TypeInv, Answer, LinkDrops, wire, table, app, disk, transaction, setting, history, NotForgetting
<1>4. CASE SessionLost(s)
  BY <1>4 DEF TypeInv, SessionLost, wire, table, app, disk, transaction, setting, history, NotForgetting
<1>5. CASE Expire(s)
  BY <1>5 DEF TypeInv, Expire, wire, table, app, disk, transaction, setting, history, NotForgetting
<1> QED  BY <1>1, <1>2, <1>3, <1>4, <1>5 DEF ClientSide

LEMMA ControlTypes ==
  ASSUME TypeInv, NEW s \in Session, ControlStep(s)
  PROVE  TypeInv'
<1>1. CASE CheckStop(s) \/ ReadNothing(s) \/ SendAccepted(s)
  BY <1>1 DEF TypeInv, Phase, Answer, CheckStop, ReadNothing, SendAccepted, HostGoes,
              wire, table, app, disk, transaction, setting, history, NotForgetting
<1>2. CASE take_trusted_enrollment(s)
  BY <1>2 DEF TypeInv, Phase, Answer, Decision, take_trusted_enrollment, Drop, HostGoes,
              wire, table, app, disk, transaction, setting, history, NotForgetting
<1>3. CASE remember_trusted_peer(s)
  BY <1>3 DEF TypeInv, Creds, Phase, remember_trusted_peer, HostGoes,
              wire, table, app, disk, transaction, setting, history, NotForgetting
<1>4. CASE begin_trusted_enrollment(s)
  <2>1. decision' \in [Session -> Decision]
    BY <1>4 DEF TypeInv, Decision, begin_trusted_enrollment, table
  <2>2. requests' = requests \/ requests' = Append(requests, s)
    BY <1>4 DEF begin_trusted_enrollment
  <2>3. requests' \in Seq(Session)
    BY <2>2 DEF TypeInv
  <2> QED
    BY <1>4, <2>1, <2>3 DEF TypeInv, Phase, Answer, begin_trusted_enrollment, HostGoes,
              wire, table, app, disk, transaction, setting, history, NotForgetting
<1> QED  BY <1>1, <1>2, <1>3, <1>4 DEF ControlStep

\* What the application does to a transaction, whoever asks it to.
LEMMA CommitTypes ==
  ASSUME TypeInv, NEW s \in Session, Commit(s)
  PROVE  /\ decision' \in [Session -> Decision] /\ late' \subseteq Session
         /\ config' \in Creds /\ snapshot' \in Creds /\ durable' \in Creds /\ failedSaves' \in Nat
         /\ {committing', before'} \subseteq Session \cup {None} /\ persisted' \in BOOLEAN
         /\ committed' \subseteq Session /\ refused' \subseteq Session /\ unsaved' \subseteq Session
<1>1. CASE Reject(s) /\ UNCHANGED <<config, disk, transaction, committed, unsaved>>
  BY <1>1 DEF TypeInv, Decision, Reject, Drop, table, disk, transaction
<1>2. CASE s \in Open \ late /\ committing' = s
  <2> DEFINE c == [config EXCEPT ![peerOf[s]] = s]
  <2>1. c \in Creds
    BY DEF TypeInv, Creds
  <2>2. /\ config' = c /\ (SaveOk(c) \/ SaveFails(c)) /\ before' = config[peerOf[s]]
        /\ persisted' \in BOOLEAN /\ UNCHANGED <<table, refused>>
        /\ committed' \in {committed, committed \cup {s}}
        /\ unsaved' \in {unsaved, unsaved \cup {s}}
    BY <1>2 DEF Commit
  <2>3. before' \in Session \cup {None}
    BY <2>2 DEF TypeInv, Creds
  <2> HIDE DEF c
  <2> QED  BY <1>2, <2>1, <2>2, <2>3, SaveEffect DEF TypeInv, table
<1> QED  BY <1>1, <1>2 DEF Commit

LEMMA RollBackTypes ==
  ASSUME TypeInv, NEW s \in Session, RollBack(s)
  PROVE  /\ config' \in Creds /\ snapshot' \in Creds /\ durable' \in Creds /\ failedSaves' \in Nat
         /\ committed' \subseteq Session /\ refused' \subseteq Session /\ unsaved' \subseteq Session
<1> DEFINE c == [config EXCEPT ![peerOf[s]] = before]
<1>1. c \in Creds
  BY DEF TypeInv, Creds
<1>2. /\ config' = c /\ (SaveOk(c) \/ SaveFails(c))
      /\ unsaved' \in {unsaved, unsaved \cup {s}}
      /\ committed' = committed \ {s} /\ refused' = refused \cup {s}
  BY DEF RollBack
<1> HIDE DEF c
<1> QED  BY <1>1, <1>2, SaveEffect DEF TypeInv

LEMMA AppTypes ==
  ASSUME TypeInv,
         \/ HandleRequest \/ UserAccepts \/ UserRejects
         \/ accept_trusted_enrollment \/ RejectUnsaved
  PROVE  TypeInv'
<1> USE DEF setting, history, wire, disk, transaction, NotForgetting
<1>1. CASE HandleRequest
  <2>1. Head(requests) \in Session /\ requests' \in Seq(Session)
    BY <1>1 DEF HandleRequest, TypeInv
  <2>2. CASE Commit(Head(requests)) /\ UNCHANGED dialog
    BY <1>1, <2>1, <2>2, CommitTypes DEF TypeInv, HandleRequest
  <2>3. CASE dialog' = Head(requests) /\ UNCHANGED <<table, config, disk, transaction, history>>
    BY <1>1, <2>1, <2>3 DEF TypeInv, HandleRequest, table
  <2> QED  BY <1>1, <2>2, <2>3 DEF HandleRequest
<1>2. CASE UserAccepts
  <2>1. dialog \in Session /\ Commit(dialog)
    BY <1>2 DEF UserAccepts, TypeInv
  <2> QED  BY <1>2, <2>1, CommitTypes DEF TypeInv, UserAccepts
<1>3. CASE UserRejects
  <2>1. dialog \in Session /\ Reject(dialog)
    BY <1>3 DEF UserRejects, TypeInv
  <2> QED  BY <1>3, <2>1 DEF TypeInv, Decision, UserRejects, Reject, Drop, table
<1>4. CASE accept_trusted_enrollment
  <2>1. committing \in Session
    BY <1>4 DEF accept_trusted_enrollment, TypeInv
  <2>2. RollBack(committing) \/ UNCHANGED <<config, disk, history>>
    BY <1>4 DEF accept_trusted_enrollment
  <2>3. decision' \in [Session -> Decision] /\ late' \subseteq Session
    BY <1>4, <2>1 DEF accept_trusted_enrollment, TypeInv, Decision, Drop, table
  <2> QED
    BY <1>4, <2>1, <2>2, <2>3, RollBackTypes DEF TypeInv, accept_trusted_enrollment, CommitEnds
<1>5. CASE RejectUnsaved
  <2>1. committing \in Session /\ Reject(committing)
    BY <1>5 DEF RejectUnsaved, TypeInv
  <2> QED
    BY <1>5, <2>1 DEF TypeInv, Decision, RejectUnsaved, CommitEnds, Reject, Drop, table
<1> QED  BY <1>1, <1>2, <1>3, <1>4, <1>5

LEMMA ForgetTypes ==
  ASSUME TypeInv, Forgetting
  PROVE  TypeInv'
<1> USE DEF setting, history, wire, app, disk, transaction, table, NotForgetting
<1>1. CASE \E p \in Peer : Forget(p)
  BY <1>1 DEF TypeInv, Creds, Forget
<1>2. CASE ForgetSessions
  BY <1>2 DEF TypeInv, ForgetSessions
<1>3. CASE ForgetPending
  BY <1>3 DEF TypeInv, Decision, ForgetPending
<1>4. CASE ForgetDurable
  <2> DEFINE c == [config EXCEPT ![forgetting.peer] = None]
  <2>1. c \in Creds
    BY DEF TypeInv, Creds
  <2>2. /\ SaveOk(c) \/ SaveFails(c)
        /\ config' \in {config, c} /\ trusted' \in {trusted} \cup Imports(config)
    BY <1>4 DEF ForgetDurable
  <2> HIDE DEF c
  <2>3. config' \in Creds /\ trusted' \in Creds
    BY <2>1, <2>2, ImportEffect DEF TypeInv
  <2> QED  BY <1>4, <2>1, <2>2, <2>3, SaveEffect DEF TypeInv, ForgetDurable
<1> QED  BY <1>1, <1>2, <1>3, <1>4 DEF Forgetting

LEMMA StoreTypes ==
  ASSUME TypeInv, Autosave \/ Configure
  PROVE  TypeInv'
<1> USE DEF setting, history, wire, app, disk, transaction, table, NotForgetting
<1>1. CASE Autosave
  <2>1. config \in Creds /\ (SaveOk(config) \/ SaveFails(config))
    BY <1>1 DEF TypeInv, Autosave
  <2> QED  BY <1>1, <2>1, SaveEffect DEF TypeInv, Autosave
<1>2. CASE Configure
  <2>1. trusted' \in Creds
    BY <1>2, ImportEffect DEF TypeInv, Configure
  <2> QED  BY <1>2, <2>1 DEF TypeInv, Configure
<1> QED  BY <1>1, <1>2

LEMMA CrashTypes ==
  ASSUME TypeInv, Crash
  PROVE  TypeInv'
<1>1. trusted' \in Creds /\ config' \in Creds /\ snapshot' \in Creds /\ durable' \in Creds
  BY ImportEffect DEF TypeInv, Crash
<1>2. persisted' \in BOOLEAN
  BY DEF Crash, CommitEnds
<1> QED
  BY <1>1, <1>2 DEF TypeInv, Crash, CommitEnds, Answer, Phase, Decision, history, NotForgetting

LEMMA StepTypes ==
  ASSUME TypeInv, [Next]_vars
  PROVE  TypeInv'
<1>1. CASE UNCHANGED vars
  BY <1>1 DEF TypeInv, vars, wire, table, app, disk, transaction, setting, history, NotForgetting
<1>2. CASE Next
  BY <1>2, ClientTypes, ControlTypes, AppTypes, ForgetTypes, StoreTypes, CrashTypes
     DEF Next, AppStep, ClientSide, Forgetting
<1> QED  BY <1>1, <1>2

--------------------------------------------------------------------------------
(* Steps that decide nothing about a secret.                               *)

\* Whatever is true of the secret after the step was true of it before.
Calm(s) ==
    /\ client'[s] = "paired" => client[s] = "paired" /\ (s \in toHost' => s \in toHost)
    /\ Unasked(s)' => Unasked(s)
    /\ Queued(s)' => Queued(s)
    /\ dialog' = s => dialog = s
    /\ committing' = s => committing = s /\ persisted' = persisted
    /\ decision'[s] \in {decision[s], "none"}
    /\ Granted(s)' => Granted(s)
    /\ Accepted(s)' => Accepted(s)
    /\ s \in committed => s \in committed'
    /\ s \in unsaved => s \in unsaved'
    /\ s \in refused' => s \in refused
    /\ s \in cut => s \in cut'

LEMMA CalmKeeps ==
  ASSUME NEW s \in Session, SecretInv(s), Calm(s)
  PROVE  SecretInv(s)'
<1>1. InApp(s)' => InApp(s)
  BY DEF Calm, InApp
<1>2. Undecided(s)' => Undecided(s)
  BY <1>1 DEF Calm, Undecided
<1>3. AskedOnce(s)'
  BY <1>1 DEF SecretInv, AskedOnce, Calm
<1>4. Settled(s)'
  BY <1>2 DEF SecretInv, Settled, Calm
<1> QED  BY <1>3, <1>4 DEF SecretInv

\* The application's storage and queue stay as they are.
LEMMA SameQueue ==
  ASSUME UNCHANGED <<requests, dialog, committing>>, NEW s \in Session
  PROVE  /\ Queued(s)' <=> Queued(s)
         /\ dialog' = s => dialog = s
         /\ committing' = s => committing = s
  BY DEF Queued

LEMMA SameStore ==
  ASSUME NEW s \in Session, UNCHANGED <<trusted, config, durable, committing, before>>
  PROVE  Retained(s)' <=> Retained(s)
  BY DEF Retained, Stored

LEMMA SameFile ==
  ASSUME FileInv, UNCHANGED <<peerOf, config, durable, before, committing, requests, forgetting>>
  PROVE  FileInv'
  BY DEF FileInv, OwnPeers

\* The client's own steps and the passing of time: it learns only what the
\* host has accepted.
LEMMA ClientCalm ==
  ASSUME IInv, NEW t \in Session, ClientSide(t), NEW s \in Session
  PROVE  Calm(s)
<1> USE DEF wire, table, app, disk, transaction, setting, history
<1>1. UNCHANGED <<requests, dialog, committing, persisted, before, config, durable, trusted,
                 decision, host, committed, refused, unsaved, cut>>
  BY DEF ClientSide, SendEnroll, ClientStep, ReceiveAccepted, ReceiveRejected, ClientTimeout,
         ClientEnds, LinkDrops, SessionLost, Expire
<1>2. Retained(s)' => Retained(s)
  BY <1>1, SameStore
<1>3. /\ client'[s] = "paired" => client[s] = "paired" /\ (s \in toHost' => s \in toHost)
      /\ s \in toHost' => s \in toHost \/ client[s] = "paired"
      /\ client'[s] = "learned" => client[s] = "learned" \/ toClient[s] = "accepted"
      /\ toClient'[s] = "accepted" => toClient[s] = "accepted"
  BY DEF IInv, TypeInv, ClientSide, SendEnroll, ClientStep, ReceiveAccepted, ReceiveRejected,
         ClientTimeout, ClientEnds, LinkDrops, SessionLost, Expire
<1>4. Unasked(s)' => Unasked(s)
  BY <1>3 DEF Unasked
<1>5. (Granted(s)' => Granted(s)) /\ (Accepted(s)' => Accepted(s))
  BY <1>1, <1>2, <1>3 DEF Accepted, Granted
<1>6. Queued(s)' => Queued(s)
  BY <1>1, SameQueue
<1> QED  BY <1>1, <1>3, <1>4, <1>5, <1>6 DEF Calm

LEMMA ClientKeeps ==
  ASSUME IInv, NEW t \in Session, ClientSide(t)
  PROVE  IInv'
<1>1. UNCHANGED <<peerOf, config, durable, before, committing, requests, forgetting>>
  BY DEF wire, table, app, disk, transaction, setting, history, ClientSide, SendEnroll, ClientStep,
         ReceiveAccepted, ReceiveRejected, ClientTimeout, ClientEnds, LinkDrops, SessionLost,
         Expire
<1> QED  BY <1>1, ClientTypes, SameFile, ClientCalm, CalmKeeps DEF IInv

--------------------------------------------------------------------------------
(* The host's control thread.                                              *)

\* It installs what has been accepted, and says so: the secret was accepted
\* before each of these steps.
LEMMA ControlCalm ==
  ASSUME IInv, NEW t \in Session, NEW s \in Session,
         \/ CheckStop(t) \/ ReadNothing(t) \/ SendAccepted(t) \/ remember_trusted_peer(t)
         \/ take_trusted_enrollment(t) /\ (s # t \/ refused' = refused)
  PROVE  Calm(s)
<1> USE DEF wire, table, app, disk, transaction, setting, history
<1>1. UNCHANGED <<client, toHost, requests, dialog, committing, persisted, before, config, durable,
                 committed, unsaved, cut>>
  BY DEF CheckStop, ReadNothing, SendAccepted, remember_trusted_peer, take_trusted_enrollment
<1>2. decision'[s] \in {decision[s], "none"}
  BY DEF IInv, TypeInv, CheckStop, ReadNothing, SendAccepted, remember_trusted_peer,
         take_trusted_enrollment, Drop
<1>3. \A p \in Peer : trusted'[p] = s => trusted[p] = s \/ host[s] = "import"
  BY DEF IInv, TypeInv, Creds, CheckStop, ReadNothing, SendAccepted, remember_trusted_peer,
         take_trusted_enrollment
<1>4. host'[s] \in {"import", "ack"} => host[s] \in {"import", "ack"} \/ decision[s] = "accepted"
  BY DEF IInv, TypeInv, CheckStop, ReadNothing, SendAccepted, remember_trusted_peer,
         take_trusted_enrollment, HostGoes
<1>5. toClient'[s] = "accepted" => toClient[s] = "accepted" \/ host[s] = "ack"
  BY DEF IInv, TypeInv, CheckStop, ReadNothing, SendAccepted, remember_trusted_peer,
         take_trusted_enrollment
<1>6. s \in refused' => s \in refused
  BY DEF CheckStop, ReadNothing, SendAccepted, remember_trusted_peer, take_trusted_enrollment
<1>7. Unasked(s)' => Unasked(s)
  BY <1>1 DEF Unasked
<1>8. Retained(s)' => Retained(s) \/ host[s] = "import"
  BY <1>1, <1>3 DEF Retained, Stored
<1>9. decision'[s] = "accepted" => decision[s] = "accepted"
  BY <1>2
<1>10. (Granted(s)' => Granted(s)) /\ (Accepted(s)' => Accepted(s))
  BY <1>1, <1>4, <1>5, <1>8, <1>9 DEF Accepted, Granted
<1>11. Queued(s)' => Queued(s)
  BY <1>1, SameQueue
<1> QED  BY <1>1, <1>2, <1>6, <1>7, <1>10, <1>11 DEF Calm

\* A transaction the host rejects, late or rejected by the user, is undecided:
\* nobody has taken its secret for a credential.
LEMMA TakeRejects ==
  ASSUME IInv, NEW s \in Session, take_trusted_enrollment(s), refused' # refused
  PROVE  SecretInv(s)'
<1> USE DEF wire, table, app, disk, transaction, setting, history
<1>1. /\ decision[s] \in {"rejected", "pending"}
      /\ decision'[s] = "none" /\ host[s] = "take" /\ host'[s] = "read"
      /\ toClient'[s] = "rejected" /\ refused' = refused \cup {s}
      /\ UNCHANGED <<client, toHost, trusted, requests, dialog, committing, persisted, before,
                     config, durable, committed, unsaved, cut>>
  BY DEF IInv, TypeInv, take_trusted_enrollment, Drop, HostGoes
<1>2. Undecided(s) /\ ~Accepted(s) /\ ~Unasked(s)
  BY <1>1 DEF IInv, SecretInv, AskedOnce, Settled, Undecided
<1>3. (Retained(s)' <=> Retained(s)) /\ ~Unasked(s)'
  BY <1>1, <1>2, SameStore DEF Unasked
<1>4. ~Accepted(s)'
  BY <1>1, <1>2, <1>3 DEF Accepted, Granted
<1>5. Queued(s)' <=> Queued(s)
  BY <1>1, SameQueue
<1>6. AskedOnce(s)'
  BY <1>1, <1>3, <1>5 DEF IInv, SecretInv, AskedOnce, Unasked
<1> QED  BY <1>4, <1>6 DEF SecretInv, Settled, Accepted

\* The request of one session neither starts nor accepts another one; the late
\* transactions it sweeps out of the table are given up.
LEMMA BeginOthers ==
  ASSUME IInv, NEW t \in Session, begin_trusted_enrollment(t), NEW s \in Session, s # t
  PROVE  Calm(s)
<1> USE DEF wire, table, app, disk, transaction, setting, history
<1>1. /\ UNCHANGED <<client, trusted, config, durable, dialog, committing, persisted, before,
                     committed, unsaved, cut>>
      /\ requests' = requests \/ requests' = Append(requests, t)
  BY DEF begin_trusted_enrollment
<1>2. /\ decision'[s] \in {decision[s], "none"} /\ host'[s] = host[s]
      /\ toClient'[s] = toClient[s]
      /\ s \in refused' => s \in refused
      /\ s \in toHost' <=> s \in toHost
  BY DEF IInv, TypeInv, begin_trusted_enrollment, HostGoes
<1>3. ~Queued(t)
  BY DEF begin_trusted_enrollment, IInv, SecretInv, AskedOnce, Unasked, InApp
<1>4. Queued(s)' => Queued(s)
  BY <1>1, <1>3, QueueAppend DEF IInv, TypeInv, FileInv, Queued
<1>5. Unasked(s)' => Unasked(s)
  BY <1>1, <1>2 DEF Unasked
<1>6. Retained(s)' => Retained(s)
  BY <1>1, SameStore
<1>7. decision'[s] = "accepted" => decision[s] = "accepted"
  BY <1>2
<1>8. (Granted(s)' => Granted(s)) /\ (Accepted(s)' => Accepted(s))
  BY <1>1, <1>2, <1>6, <1>7 DEF Accepted, Granted
<1> QED  BY <1>1, <1>2, <1>4, <1>5, <1>8 DEF Calm

\* A session asks once, and nothing was known of its secret before.
LEMMA BeginOwn ==
  ASSUME IInv, NEW s \in Session, begin_trusted_enrollment(s)
  PROVE  SecretInv(s)'
<1> USE DEF wire, table, app, disk, transaction, setting, history
<1>1. /\ UNCHANGED <<client, trusted, config, durable, dialog, committing, persisted, before,
                     committed, unsaved, cut>>
      /\ s \in toHost /\ host[s] = "read" /\ host'[s] = "watch" /\ s \notin toHost'
      /\ decision'[s] \in {"none", "pending"} \/ decision'[s] = decision[s]
      /\ toClient'[s] \in {toClient[s], "rejected"}
      /\ refused' = refused \/ (refused' = refused \cup {s} /\ decision'[s] # "pending")
         \/ (refused' = refused \cup {s} /\ decision'[s] = decision[s])
  BY DEF IInv, TypeInv, begin_trusted_enrollment, HostGoes
<1>2. /\ Unasked(s) /\ client[s] # "paired" /\ ~InApp(s) /\ decision[s] = "none"
      /\ s \notin refused /\ ~Accepted(s)
  BY <1>1 DEF IInv, SecretInv, AskedOnce, Settled, Undecided, Unasked
<1>3. Retained(s)' <=> Retained(s)
  BY <1>1, SameStore
<1>4. ~Accepted(s)'
  BY <1>1, <1>2, <1>3 DEF Accepted, Granted
<1>5. ~Unasked(s)' /\ dialog' # s /\ committing' # s
  BY <1>1, <1>2 DEF Unasked, InApp
<1>6. decision'[s] = "pending" => s \notin refused'
  BY <1>1, <1>2
<1>7. AskedOnce(s)'
  BY <1>1, <1>2, <1>5, <1>6 DEF AskedOnce, Unasked
<1> QED  BY <1>4, <1>7 DEF SecretInv, Settled, Accepted

LEMMA ControlKeeps ==
  ASSUME IInv, NEW t \in Session, ControlStep(t)
  PROVE  IInv'
<1>1. TypeInv'
  BY ControlTypes DEF IInv
<1>2. CASE begin_trusted_enrollment(t)
  <2>1. FileInv'
    <3>1. /\ UNCHANGED <<peerOf, config, durable, before, committing, forgetting>> /\ t \in toHost
          /\ requests' = requests \/ requests' = Append(requests, t)
      BY <1>2 DEF begin_trusted_enrollment, setting, disk, transaction
    <3>2. ~Queued(t)
      BY <3>1 DEF IInv, SecretInv, AskedOnce, Unasked, InApp
    <3> QED  BY <3>1, <3>2, QueueAppend DEF IInv, TypeInv, FileInv, OwnPeers
  <2> QED  BY <1>1, <1>2, <2>1, BeginOwn, BeginOthers, CalmKeeps DEF IInv
<1>3. CASE ~begin_trusted_enrollment(t)
  <2>1. UNCHANGED <<peerOf, config, durable, before, committing, requests, forgetting>>
    BY <1>3 DEF ControlStep, CheckStop, ReadNothing, SendAccepted, remember_trusted_peer,
                take_trusted_enrollment, wire, table, app, disk, transaction, setting, history
  <2>2. ASSUME NEW s \in Session PROVE SecretInv(s)'
    BY <1>3, ControlCalm, TakeRejects, CalmKeeps DEF IInv, ControlStep
  <2> QED  BY <1>1, <2>1, <2>2, SameFile DEF IInv
<1> QED  BY <1>2, <1>3

--------------------------------------------------------------------------------
(* The host's application.                                                 *)

Decides(t) ==
    \/ HandleRequest /\ t = Head(requests)
    \/ (UserAccepts \/ UserRejects) /\ t = dialog
    \/ (accept_trusted_enrollment \/ RejectUnsaved) /\ t = committing

\* It commits the transaction, or rejects it without a trace in its storage.
Turns(t) ==
    \/ Commit(t)
    \/ Reject(t) /\ UNCHANGED <<config, disk, transaction, committed, unsaved>>

\* The transaction it turns to was waiting with it.
LEMMA SubjectWaits ==
  ASSUME IInv, NEW t, Decides(t)
  PROVE  /\ t \in Session /\ t # None /\ InApp(t) /\ ~Unasked(t) /\ ~Accepted(t)
         /\ t = committing \/ (committing = None /\ before = None)
<1>1. t \in Session /\ InApp(t)
  BY QueueTail DEF IInv, TypeInv, FileInv, Decides, HandleRequest, UserAccepts, UserRejects,
                   accept_trusted_enrollment, RejectUnsaved, InApp, Queued
<1>2. t # None
  BY <1>1, EnrollmentAssumption
<1>3. ~Unasked(t) /\ ~Accepted(t)
  BY <1>1 DEF IInv, SecretInv, AskedOnce, Settled, Undecided
<1>4. t = committing \/ (committing = None /\ before = None)
  BY DEF Decides, HandleRequest, UserAccepts, UserRejects, Idle, IInv, FileInv
<1> QED  BY <1>1, <1>2, <1>3, <1>4

\* What the application decides, as far as its storage goes.
LEMMA DecidesHow ==
  ASSUME IInv, NEW t, Decides(t)
  PROVE  \/ accept_trusted_enrollment /\ t = committing
         \/ RejectUnsaved /\ t = committing
         \/ HandleRequest /\ t = Head(requests) /\ dialog' = t
            /\ UNCHANGED <<table, config, disk, transaction, history>>
         \/ (HandleRequest \/ UserAccepts \/ UserRejects)
            /\ committing = None /\ before = None /\ Turns(t)
<1>1. CASE HandleRequest /\ t = Head(requests)
  BY <1>1 DEF HandleRequest, Turns, Idle, IInv, FileInv
<1>2. CASE (UserAccepts \/ UserRejects) /\ t = dialog
  BY <1>2 DEF UserAccepts, UserRejects, Turns, Idle, IInv, FileInv
<1> QED  BY <1>1, <1>2 DEF Decides

\* Commit and Reject leave every other secret as it was; the one a commit
\* replaces was in the configuration and is kept for the roll-back.
LEMMA TurnsOthers ==
  ASSUME IInv, NEW t \in Session, committing = None, before = None, Turns(t),
         NEW s \in Session, s # t, UNCHANGED trusted
  PROVE  /\ decision'[s] \in {decision[s], "none"}
         /\ committing' # s
         /\ Retained(s)' => Retained(s)
         /\ s \in committed => s \in committed'
         /\ s \in unsaved => s \in unsaved'
         /\ s \in refused' => s \in refused
<1>1. s # None /\ t # None
  BY EnrollmentAssumption
<1>2. CASE Reject(t) /\ UNCHANGED <<config, disk, transaction, committed, unsaved>>
  <2>1. Retained(s)' <=> Retained(s)
    BY <1>2, SameStore DEF disk, transaction
  <2> QED  BY <1>1, <1>2, <2>1 DEF IInv, TypeInv, Reject, Drop, table, transaction
<1>3. CASE t \in Open \ late /\ committing' = t
  <2> DEFINE c == [config EXCEPT ![peerOf[t]] = t]
  <2>1. /\ config' = c /\ (SaveOk(c) \/ SaveFails(c)) /\ before' = config[peerOf[t]]
        /\ UNCHANGED <<table, refused>>
        /\ committed \subseteq committed' /\ unsaved \subseteq unsaved'
    BY <1>1, <1>3 DEF Commit, Turns, transaction
  <2>2. peerOf[t] \in Peer /\ \A p \in Peer : c[p] = s => config[p] = s
    BY DEF IInv, TypeInv, Creds
  <2>3. durable' \in {durable, c}
    BY <2>1 DEF SaveOk, SaveFails
  <2> HIDE DEF c
  <2>4. (Stored(s)' => Stored(s)) /\ (before' = s => Stored(s))
    BY <2>1, <2>2, <2>3 DEF Stored
  <2>5. Retained(s)' => Retained(s)
    BY <1>1, <2>4 DEF Retained
  <2> QED  BY <1>1, <1>3, <2>1, <2>5 DEF table
<1> QED  BY <1>2, <1>3 DEF Turns, Commit

\* A roll-back brings back what was there before, or leaves the file as it is.
LEMMA RollBackStore ==
  ASSUME IInv, NEW t \in Session, t = committing, RollBack(t), UNCHANGED trusted, CommitEnds,
         NEW s \in Session, s # t
  PROVE  Retained(s)' => Retained(s)
<1> DEFINE c == [config EXCEPT ![peerOf[t]] = before]
<1>1. config' = c /\ (SaveOk(c) \/ SaveFails(c))
  BY DEF RollBack
<1>2. \A p \in Peer : c[p] = s => config[p] = s \/ before = s
  BY DEF IInv, TypeInv, Creds
<1>3. durable' \in {durable, c}
  BY <1>1 DEF SaveOk, SaveFails
<1> HIDE DEF c
<1>4. Stored(s)' => Stored(s) \/ before = s
  BY <1>1, <1>2, <1>3 DEF Stored
<1>5. s # None
  BY EnrollmentAssumption
<1> QED  BY <1>4, <1>5 DEF Retained, CommitEnds

LEMMA DecidesOthers ==
  ASSUME IInv, NEW t, Decides(t), NEW s \in Session, s # t
  PROVE  Calm(s)
<1> USE DEF wire, history, setting
<1>1. UNCHANGED <<client, toHost, toClient, host, trusted, cut>>
  BY DEF Decides, HandleRequest, UserAccepts, UserRejects, accept_trusted_enrollment, RejectUnsaved
<1>2. t \in Session /\ s # None
  BY SubjectWaits, EnrollmentAssumption
<1>3. /\ Queued(s)' => Queued(s)
      /\ dialog' = s => dialog = s
  BY <1>2, QueueTail DEF IInv, TypeInv, FileInv, Decides, HandleRequest, UserAccepts, UserRejects,
                   accept_trusted_enrollment, RejectUnsaved, Queued
<1>4. /\ decision'[s] \in {decision[s], "none"}
      /\ committing' = s => committing = s /\ persisted' = persisted
      /\ Retained(s)' => Retained(s)
      /\ s \in committed => s \in committed'
      /\ s \in unsaved => s \in unsaved'
      /\ s \in refused' => s \in refused
  <2>1. CASE accept_trusted_enrollment /\ t = committing
    <3>1. /\ decision'[s] \in {decision[s], "none"} /\ CommitEnds
          /\ RollBack(t) \/ UNCHANGED <<config, disk, history>>
      BY <1>2, <2>1 DEF accept_trusted_enrollment, Drop, table, IInv, TypeInv
    <3>2. /\ s \in committed => s \in committed'
          /\ s \in unsaved => s \in unsaved'
          /\ s \in refused' => s \in refused
      BY <1>2, <3>1 DEF RollBack
    <3>3. CASE RollBack(t)
      <4>1. t = committing /\ UNCHANGED trusted
        BY <1>1, <2>1
      <4>2. Retained(s)' => Retained(s)
        BY <1>2, <3>1, <3>3, <4>1, RollBackStore
      <4> QED  BY <3>1, <3>2, <4>2, <1>2 DEF CommitEnds
    <3>4. CASE UNCHANGED <<config, disk, history>>
      <4>1. Retained(s)' => Retained(s)
        BY <1>1, <1>2, <2>1, <3>1, <3>4 DEF Retained, Stored, CommitEnds, disk
      <4> QED  BY <1>2, <3>1, <3>2, <4>1 DEF CommitEnds
    <3> QED  BY <3>1, <3>3, <3>4
  <2>2. CASE RejectUnsaved /\ t = committing
    <3>1. /\ decision'[s] \in {decision[s], "none"} /\ CommitEnds
          /\ UNCHANGED <<config, disk, committed, unsaved>> /\ refused' = refused \cup {t}
      BY <1>2, <2>2 DEF RejectUnsaved, Reject, Drop, table, IInv, TypeInv
    <3> QED  BY <1>1, <1>2, <2>2, <3>1 DEF Retained, Stored, CommitEnds, disk
  <2>3. CASE UNCHANGED <<table, config, disk, transaction, history>>
    BY <1>1, <2>3, SameStore DEF table, disk, transaction
  <2>4. CASE committing = None /\ before = None /\ Turns(t)
    BY <1>1, <1>2, <2>4, TurnsOthers
  <2> QED  BY <2>1, <2>2, <2>3, <2>4, DecidesHow
<1>5. Unasked(s)' => Unasked(s)
  BY <1>1 DEF Unasked
<1>6. decision'[s] = "accepted" => decision[s] = "accepted"
  BY <1>4
<1>7. (Granted(s)' => Granted(s)) /\ (Accepted(s)' => Accepted(s))
  BY <1>1, <1>4, <1>6 DEF Accepted, Granted
<1> QED  BY <1>1, <1>3, <1>4, <1>5, <1>7 DEF Calm

\* What is rejected is granted to nobody.
LEMMA RejectOwn ==
  ASSUME TypeInv, NEW s \in Session, Reject(s), ~Granted(s), UNCHANGED <<client, wire, host>>
  PROVE  ~Granted(s)' /\ decision'[s] \in {"none", "rejected"}
<1>1. decision[s] # "accepted"
  BY DEF Granted
<1>2. decision'[s] \in {"none", "rejected"}
  BY <1>1 DEF Reject, Drop, Open, table, TypeInv
<1> QED  BY <1>2 DEF Granted, wire

\* A request the application is about to commit or to reject: committed, it is
\* in the configuration and still undecided; rejected, it is nowhere.
LEMMA TurnsOwn ==
  ASSUME IInv, NEW s \in Session, committing = None, before = None, InApp(s), Turns(s),
         UNCHANGED <<client, wire, host, trusted, cut>>, ~Queued(s)', dialog' # s
  PROVE  SecretInv(s)'
<1>1. s # None /\ ~Unasked(s) /\ ~Accepted(s) /\ (decision[s] = "pending" => s \notin refused)
  BY EnrollmentAssumption DEF IInv, SecretInv, AskedOnce, Settled, Undecided
<1>2. ~Unasked(s)' /\ ~Granted(s)
  BY <1>1 DEF Unasked, Accepted, wire
<1>3. CASE Reject(s) /\ UNCHANGED <<config, disk, transaction, committed, unsaved>>
  <2>1. ~Granted(s)' /\ decision'[s] \in {"none", "rejected"}
    BY <1>2, <1>3, RejectOwn DEF IInv
  <2>2. (Retained(s)' <=> Retained(s)) /\ committing' = None
    BY <1>3, SameStore DEF disk, transaction
  <2>3. ~Accepted(s)'
    BY <1>1, <1>3, <2>1, <2>2 DEF Accepted
  <2>4. AskedOnce(s)'
    BY <1>1, <1>2, <2>1, <2>2 DEF AskedOnce, Unasked
  <2> QED  BY <2>1, <2>3, <2>4 DEF SecretInv, Settled
<1>4. CASE s \in Open \ late /\ committing' = s
  <2>1. /\ before' = config[peerOf[s]] /\ UNCHANGED <<table, refused>>
        /\ IF persisted' THEN s \in committed' ELSE s \in unsaved'
        /\ unsaved \subseteq unsaved'
    BY <1>1, <1>4 DEF Turns, Commit, transaction
  <2>2. ~Granted(s)'
    BY <1>2, <2>1 DEF Granted, wire, table
  <2>3. ~Retained(s) => ~Retained(s)'
    BY <1>1, <1>4, <2>1 DEF Retained, Stored, IInv, TypeInv
  <2>4. ~Accepted(s)'
    BY <1>1, <2>1, <2>2, <2>3 DEF Accepted
  <2>5. AskedOnce(s)'
    BY <1>1, <1>2, <1>4, <2>1 DEF AskedOnce, Unasked, table
  <2> QED  BY <2>2, <2>4, <2>5 DEF SecretInv, Settled
<1> QED  BY <1>3, <1>4 DEF Turns, Commit

\* The answer to the transaction that has been saved: accepted while it is
\* pending and in time, taken back in every other case; and when that save
\* fails, the secret counts as unsaved.
LEMMA AcceptOwn ==
  ASSUME IInv, accept_trusted_enrollment, NEW s, s = committing
  PROVE  SecretInv(s)'
<1> USE DEF wire, table
<1>1. /\ s \in Session /\ s # None /\ InApp(s) /\ ~Unasked(s) /\ ~Accepted(s)
      /\ s \in committed /\ ~Queued(s) /\ dialog # s
      /\ decision[s] = "pending" => s \notin refused
  BY SubjectWaits DEF Decides, IInv, SecretInv, AskedOnce, accept_trusted_enrollment
<1>2. UNCHANGED <<client, wire, host, trusted, requests, dialog, cut>>
      /\ committing' = None /\ before' = None
  BY DEF accept_trusted_enrollment, setting, CommitEnds
<1>3. ~Unasked(s)' /\ ~Queued(s)'
  BY <1>1, <1>2 DEF Unasked, Queued
<1>4. CASE /\ decision[s] \in {"pending", "accepted"} /\ s \notin late
           /\ decision' = [decision EXCEPT ![s] = "accepted"]
           /\ UNCHANGED <<late, config, disk, history>>
  <2>1. decision[s] = "pending" /\ decision'[s] = "accepted" /\ s \notin refused'
    BY <1>1, <1>4 DEF Accepted, Granted, IInv, TypeInv, history
  <2>2. ~Undecided(s)'
    BY <1>1, <1>2, <1>3, <2>1 DEF Undecided, InApp
  <2>3. AskedOnce(s)'
    BY <1>1, <1>2, <1>3, <2>1 DEF AskedOnce, Unasked
  <2> QED  BY <1>1, <1>4, <2>1, <2>2, <2>3 DEF SecretInv, Settled, history
<1>5. CASE /\ decision[s] \in {"none", "rejected"} \/ s \in late
           /\ IF s \in late THEN Drop(s) ELSE UNCHANGED table
           /\ RollBack(s)
  <2>1. decision'[s] \in {"none", "rejected"}
    BY <1>1, <1>5 DEF Drop, IInv, TypeInv
  <2>2. ~Granted(s)'
    BY <1>1, <1>2, <2>1 DEF Accepted, Granted
  <2>3. ASSUME s \notin unsaved' PROVE ~Retained(s)'
    <3> DEFINE c == [config EXCEPT ![peerOf[s]] = before]
    <3>1. s \notin unsaved /\ config' = c /\ SaveOk(c)
      BY <1>5, <2>3 DEF RollBack
    <3>2. before # s /\ \A p \in Peer : trusted[p] # s
      BY <1>1, <3>1 DEF Accepted, Retained
    <3>3. \A p \in Peer : c[p] # s
      BY <1>1, <3>2 DEF IInv, TypeInv, Creds, FileInv, OwnPeers
    <3>4. durable' = c
      BY <3>1 DEF SaveOk
    <3> HIDE DEF c
    <3> QED  BY <1>1, <1>2, <3>1, <3>2, <3>3, <3>4 DEF Retained, Stored
  <2>4. ~Accepted(s)'
    BY <2>2, <2>3 DEF Accepted
  <2>5. AskedOnce(s)'
    BY <1>1, <1>2, <1>3, <2>1 DEF AskedOnce, Unasked
  <2> QED  BY <2>2, <2>4, <2>5 DEF SecretInv, Settled
<1> QED  BY <1>4, <1>5 DEF accept_trusted_enrollment

\* The answer to the one that has not: it stays where it is, unsaved.
LEMMA UnsavedOwn ==
  ASSUME IInv, RejectUnsaved, NEW s, s = committing
  PROVE  SecretInv(s)'
<1>1. /\ s \in Session /\ s # None /\ ~Unasked(s) /\ ~Accepted(s)
      /\ s \in unsaved /\ ~Queued(s) /\ dialog # s
  BY SubjectWaits DEF Decides, IInv, SecretInv, AskedOnce, RejectUnsaved
<1>2. UNCHANGED <<client, wire, host, requests, dialog, unsaved>> /\ committing' = None
  BY DEF RejectUnsaved, setting, CommitEnds
<1>3. ~Granted(s)' /\ decision'[s] \in {"none", "rejected"}
  BY <1>1, <1>2, RejectOwn DEF RejectUnsaved, Accepted, IInv
<1>4. ~Accepted(s)'
  BY <1>1, <1>2, <1>3 DEF Accepted
<1>5. ~Unasked(s)' /\ ~Queued(s)'
  BY <1>1, <1>2 DEF Unasked, Queued, wire
<1>6. AskedOnce(s)'
  BY <1>1, <1>2, <1>3, <1>5 DEF AskedOnce, Unasked
<1> QED  BY <1>3, <1>4, <1>6 DEF SecretInv, Settled

LEMMA DecidesOwn ==
  ASSUME IInv, NEW t, Decides(t)
  PROVE  SecretInv(t)'
<1> USE DEF wire, history, setting
<1>1. /\ t \in Session /\ t # None /\ InApp(t) /\ ~Unasked(t) /\ ~Accepted(t)
  BY SubjectWaits
<1>2. AskedOnce(t)
  BY <1>1 DEF IInv, SecretInv
<1>3. ASSUME HandleRequest, t = Head(requests)
      PROVE  Queued(t) /\ ~Queued(t)' /\ dialog # t /\ committing = None
  <2>1. Queued(t) /\ ~Queued(t)'
    BY <1>3, QueueTail DEF IInv, TypeInv, FileInv, HandleRequest, Queued
  <2> QED  BY <1>2, <1>3, <2>1 DEF HandleRequest, Idle, AskedOnce
<1>4. CASE HandleRequest /\ t = Head(requests) /\ dialog' = t
           /\ UNCHANGED <<table, config, disk, transaction, history>>
  <2>1. UNCHANGED <<client, toHost, toClient, host, decision, trusted, config, durable, committing,
                   before, committed, refused, unsaved, cut>>
    BY <1>4 DEF HandleRequest, table, disk, transaction
  <2>2. ~Unasked(t)' /\ ~Accepted(t)'
    BY <1>1, <2>1 DEF Unasked, Accepted, Granted, Retained, Stored
  <2>3. AskedOnce(t)'
    BY <1>1, <1>2, <1>3, <1>4, <2>1, <2>2 DEF AskedOnce, Unasked
  <2> QED  BY <2>2, <2>3 DEF SecretInv, Settled, Accepted
<1>5. CASE /\ HandleRequest \/ UserAccepts \/ UserRejects
           /\ committing = None /\ before = None /\ Turns(t)
  <2>1. UNCHANGED <<client, wire, host, trusted, cut>>
    BY <1>5 DEF HandleRequest, UserAccepts, UserRejects
  <2>2. CASE HandleRequest /\ t = Head(requests) /\ dialog' = t
             /\ UNCHANGED <<table, config, disk, transaction, history>>
    BY <1>4, <2>2
  <2>3. CASE HandleRequest /\ t = Head(requests) /\ UNCHANGED dialog
    BY <1>1, <1>3, <1>5, <2>1, <2>3, TurnsOwn
  <2>4. CASE (UserAccepts \/ UserRejects) /\ t = dialog
    <3>1. dialog' = None /\ UNCHANGED requests
      BY <2>4 DEF UserAccepts, UserRejects
    <3>2. ~Queued(t)
      BY <1>2, <2>4 DEF AskedOnce
    <3>3. dialog' # t /\ ~Queued(t)'
      BY <1>1, <3>1, <3>2 DEF Queued
    <3> QED  BY <1>1, <1>5, <2>1, <3>3, TurnsOwn
  <2>5. CASE t = committing
    BY <1>1, <1>5, <2>5
  <2> QED  BY <2>2, <2>3, <2>4, <2>5 DEF Decides, HandleRequest
<1> QED  BY <1>4, <1>5, AcceptOwn, UnsavedOwn, DecidesHow

LEMMA SaveOwnPeers ==
  ASSUME NEW c, OwnPeers(c), OwnPeers(durable), SaveOk(c) \/ SaveFails(c)
  PROVE  durable' = durable \/ durable' = c
  BY DEF SaveOk, SaveFails

LEMMA DecidesFile ==
  ASSUME IInv, NEW t, Decides(t)
  PROVE  FileInv'
<1> USE DEF wire, history, setting
<1>1. /\ t \in Session /\ t # None /\ peerOf[t] \in Peer /\ UNCHANGED <<peerOf, forgetting>>
  BY SubjectWaits DEF IInv, TypeInv, Decides, HandleRequest, UserAccepts, UserRejects,
                      accept_trusted_enrollment, RejectUnsaved
<1>2. \A i, j \in DOMAIN requests' : requests'[i] = requests'[j] => i = j
  BY QueueTail DEF IInv, TypeInv, FileInv, Decides, HandleRequest, UserAccepts, UserRejects,
                   accept_trusted_enrollment, RejectUnsaved
<1>3. forgetting # NotForgetting => committing' = None
  BY DEF IInv, FileInv, Decides, HandleRequest, UserAccepts, UserRejects, Idle,
         accept_trusted_enrollment, RejectUnsaved, CommitEnds
<1>4. /\ OwnPeers(config)' /\ OwnPeers(durable)'
      /\ before' # None => committing' # None /\ peerOf[before'] = peerOf[committing']
  <2>1. CASE UNCHANGED <<config, disk, transaction>>
    BY <1>1, <2>1 DEF IInv, FileInv, OwnPeers, disk, transaction
  <2>2. CASE UNCHANGED <<config, disk>> /\ CommitEnds
    BY <1>1, <2>2 DEF IInv, FileInv, OwnPeers, disk, CommitEnds
  <2>3. CASE RollBack(t) /\ t = committing /\ CommitEnds
    <3> DEFINE c == [config EXCEPT ![peerOf[t]] = before]
    <3>1. config' = c /\ (SaveOk(c) \/ SaveFails(c))
      BY <2>3 DEF RollBack
    <3>2. OwnPeers(c)
      BY <1>1, <2>3 DEF IInv, TypeInv, Creds, FileInv, OwnPeers
    <3> HIDE DEF c
    <3>3. config' = c /\ (durable' = durable \/ durable' = c)
      BY <3>1, <3>2, SaveOwnPeers DEF IInv, FileInv
    <3> QED  BY <1>1, <2>3, <3>2, <3>3 DEF IInv, FileInv, OwnPeers, CommitEnds
  <2>4. CASE t \in Open \ late /\ committing' = t /\ Commit(t)
    <3> DEFINE c == [config EXCEPT ![peerOf[t]] = t]
    <3>1. config' = c /\ (SaveOk(c) \/ SaveFails(c)) /\ before' = config[peerOf[t]]
      BY <2>4 DEF Commit, transaction, IInv, FileInv
    <3>2. OwnPeers(c)
      BY <1>1 DEF IInv, TypeInv, Creds, FileInv, OwnPeers
    <3> HIDE DEF c
    <3>3. durable' = durable \/ durable' = c
      BY <3>1, <3>2, SaveOwnPeers DEF IInv, FileInv
    <3> QED  BY <1>1, <2>4, <3>1, <3>2, <3>3 DEF IInv, FileInv, OwnPeers
  <2>5. CASE Turns(t)
    BY <2>1, <2>4, <2>5 DEF Turns, Commit
  <2>6. CASE accept_trusted_enrollment /\ t = committing
    BY <2>2, <2>3, <2>6 DEF accept_trusted_enrollment
  <2>7. CASE RejectUnsaved /\ t = committing
    BY <2>2, <2>7 DEF RejectUnsaved
  <2> QED  BY <2>1, <2>5, <2>6, <2>7, DecidesHow
<1> QED  BY <1>1, <1>2, <1>3, <1>4 DEF FileInv

LEMMA DecidesKeeps ==
  ASSUME IInv, NEW t, Decides(t)
  PROVE  IInv'
  BY AppTypes, DecidesFile, DecidesOwn, DecidesOthers, CalmKeeps DEF IInv, Decides

--------------------------------------------------------------------------------
(* Forgetting a peer, saving and loading, and restarting.                  *)

\* What is forgotten is only taken away; a save writes, and a load installs,
\* what the configuration holds anyway.
LEMMA StoreCalm ==
  ASSUME NEW s \in Session,
         UNCHANGED <<client, toHost, toClient, host, requests, dialog, committing, persisted,
                     before, committed, refused, unsaved, cut>>,
         decision'[s] \in {decision[s], "none"},
         \A p \in Peer : /\ config'[p] \in {config[p], None}
                         /\ durable'[p] \in {durable[p], config[p], None}
                         /\ \/ trusted'[p] \in {trusted[p], None}
                            \/ committing = None /\ trusted'[p] = config[p]
  PROVE  Calm(s)
<1>1. s # None
  BY EnrollmentAssumption
<1>2. Queued(s)' <=> Queued(s)
  BY SameQueue
<1>3. Unasked(s)' <=> Unasked(s)
  BY DEF Unasked
<1>4. Stored(s)' => Stored(s)
  BY <1>1 DEF Stored
<1>5. Retained(s)' => Retained(s)
  BY <1>1, <1>4 DEF Retained, Stored
<1>6. decision'[s] = "accepted" => decision[s] = "accepted"
  OBVIOUS
<1>7. (Granted(s)' => Granted(s)) /\ (Accepted(s)' => Accepted(s))
  BY <1>5, <1>6 DEF Accepted, Granted
<1> QED  BY <1>2, <1>3, <1>7 DEF Calm

LEMMA StoreFile ==
  ASSUME FileInv, UNCHANGED <<peerOf, before, committing, requests>>,
         forgetting' # NotForgetting => committing = None,
         \A p \in Peer : /\ config'[p] \in {config[p], None}
                         /\ durable'[p] \in {durable[p], config[p], None}
  PROVE  FileInv'
<1>1. OwnPeers(config)' /\ OwnPeers(durable)'
  BY DEF FileInv, OwnPeers
<1> QED  BY <1>1 DEF FileInv

LEMMA ForgetKeeps ==
  ASSUME IInv, Forgetting
  PROVE  IInv'
<1> USE DEF wire, table, app, disk, transaction, history, setting
<1>1. /\ UNCHANGED <<client, toHost, toClient, host, requests, dialog, committing, persisted,
                      before, committed, refused, unsaved, cut, peerOf>>
      /\ \A s \in Session : decision'[s] \in {decision[s], "none"}
      /\ forgetting' # NotForgetting => committing = None
  BY DEF IInv, TypeInv, FileInv, Forgetting, Forget, ForgetSessions, ForgetPending,
         ForgetDurable, Idle, NotForgetting
<1>2. \A p \in Peer : /\ config'[p] \in {config[p], None}
                      /\ durable'[p] \in {durable[p], config[p], None}
                      /\ \/ trusted'[p] \in {trusted[p], None}
                         \/ committing = None /\ trusted'[p] = config[p]
  <2>1. CASE ForgetDurable
    <3> DEFINE c == [config EXCEPT ![forgetting.peer] = None]
    <3>1. \A p \in Peer : c[p] \in {config[p], None}
      BY DEF IInv, TypeInv, Creds
    <3>2. /\ SaveOk(c) \/ SaveFails(c)
          /\ config' \in {config, c} /\ trusted' \in {trusted} \cup Imports(config)
      BY <2>1 DEF ForgetDurable
    <3> HIDE DEF c
    <3>3. durable' \in {durable, c}
      BY <3>2 DEF SaveOk, SaveFails
    <3>4. committing = None
      BY <2>1 DEF ForgetDurable, NotForgetting, IInv, FileInv
    <3>5. \A p \in Peer : trusted'[p] \in {trusted[p], config[p], None}
      BY <3>2, ImportEffect DEF IInv, TypeInv
    <3> QED  BY <3>1, <3>2, <3>3, <3>4, <3>5
  <2>2. CASE ~ForgetDurable
    BY <2>2 DEF IInv, TypeInv, Creds, Forgetting, Forget, ForgetSessions, ForgetPending
  <2> QED  BY <2>1, <2>2
<1>3. \A s \in Session : Calm(s)
  BY <1>1, <1>2, StoreCalm
<1>4. FileInv'
  BY <1>1, <1>2, StoreFile DEF IInv
<1>5. TypeInv'
  BY ForgetTypes DEF IInv
<1> QED  BY <1>3, <1>4, <1>5, CalmKeeps DEF IInv

LEMMA StoreKeeps ==
  ASSUME IInv, Autosave \/ Configure
  PROVE  IInv'
<1> USE DEF wire, table, app, disk, transaction, history, setting
<1>1. /\ UNCHANGED <<client, toHost, toClient, host, requests, dialog, committing, persisted,
                      before, committed, refused, unsaved, cut, peerOf, decision, forgetting,
                      config>>
      /\ committing = None
  BY DEF Autosave, Configure, Idle
<1>2. durable' \in {durable, config} /\ trusted' \in {trusted} \cup Imports(config)
  BY DEF Autosave, Configure, SaveOk, SaveFails
<1>3. \A p \in Peer : trusted'[p] \in {trusted[p], config[p], None}
  BY <1>2, ImportEffect DEF IInv, TypeInv
<1>4. \A s \in Session : Calm(s)
  BY <1>1, <1>2, <1>3, StoreCalm
<1>5. FileInv'
  BY <1>1, <1>2, StoreFile DEF IInv
<1>6. TypeInv'
  BY StoreTypes DEF IInv
<1> QED  BY <1>4, <1>5, <1>6, CalmKeeps DEF IInv

\* After a restart the host has what its file holds: secrets it had accepted,
\* those a save of which had failed, and the one it was just committing, which
\* is cut.
LEMMA CrashKeeps ==
  ASSUME IInv, Crash
  PROVE  IInv'
<1>1. /\ config' = durable /\ requests' = <<>> /\ toHost' = {}
      /\ dialog' = None /\ committing' = None /\ before' = None /\ forgetting' = NotForgetting
      /\ cut' = cut \cup ({committing} \ {None})
      /\ UNCHANGED <<client, durable, peerOf, committed, refused, unsaved>>
  BY DEF Crash, history, CommitEnds
<1>2. \A p \in Peer : trusted'[p] \in {durable[p], None}
  BY ImportEffect DEF Crash, IInv, TypeInv
<1>3. FileInv'
  BY <1>1 DEF IInv, FileInv, OwnPeers
<1>4. ASSUME NEW s \in Session PROVE SecretInv(s)'
  <2>1. s # None /\ SecretInv(s)
    BY EnrollmentAssumption DEF IInv
  <2>2. decision'[s] = "none" /\ host'[s] = "gone" /\ toClient'[s] = "none"
    BY DEF Crash
  <2>3. ~InApp(s)'
    BY <1>1, <2>1 DEF InApp, Queued
  <2>4. Unasked(s)' => Unasked(s)
    BY <1>1 DEF Unasked
  <2>5. AskedOnce(s)'
    BY <1>1, <2>1, <2>2, <2>3, <2>4 DEF SecretInv, AskedOnce
  <2>6. Granted(s)' => Granted(s)
    BY <1>1, <2>2 DEF Granted
  <2>7. Retained(s)' => committing = s \/ Retained(s)
    BY <1>1, <1>2, <2>1 DEF Retained, Stored
  <2>8. Undecided(s)' => Unasked(s)
    BY <2>2, <2>3, <2>4 DEF Undecided
  <2>9. Accepted(s)' => Accepted(s) \/ (committing = s /\ s \notin unsaved)
    BY <1>1, <2>6, <2>7 DEF Accepted
  <2>10. ~(Undecided(s)' /\ Accepted(s)')
    BY <2>1, <2>8, <2>9 DEF SecretInv, AskedOnce, Settled, Undecided, InApp
  <2>11. Accepted(s)' => s \in committed' /\ s \notin refused' \ cut'
    BY <1>1, <2>1, <2>9 DEF SecretInv, AskedOnce, Settled
  <2> QED  BY <1>1, <2>1, <2>5, <2>6, <2>10, <2>11 DEF SecretInv, Settled
<1>5. TypeInv'
  BY CrashTypes DEF IInv
<1> QED  BY <1>3, <1>4, <1>5 DEF IInv

LEMMA StutterKeeps ==
  ASSUME IInv, UNCHANGED vars
  PROVE  IInv'
<1> USE DEF vars, wire, table, app, disk, transaction, history, setting
<1>1. TypeInv'
  BY StepTypes DEF IInv
<1>2. FileInv'
  BY SameFile DEF IInv
<1>3. ASSUME NEW s \in Session PROVE Calm(s)
  <2>1. /\ Unasked(s)' <=> Unasked(s)
        /\ Queued(s)' <=> Queued(s)
        /\ Granted(s)' <=> Granted(s)
        /\ Accepted(s)' <=> Accepted(s)
    BY DEF Unasked, Queued, Accepted, Granted, Retained, Stored
  <2> QED  BY <2>1 DEF Calm
<1> QED  BY <1>1, <1>2, <1>3, CalmKeeps DEF IInv

LEMMA StepKeeps ==
  ASSUME IInv, [Next]_vars
  PROVE  IInv'
<1>1. CASE AppStep \/ UserAccepts \/ UserRejects
  <2>1. CASE ForgetSessions \/ ForgetPending \/ ForgetDurable
    BY <2>1, ForgetKeeps DEF Forgetting
  <2>2. CASE \E t : Decides(t)
    BY <2>2, DecidesKeeps
  <2> QED  BY <1>1, <2>1, <2>2 DEF AppStep, Decides
<1>2. CASE \E p \in Peer : Forget(p)
  BY <1>2, ForgetKeeps DEF Forgetting
<1>3. CASE \E s \in Session : ClientSide(s)
  BY <1>3, ClientKeeps
<1>4. CASE \E s \in Session : ControlStep(s)
  BY <1>4, ControlKeeps
<1>5. CASE Autosave \/ Configure
  BY <1>5, StoreKeeps
<1> QED  BY <1>1, <1>2, <1>3, <1>4, <1>5, CrashKeeps, StutterKeeps DEF Next, ClientSide

THEOREM Invariant == Spec => []IInv
<1>1. Init => IInv
  BY InitHolds
<1>2. IInv /\ [Next]_vars => IInv'
  BY StepKeeps
<1> QED  BY <1>1, <1>2, PTL DEF Spec

--------------------------------------------------------------------------------
\* Every variable keeps its type, for any number of sessions and peers
\* (engine/inner.rs: the tables that enrollment shares between its threads).
THEOREM TypeCorrect == Spec => []TypeInv
<1>1. IInv => TypeInv
  BY DEF IInv
<1> QED  BY <1>1, Invariant, PTL

\* A secret that a client has kept has been put into durable storage and not
\* taken back, and so has every one the live map of the host holds unless a save
\* of it failed, whatever is dropped, forgotten, saved, loaded or restarted on the
\* way (enroll_trusted_peer, commit_enrollment, accept_trusted_enrollment,
\* autosave_config, configure_relay_identity).
THEOREM LearnedIsDurable == Spec => []AcknowledgedIsDurable
<1>1. ASSUME IInv, NEW s \in Session
      PROVE  /\ Granted(s) => s \in committed
             /\ Retained(s) => s \in committed \/ s \in unsaved
  BY <1>1 DEF IInv, SecretInv, Settled, Accepted
<1>2. ASSUME IInv PROVE AcknowledgedIsDurable
  <2>1. \A s \in Learned : s \in Session /\ Granted(s)
    BY DEF Learned, Granted
  <2>2. \A s \in Live : s \in Session /\ Retained(s)
    BY <1>2 DEF IInv, TypeInv, Creds, Live, Retained
  <2> QED  BY <1>1, <1>2, <2>1, <2>2 DEF AcknowledgedIsDurable
<1> QED  BY <1>2, Invariant, PTL

\* A secret the host has refused or rolled back is never kept by its client, and
\* the host does not trust it afterwards, but for one whose commit a restart has
\* cut off and one whose commit or roll-back could not be saved
\* (take_trusted_enrollment, reject_trusted_enrollment, commit_enrollment).
THEOREM NeverTrustedAfterRefusal == Spec => []RefusalIsFinal
<1>1. ASSUME IInv, NEW s \in Session
      PROVE  /\ Granted(s) => s \notin refused
             /\ Retained(s) /\ s \in refused => s \in cut \/ s \in unsaved
  BY <1>1 DEF IInv, SecretInv, Settled, Accepted
<1>2. ASSUME IInv PROVE RefusalIsFinal
  <2>1. \A s \in Learned : s \in Session /\ Granted(s)
    BY DEF Learned, Granted
  <2>2. \A s \in Live : s \in Session /\ Retained(s)
    BY <1>2 DEF IInv, TypeInv, Creds, Live, Retained
  <2> QED  BY <1>1, <1>2, <2>1, <2>2 DEF RefusalIsFinal
<1> QED  BY <1>2, Invariant, PTL

-----------------------------------------------------------------------------
(* Routes: the types, and what is remembered.                              *)

DeskCommand == [kind : {"connect", "disconnect", "reroute"},
                keys : SUBSET Pairs, made : SUBSET Pairs, gone : SUBSET Pairs]
Runs == {"none", "later", "due"}
Attempts == [RetryKeys -> Nat]

DeskTypes ==
    /\ links \subseteq Pairs /\ absent \subseteq Pairs
    /\ rules \in Seq(Pairs) /\ suppressed \subseteq Pairs
    /\ settings \in [activated : BOOLEAN, exclusive : BOOLEAN, auto : BOOLEAN]
    /\ run \in Runs /\ retry \in Attempts /\ waiting \subseteq Nat
    /\ undo_stack \in Seq(DeskCommand) /\ redo_stack \in Seq(DeskCommand)
    /\ deleted \subseteq Pairs
    /\ edits \in Nat /\ outside \in Nat /\ faults \in Nat

\* What the user removed is remembered as such, and no rule asks for it.
Remembered == deleted \subseteq suppressed /\ deleted \cap Range(rules) = {}

DeskInv == DeskTypes /\ Remembered

-----------------------------------------------------------------------------
(* Recursion over a list.                                                  *)

Below == {p \in Nat \X Nat : p[1] < p[2]}

LEMMA Smallest ==
  ASSUME NEW S \in SUBSET Nat, S # {}
  PROVE  \E x \in S : \A y \in S : x <= y
<1>1. IsWellFoundedOn(Below, Nat)
  BY NatLessThanWellFounded DEF OpToRel, Below
<1>2. PICK x \in S : \A y \in S : <<y, x>> \notin Below
  BY <1>1, WFMin
<1>3. ASSUME NEW y \in S, y < x
      PROVE  <<y, x>> \in Below
  <2>1. <<y, x>> \in Nat \X Nat /\ <<y, x>>[1] = y /\ <<y, x>>[2] = x
    OBVIOUS
  <2> QED  BY <1>3, <2>1 DEF Below
<1>4. ASSUME NEW y \in S
      PROVE  x <= y
  <2>1. ~(y < x) /\ x \in Nat /\ y \in Nat
    BY <1>2, <1>3
  <2> QED  BY <2>1
<1> QED  BY <1>4

\* What each step keeps, the last one has kept.
LEMMA StepByStep ==
  ASSUME NEW n \in Nat, NEW S, NEW f, f[0] \in S,
         \A i \in 1..n : f[i-1] \in S => f[i] \in S
  PROVE  f[n] \in S
<1> DEFINE bad == {i \in 0..n : f[i] \notin S}
<1> SUFFICES ASSUME bad # {} PROVE FALSE
  OBVIOUS
<1>1. PICK i \in bad : \A k \in bad : i <= k
  <2>1. bad \in SUBSET Nat
    OBVIOUS
  <2> HIDE DEF bad
  <2> QED  BY <2>1, Smallest
<1>2. i \in 1..n /\ i - 1 \in 0..n /\ ~(i <= i - 1)
  OBVIOUS
<1>3. i - 1 \notin bad
  BY <1>1, <1>2
<1> QED  BY <1>1, <1>2, <1>3

\* Such steps can be taken one after the other.
Chain(f, n, S, first, step) ==
    f \in [0..n -> S] /\ f[0] = first /\ \A i \in 1..n : f[i] = step[<<i, f[i-1]>>]

LEMMA Iterated ==
  ASSUME NEW n \in Nat, NEW S, NEW first \in S, NEW step \in [(1..n) \X S -> S]
  PROVE  \E f : Chain(f, n, S, first, step)
<1> DEFINE Reaches(m) == \E f \in [0..m -> S] :
                            f[0] = first /\ \A i \in 1..m : f[i] = step[<<i, f[i-1]>>]
           bad == {m \in 0..n : ~Reaches(m)}
<1> SUFFICES ASSUME ~Reaches(n) PROVE FALSE
  BY DEF Chain
<1>0. bad # {}
  <2> HIDE DEF Reaches
  <2> QED  OBVIOUS
<1>1. PICK m \in bad : \A k \in bad : m <= k
  <2>1. bad \in SUBSET Nat
    OBVIOUS
  <2> HIDE DEF bad
  <2> QED  BY <1>0, <2>1, Smallest
<1>2. Reaches(0)
  <2>1. 0..0 = {0} /\ 1..0 = {}
    OBVIOUS
  <2>2. [i \in {0} |-> first] \in [0..0 -> S] /\ [i \in {0} |-> first][0] = first
    BY <2>1
  <2> QED  BY <2>1, <2>2
<1>3. m \in 1..n /\ m - 1 \in 0..n /\ ~(m <= m - 1)
  <2> HIDE DEF Reaches
  <2> QED  BY <1>2
<1>4. Reaches(m - 1)
  <2> HIDE DEF Reaches
  <2> QED  BY <1>1, <1>3
<1>5. PICK f \in [0..(m-1) -> S] : f[0] = first /\ \A i \in 1..(m-1) : f[i] = step[<<i, f[i-1]>>]
  BY <1>4
<1> DEFINE g == [i \in 0..m |-> IF i = m THEN step[<<m, f[m-1]>>] ELSE f[i]]
<1>6. f[m-1] \in S /\ step[<<m, f[m-1]>>] \in S
  BY <1>3, <1>5
<1>7. g \in [0..m -> S] /\ g[0] = first
  BY <1>3, <1>5, <1>6
<1>8. ASSUME NEW i \in 1..m PROVE g[i] = step[<<i, g[i-1]>>]
  <2>1. g[i-1] = f[i-1]
    BY <1>3
  <2>2. CASE i = m
    <3>1. g[m] = step[<<m, f[m-1]>>]
      BY <1>3
    <3> HIDE DEF g
    <3> QED  BY <2>1, <2>2, <3>1
  <2>3. CASE i # m
    <3>1. i \in 1..(m-1)
      BY <1>3, <2>3
    <3> QED  BY <1>3, <1>5, <2>1, <2>3, <3>1
  <2> QED  BY <2>2, <2>3
<1> HIDE DEF g
<1>9. Reaches(m)
  BY <1>7, <1>8
<1> HIDE DEF Reaches
<1> QED  BY <1>9

-----------------------------------------------------------------------------
(* Rules.                                                                  *)

LEMMA Counted ==
  ASSUME NEW n \in Nat
  PROVE  IsFiniteSet(1..n) /\ Cardinality(1..n) = n
<1>1. IsFiniteSet(1..n) /\ Cardinality(1..n) = IF 1 > n THEN 0 ELSE n - 1 + 1
  BY FS_Interval
<1> QED  BY <1>1

LEMMA Listed ==
  ASSUME DeskConstants, NEW S \in SUBSET Pairs
  PROVE  SetToSeq(S) \in Seq(Pairs) /\ Range(SetToSeq(S)) = S
<1> DEFINE n == Cardinality(S)
           f == SetToSeq(S)
<1>1. IsFiniteSet(S)
  BY FS_Subset DEF DeskConstants
<1>2. n \in Nat /\ ExistsBijection(1..n, S)
  BY <1>1, FS_CardinalityType
<1>3. \E g \in [1..n -> S] : IsInjective(g)
  BY <1>2 DEF ExistsBijection, Bijection, Injection
<1>4. f \in [1..n -> S] /\ IsInjective(f)
  BY <1>3 DEF SetToSeq
<1> HIDE DEF f
<1>5. f \in Injection(1..n, S)
  BY <1>4 DEF Injection
<1>6. IsFiniteSet(1..n) /\ Cardinality(1..n) = Cardinality(S)
  BY <1>2, Counted
<1>7. f \in Surjection(1..n, S)
  BY <1>1, <1>5, <1>6, FS_Injection
<1>8. f \in Seq(Pairs)
  <2> HIDE DEF n
  <2> QED  BY <1>2, <1>4, IsASeq
<1>9. Range(f) = S
  BY <1>4, <1>7 DEF Range, Surjection
<1> QED  BY <1>8, <1>9 DEF f

LEMMA RangeOf ==
  ASSUME NEW S, NEW s \in Seq(S)
  PROVE  Range(s) \subseteq S /\ \A x : x \in Range(s) <=> \E i \in 1..Len(s) : s[i] = x
<1>1. DOMAIN s = 1..Len(s) /\ \A i \in 1..Len(s) : s[i] \in S
  OBVIOUS
<1> QED  BY <1>1 DEF Range

LEMMA RangeOfAppend ==
  ASSUME NEW S, NEW s \in Seq(S), NEW x \in S
  PROVE  Append(s, x) \in Seq(S) /\ Range(Append(s, x)) = Range(s) \cup {x}
<1>1. /\ Append(s, x) \in Seq(S) /\ DOMAIN Append(s, x) = 1..(Len(s) + 1)
      /\ \A i \in 1..(Len(s) + 1) : Append(s, x)[i] = IF i <= Len(s) THEN s[i] ELSE x
  OBVIOUS
<1>2. Range(Append(s, x)) = {Append(s, x)[i] : i \in 1..(Len(s) + 1)}
  BY <1>1 DEF Range
<1> DEFINE n == Len(s)
<1>3. n \in Nat
  OBVIOUS
<1> HIDE DEF n
<1>4. Range(Append(s, x)) \subseteq Range(s) \cup {x}
  BY RangeOf, <1>1, <1>2, <1>3 DEF n
<1>5. Range(s) \subseteq Range(Append(s, x))
  <2> SUFFICES ASSUME NEW i \in 1..n PROVE s[i] \in Range(Append(s, x))
    BY RangeOf DEF n
  <2>1. i \in 1..(n + 1) /\ i <= n
    BY <1>3
  <2>2. Append(s, x)[i] = s[i]
    BY <1>1, <2>1 DEF n
  <2> QED  BY <1>2, <2>1, <2>2 DEF n
<1>6. x \in Range(Append(s, x))
  <2>1. n + 1 \in 1..(n + 1) /\ ~(n + 1 <= n)
    BY <1>3
  <2>2. Append(s, x)[n + 1] = x
    BY <1>1, <2>1 DEF n
  <2> QED  BY <1>2, <2>1, <2>2 DEF n
<1> QED  BY <1>1, <1>4, <1>5, <1>6

LEMMA RangeOfJoin ==
  ASSUME NEW S, NEW s \in Seq(S), NEW t \in Seq(S)
  PROVE  s \o t \in Seq(S) /\ Range(s \o t) = Range(s) \cup Range(t)
<1> DEFINE n == Len(s)
           m == Len(t)
           c == s \o t
<1>1. /\ c \in Seq(S) /\ DOMAIN c = 1..(n + m) /\ n \in Nat /\ m \in Nat
      /\ \A i \in 1..(n + m) : c[i] = IF i <= n THEN s[i] ELSE t[i - n]
  OBVIOUS
<1>2. Range(c) = {c[i] : i \in 1..(n + m)}
  BY <1>1 DEF Range
<1>3. DOMAIN t = 1..m /\ Range(t) = {t[i] : i \in 1..m} /\ Range(s) = {s[i] : i \in 1..n}
  BY DEF Range
<1> HIDE DEF n, m, c
<1>4. ASSUME NEW i \in 1..(n + m) PROVE c[i] \in Range(s) \cup Range(t)
  <2>1. CASE i <= n
    <3>1. i \in 1..n /\ c[i] = s[i]
      BY <1>1, <2>1
    <3> QED  BY <1>3, <3>1
  <2>2. CASE ~(i <= n)
    <3>1. i - n \in 1..m /\ c[i] = t[i - n]
      BY <1>1, <2>2
    <3> QED  BY <1>3, <3>1
  <2> QED  BY <2>1, <2>2
<1>5. ASSUME NEW i \in 1..n PROVE s[i] \in Range(c)
  <2>1. i \in 1..(n + m) /\ i <= n
    BY <1>1
  <2>2. c[i] = s[i]
    BY <1>1, <2>1
  <2> QED  BY <1>2, <2>1, <2>2
<1>6. ASSUME NEW i \in 1..m PROVE t[i] \in Range(c)
  <2>1. i + n \in 1..(n + m) /\ ~(i + n <= n) /\ i + n - n = i
    BY <1>1
  <2>2. c[i + n] = t[i]
    BY <1>1, <2>1
  <2> QED  BY <1>2, <2>1, <2>2
<1>7. Range(c) = Range(s) \cup Range(t)
  BY <1>2, <1>3, <1>4, <1>5, <1>6
<1> QED  BY <1>1, <1>7 DEF c

\* Without takes away every rule of the pairs, and adds none.
LEMMA WithoutKeeps ==
  ASSUME NEW saved \in Seq(Pairs), NEW pairs
  PROVE  /\ Without(saved, pairs) \in Seq(Pairs)
         /\ Range(Without(saved, pairs)) \subseteq Range(saved) \ pairs
<1> DEFINE n == Len(saved)
           S == {t \in Seq(Pairs) : Range(t) \subseteq Range(saved) \ pairs}
           Takes(i, t) == IF saved[i] \in pairs THEN t ELSE Append(t, saved[i])
           step == [x \in (1..n) \X S |-> Takes(x[1], x[2])]
           F(f) == [i \in 0..n |-> IF i = 0 THEN <<>> ELSE Takes(i, f[i-1])]
           kept == CHOOSE f : f = F(f)
<1>1. n \in Nat /\ \A i \in 1..n : saved[i] \in Range(saved) /\ saved[i] \in Pairs
  BY RangeOf
<1>2. <<>> \in S
  BY DEF Range
<1>3. Without(saved, pairs) = kept[n]
  BY DEF Without
<1> HIDE DEF n
<1>4. ASSUME NEW i \in 1..n, NEW t \in S PROVE Takes(i, t) \in S
  <2>1. CASE saved[i] \in pairs
    BY <2>1
  <2>2. CASE saved[i] \notin pairs
    BY <1>1, <2>2, RangeOfAppend
  <2> QED  BY <2>1, <2>2
<1> HIDE DEF S, Takes
<1>5. step \in [(1..n) \X S -> S]
  BY <1>4
<1>6. PICK g \in [0..n -> S] : g[0] = <<>> /\ \A i \in 1..n : g[i] = step[<<i, g[i-1]>>]
  <2> HIDE DEF step
  <2>1. PICK g : Chain(g, n, S, <<>>, step)
    BY <1>1, <1>2, <1>5, Iterated
  <2> QED  BY <2>1 DEF Chain
<1>7. g = F(g)
  <2>1. ASSUME NEW i \in 1..n PROVE g[i] = Takes(i, g[i-1])
    <3>1. i - 1 \in 0..n
      BY <1>1
    <3>2. <<i, g[i-1]>> \in (1..n) \X S
      BY <3>1, <1>6
    <3> QED  BY <3>2, <1>6
  <2> HIDE DEF step
  <2>2. ASSUME NEW i \in 0..n PROVE g[i] = IF i = 0 THEN <<>> ELSE Takes(i, g[i-1])
    <3>1. i = 0 \/ i \in 1..n
      BY <1>1
    <3> QED  BY <3>1, <2>1, <1>6
  <2> QED  BY <1>6, <2>2
<1> HIDE DEF step
<1>8. kept = F(kept)
  BY <1>7
<1> HIDE DEF kept
<1>9. kept[0] = <<>> /\ \A i \in 1..n : kept[i] = Takes(i, kept[i-1])
  <2>1. 0 \in 0..n /\ \A i \in 1..n : i \in 0..n /\ i # 0
    BY <1>1
  <2> QED  BY <1>8, <2>1
<1>10. kept[n] \in S
  <2>1. n \in Nat /\ kept[0] \in S /\ \A i \in 1..n : kept[i-1] \in S => kept[i] \in S
    BY <1>1, <1>2, <1>4, <1>9
  <2> QED  BY <2>1, StepByStep
<1> QED  BY <1>3, <1>10 DEF S

\* Synced adds a rule for every live link the user has not removed.
LEMMA SyncedKeeps ==
  ASSUME DeskConstants, NEW saved \in Seq(Pairs), NEW live \in SUBSET Pairs, NEW kept
  PROVE  /\ Synced(saved, live, kept) \in Seq(Pairs)
         /\ Range(Synced(saved, live, kept)) = Range(saved) \cup (live \ kept)
<1> DEFINE new == (live \ kept) \ Range(saved)
<1>1. SetToSeq(new) \in Seq(Pairs) /\ Range(SetToSeq(new)) = new
  BY Listed
<1>2. Synced(saved, live, kept) = saved \o SetToSeq(new)
  BY DEF Synced
<1> DEFINE added == SetToSeq(new)
<1> HIDE DEF added
<1>3. added \in Seq(Pairs) /\ Range(added) = new
  BY <1>1 DEF added
<1>4. saved \o added \in Seq(Pairs) /\ Range(saved \o added) = Range(saved) \cup Range(added)
  BY <1>3, RangeOfJoin
<1> QED  BY <1>2, <1>3, <1>4 DEF added

-----------------------------------------------------------------------------
(* A pass makes no link that is not a rule.                                *)

PassStates == [links : SUBSET Pairs, run : Runs, retry : Attempts, waiting : SUBSET Nat]

LEMMA Retried ==
  ASSUME DeskConstants, NEW pass \in PassStates, NEW i \in Nat
  PROVE  /\ RetryStatus(pass, i) \in PassStates /\ RetryStatus(pass, i).links = pass.links
         /\ Satisfied(pass, i) \in PassStates /\ Satisfied(pass, i).links = pass.links
<1> DEFINE attempts == IF pass.retry[i] < MaxAttempts THEN pass.retry[i] + 1 ELSE MaxAttempts
           counted(k) == [pass.retry EXCEPT ![i] = k]
<1>1. ASSUME NEW k, i \in RetryKeys => k \in Nat PROVE counted(k) \in Attempts
  BY <1>1 DEF PassStates, Attempts
<1>2. i \in RetryKeys => attempts \in Nat
  BY DEF PassStates, Attempts, DeskConstants
<1>3. counted(attempts) \in Attempts /\ counted(0) \in Attempts
  <2> HIDE DEF attempts, counted
  <2> QED  BY <1>1, <1>2
<1> HIDE DEF attempts
<1> DEFINE later == IF attempts < MaxAttempts THEN "later" ELSE pass.run
           tried == [pass EXCEPT !.retry = counted(attempts), !.waiting = @ \cup {i}, !.run = later]
           sat == [pass EXCEPT !.retry = counted(0), !.waiting = @ \ {i}]
<1>4. RetryStatus(pass, i) = tried
  BY DEF RetryStatus, attempts
<1>5. Satisfied(pass, i) = sat
  BY DEF Satisfied
<1>6. later \in Runs
  BY DEF PassStates, Runs
<1> HIDE DEF counted, later
<1>7. tried \in PassStates /\ tried.links = pass.links /\ sat \in PassStates /\ sat.links = pass.links
  BY <1>3, <1>6 DEF PassStates
<1> QED  BY <1>4, <1>5, <1>7

LEMMA Relinked ==
  ASSUME NEW pass \in PassStates, NEW ls \in SUBSET Pairs
  PROVE  [pass EXCEPT !.links = ls] \in PassStates /\ [pass EXCEPT !.links = ls].links = ls
BY DEF PassStates

LEMMA CleanUpKeeps ==
  ASSUME DeskConstants, NEW pass \in PassStates, NEW saved, NEW failing, NEW severed
  PROVE  LET clean == CleanUp(pass, saved, failing, severed)
         IN  clean \in PassStates /\ clean.links \subseteq pass.links
<1> DEFINE extra == links \ Range(saved)
           wholly == [pass EXCEPT !.links = @ \ extra]
           partly == [pass EXCEPT !.links = @ \ (extra \cap severed)]
<1>1. pass.links \ extra \in SUBSET Pairs /\ pass.links \ (extra \cap severed) \in SUBSET Pairs
  BY DEF PassStates
<1>2. wholly \in PassStates /\ wholly.links \subseteq pass.links
  BY <1>1, Relinked
<1>3. partly \in PassStates /\ partly.links \subseteq pass.links
  BY <1>1, Relinked
<1>4. CleanUp(pass, saved, failing, severed) \in {pass, Satisfied(wholly, 0), RetryStatus(partly, 0)}
  BY DEF CleanUp
<1> HIDE DEF wholly, partly
<1>5. 0 \in Nat
  OBVIOUS
<1>6. Satisfied(wholly, 0) \in PassStates /\ Satisfied(wholly, 0).links = wholly.links
  BY <1>2, <1>5, Retried
<1>7. RetryStatus(partly, 0) \in PassStates /\ RetryStatus(partly, 0).links = partly.links
  BY <1>3, <1>5, Retried
<1> QED  BY <1>2, <1>3, <1>4, <1>6, <1>7

LEMMA ApplyRuleKeeps ==
  ASSUME DeskConstants, NEW pass \in PassStates, NEW saved \in Seq(Pairs), NEW i \in 1..Len(saved), NEW failing
  PROVE  LET next == ApplyRule(pass, saved, i, failing)
         IN  next \in PassStates /\ next.links \subseteq pass.links \cup {saved[i]}
<1> DEFINE p == saved[i]
           others == IF settings.auto THEN Feeds(pass.links, p) ELSE {}
           cleared == [pass EXCEPT !.links = @ \ (others \ failing)]
           made == [cleared EXCEPT !.links = @ \cup {p}]
<1>1. p \in Pairs /\ i \in Nat /\ pass.links \in SUBSET Pairs
  BY DEF PassStates
<1>2. cleared \in PassStates /\ cleared.links \subseteq pass.links
  <2> DEFINE left == pass.links \ (others \ failing)
  <2>1. left \in SUBSET Pairs /\ left \subseteq pass.links /\ cleared = [pass EXCEPT !.links = left]
    BY <1>1
  <2> HIDE DEF left, cleared
  <2> QED  BY <2>1, Relinked
<1>3. ApplyRule(pass, saved, i, failing)
        \in {pass, Satisfied(pass, i), Satisfied(made, i), RetryStatus(cleared, i)}
  BY DEF ApplyRule
<1> HIDE DEF p, cleared
<1>4. made \in PassStates /\ made.links \subseteq pass.links \cup {p}
  <2> DEFINE more == cleared.links \cup {p}
  <2>1. more \in SUBSET Pairs /\ more \subseteq pass.links \cup {p} /\ made = [cleared EXCEPT !.links = more]
    BY <1>1, <1>2
  <2> HIDE DEF more, made
  <2> QED  BY <1>2, <2>1, Relinked
<1> HIDE DEF made
<1>5. ApplyRule(pass, saved, i, failing) \in PassStates
      /\ ApplyRule(pass, saved, i, failing).links \subseteq pass.links \cup {p}
  BY <1>1, <1>2, <1>3, <1>4, Retried
<1> QED  BY <1>5 DEF p

LEMMA PassMakesRules ==
  ASSUME DeskConstants, NEW start \in PassStates, NEW saved \in Seq(Pairs), NEW failing, NEW severed
  PROVE  /\ Pass(start, saved, failing, severed) \in PassStates
         /\ Pass(start, saved, failing, severed).links \subseteq start.links \cup Range(saved)
<1> DEFINE n == Len(saved)
           S == {r \in PassStates : r.links \subseteq start.links \cup Range(saved)}
           first == CleanUp(start, saved, failing, severed)
           step == [x \in (1..n) \X S |-> ApplyRule(x[2], saved, x[1], failing)]
           F(f) == [i \in 0..n |-> IF i = 0 THEN first ELSE ApplyRule(f[i-1], saved, i, failing)]
           pass == CHOOSE f : f = F(f)
<1>1. n \in Nat /\ \A i \in 1..n : saved[i] \in Range(saved)
  BY RangeOf
<1>2. first \in S
  BY CleanUpKeeps
<1>3. Pass(start, saved, failing, severed) = pass[n]
  BY DEF Pass
<1>4. ASSUME NEW i \in 1..n, NEW r \in S PROVE ApplyRule(r, saved, i, failing) \in S
  BY <1>1, ApplyRuleKeeps
<1> HIDE DEF S, n, first
<1>5. step \in [(1..n) \X S -> S]
  BY <1>4
<1>6. PICK g \in [0..n -> S] : g[0] = first /\ \A i \in 1..n : g[i] = step[<<i, g[i-1]>>]
  <2> HIDE DEF step
  <2>1. PICK g : Chain(g, n, S, first, step)
    BY <1>1, <1>2, <1>5, Iterated
  <2> QED  BY <2>1 DEF Chain
<1>7. g = F(g)
  <2>1. ASSUME NEW i \in 1..n PROVE g[i] = ApplyRule(g[i-1], saved, i, failing)
    <3>1. i - 1 \in 0..n
      BY <1>1
    <3>2. <<i, g[i-1]>> \in (1..n) \X S
      BY <3>1, <1>6
    <3> QED  BY <3>2, <1>6
  <2> HIDE DEF step
  <2>2. ASSUME NEW i \in 0..n PROVE g[i] = IF i = 0 THEN first ELSE ApplyRule(g[i-1], saved, i, failing)
    <3>1. i = 0 \/ i \in 1..n
      BY <1>1
    <3> QED  BY <3>1, <2>1, <1>6
  <2> QED  BY <1>6, <2>2
<1> HIDE DEF step
<1>8. pass = F(pass)
  BY <1>7
<1> HIDE DEF pass
<1>9. pass[0] = first /\ \A i \in 1..n : pass[i] = ApplyRule(pass[i-1], saved, i, failing)
  <2>1. 0 \in 0..n /\ \A i \in 1..n : i \in 0..n /\ i # 0
    BY <1>1
  <2> QED  BY <1>8, <2>1
<1>10. pass[n] \in S
  <2>1. n \in Nat /\ pass[0] \in S /\ \A i \in 1..n : pass[i-1] \in S => pass[i] \in S
    BY <1>1, <1>2, <1>4, <1>9
  <2> QED  BY <2>1, StepByStep
<1> QED  BY <1>3, <1>10 DEF S

-----------------------------------------------------------------------------
(* The steps.                                                              *)

LEMMA PassStateTyped ==
  ASSUME DeskTypes
  PROVE  /\ PassState \in PassStates /\ PassState.links = links
         /\ FreshState \in PassStates /\ FreshState.links = links
<1>1. [i \in RetryKeys |-> 0] \in Attempts
  BY DEF Attempts
<1>2. PassState \in PassStates /\ PassState.links = links
  BY DEF DeskTypes, PassState, PassStates, Runs
<1> DEFINE zero == [i \in RetryKeys |-> 0]
<1>3. FreshState = [PassState EXCEPT !.retry = zero, !.waiting = {}]
  BY DEF FreshState
<1> HIDE DEF zero
<1>4. zero \in Attempts
  BY <1>1 DEF zero
<1>5. FreshState \in PassStates /\ FreshState.links = PassState.links
  BY <1>2, <1>3, <1>4 DEF PassStates
<1> QED  BY <1>2, <1>5

LEMMA Scheduled ==
  ASSUME MarkDirty \/ ScheduleNow \/ Deactivate
  PROVE  run' \in Runs /\ retry' \in Attempts /\ waiting' \subseteq Nat
BY DEF MarkDirty, ScheduleNow, Deactivate, Runs, Attempts

LEMMA Shortened ==
  ASSUME NEW S, NEW s \in Seq(S), s # <<>>
  PROVE  Front(s) \in Seq(S) /\ Last(s) \in S
<1>1. Len(s) \in Nat \ {0} /\ s[Len(s)] \in S
  OBVIOUS
<1>2. SubSeq(s, 1, Len(s) - 1) \in Seq(S)
  BY <1>1
<1> QED  BY <1>1, <1>2 DEF Front, Last

LEMMA RuleRemoved ==
  ASSUME NEW S, NEW s \in Seq(S), NEW k \in 1..Len(s)
  PROVE  RemoveAt(s, k) \in Seq(S) /\ Range(RemoveAt(s, k)) \subseteq Range(s)
<1> DEFINE n == Len(s)
           a == SubSeq(s, 1, k - 1)
           b == SubSeq(s, k + 1, n)
           R == Range(s)
<1>1. n \in Nat /\ k \in 1..n /\ \A i \in 1..n : s[i] \in R
  BY RangeOf
<1>2. s \in Seq(R)
  <2>1. DOMAIN s = 1..Len(s) /\ s \in [1..Len(s) -> R]
    BY <1>1
  <2> QED  BY <2>1
<1>3. a \in Seq(R) /\ b \in Seq(R)
  BY <1>1, <1>2
<1>4. a \in Seq(S) /\ b \in Seq(S)
  BY <1>1
<1> HIDE DEF a, b
<1>5. a \o b \in Seq(R) /\ a \o b \in Seq(S)
  BY <1>3, <1>4
<1>6. Range(a \o b) \subseteq R
  BY <1>5, RangeOf
<1> QED  BY <1>5, <1>6 DEF RemoveAt, a, b

LEMMA Activated ==
  ASSUME DeskConstants, DeskInv, NEW saved \in Seq(Pairs), Activation(saved)
  PROVE  /\ links' \subseteq Pairs /\ rules' \in Seq(Pairs)
         /\ Range(rules') \subseteq Range(saved) \cup (Pairs \ suppressed)
         /\ run' \in Runs /\ retry' \in Attempts /\ waiting' \subseteq Nat /\ faults' \in Nat
<1>0. DeskTypes
  BY DEF DeskInv
<1>1. CASE /\ links' = Pass(FreshState, saved, {}, {}).links
           /\ rules' = Synced(saved, links', suppressed)
           /\ ScheduleNow /\ UNCHANGED faults
  <2>1. Pass(FreshState, saved, {}, {}) \in PassStates
    BY <1>0, PassStateTyped, PassMakesRules
  <2>2. links' \in SUBSET Pairs
    BY <1>1, <2>1 DEF PassStates
  <2>3. rules' \in Seq(Pairs) /\ Range(rules') = Range(saved) \cup (links' \ suppressed)
    BY <1>1, <2>2, SyncedKeeps
  <2> QED  BY <1>0, <1>1, <2>2, <2>3, Scheduled DEF DeskTypes
<1>2. CASE /\ faults < MaxFaults /\ faults' = faults + 1
           /\ rules' = saved /\ UNCHANGED <<links, reconciler>>
  BY <1>0, <1>2 DEF DeskTypes, reconciler
<1> QED  BY <1>1, <1>2 DEF Activation

LEMMA ConnectKeeps ==
  ASSUME DeskConstants, DeskInv, NEW pairs \in SUBSET Pairs, Connected(pairs)
  PROVE  DeskInv'
<1>0. DeskTypes /\ Remembered
  BY DEF DeskInv
<1> DEFINE cmd == [kind |-> "connect", keys |-> pairs, made |-> pairs \ links, gone |-> {}]
<1>1. /\ links' = links \cup pairs /\ deleted' = deleted \ pairs /\ edits' = edits + 1
      /\ UNCHANGED <<outside, faults, absent, settings, run, retry, waiting>>
      /\ undo_stack' = Append(undo_stack, cmd) /\ redo_stack' = <<>>
      /\ \/ suppressed' = suppressed \ pairs /\ rules' = Synced(rules, links', suppressed')
         \/ UNCHANGED <<rules, suppressed>>
  BY DEF Connected, Edit, Record, ThenRefresh, reconciler
<1>2. cmd \in DeskCommand
  BY <1>0 DEF DeskCommand
<1> HIDE DEF cmd
<1>3. undo_stack' \in Seq(DeskCommand) /\ redo_stack' \in Seq(DeskCommand) /\ links' \in SUBSET Pairs
  BY <1>0, <1>1, <1>2 DEF DeskTypes
<1>4. CASE suppressed' = suppressed \ pairs /\ rules' = Synced(rules, links', suppressed')
  <2>0. rules \in Seq(Pairs) /\ links' \in SUBSET Pairs
    BY <1>0, <1>3 DEF DeskTypes
  <2>1. rules' \in Seq(Pairs) /\ Range(rules') = Range(rules) \cup (links' \ suppressed')
    BY <1>4, <2>0, SyncedKeeps
  <2>2. Remembered'
    BY <1>0, <1>1, <1>4, <2>1 DEF Remembered
  <2>3. DeskTypes'
    BY <1>0, <1>1, <1>3, <1>4, <2>1 DEF DeskTypes
  <2> QED  BY <2>2, <2>3 DEF DeskInv
<1>5. CASE UNCHANGED <<rules, suppressed>>
  <2>1. Remembered'
    BY <1>0, <1>1, <1>5 DEF Remembered
  <2>2. DeskTypes'
    BY <1>0, <1>1, <1>3, <1>5 DEF DeskTypes
  <2> QED  BY <2>1, <2>2 DEF DeskInv
<1> QED  BY <1>1, <1>4, <1>5

LEMMA DisconnectKeeps ==
  ASSUME DeskConstants, DeskInv, NEW pairs \in SUBSET Pairs, NEW refreshes, Disconnected(pairs, refreshes)
  PROVE  DeskInv'
<1>0. DeskTypes /\ Remembered
  BY DEF DeskInv
<1> DEFINE cmd == [kind |-> "disconnect", keys |-> pairs, made |-> {}, gone |-> pairs]
<1>1. /\ links' = links \ pairs /\ edits' = edits + 1
      /\ UNCHANGED <<outside, faults, absent, settings, run, retry, waiting>>
      /\ undo_stack' = Append(undo_stack, cmd) /\ redo_stack' = <<>>
      /\ \/ /\ suppressed' = suppressed \cup pairs /\ deleted' = deleted \cup pairs
            /\ rules' = Synced(Without(rules, pairs), links', suppressed')
         \/ UNCHANGED <<rules, suppressed, deleted>>
  BY DEF Disconnected, Edit, Record, ThenRefresh, reconciler
<1>2. cmd \in DeskCommand
  BY <1>0 DEF DeskCommand
<1> HIDE DEF cmd
<1>3. undo_stack' \in Seq(DeskCommand) /\ redo_stack' \in Seq(DeskCommand) /\ links' \in SUBSET Pairs
  BY <1>0, <1>1, <1>2 DEF DeskTypes
<1>4. CASE /\ suppressed' = suppressed \cup pairs /\ deleted' = deleted \cup pairs
           /\ rules' = Synced(Without(rules, pairs), links', suppressed')
  <2>1. Without(rules, pairs) \in Seq(Pairs) /\ Range(Without(rules, pairs)) \subseteq Range(rules) \ pairs
    BY <1>0, WithoutKeeps DEF DeskTypes
  <2>2. /\ rules' \in Seq(Pairs)
        /\ Range(rules') = Range(Without(rules, pairs)) \cup (links' \ suppressed')
    BY <1>3, <1>4, <2>1, SyncedKeeps
  <2>3. Remembered'
    BY <1>0, <1>4, <2>1, <2>2 DEF Remembered
  <2>4. DeskTypes'
    BY <1>0, <1>1, <1>3, <1>4, <2>2 DEF DeskTypes
  <2> QED  BY <2>3, <2>4 DEF DeskInv
<1>5. CASE UNCHANGED <<rules, suppressed, deleted>>
  <2>1. Remembered'
    BY <1>0, <1>5 DEF Remembered
  <2>2. DeskTypes'
    BY <1>0, <1>1, <1>3, <1>5 DEF DeskTypes
  <2> QED  BY <2>1, <2>2 DEF DeskInv
<1> QED  BY <1>1, <1>4, <1>5

LEMMA SettleKeeps ==
  ASSUME DeskConstants, DeskInv, Settle, links' \subseteq Pairs, Edit,
         undo_stack' \in Seq(DeskCommand), redo_stack' \in Seq(DeskCommand)
  PROVE  DeskInv'
<1>0. DeskTypes /\ Remembered
  BY DEF DeskInv
<1> DEFINE gone == links \ links'
<1>1. /\ suppressed' = suppressed \cup gone /\ deleted' = (deleted \cup gone) \ links'
      /\ rules' = Synced(Without(rules, gone), links', suppressed')
      /\ UNCHANGED <<absent, settings, run, retry, waiting, outside, faults>> /\ edits' = edits + 1
  BY DEF Settle, reconciler, Edit
<1>2. gone \subseteq Pairs
  BY <1>0 DEF DeskTypes
<1> HIDE DEF gone
<1>3. Without(rules, gone) \in Seq(Pairs) /\ Range(Without(rules, gone)) \subseteq Range(rules) \ gone
  BY <1>0, WithoutKeeps DEF DeskTypes
<1>4. /\ rules' \in Seq(Pairs)
      /\ Range(rules') = Range(Without(rules, gone)) \cup (links' \ suppressed')
  <2>1. links' \in SUBSET Pairs
    OBVIOUS
  <2> QED  BY <1>1, <1>3, <2>1, SyncedKeeps
<1>5. Remembered'
  BY <1>0, <1>1, <1>3, <1>4 DEF Remembered
<1>6. DeskTypes'
  BY <1>0, <1>1, <1>2, <1>4 DEF DeskTypes
<1> QED  BY <1>5, <1>6 DEF DeskInv

LEMMA UndoKeeps ==
  ASSUME DeskConstants, DeskInv, Undo
  PROVE  DeskInv'
<1>0. DeskTypes
  BY DEF DeskInv
<1> DEFINE cmd == Last(undo_stack)
<1>1. /\ Edit /\ Settle /\ undo_stack # <<>>
      /\ \/ links' = links \cup (cmd.gone \ absent) \/ links' = links
         \/ links' = (links \ cmd.made) \cup cmd.gone
      /\ \/ UNCHANGED stacks
         \/ undo_stack' = Front(undo_stack) /\ redo_stack' = Append(redo_stack, cmd)
  BY DEF Undo
<1>2. cmd \in DeskCommand /\ Front(undo_stack) \in Seq(DeskCommand)
  BY <1>0, <1>1, Shortened DEF DeskTypes
<1> HIDE DEF cmd
<1>3. cmd.gone \subseteq Pairs
  BY <1>2 DEF DeskCommand
<1>4. links' \subseteq Pairs
  BY <1>0, <1>1, <1>3 DEF DeskTypes
<1>5. undo_stack' \in Seq(DeskCommand) /\ redo_stack' \in Seq(DeskCommand)
  <2>1. undo_stack \in Seq(DeskCommand) /\ redo_stack \in Seq(DeskCommand)
    BY <1>0 DEF DeskTypes
  <2>2. CASE UNCHANGED stacks
    BY <2>1, <2>2 DEF stacks
  <2>3. CASE undo_stack' = Front(undo_stack) /\ redo_stack' = Append(redo_stack, cmd)
    BY <1>2, <2>1, <2>3
  <2> QED  BY <1>1, <2>2, <2>3
<1> QED  BY <1>1, <1>4, <1>5, SettleKeeps

LEMMA RedoKeeps ==
  ASSUME DeskConstants, DeskInv, Redo
  PROVE  DeskInv'
<1>0. DeskTypes
  BY DEF DeskInv
<1> DEFINE cmd == Last(redo_stack)
           again == CASE cmd.kind = "connect" -> [cmd EXCEPT !.made = cmd.keys \ links]
                      [] cmd.kind = "disconnect" -> [cmd EXCEPT !.gone = cmd.keys \cap links]
                      [] cmd.kind = "reroute" -> [cmd EXCEPT !.made = cmd.keys \ links]
<1>1. /\ Edit /\ Settle /\ redo_stack # <<>>
      /\ \/ UNCHANGED <<links, stacks>>
         \/ /\ links' = (links \ again.gone) \cup again.made
            /\ undo_stack' = Append(undo_stack, again) /\ redo_stack' = Front(redo_stack)
  BY DEF Redo
<1>2. cmd \in DeskCommand /\ Front(redo_stack) \in Seq(DeskCommand)
  BY <1>0, <1>1, Shortened DEF DeskTypes
<1> HIDE DEF cmd
<1>3. again \in DeskCommand
  <2>1. CASE cmd.kind = "connect"
    BY <1>2, <2>1 DEF DeskCommand
  <2>2. CASE cmd.kind = "disconnect"
    BY <1>2, <2>2 DEF DeskCommand
  <2>3. CASE cmd.kind = "reroute"
    BY <1>2, <2>3 DEF DeskCommand
  <2>4. cmd.kind \in {"connect", "disconnect", "reroute"}
    BY <1>2 DEF DeskCommand
  <2> QED  BY <2>1, <2>2, <2>3, <2>4
<1> HIDE DEF again
<1>4. again.made \subseteq Pairs
  BY <1>3 DEF DeskCommand
<1>5. links' \subseteq Pairs
  BY <1>0, <1>1, <1>4 DEF DeskTypes
<1>6. undo_stack' \in Seq(DeskCommand) /\ redo_stack' \in Seq(DeskCommand)
  <2>1. undo_stack \in Seq(DeskCommand) /\ redo_stack \in Seq(DeskCommand)
    BY <1>0 DEF DeskTypes
  <2>2. CASE UNCHANGED stacks
    BY <2>1, <2>2 DEF stacks
  <2>3. CASE undo_stack' = Append(undo_stack, again) /\ redo_stack' = Front(redo_stack)
    BY <1>2, <1>3, <2>1, <2>3
  <2> QED  BY <1>1, <2>2, <2>3
<1> QED  BY <1>1, <1>5, <1>6, SettleKeeps

\* An activation leaves the list it was given, and rules for live links that
\* the user has not removed.
LEMMA ActivationKeeps ==
  ASSUME DeskConstants, DeskInv, NEW saved \in Seq(Pairs),
         Activation(saved) \/ (rules' = saved /\ UNCHANGED <<links, reconciler, faults>>),
         deleted' \subseteq deleted, deleted' \cap Range(saved) = {},
         settings' \in [activated : BOOLEAN, exclusive : BOOLEAN, auto : BOOLEAN], edits' \in Nat,
         UNCHANGED <<absent, suppressed, stacks, outside>>
  PROVE  DeskInv'
<1>0. DeskTypes /\ Remembered
  BY DEF DeskInv
<1>1. /\ links' \subseteq Pairs /\ rules' \in Seq(Pairs)
      /\ Range(rules') \subseteq Range(saved) \cup (Pairs \ suppressed)
      /\ run' \in Runs /\ retry' \in Attempts /\ waiting' \subseteq Nat /\ faults' \in Nat
  <2>1. CASE Activation(saved)
    BY <2>1, Activated
  <2>2. CASE rules' = saved /\ UNCHANGED <<links, reconciler, faults>>
    BY <1>0, <2>2 DEF DeskTypes, reconciler
  <2> QED  BY <2>1, <2>2
<1>2. Remembered'
  BY <1>0, <1>1 DEF Remembered
<1>3. DeskTypes'
  BY <1>0, <1>1 DEF DeskTypes, stacks
<1> QED  BY <1>2, <1>3 DEF DeskInv

LEMMA EditRulesKeeps ==
  ASSUME DeskConstants, DeskInv, EditRules
  PROVE  DeskInv'
<1>0. DeskTypes /\ Remembered
  BY DEF DeskInv
<1>1. /\ UNCHANGED <<links, absent, suppressed, settings, run, retry, waiting, undo_stack, redo_stack, outside, faults>>
      /\ edits' = edits + 1
  BY DEF EditRules, Edit, graph, reconciler, stacks
<1>2. SUFFICES ASSUME rules' \in Seq(Pairs), deleted' \subseteq deleted, deleted' \cap Range(rules') = {}
               PROVE  DeskInv'
  <2>1. CASE rules' = SetToSeq(links) /\ deleted' = deleted \ links
    <3>1. links \in SUBSET Pairs
      BY <1>0 DEF DeskTypes
    <3>2. rules' \in Seq(Pairs) /\ Range(rules') = links
      BY <2>1, <3>1, Listed
    <3> QED  BY <1>2, <2>1, <3>2
  <2>2. CASE \E chosen \in SUBSET links \ {{}} :
               rules' = Synced(rules, chosen, {}) /\ deleted' = deleted \ chosen
    <3>1. PICK chosen \in SUBSET links : rules' = Synced(rules, chosen, {}) /\ deleted' = deleted \ chosen
      BY <2>2
    <3>2. rules \in Seq(Pairs) /\ chosen \in SUBSET Pairs
      BY <1>0 DEF DeskTypes
    <3>3. rules' \in Seq(Pairs) /\ Range(rules') = Range(rules) \cup (chosen \ {})
      BY <3>1, <3>2, SyncedKeeps
    <3>4. deleted' \subseteq deleted /\ deleted' \cap Range(rules') = {}
      BY <1>0, <3>1, <3>3 DEF Remembered
    <3> QED  BY <1>2, <3>3, <3>4
  <2>3. CASE \E i \in DOMAIN rules : rules' = RemoveAt(rules, i) /\ UNCHANGED deleted
    <3>1. rules \in Seq(Pairs)
      BY <1>0 DEF DeskTypes
    <3>2. PICK i \in 1..Len(rules) : rules' = RemoveAt(rules, i) /\ UNCHANGED deleted
      BY <2>3, <3>1
    <3>3. rules' \in Seq(Pairs) /\ Range(rules') \subseteq Range(rules)
      BY <3>1, <3>2, RuleRemoved
    <3> QED  BY <1>0, <1>2, <3>2, <3>3 DEF Remembered
  <2> QED  BY <2>1, <2>2, <2>3 DEF EditRules
<1>3. Remembered'
  BY <1>0, <1>1, <1>2 DEF Remembered
<1>4. DeskTypes'
  BY <1>0, <1>1, <1>2 DEF DeskTypes
<1> QED  BY <1>3, <1>4 DEF DeskInv

LEMMA SaveRuleKeeps ==
  ASSUME DeskConstants, DeskInv, SaveRule
  PROVE  DeskInv'
<1>0. DeskTypes /\ Remembered
  BY DEF DeskInv
<1>1. PICK i \in 1..Len(rules) + 1, p \in Pairs \ (absent \cup Range(rules)) :
        LET saved == IF i \in DOMAIN rules THEN [rules EXCEPT ![i] = p] ELSE Append(rules, p) IN
        /\ deleted' = deleted \ {p}
        /\ IF settings.activated
             THEN Activation(saved)
             ELSE rules' = saved /\ UNCHANGED <<links, reconciler, faults>>
  BY DEF SaveRule
<1> DEFINE saved == IF i \in DOMAIN rules THEN [rules EXCEPT ![i] = p] ELSE Append(rules, p)
<1>2. rules \in Seq(Pairs) /\ p \in Pairs
  BY <1>0 DEF DeskTypes
<1>3. saved \in Seq(Pairs) /\ Range(saved) \subseteq Range(rules) \cup {p}
  <2>1. CASE i \in DOMAIN rules
    <3> DEFINE t == [rules EXCEPT ![i] = p]
    <3>1. t \in Seq(Pairs) /\ Len(t) = Len(rules) /\ \A k \in 1..Len(rules) : t[k] = IF k = i THEN p ELSE rules[k]
      BY <1>2, <2>1
    <3>2. saved = t
      BY <2>1
    <3> HIDE DEF t
    <3>3. Range(t) \subseteq Range(rules) \cup {p}
      BY <1>2, <3>1, RangeOf
    <3> QED  BY <3>1, <3>2, <3>3
  <2>2. CASE i \notin DOMAIN rules
    BY <1>2, <2>2, RangeOfAppend
  <2> QED  BY <2>1, <2>2
<1>4. /\ Activation(saved) \/ (rules' = saved /\ UNCHANGED <<links, reconciler, faults>>)
      /\ deleted' = deleted \ {p}
  BY <1>1
<1> HIDE DEF saved
<1>5. deleted' \subseteq deleted /\ deleted' \cap Range(saved) = {}
  BY <1>0, <1>3, <1>4 DEF Remembered
<1>6. settings' \in [activated : BOOLEAN, exclusive : BOOLEAN, auto : BOOLEAN] /\ edits' \in Nat
      /\ UNCHANGED <<absent, suppressed, stacks, outside>>
  BY <1>0 DEF SaveRule, DeskTypes
<1> QED  BY <1>3, <1>4, <1>5, <1>6, ActivationKeeps

\* The pass keeps to the rules, and the rules it adds are for live links that
\* the user has not removed.
LEMMA ReconcileKeeps ==
  ASSUME DeskConstants, DeskInv, Reconcile
  PROVE  DeskInv' /\ links' \subseteq links \cup Range(rules)
<1>0. DeskTypes /\ Remembered /\ rules \in Seq(Pairs)
  BY DEF DeskInv, DeskTypes
<1>1. PICK failing, severed :
        LET pass == Pass(PassState, rules, failing, severed) IN
        /\ faults' = IF failing = {} THEN faults ELSE faults + 1
        /\ links' = pass.links /\ run' = pass.run
        /\ retry' = pass.retry /\ waiting' = pass.waiting
        /\ rules' = IF pass.links = links THEN rules ELSE Synced(rules, pass.links, suppressed)
  BY DEF Reconcile
<1> DEFINE pass == Pass(PassState, rules, failing, severed)
<1>2. pass \in PassStates /\ pass.links \subseteq links \cup Range(rules)
  <2>1. PassState \in PassStates /\ PassState.links = links
    BY <1>0, PassStateTyped
  <2> QED  BY <1>0, <2>1, PassMakesRules
<1>3. /\ faults' \in Nat /\ links' = pass.links
      /\ run' = pass.run /\ retry' = pass.retry /\ waiting' = pass.waiting
      /\ rules' = IF pass.links = links THEN rules ELSE Synced(rules, pass.links, suppressed)
  BY <1>0, <1>1 DEF DeskTypes
<1> HIDE DEF pass
<1>4. links' \in SUBSET Pairs /\ run' \in Runs /\ retry' \in Attempts /\ waiting' \subseteq Nat
  BY <1>2, <1>3 DEF PassStates
<1>5. rules' \in Seq(Pairs) /\ Range(rules') \subseteq Range(rules) \cup (Pairs \ suppressed)
  <2>1. /\ Synced(rules, links', suppressed) \in Seq(Pairs)
        /\ Range(Synced(rules, links', suppressed)) = Range(rules) \cup (links' \ suppressed)
    BY <1>0, <1>4, SyncedKeeps
  <2> QED  BY <1>0, <1>3, <1>4, <2>1
<1>6. UNCHANGED <<absent, suppressed, settings, undo_stack, redo_stack, deleted, edits, outside>>
  BY DEF Reconcile, stacks
<1>7. Remembered'
  BY <1>0, <1>5, <1>6 DEF Remembered
<1>8. DeskTypes'
  BY <1>0, <1>3, <1>4, <1>5, <1>6 DEF DeskTypes
<1> QED  BY <1>2, <1>3, <1>7, <1>8 DEF DeskInv

LEMMA DeskStep ==
  ASSUME DeskConstants, DeskInv, [DeskNext]_deskVars
  PROVE  DeskInv'
<1>0. DeskTypes /\ Remembered
  BY DEF DeskInv
<1>1. CASE ConnectPinPair
  <2>1. PICK p \in Pairs \ absent : Connected({p})
    BY <1>1 DEF ConnectPinPair
  <2> QED  BY <2>1, ConnectKeeps
<1>2. CASE EasyConnect
  BY <1>2, ConnectKeeps DEF EasyConnect
<1>3. CASE DeleteSelected
  <2>1. PICK pairs \in SUBSET links : Disconnected(pairs, TRUE)
    BY <1>3 DEF DeleteSelected
  <2>2. pairs \in SUBSET Pairs
    BY <1>0 DEF DeskTypes
  <2> QED  BY <2>1, <2>2, DisconnectKeeps
<1>4. CASE DisconnectNode
  <2>1. PICK p \in links, end \in {1, 2} : Disconnected({q \in links : q[end] = p[end]}, TRUE)
    BY <1>4 DEF DisconnectNode
  <2>2. {q \in links : q[end] = p[end]} \in SUBSET Pairs
    BY <1>0 DEF DeskTypes
  <2> QED  BY <2>1, <2>2, DisconnectKeeps
<1>5. CASE DisconnectAll
  <2>1. Disconnected(links, FALSE) /\ links \in SUBSET Pairs
    BY <1>0, <1>5 DEF DisconnectAll, DeskTypes
  <2> QED  BY <2>1, DisconnectKeeps
<1>6. CASE Reroute
  <2>1. PICK p \in links, q \in Pairs \ absent :
          /\ links' = (links \ {p}) \cup {q}
          /\ Record([kind |-> "reroute", keys |-> {q}, made |-> {q} \ links, gone |-> {p}])
          /\ deleted' = deleted \ {q}
    BY <1>6 DEF Reroute
  <2> DEFINE cmd == [kind |-> "reroute", keys |-> {q}, made |-> {q} \ links, gone |-> {p}]
  <2>2. cmd \in DeskCommand
    BY <1>0 DEF DeskTypes, DeskCommand
  <2>3. undo_stack' = Append(undo_stack, cmd) /\ redo_stack' = <<>>
    BY <2>1 DEF Record
  <2> HIDE DEF cmd
  <2>4. /\ UNCHANGED <<absent, rules, suppressed, settings, run, retry, waiting, outside, faults>>
        /\ edits' = edits + 1
    BY <1>6 DEF Reroute, Edit, reconciler
  <2>5. undo_stack' \in Seq(DeskCommand) /\ redo_stack' \in Seq(DeskCommand)
    BY <1>0, <2>2, <2>3 DEF DeskTypes
  <2>6. Remembered'
    BY <1>0, <2>1, <2>4 DEF Remembered
  <2>7. DeskTypes'
    BY <1>0, <2>1, <2>4, <2>5 DEF DeskTypes
  <2> QED  BY <2>6, <2>7 DEF DeskInv
<1>7. CASE Undo
  BY <1>7, UndoKeeps
<1>8. CASE Redo
  BY <1>8, RedoKeeps
<1>9. CASE SwitchOn
  <2>1. /\ settings' = [settings EXCEPT !.activated = TRUE] /\ edits' = edits + 1
        /\ Activation(rules) /\ UNCHANGED <<absent, suppressed, stacks, deleted, outside>>
    BY <1>9 DEF SwitchOn
  <2>2. settings' \in [activated : BOOLEAN, exclusive : BOOLEAN, auto : BOOLEAN]
        /\ edits' \in Nat /\ rules \in Seq(Pairs)
    <3>1. settings \in [activated : BOOLEAN, exclusive : BOOLEAN, auto : BOOLEAN]
          /\ edits \in Nat /\ rules \in Seq(Pairs)
      BY <1>0 DEF DeskTypes
    <3>2. settings' \in [activated : BOOLEAN, exclusive : BOOLEAN, auto : BOOLEAN]
      BY <2>1, <3>1
    <3> QED  BY <2>1, <3>1, <3>2
  <2>3. deleted' \subseteq deleted /\ deleted' \cap Range(rules) = {}
    BY <1>0, <2>1 DEF Remembered
  <2> QED  BY <2>1, <2>2, <2>3, ActivationKeeps
<1>10. CASE SwitchOff
  <2>1. /\ settings' = [settings EXCEPT !.activated = FALSE] /\ edits' = edits + 1
        /\ UNCHANGED <<outside, faults, links, absent, rules, suppressed, undo_stack, redo_stack, deleted>>
        /\ Deactivate
    BY <1>10 DEF SwitchOff, Edit, graph, stacks
  <2>2. settings' \in [activated : BOOLEAN, exclusive : BOOLEAN, auto : BOOLEAN] /\ edits' \in Nat
    <3>1. settings \in [activated : BOOLEAN, exclusive : BOOLEAN, auto : BOOLEAN] /\ edits \in Nat
      BY <1>0 DEF DeskTypes
    <3>2. settings' \in [activated : BOOLEAN, exclusive : BOOLEAN, auto : BOOLEAN]
      BY <2>1, <3>1
    <3> QED  BY <2>1, <3>1, <3>2
  <2>3. run' \in Runs /\ retry' \in Attempts /\ waiting' \subseteq Nat
    BY <2>1, Scheduled
  <2>4. Remembered'
    BY <1>0, <2>1 DEF Remembered
  <2>5. DeskTypes'
    BY <1>0, <2>1, <2>2, <2>3 DEF DeskTypes
  <2> QED  BY <2>4, <2>5 DEF DeskInv
<1>11. CASE Load
  <2>1. PICK saved \in Patchbays :
          /\ deleted' = deleted \ Range(saved)
          /\ Activation(saved) \/ (rules' = saved /\ UNCHANGED <<links, reconciler, faults>>)
    BY <1>11 DEF Load
  <2>2. saved \in Seq(Pairs)
    BY DEF DeskConstants
  <2>3. settings' \in [activated : BOOLEAN, exclusive : BOOLEAN, auto : BOOLEAN] /\ edits' \in Nat
        /\ UNCHANGED <<absent, suppressed, stacks, outside>>
    BY <1>0, <1>11 DEF Load, DeskTypes
  <2>4. deleted' \subseteq deleted /\ deleted' \cap Range(saved) = {}
    BY <2>1
  <2> QED  BY <2>1, <2>2, <2>3, <2>4, ActivationKeeps
<1>12. CASE EditRules
  BY <1>12, EditRulesKeeps
<1>13. CASE SaveRule
  BY <1>13, SaveRuleKeeps
<1>14. CASE OtherClient \/ EndpointLeaves \/ EndpointReturns
  <2>1. /\ links' \subseteq Pairs /\ absent' \subseteq Pairs /\ outside' \in Nat
        /\ UNCHANGED <<rules, suppressed, settings, run, retry, waiting, undo_stack, redo_stack, deleted, edits, faults>>
    <3>1. CASE OtherClient
      BY <1>0, <3>1 DEF OtherClient, Meddle, DeskTypes, reconciler, stacks
    <3>2. CASE EndpointLeaves
      BY <1>0, <3>2 DEF EndpointLeaves, Meddle, DeskTypes, reconciler, stacks
    <3>3. CASE EndpointReturns
      BY <1>0, <3>3 DEF EndpointReturns, DeskTypes, reconciler, stacks, counts
    <3> QED  BY <1>14, <3>1, <3>2, <3>3
  <2>2. Remembered'
    BY <1>0, <2>1 DEF Remembered
  <2>3. DeskTypes'
    BY <1>0, <2>1 DEF DeskTypes
  <2> QED  BY <2>2, <2>3 DEF DeskInv
<1>15. CASE RefreshGraph \/ ReconcileRefreshFails \/ Elapse \/ UNCHANGED deskVars
  <2>1. /\ run' \in Runs /\ retry' \in Attempts /\ waiting' \subseteq Nat /\ faults' \in Nat
        /\ UNCHANGED <<links, absent, rules, suppressed, settings, undo_stack, redo_stack, deleted, edits, outside>>
    <3>1. CASE RefreshGraph
      BY <1>0, <3>1, Scheduled DEF RefreshGraph, DeskTypes, graph, stacks, counts
    <3>2. CASE ReconcileRefreshFails
      <4>1. RetryStatus(PassState, 0) \in PassStates
        BY <1>0, PassStateTyped, Retried
      <4> DEFINE pass == RetryStatus(PassState, 0)
      <4>2. pass \in PassStates /\ run' = pass.run /\ retry' = pass.retry /\ waiting' = pass.waiting
        BY <3>2, <4>1 DEF ReconcileRefreshFails
      <4> HIDE DEF pass
      <4>3. run' \in Runs /\ retry' \in Attempts /\ waiting' \subseteq Nat
        BY <4>2 DEF PassStates
      <4> QED  BY <1>0, <3>2, <4>3 DEF ReconcileRefreshFails, DeskTypes, graph, stacks
    <3>3. CASE Elapse
      <4>1. waiting' \subseteq waiting /\ (run' \in {"later", "due"} \/ run' = run)
        BY <3>3 DEF Elapse
      <4> QED  BY <1>0, <3>3, <4>1 DEF Elapse, DeskTypes, Runs, graph, stacks, counts
    <3>4. CASE UNCHANGED deskVars
      BY <1>0, <3>4 DEF DeskTypes, deskVars, graph, reconciler, stacks, counts
    <3> QED  BY <1>15, <3>1, <3>2, <3>3, <3>4
  <2>2. Remembered'
    BY <1>0, <2>1 DEF Remembered
  <2>3. DeskTypes'
    BY <1>0, <2>1 DEF DeskTypes
  <2> QED  BY <2>2, <2>3 DEF DeskInv
<1>16. CASE Reconcile
  BY <1>16, ReconcileKeeps
<1> QED  BY <1>1, <1>2, <1>3, <1>4, <1>5, <1>6, <1>7, <1>8, <1>9, <1>10, <1>11, <1>12, <1>13, <1>14,
            <1>15, <1>16 DEF DeskNext, User, World, Pump

LEMMA DeskBegins ==
  ASSUME DeskConstants, DeskInit
  PROVE  DeskInv
<1>1. PICK past \in Pasts : links = past.connected /\ rules = Synced(past.saved, links, {})
  BY DEF DeskInit
<1>2. past.saved \in Seq(Pairs) /\ links \in SUBSET Pairs
  BY <1>1 DEF DeskConstants
<1>3. rules \in Seq(Pairs)
  BY <1>1, <1>2, SyncedKeeps
<1> DEFINE cmd == [kind |-> "connect", keys |-> links, made |-> links, gone |-> {}]
<1>4. cmd \in DeskCommand
  BY <1>2 DEF DeskCommand
<1>5. undo_stack = IF links = {} THEN <<>> ELSE <<cmd>>
  BY DEF DeskInit
<1> HIDE DEF cmd
<1>6. undo_stack \in Seq(DeskCommand)
  BY <1>4, <1>5
<1>7. run \in Runs /\ retry \in Attempts
  BY DEF DeskInit, Runs, Attempts
<1>8. DeskTypes
  BY <1>2, <1>3, <1>6, <1>7 DEF DeskInit, DeskTypes
<1>9. Remembered
  BY DEF DeskInit, Remembered
<1> QED  BY <1>8, <1>9 DEF DeskInv

\* The user's removals are suppressed and not asked for by a rule, in every
\* behaviour of the desk.
THEOREM DeskInvariant == DeskSpec => []DeskInv
<1>1. DeskInit => DeskInv
  BY DeskConstants, DeskBegins
<1>2. DeskInv /\ [DeskNext]_deskVars => DeskInv'
  BY DeskConstants, DeskStep
<1> QED  BY <1>1, <1>2, PTL DEF DeskSpec

\* No pass of the reconciler makes a link again that the user removed, until
\* the user asks for it: the pass makes links of rules only, and every handler
\* that saves a rule for a live link leaves the suppressed ones out.
THEOREM RemovedStaysRemoved == DeskSpec => DeletedStaysGone
<1> DEFINE Kept == run = "due" /\ run' # "due" => (links' \ links) \cap deleted = {}
<1>1. DeskInv /\ [DeskNext]_deskVars => [Kept]_deskVars
  <2> SUFFICES ASSUME DeskInv, DeskNext, run = "due", run' # "due"
               PROVE  (links' \ links) \cap deleted = {}
    OBVIOUS
  <2>1. CASE Reconcile
    <3>1. links' \subseteq links \cup Range(rules)
      BY <2>1, DeskConstants, ReconcileKeeps
    <3> QED  BY <3>1 DEF DeskInv, Remembered
  <2>2. CASE RefreshGraph \/ ReconcileRefreshFails \/ SwitchOff \/ Elapse
    BY <2>2 DEF RefreshGraph, ReconcileRefreshFails, SwitchOff, Elapse, graph
  <2>3. CASE SwitchOn \/ Load \/ SaveRule
    <3>1. \/ UNCHANGED reconciler
          \/ \E saved : Activation(saved)
      BY <2>3 DEF SwitchOn, Load, SaveRule
    <3>2. run' \in {run, "due"}
      BY <3>1 DEF Activation, ScheduleNow, reconciler
    <3> QED  BY <3>2
  <2>4. CASE User /\ ~(SwitchOn \/ SwitchOff \/ Load \/ SaveRule)
    <3>1. UNCHANGED run
      BY <2>4 DEF User, ConnectPinPair, EasyConnect, Connected, DeleteSelected, DisconnectNode,
                  DisconnectAll, Disconnected, Reroute, Undo, Redo, Settle, EditRules, reconciler
    <3> QED  BY <3>1
  <2>5. CASE World
    <3>1. UNCHANGED run
      BY <2>5 DEF World, OtherClient, EndpointLeaves, EndpointReturns, reconciler
    <3> QED  BY <3>1
  <2> QED  BY <2>1, <2>2, <2>3, <2>4, <2>5 DEF DeskNext, User, Pump
<1>2. DeskSpec => []DeskInv
  BY DeskInvariant
<1> QED  BY <1>1, <1>2, PTL DEF DeskSpec, DeletedStaysGone

=================================================================================
