---------------------------- MODULE RelayEnrollment ----------------------------
(***************************************************************************)
(* How a host comes to trust a peer: the enrollment transaction between    *)
(* the client's control thread, the host's control thread, the host's      *)
(* transaction table and the application that owns durable storage.        *)
(*                                                                         *)
(* A client session creates one fresh secret, so a session stands for its  *)
(* secret.  The application of the host is the desktop bridge, one thread: *)
(* commit_enrollment (persist, accept, roll back when the accept fails),   *)
(* the dialog, forget_trusted_peer, the autosave of the configuration, and *)
(* the relay starts and connections that load it into the engine.  Any     *)
(* save may fail, before or after the file has been replaced.              *)
(*                                                                         *)
(* A drop of the control link ends the wait of the client                  *)
(* (enroll_trusted_peer returns) while the host's side of the session goes *)
(* on behind a resume, until it is lost.                                   *)
(***************************************************************************)
EXTENDS Naturals, Sequences, FiniteSets

CONSTANTS
    Session,        \* the sessions clients pair in
    Peer,           \* the stable identities of the clients
    Pairings,       \* which peer each session may turn out to be of
    MaxTrusted,     \* MAX_TRUSTED_PEERS
    MaxPending,     \* MAX_PENDING_TRUST_ENROLLMENTS
    MaxCrashes,     \* bound on the restarts of the host
    MaxMishaps,     \* bound on the drops of control links and the failing saves together
    MayForget,      \* the user may forget a trusted peer
    None            \* no session

ASSUME EnrollmentAssumption ==
    /\ Pairings \subseteq [Session -> Peer]
    /\ IsFiniteSet(Session) /\ IsFiniteSet(Peer)
    /\ MaxTrusted \in Nat /\ MaxPending \in Nat
    /\ MaxCrashes \in Nat /\ MaxMishaps \in Nat
    /\ MayForget \in BOOLEAN
    /\ None \notin Session /\ None \notin Peer

VARIABLES
    peerOf,     \* SessionRecord::identity: the authenticated peer of a session
    client,     \* the client's control thread, per session
    toHost,     \* a TrustEnroll is on its way
    toClient,   \* the answer on its way
    host,       \* the host's control thread, per session
    stop,       \* the sessions whose record has been torn down
    decision,   \* EngineInner::pending_enrollments: EnrollmentDecision per session
    late,       \* the transactions older than TRUST_ENROLLMENT_TIMEOUT
    trusted,    \* EngineInner::trusted_peers: the live credential of a peer
    config,     \* Application::config: the credential of a peer
    snapshot,   \* config_saved_snapshot: what was last saved without an error
    durable,    \* the configuration file
    requests,   \* TrustedPeerEnrollmentRequested events not handled yet
    dialog,     \* Application::relay_pending_enrollment
    committing, \* the transaction commit_enrollment is at
    persisted,  \* whether its save has succeeded
    before,     \* the credential it replaced
    forgetting, \* where forget_trusted_peer is, and for which peer
    drops, crashes, failedSaves,
    committed,  \* history: secrets persisted and not rolled back
    refused,    \* history: secrets the host has refused or given up
    unsaved,    \* history: secrets whose commit or roll-back could not be saved
    cut         \* history: secrets that were being committed at a restart

table == <<decision, late>>
disk == <<snapshot, durable, failedSaves>>
transaction == <<committing, persisted, before>>
app == <<config, disk, requests, dialog, transaction, forgetting>>
wire == <<toHost, toClient>>
setting == <<peerOf, drops, crashes, cut>>
history == <<committed, refused, unsaved>>
vars == <<client, wire, host, stop, table, trusted, app, setting, history>>

--------------------------------------------------------------------------------
NotForgetting == [stage |-> "none", peer |-> None]

Init ==
    /\ peerOf \in Pairings
    /\ client = [s \in Session |-> "paired"]
    /\ toHost = {} /\ toClient = [s \in Session |-> "none"]
    /\ host = [s \in Session |-> "watch"] /\ stop = {}
    /\ decision = [s \in Session |-> "none"] /\ late = {}
    /\ trusted = [p \in Peer |-> None]
    /\ config = trusted /\ snapshot = trusted /\ durable = trusted
    /\ requests = <<>> /\ dialog = None
    /\ committing = None /\ persisted = FALSE /\ before = None
    /\ forgetting = NotForgetting
    /\ drops = 0 /\ crashes = 0 /\ failedSaves = 0
    /\ committed = {} /\ refused = {} /\ unsaved = {} /\ cut = {}

--------------------------------------------------------------------------------
\* The client: enroll_trusted_peer.

SendEnroll(s) ==
    /\ client[s] = "paired" /\ host[s] # "gone"
    /\ client' = [client EXCEPT ![s] = "waiting"]
    /\ toHost' = toHost \cup {s}
    /\ UNCHANGED <<toClient, host, stop, table, trusted, app, setting, history>>

ClientEnds(s, how) ==
    /\ client' = [client EXCEPT ![s] = how]
    /\ UNCHANGED <<wire, host, stop, table, trusted, app, setting, history>>

ReceiveAccepted(s) ==
    /\ client[s] = "waiting" /\ toClient[s] = "accepted"
    /\ ClientEnds(s, "learned")

ReceiveRejected(s) ==
    /\ client[s] = "waiting" /\ toClient[s] = "rejected"
    /\ ClientEnds(s, "gave_up")

\* The deadline lies HANDSHAKE_TIMEOUT after the host's: every step of the
\* host that could still answer is taken within that slack.
ClientTimeout(s) ==
    /\ client[s] = "waiting" /\ toClient[s] = "none" /\ s \notin toHost
    /\ decision[s] = "none" /\ host[s] \notin {"import", "ack"}
    /\ ClientEnds(s, "gave_up")

\* The control link breaks: the client's wait ends and what was in flight is
\* lost.  The host's thread, or one that resumed the session, goes on until
\* the session is lost.
LinkDrops(s) ==
    /\ drops + failedSaves < MaxMishaps /\ client[s] = "waiting"
    /\ client' = [client EXCEPT ![s] = "gave_up"]
    /\ toHost' = toHost \ {s} /\ toClient' = [toClient EXCEPT ![s] = "none"]
    /\ drops' = drops + 1
    /\ UNCHANGED <<host, stop, table, trusted, app, peerOf, crashes, cut, history>>

SessionLost(s) ==
    /\ client[s] = "gave_up" /\ drops > 0
    /\ s \notin stop
    /\ stop' = stop \cup {s}
    /\ UNCHANGED <<client, wire, host, table, trusted, app, setting, history>>

--------------------------------------------------------------------------------
\* The host's control thread: one pass of the loop of watch_control.

HostGoes(s, phase) == host' = [host EXCEPT ![s] = phase]

CheckStop(s) ==
    /\ host[s] = "watch"
    /\ HostGoes(s, IF s \in stop THEN "gone" ELSE "take")
    /\ UNCHANGED <<client, wire, stop, table, trusted, app, setting, history>>

Drop(s) ==
    /\ decision' = [decision EXCEPT ![s] = "none"]
    /\ late' = late \ {s}

\* A slip: the secret is installed without waiting for the decision.
take_undecided(s) ==
    /\ host[s] = "take"
    /\ IF decision[s] \in {"pending", "accepted"}
       THEN Drop(s) /\ HostGoes(s, "import")
       ELSE HostGoes(s, "read") /\ UNCHANGED table
    /\ UNCHANGED <<client, wire, stop, trusted, app, setting, history>>

\* A slip: an undecided transaction is never given up.
take_without_timeout(s) ==
    /\ host[s] = "take"
    /\ IF decision[s] = "accepted"
       THEN Drop(s) /\ HostGoes(s, "import")
       ELSE HostGoes(s, "read") /\ UNCHANGED table
    /\ UNCHANGED <<client, wire, stop, trusted, app, setting, history>>

\* take_trusted_enrollment: an accepted transaction is honoured even when it
\* has become late meanwhile; a late undecided one is a rejection.
take_trusted_enrollment(s) ==
    /\ host[s] = "take"
    /\ \/ /\ decision[s] = "accepted"
          /\ Drop(s) /\ HostGoes(s, "import")
          /\ UNCHANGED <<toClient, refused>>
       \/ /\ decision[s] = "rejected" \/ (decision[s] = "pending" /\ s \in late)
          /\ Drop(s) /\ HostGoes(s, "read")
          /\ toClient' = [toClient EXCEPT ![s] = "rejected"]
          /\ refused' = refused \cup {s}
       \/ /\ decision[s] = "none" \/ (decision[s] = "pending" /\ s \notin late)
          /\ HostGoes(s, "read")
          /\ UNCHANGED <<table, toClient, refused>>
    /\ UNCHANGED <<client, toHost, stop, trusted, app, setting, committed, unsaved>>

remember_trusted_peer(s) ==
    /\ host[s] = "import"
    /\ trusted' = [trusted EXCEPT ![peerOf[s]] = s]
    /\ HostGoes(s, "ack")
    /\ UNCHANGED <<client, wire, stop, table, app, setting, history>>

SendAccepted(s) ==
    /\ host[s] = "ack"
    /\ toClient' = [toClient EXCEPT ![s] = "accepted"]
    /\ HostGoes(s, "read")
    /\ UNCHANGED <<client, toHost, stop, table, trusted, app, setting, history>>

ReadNothing(s) ==
    /\ host[s] = "read" /\ s \notin toHost
    /\ HostGoes(s, "watch")
    /\ UNCHANGED <<client, wire, stop, table, trusted, app, setting, history>>

\* begin_trusted_enrollment: room in the live map, then the table without
\* its late transactions has room and none for this peer.
HasRoom(p) == trusted[p] # None \/ Cardinality({q \in Peer : trusted[q] # None}) < MaxTrusted

Open == {s \in Session : decision[s] # "none"}

Fits(s, kept) == Cardinality(kept) < MaxPending /\ \A t \in kept : peerOf[t] # peerOf[s]

begin_trusted_enrollment(s) ==
    /\ host[s] = "read" /\ s \in toHost
    /\ toHost' = toHost \ {s}
    /\ HostGoes(s, "watch")
    /\ LET kept == Open \ late
           retained == [t \in Session |-> IF t \in late THEN "none" ELSE decision[t]]
       IN IF HasRoom(peerOf[s])
          THEN /\ late' = {}
               /\ IF Fits(s, kept)
                  THEN /\ decision' = [retained EXCEPT ![s] = "pending"]
                       /\ requests' = Append(requests, s)
                       /\ UNCHANGED <<toClient, refused>>
                  ELSE /\ decision' = retained
                       /\ toClient' = [toClient EXCEPT ![s] = "rejected"]
                       /\ refused' = refused \cup {s}
                       /\ UNCHANGED requests
          ELSE /\ toClient' = [toClient EXCEPT ![s] = "rejected"]
               /\ refused' = refused \cup {s}
               /\ UNCHANGED <<table, requests>>
    /\ UNCHANGED <<client, stop, trusted, config, disk, dialog, transaction, forgetting,
                   setting, committed, unsaved>>

ControlStep(s) ==
    \/ CheckStop(s) \/ take_trusted_enrollment(s) \/ remember_trusted_peer(s)
    \/ SendAccepted(s) \/ ReadNothing(s) \/ begin_trusted_enrollment(s)

Expire(s) ==
    /\ s \in Open \ late
    /\ late' = late \cup {s}
    /\ UNCHANGED <<client, wire, host, stop, decision, trusted, app, setting, history>>

--------------------------------------------------------------------------------
\* The configuration of the host's application.

Idle == committing = None /\ forgetting = NotForgetting

\* save_config of the configuration c.  A failing one leaves the old file, or
\* the new one when only the directory could not be synced; the application
\* takes it for unsaved either way.
SaveOk(c) == durable' = c /\ snapshot' = c /\ UNCHANGED failedSaves

SaveFails(c) ==
    /\ drops + failedSaves < MaxMishaps
    /\ failedSaves' = failedSaves + 1
    /\ durable' \in {durable, c}
    /\ UNCHANGED snapshot

\* The live maps the engine may hold after it was given the configuration c:
\* the first MAX_TRUSTED_PEERS of its list, in whatever order they stand there.
Imports(c) ==
    LET Known == {p \in Peer : c[p] # None}
        Kept == {k \in SUBSET Known : /\ Cardinality(k) <= MaxTrusted
                                      /\ k = Known \/ Cardinality(k) = MaxTrusted}
    IN  {[p \in Peer |-> IF p \in k THEN c[p] ELSE None] : k \in Kept}

\* autosave_config, "save-config" and the save at exit.  The file holds other
\* settings too: it may be written although no credential has changed.
Autosave ==
    /\ Idle
    /\ SaveOk(config) \/ SaveFails(config)
    /\ UNCHANGED <<client, wire, host, stop, table, trusted, config, requests, dialog,
                   transaction, forgetting, setting, history>>

\* configure_relay_identity: a connection is opened, or the relay is started.
Configure ==
    /\ Idle
    /\ trusted' \in Imports(config)
    /\ UNCHANGED <<client, wire, host, stop, table, app, setting, history>>

--------------------------------------------------------------------------------
\* The application of the host: enrollments.

\* reject_trusted_enrollment: what is late is dropped, what is unknown is an
\* error, and the application is done with the transaction in every case.
Reject(s) ==
    /\ \/ /\ s \in Open \ late
          /\ decision' = [decision EXCEPT ![s] = IF @ = "accepted" THEN @ ELSE "rejected"]
          /\ UNCHANGED late
       \/ s \in late /\ Drop(s)
       \/ s \notin Open \cup late /\ UNCHANGED table
    /\ refused' = refused \cup {s}

\* commit_enrollment, first half: fetch the secret, put it into the
\* configuration and save that; reject when there is no secret any more.
Commit(s) ==
    \/ /\ s \in Open \ late
       /\ LET c == [config EXCEPT ![peerOf[s]] = s] IN
            /\ config' = c
            /\ \/ SaveOk(c) /\ persisted' = TRUE
                  /\ committed' = committed \cup {s} /\ UNCHANGED unsaved
               \/ SaveFails(c) /\ persisted' = FALSE
                  /\ unsaved' = unsaved \cup {s} /\ UNCHANGED committed
       /\ committing' = s /\ before' = config[peerOf[s]]
       /\ UNCHANGED <<table, refused>>
    \/ /\ s \notin Open \ late
       /\ Reject(s)
       /\ UNCHANGED <<config, disk, transaction, committed, unsaved>>

\* A known peer rotates its secret without a dialog.
HandleRequest ==
    /\ Idle /\ requests # <<>>
    /\ requests' = Tail(requests)
    /\ LET s == Head(requests) IN
         \/ config[peerOf[s]] # None /\ Commit(s) /\ UNCHANGED dialog
         \/ /\ config[peerOf[s]] = None
            /\ dialog' = s
            /\ UNCHANGED <<table, config, disk, transaction, history>>
    /\ UNCHANGED <<client, wire, host, stop, trusted, forgetting, setting>>

UserAccepts ==
    /\ Idle /\ dialog # None
    /\ dialog' = None
    /\ Commit(dialog)
    /\ UNCHANGED <<client, wire, host, stop, trusted, requests, forgetting, setting>>

UserRejects ==
    /\ Idle /\ dialog # None
    /\ dialog' = None
    /\ Reject(dialog)
    /\ UNCHANGED <<client, wire, host, stop, trusted, config, disk, requests, transaction,
                   forgetting, setting, committed, unsaved>>

CommitEnds == committing' = None /\ persisted' = FALSE /\ before' = None

\* The roll-back is a save of its own, and nothing looks at its outcome.
RollBack(s) ==
    /\ LET c == [config EXCEPT ![peerOf[s]] = before] IN
         /\ config' = c
         /\ \/ SaveOk(c) /\ UNCHANGED unsaved
            \/ SaveFails(c) /\ unsaved' = unsaved \cup {s}
    /\ committed' = committed \ {s}
    /\ refused' = refused \cup {s}

\* A slip: the transaction is marked before its age is checked.
accept_before_checking ==
    /\ committing # None /\ persisted
    /\ LET s == committing IN
         /\ decision' = IF decision[s] \in {"pending", "accepted"}
                        THEN [decision EXCEPT ![s] = "accepted"] ELSE decision
         /\ IF decision[s] \in {"pending", "accepted"} /\ s \notin late
            THEN UNCHANGED <<config, disk, history>>
            ELSE RollBack(s)
    /\ CommitEnds
    /\ UNCHANGED <<client, wire, host, stop, late, trusted, requests, dialog, forgetting, setting>>

\* commit_enrollment, second half, when the save succeeded:
\* accept_trusted_enrollment, and the configuration of before when it fails.
accept_trusted_enrollment ==
    /\ committing # None /\ persisted
    /\ LET s == committing IN
         \/ /\ decision[s] \in {"pending", "accepted"} /\ s \notin late
            /\ decision' = [decision EXCEPT ![s] = "accepted"]
            /\ UNCHANGED <<late, config, disk, history>>
         \/ /\ decision[s] \in {"none", "rejected"} \/ s \in late
            /\ IF s \in late THEN Drop(s) ELSE UNCHANGED table
            /\ RollBack(s)
    /\ CommitEnds
    /\ UNCHANGED <<client, wire, host, stop, trusted, requests, dialog, forgetting, setting>>

\* The second half when the save failed.  The configuration keeps the secret.
RejectUnsaved ==
    /\ committing # None /\ ~persisted
    /\ Reject(committing)
    /\ CommitEnds
    /\ UNCHANGED <<client, wire, host, stop, trusted, config, disk, requests, dialog,
                   forgetting, setting, committed, unsaved>>

--------------------------------------------------------------------------------
\* The application of the host: forget_trusted_peer.  remove_trusted_peer in
\* three steps (the live credential, the sessions, the pending transactions),
\* then the configuration.

Forget(p) ==
    /\ MayForget /\ Idle /\ config[p] # None
    /\ trusted' = [trusted EXCEPT ![p] = None]
    /\ forgetting' = [stage |-> "sessions", peer |-> p]
    /\ UNCHANGED <<client, wire, host, stop, table, config, disk, requests, dialog, transaction,
                   setting, history>>

ForgetSessions ==
    /\ forgetting.stage = "sessions"
    /\ stop' = stop \cup {s \in Session : peerOf[s] = forgetting.peer}
    /\ forgetting' = [forgetting EXCEPT !.stage = "pending"]
    /\ UNCHANGED <<client, wire, host, table, trusted, config, disk, requests, dialog,
                   transaction, setting, history>>

ForgetPending ==
    /\ forgetting.stage = "pending"
    /\ decision' = [s \in Session |->
                        IF peerOf[s] = forgetting.peer THEN "none" ELSE decision[s]]
    /\ late' = {s \in late : peerOf[s] # forgetting.peer}
    /\ forgetting' = [forgetting EXCEPT !.stage = "durable"]
    /\ UNCHANGED <<client, wire, host, stop, trusted, config, disk, requests, dialog,
                   transaction, setting, history>>

\* A failing save is noticed by comparing with the snapshot: equal by chance,
\* the peer counts as forgotten; otherwise the configuration is put back and
\* the engine is given it again, if that call succeeds.
ForgetDurable ==
    /\ forgetting.stage = "durable"
    /\ LET c == [config EXCEPT ![forgetting.peer] = None] IN
         \/ SaveOk(c) /\ config' = c /\ UNCHANGED trusted
         \/ SaveFails(c) /\ c = snapshot /\ config' = c /\ UNCHANGED trusted
         \/ SaveFails(c) /\ UNCHANGED config /\ trusted' \in {trusted} \cup Imports(config)
    /\ forgetting' = NotForgetting
    /\ UNCHANGED <<client, wire, host, stop, table, requests, dialog, transaction, setting,
                   history>>

AppStep ==
    \/ HandleRequest \/ accept_trusted_enrollment \/ RejectUnsaved
    \/ ForgetSessions \/ ForgetPending \/ ForgetDurable

\* The host's process dies and is started again with what its file holds.
Crash ==
    /\ crashes < MaxCrashes
    /\ crashes' = crashes + 1
    /\ config' = durable /\ snapshot' = durable
    /\ trusted' \in Imports(durable)
    /\ host' = [s \in Session |-> "gone"] /\ stop' = Session
    /\ decision' = [s \in Session |-> "none"] /\ late' = {}
    /\ toHost' = {} /\ toClient' = [s \in Session |-> "none"]
    /\ requests' = <<>> /\ dialog' = None
    /\ CommitEnds
    /\ forgetting' = NotForgetting
    /\ cut' = cut \cup ({committing} \ {None})
    /\ UNCHANGED <<client, durable, failedSaves, peerOf, drops, history>>

--------------------------------------------------------------------------------
ClientStep(s) == ReceiveAccepted(s) \/ ReceiveRejected(s) \/ ClientTimeout(s)

Next ==
    \/ \E s \in Session :
        \/ SendEnroll(s) \/ ClientStep(s) \/ LinkDrops(s) \/ SessionLost(s)
        \/ ControlStep(s) \/ Expire(s)
    \/ AppStep \/ UserAccepts \/ UserRejects \/ Autosave \/ Configure
    \/ \E p \in Peer : Forget(p)
    \/ Crash

Spec == Init /\ [][Next]_vars

\* The control threads of the host run and its clock advances.  Neither the
\* user nor the application nor the client need ever do anything.
FairSpec == Spec /\ \A s \in Session : WF_vars(ControlStep(s)) /\ WF_vars(Expire(s))

--------------------------------------------------------------------------------
Learned == {s \in Session : client[s] = "learned"}
Live == {trusted[p] : p \in Peer} \ {None}

\* A client keeps a secret only when the host's application has put it into
\* durable storage and not taken it back, restarts of the host at any point
\* included; and the live map of the host, however often it is loaded anew,
\* holds no other one but where a save has failed
\* (commit_enrollment, autosave_config, configure_relay_identity).
AcknowledgedIsDurable ==
    /\ Learned \subseteq committed
    /\ Live \subseteq committed \cup unsaved

\* A secret the host has refused, or whose acceptance came too late, is never
\* kept by the client, and the host trusts it afterwards only when the roll-back
\* did not reach the file: a save of this very secret failed (unsaved), or a
\* restart cut commit_enrollment off (cut).
RefusalIsFinal ==
    /\ Learned \cap refused = {}
    /\ Live \cap refused \subseteq cut \cup unsaved

\* Every transaction of a session whose control thread lives is settled, also
\* when the user never answers or the application hangs (take_trusted_enrollment).
TransactionSettles ==
    \A s \in Session : (decision[s] # "none") ~> (decision[s] = "none" \/ host[s] = "gone")
================================================================================
