------------------------------- MODULE RelayFlow -------------------------------
(***************************************************************************)
(* Which of two authenticated peers emits: the offer/acknowledgement       *)
(* exchange both ends of a session run over its control channel, across    *)
(* drops and resumes of that channel.                                      *)
(*                                                                         *)
(* Each side keeps a FlowNegotiation in its SessionRecord.  Any thread of  *)
(* the embedding may queue an offer; only the control thread (watch_control) *)
(* writes, reads and resolves.  A stable device id is a natural number     *)
(* here, ordered as the ids compare.  The legacy direction exchange        *)
(* (DirectionNegotiation) is the same algorithm with a direction for the   *)
(* emitter; each side starts with the direction of its own settings and    *)
(* queues it at once, which OfferAtStart selects.                          *)
(***************************************************************************)
EXTENDS Naturals, Sequences

CONSTANTS
    Host, Client,       \* the two stable device ids
    MaxGeneration,      \* bound on the generations an embedding uses
    MaxBreaks,          \* bound on the drops of the control link
    MaxWire,            \* bound on the frames in flight when an offer is written
    OfferAtStart,       \* whether the initial offer is queued (TRUE: legacy directions)
    AckWriteMayFail     \* writing an acknowledgement may return an error

Peer == {Host, Client}

ASSUME FlowAssumption ==
    /\ Host \in Nat /\ Client \in Nat /\ Host # Client
    /\ MaxGeneration \in Nat /\ MaxBreaks \in Nat /\ MaxWire \in Nat \ {0}
    /\ OfferAtStart \subseteq BOOLEAN /\ AckWriteMayFail \in BOOLEAN

VARIABLES
    local,      \* FlowNegotiation::local, per side
    resolved,   \* FlowNegotiation::resolved
    remote,     \* FlowNegotiation::remote
    pending,    \* FlowNegotiation::pending
    sent,       \* FlowNegotiation::sent
    role,       \* the emitter SessionRecord::active_roles was last derived from
    writing,    \* the offer flush_pending_flow_offer has written, not yet marked
    enrolling,  \* the client's control thread is still in enroll_trusted_peer
    watching,   \* the sides whose watch_control is running
    link,       \* the current control link carries data
    wire,       \* what is in flight towards each side
    breaks,     \* number of link drops so far
    ackLost     \* history: an acknowledgement could not be written

negotiation == <<local, resolved, remote, pending, sent>>
transport   == <<enrolling, watching, link, breaks, ackLost>>
vars        == <<negotiation, role, writing, transport, wire>>

--------------------------------------------------------------------------------
Generation == 0..MaxGeneration
FlowOffer  == [generation : Generation, emitter : Peer, proposer : Peer]
None       == [generation |-> 0]

Offer(g, e, p) == [generation |-> g, emitter |-> e, proposer |-> p]

OfferMessage(o)  == [type |-> "offer", offer |-> o]
AckMessage(g, e) == [type |-> "ack", generation |-> g, emitter |-> e]

PeerOf(p) == CHOOSE q \in Peer : q # p

--------------------------------------------------------------------------------
\* Generation first, then proposer, then emitter.
Below(x, y) ==
    \/ x.generation < y.generation
    \/ /\ x.generation = y.generation
       /\ \/ x.proposer < y.proposer
          \/ x.proposer = y.proposer /\ x.emitter < y.emitter

resolve_flow_offers(x, y) == IF Below(x, y) THEN y ELSE x

\* The session's authenticated roles fix the first emitter on both sides; each
\* side numbers its own initial offer with the generation of its settings.
Init ==
    \E e \in [Peer -> Peer], g \in [Peer -> Generation], queued \in OfferAtStart :
        /\ queued \/ e[Host] = e[Client]
        /\ local = [p \in Peer |-> Offer(g[p], e[p], p)]
        /\ resolved = local
        /\ remote = [p \in Peer |-> None]
        /\ pending = IF queued THEN local ELSE remote
        /\ sent = [p \in Peer |-> FALSE]
        /\ role = e
        /\ writing = remote
        /\ enrolling \in BOOLEAN
        /\ watching = Peer
        /\ link = TRUE
        /\ wire = [p \in Peer |-> <<>>]
        /\ breaks = 0
        /\ ackLost = FALSE

--------------------------------------------------------------------------------
(* The embedding asks for an emitter: offer_flow and FlowNegotiation::queue. *)

Queued(p, o) ==
    /\ pending' = [pending EXCEPT ![p] = o]
    /\ sent' = [sent EXCEPT ![p] = FALSE]

\* A new choice needs a newer generation than the last one of this side.
QueueNew(p, g, e) ==
    /\ g > local[p].generation
    /\ local' = [local EXCEPT ![p] = Offer(g, e, p)]
    /\ Queued(p, Offer(g, e, p))
    /\ UNCHANGED <<resolved, remote, role, writing, transport, wire>>

\* The same choice is queued again only if another one has won over it.
QueueAgain(p) ==
    /\ pending[p] = None
    /\ resolved[p] # local[p]
    /\ Queued(p, local[p])
    /\ UNCHANGED <<local, resolved, remote, role, writing, transport, wire>>

--------------------------------------------------------------------------------
(* The control thread of one side.                                         *)

\* What a write puts on the wire: nothing once the link is gone.
Put(w, p, m) == IF link THEN [w EXCEPT ![PeerOf(p)] = Append(@, m)] ELSE w

WriteOffer(p) ==
    /\ p \in watching
    /\ writing[p] = None
    /\ pending[p] # None
    /\ ~sent[p]
    /\ \A q \in Peer : Len(wire[q]) < MaxWire
    /\ wire' = Put(wire, p, OfferMessage(pending[p]))
    /\ writing' = [writing EXCEPT ![p] = pending[p]]
    /\ UNCHANGED <<negotiation, role, transport>>

\* mark_sent: only the offer that was written, and only if it is still pending.
MarkSent(p) ==
    /\ writing[p] # None
    /\ sent' = [sent EXCEPT ![p] = (@ \/ pending[p] = writing[p])]
    /\ writing' = [writing EXCEPT ![p] = None]
    /\ UNCHANGED <<local, resolved, remote, pending, role, transport, wire>>

\* The next sealed frame of the control channel, between two flushes.
Reads(p, type) ==
    /\ p \in watching
    /\ writing[p] = None
    /\ wire[p] # <<>>
    /\ Head(wire[p]).type = type

\* FlowNegotiation::receive_offer: the winner of all this side has seen.
Winner(p, o) == resolve_flow_offers(resolved[p], resolve_flow_offers(local[p], o))

receive_offer_without_history(p, o) ==
    /\ remote' = [remote EXCEPT ![p] = o]
    /\ resolved' = [resolved EXCEPT ![p] = o]
    /\ pending' = [pending EXCEPT ![p] = None]
    /\ sent' = [sent EXCEPT ![p] = FALSE]

receive_offer_drops_pending(p, o) ==
    /\ remote' = [remote EXCEPT ![p] = IF @ = None THEN o ELSE resolve_flow_offers(@, o)]
    /\ resolved' = [resolved EXCEPT ![p] = resolve_flow_offers(@, o)]
    /\ pending' = [pending EXCEPT ![p] = None]
    /\ sent' = [sent EXCEPT ![p] = FALSE]

receive_offer(p, o) ==
    /\ remote' = [remote EXCEPT ![p] = IF @ = None THEN o ELSE resolve_flow_offers(@, o)]
    /\ resolved' = [resolved EXCEPT ![p] = Winner(p, o)]
    /\ pending' = [pending EXCEPT ![p] = IF Winner(p, o) = local[p] THEN @ ELSE None]
    /\ sent' = [sent EXCEPT ![p] = (@ /\ Winner(p, o) = local[p])]

\* apply_flow_offer: resolve, acknowledge the winner, then derive the roles.
ReceiveOffer(p) ==
    /\ Reads(p, "offer")
    /\ receive_offer(p, Head(wire[p]).offer)
    /\ wire' = Put([wire EXCEPT ![p] = Tail(@)], p,
                   AckMessage(resolved'[p].generation, resolved'[p].emitter))
    /\ role' = [role EXCEPT ![p] = IF resolved'[p] # resolved[p]
                                   THEN resolved'[p].emitter ELSE @]
    /\ UNCHANGED <<local, writing, transport>>

\* The acknowledgement could not be written: the channel counts as dropped, and
\* the roles are not derived.
AckWriteFails(p) ==
    /\ AckWriteMayFail
    /\ ~link
    /\ Reads(p, "offer")
    /\ receive_offer(p, Head(wire[p]).offer)
    /\ wire' = [wire EXCEPT ![p] = Tail(@)]
    /\ watching' = watching \ {p}
    /\ ackLost' = TRUE
    /\ UNCHANGED <<local, role, writing, enrolling, link, breaks>>

\* FlowNegotiation::receive_ack.  An acknowledgement names no proposer: it is
\* either of the pending offer or of a winning one of the authenticated peer.
AckOfPending(p, a) ==
    a.generation = pending[p].generation /\ a.emitter = pending[p].emitter

AckOfPeer(p, a) ==
    LET o == Offer(a.generation, a.emitter, PeerOf(p))
    IN /\ ~AckOfPending(p, a)
       /\ remote[p] # None =>
              \/ remote[p].generation < o.generation
              \/ remote[p].generation = o.generation /\ remote[p].emitter = o.emitter
       /\ resolve_flow_offers(pending[p], o) = o

Adopt(p, o) ==
    /\ resolved' = [resolved EXCEPT ![p] = resolve_flow_offers(@, o)]
    /\ role' = [role EXCEPT ![p] = resolved'[p].emitter]
    /\ pending' = [pending EXCEPT ![p] = None]
    /\ sent' = [sent EXCEPT ![p] = FALSE]

receive_ack_of_anything(p, a) == pending[p] # None /\ Adopt(p, pending[p])

receive_ack(p, a) ==
    /\ pending[p] # None
    /\ \/ AckOfPending(p, a) /\ Adopt(p, pending[p])
       \/ AckOfPeer(p, a) /\ Adopt(p, Offer(a.generation, a.emitter, PeerOf(p)))

ReceiveAck(p) ==
    /\ Reads(p, "ack")
    /\ receive_ack(p, Head(wire[p]))
    /\ wire' = [wire EXCEPT ![p] = Tail(@)]
    /\ UNCHANGED <<local, remote, writing, transport>>

IgnoreAck(p) ==
    /\ Reads(p, "ack")
    /\ LET a == Head(wire[p])
       IN pending[p] # None => ~(AckOfPending(p, a) \/ AckOfPeer(p, a))
    /\ wire' = [wire EXCEPT ![p] = Tail(@)]
    /\ UNCHANGED <<negotiation, role, writing, transport>>

--------------------------------------------------------------------------------
(* The control link.                                                       *)

\* From here on writes are lost; what is already in flight may be read.
LinkBreaks ==
    /\ link
    /\ breaks < MaxBreaks
    /\ link' = FALSE
    /\ breaks' = breaks + 1
    /\ UNCHANGED <<negotiation, role, writing, enrolling, watching, ackLost, wire>>

\* A closed stream, a failed write or the keepalive timeout.
NoticeDrop(p) ==
    /\ ~link
    /\ p \in watching
    /\ watching' = watching \ {p}
    /\ writing' = [writing EXCEPT ![p] = None]
    /\ UNCHANGED <<negotiation, role, enrolling, link, breaks, ackLost, wire>>

\* FlowNegotiation::reset_send: what is still pending is to be sent again.
ResetSend(p) == sent[p] /\ pending[p] = None

\* The enrollment answer has come (or its deadline): the client's thread goes
\* on to watch_control, which resets what was sent on this very channel.
EnrollmentEnds ==
    /\ enrolling
    /\ Client \in watching
    /\ writing[Client] = None
    /\ enrolling' = FALSE
    /\ sent' = [sent EXCEPT ![Client] = ResetSend(Client)]
    /\ UNCHANGED <<local, resolved, remote, pending, role, writing, watching, link, breaks, ackLost,
                   wire>>

\* A resume puts both sides into a new watch_control, which first resets what
\* was sent on the old channel.
ResumeLink_keeps_sent ==
    /\ ~link
    /\ watching = {}
    /\ link' = TRUE
    /\ watching' = Peer
    /\ wire' = [p \in Peer |-> <<>>]
    /\ enrolling' = FALSE
    /\ UNCHANGED <<negotiation, role, writing, breaks, ackLost>>

ResumeLink ==
    /\ ~link
    /\ watching = {}
    /\ link' = TRUE
    /\ watching' = Peer
    /\ wire' = [p \in Peer |-> <<>>]
    /\ enrolling' = FALSE
    /\ sent' = [p \in Peer |-> ResetSend(p)]
    /\ UNCHANGED <<local, resolved, remote, pending, role, writing, breaks, ackLost>>

--------------------------------------------------------------------------------
ControlStep(p) ==
    \/ WriteOffer(p) \/ MarkSent(p)
    \/ ReceiveOffer(p) \/ AckWriteFails(p) \/ ReceiveAck(p) \/ IgnoreAck(p)

Choose(p) == QueueAgain(p) \/ \E g \in Generation, e \in Peer : QueueNew(p, g, e)

LinkStep == (\E p \in Peer : NoticeDrop(p)) \/ ResumeLink \/ EnrollmentEnds

Next == (\E p \in Peer : ControlStep(p) \/ Choose(p)) \/ LinkBreaks \/ LinkStep

Spec == Init /\ [][Next]_vars

\* Both control threads run, a broken link is noticed (keepalives) and, in the
\* sessions this module is about, resumed within the grace period.
FairSpec ==
    /\ Spec
    /\ \A p \in Peer : WF_vars(ControlStep(p)) /\ WF_vars(NoticeDrop(p))
    /\ WF_vars(ResumeLink) /\ WF_vars(EnrollmentEnds)

--------------------------------------------------------------------------------
(* Properties.                                                             *)

AtMost(x, y) == x = y \/ Below(x, y)

\* Nothing is queued, being written or in flight.
Settled ==
    /\ link /\ watching = Peer
    /\ \A p \in Peer : pending[p] = None /\ writing[p] = None /\ wire[p] = <<>>

\* Once an exchange is over both sides hold the same emitter.
SettledAgree == Settled => resolved[Host].emitter = resolved[Client].emitter

\* "No resolution can activate both directions": they have derived their
\* audio roles from it, and exactly one side emits (apply_flow_offer).
OneEmitter == Settled => role[Host] = role[Client]

\* A queued choice is forgotten only when a choice at least as new has won: it
\* survives every drop until it is acknowledged or superseded.
PendingUntilDecided ==
    [][\A p \in Peer :
          pending[p] # None /\ pending'[p] # pending[p] =>
              IF pending'[p] = None THEN AtMost(pending[p], resolved'[p])
                                    ELSE Below(pending[p], pending'[p])]_vars

\* A side never returns to an older winner.
WinnerOnlyGrows == [][\A p \in Peer : AtMost(resolved[p], resolved'[p])]_vars

\* Unless the embeddings keep choosing, the exchange ends and one side emits,
\* provided no acknowledgement was lost in apply_flow_offer.
EventuallyOneEmitter ==
    \/ []<><<\E p \in Peer : Choose(p)>>_vars
    \/ <>ackLost
    \/ <>[](Settled /\ role[Host] = role[Client])
================================================================================
