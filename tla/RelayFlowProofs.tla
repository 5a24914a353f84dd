---------------------------- MODULE RelayFlowProofs ----------------------------
(***************************************************************************)
(* The negotiation of RelayFlow for any two device ids, any generations    *)
(* and any number of link drops.                                           *)
(*                                                                         *)
(* Offers are totally ordered, so what has to be shown for the agreement   *)
(* is which choices each side has heard of: the winner of a side is never  *)
(* older than an acknowledged choice of the other one.  The difficulty is  *)
(* that an acknowledgement names no proposer, that a side which has not    *)
(* queued anything never tells what it holds, and that acknowledgements    *)
(* are lost with the link and may be read late.                            *)
(***************************************************************************)
EXTENDS RelayFlow, TLAPS

USE FlowAssumption

Frame ==
    [type : {"offer"}, offer : FlowOffer]
    \cup [type : {"ack"}, generation : Generation, emitter : Peer]

TypeInv ==
    /\ local \in [Peer -> FlowOffer]
    /\ resolved \in [Peer -> FlowOffer]
    /\ remote \in [Peer -> FlowOffer \cup {None}]
    /\ pending \in [Peer -> FlowOffer \cup {None}]
    /\ sent \in [Peer -> BOOLEAN]
    /\ role \in [Peer -> Peer]
    /\ writing \in [Peer -> FlowOffer \cup {None}]
    /\ wire \in [Peer -> Seq(Frame)]

Members(s)  == {s[i] : i \in 1..Len(s)}
InFlight(p) == Members(wire[p])

\* What a side could have chosen, when l is the last choice of each: that one
\* or one of an older generation.
Made(l, o) ==
    \/ o = l[o.proposer]
    \/ o.generation < l[o.proposer].generation

\* What each side knows of its own choice.
OwnInv ==
    \A p \in Peer :
        /\ local[p].proposer = p
        /\ pending[p] \in {None, local[p]}
        /\ pending[p] = None => AtMost(local[p], resolved[p])
        /\ Made(local, resolved[p])

\* An acknowledgement m stands for a choice x that was made and that the side
\* which wrote it has resolved by now, r being its winner.
Vouched(l, r, m, x) ==
    /\ m.generation = x.generation /\ m.emitter = x.emitter
    /\ Made(l, x) /\ AtMost(x, r)

\* A frame q has written.
FrameOk(l, r, q, m) ==
    /\ m.type = "offer" => m.offer.proposer = q /\ Made(l, m.offer)
    /\ m.type = "ack" => \E x \in FlowOffer : Vouched(l, r, m, x)

FrameInv ==
    \A p \in Peer : \A m \in InFlight(p) :
        FrameOk(local, resolved[PeerOf(p)], PeerOf(p), m)

\* Why a choice of p that is no longer queued does no harm.  The other side has
\* heard of it; or it is about to be overtaken by the other side's own; or the
\* other side holds the same emitter in the same generation; or it is the
\* initial one, which p answers to any offer.
Heard(p)     == AtMost(local[p], resolved[PeerOf(p)])
Overtaken(p) == pending[PeerOf(p)] # None /\ AtMost(local[p], pending[PeerOf(p)])
Twin(p)      == resolved[PeerOf(p)] = Offer(local[p].generation, local[p].emitter, PeerOf(p))
AnsweredBy(l, r, m, o) ==
    m.type = "ack" /\ \E x \in FlowOffer : Vouched(l, r, m, x) /\ AtMost(o, x)
Initial(p) ==
    /\ resolved[PeerOf(p)].emitter = local[p].emitter
    /\ resolved[PeerOf(p)].proposer = PeerOf(p)
    /\ \A m \in InFlight(PeerOf(p)) : AnsweredBy(local, resolved[p], m, local[p])

Harmless(p) == Heard(p) \/ Overtaken(p) \/ Twin(p) \/ Initial(p)

KnownInv == \A p \in Peer : pending[p] = None => Harmless(p)

IInv == TypeInv /\ OwnInv /\ FrameInv /\ KnownInv

--------------------------------------------------------------------------------
(* The order of the offers.                                                *)

LEMMA PeerTyped ==
    /\ Peer \subseteq Nat
    /\ PeerOf(Host) = Client /\ PeerOf(Client) = Host
    /\ \A p \in Peer : PeerOf(p) \in Peer /\ PeerOf(p) # p /\ PeerOf(PeerOf(p)) = p
    /\ \A p, q \in Peer : q = p \/ q = PeerOf(p)
<1>1. ASSUME NEW p \in Peer PROVE PeerOf(p) \in Peer /\ PeerOf(p) # p
  <2>1. \E q \in Peer : q # p
    BY DEF Peer
  <2> QED  BY <2>1 DEF PeerOf
<1>2. Peer = {Host, Client} /\ Host # Client
    BY DEF Peer
<1> QED  BY <1>1, <1>2

LEMMA OfferTyped ==
    /\ \A o \in FlowOffer :
          o.generation \in Nat /\ o.emitter \in Nat /\ o.proposer \in Nat
          /\ o.generation \in Generation /\ o.emitter \in Peer /\ o.proposer \in Peer
          /\ o = Offer(o.generation, o.emitter, o.proposer)
    /\ \A g \in Generation, e, p \in Peer :
          Offer(g, e, p) \in FlowOffer
<1>1. Generation \subseteq Nat /\ Peer \subseteq Nat
    BY PeerTyped DEF Generation
<1>2. ASSUME NEW o \in FlowOffer
      PROVE  /\ o.generation \in Generation /\ o.emitter \in Peer /\ o.proposer \in Peer
             /\ o = Offer(o.generation, o.emitter, o.proposer)
    BY DEF FlowOffer, Offer
<1>3. \A g \in Generation, e, p \in Peer : Offer(g, e, p) \in FlowOffer
    BY DEF FlowOffer, Offer
<1> QED  BY <1>1, <1>2, <1>3

LEMMA OfferFields ==
  ASSUME NEW g, NEW e, NEW p
  PROVE  Offer(g, e, p).generation = g /\ Offer(g, e, p).emitter = e /\ Offer(g, e, p).proposer = p
BY DEF Offer

LEMMA Total ==
  ASSUME NEW x \in FlowOffer, NEW y \in FlowOffer
  PROVE  Below(x, y) \/ AtMost(y, x)
  <1>1. CASE /\ x.generation = y.generation /\ x.emitter = y.emitter
             /\ x.proposer = y.proposer
    BY <1>1, OfferTyped DEF AtMost
  <1>2. CASE ~(/\ x.generation = y.generation /\ x.emitter = y.emitter
               /\ x.proposer = y.proposer)
    <2>1. /\ x.generation \in Nat /\ x.emitter \in Nat /\ x.proposer \in Nat
          /\ y.generation \in Nat /\ y.emitter \in Nat /\ y.proposer \in Nat
      BY OfferTyped
    <2> QED  BY <1>2, <2>1 DEF AtMost, Below
  <1> QED  BY <1>1, <1>2

LEMMA Strict ==
  ASSUME NEW x \in FlowOffer, NEW y \in FlowOffer, Below(x, y)
  PROVE  x # y /\ ~AtMost(y, x)
BY OfferTyped DEF AtMost, Below

LEMMA Transitive ==
  ASSUME NEW x \in FlowOffer, NEW y \in FlowOffer, NEW z \in FlowOffer,
         AtMost(x, y), AtMost(y, z)
  PROVE  AtMost(x, z)
BY OfferTyped DEF AtMost, Below

LEMMA Antisymmetric ==
  ASSUME NEW x \in FlowOffer, NEW y \in FlowOffer, AtMost(x, y), AtMost(y, x)
  PROVE  x = y
BY Strict DEF AtMost

\* resolve_flow_offers is the maximum.
LEMMA ResolveIsMax ==
  ASSUME NEW x \in FlowOffer, NEW y \in FlowOffer
  PROVE  /\ resolve_flow_offers(x, y) \in {x, y}
         /\ AtMost(x, resolve_flow_offers(x, y))
         /\ AtMost(y, resolve_flow_offers(x, y))
BY Total DEF resolve_flow_offers, AtMost

\* A choice that was made is not above the last one of the same side.
LEMMA MadeBelow ==
  ASSUME TypeInv, NEW x \in FlowOffer, Made(local, x)
  PROVE  AtMost(x, local[x.proposer])
BY OfferTyped DEF Made, AtMost, Below, TypeInv

LEMMA NoneIsNoOffer == None \notin FlowOffer
<1>1. \A o \in FlowOffer : "emitter" \in DOMAIN o
    BY DEF FlowOffer
<1>2. "emitter" \notin DOMAIN None
    BY DEF None
<1> QED  BY <1>1, <1>2

--------------------------------------------------------------------------------
(* What is in flight.                                                      *)

LEMMA FrameTyped ==
    /\ \A m \in Frame : m.type \in {"offer", "ack"}
    /\ \A m \in Frame : m.type = "offer" => m.offer \in FlowOffer
    /\ \A m \in Frame : m.type = "ack" => m.generation \in Generation /\ m.emitter \in Peer
    /\ \A o \in FlowOffer : OfferMessage(o) \in Frame
    /\ \A g \in Generation, e \in Peer : AckMessage(g, e) \in Frame
BY DEF Frame, OfferMessage, AckMessage

LEMMA TailMembers ==
  ASSUME NEW s \in Seq(Frame), s # <<>>
  PROVE  /\ Tail(s) \in Seq(Frame)
         /\ Members(Tail(s)) \subseteq Members(s)
         /\ Head(s) \in Members(s) /\ Head(s) \in Frame
  <1>1. /\ Len(s) \in Nat /\ Len(s) > 0 /\ Len(Tail(s)) = Len(s) - 1
        /\ Tail(s) \in Seq(Frame) /\ Head(s) = s[1] /\ s[1] \in Frame
    OBVIOUS
  <1>2. \A i \in 1..Len(Tail(s)) : Tail(s)[i] = s[i + 1] /\ i + 1 \in 1..Len(s)
    BY <1>1
  <1> QED  BY <1>1, <1>2 DEF Members

LEMMA AppendMembers ==
  ASSUME NEW s \in Seq(Frame), NEW m \in Frame
  PROVE  /\ Append(s, m) \in Seq(Frame)
         /\ Members(Append(s, m)) \subseteq Members(s) \cup {m}
  <1>1. /\ Len(s) \in Nat /\ Len(Append(s, m)) = Len(s) + 1 /\ Append(s, m) \in Seq(Frame)
        /\ \A i \in 1..(Len(s) + 1) : Append(s, m)[i] = IF i <= Len(s) THEN s[i] ELSE m
    OBVIOUS
  <1> QED  BY <1>1 DEF Members

LEMMA MembersTyped ==
  ASSUME NEW s \in Seq(Frame)
  PROVE  Members(s) \subseteq Frame
BY DEF Members

LEMMA PutMembers ==
  ASSUME NEW w \in [Peer -> Seq(Frame)], NEW p \in Peer, NEW m \in Frame
  PROVE  /\ Put(w, p, m) \in [Peer -> Seq(Frame)]
         /\ Put(w, p, m)[p] = w[p]
         /\ Members(Put(w, p, m)[PeerOf(p)]) \subseteq Members(w[PeerOf(p)]) \cup {m}
  <1>1. PeerOf(p) \in Peer /\ PeerOf(p) # p
    BY PeerTyped
  <1>2. CASE link
    <2>1. Put(w, p, m) = [w EXCEPT ![PeerOf(p)] = Append(w[PeerOf(p)], m)]
      BY <1>2 DEF Put
    <2>2. Put(w, p, m)[PeerOf(p)] = Append(w[PeerOf(p)], m) /\ Put(w, p, m)[p] = w[p]
      BY <1>1, <2>1
    <2> QED  BY <1>1, <2>1, <2>2, AppendMembers
  <1>3. CASE ~link
    BY <1>3, <1>1 DEF Put
  <1> QED  BY <1>2, <1>3

--------------------------------------------------------------------------------
(* The steps, as far as the invariant tells them apart.                    *)

\* Nothing is chosen, resolved or sent; frames may be read or lost.
Quiet ==
    /\ UNCHANGED <<local, resolved, pending>>
    /\ \A p \in Peer : InFlight(p)' \subseteq InFlight(p)

\* The pending choice of p is put on the wire.
Writes(p) ==
    /\ UNCHANGED <<local, resolved, pending>>
    /\ pending[p] # None
    /\ InFlight(p)' \subseteq InFlight(p)
    /\ InFlight(PeerOf(p))' \subseteq InFlight(PeerOf(p)) \cup {OfferMessage(pending[p])}

\* p queues a new choice, or its last one again.
Queues(p) ==
    /\ UNCHANGED <<resolved, wire>>
    /\ \A q \in Peer \ {p} : local'[q] = local[q] /\ pending'[q] = pending[q]
    /\ pending'[p] = local'[p]
    /\ \/ local'[p] = local[p] /\ pending[p] = None
       \/ local'[p].proposer = p /\ local[p].generation < local'[p].generation

\* p resolves a frame m it has read to y: the other side may be told.
Resolves(p, m, y) ==
    /\ local' = local
    /\ m \in InFlight(p)
    /\ resolved'[p] = y /\ AtMost(resolved[p], y)
    /\ \A q \in Peer \ {p} : resolved'[q] = resolved[q] /\ pending'[q] = pending[q]
    /\ InFlight(p)' \subseteq InFlight(p)

TakesOffer(p, m, y) ==
    /\ Resolves(p, m, y)
    /\ m.type = "offer"
    /\ y \in {resolved[p], local[p], m.offer}
    /\ AtMost(local[p], y) /\ AtMost(m.offer, y)
    /\ pending'[p] = IF y = local[p] THEN pending[p] ELSE None
    /\ InFlight(PeerOf(p))' \subseteq InFlight(PeerOf(p)) \cup {AckMessage(y.generation, y.emitter)}

\* z is the choice that an acknowledgement m is taken for.
TakesAck(p, m, y, z) ==
    /\ Resolves(p, m, y)
    /\ m.type = "ack" /\ m.generation = z.generation /\ m.emitter = z.emitter
    /\ y \in {resolved[p], z} /\ AtMost(z, y)
    /\ pending[p] # None /\ pending'[p] = None
    /\ \/ z = pending[p]
       \/ /\ z.proposer = PeerOf(p) /\ AtMost(pending[p], z)
          /\ ~AckOfPending(p, m)
    /\ InFlight(PeerOf(p))' \subseteq InFlight(PeerOf(p))

\* One of these happens in every step.
Moves ==
    \/ Quiet
    \/ \E p \in Peer :
        \/ Writes(p) \/ Queues(p)
        \/ \E m \in Frame, y \in FlowOffer : TakesOffer(p, m, y)
        \/ \E m \in Frame, y, z \in FlowOffer : TakesAck(p, m, y, z)

\* A frame is taken off the wire of p.
LEMMA ReadsFrame ==
  ASSUME TypeInv, NEW p \in Peer, wire[p] # <<>>
  PROVE  /\ Head(wire[p]) \in InFlight(p) /\ Head(wire[p]) \in Frame
         /\ [wire EXCEPT ![p] = Tail(@)] \in [Peer -> Seq(Frame)]
         /\ Members([wire EXCEPT ![p] = Tail(@)][p]) \subseteq InFlight(p)
         /\ [wire EXCEPT ![p] = Tail(@)][PeerOf(p)] = wire[PeerOf(p)]
  <1>1. wire[p] \in Seq(Frame) /\ PeerOf(p) \in Peer /\ PeerOf(p) # p
    BY PeerTyped DEF TypeInv
  <1>2. Tail(wire[p]) \in Seq(Frame) /\ Members(Tail(wire[p])) \subseteq Members(wire[p])
        /\ Head(wire[p]) \in Members(wire[p]) /\ Head(wire[p]) \in Frame
    BY <1>1, TailMembers
  <1> QED  BY <1>1, <1>2 DEF TypeInv, InFlight

LEMMA WinnerTyped ==
  ASSUME TypeInv, NEW p \in Peer, NEW o \in FlowOffer
  PROVE  /\ Winner(p, o) \in FlowOffer
         /\ Winner(p, o) \in {resolved[p], local[p], o}
         /\ AtMost(resolved[p], Winner(p, o))
         /\ AtMost(local[p], Winner(p, o)) /\ AtMost(o, Winner(p, o))
  <1> DEFINE y == resolve_flow_offers(local[p], o)
  <1>1. resolved[p] \in FlowOffer /\ local[p] \in FlowOffer
    BY DEF TypeInv
  <1>2. y \in {local[p], o} /\ AtMost(local[p], y) /\ AtMost(o, y)
    BY <1>1, ResolveIsMax
  <1>3. y \in FlowOffer
    BY <1>1, <1>2
  <1> HIDE DEF y
  <1>4. /\ resolve_flow_offers(resolved[p], y) \in {resolved[p], y}
        /\ AtMost(resolved[p], resolve_flow_offers(resolved[p], y))
        /\ AtMost(y, resolve_flow_offers(resolved[p], y))
    BY <1>1, <1>3, ResolveIsMax
  <1>5. Winner(p, o) = resolve_flow_offers(resolved[p], y)
    BY DEF Winner, y
  <1> QED  BY <1>1, <1>2, <1>3, <1>4, <1>5, Transitive

LEMMA OfferTaken ==
  ASSUME TypeInv, NEW p \in Peer, Reads(p, "offer"), receive_offer(p, Head(wire[p]).offer)
  PROVE  LET m == Head(wire[p])
             y == Winner(p, m.offer)
         IN  /\ m \in InFlight(p) /\ m \in Frame /\ m.type = "offer" /\ m.offer \in FlowOffer
             /\ y \in FlowOffer /\ y \in {resolved[p], local[p], m.offer}
             /\ AtMost(resolved[p], y) /\ AtMost(local[p], y) /\ AtMost(m.offer, y)
             /\ resolved' = [resolved EXCEPT ![p] = y]
             /\ pending' = [pending EXCEPT ![p] = IF y = local[p] THEN @ ELSE None]
             /\ remote' \in [Peer -> FlowOffer \cup {None}]
             /\ sent' \in [Peer -> BOOLEAN]
  <1> DEFINE m == Head(wire[p])
             y == Winner(p, m.offer)
  <1>1. m \in InFlight(p) /\ m \in Frame /\ m.type = "offer"
    BY ReadsFrame DEF Reads
  <1>2. m.offer \in FlowOffer
    BY <1>1, FrameTyped
  <1>3. /\ y \in FlowOffer /\ y \in {resolved[p], local[p], m.offer}
        /\ AtMost(resolved[p], y) /\ AtMost(local[p], y) /\ AtMost(m.offer, y)
    BY <1>2, WinnerTyped
  <1>4. /\ resolved' = [resolved EXCEPT ![p] = y]
        /\ pending' = [pending EXCEPT ![p] = IF y = local[p] THEN @ ELSE None]
    BY DEF receive_offer
  <1>5. remote' \in [Peer -> FlowOffer \cup {None}]
    <2>1. ASSUME NEW x \in FlowOffer PROVE resolve_flow_offers(x, m.offer) \in FlowOffer
      BY <1>2, <2>1, ResolveIsMax
    <2> QED  BY <1>2, <2>1 DEF receive_offer, TypeInv
  <1>6. sent' \in [Peer -> BOOLEAN]
    BY DEF receive_offer, TypeInv
  <1> QED  BY <1>1, <1>2, <1>3, <1>4, <1>5, <1>6

\* What receive_ack makes of an acknowledgement.
AckOf(p, m, z) ==
    /\ z \in FlowOffer
    /\ pending[p] # None
    /\ m.generation = z.generation /\ m.emitter = z.emitter
    /\ \/ z = pending[p]
       \/ /\ z.proposer = PeerOf(p) /\ AtMost(pending[p], z)
          /\ ~AckOfPending(p, m)
    /\ Adopt(p, z)

LEMMA AckTaken ==
  ASSUME TypeInv, NEW p \in Peer, Reads(p, "ack"), receive_ack(p, Head(wire[p]))
  PROVE  /\ Head(wire[p]) \in InFlight(p) /\ Head(wire[p]) \in Frame
         /\ Head(wire[p]).type = "ack"
         /\ \E z \in FlowOffer : AckOf(p, Head(wire[p]), z)
  <1> DEFINE m == Head(wire[p])
             o == Offer(m.generation, m.emitter, PeerOf(p))
  <1>1. m \in InFlight(p) /\ m \in Frame /\ m.type = "ack"
    BY ReadsFrame DEF Reads
  <1>2. m.generation \in Generation /\ m.emitter \in Peer
    BY <1>1, FrameTyped
  <1>3. pending[p] \in FlowOffer /\ pending[p] # None
    BY DEF receive_ack, TypeInv
  <1>4. CASE AckOfPending(p, m) /\ Adopt(p, pending[p])
    BY <1>1, <1>3, <1>4 DEF AckOf, AckOfPending
  <1>5. CASE AckOfPeer(p, m) /\ Adopt(p, o)
    <2>1. o \in FlowOffer
      BY <1>2, OfferTyped, PeerTyped
    <2>2. o.generation = m.generation /\ o.emitter = m.emitter /\ o.proposer = PeerOf(p)
      BY OfferFields
    <2>3. AtMost(pending[p], o) /\ ~AckOfPending(p, m)
      BY <1>3, <1>5, <2>1, ResolveIsMax DEF AckOfPeer
    <2> HIDE DEF o
    <2>4. AckOf(p, m, o)
      BY <1>3, <1>5, <2>1, <2>2, <2>3 DEF AckOf
    <2> QED  BY <1>1, <2>1, <2>4
  <1> QED  BY <1>4, <1>5 DEF receive_ack

LEMMA QuietFrames ==
  ASSUME TypeInv, wire' \in [Peer -> Seq(Frame)], UNCHANGED <<local, resolved, pending>>,
         \/ UNCHANGED wire
         \/ \E p \in Peer : wire[p] # <<>> /\ wire' = [wire EXCEPT ![p] = Tail(@)]
         \/ wire' = [p \in Peer |-> <<>>]
  PROVE  Quiet
  <1>1. CASE UNCHANGED wire
    BY <1>1 DEF Quiet, InFlight
  <1>2. ASSUME NEW p \in Peer, wire[p] # <<>>, wire' = [wire EXCEPT ![p] = Tail(@)]
        PROVE  Quiet
    <2>1. Members(wire'[p]) \subseteq Members(wire[p])
      BY <1>2, ReadsFrame DEF InFlight
    <2>2. \A q \in Peer \ {p} : wire'[q] = wire[q]
      BY <1>2 DEF TypeInv
    <2> QED  BY <2>1, <2>2 DEF Quiet, InFlight
  <1>3. CASE wire' = [p \in Peer |-> <<>>]
    <2>1. \A p \in Peer : Members(wire'[p]) = {}
      BY <1>3 DEF Members
    <2> QED  BY <2>1 DEF Quiet, InFlight
  <1> QED  BY <1>1, <1>2, <1>3

LEMMA ReceiveOfferStep ==
  ASSUME TypeInv, NEW p \in Peer, ReceiveOffer(p)
  PROVE  TypeInv' /\ \E m \in Frame, y \in FlowOffer : TakesOffer(p, m, y)
  <1> DEFINE m == Head(wire[p])
             y == Winner(p, m.offer)
             w == [wire EXCEPT ![p] = Tail(@)]
             a == AckMessage(y.generation, y.emitter)
  <1>1. Reads(p, "offer") /\ receive_offer(p, m.offer) /\ wire[p] # <<>>
    BY DEF ReceiveOffer, Reads
  <1>2. /\ m \in InFlight(p) /\ m \in Frame /\ m.type = "offer" /\ m.offer \in FlowOffer
        /\ y \in FlowOffer /\ y \in {resolved[p], local[p], m.offer}
        /\ AtMost(resolved[p], y) /\ AtMost(local[p], y) /\ AtMost(m.offer, y)
        /\ resolved' = [resolved EXCEPT ![p] = y]
        /\ pending' = [pending EXCEPT ![p] = IF y = local[p] THEN @ ELSE None]
        /\ remote' \in [Peer -> FlowOffer \cup {None}]
        /\ sent' \in [Peer -> BOOLEAN]
    BY <1>1, OfferTaken
  <1>3. /\ w \in [Peer -> Seq(Frame)] /\ Members(w[p]) \subseteq InFlight(p)
        /\ w[PeerOf(p)] = wire[PeerOf(p)]
    BY <1>1, ReadsFrame
  <1>4. resolved'[p] = y /\ a \in Frame /\ y.emitter \in Peer
    <2>1. resolved'[p] = y
      BY <1>2 DEF TypeInv
    <2>2. y.generation \in Generation /\ y.emitter \in Peer
      BY <1>2, OfferTyped
    <2>3. \A g \in Generation, e \in Peer : AckMessage(g, e) \in Frame
      BY FrameTyped
    <2> HIDE DEF y, m
    <2> QED  BY <2>1, <2>2, <2>3
  <1>5. wire' = Put(w, p, a)
    BY <1>4 DEF ReceiveOffer
  <1> HIDE DEF w, a, m
  <1>6. /\ wire' \in [Peer -> Seq(Frame)] /\ wire'[p] = w[p]
        /\ Members(wire'[PeerOf(p)]) \subseteq Members(w[PeerOf(p)]) \cup {a}
    <2>1. /\ Put(w, p, a) \in [Peer -> Seq(Frame)]
          /\ Put(w, p, a)[p] = w[p]
          /\ Members(Put(w, p, a)[PeerOf(p)]) \subseteq Members(w[PeerOf(p)]) \cup {a}
      BY <1>3, <1>4, PutMembers
    <2> QED  BY <1>5, <2>1
  <1>7. local' = local /\ writing' = writing /\ role' \in [Peer -> Peer]
    BY <1>4 DEF ReceiveOffer, TypeInv
  <1>8. resolved' \in [Peer -> FlowOffer] /\ pending' \in [Peer -> FlowOffer \cup {None}]
    BY <1>2 DEF TypeInv
  <1>9. TypeInv'
    BY <1>2, <1>6, <1>7, <1>8 DEF TypeInv
  <1>10. /\ InFlight(p)' \subseteq InFlight(p)
         /\ InFlight(PeerOf(p))' \subseteq InFlight(PeerOf(p)) \cup {a}
    BY <1>3, <1>6 DEF InFlight
  <1>11. TakesOffer(p, m, y)
    BY <1>2, <1>4, <1>7, <1>10 DEF TakesOffer, Resolves, TypeInv, a
  <1> QED  BY <1>2, <1>9, <1>11

LEMMA AckWriteFailsStep ==
  ASSUME TypeInv, NEW p \in Peer, AckWriteFails(p)
  PROVE  TypeInv' /\ \E m \in Frame, y \in FlowOffer : TakesOffer(p, m, y)
  <1> DEFINE m == Head(wire[p])
             y == Winner(p, m.offer)
  <1>1. Reads(p, "offer") /\ receive_offer(p, m.offer) /\ wire[p] # <<>>
    BY DEF AckWriteFails, Reads
  <1>2. /\ m \in InFlight(p) /\ m \in Frame /\ m.type = "offer" /\ m.offer \in FlowOffer
        /\ y \in FlowOffer /\ y \in {resolved[p], local[p], m.offer}
        /\ AtMost(resolved[p], y) /\ AtMost(local[p], y) /\ AtMost(m.offer, y)
        /\ resolved' = [resolved EXCEPT ![p] = y]
        /\ pending' = [pending EXCEPT ![p] = IF y = local[p] THEN @ ELSE None]
        /\ remote' \in [Peer -> FlowOffer \cup {None}]
        /\ sent' \in [Peer -> BOOLEAN]
    BY <1>1, OfferTaken
  <1>3. /\ wire' \in [Peer -> Seq(Frame)] /\ Members(wire'[p]) \subseteq InFlight(p)
        /\ wire'[PeerOf(p)] = wire[PeerOf(p)]
    BY <1>1, ReadsFrame DEF AckWriteFails
  <1> HIDE DEF m
  <1>4. UNCHANGED <<local, writing, role>>
    BY DEF AckWriteFails
  <1>5. resolved' \in [Peer -> FlowOffer] /\ pending' \in [Peer -> FlowOffer \cup {None}]
    BY <1>2 DEF TypeInv
  <1>6. TypeInv'
    BY <1>2, <1>3, <1>4, <1>5 DEF TypeInv
  <1>7. /\ InFlight(p)' \subseteq InFlight(p)
        /\ InFlight(PeerOf(p))' \subseteq InFlight(PeerOf(p))
    BY <1>3 DEF InFlight
  <1>8. TakesOffer(p, m, y)
    BY <1>2, <1>4, <1>7 DEF TakesOffer, Resolves, TypeInv
  <1> QED  BY <1>2, <1>6, <1>8

LEMMA ReceiveAckStep ==
  ASSUME TypeInv, NEW p \in Peer, ReceiveAck(p)
  PROVE  TypeInv' /\ \E m \in Frame, y, z \in FlowOffer : TakesAck(p, m, y, z)
  <1> DEFINE m == Head(wire[p])
  <1>1. Reads(p, "ack") /\ receive_ack(p, m) /\ wire[p] # <<>>
    BY DEF ReceiveAck, Reads
  <1>2. m \in InFlight(p) /\ m \in Frame /\ m.type = "ack" /\ \E z \in FlowOffer : AckOf(p, m, z)
    BY <1>1, AckTaken
  <1>3. PICK z \in FlowOffer : AckOf(p, m, z)
    BY <1>2
  <1>4. /\ wire' \in [Peer -> Seq(Frame)] /\ Members(wire'[p]) \subseteq InFlight(p)
        /\ wire'[PeerOf(p)] = wire[PeerOf(p)]
    BY <1>1, ReadsFrame DEF ReceiveAck
  <1> DEFINE y == resolve_flow_offers(resolved[p], z)
  <1> HIDE DEF m
  <1>5. y \in {resolved[p], z} /\ AtMost(resolved[p], y) /\ AtMost(z, y) /\ y \in FlowOffer
    BY ResolveIsMax DEF TypeInv
  <1>6. /\ resolved' = [resolved EXCEPT ![p] = y]
        /\ pending' = [pending EXCEPT ![p] = None]
        /\ sent' = [sent EXCEPT ![p] = FALSE]
        /\ role' = [role EXCEPT ![p] = resolved'[p].emitter]
    BY <1>3 DEF AckOf, Adopt
  <1> HIDE DEF y
  <1>7. UNCHANGED <<local, remote, writing>>
    BY DEF ReceiveAck
  <1>8. resolved'[p] = y /\ y.emitter \in Peer
    BY <1>5, <1>6, OfferTyped DEF TypeInv
  <1>9. TypeInv'
    BY <1>4, <1>5, <1>6, <1>7, <1>8 DEF TypeInv
  <1>10. /\ InFlight(p)' \subseteq InFlight(p)
         /\ InFlight(PeerOf(p))' \subseteq InFlight(PeerOf(p))
    BY <1>4 DEF InFlight
  <1>11. Resolves(p, m, y)
    BY <1>2, <1>5, <1>6, <1>7, <1>8, <1>10 DEF Resolves, TypeInv
  <1>12. TakesAck(p, m, y, z)
    BY <1>2, <1>3, <1>5, <1>6, <1>10, <1>11 DEF TakesAck, AckOf, TypeInv
  <1> QED  BY <1>2, <1>5, <1>9, <1>12

LEMMA ChooseStep ==
  ASSUME TypeInv, OwnInv, NEW p \in Peer, Choose(p)
  PROVE  TypeInv' /\ Queues(p)
  <1>1. CASE QueueAgain(p)
    <2>1. UNCHANGED <<local, resolved, remote, role, writing, wire>>
      BY <1>1 DEF QueueAgain
    <2>2. pending[p] = None /\ pending' = [pending EXCEPT ![p] = local[p]] /\ sent' \in [Peer -> BOOLEAN]
      BY <1>1 DEF QueueAgain, Queued, TypeInv
    <2>3. TypeInv'
      BY <2>1, <2>2 DEF TypeInv
    <2> QED  BY <2>1, <2>2, <2>3 DEF Queues, TypeInv
  <1>2. ASSUME NEW g \in Generation, NEW e \in Peer, QueueNew(p, g, e)
        PROVE  TypeInv' /\ Queues(p)
    <2> DEFINE o == Offer(g, e, p)
    <2>1. o \in FlowOffer /\ o.proposer = p /\ o.generation = g
      BY OfferTyped, OfferFields
    <2> HIDE DEF o
    <2>2. UNCHANGED <<resolved, remote, role, writing, wire>>
      BY <1>2 DEF QueueNew
    <2>3. /\ local[p].generation < o.generation
          /\ local' = [local EXCEPT ![p] = o] /\ pending' = [pending EXCEPT ![p] = o]
          /\ sent' = [sent EXCEPT ![p] = FALSE]
      <3>1. local[p].generation \in Nat /\ g \in Nat
        BY OfferTyped DEF TypeInv, Generation
      <3> QED  BY <1>2, <2>1, <3>1 DEF QueueNew, Queued, o
    <2>4. TypeInv'
      BY <2>1, <2>2, <2>3 DEF TypeInv
    <2> QED  BY <2>1, <2>2, <2>3, <2>4 DEF Queues, TypeInv
  <1> QED  BY <1>1, <1>2 DEF Choose

LEMMA WriteOfferStep ==
  ASSUME TypeInv, NEW p \in Peer, WriteOffer(p)
  PROVE  TypeInv' /\ Writes(p)
  <1> DEFINE a == OfferMessage(pending[p])
  <1>1. /\ pending[p] # None /\ pending[p] \in FlowOffer /\ wire' = Put(wire, p, a)
        /\ writing' = [writing EXCEPT ![p] = pending[p]]
        /\ UNCHANGED <<local, resolved, remote, pending, sent, role>>
    BY DEF WriteOffer, negotiation, TypeInv
  <1>2. a \in Frame
    BY <1>1, FrameTyped
  <1> HIDE DEF a
  <1>3. /\ Put(wire, p, a) \in [Peer -> Seq(Frame)] /\ Put(wire, p, a)[p] = wire[p]
        /\ Members(Put(wire, p, a)[PeerOf(p)]) \subseteq Members(wire[PeerOf(p)]) \cup {a}
    BY <1>2, PutMembers DEF TypeInv
  <1>4. TypeInv'
    BY <1>1, <1>3 DEF TypeInv
  <1>5. /\ InFlight(p)' \subseteq InFlight(p)
        /\ InFlight(PeerOf(p))' \subseteq InFlight(PeerOf(p)) \cup {a}
    BY <1>1, <1>3 DEF InFlight
  <1> QED  BY <1>1, <1>4, <1>5 DEF Writes, a

LEMMA QuietStep ==
  ASSUME TypeInv,
         \/ UNCHANGED vars
         \/ LinkBreaks \/ ResumeLink \/ EnrollmentEnds
         \/ \E p \in Peer : MarkSent(p) \/ IgnoreAck(p) \/ NoticeDrop(p)
  PROVE  TypeInv' /\ Quiet
  <1>1. UNCHANGED <<local, resolved, remote, pending, role>>
    BY DEF vars, negotiation, LinkBreaks, ResumeLink, EnrollmentEnds, MarkSent, IgnoreAck, NoticeDrop
  <1>2. sent' \in [Peer -> BOOLEAN]
    <2>1. CASE ResumeLink \/ EnrollmentEnds
      <3>1. \A q \in Peer : ResetSend(q) \in BOOLEAN
        BY DEF ResetSend, TypeInv
      <3> QED  BY <2>1, <3>1 DEF ResumeLink, EnrollmentEnds, TypeInv
    <2>2. ASSUME NEW p \in Peer, MarkSent(p) PROVE sent' \in [Peer -> BOOLEAN]
      <3>1. (sent[p] \/ pending[p] = writing[p]) \in BOOLEAN
        OBVIOUS
      <3> QED  BY <2>2, <3>1 DEF MarkSent, TypeInv
    <2> QED
      BY <2>1, <2>2 DEF vars, negotiation, LinkBreaks, IgnoreAck, NoticeDrop, TypeInv
  <1>3. writing' \in [Peer -> FlowOffer \cup {None}]
    BY DEF vars, LinkBreaks, ResumeLink, EnrollmentEnds, MarkSent, IgnoreAck, NoticeDrop, TypeInv
  <1>4. \/ UNCHANGED wire
        \/ \E p \in Peer : wire[p] # <<>> /\ wire' = [wire EXCEPT ![p] = Tail(@)]
        \/ wire' = [p \in Peer |-> <<>>]
    BY DEF vars, LinkBreaks, ResumeLink, EnrollmentEnds, MarkSent, IgnoreAck, NoticeDrop, Reads
  <1>5. wire' \in [Peer -> Seq(Frame)]
    <2>1. ASSUME NEW p \in Peer, wire[p] # <<>>
          PROVE  [wire EXCEPT ![p] = Tail(@)] \in [Peer -> Seq(Frame)]
      BY <2>1, ReadsFrame
    <2>2. [p \in Peer |-> <<>>] \in [Peer -> Seq(Frame)]
      OBVIOUS
    <2>3. CASE UNCHANGED wire
      BY <2>3 DEF TypeInv
    <2>4. CASE \E p \in Peer : wire[p] # <<>> /\ wire' = [wire EXCEPT ![p] = Tail(@)]
      BY <2>1, <2>4
    <2>5. CASE wire' = [p \in Peer |-> <<>>]
      BY <2>2, <2>5
    <2> QED  BY <1>4, <2>3, <2>4, <2>5
  <1>6. TypeInv'
    BY <1>1, <1>2, <1>3, <1>5 DEF TypeInv
  <1> QED  BY <1>1, <1>4, <1>5, <1>6, QuietFrames

LEMMA StepMoves ==
  ASSUME TypeInv, OwnInv, [Next]_vars
  PROVE  TypeInv' /\ Moves
  <1>1. CASE \/ UNCHANGED vars
             \/ LinkBreaks \/ ResumeLink \/ EnrollmentEnds
             \/ \E p \in Peer : MarkSent(p) \/ IgnoreAck(p) \/ NoticeDrop(p)
    BY <1>1, QuietStep DEF Moves
  <1>2. ASSUME NEW p \in Peer, WriteOffer(p) \/ Choose(p)
        PROVE  TypeInv' /\ Moves
    BY <1>2, WriteOfferStep, ChooseStep DEF Moves
  <1>3. ASSUME NEW p \in Peer, ReceiveOffer(p) \/ AckWriteFails(p)
        PROVE  TypeInv' /\ Moves
    <2>1. TypeInv' /\ \E m \in Frame, y \in FlowOffer : TakesOffer(p, m, y)
      BY <1>3, ReceiveOfferStep, AckWriteFailsStep
    <2> QED  BY <2>1 DEF Moves
  <1>4. ASSUME NEW p \in Peer, ReceiveAck(p)
        PROVE  TypeInv' /\ Moves
    <2>1. TypeInv' /\ \E m \in Frame, y, z \in FlowOffer : TakesAck(p, m, y, z)
      BY <1>4, ReceiveAckStep
    <2> QED  BY <2>1 DEF Moves
  <1> QED  BY <1>1, <1>2, <1>3, <1>4 DEF Next, ControlStep, LinkStep

\* A step never lowers a winner.
LEMMA WinnersGrow ==
  ASSUME TypeInv, TypeInv', Moves, NEW p \in Peer
  PROVE  AtMost(resolved[p], resolved'[p])
BY DEF Moves, Quiet, Writes, Queues, TakesOffer, TakesAck, Resolves, AtMost

LEMMA LocalGrows ==
  ASSUME Moves, NEW p \in Peer
  PROVE  local'[p] = local[p] \/ local[p].generation < local'[p].generation
BY DEF Moves, Quiet, Writes, Queues, TakesOffer, TakesAck, Resolves

LEMMA MadeKept ==
  ASSUME TypeInv, TypeInv', Moves, NEW x \in FlowOffer, Made(local, x)
  PROVE  Made(local', x)
  <1>1. x.proposer \in Peer /\ x.generation \in Nat
    BY OfferTyped
  <1>2. local[x.proposer].generation \in Nat /\ local'[x.proposer].generation \in Nat
    BY <1>1, OfferTyped DEF TypeInv
  <1> QED  BY <1>1, <1>2, LocalGrows DEF Made

\* Two offers with the same fields are the same offer.
LEMMA SameOffer ==
  ASSUME NEW x \in FlowOffer, NEW y \in FlowOffer,
         x.generation = y.generation, x.emitter = y.emitter, x.proposer = y.proposer
  PROVE  x = y
BY OfferTyped

\* An acknowledgement that p takes for a choice of its peer stands for one:
\* AckOfPeer turns away the acknowledgement of an older choice of p.
LEMMA AckStands ==
  ASSUME TypeInv, OwnInv, NEW p \in Peer, NEW m \in Frame, NEW y \in FlowOffer, NEW z \in FlowOffer,
         TakesAck(p, m, y, z), z # pending[p],
         NEW x \in FlowOffer, Vouched(local, resolved[PeerOf(p)], m, x)
  PROVE  x = z
  <1>1. /\ m.generation = z.generation /\ m.emitter = z.emitter /\ pending[p] # None
        /\ z.proposer = PeerOf(p) /\ AtMost(pending[p], z) /\ ~AckOfPending(p, m)
    BY DEF TakesAck
  <1>2. x.generation = z.generation /\ x.emitter = z.emitter /\ Made(local, x)
    BY <1>1 DEF Vouched
  <1>3. pending[p] = local[p] /\ local[p] \in FlowOffer /\ local[p].proposer = p
    BY <1>1 DEF OwnInv, TypeInv
  <1>4. local[p].generation <= z.generation
    BY <1>1, <1>3, OfferTyped DEF AtMost, Below
  <1>5. x.proposer # p
    <2>1. ASSUME x.proposer = p PROVE FALSE
      <3>1. x = local[p] \/ x.generation < local[p].generation
        BY <1>2, <2>1 DEF Made
      <3>2. x # local[p]
        BY <1>1, <1>2, <1>3 DEF AckOfPending
      <3>3. x.generation \in Nat /\ local[p].generation \in Nat
        BY <1>3, OfferTyped
      <3> QED  BY <1>2, <1>4, <3>1, <3>2, <3>3
    <2> QED  BY <2>1
  <1>6. x.proposer = z.proposer
    BY <1>1, <1>5, PeerTyped, OfferTyped
  <1> QED  BY <1>2, <1>6, SameOffer

LEMMA AckVouched ==
  ASSUME FrameInv, NEW p \in Peer, NEW m \in Frame, NEW y \in FlowOffer, NEW z \in FlowOffer,
         TakesAck(p, m, y, z)
  PROVE  \E x \in FlowOffer : Vouched(local, resolved[PeerOf(p)], m, x)
BY DEF FrameInv, FrameOk, TakesAck, Resolves

\* What a side adopts was chosen by one of the two.
LEMMA AdoptedIsMade ==
  ASSUME TypeInv, OwnInv, FrameInv, NEW p \in Peer, NEW m \in Frame, NEW y \in FlowOffer,
         NEW z \in FlowOffer, TakesAck(p, m, y, z)
  PROVE  /\ Made(local, z) /\ AtMost(local[p], z)
         /\ pending[p] = local[p] /\ local[p] \in FlowOffer
  <1>1. pending[p] = local[p] /\ local[p].proposer = p /\ local[p] \in FlowOffer
    BY DEF TakesAck, OwnInv, TypeInv
  <1>2. CASE z = pending[p]
    BY <1>1, <1>2 DEF Made, AtMost
  <1>3. CASE z # pending[p]
    <2>1. PICK x \in FlowOffer : Vouched(local, resolved[PeerOf(p)], m, x)
      BY AckVouched
    <2>2. x = z
      BY <1>3, <2>1, AckStands
    <2> QED  BY <1>1, <1>3, <2>1, <2>2 DEF Vouched, TakesAck
  <1> QED  BY <1>2, <1>3, <1>1

LEMMA OwnStep ==
  ASSUME TypeInv, TypeInv', OwnInv, FrameInv, Moves
  PROVE  OwnInv'
  <1>1. \A q \in Peer : Made(local', resolved[q])
    BY MadeKept DEF OwnInv, TypeInv
  <1>2. CASE Quiet \/ \E p \in Peer : Writes(p)
    <2>1. UNCHANGED <<local, resolved, pending>>
      BY <1>2 DEF Quiet, Writes
    <2> QED  BY <2>1 DEF OwnInv
  <1>3. ASSUME NEW p \in Peer, Queues(p) PROVE OwnInv'
    <2>1. pending'[p] # None
      BY <1>3, NoneIsNoOffer DEF Queues, TypeInv
    <2> QED  BY <1>1, <1>3, <2>1 DEF Queues, OwnInv
  <1>4. ASSUME NEW p \in Peer, NEW y \in FlowOffer, local' = local,
               Made(local, y), AtMost(local[p], y), resolved'[p] = y,
               pending'[p] \in {pending[p], None},
               \A q \in Peer \ {p} : resolved'[q] = resolved[q] /\ pending'[q] = pending[q]
        PROVE  OwnInv'
    BY <1>4 DEF OwnInv
  <1>5. ASSUME NEW p \in Peer, NEW m \in Frame, NEW y \in FlowOffer, TakesOffer(p, m, y)
        PROVE  OwnInv'
    <2>1. Made(local, y)
      BY <1>5 DEF TakesOffer, Resolves, OwnInv, FrameInv, FrameOk, Made
    <2>2. local' = local /\ AtMost(local[p], y) /\ resolved'[p] = y /\ pending'[p] \in {pending[p], None}
          /\ \A q \in Peer \ {p} : resolved'[q] = resolved[q] /\ pending'[q] = pending[q]
      BY <1>5 DEF TakesOffer, Resolves
    <2> QED  BY <1>4, <2>1, <2>2
  <1>6. ASSUME NEW p \in Peer, NEW m \in Frame, NEW y \in FlowOffer, NEW z \in FlowOffer,
               TakesAck(p, m, y, z)
        PROVE  OwnInv'
    <2>1. Made(local, z) /\ AtMost(local[p], z) /\ local[p] \in FlowOffer
      BY <1>6, AdoptedIsMade
    <2>2. local' = local /\ resolved'[p] = y /\ pending'[p] = None
          /\ y \in {resolved[p], z} /\ AtMost(z, y)
          /\ \A q \in Peer \ {p} : resolved'[q] = resolved[q] /\ pending'[q] = pending[q]
      BY <1>6 DEF TakesAck, Resolves
    <2>3. Made(local, y)
      BY <2>1, <2>2 DEF OwnInv
    <2>4. AtMost(local[p], y)
      BY <2>1, <2>2, Transitive
    <2> QED  BY <1>4, <2>2, <2>3, <2>4
  <1> QED  BY <1>2, <1>3, <1>5, <1>6 DEF Moves

\* The frames towards p after a step: old ones, and what its peer has written.
LEMMA NewFrames ==
  ASSUME Moves, NEW p \in Peer, NEW m \in InFlight(p)'
  PROVE  \/ m \in InFlight(p)
         \/ /\ Writes(PeerOf(p)) /\ m = OfferMessage(pending[PeerOf(p)])
         \/ /\ \E n \in Frame, y \in FlowOffer : TakesOffer(PeerOf(p), n, y)
            /\ m = AckMessage(resolved'[PeerOf(p)].generation, resolved'[PeerOf(p)].emitter)
  <1>1. PeerOf(p) \in Peer /\ PeerOf(PeerOf(p)) = p /\ \A r \in Peer : r = p \/ r = PeerOf(p)
    BY PeerTyped
  <1>2. CASE Quiet
    BY <1>2 DEF Quiet
  <1>3. ASSUME NEW r \in Peer, Writes(r)
        PROVE  m \in InFlight(p) \/ (r = PeerOf(p) /\ m = OfferMessage(pending[r]))
    BY <1>1, <1>3 DEF Writes
  <1>4. ASSUME NEW r \in Peer, Queues(r) PROVE m \in InFlight(p)
    BY <1>4 DEF Queues, InFlight
  <1>5. ASSUME NEW r \in Peer, NEW n \in Frame, NEW y \in FlowOffer, TakesOffer(r, n, y)
        PROVE  \/ m \in InFlight(p)
               \/ r = PeerOf(p) /\ m = AckMessage(resolved'[r].generation, resolved'[r].emitter)
    BY <1>1, <1>5 DEF TakesOffer, Resolves
  <1>6. ASSUME NEW r \in Peer, NEW n \in Frame, NEW y \in FlowOffer, NEW z \in FlowOffer,
               TakesAck(r, n, y, z)
        PROVE  m \in InFlight(p)
    BY <1>1, <1>6 DEF TakesAck, Resolves
  <1> QED  BY <1>2, <1>3, <1>4, <1>5, <1>6 DEF Moves

LEMMA VouchedKept ==
  ASSUME TypeInv, TypeInv', Moves, NEW q \in Peer, NEW m, NEW x \in FlowOffer,
         Vouched(local, resolved[q], m, x)
  PROVE  Vouched(local', resolved'[q], m, x)
  <1>1. Made(local', x)
    BY MadeKept DEF Vouched
  <1>2. resolved[q] \in FlowOffer /\ resolved'[q] \in FlowOffer
    BY DEF TypeInv
  <1>3. AtMost(x, resolved'[q])
    BY <1>2, WinnersGrow, Transitive DEF Vouched
  <1> QED  BY <1>1, <1>3 DEF Vouched

LEMMA FrameStep ==
  ASSUME TypeInv, TypeInv', OwnInv, OwnInv', FrameInv, Moves
  PROVE  FrameInv'
  <1> SUFFICES ASSUME NEW p \in Peer, NEW m \in InFlight(p)'
               PROVE  FrameOk(local', resolved'[PeerOf(p)], PeerOf(p), m)
    BY DEF FrameInv
  <1>1. PeerOf(p) \in Peer
    BY PeerTyped
  <1>2. CASE m \in InFlight(p)
    <2>1. FrameOk(local, resolved[PeerOf(p)], PeerOf(p), m) /\ m \in Frame
      BY <1>2, MembersTyped DEF FrameInv, InFlight, TypeInv
    <2>2. m.type = "offer" => m.offer.proposer = PeerOf(p) /\ Made(local', m.offer)
      BY <2>1, FrameTyped, MadeKept DEF FrameOk
    <2>3. m.type = "ack" => \E x \in FlowOffer : Vouched(local', resolved'[PeerOf(p)], m, x)
      BY <1>1, <2>1, VouchedKept DEF FrameOk
    <2> QED  BY <2>2, <2>3 DEF FrameOk
  <1>3. CASE Writes(PeerOf(p)) /\ m = OfferMessage(pending[PeerOf(p)])
    <2>1. m.type = "offer" /\ m.offer = local[PeerOf(p)] /\ local' = local
          /\ local[PeerOf(p)].proposer = PeerOf(p)
      BY <1>1, <1>3 DEF Writes, OfferMessage, OwnInv
    <2> QED  BY <2>1 DEF FrameOk, Made
  <1>4. CASE m = AckMessage(resolved'[PeerOf(p)].generation, resolved'[PeerOf(p)].emitter)
    <2> DEFINE x == resolved'[PeerOf(p)]
    <2>1. m.type = "ack" /\ m.generation = x.generation /\ m.emitter = x.emitter
      BY <1>4 DEF AckMessage
    <2>2. x \in FlowOffer /\ Made(local', x)
      BY <1>1 DEF OwnInv, TypeInv
    <2>3. Vouched(local', x, m, x)
      BY <2>1, <2>2 DEF Vouched, AtMost
    <2> QED  BY <2>1, <2>2, <2>3 DEF FrameOk
  <1> QED  BY <1>2, <1>3, <1>4, NewFrames

--------------------------------------------------------------------------------
(* What the sides know of each other.                                      *)

StepInv == TypeInv /\ TypeInv' /\ OwnInv /\ OwnInv' /\ FrameInv /\ Moves

\* The other side has resolved nothing: what was said of p still holds.
LEMMA StaysHarmless ==
  ASSUME StepInv, NEW p \in Peer, Harmless(p), local'[p] = local[p],
         resolved'[PeerOf(p)] = resolved[PeerOf(p)],
         Overtaken(p) => Overtaken(p)',
         \A m \in InFlight(PeerOf(p))' :
             m \in InFlight(PeerOf(p)) \/ AnsweredBy(local', resolved'[p], m, local[p])
  PROVE  Harmless(p)'
  <1>1. CASE Heard(p)
    BY <1>1 DEF Heard, Harmless
  <1>2. CASE Overtaken(p)
    BY <1>2 DEF Harmless
  <1>3. CASE Twin(p)
    BY <1>3 DEF Twin, Harmless
  <1>4. CASE Initial(p)
    <2>1. ASSUME NEW m \in InFlight(PeerOf(p))'
          PROVE  AnsweredBy(local', resolved'[p], m, local[p])
      <3>1. CASE m \in InFlight(PeerOf(p))
        <4>1. PICK x \in FlowOffer : Vouched(local, resolved[p], m, x) /\ AtMost(local[p], x)
          BY <1>4, <3>1 DEF Initial, AnsweredBy
        <4>2. Vouched(local', resolved'[p], m, x)
          BY <4>1, VouchedKept DEF StepInv
        <4> QED  BY <1>4, <3>1, <4>1, <4>2 DEF Initial, AnsweredBy
      <3> QED  BY <2>1, <3>1
    <2> QED  BY <1>4, <2>1 DEF Initial, Harmless
  <1> QED  BY <1>1, <1>2, <1>3, <1>4 DEF Harmless

\* The other side holds the same emitter in the same generation, and resolves
\* to y, its own last choice or one that was made by p.
LEMMA TwinResolves ==
  ASSUME TypeInv, OwnInv, NEW p \in Peer, Twin(p), NEW y \in FlowOffer,
         AtMost(resolved[PeerOf(p)], y), Made(local, y),
         y = resolved[PeerOf(p)] \/ y = local[PeerOf(p)] \/ y.proposer = p
  PROVE  AtMost(local[p], y) \/ y = resolved[PeerOf(p)]
  <1> DEFINE q == PeerOf(p)
             r == resolved[q]
  <1>1. q \in Peer /\ r \in FlowOffer /\ local[p] \in FlowOffer /\ local[q] \in FlowOffer
    BY PeerTyped DEF TypeInv
  <1>2. r.generation = local[p].generation /\ r.proposer = q /\ Made(local, r)
        /\ local[p].proposer = p /\ local[q].proposer = q
    BY <1>1, OfferFields DEF Twin, OwnInv
  <1>3. CASE Below(y, local[p])
    <2>1. y.generation = r.generation
      BY <1>1, <1>2, <1>3, OfferTyped DEF AtMost, Below
    <2>2. CASE y = local[q]
      <3>1. r = local[q]
        BY <1>1, <1>2, <2>1, <2>2, OfferTyped DEF Made
      <3> QED  BY <2>2, <3>1
    <2>3. CASE y.proposer = p
      <3>1. y = local[p]
        BY <1>1, <1>2, <2>1, <2>3, OfferTyped DEF Made
      <3> QED  BY <3>1 DEF AtMost
    <2> QED  BY <2>2, <2>3
  <1> QED  BY <1>1, <1>3, Total

\* The other side reads an offer of p.
LEMMA PeerTakesOffer ==
  ASSUME StepInv, NEW p \in Peer, pending[p] = None, Harmless(p),
         NEW m \in Frame, NEW y \in FlowOffer, TakesOffer(PeerOf(p), m, y)
  PROVE  Harmless(p)'
  <1> DEFINE q == PeerOf(p)
  <1>1. q \in Peer /\ PeerOf(q) = p /\ q # p
    BY PeerTyped
  <1>2. /\ local' = local /\ resolved'[q] = y /\ AtMost(resolved[q], y)
        /\ m \in InFlight(q) /\ m.type = "offer"
        /\ y \in {resolved[q], local[q], m.offer} /\ AtMost(local[q], y)
        /\ pending'[q] = IF y = local[q] THEN pending[q] ELSE None
    BY DEF TakesOffer, Resolves
  <1>3. m.offer.proposer = p /\ Made(local, m.offer)
    BY <1>1, <1>2 DEF StepInv, FrameInv, FrameOk
  <1>4. /\ local[p] \in FlowOffer /\ local[q] \in FlowOffer /\ resolved[q] \in FlowOffer
        /\ local[q].proposer = q
    BY <1>1 DEF StepInv, TypeInv, OwnInv
  <1>5. ASSUME AtMost(local[p], y) PROVE Harmless(p)'
    BY <1>2, <1>5 DEF Heard, Harmless
  <1>6. CASE Heard(p)
    <2>1. AtMost(local[p], resolved[q])
      BY <1>6 DEF Heard
    <2> QED  BY <1>2, <1>4, <1>5, <2>1, Transitive
  <1>7. CASE Overtaken(p)
    <2>1. pending[q] = local[q] /\ AtMost(local[p], local[q])
      BY <1>1, <1>7 DEF Overtaken, StepInv, OwnInv
    <2> QED  BY <1>2, <1>4, <1>5, <2>1, Transitive
  <1>8. CASE Twin(p)
    <2>1. Made(local, y)
      BY <1>1, <1>2, <1>3, <1>4 DEF StepInv, OwnInv, Made
    <2>2. AtMost(local[p], y) \/ y = resolved[q]
      BY <1>2, <1>3, <1>8, <2>1, TwinResolves DEF StepInv
    <2> QED  BY <1>2, <1>5, <1>8, <2>2 DEF Twin, Harmless
  <1>9. CASE Initial(p)
    BY <1>2, <1>9 DEF Initial, AnsweredBy
  <1> QED  BY <1>6, <1>7, <1>8, <1>9 DEF Harmless

\* The other side reads an acknowledgement of p.
LEMMA PeerTakesAck ==
  ASSUME StepInv, NEW p \in Peer, pending[p] = None, Harmless(p),
         NEW m \in Frame, NEW y \in FlowOffer, NEW z \in FlowOffer, TakesAck(PeerOf(p), m, y, z)
  PROVE  Harmless(p)'
  <1> DEFINE q == PeerOf(p)
  <1>1. q \in Peer /\ PeerOf(q) = p /\ q # p
    BY PeerTyped
  <1>2. /\ local' = local /\ resolved'[q] = y /\ AtMost(resolved[q], y)
        /\ m \in InFlight(q) /\ m.generation = z.generation /\ m.emitter = z.emitter
        /\ y \in {resolved[q], z} /\ AtMost(z, y)
        /\ z = pending[q] \/ z.proposer = p
    BY <1>1 DEF TakesAck, Resolves
  <1>3. Made(local, z) /\ AtMost(local[q], z) /\ pending[q] = local[q]
    BY <1>1, AdoptedIsMade DEF StepInv
  <1>4. /\ local[p] \in FlowOffer /\ local[q] \in FlowOffer /\ resolved[q] \in FlowOffer
        /\ local[q].proposer = q /\ local[p].proposer = p
        /\ Made(local, resolved[q])
    BY <1>1 DEF StepInv, TypeInv, OwnInv
  <1>5. ASSUME AtMost(local[p], y) PROVE Harmless(p)'
    BY <1>2, <1>5 DEF Heard, Harmless
  <1>6. CASE Heard(p)
    <2>1. AtMost(local[p], resolved[q])
      BY <1>6 DEF Heard
    <2> QED  BY <1>2, <1>4, <1>5, <2>1, Transitive
  <1>7. CASE Overtaken(p)
    <2>1. AtMost(local[p], local[q])
      BY <1>3, <1>7 DEF Overtaken
    <2>2. AtMost(local[p], z)
      BY <1>3, <1>4, <2>1, Transitive
    <2> QED  BY <1>2, <1>4, <1>5, <2>2, Transitive
  <1>8. CASE Twin(p)
    <2>1. Made(local, y) /\ (y = resolved[q] \/ y = local[q] \/ y.proposer = p)
      BY <1>2, <1>3, <1>4
    <2>2. AtMost(local[p], y) \/ y = resolved[q]
      BY <1>2, <1>8, <2>1, TwinResolves DEF StepInv
    <2> QED  BY <1>2, <1>5, <1>8, <2>2 DEF Twin, Harmless
  <1>9. CASE Initial(p)
    <2>1. PICK x \in FlowOffer : Vouched(local, resolved[p], m, x) /\ AtMost(local[p], x)
      BY <1>2, <1>9 DEF Initial, AnsweredBy
    <2>2. x.generation = z.generation /\ x.emitter = z.emitter /\ Made(local, x)
      BY <1>2, <2>1 DEF Vouched
    <2>3. ASSUME x = z PROVE Harmless(p)'
      BY <1>2, <1>4, <1>5, <2>1, <2>3, Transitive
    <2>4. CASE z # pending[q]
      <3>1. x = z
        BY <1>1, <2>1, <2>4, AckStands DEF StepInv
      <3> QED  BY <2>3, <3>1
    <2>5. CASE z = pending[q] /\ x # z
      <3>1. z = local[q] /\ x.proposer = p
        <4>1. x.proposer # q
          BY <1>3, <1>4, <2>2, <2>5, SameOffer
        <4> QED  BY <1>1, <1>3, <2>5, <4>1, OfferTyped, PeerTyped
      <3>2. x = local[p]
        BY <1>4, <2>1, <2>2, <3>1, OfferTyped DEF Made, AtMost, Below
      <3>3. y = z
        <4>1. CASE y = resolved[q]
          <5>1. resolved[q].proposer = q
            BY <1>9 DEF Initial
          <5>2. resolved[q] = local[q] \/ resolved[q].generation < local[q].generation
            BY <1>4, <5>1 DEF Made
          <5> QED  BY <1>2, <1>4, <3>1, <4>1, <5>2, OfferTyped DEF AtMost, Below
        <4> QED  BY <1>2, <4>1
      <3>4. z = Offer(local[p].generation, local[p].emitter, q)
        BY <1>4, <2>2, <3>1, <3>2, OfferTyped
      <3>5. Twin(p)'
        BY <1>2, <3>3, <3>4 DEF Twin
      <3> QED  BY <3>5 DEF Harmless
    <2> QED  BY <2>3, <2>4, <2>5
  <1> QED  BY <1>6, <1>7, <1>8, <1>9 DEF Harmless

\* p reads an offer that beats its own choice: the winner is a choice of the
\* other side, which has resolved it or still has something newer queued.
LEMMA OwnTakesOffer ==
  ASSUME StepInv, NEW p \in Peer, NEW m \in Frame, NEW y \in FlowOffer,
         TakesOffer(p, m, y), y # local[p]
  PROVE  Harmless(p)'
  <1> DEFINE q == PeerOf(p)
  <1>1. q \in Peer /\ q # p /\ y.proposer \in {p, q}
    BY PeerTyped, OfferTyped
  <1>2. /\ local' = local /\ resolved'[p] = y /\ AtMost(local[p], y)
        /\ resolved'[q] = resolved[q] /\ pending'[q] = pending[q]
    BY <1>1 DEF TakesOffer, Resolves
  <1>3. /\ local[p] \in FlowOffer /\ local[q] \in FlowOffer /\ resolved[q] \in FlowOffer
        /\ Made(local, y)
    BY <1>1, <1>2 DEF StepInv, TypeInv, OwnInv
  <1>4. y.proposer = q
    <2>1. ASSUME y.proposer = p PROVE FALSE
      <3>1. AtMost(y, local[p])
        BY <1>3, <2>1, MadeBelow DEF StepInv
      <3> QED  BY <1>2, <1>3, <3>1, Antisymmetric
    <2> QED  BY <1>1, <2>1
  <1>5. AtMost(local[p], local[q])
    <2>1. AtMost(y, local[q])
      BY <1>3, <1>4, MadeBelow DEF StepInv
    <2> QED  BY <1>2, <1>3, <2>1, Transitive
  <1>6. CASE pending[q] = None
    <2>1. AtMost(local[q], resolved[q])
      BY <1>1, <1>6 DEF StepInv, OwnInv
    <2>2. AtMost(local[p], resolved[q])
      BY <1>3, <1>5, <2>1, Transitive
    <2> QED  BY <1>2, <2>2 DEF Heard, Harmless
  <1>7. CASE pending[q] # None
    <2>1. pending[q] = local[q]
      BY <1>1, <1>7 DEF StepInv, OwnInv
    <2> QED  BY <1>2, <1>5, <1>7, <2>1 DEF Overtaken, Harmless
  <1> QED  BY <1>6, <1>7

\* p reads an acknowledgement: the other side has resolved what it stands for.
LEMMA OwnTakesAck ==
  ASSUME StepInv, NEW p \in Peer, NEW m \in Frame, NEW y \in FlowOffer, NEW z \in FlowOffer,
         TakesAck(p, m, y, z)
  PROVE  Harmless(p)'
  <1> DEFINE q == PeerOf(p)
             r == resolved[q]
  <1>1. q \in Peer /\ q # p
    BY PeerTyped
  <1>2. /\ local' = local /\ resolved'[q] = r /\ pending'[q] = pending[q]
        /\ m.generation = z.generation /\ m.emitter = z.emitter
    BY <1>1 DEF TakesAck, Resolves
  <1>3. PICK x \in FlowOffer : Vouched(local, r, m, x)
    BY AckVouched DEF StepInv
  <1>4. x.generation = z.generation /\ x.emitter = z.emitter /\ Made(local, x) /\ AtMost(x, r)
    BY <1>2, <1>3 DEF Vouched
  <1>5. AtMost(local[p], z) /\ pending[p] = local[p]
    BY AdoptedIsMade DEF StepInv
  <1>6. /\ local[p] \in FlowOffer /\ local[q] \in FlowOffer /\ r \in FlowOffer
        /\ local[q].proposer = q /\ local[p].proposer = p /\ Made(local, r)
    BY <1>1 DEF StepInv, TypeInv, OwnInv
  <1>7. ASSUME AtMost(local[p], r) PROVE Harmless(p)'
    BY <1>2, <1>7 DEF Heard, Harmless
  <1>8. ASSUME AtMost(local[p], x) PROVE Harmless(p)'
    BY <1>4, <1>6, <1>7, <1>8, Transitive
  <1>9. CASE z # pending[p]
    <2>1. x = z
      BY <1>3, <1>9, AckStands DEF StepInv
    <2> QED  BY <1>5, <1>8, <2>1
  <1>10. CASE z = local[p] /\ x.proposer = p
    <2>1. x = z
      BY <1>4, <1>6, <1>10, SameOffer
    <2> QED  BY <1>5, <1>8, <2>1
  <1>11. CASE z = local[p] /\ x.proposer = q /\ Below(r, local[p])
    <2>1. r.generation = x.generation
      BY <1>4, <1>6, <1>11, OfferTyped DEF AtMost, Below
    <2>2. r.proposer = q
      <3>1. ASSUME r.proposer = p PROVE FALSE
        <4>1. r = local[p]
          BY <1>4, <1>6, <1>11, <2>1, <3>1, OfferTyped DEF Made
        <4> QED  BY <1>6, <1>11, <4>1, Strict
      <3> QED  BY <1>6, <3>1, OfferTyped, PeerTyped
    <2>3. CASE r = local[q]
      <3>1. x = r
        BY <1>4, <1>6, <1>11, <2>1, <2>3, OfferTyped DEF Made
      <3>2. r = Offer(local[p].generation, local[p].emitter, q)
        BY <1>4, <1>6, <1>11, <3>1, OfferTyped
      <3> QED  BY <1>2, <3>2 DEF Twin, Harmless
    <2>4. CASE r.generation < local[q].generation
      <3>1. pending[q] # None
        <4>1. ~AtMost(local[q], r)
          BY <1>6, <2>4, OfferTyped DEF AtMost, Below
        <4> QED  BY <1>1, <4>1 DEF StepInv, OwnInv
      <3>2. pending[q] = local[q]
        BY <1>1, <3>1 DEF StepInv, OwnInv
      <3>3. AtMost(local[p], local[q])
        BY <1>4, <1>6, <1>11, <2>1, <2>4, OfferTyped DEF AtMost, Below
      <3> QED  BY <1>2, <3>1, <3>2, <3>3 DEF Overtaken, Harmless
    <2> QED  BY <1>6, <2>2, <2>3, <2>4 DEF Made
  <1>12. Below(r, local[p]) \/ AtMost(local[p], r)
    BY <1>6, Total
  <1> QED  BY <1>5, <1>7, <1>9, <1>10, <1>11, <1>12, OfferTyped, PeerTyped

LEMMA KnownStep ==
  ASSUME StepInv, KnownInv
  PROVE  KnownInv'
  <1> SUFFICES ASSUME NEW p \in Peer, pending'[p] = None PROVE Harmless(p)'
    BY DEF KnownInv
  <1> DEFINE q == PeerOf(p)
  <1>1. q \in Peer /\ q # p /\ PeerOf(q) = p /\ \A s \in Peer : s = p \/ s = q
    BY PeerTyped
  <1>2. ASSUME pending[p] = None PROVE Harmless(p)
    BY <1>2 DEF KnownInv
  <1>3. CASE Quiet \/ \E s \in Peer : Writes(s)
    <2>1. UNCHANGED <<local, resolved, pending>> /\ pending[p] = None
      BY <1>3 DEF Quiet, Writes
    <2>2. InFlight(q)' \subseteq InFlight(q)
      BY <1>1, <1>3, <2>1 DEF Quiet, Writes
    <2> QED  BY <1>2, <2>1, <2>2, StaysHarmless DEF Overtaken
  <1>4. ASSUME NEW s \in Peer, Queues(s) PROVE Harmless(p)'
    <2>1. s = q
      <3>1. pending'[s] # None
        BY <1>4, NoneIsNoOffer DEF Queues, StepInv, TypeInv
      <3> QED  BY <1>1, <3>1
    <2>2. /\ resolved' = resolved /\ wire' = wire /\ local'[p] = local[p] /\ pending[p] = None
          /\ pending'[q] = local'[q] /\ pending'[q] # None
      BY <1>1, <1>4, <2>1, NoneIsNoOffer DEF Queues, StepInv, TypeInv
    <2>3. Overtaken(p) => Overtaken(p)'
      <3> SUFFICES ASSUME Overtaken(p) PROVE AtMost(local[p], local'[q])
        BY <2>2 DEF Overtaken
      <3>1. AtMost(local[p], local[q]) /\ pending[q] # None
        BY <1>1 DEF Overtaken, StepInv, OwnInv
      <3>2. /\ local[p] \in FlowOffer /\ local[q] \in FlowOffer /\ local'[q] \in FlowOffer
            /\ local[q].generation < local'[q].generation
        BY <1>1, <1>4, <2>1, <3>1 DEF Queues, StepInv, TypeInv
      <3>3. AtMost(local[q], local'[q])
        BY <3>2 DEF AtMost, Below
      <3> QED  BY <3>1, <3>2, <3>3, Transitive
    <2> QED  BY <1>2, <2>2, <2>3, StaysHarmless DEF InFlight
  <1>5. ASSUME NEW m \in Frame, NEW y \in FlowOffer, TakesOffer(p, m, y)
        PROVE  Harmless(p)'
    <2>1. CASE y # local[p]
      BY <1>5, <2>1, OwnTakesOffer
    <2>2. CASE y = local[p]
      <3>1. /\ local' = local /\ resolved'[p] = y /\ resolved'[q] = resolved[q]
            /\ pending'[q] = pending[q] /\ pending[p] = None
            /\ InFlight(q)' \subseteq InFlight(q) \cup {AckMessage(y.generation, y.emitter)}
        BY <1>1, <1>5, <2>2 DEF TakesOffer, Resolves
      <3>2. AnsweredBy(local', resolved'[p], AckMessage(y.generation, y.emitter), local[p])
        <4>1. Vouched(local', y, AckMessage(y.generation, y.emitter), y)
          BY <2>2, <3>1 DEF Vouched, AckMessage, AtMost, Made, StepInv, OwnInv
        <4> QED  BY <2>2, <3>1, <4>1 DEF AnsweredBy, AckMessage, AtMost
      <3> QED  BY <1>2, <3>1, <3>2, StaysHarmless DEF Overtaken
    <2> QED  BY <2>1, <2>2
  <1>6. ASSUME NEW m \in Frame, NEW y \in FlowOffer, TakesOffer(q, m, y)
        PROVE  Harmless(p)'
    <2>1. pending[p] = None
      BY <1>1, <1>6 DEF TakesOffer, Resolves
    <2> QED  BY <1>2, <1>6, <2>1, PeerTakesOffer
  <1>7. ASSUME NEW m \in Frame, NEW y \in FlowOffer, NEW z \in FlowOffer, TakesAck(p, m, y, z)
        PROVE  Harmless(p)'
    BY <1>7, OwnTakesAck
  <1>8. ASSUME NEW m \in Frame, NEW y \in FlowOffer, NEW z \in FlowOffer, TakesAck(q, m, y, z)
        PROVE  Harmless(p)'
    <2>1. pending[p] = None
      BY <1>1, <1>8 DEF TakesAck, Resolves
    <2> QED  BY <1>2, <1>8, <2>1, PeerTakesAck
  <1> QED  BY <1>1, <1>3, <1>4, <1>5, <1>6, <1>7, <1>8 DEF StepInv, Moves

--------------------------------------------------------------------------------
(* The invariant.                                                          *)

LEMMA InitInv == Init => IInv
<1> SUFFICES ASSUME Init PROVE IInv
    OBVIOUS
<1>1. PICK e \in [Peer -> Peer], g \in [Peer -> Generation], queued \in OfferAtStart :
          /\ queued \/ e[Host] = e[Client]
          /\ local = [p \in Peer |-> Offer(g[p], e[p], p)]
          /\ resolved = local
          /\ remote = [p \in Peer |-> None]
          /\ pending = IF queued THEN local ELSE remote
          /\ sent = [p \in Peer |-> FALSE]
          /\ role = e
          /\ writing = remote
          /\ wire = [p \in Peer |-> <<>>]
    BY DEF Init
<1>2. ASSUME NEW p \in Peer
      PROVE  /\ local[p] \in FlowOffer /\ local[p].emitter = e[p] /\ local[p].proposer = p
             /\ resolved[p] = local[p]
    BY <1>1, OfferTyped, OfferFields
<1>3. local \in [Peer -> FlowOffer]
    BY <1>1, <1>2
<1>4. pending \in [Peer -> FlowOffer \cup {None}] /\ remote \in [Peer -> FlowOffer \cup {None}]
    BY <1>1, <1>3
<1>5. TypeInv
    BY <1>1, <1>3, <1>4 DEF TypeInv
<1>6. ASSUME NEW p \in Peer PROVE pending[p] \in {None, local[p]}
    BY <1>1
<1>7. OwnInv
    BY <1>2, <1>6 DEF OwnInv, AtMost, Made
<1>8. \A p \in Peer : InFlight(p) = {}
    BY <1>1 DEF InFlight, Members
<1>9. FrameInv
    BY <1>8 DEF FrameInv
<1>10. ASSUME NEW p \in Peer, pending[p] = None PROVE Initial(p)
  <2>1. ~queued
    BY <1>1, <1>2, <1>10, NoneIsNoOffer
  <2>2. e[Host] = e[Client] /\ PeerOf(p) \in Peer
    BY <1>1, <2>1, PeerTyped
  <2>3. e[p] = e[PeerOf(p)]
    BY <2>2 DEF Peer
  <2> QED  BY <1>2, <1>8, <2>2, <2>3 DEF Initial
<1> QED  BY <1>5, <1>7, <1>9, <1>10 DEF IInv, KnownInv, Harmless

LEMMA StepKeeps == IInv /\ [Next]_vars => StepInv /\ IInv'
<1> SUFFICES ASSUME IInv, [Next]_vars PROVE StepInv /\ IInv'
    OBVIOUS
<1>1. TypeInv' /\ Moves
    BY StepMoves DEF IInv
<1>2. OwnInv'
    BY <1>1, OwnStep DEF IInv
<1>3. FrameInv'
    BY <1>1, <1>2, FrameStep DEF IInv
<1>4. StepInv
    BY <1>1, <1>2 DEF IInv, StepInv
<1>5. KnownInv'
    BY <1>4, KnownStep DEF IInv
<1> QED  BY <1>1, <1>2, <1>3, <1>4, <1>5 DEF IInv

LEMMA Invariance == Spec => []IInv
<1> QED  BY InitInv, StepKeeps, PTL DEF Spec

\* Offers, winners, queued choices, roles and frames keep their types.
THEOREM TypeCorrect == Spec => []TypeInv
<1>1. IInv => TypeInv
    BY DEF IInv
<1> QED  BY <1>1, Invariance, PTL

\* When nothing of p is queued any more, either its last choice is resolved by
\* the other side or p still holds the same emitter.
LEMMA SettledHeard ==
  ASSUME IInv, Settled, NEW p \in Peer
  PROVE  AtMost(local[p], resolved[PeerOf(p)]) \/ resolved[p].emitter = resolved[PeerOf(p)].emitter
  <1> DEFINE q == PeerOf(p)
             r == resolved[q]
  <1>1. q \in Peer /\ q # p /\ pending[p] = None /\ pending[q] = None
    BY PeerTyped DEF Settled
  <1>2. /\ local[p] \in FlowOffer /\ local[q] \in FlowOffer /\ r \in FlowOffer /\ resolved[p] \in FlowOffer
        /\ AtMost(local[p], resolved[p]) /\ AtMost(local[q], r)
        /\ Made(local, resolved[p]) /\ TypeInv
    BY <1>1 DEF IInv, TypeInv, OwnInv
  <1>3. Heard(p) \/ Twin(p) \/ Initial(p)
    BY <1>1 DEF IInv, KnownInv, Harmless, Overtaken
  <1>4. ASSUME r.emitter = local[p].emitter
        PROVE  AtMost(local[p], r) \/ resolved[p].emitter = r.emitter
    <2>1. CASE resolved[p].proposer = p
      <3>1. AtMost(resolved[p], local[p])
        BY <1>2, <2>1, MadeBelow
      <3>2. resolved[p] = local[p]
        BY <1>2, <3>1, Antisymmetric
      <3> QED  BY <1>4, <3>2
    <2>2. CASE resolved[p].proposer = q
      <3>1. AtMost(resolved[p], local[q])
        BY <1>2, <2>2, MadeBelow
      <3>2. AtMost(local[p], local[q])
        BY <1>2, <3>1, Transitive
      <3>3. AtMost(local[p], r)
        BY <1>2, <3>2, Transitive
      <3> QED  BY <3>3
    <2> QED  BY <1>2, <2>1, <2>2, OfferTyped, PeerTyped
  <1>5. CASE Heard(p)
    BY <1>5 DEF Heard
  <1>6. CASE Twin(p)
    BY <1>4, <1>6, OfferFields DEF Twin
  <1>7. CASE Initial(p)
    BY <1>4, <1>7 DEF Initial
  <1> QED  BY <1>3, <1>5, <1>6, <1>7

LEMMA SettledMeansAgreement == IInv => SettledAgree
<1> SUFFICES ASSUME IInv, Settled PROVE resolved[Host].emitter = resolved[Client].emitter
    BY DEF SettledAgree
<1>1. Host \in Peer /\ Client \in Peer /\ PeerOf(Host) = Client /\ PeerOf(Client) = Host
    BY PeerTyped DEF Peer
<1>2. /\ local[Host] \in FlowOffer /\ local[Client] \in FlowOffer
      /\ resolved[Host] \in FlowOffer /\ resolved[Client] \in FlowOffer
      /\ AtMost(local[Host], resolved[Host]) /\ AtMost(local[Client], resolved[Client])
      /\ Made(local, resolved[Host]) /\ Made(local, resolved[Client]) /\ TypeInv
    BY <1>1 DEF IInv, TypeInv, OwnInv, Settled
<1>3. CASE AtMost(local[Host], resolved[Client]) /\ AtMost(local[Client], resolved[Host])
  <2>1. ASSUME NEW x \in FlowOffer, NEW y \in FlowOffer, Made(local, x),
               AtMost(local[Host], y), AtMost(local[Client], y)
        PROVE  AtMost(x, y)
    <3>1. x.proposer \in {Host, Client} /\ AtMost(x, local[x.proposer])
      BY <1>2, <2>1, MadeBelow, OfferTyped DEF Peer
    <3> QED  BY <1>2, <2>1, <3>1, Transitive
  <2>2. AtMost(resolved[Host], resolved[Client]) /\ AtMost(resolved[Client], resolved[Host])
    BY <1>2, <1>3, <2>1
  <2> QED  BY <1>2, <2>2, Antisymmetric
<1> QED  BY <1>1, <1>3, SettledHeard

\* "An active session MUST contain exactly one emitter and one receiver": when
\* nothing is queued, being written or in flight, both sides have resolved to
\* the same emitter, however many drops there were and whatever was lost with
\* them (FlowNegotiation::receive_offer, receive_ack, reset_send).
THEOREM Agreement == Spec => []SettledAgree
<1> QED  BY SettledMeansAgreement, Invariance, PTL

\* resolve_flow_offers only ever replaces the winner of a side by a newer one.
THEOREM NoReturn == Spec => WinnerOnlyGrows
<1>1. IInv /\ [Next]_vars => [\A p \in Peer : AtMost(resolved[p], resolved'[p])]_vars
    BY StepKeeps, WinnersGrow DEF StepInv
<1> QED  BY <1>1, Invariance, PTL DEF Spec, WinnerOnlyGrows

LEMMA PendingStep ==
  ASSUME StepInv, NEW p \in Peer, pending[p] # None, pending'[p] # pending[p]
  PROVE  IF pending'[p] = None THEN AtMost(pending[p], resolved'[p])
                               ELSE Below(pending[p], pending'[p])
  <1>1. pending[p] = local[p] /\ local[p] \in FlowOffer /\ local'[p] \in FlowOffer
    BY DEF StepInv, OwnInv, TypeInv
  <1>2. ASSUME NEW s \in Peer, Queues(s) PROVE Below(pending[p], pending'[p]) /\ pending'[p] # None
    <2>1. s = p
      BY <1>2 DEF Queues
    <2> QED  BY <1>1, <1>2, <2>1, NoneIsNoOffer DEF Queues, Below
  <1>3. ASSUME NEW s \in Peer, NEW m \in Frame, NEW y \in FlowOffer, TakesOffer(s, m, y)
        PROVE  pending'[p] = None /\ AtMost(pending[p], resolved'[p])
    BY <1>1, <1>3 DEF TakesOffer, Resolves
  <1>4. ASSUME NEW s \in Peer, NEW m \in Frame, NEW y \in FlowOffer, NEW z \in FlowOffer,
               TakesAck(s, m, y, z)
        PROVE  pending'[p] = None /\ AtMost(pending[p], resolved'[p])
    <2>1. s = p
      BY <1>4 DEF TakesAck, Resolves
    <2>2. AtMost(local[p], z)
      BY <1>4, <2>1, AdoptedIsMade DEF StepInv
    <2>3. pending'[p] = None /\ resolved'[p] = y /\ AtMost(z, y)
      BY <1>4, <2>1 DEF TakesAck, Resolves
    <2> QED  BY <1>1, <1>4, <2>2, <2>3, Transitive
  <1>5. ~Quiet /\ \A s \in Peer : ~Writes(s)
    BY DEF Quiet, Writes
  <1> QED  BY <1>2, <1>3, <1>4, <1>5 DEF StepInv, Moves

\* A queued choice is dropped only for one at least as new: no drop, resume or
\* stale acknowledgement makes a side forget it (FlowNegotiation::receive_ack,
\* receive_offer, reset_send).
THEOREM ChoiceSurvives == Spec => PendingUntilDecided
<1>1. IInv /\ [Next]_vars =>
        [\A p \in Peer :
          pending[p] # None /\ pending'[p] # pending[p] =>
              IF pending'[p] = None THEN AtMost(pending[p], resolved'[p])
                                    ELSE Below(pending[p], pending'[p])]_vars
    BY StepKeeps, PendingStep
<1> QED  BY <1>1, Invariance, PTL DEF Spec, PendingUntilDecided

\* The roles are derived from the winner, unless an acknowledgement could not
\* be written (apply_flow_offer returns before it derives them).
RolesFollow == ~ackLost => \A p \in Peer : role[p] = resolved[p].emitter

LEMMA RolesFollowStep ==
  ASSUME TypeInv, TypeInv', RolesFollow, [Next]_vars
  PROVE  RolesFollow'
  <1> SUFFICES ASSUME ~ackLost', NEW q \in Peer PROVE role'[q] = resolved'[q].emitter
    BY DEF RolesFollow
  <1>1. ASSUME NEW p \in Peer, ReceiveOffer(p) PROVE role'[q] = resolved'[q].emitter
    <2>1. ~ackLost /\ role[q] = resolved[q].emitter
      BY <1>1 DEF ReceiveOffer, transport, RolesFollow
    <2>2. /\ resolved' = [resolved EXCEPT ![p] = Winner(p, Head(wire[p]).offer)]
          /\ role' = [role EXCEPT ![p] = IF resolved'[p] # resolved[p] THEN resolved'[p].emitter ELSE @]
      BY <1>1 DEF ReceiveOffer, receive_offer
    <2> QED  BY <2>1, <2>2 DEF TypeInv
  <1>2. ASSUME NEW p \in Peer, AckWriteFails(p) PROVE FALSE
    BY <1>2 DEF AckWriteFails
  <1>3. ASSUME NEW p \in Peer, ReceiveAck(p) PROVE role'[q] = resolved'[q].emitter
    <2>1. ~ackLost /\ role[q] = resolved[q].emitter
      BY <1>3 DEF ReceiveAck, transport, RolesFollow
    <2>2. PICK z : Adopt(p, z)
      BY <1>3 DEF ReceiveAck, receive_ack
    <2>3. /\ resolved' = [resolved EXCEPT ![p] = resolve_flow_offers(@, z)]
          /\ role' = [role EXCEPT ![p] = resolved'[p].emitter]
      BY <2>2 DEF Adopt
    <2> QED  BY <2>1, <2>3 DEF TypeInv
  <1>4. CASE \/ UNCHANGED vars
             \/ LinkBreaks \/ ResumeLink \/ EnrollmentEnds
             \/ \E p \in Peer : MarkSent(p) \/ IgnoreAck(p) \/ NoticeDrop(p) \/ WriteOffer(p) \/ Choose(p)
    <2>1. UNCHANGED <<ackLost, resolved, role>>
      BY <1>4 DEF vars, negotiation, transport, LinkBreaks, ResumeLink, EnrollmentEnds, MarkSent, IgnoreAck,
                  NoticeDrop, WriteOffer, Choose, QueueNew, QueueAgain
    <2> QED  BY <2>1 DEF RolesFollow
  <1> QED  BY <1>1, <1>2, <1>3, <1>4 DEF Next, ControlStep, LinkStep

\* "No resolution can activate both directions": as long as every
\* acknowledgement could be written, both sides have derived the same emitter
\* whenever the exchange has settled (apply_flow_offer, emit_flow_resolution).
THEOREM OneEmitterUnlessAckLost == Spec => [](~ackLost => OneEmitter)
<1>1. Init => RolesFollow
  <2> SUFFICES ASSUME Init PROVE \A p \in Peer : role[p] = resolved[p].emitter
    BY DEF RolesFollow
  <2>1. PICK e \in [Peer -> Peer], g \in [Peer -> Generation] :
            role = e /\ resolved = local /\ local = [p \in Peer |-> Offer(g[p], e[p], p)]
    BY DEF Init
  <2> QED  BY <2>1, OfferFields
<1>2. IInv /\ RolesFollow /\ [Next]_vars => RolesFollow'
    BY StepKeeps, RolesFollowStep DEF StepInv
<1>3. IInv /\ RolesFollow => (~ackLost => OneEmitter)
    BY SettledMeansAgreement DEF RolesFollow, OneEmitter, SettledAgree, Peer
<1> QED  BY <1>1, <1>2, <1>3, Invariance, PTL DEF Spec
================================================================================
