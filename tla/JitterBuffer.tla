------------------------------ MODULE JitterBuffer ------------------------------
(***************************************************************************)
(* The jitter buffer of a receive worker between a network that loses and  *)
(* reorders frames and the decoder.                                        *)
(*                                                                         *)
(* Sequence numbers count modulo Numbers, two to the width of the field.   *)
(* A frame may be overtaken by disorder later ones and MaxOutage frames in *)
(* a row may be lost.  The replay window in front of the buffer lets no    *)
(* frame through twice.  The buffer's payloads are left out: queued is the *)
(* set of the keys.                                                        *)
(***************************************************************************)
EXTENDS Integers, FiniteSets

CONSTANTS
    Numbers,        \* 2^32, the sequence numbers
    Depth,          \* JITTER_DEPTH_FRAMES
    MinLookahead, MaxLookahead,   \* MIN_LOOKAHEAD, MAX_LOOKAHEAD
    DecayPops,      \* LOOKAHEAD_DECAY_POPS
    MaxForward,     \* MAX_FORWARD_FRAMES
    MaxQueued,      \* MAX_QUEUED_FRAMES
    MaxReorder,     \* bound on the frames that overtake another
    MaxOutage,      \* bound on the frames lost in a row
    Unset            \* no sequence number

ASSUME JitterAssumption ==
    /\ {Numbers, Depth, MinLookahead, DecayPops, MaxForward} \subseteq Nat \ {0}
    /\ MaxLookahead \in Nat /\ MinLookahead <= MaxLookahead
    /\ {MaxQueued, MaxReorder, MaxOutage} \subseteq Nat
    /\ Depth <= MaxQueued /\ MaxForward < MaxQueued
    /\ 2 * (MaxForward + MaxOutage + MaxReorder) < Numbers
    /\ Unset \notin 0..(Numbers - 1)

VARIABLES
    disorder,       \* how many frames may overtake another on this network
    sequence,       \* run_tx_source: the next frame's sequence number
    outage,         \* frames lost in a row
    inFlight,       \* frames sent and not yet delivered or lost
    queued, next, primed, anchor, lookahead, clean,   \* JitterBuffer
    draining,       \* run_rx_source is in its inner loop
    starved,        \* history: arrivals since a frame was played, capped
    falseLoss       \* history: a frame was concealed that was still in flight

net == <<disorder, sequence, outage, inFlight>>
buffer == <<queued, next, primed, anchor, lookahead, clean>>
jitterVars == <<net, buffer, draining, starved, falseLoss>>

--------------------------------------------------------------------------------
Sequence == 0..(Numbers - 1)
wrapping_add(s) == (s + 1) % Numbers
wrapping_sub(s, t) == (s - t) % Numbers

\* wrapping_sub(s, t) as i32
Distance(s, t) ==
    LET d == wrapping_sub(s, t) IN IF 2 * d >= Numbers THEN d - Numbers ELSE d

StarveCap == MaxForward + 1

JitterInit ==
    /\ disorder \in 0..MaxReorder
    /\ sequence = 0 /\ outage = 0 /\ inFlight = {}
    /\ queued = {} /\ next = Unset /\ primed = FALSE /\ anchor = Unset
    /\ lookahead = MinLookahead /\ clean = 0
    /\ draining = FALSE /\ starved = 0 /\ falseLoss = FALSE

--------------------------------------------------------------------------------
\* The sender and the network.

\* A frame that disorder later ones have overtaken arrives before another is sent.
Sent == /\ \A f \in inFlight : wrapping_sub(sequence, f) <= disorder
        /\ sequence' = wrapping_add(sequence)

SendFrame ==
    /\ Sent
    /\ inFlight' = inFlight \cup {sequence}
    /\ outage' = 0
    /\ UNCHANGED <<disorder, buffer, draining, starved, falseLoss>>

\* Also a frame whose transport was not ready: its number is used up.
LoseFrame ==
    /\ outage < MaxOutage
    /\ Sent
    /\ outage' = outage + 1
    /\ UNCHANGED <<disorder, inFlight, buffer, draining, starved, falseLoss>>

--------------------------------------------------------------------------------
\* The receive worker: one datagram, then pops until the buffer waits.

LowerOf(a, b) == IF a < b THEN a ELSE b

GrowLookahead == lookahead' = LowerOf(lookahead + 1, MaxLookahead) /\ clean' = 0

\* Evicts the smallest keys beyond the cap, wherever playback is.
Evicted(q) ==
    IF Cardinality(q) > MaxQueued
    THEN {s \in q : \E t \in q : t < s}
    ELSE q

\* set_anchor for the sender's first frame, or the first frame of an empty buffer.
NewAnchor(f) ==
    IF f = 0 /\ ~primed THEN f
    ELSE IF ~primed /\ queued = {} /\ anchor = Unset THEN f ELSE anchor

\* A slip: frames are accepted at any distance.
push_unbounded(f) ==
    IF primed /\ Distance(f, next) < 0
    THEN GrowLookahead /\ UNCHANGED <<queued, next, primed, anchor, draining>>
    ELSE /\ queued' = Evicted(queued \cup {f})
         /\ draining' = (f \notin queued)
         /\ anchor' = NewAnchor(f)
         /\ UNCHANGED <<next, primed, lookahead, clean>>

\* A slip: the window is no wider than the reorder tolerance.
push_narrow(f) ==
    IF primed /\ Distance(f, next) < 0
    THEN GrowLookahead /\ UNCHANGED <<queued, next, primed, anchor, draining>>
    ELSE IF primed /\ Distance(f, next) >= lookahead
    THEN UNCHANGED <<buffer, draining>>
    ELSE /\ queued' = Evicted(queued \cup {f})
         /\ draining' = (f \notin queued)
         /\ anchor' = NewAnchor(f)
         /\ UNCHANGED <<next, primed, lookahead, clean>>

\* push, which sends the worker into its inner loop when it has queued f.
push(f) ==
    IF primed /\ Distance(f, next) < 0
    THEN GrowLookahead /\ UNCHANGED <<queued, next, primed, anchor, draining>>
    ELSE IF primed /\ Distance(f, next) > MaxForward
    THEN UNCHANGED <<buffer, draining>>
    ELSE /\ queued' = Evicted(queued \cup {f})
         /\ draining' = (f \notin queued)
         /\ anchor' = NewAnchor(f)
         /\ UNCHANGED <<next, primed, lookahead, clean>>

ReceiveFrame(f) ==
    /\ ~draining
    /\ f \in inFlight /\ inFlight' = inFlight \ {f}
    /\ push(f)
    /\ starved' = LowerOf(starved + 1, StarveCap)
    /\ UNCHANGED <<disorder, sequence, outage, falseLoss>>

\* pop, until it is primed.
PopUnprimed ==
    /\ draining /\ ~primed
    /\ IF Cardinality(queued) < Depth
       THEN draining' = FALSE /\ UNCHANGED <<queued, next, primed>>
       ELSE LET start == CHOOSE s \in queued :
                            \A t \in queued : wrapping_sub(s, anchor) <= wrapping_sub(t, anchor)
            IN /\ primed' = TRUE /\ next' = start
               /\ queued' = {s \in queued : Distance(s, start) \in 0..MaxForward}
               /\ UNCHANGED draining
    /\ UNCHANGED <<net, anchor, lookahead, clean, starved, falseLoss>>

\* note_clean_pop
RelaxLookahead ==
    IF lookahead <= MinLookahead THEN UNCHANGED <<lookahead, clean>>
    ELSE IF clean + 1 >= DecayPops THEN lookahead' = lookahead - 1 /\ clean' = 0
    ELSE clean' = clean + 1 /\ UNCHANGED lookahead

PopFrame ==
    /\ draining /\ primed /\ next \in queued
    /\ queued' = queued \ {next} /\ next' = wrapping_add(next)
    /\ RelaxLookahead
    /\ starved' = 0
    /\ UNCHANGED <<net, primed, anchor, draining, falseLoss>>

\* A slip: one frame behind the gap is evidence enough.
QueuedAhead_hasty == 1 + Cardinality({s \in queued : Distance(s, next) > 0})

QueuedAhead == Cardinality({s \in queued : Distance(s, next) > 0})

PopMissing ==
    /\ draining /\ primed /\ next \notin queued
    /\ IF queued # {} /\ QueuedAhead >= lookahead
       THEN /\ next' = wrapping_add(next) /\ clean' = 0
            /\ falseLoss' = (falseLoss \/ next \in inFlight)
            /\ UNCHANGED draining
       ELSE draining' = FALSE /\ UNCHANGED <<next, clean, falseLoss>>
    /\ UNCHANGED <<net, queued, primed, anchor, lookahead, starved>>

RxStep == (\E f \in Sequence : ReceiveFrame(f)) \/ PopUnprimed \/ PopFrame \/ PopMissing

JitterNext == SendFrame \/ LoseFrame \/ RxStep

JitterSpec == JitterInit /\ [][JitterNext]_jitterVars

--------------------------------------------------------------------------------
\* The outages the window has room for: a gap is given up before the frames
\* behind it leave the window, and no frame is overtaken by all that playback
\* waits for at the start.
Wide == IF Depth < MinLookahead THEN MinLookahead ELSE Depth
Bridged ==
    /\ 2 * (MinLookahead - 1) <= Depth /\ Depth <= MaxForward
    /\ Wide * (MaxOutage + 1) + MinLookahead <= MaxForward + 2
    /\ 4 * (MaxForward + MaxOutage + 1) <= Numbers

\* Once playback has started, every queued frame is still to be played and
\* inside the window, so the queue is bounded by the window and the eviction
\* of the smallest key, which knows nothing of the wrap-around, never runs
\* (push, pop, MAX_QUEUED_FRAMES).
QueuePlayable ==
    /\ primed => \A s \in queued : Distance(s, next) \in 0..MaxForward
    /\ Cardinality(queued) <= LowerOf(MaxQueued, IF primed THEN MaxForward + 1 ELSE Depth)

\* "for a packet that was merely reordered" (MIN_LOOKAHEAD): where fewer than
\* MIN_LOOKAHEAD frames overtake another, none is declared lost in flight.
NoFalseLoss == disorder < MinLookahead => ~falseLoss

\* Nor does playback stall there: of any MaxForward + 1 frames that arrive in a
\* row one makes the buffer play (pop, "missing ones surface as Lost").
NoStall == disorder < MinLookahead => starved < StarveCap
================================================================================
