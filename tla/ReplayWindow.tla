------------------------------ MODULE ReplayWindow ------------------------------
(***************************************************************************)
(* The audio datagrams of one session on their way from the client to the  *)
(* host: sealed with an increasing counter, carried by UDP and opened      *)
(* against the replay window, which also moves the address the host sends  *)
(* its own audio to.                                                       *)
(*                                                                         *)
(* The network delivers any datagram sealed so far, any number of times,   *)
(* in any order, damaged or not, or never.  The bitmap seen is the set of  *)
(* the distances below highest whose bit is set.                           *)
(***************************************************************************)
EXTENDS Naturals

CONSTANTS
    Window,     \* REPLAY_WINDOW, the bits of Opener::seen
    Address,    \* source addresses of the client
    MaxCounter, \* bound on the datagrams sealed
    None        \* no address learned yet

ASSUME WindowAssumption ==
    /\ Window \in Nat \ {0} /\ MaxCounter \in Nat
    /\ None \notin Address

VARIABLES
    counter,    \* Sealer::counter
    local,      \* the address of the client's audio socket
    datagrams,  \* what has been sealed: counter and source address
    started, highest, seen,   \* Opener
    peer,       \* SessionRecord::peer_audio_addr of the host
    opened,     \* history: counters opened
    twice       \* history: counters opened more than once

sender == <<counter, local, datagrams>>
opener == <<started, highest, seen>>
vars == <<sender, opener, peer, opened, twice>>

--------------------------------------------------------------------------------
Datagram == [counter : Nat, from : Address]

TypeOK ==
    /\ counter \in Nat /\ counter <= MaxCounter
    /\ local \in Address
    /\ datagrams \subseteq Datagram
    /\ \A d \in datagrams : d.counter < counter
    /\ started \in BOOLEAN /\ highest \in Nat
    /\ seen \subseteq 0..(Window - 1)
    /\ peer \in Address \cup {None}
    /\ opened \subseteq Nat /\ twice \subseteq opened

Init ==
    /\ counter = 0 /\ local \in Address /\ datagrams = {}
    /\ started = FALSE /\ highest = 0 /\ seen = {}
    /\ peer = None
    /\ opened = {} /\ twice = {}

--------------------------------------------------------------------------------
\* seal_datagram: an audio frame, or an announce.
seal(from) ==
    /\ counter < MaxCounter
    /\ datagrams' = datagrams \cup {[counter |-> counter, from |-> from]}
    /\ counter' = counter + 1

Send ==
    /\ seal(local)
    /\ UNCHANGED <<local, opener, peer, opened, twice>>

\* A resume on another link: a socket on a fresh address and an announce.
Migrate ==
    /\ \E from \in Address \ {local} : local' = from /\ seal(from)
    /\ UNCHANGED <<opener, peer, opened, twice>>

window_allows(c) ==
    \/ c > highest
    \/ highest - c < Window /\ highest - c \notin seen

\* A slip: the bits are not moved when the window advances.
record_without_shift(c) ==
    /\ started' = TRUE
    /\ highest' = IF started /\ c <= highest THEN highest ELSE c
    /\ seen' = IF started /\ c <= highest THEN seen \cup {highest - c} ELSE seen \cup {0}

record(c) ==
    /\ started' = TRUE
    /\ IF started /\ c <= highest
       THEN /\ seen' = seen \cup ({highest - c} \cap 0..(Window - 1))
            /\ UNCHANGED highest
       ELSE /\ seen' = IF started
                       THEN {b \in 0..(Window - 1) : b >= c - highest /\ b - (c - highest) \in seen}
                                \cup {0}
                       ELSE {0}
            /\ highest' = c

\* A slip: the counter is recorded before the datagram is authenticated.
open_windowed_recording_first(d, intact) ==
    /\ started => window_allows(d.counter)
    /\ record(d.counter)
    /\ IF intact
       THEN /\ opened' = opened \cup {d.counter}
            /\ twice' = IF d.counter \in opened THEN twice \cup {d.counter} ELSE twice
            /\ peer' = d.from
       ELSE UNCHANGED <<opened, twice, peer>>
    /\ UNCHANGED sender

\* open_windowed and the part of run_rx_source behind it: what the window
\* refuses or does not decrypt changes nothing.
open_windowed(d, intact) ==
    /\ started => window_allows(d.counter)
    /\ intact
    /\ record(d.counter)
    /\ opened' = opened \cup {d.counter}
    /\ twice' = IF d.counter \in opened THEN twice \cup {d.counter} ELSE twice
    /\ peer' = d.from
    /\ UNCHANGED sender

Next == Send \/ Migrate \/ \E d \in datagrams : \E intact \in BOOLEAN : open_windowed(d, intact)

Spec == Init /\ [][Next]_vars

--------------------------------------------------------------------------------
\* No datagram is opened twice, in whatever order and however often the
\* network delivers it (open_windowed: replays are refused).
OpenedOnce == twice = {}

\* The window refuses nothing it need not: a datagram that is not older than
\* the window and has not been opened can still be opened.
FreshAllowed ==
    \A d \in datagrams :
        started /\ d.counter \notin opened /\ highest < d.counter + Window
            => window_allows(d.counter)

================================================================================
