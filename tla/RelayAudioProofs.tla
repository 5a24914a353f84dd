---------------------------- MODULE RelayAudioProofs ----------------------------
(***************************************************************************)
(* The audio of a relay session, from the socket to playout.               *)
(*                                                                         *)
(* The audio path of a session handles its datagrams as ReplayWindow says: *)
(* no lease, migration, stream or end of the session does more to the      *)
(* sealer, the opener and the peer's address than a step of ReplayWindow.  *)
(* What is proved of the window therefore holds of the whole path, for any *)
(* number of links, threads, streams, resumes and failures.                *)
(*                                                                         *)
(* What the jitter buffer queues and plays, for every width of the         *)
(* sequence numbers and every window, cap and tolerance.  That the queue is*)
(* bounded holds on any network; that nothing is concealed in flight and   *)
(* that playback goes on are for the outages of Bridged.                   *)
(***************************************************************************)
EXTENDS AudioPath, JitterBuffer, FiniteSetTheorems, WellFoundedInduction, TLAPS

--------------------------------------------------------------------------------
(* The window alone, for every width and any number of datagrams: the bitmap   *)
(* remembers exactly the opened counters inside it.                            *)

USE WindowAssumption

Distances == 0..(Window - 1)

\* Bit b stands for the counter highest - b.
BitmapExact ==
    /\ ~started => opened = {}
    /\ started =>
        /\ highest \in opened
        /\ \A c \in opened : c <= highest
        /\ \A b \in Distances : b \in seen <=> b <= highest /\ highest - b \in opened

IInv == TypeOK /\ BitmapExact /\ OpenedOnce

LEMMA InitInv == Init => IInv
  <1> SUFFICES ASSUME Init PROVE IInv
    OBVIOUS
  <1>1. started \in BOOLEAN /\ ~started /\ opened = {} /\ twice = {}
    BY DEF Init
  <1>2. counter \in Nat /\ counter <= MaxCounter /\ highest \in Nat
    BY DEF Init
  <1>3. local \in Address /\ datagrams = {} /\ seen = {} /\ peer = None
    BY DEF Init
  <1>4. TypeOK
    BY <1>1, <1>2, <1>3 DEF TypeOK
  <1> QED  BY <1>1, <1>4 DEF IInv, BitmapExact, OpenedOnce

LEMMA SealType ==
  ASSUME TypeOK, NEW from \in Address, seal(from)
  PROVE  /\ counter' \in Nat /\ counter' <= MaxCounter
         /\ datagrams' \subseteq Datagram
         /\ \A d \in datagrams' : d.counter < counter'
  <1> DEFINE new == [counter |-> counter, from |-> from]
  <1>1. new \in Datagram /\ new.counter = counter
    BY DEF TypeOK, Datagram
  <1>2. counter' = counter + 1 /\ counter < MaxCounter /\ datagrams' = datagrams \cup {new}
    BY DEF seal
  <1>3. \A d \in datagrams : d.counter \in Nat /\ d.counter < counter
    BY DEF TypeOK, Datagram
  <1> QED  BY <1>1, <1>2, <1>3 DEF TypeOK

\* What the window lets through has not been opened.
LEMMA AllowedIsNew ==
  ASSUME TypeOK, BitmapExact, NEW c \in Nat, started => window_allows(c)
  PROVE  c \notin opened
  <1>1. CASE ~started  BY <1>1 DEF BitmapExact
  <1>2. CASE started
    <2>1. CASE c > highest  BY <1>2, <2>1 DEF BitmapExact, TypeOK
    <2>2. CASE c <= highest /\ highest - c < Window /\ highest - c \notin seen
      <3>1. highest - c \in Distances /\ highest - (highest - c) = c
        BY <2>2 DEF TypeOK, Distances
      <3> QED  BY <1>2, <2>2, <3>1 DEF BitmapExact, TypeOK
    <2> QED  BY <1>2, <2>1, <2>2 DEF window_allows, TypeOK
  <1> QED  BY <1>1, <1>2 DEF TypeOK

LEMMA RecordType ==
  ASSUME TypeOK, NEW c \in Nat, record(c)
  PROVE  started' \in BOOLEAN /\ highest' \in Nat /\ seen' \subseteq 0..(Window - 1)
  <1>1. started' \in BOOLEAN
    BY DEF record
  <1>2. highest' \in Nat
    BY DEF TypeOK, record
  <1>3. 0 \in 0..(Window - 1)
    OBVIOUS
  <1>4. seen' \subseteq 0..(Window - 1)
    <2>1. CASE started /\ c <= highest  BY <2>1 DEF TypeOK, record
    <2>2. CASE started /\ ~(c <= highest)  BY <1>3, <2>2 DEF record
    <2>3. CASE ~started  BY <1>3, <2>3 DEF record
    <2> QED  BY <2>1, <2>2, <2>3
  <1> QED  BY <1>1, <1>2, <1>4

\* Recording a counter sets its bit and moves the others with the window.
LEMMA RecordExact ==
  ASSUME TypeOK, BitmapExact, NEW c \in Nat, record(c), opened' = opened \cup {c}
  PROVE  BitmapExact'
  <1>1. CASE ~started
    <2>1. started' /\ highest' = c /\ seen' = {0} /\ opened' = {c}
      BY <1>1 DEF record, BitmapExact
    <2> QED  BY <2>1 DEF BitmapExact, Distances
  <1>2. CASE started /\ c <= highest
    <2>1. started' /\ highest' = highest /\ seen' = seen \cup ({highest - c} \cap Distances)
      BY <1>2 DEF record, Distances
    <2>2. ASSUME NEW b \in Distances
          PROVE  b \in seen' <=> b <= highest /\ highest - b \in opened'
      <3>1. b \in seen <=> b <= highest /\ highest - b \in opened
        BY <1>2, <2>2 DEF BitmapExact
      <3>2. b = highest - c <=> b <= highest /\ highest - b = c
        BY <1>2, <2>2 DEF TypeOK, Distances
      <3> QED  BY <2>1, <3>1, <3>2
    <2>3. highest' \in opened' /\ \A x \in opened' : x <= highest'
      BY <1>2, <2>1 DEF BitmapExact
    <2> QED  BY <2>1, <2>2, <2>3 DEF BitmapExact
  <1>3. CASE started /\ c > highest
    <2> DEFINE shift == c - highest
    <2>1. started' /\ highest' = c
          /\ seen' = {b \in Distances : b >= shift /\ b - shift \in seen} \cup {0}
      BY <1>3 DEF record, Distances, TypeOK
    <2>2. shift \in Nat /\ shift > 0
      BY <1>3 DEF TypeOK
    <2>3. ASSUME NEW b \in Distances
          PROVE  b \in seen' <=> b <= c /\ c - b \in opened'
      <3>1. CASE b = 0  BY <2>1, <3>1
      <3>2. CASE b > 0 /\ b < shift
        <4>1. c - b \in Nat /\ c - b > highest /\ c - b # c
          BY <2>2, <2>3, <3>2 DEF TypeOK, Distances
        <4>2. c - b \notin opened'
          BY <4>1, <1>3 DEF BitmapExact, TypeOK
        <4>3. b \notin seen'
          BY <2>1, <2>2, <2>3, <3>2 DEF Distances
        <4> QED  BY <4>2, <4>3
      <3>3. CASE b >= shift
        <4>1. b - shift \in Distances /\ b > 0
          BY <2>2, <2>3, <3>3 DEF Distances
        <4>2. b \in seen' <=> b - shift \in seen
          BY <2>1, <2>3, <3>3, <4>1
        <4>3. b - shift \in seen <=> b - shift <= highest /\ highest - (b - shift) \in opened
          BY <1>3, <4>1 DEF BitmapExact
        <4>4. b - shift <= highest <=> b <= c
          BY <2>3, <1>3 DEF TypeOK, Distances
        <4>5. highest - (b - shift) = c - b /\ c - b # c
          BY <2>3, <1>3, <4>1 DEF TypeOK, Distances
        <4> QED  BY <4>2, <4>3, <4>4, <4>5
      <3> QED  BY <2>2, <2>3, <3>1, <3>2, <3>3 DEF Distances
    <2>4. highest' \in opened' /\ \A x \in opened' : x <= highest'
      <3>1. \A x \in opened : x \in Nat /\ x <= highest
        BY <1>3 DEF BitmapExact, TypeOK
      <3> QED  BY <1>3, <2>1, <3>1 DEF TypeOK
    <2> QED  BY <2>1, <2>3, <2>4 DEF BitmapExact
  <1> QED  BY <1>1, <1>2, <1>3 DEF TypeOK

LEMMA StepInv == IInv /\ [Next]_vars => IInv'
  <1> SUFFICES ASSUME IInv, [Next]_vars PROVE IInv'
    OBVIOUS
  <1> USE DEF IInv
  <1>1. CASE Send
    <2>1. local \in Address /\ seal(local) /\ UNCHANGED <<local, opener, peer, opened, twice>>
      BY <1>1 DEF Send, TypeOK
    <2>2. TypeOK'
      BY <2>1, SealType DEF TypeOK, opener
    <2>3. BitmapExact' /\ OpenedOnce'
      BY <2>1 DEF BitmapExact, OpenedOnce, opener
    <2> QED  BY <2>2, <2>3
  <1>2. CASE Migrate
    <2>1. PICK from \in Address : local' = from /\ seal(from)
      BY <1>2 DEF Migrate
    <2>2. UNCHANGED <<opener, peer, opened, twice>>
      BY <1>2 DEF Migrate
    <2>3. TypeOK'
      BY <2>1, <2>2, SealType DEF TypeOK, opener
    <2>4. BitmapExact' /\ OpenedOnce'
      BY <2>2 DEF BitmapExact, OpenedOnce, opener
    <2> QED  BY <2>3, <2>4
  <1>3. ASSUME NEW d \in datagrams, NEW intact \in BOOLEAN, open_windowed(d, intact)
        PROVE  IInv'
    <2>1. d.counter \in Nat /\ d.from \in Address
      BY DEF TypeOK, Datagram
    <2>2. /\ record(d.counter) /\ opened' = opened \cup {d.counter}
          /\ started => window_allows(d.counter)
          /\ peer' = d.from /\ UNCHANGED sender
      BY <1>3 DEF open_windowed
    <2>3. d.counter \notin opened
      BY <2>1, <2>2, AllowedIsNew
    <2>4. twice' = twice
      BY <1>3, <2>3 DEF open_windowed
    <2>5. started' \in BOOLEAN /\ highest' \in Nat /\ seen' \subseteq 0..(Window - 1)
      BY <2>1, <2>2, RecordType
    <2>6. TypeOK'
      BY <2>1, <2>2, <2>4, <2>5 DEF TypeOK, sender
    <2>7. BitmapExact'
      BY <2>1, <2>2, RecordExact
    <2> QED  BY <2>4, <2>6, <2>7 DEF OpenedOnce
  <1>4. CASE UNCHANGED vars
    BY <1>4 DEF vars, sender, opener, TypeOK, BitmapExact, OpenedOnce
  <1> QED  BY <1>1, <1>2, <1>3, <1>4 DEF Next

LEMMA Invariant == Spec => []IInv
  BY InitInv, StepInv, PTL DEF Spec

\* Types, and that no two datagrams are sealed with one counter.
THEOREM WindowTyped == Spec => []TypeOK
  BY Invariant, PTL DEF IInv

\* However the network repeats and reorders datagrams, none is opened twice
\* (open_windowed).
THEOREM NeverTwice == Spec => []OpenedOnce
  BY Invariant, PTL DEF IInv

\* The window refuses no unopened datagram inside its width (window_allows).
THEOREM NothingWasted == Spec => []FreshAllowed
  <1>1. IInv => FreshAllowed
    <2> SUFFICES ASSUME IInv, NEW d \in datagrams, started, d.counter \notin opened,
                        highest < d.counter + Window
                 PROVE  window_allows(d.counter)
      BY DEF FreshAllowed
    <2>1. d.counter \in Nat /\ highest \in Nat
      BY DEF IInv, TypeOK, Datagram
    <2>2. CASE d.counter > highest  BY <2>2 DEF window_allows
    <2>3. CASE d.counter <= highest
      <3>1. highest - d.counter \in Distances /\ highest - (highest - d.counter) = d.counter
        BY <2>1, <2>3 DEF Distances
      <3>2. highest - d.counter \notin seen
        BY <3>1 DEF IInv, BitmapExact
      <3>3. highest - d.counter < Window
        BY <3>1 DEF Distances
      <3> QED  BY <3>2, <3>3 DEF window_allows
    <2> QED  BY <2>1, <2>2, <2>3
  <1> QED  BY <1>1, Invariant, PTL

--------------------------------------------------------------------------------
(* The whole path.                                                             *)

\* A move of the client is one announce, sealed under the next counter
\* (control.rs, client_control_loop), from a new address or the old one.
LEMMA MoveAnnounces == ASSUME ClientMoves PROVE [Next]_vars
<1>1. CASE window' = window
  BY <1>1 DEF vars, window
<1>2. CASE /\ UNCHANGED <<opener, peer, opened, twice>>
           /\ \E from \in Address : local' = from /\ seal(from)
  <2>1. PICK from \in Address : local' = from /\ seal(from)
    BY <1>2
  <2>2. CASE from = local
    BY <1>2, <2>1, <2>2 DEF Next, Send
  <2>3. CASE from # local
    BY <1>2, <2>1, <2>3 DEF Next, Migrate
  <2>4. QED
    BY <2>2, <2>3
<1>3. QED
  BY <1>1, <1>2 DEF ClientMoves

\* No step of a resume but the client's move touches a datagram.
LEMMA MigrationKeeps == ASSUME Migration PROVE [Next]_vars
<1>1. CASE ClientMoves
  BY <1>1, MoveAnnounces
<1>2. CASE ~ClientMoves
  <2>1. window' = window
    BY <1>2 DEF Migration, ResumeBegins, Decide, BindBeside, Take, Drained, DrainTimesOut,
                Rebind, Fallback, Commit, InMigration, window
  <2>2. QED
    BY <2>1 DEF vars, window
<1>3. QED
  BY <1>1, <1>2

\* The streams and their locks have nothing to do with UDP datagrams.
LEMMA StreamsKeep ==
    ASSUME \/ \E w \in Workers : Lease(w) \/ WorkerTakes(w)
           \/ \E t \in Threads : GoesOn(t)
           \/ SupervisorLooks \/ SupervisorDials
           \/ \E t \in Opener : HostAccepts(t)
           \/ StreamBreaks \/ SessionEnds \/ CallEnds
    PROVE  [Next]_vars
<1>1. window' = window
  BY DEF Lease, WorkerTakes, GoesOn, WorkerEnters, WorkerReturns, WorkerClears, ShutReader,
         ShutWriter, Leave, Installs, SupervisorLooks, SupervisorDials, DialFails, HostAccepts,
         StreamBreaks, SessionEnds, CallEnds, TcpFrame, window
<1>2. QED
  BY <1>1 DEF vars, window

--------------------------------------------------------------------------------
\* The composed path implements ReplayWindow: every step of the workers, of a
\* resume and of the TCP slot is a step of the window or leaves it alone.
THEOREM PathIsWindow == PathSpec => Spec
<1>1. PathInit => Init
  BY DEF PathInit
<1>2. [PathNext]_allVars => [Next]_vars
  <2>1. SUFFICES ASSUME [PathNext]_allVars PROVE [Next]_vars
    OBVIOUS
  <2>2. CASE UNCHANGED allVars
    BY <2>2 DEF allVars, window, vars
  <2>3. CASE Receive
    BY <2>3 DEF Receive, Next
  <2>4. CASE ClientSends
    BY <2>4 DEF ClientSends, Next
  <2>5. CASE Migration
    BY <2>5, MigrationKeeps
  <2>6. CASE \/ \E w \in Workers : Lease(w) \/ WorkerTakes(w)
             \/ \E t \in Threads : GoesOn(t)
             \/ SupervisorLooks \/ SupervisorDials
             \/ \E t \in Opener : HostAccepts(t)
             \/ StreamBreaks \/ SessionEnds \/ CallEnds
    BY <2>6, StreamsKeep
  <2>7. QED
    BY <2>1, <2>2, <2>3, <2>4, <2>5, <2>6 DEF PathNext
<1>3. QED
  BY <1>1, <1>2, PTL DEF PathSpec, Spec

\* No counter is opened twice on a path whose socket moves while datagrams are
\* under way (crypto.rs, Opener::open_windowed): the opener outlives the socket.
THEOREM PathNeverTwice == PathSpec => []OpenedOnce
  BY PathIsWindow, NeverTwice, PTL

\* Nor is a datagram inside the window refused, whatever moves or fails.
THEOREM PathNothingWasted == PathSpec => []FreshAllowed
  BY PathIsWindow, NothingWasted, PTL

--------------------------------------------------------------------------------
(* Where the socket of a UDP session is while a resume moves it.           *)

Sockets == [addr : HostAddress \cup {Wild, NoLink}, port : {"negotiated"}]

\* The steps at which the old socket is out of the slot, and those after which
\* the client learns the outcome.
Taken  == {"drain", "rebind", "fallback"}
Moving == {"bind", "take"} \cup Taken
Moved  == {"commit", "client"}

\* The client would find the host at this socket, or somebody has been told.
Found(s) == s.addr \in {Wild, resume.via} \/ astray

ResumeInv ==
    /\ "at" \in DOMAIN resume
    /\ resume.at \in {"none", "dropped", "decide"} \cup Moving \cup Moved
    /\ At("decide") => resume.via \in HostAddress
    /\ resume.at \in {"bind", "take"} =>
          resume = [at |-> resume.at, via |-> resume.via, to |-> resume.to]
    /\ resume.at \in Taken =>
          resume = [at |-> resume.at, via |-> resume.via, to |-> resume.to, old |-> resume.old]
    /\ resume.at \in Moved => "via" \in DOMAIN resume
    /\ resume.at \in Moving => resume.to \in Sockets /\ Found(resume.to)
    /\ resume.at \in Taken => resume.old \in Sockets

\* The slot is empty only between the taking and the binding, or for ever.
SlotInv ==
    /\ slot # None => slot \in Sockets
    /\ slot = None => resume.at \in Taken \/ (At("none") /\ ~alive)
    /\ resume.at \in Moved => Found(slot)
    /\ At("none") /\ alive => slot.addr \in {Wild, target} \/ astray

ReachInv == UdpRuns => ResumeInv /\ SlotInv

\* None is no socket.
LEMMA SocketReal == ASSUME NEW s \in Sockets PROVE s # None
<1>1. s = [addr |-> s.addr, port |-> "negotiated"] /\ s.addr \in HostAddress \cup {Wild, NoLink}
  BY DEF Sockets
<1> QED  BY <1>1, TransportConstants

LEMMA ReachInit == ASSUME PathInit PROVE ReachInv
<1>1. /\ resume = [at |-> "none"] /\ alive
  BY DEF PathInit, NoResume
<1>2. resume.at = "none" /\ "at" \in DOMAIN resume
  BY <1>1
<1>3. ResumeInv
  BY <1>2 DEF ResumeInv, At, Taken, Moving, Moved
<1>4. ASSUME UdpRuns PROVE SlotInv
  <2>1. PICK a \in {target, Wild} : slot = [addr |-> a, port |-> "negotiated"]
    BY <1>4 DEF PathInit, Socket
  <2>2. target \in HostAddress
    BY DEF PathInit
  <2>3. slot \in Sockets /\ slot.addr = a
    BY <2>1, <2>2 DEF Sockets
  <2>4. slot # None
    BY <2>1, <2>2, TransportConstants
  <2> QED  BY <1>2, <2>1, <2>3, <2>4 DEF SlotInv, At, Taken, Moved
<1> QED  BY <1>3, <1>4 DEF ReachInv

\* Workers, datagrams, streams and the end of the session move no socket.
LEMMA OthersReach ==
  ASSUME ReachInv, UNCHANGED <<transport, slot, resume, target, astray>>, alive' => alive
  PROVE  ReachInv'
  BY DEF ReachInv, UdpRuns, ResumeInv, SlotInv, At, Found

LEMMA DecideReaches ==
  ASSUME ReachInv, Decide
  PROVE  ReachInv'
<1> USE DEF At
<1>1. PICK desired \in HostAddress \cup {Wild, NoLink} :
        /\ astray' = (desired \notin {Wild, resume.via})
        /\ resume' = [via |-> resume.via,
               to |-> Socket(desired, IF slot = None THEN "fresh" ELSE slot.port),
               at |-> IF desired = NoLink \/ (slot # None /\ slot.addr = desired) THEN "commit"
                      ELSE IF slot # None /\ udp_binds_collide(slot, desired, slot.port) THEN "take"
                      ELSE "bind"]
  BY DEF Decide
<1>2. /\ UdpRuns /\ ResumeInv /\ SlotInv /\ resume.via \in HostAddress
      /\ slot # None /\ slot \in Sockets /\ resume.at = "decide"
  BY DEF Decide, ReachInv, ResumeInv, SlotInv, Taken
<1> DEFINE after == IF desired = NoLink \/ (slot # None /\ slot.addr = desired) THEN "commit"
                    ELSE IF slot # None /\ udp_binds_collide(slot, desired, slot.port) THEN "take"
                    ELSE "bind"
           to    == Socket(desired, IF slot = None THEN "fresh" ELSE slot.port)
<1>3. to \in Sockets /\ to.addr = desired
  BY <1>2 DEF Sockets, Socket
<1>4. /\ after \in {"commit", "take", "bind"}
      /\ after = "commit" => desired = NoLink \/ slot.addr = desired
  OBVIOUS
<1>5. resume' = [at |-> after, via |-> resume.via, to |-> to]
  BY <1>1
<1>6. desired = NoLink => astray'
  BY <1>1, <1>2, TransportConstants
<1> HIDE DEF after, to
<1>7. UNCHANGED <<transport, alive, slot, target>>
  BY DEF Decide, InMigration
<1>8. /\ resume'.at = after /\ resume'.via = resume.via /\ resume'.to = to
      /\ "at" \in DOMAIN resume' /\ "via" \in DOMAIN resume'
  BY <1>5
<1>9. after = "commit" => slot'.addr \in {Wild, resume'.via} \/ astray'
  BY <1>1, <1>4, <1>6, <1>7, <1>8
<1>10. to.addr \in {Wild, resume'.via} \/ astray'
  BY <1>1, <1>3, <1>8
<1>11. ResumeInv'
  BY <1>3, <1>4, <1>5, <1>8, <1>10 DEF ResumeInv, Taken, Moving, Moved, Found
<1>12. SlotInv'
  <2>1. slot' # None /\ slot' \in Sockets /\ resume'.at \notin Taken \cup {"none"}
    BY <1>2, <1>4, <1>7, <1>8 DEF Taken
  <2>2. resume'.at \in Moved => slot'.addr \in {Wild, resume'.via} \/ astray'
    BY <1>4, <1>8, <1>9 DEF Moved
  <2> QED  BY <2>1, <2>2 DEF SlotInv, Found
<1> QED  BY <1>11, <1>12 DEF ReachInv

\* Beside the old socket, or after it, the new one is on the same port; whatever
\* fails, the old socket comes back or an error is reported.
LEMMA MovesReach ==
  ASSUME ReachInv, BindBeside \/ Take \/ Drained \/ DrainTimesOut \/ Rebind \/ Fallback
  PROVE  ReachInv'
<1> USE DEF At, Go, InMigration
<1> SUFFICES ASSUME UdpRuns, ResumeInv, SlotInv PROVE ResumeInv' /\ SlotInv'
  BY DEF ReachInv, UdpRuns, BindBeside, Take, Drained, DrainTimesOut, Rebind, Fallback
<1>1. CASE BindBeside
  <2>1. /\ resume = [at |-> "bind", via |-> resume.via, to |-> resume.to]
        /\ resume.to \in Sockets /\ Found(resume.to) /\ slot # None /\ slot \in Sockets
    BY <1>1 DEF BindBeside, ResumeInv, SlotInv, Moving, Taken
  <2>2. /\ resume'.at = "commit" /\ resume'.via = resume.via
        /\ "at" \in DOMAIN resume' /\ "via" \in DOMAIN resume'
    BY <1>1, <2>1 DEF BindBeside
  <2>3. slot' \in Sockets /\ slot' # None /\ Found(slot)'
    BY <1>1, <2>1, <2>2, SocketReal DEF BindBeside, Found
  <2> QED  BY <2>2, <2>3 DEF ResumeInv, SlotInv, Moving, Taken, Moved
<1>2. CASE Take
  <2>1. /\ resume.to \in Sockets /\ Found(resume.to) /\ slot # None /\ slot \in Sockets
    BY <1>2 DEF Take, ResumeInv, SlotInv, Moving, Taken
  <2>2. /\ resume' = [at |-> "drain", via |-> resume.via, to |-> resume.to, old |-> slot]
        /\ slot' = None /\ astray' = astray
    BY <1>2 DEF Take
  <2> QED  BY <2>1, <2>2 DEF ResumeInv, SlotInv, Moving, Taken, Moved, Found
<1>3. CASE Drained
  <2>1. /\ resume = [at |-> "drain", via |-> resume.via, to |-> resume.to, old |-> resume.old]
        /\ resume.to \in Sockets /\ Found(resume.to) /\ resume.old \in Sockets
    BY <1>3 DEF Drained, ResumeInv, Moving, Taken
  <2>2. /\ resume' = [at |-> "rebind", via |-> resume.via, to |-> resume.to, old |-> resume.old]
        /\ slot' = slot /\ astray' = astray
    BY <1>3, <2>1 DEF Drained
  <2> QED  BY <2>1, <2>2 DEF ResumeInv, SlotInv, Moving, Taken, Moved, Found
<1>4. CASE DrainTimesOut
  <2>1. /\ resume = [at |-> "drain", via |-> resume.via, to |-> resume.to, old |-> resume.old]
        /\ resume.old \in Sockets
    BY <1>4 DEF DrainTimesOut, ResumeInv, Moving, Taken
  <2>2. /\ resume' = [at |-> "commit", via |-> resume.via, to |-> resume.to, old |-> resume.old]
        /\ slot' = resume.old /\ astray'
    BY <1>4, <2>1 DEF DrainTimesOut
  <2>3. slot' # None
    BY <2>1, <2>2, SocketReal
  <2> QED  BY <2>1, <2>2, <2>3 DEF ResumeInv, SlotInv, Moving, Taken, Moved, Found
<1>5. CASE Rebind
  <2>1. /\ resume = [at |-> "rebind", via |-> resume.via, to |-> resume.to, old |-> resume.old]
        /\ resume.to \in Sockets /\ Found(resume.to) /\ resume.old \in Sockets
    BY <1>5 DEF Rebind, ResumeInv, Moving, Taken
  <2>2. CASE slot' = resume.to /\ resume' = [resume EXCEPT !.at = "commit"]
    <3>1. /\ resume' = [at |-> "commit", via |-> resume.via, to |-> resume.to, old |-> resume.old]
          /\ astray' = astray /\ slot' # None
      BY <1>5, <2>1, <2>2, SocketReal DEF Rebind
    <3> QED  BY <2>1, <2>2, <3>1 DEF ResumeInv, SlotInv, Moving, Taken, Moved, Found
  <2>3. CASE slot' = slot /\ resume' = [resume EXCEPT !.at = "fallback"]
    <3>1. /\ resume' = [at |-> "fallback", via |-> resume.via, to |-> resume.to, old |-> resume.old]
          /\ astray' = astray
      BY <1>5, <2>1, <2>3 DEF Rebind
    <3> QED  BY <2>1, <2>3, <3>1 DEF ResumeInv, SlotInv, Moving, Taken, Moved, Found
  <2> QED  BY <1>5, <2>2, <2>3 DEF Rebind
<1>6. CASE Fallback
  <2>1. /\ resume = [at |-> "fallback", via |-> resume.via, to |-> resume.to, old |-> resume.old]
        /\ resume.old \in Sockets
    BY <1>6 DEF Fallback, ResumeInv, Moving, Taken
  <2>2. CASE slot' = Socket(Wild, resume.old.port) /\ Go("commit")
    <3>1. /\ resume' = [at |-> "commit", via |-> resume.via, to |-> resume.to, old |-> resume.old]
          /\ astray'
      BY <1>6, <2>1, <2>2 DEF Fallback
    <3>2. slot' \in Sockets
      BY <2>1, <2>2 DEF Sockets, Socket
    <3>3. slot' # None
      BY <3>2, SocketReal
    <3> QED  BY <3>1, <3>2, <3>3 DEF ResumeInv, SlotInv, Moving, Taken, Moved, Found
  <2>3. CASE slot' = slot /\ resume' = NoResume /\ ~alive'
    BY <1>6, <2>3 DEF NoResume, ResumeInv, SlotInv, Moving, Taken, Moved
  <2> QED  BY <1>6, <2>2, <2>3 DEF Fallback
<1> QED  BY <1>1, <1>2, <1>3, <1>4, <1>5, <1>6

\* A resume starts from a live session, and its end tells the client where the
\* host is, or the session is over, or the client has to come back once more.
LEMMA EndsReach ==
  ASSUME ReachInv, ResumeBegins \/ Commit \/ ClientMoves
  PROVE  ReachInv'
<1> USE DEF At, NoResume
<1> SUFFICES ASSUME UdpRuns, ResumeInv, SlotInv PROVE ResumeInv' /\ SlotInv'
  BY DEF ReachInv, UdpRuns, ResumeBegins, Commit, ClientMoves
<1>1. CASE ResumeBegins
  <2>1. PICK via \in HostAddress : resume' = [at |-> "decide", via |-> via]
    BY <1>1 DEF ResumeBegins
  <2>2. slot' = slot /\ slot # None /\ slot \in Sockets
    BY <1>1 DEF ResumeBegins, SlotInv, Taken
  <2> QED  BY <2>1, <2>2 DEF ResumeInv, SlotInv, Moving, Taken, Moved
<1>2. CASE Commit
  <2>1. /\ slot' = slot /\ slot # None /\ slot \in Sockets /\ Found(slot) /\ astray' = astray
        /\ "at" \in DOMAIN resume /\ "via" \in DOMAIN resume /\ resume.at = "commit"
    BY <1>2 DEF Commit, ResumeInv, SlotInv, Taken, Moved
  <2>2. CASE resume' = [resume EXCEPT !.at = "client"]
    <3>1. /\ resume'.at = "client" /\ resume'.via = resume.via
          /\ "at" \in DOMAIN resume' /\ "via" \in DOMAIN resume'
      BY <2>1, <2>2
    <3> QED  BY <2>1, <3>1 DEF ResumeInv, SlotInv, Moving, Taken, Moved, Found
  <2>3. CASE resume' = [at |-> "dropped"]
    BY <2>1, <2>3 DEF ResumeInv, SlotInv, Moving, Taken, Moved
  <2>4. CASE resume' = [at |-> "none"] /\ alive' = FALSE
    BY <2>1, <2>4 DEF ResumeInv, SlotInv, Moving, Taken, Moved
  <2> QED  BY <1>2, <2>2, <2>3, <2>4 DEF Commit
<1>3. CASE ClientMoves
  <2>1. /\ slot' = slot /\ slot # None /\ slot \in Sockets /\ Found(slot)
        /\ resume' = [at |-> "none"] /\ alive' = alive
    BY <1>3 DEF ClientMoves, ResumeInv, SlotInv, Taken, Moved
  <2>2. slot.addr \in {Wild, target'} \/ astray'
    BY <1>3, <2>1 DEF ClientMoves, Found
  <2> QED  BY <2>1, <2>2 DEF ResumeInv, SlotInv, Moving, Taken, Moved
<1> QED  BY <1>1, <1>2, <1>3

LEMMA ReachStep ==
  ASSUME ReachInv, [PathNext]_allVars
  PROVE  ReachInv'
<1>1. CASE Migration
  BY <1>1, DecideReaches, MovesReach, EndsReach DEF Migration
<1>2. CASE \/ \E w \in Workers : Lease(w) \/ WorkerTakes(w)
           \/ Receive \/ CallEnds \/ ClientSends
           \/ \E t \in Threads : GoesOn(t)
           \/ SupervisorLooks \/ SupervisorDials
           \/ \E t \in Opener : HostAccepts(t)
           \/ StreamBreaks \/ SessionEnds \/ UNCHANGED allVars
  <2>1. UNCHANGED <<transport, slot, resume, target, astray>>
    BY <1>2 DEF Lease, WorkerTakes, Receive, CallEnds, ClientSends, GoesOn, WorkerEnters,
                WorkerReturns, WorkerClears, ShutReader, ShutWriter, Leave, Installs,
                SupervisorLooks, SupervisorDials, DialFails, HostAccepts, StreamBreaks,
                SessionEnds, TcpFrame, allVars, udp
  <2>2. alive' => alive
    BY <1>2 DEF Lease, WorkerTakes, Receive, CallEnds, ClientSends, GoesOn, WorkerEnters,
                WorkerReturns, WorkerClears, ShutReader, ShutWriter, Leave, Installs,
                SupervisorLooks, SupervisorDials, DialFails, HostAccepts, StreamBreaks,
                SessionEnds, allVars
  <2> QED  BY <2>1, <2>2, OthersReach
<1> QED  BY <1>1, <1>2 DEF PathNext

\* Whatever fails while a resume moves the socket of a live UDP session, after
\* it the session has an audio socket, on the port the client was told, and at
\* an address the client sends to, or an error was reported or the host prefers
\* another link (migrate_udp_audio_socket_with, finish_resume): for any number
\* of links, resumes and failures.
THEOREM SocketReachable == PathSpec => []AudioReachable
<1>1. PathInit => ReachInv
  BY ReachInit
<1>2. ReachInv /\ [PathNext]_allVars => ReachInv'
  BY ReachStep
<1>3. ReachInv => AudioReachable
  BY DEF ReachInv, ResumeInv, SlotInv, AudioReachable, At, NoResume, Taken, Sockets
<1> QED  BY <1>1, <1>2, <1>3, PTL DEF PathSpec


--------------------------------------------------------------------------------
(* The jitter buffer.                                                      *)

Ahead == 0..MaxForward

TypeInv ==
    /\ sequence \in Sequence /\ inFlight \subseteq Sequence /\ queued \subseteq Sequence
    /\ primed \in BOOLEAN /\ draining \in BOOLEAN /\ falseLoss \in BOOLEAN
    /\ IF primed THEN next \in Sequence ELSE next = Unset
    /\ anchor \in Sequence \cup {Unset}
    /\ lookahead \in MinLookahead..MaxLookahead /\ clean \in Nat
    /\ disorder \in 0..MaxReorder /\ outage \in 0..MaxOutage /\ starved \in 0..StarveCap

\* Before playback there is an anchor for what is queued, and the worker waits
\* for a frame only as long as the depth is not reached.
PrimingInv == ~primed =>
    /\ IsFiniteSet(queued) /\ Cardinality(queued) <= Depth
    /\ ~draining => Cardinality(queued) < Depth
    /\ queued # {} => anchor \in Sequence

\* Afterwards what is queued is inside the window.
WindowInv == primed => \A s \in queued : Distance(s, next) \in Ahead

JitterInv == TypeInv /\ PrimingInv /\ WindowInv

--------------------------------------------------------------------------------
(* Arithmetic of the sequence numbers.                                     *)

LEMMA Constants ==
  /\ Numbers \in Nat /\ Numbers > 0 /\ Depth \in Nat /\ Depth > 0
  /\ MinLookahead \in Nat /\ MinLookahead > 0 /\ MaxLookahead \in Nat /\ MinLookahead <= MaxLookahead
  /\ DecayPops \in Nat /\ MaxForward \in Nat /\ MaxForward > 0
  /\ MaxQueued \in Nat /\ MaxReorder \in Nat /\ MaxOutage \in Nat
  /\ Depth <= MaxQueued /\ MaxForward < MaxQueued
  /\ 2 * MaxForward < Numbers
  /\ Unset \notin Sequence
  BY JitterAssumption DEF Sequence

LEMMA Wraps ==
  ASSUME NEW x \in Int
  PROVE  /\ 0 <= x /\ x < Numbers => x % Numbers = x
         /\ -Numbers <= x /\ x < 0 => x % Numbers = x + Numbers
         /\ x = Numbers => x % Numbers = 0
<1>1. 0 <= x /\ x < Numbers => x % Numbers = x
  BY Constants
<1>2. -Numbers <= x /\ x < 0 => x % Numbers = x + Numbers
  BY Constants
<1>3. x = Numbers => x % Numbers = 0
  BY Constants
<1> QED  BY <1>1, <1>2, <1>3

LEMMA Subtracted ==
  ASSUME NEW s \in Sequence, NEW t \in Sequence
  PROVE  /\ wrapping_sub(s, t) = IF s >= t THEN s - t ELSE s - t + Numbers
         /\ wrapping_sub(s, t) \in Nat /\ wrapping_sub(s, t) < Numbers
<1>1. s \in Nat /\ t \in Nat /\ s < Numbers /\ t < Numbers /\ s - t \in Int
  BY Constants DEF Sequence
<1>2. CASE s >= t
  BY <1>1, <1>2, Wraps, Constants DEF wrapping_sub
<1>3. CASE s < t
  BY <1>1, <1>3, Wraps, Constants DEF wrapping_sub
<1> QED  BY <1>1, <1>2, <1>3

LEMMA Advanced ==
  ASSUME NEW s \in Sequence
  PROVE  /\ wrapping_add(s) = IF s + 1 = Numbers THEN 0 ELSE s + 1
         /\ wrapping_add(s) \in Sequence
<1>1. s \in Nat /\ s < Numbers /\ s + 1 \in Int
  BY Constants DEF Sequence
<1> QED  BY <1>1, Wraps, Constants DEF wrapping_add, Sequence

LEMMA Measured ==
  ASSUME NEW s \in Sequence, NEW t \in Sequence
  PROVE  /\ Distance(s, t) \in Int
         /\ Distance(s, t) >= 0 => Distance(s, t) = wrapping_sub(s, t)
         /\ Distance(s, t) = 0 <=> s = t
<1>1. wrapping_sub(s, t) \in Nat /\ wrapping_sub(s, t) < Numbers
      /\ wrapping_sub(s, t) = IF s >= t THEN s - t ELSE s - t + Numbers
  BY Subtracted
<1>2. Distance(s, t) = IF 2 * wrapping_sub(s, t) >= Numbers THEN wrapping_sub(s, t) - Numbers
                       ELSE wrapping_sub(s, t)
  BY DEF Distance
<1>3. s \in Nat /\ t \in Nat /\ s < Numbers /\ t < Numbers
  BY Constants DEF Sequence
<1> QED  BY <1>1, <1>2, <1>3, Constants

\* One step of playback brings everything queued ahead one step nearer.
LEMMA Nearer ==
  ASSUME NEW s \in Sequence, NEW t \in Sequence, Distance(s, t) \in Ahead, s # t
  PROVE  Distance(s, wrapping_add(t)) = Distance(s, t) - 1
<1> DEFINE d == wrapping_sub(s, t)
           e == wrapping_sub(s, wrapping_add(t))
<1>1. d \in Nat /\ d = IF s >= t THEN s - t ELSE s - t + Numbers
  BY Subtracted
<1>2. Distance(s, t) = d /\ d > 0 /\ d <= MaxForward
  BY <1>1, Measured, Constants DEF Ahead
<1>3. wrapping_add(t) \in Sequence /\ wrapping_add(t) = IF t + 1 = Numbers THEN 0 ELSE t + 1
  BY Advanced
<1>4. e \in Nat /\ e = IF s >= wrapping_add(t) THEN s - wrapping_add(t)
                       ELSE s - wrapping_add(t) + Numbers
  BY <1>3, Subtracted
<1>5. s \in Nat /\ t \in Nat /\ s < Numbers /\ t < Numbers
  BY Constants DEF Sequence
<1>6. e = d - 1
  BY <1>1, <1>2, <1>3, <1>4, <1>5, Constants
<1>7. Distance(s, wrapping_add(t)) = IF 2 * e >= Numbers THEN e - Numbers ELSE e
  BY DEF Distance
<1> HIDE DEF d, e
<1>8. 2 * e < Numbers
  BY <1>1, <1>2, <1>6, Constants
<1>9. Distance(s, wrapping_add(t)) = e
  <2>1. ~(2 * e >= Numbers)
    BY <1>4, <1>8, Constants
  <2> QED  BY <1>7, <2>1
<1> QED  BY <1>2, <1>6, <1>9

--------------------------------------------------------------------------------
(* Cardinalities and minima.                                               *)

LEMMA Injected ==
  ASSUME NEW S, NEW T, IsFiniteSet(T), NEW f \in [S -> T],
         \A x, y \in S : f[x] = f[y] => x = y
  PROVE  IsFiniteSet(S) /\ Cardinality(S) <= Cardinality(T)
<1>1. f \in Injection(S, T)
  BY DEF Injection, IsInjective
<1> QED  BY <1>1, FS_Injection

Below == {p \in Nat \X Nat : p[1] < p[2]}

LEMMA Smallest ==
  ASSUME NEW S \in SUBSET Nat, S # {}
  PROVE  \E x \in S : \A y \in S : x <= y
<1>1. IsWellFoundedOn(Below, Nat)
  BY NatLessThanWellFounded DEF OpToRel, Below
<1>2. PICK x \in S : \A y \in S : <<y, x>> \notin Below
  BY <1>1, WFMin
<1>3. ASSUME NEW y \in S, y < x
      PROVE  <<y, x>> \in Below
  <2>1. <<y, x>> \in Nat \X Nat /\ <<y, x>>[1] = y /\ <<y, x>>[2] = x
    OBVIOUS
  <2> QED  BY <1>3, <2>1 DEF Below
<1>4. ASSUME NEW y \in S
      PROVE  x <= y
  <2>1. ~(y < x) /\ x \in Nat /\ y \in Nat
    BY <1>2, <1>3
  <2> QED  BY <2>1
<1> QED  BY <1>4

\* Frames inside the window are at different distances, so there are at most as
\* many as the window is wide.
LEMMA WindowHolds ==
  ASSUME NEW q \in SUBSET Sequence, NEW t \in Sequence, \A s \in q : Distance(s, t) \in Ahead
  PROVE  IsFiniteSet(q) /\ Cardinality(q) \in Nat /\ Cardinality(q) <= MaxForward + 1
<1> DEFINE f == [s \in q |-> Distance(s, t)]
<1>1. f \in [q -> Ahead]
  OBVIOUS
<1>2. ASSUME NEW x \in q, NEW y \in q, f[x] = f[y]
      PROVE  x = y
  <2>1. Distance(x, t) = Distance(y, t) /\ Distance(x, t) >= 0
    BY <1>2, Constants DEF Ahead
  <2>2. wrapping_sub(x, t) = wrapping_sub(y, t)
    BY <2>1, Measured
  <2>3. x \in Nat /\ y \in Nat /\ t \in Nat /\ x < Numbers /\ y < Numbers /\ t < Numbers
    BY Constants DEF Sequence
  <2> QED  BY <2>2, <2>3, Subtracted, Constants
<1> HIDE DEF f
<1>3. IsFiniteSet(Ahead) /\ Cardinality(Ahead) = MaxForward + 1
  BY FS_Interval, Constants DEF Ahead
<1>4. IsFiniteSet(q) /\ Cardinality(q) <= MaxForward + 1
  BY <1>1, <1>2, <1>3, Injected
<1> QED  BY <1>4, FS_CardinalityType

--------------------------------------------------------------------------------
(* The steps.                                                              *)

LEMMA InitHolds == ASSUME JitterInit PROVE JitterInv
<1>1. TypeInv
  <2>1. 0 \in Sequence /\ MinLookahead \in MinLookahead..MaxLookahead /\ 0 \in 0..StarveCap
        /\ 0 \in 0..MaxOutage
    BY Constants DEF Sequence, StarveCap
  <2> QED  BY <2>1 DEF JitterInit, TypeInv
<1>2. PrimingInv
  BY Constants, FS_EmptySet DEF JitterInit, PrimingInv
<1>3. WindowInv
  BY DEF JitterInit, WindowInv
<1> QED  BY <1>1, <1>2, <1>3 DEF JitterInv

LEMMA NetworkKeeps ==
  ASSUME JitterInv, SendFrame \/ LoseFrame
  PROVE  JitterInv'
<1>1. UNCHANGED <<buffer, draining, starved, falseLoss, disorder>>
  BY DEF SendFrame, LoseFrame
<1>2. sequence' \in Sequence /\ inFlight' \subseteq Sequence /\ outage' \in 0..MaxOutage
  BY Advanced, Constants DEF SendFrame, LoseFrame, Sent, JitterInv, TypeInv
<1>3. TypeInv'
  BY <1>1, <1>2 DEF JitterInv, TypeInv, buffer, StarveCap
<1>4. PrimingInv' /\ WindowInv'
  BY <1>1 DEF JitterInv, PrimingInv, WindowInv, buffer
<1> QED  BY <1>3, <1>4 DEF JitterInv

LEMMA EvictedLess == ASSUME NEW q PROVE Evicted(q) \subseteq q
  BY DEF Evicted

\* A frame is queued inside the window, or refused.
LEMMA ReceiveKeeps ==
  ASSUME JitterInv, NEW f \in Sequence, ReceiveFrame(f)
  PROVE  JitterInv'
<1>1. TypeInv /\ ~draining /\ push(f) /\ UNCHANGED <<disorder, sequence, outage, falseLoss>>
      /\ inFlight' = inFlight \ {f} /\ starved' = LowerOf(starved + 1, StarveCap)
  BY DEF JitterInv, ReceiveFrame
<1>2. starved' \in 0..StarveCap
  BY <1>1, Constants DEF TypeInv, LowerOf, StarveCap
<1>3. CASE GrowLookahead /\ UNCHANGED <<queued, next, primed, anchor, draining>>
  <2>1. lookahead' \in MinLookahead..MaxLookahead /\ clean' = 0
    BY <1>1, <1>3, Constants DEF GrowLookahead, LowerOf, TypeInv
  <2>2. TypeInv'
    BY <1>1, <1>2, <1>3, <2>1 DEF TypeInv, StarveCap
  <2> QED  BY <1>3, <2>2 DEF JitterInv, PrimingInv, WindowInv
<1>4. CASE UNCHANGED <<buffer, draining>>
  <2>1. TypeInv'
    BY <1>1, <1>2, <1>4 DEF TypeInv, buffer, StarveCap
  <2> QED  BY <1>4, <2>1 DEF JitterInv, PrimingInv, WindowInv, buffer
<1>5. CASE /\ ~(primed /\ Distance(f, next) < 0) /\ ~(primed /\ Distance(f, next) > MaxForward)
           /\ queued' = Evicted(queued \cup {f}) /\ draining' = (f \notin queued)
           /\ anchor' = NewAnchor(f) /\ UNCHANGED <<next, primed, lookahead, clean>>
  <2>1. queued' \subseteq queued \cup {f}
    BY <1>5, EvictedLess
  <2>2. anchor' \in Sequence \cup {Unset}
    BY <1>1, <1>5 DEF NewAnchor, TypeInv
  <2>3. TypeInv'
    BY <1>1, <1>2, <1>5, <2>1, <2>2 DEF TypeInv, StarveCap
  <2>4. WindowInv'
    <3> SUFFICES ASSUME primed', NEW s \in queued' PROVE Distance(s, next') \in Ahead
      BY DEF WindowInv
    <3>1. primed /\ next' = next /\ next \in Sequence
      BY <1>1, <1>5 DEF TypeInv
    <3>2. Distance(f, next) \in Ahead
      BY <1>5, <3>1, Measured, Constants DEF Ahead
    <3> QED  BY <2>1, <3>1, <3>2 DEF JitterInv, WindowInv
  <2>5. PrimingInv'
    <3> SUFFICES ASSUME ~primed'
                 PROVE  /\ IsFiniteSet(queued') /\ Cardinality(queued') <= Depth
                        /\ ~draining' => Cardinality(queued') < Depth
                        /\ queued' # {} => anchor' \in Sequence
      BY DEF PrimingInv
    <3>1. /\ ~primed /\ IsFiniteSet(queued) /\ Cardinality(queued) \in Nat
          /\ Cardinality(queued) < Depth
          /\ queued # {} => anchor \in Sequence
      BY <1>1, <1>5, FS_CardinalityType DEF JitterInv, PrimingInv
    <3>2. /\ IsFiniteSet(queued \cup {f}) /\ Cardinality(queued \cup {f}) \in Nat
          /\ Cardinality(queued \cup {f}) <= Depth
      <4>1. IsFiniteSet(queued \cup {f})
            /\ Cardinality(queued \cup {f}) = IF f \in queued THEN Cardinality(queued)
                                               ELSE Cardinality(queued) + 1
        BY <3>1, FS_AddElement
      <4> QED  BY <3>1, <4>1, Constants
    <3>3. queued' = queued \cup {f}
      BY <1>5, <3>2, Constants DEF Evicted
    <3>4. ~draining' => queued' = queued
      BY <1>5, <3>3
    <3>5. anchor' \in Sequence
      BY <1>1, <1>5, <3>1 DEF NewAnchor, TypeInv
    <3> QED  BY <3>1, <3>2, <3>3, <3>4, <3>5
  <2> QED  BY <2>3, <2>4, <2>5 DEF JitterInv
<1> QED  BY <1>1, <1>3, <1>4, <1>5 DEF push

\* Playback starts with the earliest frame after the anchor.
\* With enough frames, playback begins with the one nearest to the anchor.
LEMMA Begins ==
  ASSUME JitterInv, PopUnprimed, ~(Cardinality(queued) < Depth)
  PROVE  \E start \in queued :
           /\ primed' = TRUE /\ next' = start
           /\ queued' = {s \in queued : Distance(s, start) \in 0..MaxForward}
           /\ UNCHANGED <<net, anchor, lookahead, clean, draining, starved, falseLoss>>
           /\ \A t \in queued : wrapping_sub(start, anchor) <= wrapping_sub(t, anchor)
<1> DEFINE start == CHOOSE s \in queued :
                       \A t \in queued : wrapping_sub(s, anchor) <= wrapping_sub(t, anchor)
           offsets == {wrapping_sub(s, anchor) : s \in queued}
<1>1. /\ primed' = TRUE /\ next' = start
      /\ queued' = {s \in queued : Distance(s, start) \in 0..MaxForward}
      /\ UNCHANGED <<net, anchor, lookahead, clean, draining, starved, falseLoss>>
  BY DEF PopUnprimed
<1>2. queued # {} /\ anchor \in Sequence /\ queued \subseteq Sequence
  <2>1. queued # {}
    BY FS_EmptySet, Constants
  <2> QED  BY <2>1 DEF JitterInv, PrimingInv, TypeInv, PopUnprimed
<1>3. offsets \subseteq Nat /\ offsets # {}
  BY <1>2, Subtracted
<1>4. \E s \in queued : \A t \in queued : wrapping_sub(s, anchor) <= wrapping_sub(t, anchor)
  <2>1. PICK x \in offsets : \A y \in offsets : x <= y
    BY <1>3, Smallest
  <2>2. PICK s \in queued : x = wrapping_sub(s, anchor)
    OBVIOUS
  <2> QED  BY <2>1, <2>2
<1>5. start \in queued /\ \A t \in queued : wrapping_sub(start, anchor) <= wrapping_sub(t, anchor)
  BY <1>4
<1> HIDE DEF start, offsets
<1> QED  BY <1>1, <1>5

LEMMA PrimingKeeps ==
  ASSUME JitterInv, PopUnprimed
  PROVE  JitterInv'
<1>1. /\ TypeInv /\ PrimingInv /\ draining /\ ~primed
      /\ UNCHANGED <<net, anchor, lookahead, clean, starved, falseLoss>>
  BY DEF JitterInv, PopUnprimed
<1>2. CASE Cardinality(queued) < Depth
  <2>1. draining' = FALSE /\ UNCHANGED <<queued, next, primed>>
    BY <1>2 DEF PopUnprimed
  <2>2. TypeInv'
    BY <1>1, <2>1 DEF TypeInv, net, StarveCap
  <2>3. PrimingInv' /\ WindowInv'
    BY <1>1, <1>2, <2>1 DEF PrimingInv, WindowInv
  <2> QED  BY <2>2, <2>3 DEF JitterInv
<1>3. CASE ~(Cardinality(queued) < Depth)
  <2>1. PICK start \in queued :
           /\ primed' = TRUE /\ next' = start
           /\ queued' = {s \in queued : Distance(s, start) \in 0..MaxForward}
           /\ UNCHANGED <<net, anchor, lookahead, clean, draining, starved, falseLoss>>
    BY <1>3, Begins
  <2>2. TypeInv'
    BY <1>1, <2>1 DEF TypeInv, net, StarveCap
  <2>3. PrimingInv' /\ WindowInv'
    BY <2>1 DEF PrimingInv, WindowInv, Ahead
  <2> QED  BY <2>2, <2>3 DEF JitterInv
<1> QED  BY <1>2, <1>3

\* Playback goes on by one frame: the next one, or a concealed one.
LEMMA PlaybackKeeps ==
  ASSUME JitterInv, PopFrame \/ PopMissing
  PROVE  JitterInv'
<1>1. TypeInv /\ WindowInv /\ primed /\ next \in Sequence /\ primed' = primed
  BY DEF JitterInv, TypeInv, PopFrame, PopMissing
<1>2. wrapping_add(next) \in Sequence
  BY <1>1, Advanced
<1>3. ASSUME NEW s \in queued, s # next
      PROVE  Distance(s, wrapping_add(next)) \in Ahead
  <2>1. s \in Sequence /\ Distance(s, next) \in Ahead /\ Distance(s, next) # 0
    BY <1>1, <1>3, Measured DEF TypeInv, WindowInv
  <2>2. Distance(s, wrapping_add(next)) = Distance(s, next) - 1
    BY <1>1, <1>3, <2>1, Nearer
  <2> QED  BY <2>1, <2>2, Constants DEF Ahead
<1>4. PrimingInv'
  BY <1>1 DEF PrimingInv
<1>5. CASE PopFrame
  <2>1. /\ queued' = queued \ {next} /\ next' = wrapping_add(next) /\ RelaxLookahead
        /\ starved' = 0 /\ UNCHANGED <<net, anchor, draining, falseLoss>>
    BY <1>5 DEF PopFrame
  <2>2. lookahead' \in MinLookahead..MaxLookahead /\ clean' \in Nat
    BY <1>1, <2>1, Constants DEF RelaxLookahead, TypeInv
  <2>3. TypeInv'
    BY <1>1, <1>2, <2>1, <2>2, Constants DEF TypeInv, net, StarveCap
  <2>4. WindowInv'
    BY <1>3, <2>1 DEF WindowInv
  <2> QED  BY <1>4, <2>3, <2>4 DEF JitterInv
<1>6. CASE PopMissing
  <2>1. /\ UNCHANGED <<net, queued, anchor, lookahead, starved>> /\ next \notin queued
        /\ \/ /\ next' = wrapping_add(next) /\ clean' = 0 /\ UNCHANGED draining
              /\ falseLoss' = (falseLoss \/ next \in inFlight)
           \/ draining' = FALSE /\ UNCHANGED <<next, clean, falseLoss>>
    BY <1>6 DEF PopMissing
  <2>2. TypeInv'
    <3>1. falseLoss' \in BOOLEAN
      BY <1>1, <2>1, Zenon DEF TypeInv
    <3>2. draining' \in BOOLEAN
      BY <1>1, <2>1, Zenon DEF TypeInv
    <3>3. next' \in Sequence
      BY <1>1, <1>2, <2>1, Zenon
    <3>4. clean' = 0 \/ clean' = clean
      BY <2>1, Zenon
    <3>5. clean' \in Nat
      BY <1>1, <3>4 DEF TypeInv
    <3>6. UNCHANGED <<net, queued, anchor, lookahead, starved>>
      BY <2>1
    <3> QED  BY <1>1, <3>1, <3>2, <3>3, <3>5, <3>6 DEF TypeInv, net, StarveCap
  <2>3. WindowInv'
    BY <1>1, <1>3, <2>1 DEF WindowInv
  <2> QED  BY <1>4, <2>2, <2>3 DEF JitterInv
<1> QED  BY <1>5, <1>6

LEMMA StepKeeps ==
  ASSUME JitterInv, [JitterNext]_jitterVars
  PROVE  JitterInv'
<1>1. CASE UNCHANGED jitterVars
  BY <1>1 DEF JitterInv, TypeInv, PrimingInv, WindowInv, jitterVars, net, buffer, StarveCap
<1>2. CASE JitterNext
  BY <1>2, NetworkKeeps, ReceiveKeeps, PrimingKeeps, PlaybackKeeps DEF JitterNext, RxStep
<1> QED  BY <1>1, <1>2

--------------------------------------------------------------------------------
(* What is promised.                                                       *)

\* Whatever the network does, the queue is inside the window once playback has
\* started and under the depth before (push and pop of audio.rs).
THEOREM JitterInvariant == JitterSpec => []JitterInv
<1>1. JitterInit => JitterInv
  BY InitHolds
<1>2. JitterInv /\ [JitterNext]_jitterVars => JitterInv'
  BY StepKeeps
<1> QED  BY <1>1, <1>2, PTL DEF JitterSpec

\* Every sequence number, anchor and tolerance keeps its range: the tolerance
\* never leaves MIN_LOOKAHEAD..MAX_LOOKAHEAD.
THEOREM TypeCorrect == JitterSpec => []TypeInv
<1>1. JitterInv => TypeInv
  BY DEF JitterInv
<1> QED  BY <1>1, JitterInvariant, PTL

\* What is queued can still be played, and its number stays within the window
\* and MAX_QUEUED_FRAMES, so the eviction of the smallest key, which is wrong
\* across the wrap-around, never runs (push, pop).
THEOREM QueueBounded == JitterSpec => []QueuePlayable
<1>1. ASSUME JitterInv
      PROVE  /\ primed => \A s \in queued : Distance(s, next) \in 0..MaxForward
             /\ Cardinality(queued) <= LowerOf(MaxQueued, IF primed THEN MaxForward + 1 ELSE Depth)
  <2>1. primed => \A s \in queued : Distance(s, next) \in 0..MaxForward
    BY <1>1 DEF JitterInv, WindowInv, Ahead
  <2>2. CASE primed
    <3>1. Cardinality(queued) \in Nat /\ Cardinality(queued) <= MaxForward + 1
      BY <1>1, <2>2, WindowHolds DEF JitterInv, TypeInv, WindowInv
    <3> QED  BY <2>1, <2>2, <3>1, Constants DEF LowerOf
  <2>3. CASE ~primed
    <3>1. Cardinality(queued) \in Nat /\ Cardinality(queued) <= Depth
      BY <1>1, <2>3, FS_CardinalityType DEF JitterInv, PrimingInv
    <3> QED  BY <2>3, <3>1, Constants DEF LowerOf
  <2> QED  BY <1>1, <2>1, <2>2, <2>3 DEF JitterInv, TypeInv
<1>2. JitterInv => QueuePlayable
  BY <1>1 DEF QueuePlayable
<1> QED  BY <1>2, JitterInvariant, PTL

--------------------------------------------------------------------------------
(* Playback on a network the window has room for.                          *)
(*                                                                         *)
(* Positions are counted backwards from the frame to be sent next, so that *)
(* the wrap-around is met in the lemmas about Age and nowhere else.        *)

\* How many frames ago s was sent, and where playback is or will begin.
Age(s) == wrapping_sub(sequence, s)
Start == IF primed THEN next ELSE 0
Span == Age(Start)

\* What is in flight is recent; all of it, and what is queued, is still to be
\* played.
Placed ==
    /\ IsFiniteSet(inFlight) /\ inFlight \cap queued = {}
    /\ \A f \in inFlight : Age(f) \in 1..(disorder + 1) /\ Age(f) <= Span
    /\ \A s \in queued : Age(s) \in 1..Span

\* Of Run frames in a row since the one that is next some arrived or will, and
\* outage of them, the latest, did not and will not.
Run == MaxOutage + 1
Covered ==
    \A a \in Nat : 1 <= a /\ a + MaxOutage <= Span =>
        \E s \in queued \cup inFlight : Age(s) \in a..(a + MaxOutage)
Trailing ==
    outage < Span => \E s \in queued \cup inFlight : Age(s) = outage + 1

\* The first arrival is the anchor, and what it overtook was close behind.
Anchored ==
    ~primed =>
        IF queued = {} THEN anchor = Unset
        ELSE /\ anchor \in queued
             /\ \A s \in queued \cup inFlight : Age(s) <= Age(anchor) + disorder

\* The worker has played what it can, unless it is about to.
DrainedOut ==
    /\ IsFiniteSet(queued) /\ Cardinality(queued) <= Wide
    /\ lookahead = MinLookahead
    /\ primed /\ ~draining => next \notin queued /\ Cardinality(queued) < MinLookahead

\* Since a frame was played, every arrival is in the queue.
Fed == starved <= Cardinality(queued) \/ (primed /\ draining /\ next \in queued /\ starved <= Wide)

PlayInv == Placed /\ Covered /\ Trailing /\ Anchored /\ DrainedOut /\ Fed /\ ~falseLoss

--------------------------------------------------------------------------------
(* Ages.                                                                   *)

LEMMA Room ==
  ASSUME Bridged
  PROVE  /\ Run \in Nat /\ Run > 0 /\ Wide \in Nat /\ Wide * Run \in Nat
         /\ Depth <= Wide /\ MinLookahead <= Wide /\ Wide <= MaxForward
         /\ Wide * Run + MinLookahead <= MaxForward + 2
         /\ (Wide + 1) * Run = Wide * Run + Run
         /\ 2 * (MinLookahead - 1) <= Depth
         /\ 4 * (MaxForward + Run) <= Numbers
<1>1. Run \in Nat /\ Run > 0 /\ Wide \in Nat /\ Depth <= Wide /\ MinLookahead <= Wide
  BY Constants DEF Run, Wide
<1>2. Wide * Run \in Nat /\ (Wide + 1) * Run = Wide * Run + Run /\ Wide <= Wide * Run
  BY <1>1
<1>3. Wide * Run + MinLookahead <= MaxForward + 2 /\ Depth <= MaxForward
  BY DEF Bridged, Run
<1>4. Wide <= MaxForward
  <2>1. 2 * MinLookahead <= MaxForward + 2
    BY <1>1, <1>2, <1>3, Constants
  <2>2. MinLookahead <= MaxForward
    BY <2>1, Constants
  <2> QED  BY <1>3, <2>2, Constants DEF Wide
<1> QED  BY <1>1, <1>2, <1>3, <1>4, Constants DEF Bridged, Run

LEMMA AgeTyped ==
  ASSUME TypeInv, NEW s \in Sequence
  PROVE  Age(s) \in Nat /\ Age(s) < Numbers
  BY Subtracted DEF Age, TypeInv

LEMMA StartTyped ==
  ASSUME TypeInv
  PROVE  Start \in Sequence /\ Span \in Nat /\ Span < Numbers
<1>1. Start \in Sequence
  BY Constants DEF TypeInv, Start, Sequence
<1> QED  BY <1>1, AgeTyped DEF Span

LEMMA SameAge ==
  ASSUME TypeInv, NEW s \in Sequence, NEW t \in Sequence, Age(s) = Age(t)
  PROVE  s = t
<1>1. s \in Nat /\ t \in Nat /\ sequence \in Nat /\ s < Numbers /\ t < Numbers /\ sequence < Numbers
  BY Constants DEF Sequence, TypeInv
<1> QED  BY <1>1, Subtracted, Constants DEF Age, TypeInv

\* Everything sent before grows older by one.
LEMMA Older ==
  ASSUME NEW q \in Sequence, NEW s \in Sequence, wrapping_sub(q, s) + 1 < Numbers
  PROVE  wrapping_sub(wrapping_add(q), s) = wrapping_sub(q, s) + 1
<1>1. s \in Nat /\ q \in Nat /\ s < Numbers /\ q < Numbers
  BY Constants DEF Sequence
<1>2. wrapping_add(q) \in Sequence /\ wrapping_add(q) = IF q + 1 = Numbers THEN 0 ELSE q + 1
  BY Advanced
<1>3. wrapping_sub(q, s) = IF q >= s THEN q - s ELSE q - s + Numbers
  BY Subtracted
<1>4. wrapping_sub(wrapping_add(q), s) =
        IF wrapping_add(q) >= s THEN wrapping_add(q) - s ELSE wrapping_add(q) - s + Numbers
  BY <1>2, Subtracted
<1> QED  BY <1>1, <1>2, <1>3, <1>4, Constants

\* The frame just sent is one frame old.
LEMMA Youngest ==
  ASSUME NEW q \in Sequence, Numbers > 1
  PROVE  wrapping_sub(q, q) = 0 /\ wrapping_sub(wrapping_add(q), q) = 1
<1>1. wrapping_sub(q, q) = 0
  <2>1. q \in Nat
    BY Constants DEF Sequence
  <2> QED  BY <2>1, Subtracted
<1> QED  BY <1>1, Older

\* Playback goes on by one frame, towards the youngest.
LEMMA Younger ==
  ASSUME NEW q \in Sequence, NEW s \in Sequence, wrapping_sub(q, s) > 0
  PROVE  wrapping_sub(q, wrapping_add(s)) = wrapping_sub(q, s) - 1
<1>1. s \in Nat /\ q \in Nat /\ s < Numbers /\ q < Numbers
  BY Constants DEF Sequence
<1>2. wrapping_add(s) \in Sequence /\ wrapping_add(s) = IF s + 1 = Numbers THEN 0 ELSE s + 1
  BY Advanced
<1>3. wrapping_sub(q, s) = IF q >= s THEN q - s ELSE q - s + Numbers
  BY Subtracted
<1>4. wrapping_sub(q, wrapping_add(s)) =
        IF q >= wrapping_add(s) THEN q - wrapping_add(s) ELSE q - wrapping_add(s) + Numbers
  BY <1>2, Subtracted
<1> QED  BY <1>1, <1>2, <1>3, <1>4, Constants

\* The signed distance of two recent frames is the difference of their ages.
LEMMA Between ==
  ASSUME TypeInv, NEW s \in Sequence, NEW t \in Sequence, 2 * Age(s) < Numbers, 2 * Age(t) < Numbers
  PROVE  Distance(s, t) = Age(t) - Age(s)
<1>1. s \in Nat /\ t \in Nat /\ sequence \in Nat /\ s < Numbers /\ t < Numbers /\ sequence < Numbers
      /\ sequence \in Sequence
  BY Constants DEF Sequence, TypeInv
<1>2. /\ Age(s) = IF sequence >= s THEN sequence - s ELSE sequence - s + Numbers
      /\ Age(t) = IF sequence >= t THEN sequence - t ELSE sequence - t + Numbers
  BY <1>1, Subtracted DEF Age
<1>3. wrapping_sub(s, t) = IF s >= t THEN s - t ELSE s - t + Numbers
  BY Subtracted
<1>4. Distance(s, t) = IF 2 * wrapping_sub(s, t) >= Numbers THEN wrapping_sub(s, t) - Numbers
                       ELSE wrapping_sub(s, t)
  BY DEF Distance
<1>5. Age(s) \in Nat /\ Age(t) \in Nat
  BY AgeTyped
<1>6. CASE Age(t) >= Age(s)
  <2>1. wrapping_sub(s, t) = Age(t) - Age(s)
    BY <1>1, <1>2, <1>3, <1>5, <1>6, Constants
  <2> QED  BY <1>4, <1>5, <1>6, <2>1, Constants
<1>7. CASE Age(t) < Age(s)
  <2>1. wrapping_sub(s, t) = Age(t) - Age(s) + Numbers
    BY <1>1, <1>2, <1>3, <1>5, <1>7, Constants
  <2> QED  BY <1>4, <1>5, <1>7, <2>1, Constants
<1> QED  BY <1>5, <1>6, <1>7

--------------------------------------------------------------------------------
(* Counting what is queued.                                                *)

\* Of every Run frames that are no longer in flight one is queued, so m times
\* as many hold m queued frames.
LEMMA Blocks ==
  ASSUME TypeInv, Placed, Covered, IsFiniteSet(queued), NEW m \in Nat, NEW g \in Nat,
         g >= disorder + 2, g + m * Run <= Span + 1
  PROVE  m <= Cardinality({s \in queued : Age(s) >= g})
<1> DEFINE Old == {s \in queued : Age(s) >= g}
           In(i, s) == s \in Old /\ g + i * Run <= Age(s) /\ Age(s) < g + (i + 1) * Run
           f == [i \in 0..(m - 1) |-> CHOOSE s \in Old : In(i, s)]
<1>1. Run \in Nat /\ Run > 0 /\ Run = MaxOutage + 1 /\ disorder \in Nat /\ queued \subseteq Sequence
  BY Constants DEF Run, TypeInv
<1>2. ASSUME NEW i \in 0..(m - 1)
      PROVE  \E s \in Old : In(i, s)
  <2>1. i \in Nat /\ i + 1 <= m /\ i * Run \in Nat /\ (i + 1) * Run = i * Run + Run
    BY <1>1
  <2>2. (i + 1) * Run <= m * Run
    BY <1>1, <2>1
  <2>3. g + i * Run \in Nat /\ 1 <= g + i * Run /\ g + i * Run + MaxOutage <= Span
    BY <1>1, <2>1, <2>2, StartTyped, Constants
  <2>4. PICK s \in queued \cup inFlight : Age(s) \in (g + i * Run)..(g + i * Run + MaxOutage)
    BY <2>3 DEF Covered
  <2>5. s \in Sequence /\ Age(s) \in Nat
    BY <1>1, AgeTyped DEF TypeInv
  <2>6. Age(s) >= g
    BY <2>1, <2>3, <2>4, <2>5, Constants
  <2>7. s \notin inFlight
    BY <1>1, <2>5, <2>6 DEF Placed
  <2> QED  BY <1>1, <2>1, <2>4, <2>5, <2>6, <2>7, Constants
<1>3. ASSUME NEW i \in 0..(m - 1)
      PROVE  f[i] \in Old /\ In(i, f[i])
  BY <1>2, <1>3
<1> HIDE DEF f
<1>4. ASSUME NEW i \in 0..(m - 1), NEW j \in 0..(m - 1), f[i] = f[j], i < j
      PROVE  FALSE
  <2>1. i \in Nat /\ j \in Nat /\ i + 1 <= j
    BY <1>4
  <2>2. (i + 1) * Run <= j * Run
    BY <1>1, <2>1
  <2>3. Age(f[i]) < g + (i + 1) * Run /\ g + j * Run <= Age(f[i])
    BY <1>3, <1>4
  <2>4. Age(f[i]) \in Nat /\ (i + 1) * Run \in Nat /\ j * Run \in Nat
    BY <1>1, <1>3, <2>1, AgeTyped
  <2> QED  BY <2>2, <2>3, <2>4
<1>5. \A i, j \in 0..(m - 1) : f[i] = f[j] => i = j
  <2> SUFFICES ASSUME NEW i \in 0..(m - 1), NEW j \in 0..(m - 1), f[i] = f[j], i # j
               PROVE  FALSE
    OBVIOUS
  <2>1. i < j \/ j < i
    OBVIOUS
  <2> QED  BY <1>4, <2>1
<1>6. f \in [0..(m - 1) -> Old]
  BY <1>3 DEF f
<1>7. IsFiniteSet(Old)
  BY FS_Subset
<1> HIDE DEF Old
<1>8. Cardinality(0..(m - 1)) <= Cardinality(Old)
  BY <1>5, <1>6, <1>7, Injected
<1>9. Cardinality(0..(m - 1)) = m
  BY FS_Interval
<1> QED  BY <1>8, <1>9 DEF Old

\* A queue of n frames reaches back no further than n + 1 runs and what is in
\* flight.
LEMMA SpanBounded ==
  ASSUME TypeInv, Placed, Covered, IsFiniteSet(queued), NEW n \in Nat, Cardinality(queued) <= n
  PROVE  Span <= (n + 1) * Run + disorder
<1>1. Run \in Nat /\ disorder \in Nat /\ Span \in Nat /\ (n + 1) * Run \in Nat
  BY Constants, StartTyped DEF Run, TypeInv
<1> SUFFICES ASSUME Span > (n + 1) * Run + disorder
             PROVE  FALSE
  BY <1>1
<1> DEFINE Old == {s \in queued : Age(s) >= disorder + 2}
<1>2. n + 1 <= Cardinality(Old)
  <2>1. disorder + 2 + (n + 1) * Run <= Span + 1 /\ n + 1 \in Nat /\ disorder + 2 \in Nat
    BY <1>1
  <2> QED  BY <1>1, <2>1, Blocks
<1>3. Cardinality(Old) <= Cardinality(queued) /\ Cardinality(Old) \in Nat /\ Cardinality(queued) \in Nat
  BY FS_Subset, FS_CardinalityType
<1> QED  BY <1>2, <1>3

--------------------------------------------------------------------------------
(* The steps of playback.                                                  *)

Calm == JitterInv /\ Bridged /\ disorder < MinLookahead /\ PlayInv

\* What the queue and the window leave of the numbers.
LEMMA CalmSpan ==
  ASSUME Calm
  PROVE  /\ Span \in Nat /\ Span <= MaxForward + 1 + Run
         /\ disorder \in Nat /\ disorder + 1 <= MinLookahead /\ Run \in Nat /\ Run = MaxOutage + 1 /\ Run > 0
         /\ Span + 1 < Numbers /\ 2 * Span < Numbers /\ 2 * (disorder + 1) < Numbers /\ disorder + 2 < Numbers
         /\ Cardinality(queued) \in Nat
<1>1. /\ TypeInv /\ Placed /\ Covered /\ IsFiniteSet(queued) /\ Cardinality(queued) <= Wide
      /\ Bridged /\ disorder < MinLookahead
  BY DEF Calm, JitterInv, PlayInv, DrainedOut
<1>2. Span \in Nat /\ disorder \in Nat /\ MinLookahead \in Nat /\ Cardinality(queued) \in Nat
  BY <1>1, StartTyped, Constants, FS_CardinalityType DEF TypeInv
<1>3. Span <= (Wide + 1) * Run + disorder
  BY <1>1, SpanBounded, Room
<1> QED  BY <1>1, <1>2, <1>3, Room, Constants DEF Run

LEMMA CalmAges ==
  ASSUME Calm
  PROVE  /\ \A f \in inFlight : /\ f \in Sequence /\ Age(f) \in Nat /\ 1 <= Age(f)
                                /\ Age(f) <= disorder + 1 /\ Age(f) <= Span
         /\ \A s \in queued : s \in Sequence /\ Age(s) \in Nat /\ 1 <= Age(s) /\ Age(s) <= Span
<1>1. TypeInv /\ Placed /\ inFlight \subseteq Sequence /\ queued \subseteq Sequence
  BY DEF Calm, JitterInv, PlayInv, TypeInv
<1> QED  BY <1>1, AgeTyped, CalmSpan DEF Placed

LEMMA InitPlays == ASSUME JitterInit PROVE PlayInv
<1>1. Span = 0
  <2>1. 0 \in Sequence
    BY Constants DEF Sequence
  <2> QED  BY <2>1, Subtracted DEF JitterInit, Span, Start, Age
<1>2. Placed
  BY FS_EmptySet DEF JitterInit, Placed
<1>3. Covered /\ Trailing
  BY <1>1, Constants DEF JitterInit, Covered, Trailing
<1>4. Anchored
  BY DEF JitterInit, Anchored
<1>5. DrainedOut
  BY FS_EmptySet, Constants DEF JitterInit, DrainedOut, Wide
<1>6. Fed
  BY FS_EmptySet DEF JitterInit, Fed
<1> QED  BY <1>2, <1>3, <1>4, <1>5, <1>6 DEF JitterInit, PlayInv

\* The sender and the network: everything is one frame older.
LEMMA NetworkPlays ==
  ASSUME Calm, SendFrame \/ LoseFrame
  PROVE  PlayInv'
<1>1. /\ Sent /\ UNCHANGED <<disorder, buffer, draining, starved, falseLoss>>
      /\ \/ inFlight' = inFlight \cup {sequence} /\ outage' = 0
         \/ inFlight' = inFlight /\ outage' = outage + 1 /\ outage < MaxOutage
  BY DEF SendFrame, LoseFrame
<1>2. /\ TypeInv /\ Placed /\ Covered /\ Trailing /\ Anchored /\ DrainedOut /\ Fed /\ ~falseLoss
      /\ sequence \in Sequence /\ outage \in Nat
  BY Constants DEF Calm, JitterInv, PlayInv, TypeInv
<1>3. /\ queued' = queued /\ Start' = Start /\ Start \in Sequence
      /\ sequence' = wrapping_add(sequence)
  BY <1>1, <1>2, StartTyped DEF Start, buffer, Sent
<1>4. Span' = Span + 1
  <2>1. wrapping_sub(sequence, Start) + 1 < Numbers
    BY CalmSpan DEF Span, Age
  <2>2. wrapping_sub(wrapping_add(sequence), Start) = wrapping_sub(sequence, Start) + 1
    BY <1>2, <1>3, <2>1, Older
  <2> QED  BY <1>3, <2>2 DEF Span, Age
<1>5. ASSUME NEW s \in queued \cup inFlight
      PROVE  s \in Sequence /\ wrapping_sub(sequence', s) = Age(s) + 1
  <2>1. s \in Sequence /\ Age(s) + 1 < Numbers
    BY CalmSpan, CalmAges, Constants
  <2> QED  BY <1>2, <1>3, <2>1, Older DEF Age
<1>6. wrapping_sub(sequence', sequence) = 1 /\ sequence \notin queued \cup inFlight
  <2>1. Age(sequence) = 0 /\ wrapping_sub(wrapping_add(sequence), sequence) = 1
    BY <1>2, Youngest, CalmSpan, Constants DEF Age
  <2> QED  BY <1>3, <2>1, CalmAges
<1>7. Placed'
  <2>1. IsFiniteSet(inFlight') /\ inFlight' \cap queued' = {}
    <3>1. IsFiniteSet(inFlight \cup {sequence})
      BY <1>2, FS_AddElement DEF Placed
    <3> QED  BY <1>1, <1>2, <1>3, <1>6, <3>1 DEF Placed
  <2>2. ASSUME NEW x \in inFlight'
        PROVE  wrapping_sub(sequence', x) \in 1..(disorder' + 1)
               /\ wrapping_sub(sequence', x) <= Span'
    <3>1. disorder' = disorder
      BY <1>1
    <3>2. CASE x = sequence
      BY <1>4, <1>6, <3>1, <3>2, CalmSpan
    <3>3. CASE x \in inFlight
      <4>1. Age(x) <= disorder /\ Age(x) \in Nat /\ Age(x) >= 1 /\ Age(x) <= Span
        BY <1>1, <3>3, CalmAges DEF Sent, Age
      <4> QED  BY <1>4, <1>5, <3>1, <3>3, <4>1, CalmSpan
    <3> QED  BY <1>1, <3>2, <3>3
  <2>3. ASSUME NEW x \in queued'
        PROVE  wrapping_sub(sequence', x) \in 1..Span'
    BY <1>3, <1>4, <1>5, <2>3, CalmAges, CalmSpan
  <2> QED  BY <2>1, <2>2, <2>3 DEF Placed, Age
<1>8. Trailing'
  <2>1. CASE inFlight' = inFlight \cup {sequence} /\ outage' = 0
    BY <1>6, <2>1 DEF Trailing, Age
  <2>2. CASE inFlight' = inFlight /\ outage' = outage + 1
    <3>1. outage' < Span' => outage < Span
      BY <1>2, <1>4, <2>2, CalmSpan
    <3>2. outage < Span => \E s \in queued \cup inFlight : wrapping_sub(sequence', s) = outage' + 1
      BY <1>2, <1>5, <2>2 DEF Trailing
    <3> QED  BY <1>3, <2>2, <3>1, <3>2 DEF Trailing, Age
  <2> QED  BY <1>1, <2>1, <2>2
<1>9. Covered'
  <2> SUFFICES ASSUME NEW a \in Nat, 1 <= a, a + MaxOutage <= Span'
               PROVE  \E s \in queued' \cup inFlight' : wrapping_sub(sequence', s) \in a..(a + MaxOutage)
    BY DEF Covered, Age
  <2>1. CASE a = 1
    <3>1. outage' \in Nat /\ outage' <= MaxOutage /\ outage' < Span'
      BY <1>1, <1>2, <1>4, <2>1, CalmSpan, Constants
    <3>2. PICK s \in queued' \cup inFlight' : wrapping_sub(sequence', s) = outage' + 1
      BY <1>8, <3>1 DEF Trailing, Age
    <3> QED  BY <2>1, <3>1, <3>2, Constants
  <2>2. CASE a > 1
    <3>1. a - 1 \in Nat /\ 1 <= a - 1 /\ (a - 1) + MaxOutage <= Span
      BY <1>4, <2>2, CalmSpan, Constants
    <3>2. PICK s \in queued \cup inFlight : Age(s) \in (a - 1)..((a - 1) + MaxOutage)
      BY <1>2, <3>1 DEF Covered
    <3>3. s \in queued' \cup inFlight' /\ wrapping_sub(sequence', s) = Age(s) + 1
      BY <1>1, <1>3, <1>5
    <3> QED  BY <3>2, <3>3, Constants
  <2> QED  BY <2>1, <2>2
<1>10. Anchored'
  <2>1. UNCHANGED <<queued, anchor, primed>>
    BY <1>1 DEF buffer
  <2>2. CASE ~primed /\ queued # {}
    <3>1. anchor \in queued /\ \A s \in queued \cup inFlight : Age(s) <= Age(anchor) + disorder
      BY <1>2, <2>2 DEF Anchored
    <3>2. wrapping_sub(sequence', anchor) = Age(anchor) + 1 /\ Age(anchor) \in Nat
      BY <1>5, <3>1, CalmAges
    <3>3. ASSUME NEW s \in queued \cup inFlight'
          PROVE  wrapping_sub(sequence', s) <= wrapping_sub(sequence', anchor) + disorder
      <4>1. CASE s = sequence
        BY <1>6, <3>2, <4>1, CalmSpan
      <4>2. CASE s \in queued \cup inFlight
        BY <1>5, <3>1, <3>2, <4>2, CalmAges, CalmSpan
      <4> QED  BY <1>1, <4>1, <4>2
    <3> QED  BY <1>1, <2>1, <2>2, <3>1, <3>3 DEF Anchored, Age
  <2>3. CASE primed \/ queued = {}
    BY <1>2, <2>1, <2>3 DEF Anchored
  <2> QED  BY <2>2, <2>3
<1>11. DrainedOut' /\ Fed'
  BY <1>1, <1>2, <1>3 DEF DrainedOut, Fed, buffer
<1> QED  BY <1>1, <1>2, <1>7, <1>8, <1>9, <1>10, <1>11 DEF PlayInv

\* A frame arrives: it is still to be played, and fits into the window and the
\* queue.
LEMMA ReceivePlays ==
  ASSUME Calm, NEW f \in Sequence, ReceiveFrame(f)
  PROVE  PlayInv'
<1>1. /\ ~draining /\ f \in inFlight /\ inFlight' = inFlight \ {f} /\ push(f)
      /\ starved' = LowerOf(starved + 1, StarveCap)
      /\ UNCHANGED <<disorder, sequence, outage, falseLoss>>
  BY DEF ReceiveFrame
<1>2. /\ TypeInv /\ PrimingInv /\ Placed /\ Covered /\ Trailing /\ Anchored /\ DrainedOut /\ Fed /\ ~falseLoss
      /\ Bridged /\ starved \in Nat
      /\ f \notin queued /\ IsFiniteSet(queued) /\ IsFiniteSet(inFlight)
  BY <1>1, Constants DEF Calm, JitterInv, PlayInv, TypeInv, DrainedOut, Placed, StarveCap
<1>3. Cardinality(queued) + 1 <= Wide
  <2>1. CASE primed
    BY <1>1, <1>2, <2>1, CalmSpan, Room, Constants DEF DrainedOut
  <2>2. CASE ~primed
    BY <1>1, <1>2, <2>2, CalmSpan, Room, Constants DEF PrimingInv
  <2> QED  BY <2>1, <2>2
<1>4. Span <= MaxForward + 1
  <2>1. Span <= (Wide - 1 + 1) * Run + disorder
    <3>1. Wide - 1 \in Nat /\ Cardinality(queued) <= Wide - 1
      BY <1>2, <1>3, CalmSpan, Room
    <3> QED  BY <1>2, <3>1, SpanBounded
  <2>2. Wide - 1 + 1 = Wide
    BY <1>2, Room
  <2> QED  BY <1>2, <2>1, <2>2, Room, CalmSpan, Constants
<1>5. Age(f) \in Nat /\ 1 <= Age(f) /\ Age(f) <= disorder + 1 /\ Age(f) <= Span
  BY <1>1, CalmAges
<1>6. primed => ~(Distance(f, next) < 0) /\ ~(Distance(f, next) > MaxForward)
  <2> SUFFICES ASSUME primed
               PROVE  ~(Distance(f, next) < 0) /\ ~(Distance(f, next) > MaxForward)
    OBVIOUS
  <2>1. next \in Sequence /\ Age(next) = Span
    BY <1>2 DEF TypeInv, Span, Start
  <2>2. 2 * Age(f) < Numbers
    BY <1>5, CalmSpan, Constants
  <2>3. Distance(f, next) = Span - Age(f)
    BY <1>2, <2>1, <2>2, Between, CalmSpan
  <2> QED  BY <1>4, <1>5, <2>3, CalmSpan, Constants
<1>7. IsFiniteSet(queued \cup {f}) /\ Cardinality(queued \cup {f}) = Cardinality(queued) + 1
  BY <1>2, FS_AddElement
<1>8. Evicted(queued \cup {f}) = queued \cup {f}
  <2>1. ~(Cardinality(queued \cup {f}) > MaxQueued)
    BY <1>2, <1>3, <1>7, CalmSpan, Room, Constants
  <2> QED  BY <2>1 DEF Evicted
<1>9. /\ queued' = queued \cup {f} /\ draining' = TRUE /\ anchor' = NewAnchor(f)
      /\ UNCHANGED <<next, primed, lookahead>>
  <2>1. /\ queued' = Evicted(queued \cup {f}) /\ draining' = (f \notin queued) /\ anchor' = NewAnchor(f)
        /\ UNCHANGED <<next, primed, lookahead>>
    BY <1>1, <1>6 DEF push
  <2> QED  BY <1>2, <1>8, <2>1
<1>10. queued' \cup inFlight' = queued \cup inFlight
  BY <1>1, <1>9
<1>11. Start' = Start /\ Span' = Span
  BY <1>1, <1>9 DEF Start, Span, Age
<1>12. Placed'
  <2>1. IsFiniteSet(inFlight') /\ inFlight' \cap queued' = {}
    BY <1>1, <1>2, <1>9, FS_Subset DEF Placed
  <2>2. \A x \in inFlight' : wrapping_sub(sequence', x) \in 1..(disorder' + 1)
                             /\ wrapping_sub(sequence', x) <= Span'
    BY <1>1, <1>2, <1>11 DEF Placed, Age
  <2>3. \A s \in queued : wrapping_sub(sequence', s) \in 1..Span'
    BY <1>1, <1>2, <1>11 DEF Placed, Age
  <2>4. wrapping_sub(sequence', f) \in 1..Span'
    BY <1>1, <1>5, <1>11, CalmSpan DEF Age
  <2> QED  BY <1>9, <2>1, <2>2, <2>3, <2>4 DEF Placed, Age
<1>13. Covered' /\ Trailing'
  BY <1>1, <1>2, <1>10, <1>11 DEF Covered, Trailing, Age
<1>14. Anchored'
  <2> SUFFICES ASSUME ~primed
               PROVE  /\ anchor' \in queued'
                      /\ \A s \in queued \cup inFlight :
                            wrapping_sub(sequence', s) <= wrapping_sub(sequence', anchor') + disorder'
    BY <1>9, <1>10 DEF Anchored, Age
  <2>1. CASE f = 0
    <3>1. anchor' = f /\ Age(f) = Span
      BY <1>9, <2>1 DEF NewAnchor, Span, Start
    <3>2. \A s \in queued \cup inFlight : Age(s) <= Age(f) + disorder
      BY <3>1, CalmAges, CalmSpan
    <3> QED  BY <1>1, <1>9, <3>1, <3>2 DEF Age
  <2>2. CASE f # 0 /\ queued = {}
    <3>1. anchor' = f
      BY <1>2, <1>9, <2>2 DEF NewAnchor, Anchored
    <3>2. \A s \in inFlight : Age(s) <= Age(f) + disorder
      BY <1>5, CalmAges, CalmSpan
    <3> QED  BY <1>1, <1>9, <2>2, <3>1, <3>2 DEF Age
  <2>3. CASE f # 0 /\ queued # {}
    <3>1. anchor' = anchor
      BY <1>9, <2>3 DEF NewAnchor
    <3>2. anchor \in queued /\ \A s \in queued \cup inFlight : Age(s) <= Age(anchor) + disorder
      BY <1>2, <2>3 DEF Anchored
    <3> QED  BY <1>1, <1>9, <3>1, <3>2 DEF Age
  <2> QED  BY <2>1, <2>2, <2>3
<1>15. DrainedOut'
  BY <1>2, <1>3, <1>7, <1>9 DEF DrainedOut
<1>16. Fed'
  <2>1. starved' \in Nat /\ starved' <= starved + 1
    BY <1>1, <1>2, Constants DEF LowerOf, StarveCap
  <2>2. starved <= Cardinality(queued)
    BY <1>1, <1>2 DEF Fed
  <2>3. starved' <= Cardinality(queued')
    BY <1>2, <1>7, <1>9, <2>1, <2>2, CalmSpan
  <2> QED  BY <2>3 DEF Fed
<1> QED  BY <1>1, <1>2, <1>12, <1>13, <1>14, <1>15, <1>16 DEF PlayInv

\* When playback begins, everything still in flight is behind the first frame:
\* what this one overtook, and what is queued, are too few to fill the depth.
LEMMA NothingLate ==
  ASSUME Calm, ~(Cardinality(queued) < Depth), NEW start \in queued,
         \A s \in queued \cup inFlight : Age(s) <= Age(start) + disorder,
         NEW f \in inFlight
  PROVE  Age(f) <= Age(start)
<1>1. /\ TypeInv /\ Placed /\ Bridged /\ IsFiniteSet(queued)
      /\ queued \subseteq Sequence /\ f \in Sequence /\ f \notin queued
  BY DEF Calm, JitterInv, PlayInv, TypeInv, DrainedOut, Placed
<1> SUFFICES ASSUME Age(f) > Age(start)
             PROVE  FALSE
  BY CalmAges
<1>2. /\ Age(f) \in Nat /\ Age(start) \in Nat /\ disorder \in Nat
      /\ 1 <= Age(start) /\ Age(f) <= disorder + 1 /\ Age(f) <= Age(start) + disorder
  BY CalmAges, CalmSpan
<1> DEFINE Oldest == Age(start) + disorder
           Places == (1..Oldest) \ {Age(f)}
           h == [s \in queued |-> Age(s)]
<1>3. \A s \in queued : Age(s) \in Places
  <2>1. \A s \in queued : Age(s) # Age(f)
    BY <1>1, SameAge
  <2> QED  BY <1>2, <2>1, CalmAges
<1>4. h \in [queued -> Places] /\ \A s, t \in queued : h[s] = h[t] => s = t
  BY <1>1, <1>3, SameAge
<1>5. IsFiniteSet(Places) /\ Cardinality(Places) = Oldest - 1
  <2>1. Oldest \in Nat /\ 1 \in Int /\ Oldest \in Int /\ 1 <= Oldest /\ Age(f) \in 1..Oldest
    BY <1>2
  <2> HIDE DEF Oldest
  <2>2. IsFiniteSet(1..Oldest) /\ Cardinality(1..Oldest) = IF 1 > Oldest THEN 0 ELSE Oldest - 1 + 1
    BY <2>1, FS_Interval
  <2>3. IsFiniteSet((1..Oldest) \ {Age(f)})
        /\ Cardinality((1..Oldest) \ {Age(f)}) = Cardinality(1..Oldest) - 1
    BY <2>1, <2>2, FS_RemoveElement
  <2> QED  BY <2>1, <2>2, <2>3
<1> HIDE DEF h, Places
<1>6. Cardinality(queued) <= Oldest - 1
  <2>1. Cardinality(queued) <= Cardinality(Places)
    BY <1>4, <1>5, Injected
  <2> QED  BY <1>5, <2>1
<1>7. Age(start) <= disorder /\ 2 * (MinLookahead - 1) <= Depth
  BY <1>1, <1>2, Room
<1> QED  BY <1>2, <1>6, <1>7, CalmSpan, Constants

\* Playback begins: no frame behind the first one is beyond the window.
LEMMA PrimingPlays ==
  ASSUME Calm, PopUnprimed
  PROVE  PlayInv'
<1>1. /\ TypeInv /\ Placed /\ Covered /\ Trailing /\ Anchored /\ DrainedOut /\ Fed /\ ~falseLoss /\ Bridged
      /\ PrimingInv /\ ~primed /\ draining /\ starved \in Nat
      /\ queued \subseteq Sequence /\ IsFiniteSet(queued)
      /\ UNCHANGED <<net, anchor, lookahead, clean, starved, falseLoss>>
  BY Constants DEF Calm, JitterInv, PlayInv, TypeInv, DrainedOut, PopUnprimed, StarveCap
<1>2. CASE Cardinality(queued) < Depth
  <2>1. draining' = FALSE /\ UNCHANGED <<queued, next, primed>>
    BY <1>2 DEF PopUnprimed
  <2>2. Span' = Span /\ Start' = Start
    BY <1>1, <2>1 DEF Span, Age, Start, net
  <2>3. Placed' /\ Covered' /\ Trailing'
    BY <1>1, <2>1, <2>2 DEF Placed, Covered, Trailing, Age, net
  <2>4. Anchored'
    BY <1>1, <2>1 DEF Anchored, Age, net
  <2>5. DrainedOut' /\ Fed' /\ ~falseLoss'
    BY <1>1, <2>1 DEF DrainedOut, Fed
  <2> QED  BY <2>3, <2>4, <2>5 DEF PlayInv
<1>3. CASE ~(Cardinality(queued) < Depth)
  <2>1. PICK start \in queued :
           /\ primed' = TRUE /\ next' = start
           /\ queued' = {s \in queued : Distance(s, start) \in 0..MaxForward}
           /\ UNCHANGED <<net, anchor, lookahead, clean, draining, starved, falseLoss>>
           /\ \A t \in queued : wrapping_sub(start, anchor) <= wrapping_sub(t, anchor)
    BY <1>3, Begins DEF Calm
  <2>2. Cardinality(queued) <= Wide
    BY <1>1 DEF DrainedOut
  <2>3. Span' = Age(start) /\ Age(start) \in Nat /\ 1 <= Age(start) /\ Age(start) <= Span
    BY <2>1, CalmAges DEF Span, Start, Age, net
  <2>4. ASSUME NEW s \in queued
        PROVE  Distance(s, start) = Age(start) - Age(s)
    <3>1. 2 * Age(s) < Numbers /\ 2 * Age(start) < Numbers
      BY <2>3, CalmAges, CalmSpan, Constants
    <3> QED  BY <1>1, <3>1, Between
  <2>5. ASSUME NEW s \in queued, Age(s) <= Age(start)
        PROVE  s \in queued'
    <3>1. Age(s) \in Nat /\ 1 <= Age(s)
      BY CalmAges
    <3>2. ASSUME Age(start) - Age(s) > MaxForward
          PROVE  FALSE
      <4> DEFINE g == Age(s) + disorder + 1
                 Old == {t \in queued : Age(t) >= g}
      <4>1. g \in Nat /\ g >= disorder + 2 /\ g + Wide * Run <= Span + 1
        BY <1>1, <2>3, <3>1, <3>2, Room, CalmSpan, Constants
      <4>2. Wide <= Cardinality(Old)
        BY <1>1, <4>1, Blocks, Room
      <4>3. Old \subseteq queued \ {s}
        BY <3>1, CalmSpan
      <4> HIDE DEF Old
      <4>4. Cardinality(queued \ {s}) = Cardinality(queued) - 1 /\ IsFiniteSet(queued \ {s})
        BY <1>1, FS_RemoveElement
      <4>5. Cardinality(Old) <= Cardinality(queued \ {s}) /\ Cardinality(Old) \in Nat
        BY <4>3, <4>4, FS_Subset, FS_CardinalityType
      <4> QED  BY <1>1, <2>2, <4>2, <4>4, <4>5, CalmSpan, Room
    <3>3. Distance(s, start) \in 0..MaxForward
      BY <2>3, <2>4, <2>5, <3>1, <3>2, Constants
    <3> QED  BY <2>1, <3>3
  <2>6. \A s \in queued' : s \in queued /\ Age(s) <= Age(start)
    <3>1. ASSUME NEW s \in queued, Distance(s, start) \in 0..MaxForward
          PROVE  Age(s) <= Age(start)
      BY <2>3, <2>4, <3>1, CalmAges, Constants
    <3> QED  BY <2>1, <3>1
  <2>7. \A s \in queued \cup inFlight : Age(s) <= Age(start) + disorder
    <3>1. anchor \in queued /\ \A s \in queued \cup inFlight : Age(s) <= Age(anchor) + disorder
      BY <1>1, <2>1 DEF Anchored
    <3>2. start \in Sequence /\ anchor \in Sequence
      BY <1>1, <3>1
    <3>3. wrapping_sub(start, anchor) <= 0
      <4>1. wrapping_sub(anchor, anchor) = 0
        BY <3>2, Youngest, CalmSpan, Constants
      <4> QED  BY <2>1, <3>1, <4>1
    <3>4. start = anchor
      <4>1. start \in Nat /\ anchor \in Nat /\ start < Numbers /\ anchor < Numbers
        BY <3>2, Constants DEF Sequence
      <4> QED  BY <3>2, <3>3, <4>1, Subtracted, Constants
    <3> QED  BY <3>1, <3>4
  <2>8. \A x \in inFlight : Age(x) <= Age(start)
    BY <1>3, <2>7, NothingLate
  <2>9. Placed'
    <3>1. IsFiniteSet(inFlight') /\ inFlight' \cap queued' = {}
      BY <1>1, <2>6 DEF Placed, net
    <3>2. \A x \in inFlight' : wrapping_sub(sequence', x) \in 1..(disorder' + 1)
                               /\ wrapping_sub(sequence', x) <= Span'
      BY <1>1, <2>3, <2>8 DEF Placed, Age, net
    <3>3. \A s \in queued' : wrapping_sub(sequence', s) \in 1..Span'
      <4>1. \A s \in queued' : Age(s) \in 1..Age(start)
        BY <2>3, <2>6, CalmAges
      <4> QED  BY <1>1, <2>3, <4>1 DEF Age, net
    <3> QED  BY <3>1, <3>2, <3>3 DEF Placed, Age
  <2>10. ASSUME NEW s \in queued \cup inFlight, Age(s) <= Span'
         PROVE  s \in queued' \cup inFlight' /\ wrapping_sub(sequence', s) = Age(s)
    BY <1>1, <2>3, <2>5, <2>10 DEF Age, net
  <2>11. Covered'
    <3> SUFFICES ASSUME NEW a \in Nat, 1 <= a, a + MaxOutage <= Span'
                 PROVE  \E s \in queued' \cup inFlight' : wrapping_sub(sequence', s) \in a..(a + MaxOutage)
      BY DEF Covered, Age
    <3>1. a + MaxOutage <= Span
      BY <2>3, CalmSpan, Constants
    <3>2. PICK s \in queued \cup inFlight : Age(s) \in a..(a + MaxOutage)
      BY <1>1, <3>1 DEF Covered
    <3>3. Age(s) <= Span'
      BY <2>3, <3>2, Constants
    <3> QED  BY <2>10, <3>2, <3>3
  <2>12. Trailing'
    <3> SUFFICES ASSUME outage < Span'
                 PROVE  \E s \in queued' \cup inFlight' : wrapping_sub(sequence', s) = outage + 1
      BY <1>1 DEF Trailing, Age, net
    <3>1. outage < Span /\ outage \in Nat
      BY <1>1, <2>3, CalmSpan, Constants DEF TypeInv
    <3>2. PICK s \in queued \cup inFlight : Age(s) = outage + 1
      BY <1>1, <3>1 DEF Trailing
    <3>3. Age(s) <= Span'
      BY <2>3, <3>1, <3>2
    <3> QED  BY <2>10, <3>2, <3>3
  <2>13. DrainedOut'
    <3>1. queued' \subseteq queued
      BY <2>6
    <3>2. IsFiniteSet(queued') /\ Cardinality(queued') \in Nat /\ Cardinality(queued') <= Cardinality(queued)
      BY <1>1, <3>1, FS_Subset, FS_CardinalityType
    <3>3. Cardinality(queued') <= Wide
      BY <1>1, <2>2, <3>2, CalmSpan, Room
    <3> QED  BY <1>1, <2>1, <3>2, <3>3 DEF DrainedOut
  <2>14. Fed'
    <3>1. next' \in queued'
      BY <2>1, <2>3, <2>5
    <3>2. starved' <= Wide
      <4>1. starved <= Cardinality(queued) /\ starved' = starved
        BY <1>1 DEF Fed
      <4> QED  BY <1>1, <2>2, <4>1, CalmSpan, Room
    <3> QED  BY <1>1, <2>1, <3>1, <3>2 DEF Fed
  <2>15. Anchored'
    BY <2>1 DEF Anchored
  <2> QED  BY <1>1, <2>9, <2>11, <2>12, <2>13, <2>14, <2>15 DEF PlayInv
<1> QED  BY <1>2, <1>3

\* Playback goes on by one frame, which is not in flight: what is covered by
\* younger ones stays so.
LEMMA MovesOn ==
  ASSUME Calm, primed, primed' = primed, next' = wrapping_add(next),
         queued' = queued \ {next}, next \notin inFlight, queued # {},
         UNCHANGED net
  PROVE  /\ Placed' /\ Covered' /\ Trailing' /\ Anchored'
         /\ IsFiniteSet(queued') /\ Cardinality(queued') \in Nat
         /\ Cardinality(queued') <= Cardinality(queued)
<1>1. /\ TypeInv /\ Placed /\ Covered /\ Trailing /\ IsFiniteSet(queued)
      /\ next \in Sequence /\ sequence \in Sequence /\ queued \subseteq Sequence /\ inFlight \subseteq Sequence
      /\ disorder' = disorder /\ outage' = outage /\ sequence' = sequence /\ inFlight' = inFlight
  BY DEF Calm, JitterInv, PlayInv, TypeInv, DrainedOut, net
<1>2. Span = Age(next)
  BY DEF Span, Start
<1>3. Span \in Nat /\ Span > 0
  <2>1. PICK s \in queued : TRUE
    OBVIOUS
  <2> QED  BY <2>1, CalmAges, CalmSpan
<1>4. Span' = Span - 1
  <2>1. Span' = wrapping_sub(sequence', next')
    BY DEF Span, Start, Age
  <2>2. wrapping_sub(sequence, wrapping_add(next)) = wrapping_sub(sequence, next) - 1
    BY <1>1, <1>2, <1>3, Younger DEF Age
  <2> QED  BY <1>1, <1>2, <2>1, <2>2 DEF Age
<1>5. ASSUME NEW s \in (queued \ {next}) \cup inFlight
      PROVE  Age(s) # Span /\ Age(s) \in Nat /\ wrapping_sub(sequence', s) = Age(s)
  <2>1. s \in Sequence /\ s # next
    BY <1>1
  <2>2. Age(s) # Age(next)
    BY <1>1, <2>1, SameAge
  <2> QED  BY <1>1, <1>2, <2>1, <2>2, AgeTyped DEF Age
<1>6. ASSUME NEW s \in queued \cup inFlight, Age(s) <= Span'
      PROVE  s \in queued' \cup inFlight' /\ wrapping_sub(sequence', s) = Age(s)
  <2>1. s # next
    BY <1>2, <1>3, <1>4, <1>6
  <2> QED  BY <1>1, <2>1 DEF Age
<1>7. Placed'
  <2>1. IsFiniteSet(inFlight') /\ inFlight' \cap queued' = {}
    BY <1>1 DEF Placed
  <2>2. \A x \in inFlight' : wrapping_sub(sequence', x) \in 1..(disorder' + 1)
    BY <1>1 DEF Placed, Age
  <2>3. \A x \in inFlight' : wrapping_sub(sequence', x) <= Span'
    BY <1>1, <1>3, <1>4, <1>5, CalmAges
  <2>4. \A s \in queued' : wrapping_sub(sequence', s) \in 1..Span'
    BY <1>3, <1>4, <1>5, CalmAges
  <2> QED  BY <2>1, <2>2, <2>3, <2>4 DEF Placed, Age
<1>8. Covered'
  <2> SUFFICES ASSUME NEW a \in Nat, 1 <= a, a + MaxOutage <= Span'
               PROVE  \E s \in queued' \cup inFlight' : wrapping_sub(sequence', s) \in a..(a + MaxOutage)
    BY DEF Covered, Age
  <2>1. a + MaxOutage <= Span
    BY <1>3, <1>4, Constants
  <2>2. PICK s \in queued \cup inFlight : Age(s) \in a..(a + MaxOutage)
    BY <1>1, <2>1 DEF Covered
  <2>3. Age(s) <= Span'
    BY <1>3, <1>4, <2>2, Constants
  <2> QED  BY <1>6, <2>2, <2>3
<1>9. Trailing'
  <2> SUFFICES ASSUME outage < Span'
               PROVE  \E s \in queued' \cup inFlight' : wrapping_sub(sequence', s) = outage + 1
    BY <1>1 DEF Trailing, Age
  <2>1. outage < Span /\ outage \in Nat
    BY <1>1, <1>3, <1>4, Constants DEF TypeInv
  <2>2. PICK s \in queued \cup inFlight : Age(s) = outage + 1
    BY <1>1, <2>1 DEF Trailing
  <2>3. Age(s) <= Span'
    BY <1>3, <1>4, <2>1, <2>2
  <2> QED  BY <1>6, <2>2, <2>3
<1>10. Anchored'
  BY DEF Anchored
<1>11. IsFiniteSet(queued') /\ Cardinality(queued') \in Nat /\ Cardinality(queued') <= Cardinality(queued)
  BY <1>1, FS_Subset, FS_CardinalityType
<1> QED  BY <1>7, <1>8, <1>9, <1>10, <1>11

\* A frame whose gap is given up is not in flight: it would be older than all
\* that is queued, which are too many for that.
LEMMA GivenUpIsLost ==
  ASSUME Calm, PopMissing, queued # {}, QueuedAhead >= lookahead
  PROVE  next \notin inFlight
<1>1. /\ TypeInv /\ Placed /\ IsFiniteSet(queued) /\ primed /\ next \notin queued
      /\ next \in Sequence /\ queued \subseteq Sequence /\ lookahead \in Nat /\ MinLookahead <= lookahead
  BY Constants DEF Calm, JitterInv, PlayInv, TypeInv, DrainedOut, PopMissing
<1> SUFFICES ASSUME next \in inFlight
             PROVE  FALSE
  OBVIOUS
<1>2. Span = Age(next) /\ Span <= disorder + 1
  BY CalmAges, <1>1 DEF Span, Start
<1>3. ASSUME NEW s \in queued
      PROVE  Age(s) \in 1..disorder
  <2>1. Age(s) # Age(next)
    BY <1>1, SameAge
  <2> QED  BY <1>2, <2>1, CalmAges, CalmSpan
<1> DEFINE f == [s \in queued |-> Age(s)]
<1>4. f \in [queued -> 1..disorder] /\ \A s, t \in queued : f[s] = f[t] => s = t
  BY <1>1, <1>3, SameAge
<1>5. IsFiniteSet(1..disorder) /\ Cardinality(1..disorder) = disorder
  <2>1. disorder \in Nat /\ 1 \in Int /\ disorder \in Int
    BY CalmSpan
  <2>2. IsFiniteSet(1..disorder) /\ Cardinality(1..disorder) = IF 1 > disorder THEN 0 ELSE disorder - 1 + 1
    BY <2>1, FS_Interval
  <2> QED  BY <2>1, <2>2
<1> HIDE DEF f
<1>6. Cardinality(queued) <= disorder
  <2>1. Cardinality(queued) <= Cardinality(1..disorder)
    BY <1>4, <1>5, Injected
  <2> QED  BY <1>5, <2>1
<1>7. QueuedAhead <= Cardinality(queued) /\ QueuedAhead \in Nat
  <2> DEFINE Ahead_ == {s \in queued : Distance(s, next) > 0}
  <2>1. Ahead_ \subseteq queued
    OBVIOUS
  <2>2. Cardinality(Ahead_) <= Cardinality(queued) /\ Cardinality(Ahead_) \in Nat
    BY <1>1, <2>1, FS_Subset, FS_CardinalityType
  <2> QED  BY <2>2 DEF QueuedAhead
<1> QED  BY <1>1, <1>6, <1>7, CalmSpan, Constants

LEMMA PlaybackPlays ==
  ASSUME Calm, PopFrame \/ PopMissing
  PROVE  PlayInv'
<1>1. /\ TypeInv /\ Placed /\ Covered /\ Trailing /\ Anchored /\ DrainedOut /\ Fed /\ ~falseLoss /\ WindowInv
      /\ primed /\ draining /\ primed' = primed /\ next \in Sequence /\ lookahead = MinLookahead /\ Bridged
      /\ queued \subseteq Sequence /\ IsFiniteSet(queued) /\ Cardinality(queued) <= Wide /\ UNCHANGED net
  BY DEF Calm, JitterInv, PlayInv, TypeInv, DrainedOut, PopFrame, PopMissing
<1>2. CASE PopFrame
  <2>1. /\ next \in queued /\ queued' = queued \ {next} /\ next' = wrapping_add(next) /\ starved' = 0
        /\ UNCHANGED <<draining, falseLoss>> /\ RelaxLookahead
    BY <1>2 DEF PopFrame
  <2>2. next \notin inFlight
    BY <1>1, <2>1 DEF Placed
  <2>3. /\ Placed' /\ Covered' /\ Trailing' /\ Anchored'
        /\ IsFiniteSet(queued') /\ Cardinality(queued') \in Nat
        /\ Cardinality(queued') <= Cardinality(queued)
    BY <1>1, <2>1, <2>2, MovesOn
  <2>4. lookahead' = lookahead
    BY <1>1, <2>1, Constants DEF RelaxLookahead
  <2>5. DrainedOut'
    <3>1. Cardinality(queued') <= Wide
      BY <1>1, <2>3, CalmSpan, Room
    <3> QED  BY <1>1, <2>1, <2>3, <2>4, <3>1 DEF DrainedOut
  <2>6. Fed'
    BY <2>1, <2>3 DEF Fed
  <2> QED  BY <1>1, <2>1, <2>3, <2>5, <2>6 DEF PlayInv
<1>3. CASE PopMissing
  <2>1. next \notin queued /\ UNCHANGED <<queued, lookahead, starved>> /\ starved <= Cardinality(queued)
    BY <1>1, <1>3 DEF PopMissing, Fed
  <2>2. Fed'
    BY <2>1 DEF Fed
  <2>3. CASE queued # {} /\ QueuedAhead >= lookahead
    <3>1. /\ next' = wrapping_add(next) /\ UNCHANGED draining
          /\ falseLoss' = (falseLoss \/ next \in inFlight)
      BY <1>3, <2>3 DEF PopMissing
    <3>2. next \notin inFlight
      BY <1>3, <2>3, GivenUpIsLost
    <3>3. Placed' /\ Covered' /\ Trailing' /\ Anchored'
      <4>1. queued' = queued \ {next}
        BY <2>1
      <4> QED  BY <1>1, <2>3, <3>1, <3>2, <4>1, MovesOn
    <3>4. DrainedOut'
      BY <1>1, <2>1, <3>1 DEF DrainedOut
    <3>5. ~falseLoss'
      BY <1>1, <3>1, <3>2
    <3> QED  BY <2>2, <3>3, <3>4, <3>5 DEF PlayInv
  <2>4. CASE ~(queued # {} /\ QueuedAhead >= lookahead)
    <3>1. draining' = FALSE /\ UNCHANGED <<next, falseLoss>>
      BY <1>3, <2>4 DEF PopMissing
    <3>2. Start' = Start /\ Span' = Span
      BY <1>1, <3>1 DEF Start, Span, Age, net
    <3>3. Placed' /\ Covered' /\ Trailing' /\ Anchored'
      BY <1>1, <2>1, <3>2 DEF Placed, Covered, Trailing, Anchored, Age, net
    <3>4. Cardinality(queued) < MinLookahead
      <4>1. CASE queued = {}
        BY <4>1, FS_EmptySet, Constants
      <4>2. CASE ~(QueuedAhead >= lookahead)
        <5>1. ASSUME NEW s \in queued
              PROVE  Distance(s, next) > 0
          <6>1. Distance(s, next) \in Ahead /\ s # next /\ s \in Sequence
            BY <1>1, <2>1 DEF WindowInv
          <6>2. Distance(s, next) \in Int /\ Distance(s, next) # 0
            BY <1>1, <6>1, Measured
          <6> QED  BY <6>1, <6>2, Constants DEF Ahead
        <5>2. queued = {s \in queued : Distance(s, next) > 0}
          BY <5>1
        <5>3. QueuedAhead = Cardinality(queued)
          BY <5>2 DEF QueuedAhead
        <5> QED  BY <1>1, <4>2, <5>3, CalmSpan, Constants
      <4> QED  BY <2>4, <4>1, <4>2
    <3>5. DrainedOut'
      BY <1>1, <2>1, <3>1, <3>4 DEF DrainedOut
    <3> QED  BY <1>1, <2>2, <3>1, <3>3, <3>5 DEF PlayInv
  <2> QED  BY <2>3, <2>4
<1> QED  BY <1>2, <1>3

SmallDisorder == disorder < MinLookahead => PlayInv

LEMMA StepPlays ==
  ASSUME Bridged, JitterInv, SmallDisorder, [JitterNext]_jitterVars
  PROVE  SmallDisorder'
<1>1. disorder' = disorder
  BY DEF JitterNext, RxStep, SendFrame, LoseFrame, ReceiveFrame, PopUnprimed, PopFrame, PopMissing, jitterVars, net
<1> SUFFICES ASSUME disorder < MinLookahead
             PROVE  PlayInv'
  BY <1>1 DEF SmallDisorder
<1>2. Calm
  BY DEF Calm, SmallDisorder
<1>3. CASE UNCHANGED jitterVars
  BY <1>2, <1>3 DEF Calm, PlayInv, Placed, Covered, Trailing, DrainedOut, Anchored, Fed, Span, Start,
                    Age, jitterVars, net, buffer
<1>4. CASE JitterNext
  BY <1>2, <1>4, NetworkPlays, ReceivePlays, PrimingPlays, PlaybackPlays DEF JitterNext, RxStep
<1> QED  BY <1>3, <1>4

--------------------------------------------------------------------------------
(* What is promised of playback.                                           *)

\* Where the network overtakes a frame by fewer than MIN_LOOKAHEAD others, and
\* outages are as short as Bridged says, the queue holds all that has arrived
\* since the frame that is next, and the tolerance never has to grow (push, pop).
THEOREM Playback ==
  ASSUME Bridged
  PROVE  JitterSpec => []SmallDisorder
<1>1. JitterInit => SmallDisorder
  BY InitPlays DEF SmallDisorder
<1>2. JitterInv /\ SmallDisorder /\ [JitterNext]_jitterVars => SmallDisorder'
  BY StepPlays
<1> QED  BY <1>1, <1>2, JitterInvariant, PTL DEF JitterSpec

\* "for a packet that was merely reordered": no frame is concealed while it is
\* in flight (pop).
THEOREM NothingConcealedInFlight ==
  ASSUME Bridged
  PROVE  JitterSpec => []NoFalseLoss
<1>1. SmallDisorder => NoFalseLoss
  BY DEF SmallDisorder, NoFalseLoss, PlayInv
<1> QED  BY <1>1, Playback, PTL

\* "missing ones surface as Lost": of any MaxForward + 1 arrivals in a row one
\* makes the buffer play, for the window never closes on a queue that waits
\* (push, pop).
THEOREM PlaybackGoesOn ==
  ASSUME Bridged
  PROVE  JitterSpec => []NoStall
<1>1. ASSUME JitterInv, SmallDisorder
      PROVE  NoStall
  <2> SUFFICES ASSUME disorder < MinLookahead
               PROVE  starved < StarveCap
    BY DEF NoStall
  <2>1. Fed /\ DrainedOut /\ starved \in Nat
    BY <1>1, Constants DEF SmallDisorder, PlayInv, JitterInv, TypeInv, StarveCap
  <2>2. Cardinality(queued) <= Wide /\ Cardinality(queued) \in Nat
    BY <2>1, FS_CardinalityType DEF DrainedOut
  <2>3. starved <= Wide
    BY <2>1, <2>2, Room DEF Fed
  <2> QED  BY <2>1, <2>3, Room, Constants DEF StarveCap
<1> QED  BY <1>1, JitterInvariant, Playback, PTL

================================================================================
