------------------------------ MODULE AudioPath ------------------------------
(***************************************************************************)
(* The audio transport of one session: a UDP socket in a slot, which a     *)
(* resume may have to move to another link of the host while the audio     *)
(* workers use it, or, over ADB, a TCP stream in a slot, which is replaced *)
(* when it breaks.  A session has one of the two for its whole life.       *)
(*                                                                         *)
(* Over UDP this is the host, whose socket keeps the port the client was   *)
(* told; the client appears with its datagrams (ReplayWindow) and the host *)
(* address it sends them to.  Over TCP it is either side.  Data are left   *)
(* out; what matters is who holds which socket or lock, and which step may *)
(* fail.  Workers begin a call when there is audio, which may be never.    *)
(***************************************************************************)
EXTENDS ReplayWindow

CONSTANTS
    HostAddress,  \* addresses of the host's links
    Wild,         \* 0.0.0.0
    NoLink,       \* the configured link is gone
    MaxResumes,   \* bound on the resumes
    Conn,         \* TCP streams, reused when nobody refers to them any more
    Opener,       \* threads that bring a stream: the host's connection threads
    Supervisor,   \* the one of a client
    MaxFailures,  \* MAX_FAILURES of the supervisor
    MaxMishaps    \* bound on what goes wrong with streams and on the host's new ones

ASSUME TransportConstants ==
    /\ Wild \notin HostAddress /\ NoLink \notin HostAddress \cup {Wild}
    /\ None \notin HostAddress \cup Conn \cup Opener \cup {Wild, NoLink}
    /\ \A a \in HostAddress \cup {Wild, NoLink} : None # [addr |-> a, port |-> "negotiated"]
    /\ Supervisor \in Opener /\ Opener \cap {"rx", "tx"} = {}
    /\ MaxResumes \in Nat /\ MaxFailures \in Nat \ {0} /\ MaxMishaps \in Nat

VARIABLES
    transport,  \* "udp" or "tcp"
    alive,      \* the session is registered and not stopped
    \* UDP: UdpAudioSlot::current, the socket each worker holds during a call,
    \* the resume in progress, and the host address the client sends to.
    slot, leased, resume, target,
    astray,     \* history: an error was reported for the last migration, or the
                \* host prefers another link than the one the client came in on
    resumes,    \* history: how many resumes
    \* TCP: the side; TcpAudioSlot::current and connecting; the locks of the slot
    \* and of each stream's two halves; the streams; the threads; the failures.
    side, current, connecting, held, stream, thread, failures,
    mishaps     \* history: how many, at most MaxMishaps

window == <<sender, opener, peer, opened, twice>>
udp == <<slot, leased, resume, target, astray, resumes>>
tcp == <<side, current, connecting, held, stream, thread, failures, mishaps>>
allVars == <<window, transport, alive, udp, tcp>>

Workers == {"rx", "tx"}

-----------------------------------------------------------------------------
(* UDP: the workers                                                        *)

Socket(addr, port) == [addr |-> addr, port |-> port]
UdpRuns == transport = "udp"

\* Each call of a worker holds a clone of the socket for its own length.
Lease(w) ==
    /\ UdpRuns /\ alive /\ leased[w] = None /\ slot # None
    /\ leased' = [leased EXCEPT ![w] = slot]
    /\ UNCHANGED <<window, transport, alive, slot, resume, target, astray, resumes, tcp>>

Return(w) == leased[w] # None /\ leased' = [leased EXCEPT ![w] = None]

\* run_rx: a datagram, damaged or not, comes in within the read timeout...
Receive ==
    /\ Return("rx")
    /\ \E d \in datagrams, intact \in BOOLEAN : open_windowed(d, intact)
    /\ UNCHANGED <<transport, alive, slot, resume, target, astray, resumes, tcp>>

\* ...or none, or none that opens; and run_tx sends or has no address yet.
CallEnds ==
    /\ \E w \in Workers : Return(w)
    /\ UNCHANGED <<window, transport, alive, slot, resume, target, astray, resumes, tcp>>

ClientSends ==
    /\ UdpRuns /\ Send
    /\ UNCHANGED <<transport, alive, udp, tcp>>

-----------------------------------------------------------------------------
(* UDP: a resume moves the socket                                          *)

NoResume == [at |-> "none"]
At(step) == resume.at = step
Go(step) == resume' = [resume EXCEPT !.at = step]
InMigration == <<window, transport, alive, leased, target, resumes, tcp>>

udp_binds_collide(old, desired, port) ==
    old.port = port /\ (old.addr = Wild \/ desired = Wild)

\* The sockets the process still has open, and the kernel's view of a bind.
Open == ({slot} \cup {leased[w] : w \in Workers}) \ {None}
Binds(s) == s.port # "negotiated" \/ \A o \in Open :
              o.port # s.port \/ (o.addr # s.addr /\ Wild \notin {o.addr, s.addr})

\* An authenticated client comes back over one of the host's links, after its
\* control link dropped or the last answer to it was lost.
ResumeBegins ==
    /\ UdpRuns /\ alive /\ resume.at \in {"none", "dropped"} /\ resumes < MaxResumes
    /\ \E via \in HostAddress : resume' = [at |-> "decide", via |-> via]
    /\ resumes' = resumes + 1
    /\ UNCHANGED <<window, transport, alive, slot, leased, target, astray, tcp>>

\* migrate_udp_audio_socket_with: the address is host_bind_addr, not the one
\* the client came in on.  An empty slot has no port to preserve.
Decide ==
    /\ UdpRuns /\ At("decide")
    /\ \E desired \in HostAddress \cup {Wild, NoLink} :
         /\ astray' = (desired \notin {Wild, resume.via})
         /\ resume' = [via |-> resume.via,
               to |-> Socket(desired, IF slot = None THEN "fresh" ELSE slot.port),
               at |-> IF desired = NoLink \/ (slot # None /\ slot.addr = desired) THEN "commit"
                      ELSE IF slot # None /\ udp_binds_collide(slot, desired, slot.port) THEN "take"
                      ELSE "bind"]
    /\ UNCHANGED <<InMigration, slot>>

\* The old socket can stay while the new one is bound beside it.
BindBeside ==
    /\ At("bind")
    /\ \/ Binds(resume.to) /\ slot' = resume.to /\ UNCHANGED astray
       \/ UNCHANGED slot /\ astray' = TRUE
    /\ Go("commit")
    /\ UNCHANGED InMigration

\* take_exclusive: out of the slot, and wait until no worker holds a clone.
Take ==
    /\ At("take") /\ slot' = None
    /\ resume' = [via |-> resume.via, to |-> resume.to, old |-> slot, at |-> "drain"]
    /\ UNCHANGED <<InMigration, astray>>

Drained ==
    /\ At("drain") /\ \A w \in Workers : leased[w] # resume.old
    /\ Go("rebind")
    /\ UNCHANGED <<InMigration, slot, astray>>

\* Slip: the socket is not put back.
DrainTimesOut_forgets ==
    /\ At("drain") /\ \E w \in Workers : leased[w] = resume.old
    /\ astray' = TRUE /\ Go("commit")
    /\ UNCHANGED <<InMigration, slot>>

DrainTimesOut ==
    /\ At("drain") /\ \E w \in Workers : leased[w] = resume.old
    /\ slot' = resume.old /\ astray' = TRUE /\ Go("commit")
    /\ UNCHANGED InMigration

\* The old socket is closed before the new one is bound.
Rebind ==
    /\ At("rebind")
    /\ \/ Binds(resume.to) /\ slot' = resume.to /\ Go("commit")
       \/ UNCHANGED slot /\ Go("fallback")
    /\ UNCHANGED <<InMigration, astray>>

\* On the wildcard address and the old port, or the session has to end.
Fallback ==
    /\ At("fallback") /\ astray' = TRUE
    /\ LET s == Socket(Wild, resume.old.port) IN
       \/ Binds(s) /\ slot' = s /\ Go("commit") /\ UNCHANGED alive
       \/ UNCHANGED slot /\ resume' = NoResume /\ alive' = FALSE
    /\ UNCHANGED <<window, transport, leased, target, resumes, tcp>>

\* finish_resume, unless the grace watcher has ended the session, and ResumeOk,
\* which may be lost.
Commit ==
    /\ At("commit")
    /\ \/ resume' = [resume EXCEPT !.at = "client"] /\ UNCHANGED alive
       \/ resume' = [at |-> "dropped"] /\ UNCHANGED alive
       \/ resume' = NoResume /\ alive' = FALSE
    /\ UNCHANGED <<window, transport, slot, leased, target, astray, resumes, tcp>>

\* The client's own socket moves or stays, and one announce is sent from it to
\* the address it has resumed at; if it cannot move, it sends where it did.
ClientMoves ==
    /\ At("client") /\ resume' = NoResume
    /\ \/ /\ target' = resume.via /\ UNCHANGED <<opener, peer, opened, twice, astray>>
          /\ \E from \in Address : local' = from /\ seal(from)
       \/ astray' = TRUE /\ UNCHANGED <<window, target>>
    /\ UNCHANGED <<transport, alive, slot, leased, resumes, tcp>>

Migration == ResumeBegins \/ Decide \/ BindBeside \/ Take \/ Drained \/ DrainTimesOut
             \/ Rebind \/ Fallback \/ Commit \/ ClientMoves

-----------------------------------------------------------------------------
(* TCP: the workers                                                        *)

TcpRuns == transport = "tcp"
Threads == Workers \cup Opener
Free == [at |-> "free"]
Is(t, step) == thread[t].at = step
Step(t, next) == thread' = [thread EXCEPT ![t] = next]
Onward(t, step) == thread' = [thread EXCEPT ![t].at = step]
TcpFrame == <<window, transport, udp, side>>

\* The locks: the slot's own, and the reader's and writer's of each stream.
SlotLock == <<None, "slot">>
Locks == {SlotLock} \cup (Conn \X Workers)
Unlocked(lock) == held[lock] = None

Mishap == mishaps < MaxMishaps /\ mishaps' = mishaps + 1

\* wait and current: a clone of what the slot holds...
WorkerTakes(w) ==
    /\ TcpRuns /\ alive /\ Is(w, "free") /\ Unlocked(SlotLock) /\ current # None
    /\ Step(w, [at |-> "enter", conn |-> current])
    /\ UNCHANGED <<TcpFrame, alive, current, connecting, held, stream, failures, mishaps>>

\* ...whose half is locked for one frame...
WorkerEnters(w) ==
    /\ Is(w, "enter") /\ LET lock == <<thread[w].conn, w>> IN
         Unlocked(lock) /\ held' = [held EXCEPT ![lock] = w]
    /\ Onward(w, "io")
    /\ UNCHANGED <<TcpFrame, alive, current, connecting, stream, failures, mishaps>>

\* Slip: the half stays locked until the error has been handled.
WorkerReturns_holding(w) ==
    LET c == thread[w].conn
        Clears == IF Is(w, "io") THEN Onward(w, "clear") /\ UNCHANGED held ELSE FALSE
    IN  /\ Is(w, "io")
        /\ \/ /\ stream[c] \in {"open", "torn"} /\ Step(w, Free)
              /\ held' = [held EXCEPT ![<<c, w>>] = None] /\ UNCHANGED <<stream, mishaps>>
           \/ w = "rx" /\ stream[c] = "open" /\ Mishap /\ Step(w, Free)
              /\ held' = [held EXCEPT ![<<c, w>>] = None]
              /\ stream' = [stream EXCEPT ![c] = "torn"]
           \/ w = "tx" /\ Mishap /\ Clears /\ UNCHANGED stream
           \/ stream[c] # "open" /\ Clears /\ UNCHANGED <<stream, mishaps>>
        /\ UNCHANGED <<TcpFrame, alive, current, connecting, failures>>

\* ...read or written, or timed out: in the middle of a frame, too, after which
\* what follows is not read as frames any more.  A write that times out, a
\* broken stream and a length out of range make the worker clear the slot.
WorkerReturns(w) ==
    LET c == thread[w].conn IN
    /\ Is(w, "io") /\ held' = [held EXCEPT ![<<c, w>>] = None]
    /\ \/ stream[c] \in {"open", "torn"} /\ Step(w, Free) /\ UNCHANGED <<stream, mishaps>>
       \/ /\ w = "rx" /\ stream[c] = "open" /\ Mishap /\ Step(w, Free)
          /\ stream' = [stream EXCEPT ![c] = "torn"]
       \/ w = "tx" /\ Mishap /\ Onward(w, "clear") /\ UNCHANGED stream
       \/ stream[c] # "open" /\ Onward(w, "clear") /\ UNCHANGED <<stream, mishaps>>
    /\ UNCHANGED <<TcpFrame, alive, current, connecting, failures>>

\* clear: only the stream that failed, not one that has replaced it.
WorkerClears(w) ==
    /\ Is(w, "clear") /\ Unlocked(SlotLock)
    /\ IF current = thread[w].conn
         THEN /\ current' = None /\ held' = [held EXCEPT ![SlotLock] = w]
              /\ Step(w, [at |-> "reader", conn |-> thread[w].conn, old |-> thread[w].conn])
         ELSE Step(w, Free) /\ UNCHANGED <<current, held>>
    /\ UNCHANGED <<TcpFrame, alive, connecting, stream, failures, mishaps>>

-----------------------------------------------------------------------------
(* TCP: shutting a stream down, with the slot locked                       *)

ShutReader(t) ==
    /\ Is(t, "reader") /\ Unlocked(<<thread[t].old, "rx">>)
    /\ stream' = [stream EXCEPT ![thread[t].old] = "shut"]
    /\ Onward(t, "writer")
    /\ UNCHANGED <<TcpFrame, alive, current, connecting, held, failures, mishaps>>

ShutWriter(t) ==
    /\ Is(t, "writer") /\ Unlocked(<<thread[t].old, "tx">>)
    /\ Onward(t, "leave")
    /\ UNCHANGED <<TcpFrame, alive, current, connecting, held, stream, failures, mishaps>>

\* The slot is unlocked, and end_connect opens the gate of a client.
Leave(t) ==
    /\ Is(t, "leave") /\ held' = [held EXCEPT ![SlotLock] = None] /\ Step(t, Free)
    /\ connecting' = (connecting /\ t # Supervisor)
    /\ failures' = IF t = Supervisor THEN 0 ELSE failures
    /\ UNCHANGED <<TcpFrame, alive, current, stream, mishaps>>

-----------------------------------------------------------------------------
(* TCP: new streams                                                        *)

InUse(c) == c = current \/ \E t \in Threads : ~Is(t, "free") /\
              (("conn" \in DOMAIN thread[t] /\ thread[t].conn = c)
               \/ ("old" \in DOMAIN thread[t] /\ thread[t].old = c))

Brings(t) == \E c \in Conn :
    /\ ~InUse(c) /\ Step(t, [at |-> "install", conn |-> c])
    /\ stream' = [stream EXCEPT ![c] = "open"]

\* A client's supervisor dials when the slot is empty and nobody else does.
SupervisorLooks ==
    /\ TcpRuns /\ side = "client" /\ alive /\ Is(Supervisor, "free") /\ Unlocked(SlotLock)
    /\ current = None /\ ~connecting
    /\ connecting' = TRUE /\ Step(Supervisor, [at |-> "dial"])
    /\ UNCHANGED <<TcpFrame, alive, current, held, stream, failures, mishaps>>

\* run_tcp_audio_supervisor after a failure, of which the last ends the session,
\* and after a host that does not answer in time, which is taken for a dial in
\* progress and not counted.
DialFails ==
    /\ Step(Supervisor, Free) /\ connecting' = FALSE /\ UNCHANGED stream
    /\ \/ /\ failures' = failures + 1 /\ alive' = (alive /\ failures' < MaxFailures)
          /\ UNCHANGED mishaps
       \/ Mishap /\ UNCHANGED <<alive, failures>>

\* open_tcp_audio_once: a stream to a host that proved itself, or not.
SupervisorDials ==
    /\ Is(Supervisor, "dial")
    /\ \/ Brings(Supervisor) /\ UNCHANGED <<alive, connecting, failures, mishaps>>
       \/ DialFails
    /\ UNCHANGED <<TcpFrame, current, held>>

\* host_audio_thread: the client has dialled, for whatever reason, and proved
\* that it knows the session.
HostAccepts(t) ==
    /\ TcpRuns /\ side = "host" /\ alive /\ Is(t, "free") /\ Mishap /\ Brings(t)
    /\ UNCHANGED <<TcpFrame, alive, current, connecting, held, failures>>

\* install: the new stream is in the slot before the old one is shut down.
Installs(t) ==
    /\ Is(t, "install") /\ Unlocked(SlotLock)
    /\ held' = [held EXCEPT ![SlotLock] = t] /\ current' = thread[t].conn
    /\ Step(t, [at |-> IF current = None THEN "leave" ELSE "reader",
                conn |-> thread[t].conn, old |-> current])
    /\ UNCHANGED <<TcpFrame, alive, connecting, stream, failures, mishaps>>

StreamBreaks ==
    /\ TcpRuns /\ \E c \in Conn : InUse(c) /\ stream[c] \in {"open", "torn"}
                    /\ stream' = [stream EXCEPT ![c] = "broken"]
    /\ Mishap
    /\ UNCHANGED <<TcpFrame, alive, current, connecting, held, thread, failures>>

-----------------------------------------------------------------------------
\* A bye, a lost control link, a fatal error of a worker or a shutdown.
SessionEnds ==
    /\ alive /\ alive' = FALSE
    /\ UNCHANGED <<window, transport, udp, tcp>>

PathInit ==
    /\ Init /\ transport \in {"udp", "tcp"} /\ alive = TRUE
    /\ target \in HostAddress
    /\ slot \in IF UdpRuns THEN {Socket(a, "negotiated") : a \in {target, Wild}} ELSE {None}
    /\ leased = [w \in Workers |-> None] /\ resume = NoResume /\ astray = FALSE /\ resumes = 0
    /\ side \in IF UdpRuns THEN {"host"} ELSE {"client", "host"}
    /\ current = None /\ connecting = FALSE
    /\ held = [lock \in Locks |-> None] /\ stream = [c \in Conn |-> "shut"]
    /\ thread = [t \in Threads |-> Free] /\ failures = 0 /\ mishaps = 0

\* A thread that has begun goes on, a call in at most its timeout.
GoesOn(t) ==
    \/ t \in Workers /\ (WorkerEnters(t) \/ WorkerReturns(t) \/ WorkerClears(t))
    \/ ShutReader(t) \/ ShutWriter(t) \/ Leave(t)
    \/ t \in Opener /\ Installs(t)

PathNext ==
    \/ \E w \in Workers : Lease(w) \/ WorkerTakes(w)
    \/ Receive \/ CallEnds \/ ClientSends \/ Migration
    \/ \E t \in Threads : GoesOn(t)
    \/ SupervisorLooks \/ SupervisorDials \/ (\E t \in Opener : HostAccepts(t))
    \/ StreamBreaks \/ SessionEnds

PathSpec ==
    /\ PathInit /\ [][PathNext]_allVars
    /\ \A t \in Threads : WF_allVars(GoesOn(t))
    /\ WF_allVars(SupervisorLooks) /\ WF_allVars(SupervisorDials)

-----------------------------------------------------------------------------
\* "The peer is still sending to the port it negotiated" (transport.rs:298):
\* whatever fails while the socket moves, between two resumes a live session
\* has its audio socket on that port, and where the client sends to, unless an
\* error was reported or the host prefers a link the client does not use.
AudioReachable ==
    UdpRuns /\ alive /\ resume = NoResume =>
        /\ slot # None /\ slot.port = "negotiated"
        /\ slot.addr \in {Wild, target} \/ astray

\* The slot, the halves of a stream and the blocking calls behind them never
\* block each other for good (transport.rs:118): a client whose stream is gone
\* has another one, or its session ends, and the host installs what came in.
StreamReturns ==
    /\ (TcpRuns /\ side = "client" /\ current = None) ~> (current # None \/ ~alive)
    /\ \A t \in Opener : Is(t, "install") ~> ~Is(t, "install")

=============================================================================
