----------------------------- MODULE HushRuntime -----------------------------
(***************************************************************************)
(* The Hush noise suppressor: the audio callback, which hands its input to *)
(* an inference thread and takes denoised ("wet") audio back when it is    *)
(* there, and the worker, which denoises, falls behind, resynchronizes and *)
(* gives up.  They share two rings of blocks and a handful of atomics, no  *)
(* lock.                                                                   *)
(*                                                                         *)
(* One step is one access to what both threads write, but a callback reads *)
(* the wet blocks in one step.  A block is one slot of a ring, its length  *)
(* the unit of time.  Positions are ages relative to latest_frame, cut off *)
(* at Far: older is late whatever the exact age.  Of generations and epochs *)
(* the code compares only equality: a tag says whether it is the current   *)
(* one.  A change of generation restarts a stream that has run for long.   *)
(***************************************************************************)
EXTENDS Integers, Sequences

CONSTANTS
    Quanta,         \* lengths of a callback, in blocks
    Capacity,       \* HUSH_QUEUE_CAPACITY
    Schedule,       \* scheduling_frames: the age of the wet audio asked for
    BacklogLimit,   \* backlog_limit
    Lead,           \* recovery_lead
    MaxAttempts,    \* HUSH_MAX_AUTOMATIC_RETRIES
    Far             \* bound on ages

ASSUME HushConstants ==
    /\ Quanta \subseteq Nat \ {0} /\ Capacity \in Nat \ {0} /\ MaxAttempts \in Nat
    /\ Schedule \in Nat /\ BacklogLimit \in Nat /\ Lead \in Nat /\ Far \in Nat
    /\ \A q \in Quanta : q <= Lead /\ Far > Schedule + q
    /\ Lead < Schedule /\ Schedule < BacklogLimit /\ BacklogLimit + 1 < Far

VARIABLES
    cb,         \* the callback thread
    mask,       \* channel_mask # 0
    restart,    \* input_frame_position = 0, after a change of generation
    gap,        \* latest_frame - worker_input_frame
    accept,     \* accept_input
    resync,     \* resync_requested
    retry,      \* retry_requested
    shown,      \* worker_state, as the diagnostics hold it
    failed,     \* worker_failed
    input,      \* the input ring
    output,     \* the output ring
    worker,          \* the worker's own variables
    asked       \* history: a retry was asked for, and the gate not opened since

flags == <<accept, resync, retry, shown, failed>>
clock == <<mask, restart>>
hushVars == <<cb, clock, gap, flags, input, output, worker, asked>>

Cut(x) == IF x > Far THEN Far ELSE IF x < -Far THEN -Far ELSE x
Stale == [gen |-> FALSE, at |-> 0, src |-> 0]
Idle == [at |-> "idle", left |-> 0, ep |-> FALSE]
Goto(pc) == cb' = IF pc = "idle" THEN Idle ELSE [cb EXCEPT !.at = pc]

-----------------------------------------------------------------------------
(* The callback.                                                           *)

\* A callback begins: latest_frame moves on before anything is tested, and
\* jumps back when the positions have been restarted.
Tick(q) ==
    LET Age(x) == IF restart THEN -Far ELSE Cut(x + q)
    IN  /\ cb.at = "idle"
        /\ cb' = IF failed THEN Idle ELSE [Idle EXCEPT !.at = IF mask THEN "test" ELSE "read", !.left = q]
        /\ restart' = FALSE /\ gap' = Age(gap)
        /\ input' = [i \in DOMAIN input |-> [input[i] EXCEPT !.end = Age(@)]]
        /\ output' = [i \in DOMAIN output |-> [output[i] EXCEPT !.at = Age(@), !.src = Age(@)]]
        /\ worker' = IF worker.pristine THEN worker ELSE [worker EXCEPT !.next = Age(@), !.out = Age(@), !.held = Age(@)]
        /\ UNCHANGED <<mask, flags, asked>>

Test ==
    /\ cb.at = "test" /\ Goto(IF accept THEN "epoch" ELSE "read")
    /\ UNCHANGED <<clock, gap, flags, input, output, worker, asked>>

LoadEpoch ==
    /\ cb.at = "epoch" /\ cb' = [cb EXCEPT !.at = "push", !.ep = TRUE]
    /\ UNCHANGED <<clock, gap, flags, input, output, worker, asked>>

Push ==
    /\ cb.at = "push" /\ Len(input) < Capacity
    /\ input' = Append(input, [gen |-> TRUE, ep |-> cb.ep, end |-> cb.left - 1])
    /\ cb' = [cb EXCEPT !.left = @ - 1, !.at = IF cb.left = 1 THEN "read" ELSE "push"]
    /\ UNCHANGED <<clock, gap, flags, output, worker, asked>>

\* request_resync: the ring is full.  In the warm-up the recovery has failed.
Full ==
    /\ cb.at = "push" /\ Len(input) = Capacity
    /\ Goto(CASE shown \in {"Overloaded", "Failed"} -> "read"
              [] shown = "Warming" -> "warmClose"
              [] OTHER -> "close")
    /\ UNCHANGED <<clock, gap, flags, input, output, worker, asked>>

Closes ==
    /\ cb.at \in {"warmClose", "close", "askClose"}
    /\ Goto(CASE cb.at = "warmClose" -> "overload" [] cb.at = "close" -> "swap"
              [] OTHER -> "askSwap")
    /\ accept' = FALSE
    /\ UNCHANGED <<clock, gap, resync, retry, shown, failed, input, output, worker, asked>>

Swaps ==
    /\ cb.at \in {"swap", "askSwap"}
    /\ Goto(IF cb.at = "askSwap" THEN "askMark" ELSE IF resync THEN "read" ELSE "mark")
    /\ resync' = TRUE
    /\ UNCHANGED <<clock, gap, accept, retry, shown, failed, input, output, worker, asked>>

Marks ==
    /\ cb.at \in {"overload", "mark", "askMark"}
    /\ Goto(IF cb.at = "askMark" THEN "idle" ELSE "read")
    /\ shown' = IF cb.at = "overload" THEN "Overloaded" ELSE "ResyncRequested"
    /\ UNCHANGED <<clock, gap, accept, resync, retry, failed, input, output, worker, asked>>

\* read_timeline drops what is stale or too old, takes what it was asked for,
\* and stops at what is younger.
Read ==
    LET Young(i) == output[i].gen /\ output[i].at <= Schedule
    IN  /\ cb.at = "read" /\ Goto("idle")
        /\ IF failed THEN UNCHANGED output
           ELSE \E first \in 1..(Len(output) + 1) :
                  /\ \A i \in 1..(first - 1) : ~Young(i)
                  /\ first \in DOMAIN output => Young(first)
                  /\ output' = SubSeq(output, first, Len(output))
        /\ UNCHANGED <<clock, gap, flags, input, worker, asked>>

\* The effect is enabled again, or a channel of it is connected or unplugged,
\* which starts a new generation.
Asks(ok) ==
    /\ cb' = IF ok THEN [Idle EXCEPT !.at = "askClose"] ELSE Idle
    /\ retry' = (retry \/ ok) /\ asked' = ~failed
    /\ UNCHANGED <<gap, accept, resync, shown, failed>>

\* Slip: as a full ring, a retry is ignored while the worker is overloaded.
Reenable_ignored ==
    /\ cb.at = "idle" /\ Asks(~failed /\ shown # "Overloaded")
    /\ UNCHANGED <<mask, restart, input, output, worker>>

Reenable ==
    /\ cb.at = "idle" /\ Asks(~failed)
    /\ UNCHANGED <<mask, restart, input, output, worker>>

SetMask ==
    /\ cb.at = "idle" /\ Asks(~failed)
    /\ mask' \in BOOLEAN /\ (mask \/ mask') /\ restart' = TRUE
    /\ input' = [i \in DOMAIN input |-> [input[i] EXCEPT !.gen = FALSE]]
    /\ output' = [i \in DOMAIN output |-> Stale]
    /\ worker' = [worker EXCEPT !.gen = FALSE]

Callback ==
    \/ \E q \in Quanta : Tick(q)
    \/ Test \/ LoadEpoch \/ Push \/ Full \/ Closes \/ Swaps \/ Marks
    \/ Read

-----------------------------------------------------------------------------
(* The worker.                                                             *)

WorkerAt(pc) == worker.at = pc
Overloads == /\ accept' = FALSE /\ shown' = "Overloaded" /\ UNCHANGED <<resync, retry, failed>>
Requests == /\ accept' = FALSE /\ resync' = TRUE
            /\ shown' = (IF resync THEN shown ELSE "ResyncRequested") /\ UNCHANGED <<retry, failed>>
Fails == /\ failed' = TRUE /\ shown' = "Failed" /\ UNCHANGED <<accept, resync, retry>>
Reset == [worker EXCEPT !.pristine = TRUE, !.warm = TRUE, !.gen = TRUE, !.next = 0, !.out = 0, !.held = 0]
Goes(pc) == worker' = [worker EXCEPT !.at = pc]

\* The head of the loop takes over an overload the callback has declared.
Loop ==
    LET declared == shown = "Overloaded" /\ worker.state # "Overloaded"
        state == IF declared THEN "Overloaded" ELSE worker.state
    IN  /\ WorkerAt("loop")
        /\ worker' = [worker EXCEPT !.state = state, !.cooling = @ \/ declared,
                           !.at = IF resync THEN "recover" ELSE
                                  IF state = "Overloaded" THEN "overloaded" ELSE "backlog"]
        /\ accept' = (accept /\ ~declared)
        /\ UNCHANGED <<cb, clock, gap, resync, retry, shown, failed, input, output, asked>>

\* A resynchronization: what is queued is dropped with the gate closed, and a new
\* epoch makes stale whatever the callback is about to add...
Recover ==
    /\ WorkerAt("recover") /\ worker' = [worker EXCEPT !.state = "Recovering", !.cooling = FALSE, !.at = "reset"]
    /\ retry' = FALSE /\ accept' = FALSE /\ shown' = "Recovering"
    /\ input' = <<>> /\ output' = <<>> /\ cb' = [cb EXCEPT !.ep = FALSE]
    /\ UNCHANGED <<clock, gap, resync, failed, asked>>

\* ...the denoisers are reset, and the backlog is forgotten...
ResetsDone ==
    /\ WorkerAt("reset") /\ worker' = [Reset EXCEPT !.state = "Warming", !.at = "clear"]
    /\ gap' = 0 /\ shown' = "Warming"
    /\ UNCHANGED <<cb, clock, accept, resync, retry, failed, input, output, asked>>

ResetFails ==
    /\ WorkerAt("reset") /\ Fails /\ Goes("end")
    /\ UNCHANGED <<cb, clock, gap, input, output, asked>>

\* ...and the gate opens.
Clear ==
    /\ WorkerAt("clear") /\ resync' = FALSE /\ Goes("open")
    /\ UNCHANGED <<cb, clock, gap, accept, retry, shown, failed, input, output, asked>>

Open ==
    /\ WorkerAt("open") /\ accept' = TRUE /\ asked' = FALSE /\ Goes("loop")
    /\ UNCHANGED <<cb, clock, gap, resync, retry, shown, failed, input, output>>

\* Overloaded: the input is dropped until the cooldown is over or the user
\* asks; after MaxAttempts attempts only the user can.
Overloaded ==
    LET again == retry \/ (~worker.cooling /\ worker.attempts < MaxAttempts)
    IN  /\ WorkerAt("overloaded")
        /\ accept' = FALSE /\ retry' = FALSE /\ input' = <<>> /\ gap' = 0
        /\ resync' = (resync \/ again) /\ shown' = (IF again THEN "ResyncRequested" ELSE shown)
        /\ worker' = [worker EXCEPT !.at = "loop", !.attempts =
                                IF again /\ @ < MaxAttempts THEN @ + 1 ELSE @]
        /\ UNCHANGED <<cb, clock, failed, output, asked>>

Cooled ==
    /\ worker.cooling /\ worker' = [worker EXCEPT !.cooling = FALSE]
    /\ UNCHANGED <<cb, clock, gap, flags, input, output, asked>>

\* Too far behind.  In the warm-up another reset would not help.
Behind(lag) == lag > BacklogLimit
GivesWay(pc) ==
    IF worker.state = "Warming"
      THEN Overloads /\ worker' = [worker EXCEPT !.at = pc, !.state = "Overloaded", !.cooling = TRUE]
      ELSE Requests /\ Goes(pc)

\* Slip: in the warm-up the gate is closed, but no overload declared.
Backlog_half ==
    /\ WorkerAt("backlog")
    /\ IF Behind(gap)
         THEN /\ IF worker.state = "Warming" THEN accept' = FALSE /\ UNCHANGED <<resync, retry, shown, failed>>
                 ELSE Requests
              /\ Goes("loop")
         ELSE Goes("take") /\ UNCHANGED flags
    /\ UNCHANGED <<cb, clock, gap, input, output, asked>>

Backlog ==
    /\ WorkerAt("backlog")
    /\ IF Behind(gap) THEN GivesWay("loop")
       ELSE Goes("take") /\ UNCHANGED flags
    /\ UNCHANGED <<cb, clock, gap, input, output, asked>>

\* Slip: a block that is not the continuation is denoised as if it were.
TakeBlock_shifted ==
    LET b == Head(input)
        drops == input' = Tail(input) /\ Goes("more")
    IN  /\ worker.at \in {"take", "more"} /\ input # <<>>
        /\ IF Behind(b.end) THEN GivesWay("more") /\ input' = Tail(input)
            ELSE IF ~b.gen \/ ~b.ep THEN drops /\ UNCHANGED flags
            ELSE /\ LET now == IF worker.gen THEN worker ELSE Reset
                    IN  worker' = [now EXCEPT !.at = "denoise", !.next = b.end, !.pristine = FALSE,
                                         !.out = IF now.pristine THEN b.end + 1 ELSE @]
                 /\ UNCHANGED <<flags, input>>
        /\ UNCHANGED <<cb, clock, gap, output, asked>>

\* The next block: dropped when it is late, stale or not the continuation...
TakeBlock ==
    LET b == Head(input)
        drops == input' = Tail(input) /\ Goes("more")
    IN  /\ worker.at \in {"take", "more"} /\ input # <<>>
        /\ IF Behind(b.end) THEN GivesWay("more") /\ input' = Tail(input)
            ELSE IF ~b.gen \/ ~b.ep THEN drops /\ UNCHANGED flags
            ELSE IF ~worker.pristine /\ b.end + 1 # worker.next THEN Requests /\ drops
            ELSE /\ LET now == IF worker.gen THEN worker ELSE Reset
                    IN  worker' = [now EXCEPT !.at = "denoise", !.next = b.end, !.pristine = FALSE,
                                         !.out = IF now.pristine THEN b.end + 1 ELSE @]
                 /\ UNCHANGED <<flags, input>>
        /\ UNCHANGED <<cb, clock, gap, output, asked>>

\* ...and the round ends, after one block at the earliest.
EndRound ==
    /\ WorkerAt("more") \/ (WorkerAt("take") /\ input = <<>>)
    /\ Goes("loop")
    /\ UNCHANGED <<cb, clock, gap, flags, input, output, asked>>

\* ...denoised otherwise.  What comes out is one block older than what goes
\* in; the first block after a reset only warms the denoiser up, and what finds
\* the ring full is dropped.
Emitted(b) ==
    IF worker.warm \/ Len(output) = Capacity THEN output
    ELSE Append(output, IF b.gen THEN [gen |-> TRUE, at |-> worker.out, src |-> worker.held] ELSE Stale)

\* The worker keeps up, is too slow, or is found to have recovered.
Denoise ==
    LET b == Head(input)
        begun == IF worker.state = "Starting" THEN "Running" ELSE worker.state
        done == [worker EXCEPT !.at = "more", !.warm = FALSE, !.out = Cut(@ - 1), !.held = Cut(b.end + 1)]
    IN  /\ WorkerAt("denoise") /\ input' = Tail(input) /\ gap' = b.end
        /\ output' = Emitted(b)
        /\ \/ /\ worker' = [done EXCEPT !.state = begun]
              /\ shown' = (IF worker.state = "Starting" THEN "Running" ELSE shown)
              /\ UNCHANGED <<accept, resync, retry, failed>>
           \/ /\ b.end > Lead \/ Len(input) > Capacity \div 4                   \* the CPU is too slow
              /\ Overloads /\ worker' = [done EXCEPT !.state = "Overloaded", !.cooling = TRUE]
           \/ /\ worker.state = "Warming" /\ b.end <= Lead                            \* it keeps up again
              /\ worker' = [done EXCEPT !.state = "Running", !.attempts = 0]
              /\ shown' = "Running" /\ UNCHANGED <<accept, resync, retry, failed>>
        /\ UNCHANGED <<cb, clock, asked>>

DenoiseFails ==
    /\ WorkerAt("denoise") /\ Fails /\ Goes("end")
    /\ UNCHANGED <<cb, clock, gap, input, output, asked>>

Worker ==
    \/ Loop \/ Recover \/ ResetsDone \/ ResetFails \/ Clear \/ Open
    \/ Overloaded \/ Backlog \/ TakeBlock \/ EndRound \/ Denoise \/ DenoiseFails

-----------------------------------------------------------------------------
HushInit ==
    /\ cb = Idle /\ mask = TRUE /\ restart = FALSE /\ gap = 0
    /\ accept = TRUE /\ resync = FALSE /\ retry = FALSE /\ shown = "Starting" /\ failed = FALSE /\ asked = FALSE
    /\ input = <<>> /\ output = <<>>
    /\ worker = [at |-> "loop", state |-> "Starting", attempts |-> 0, cooling |-> FALSE,
            pristine |-> TRUE, warm |-> TRUE, gen |-> TRUE, next |-> 0, out |-> 0, held |-> 0]

HushNext == Callback \/ Reenable \/ SetMask \/ Worker \/ Cooled

\* The graph keeps calling, the worker runs, and a cooldown ends.
HushSpec == HushInit /\ [][HushNext]_hushVars /\ WF_hushVars(Callback) /\ WF_hushVars(Worker) /\ WF_hushVars(Cooled)

-----------------------------------------------------------------------------
(* What the effect promises.                                               *)

\* Wet audio is never shifted against the dry audio it replaces: whatever
\* blocks were skipped, dropped or reset away on the way, a block of the
\* current generation holds the input of its position.
WetAligned ==
    \A i \in DOMAIN output :
        LET b == output[i] IN b.gen /\ b.at < Far => b.src = b.at + 1

\* Whoever closes the input gate, in whatever order the two threads write the
\* flags, it opens again, unless the worker has failed or used up its attempts.
GateReopens == ~accept ~> accept \/ failed \/ (worker.attempts = MaxAttempts /\ worker.state = "Overloaded")

\* A retry is never swallowed, not even when the attempts are used up.
RetryReopens == asked ~> ~asked \/ failed

=============================================================================
