---------------------------- MODULE LinkCommands ----------------------------
(***************************************************************************)
(* The undoable link commands, the patchbay activation and the driver they *)
(* both mutate.                                                            *)
(*                                                                         *)
(* A command is a short script of driver calls on stable endpoint pairs.   *)
(* Each call refreshes the graph first, so the session manager may change  *)
(* a link between any two calls of one command, and each call may fail.  A *)
(* failure runs the script's roll-back, whose calls may fail as well.      *)
(*                                                                         *)
(* Modelled: pw-graph-command (stack, connect, disconnect, reroute, the    *)
(* shared transaction helpers), pw-graph-patchbay activation, the default  *)
(* methods of GraphDriver, and the PipeWire driver's connect, disconnect   *)
(* and blocked pairs.  A pair <<o, i>> stands for two stable port keys.    *)
(***************************************************************************)
EXTENDS Integers, Sequences, FiniteSets, SequencesExt

CONSTANTS
    Pairs,      \* the endpoint pairs commands speak about, <<output, input>>
    Graphs,     \* the graphs the session starts with: sets of pairs
    Groups,     \* the groups a channel-wise connect or disconnect takes: sequences
    Patchbays,  \* the saved rule lists: sequences of pairs
    Observed,   \* pairs whose link the backend shows but does not let us change
    MaxJobs,    \* bound on the operations the user starts
    MaxFaults,  \* bound on the driver calls that fail
    MaxOutside  \* bound on the link changes of other clients

ASSUME CommandConstants ==
    /\ IsFiniteSet(Pairs) /\ \A p \in Pairs : p = <<p[1], p[2]>>
    /\ Observed \subseteq Pairs
    /\ Graphs \subseteq SUBSET Pairs
    /\ Groups \subseteq Seq(Pairs) /\ Patchbays \subseteq Seq(Pairs)
    /\ MaxJobs \in Nat /\ MaxFaults \in Nat /\ MaxOutside \in Nat

VARIABLES
    links,      \* the links of the daemon, as pairs
    blocked,    \* blocked_connections: pairs the driver destroys when it meets them
    undo_stack, \* CommandStack.undo_stack, last element on top
    redo_stack, \* CommandStack.redo_stack
    job,        \* the command, undo, redo or activation in progress, or NoJob
    spoilt,     \* history: pairs changed by another client, behind a failing call or
                \* by an operation no stack accounts for
    jobs,       \* history: how many operations started, at most MaxJobs
    faults,     \* history: how many driver calls failed, at most MaxFaults
    meddled     \* history: how many changes other clients made, at most MaxOutside

vars == <<links, blocked, undo_stack, redo_stack, job, spoilt, jobs, faults, meddled>>
stacks == <<undo_stack, redo_stack>>

-----------------------------------------------------------------------------
(* Scripts.  A step is a driver call: the action and the pair.             *)

Script(call, keys) == [k \in 1..Len(keys) |-> [call |-> call, pair |-> keys[k]]]

SharesInput(p) == {q \in Pairs : q[2] = p[2]}
Mutable(S) == S \ Observed

\* A command: what it was built with and what its last execution recorded.
Command(op, keys) == [op |-> op, keys |-> keys, done |-> <<>>, before |-> {}, after |-> {}]

\* The script of an execution.  Observed links, which a group disconnect skips,
\* are in no selection a disconnect was made from.
ExecuteScript(cmd) ==
    CASE cmd.op \in {"connect", "connect_many"} -> Script("add", cmd.keys)
      [] cmd.op \in {"disconnect", "disconnect_many"} ->
            Script("drop", cmd.keys)
      [] cmd.op = "disconnect_all" -> Script("drop", SetToSeq(Mutable(links)))
      [] cmd.op = "reroute" -> Script("cut", <<cmd.keys[1]>>) \o Script("add", <<cmd.keys[2]>>)

\* The script of an undo: done holds what the execution created or removed.
UndoScript(cmd) ==
    CASE cmd.op = "connect" -> Script("dropAllow", cmd.done)
      [] cmd.op = "connect_many" -> Script("cutAllow", Reverse(cmd.done))
      [] cmd.op \in {"disconnect", "disconnect_many", "disconnect_all"} -> Script("add", cmd.done)
      [] cmd.op = "reroute" ->
            Script("cutAllow", cmd.done) \o Script("add", <<cmd.keys[1]>>)

\* Activation: the exclusive sweep, then the saved rules in order.
ActivateScript(rules, exclusive) ==
    (IF exclusive THEN Script("cut", SetToSeq(Mutable(links) \ Range(rules))) ELSE <<>>)
      \o Script("rule", rules)

NoJob == [kind |-> "none"]
Job(kind, cmd, todo, auto) ==
    [kind |-> kind, cmd |-> cmd, todo |-> todo, created |-> <<>>, removed |-> <<>>,
     auto |-> auto, failing |-> FALSE, stranded |-> 0, before |-> links]

-----------------------------------------------------------------------------
(* The driver.  Every call refreshes, and a refresh destroys blocked links *)

Swept == links \ blocked
SweptAway == links \cap blocked

\* Slip: the connection is made without allow_connection first.
ConnectIfMissing_stays_blocked(p, result) ==
    /\ spoilt' = spoilt \cup SweptAway /\ UNCHANGED blocked
    /\ IF p \in Swept
         THEN result = "kept" /\ links' = Swept
         ELSE \/ result = "made" /\ links' = Swept \cup {p}
              \/ result = "error" /\ links' = Swept

\* connect_by_key_if_missing: "made", "kept" when the link was there, "error".
\* The daemon makes the link before the round trip that may report an error.
ConnectIfMissing(p, result) ==
    IF p \in Swept
      THEN /\ result = "kept" /\ links' = Swept
           /\ spoilt' = spoilt \cup SweptAway /\ UNCHANGED blocked
      ELSE /\ blocked' = blocked \ {p}
           /\ \/ result = "made" /\ links' = Swept \cup {p} /\ spoilt' = spoilt \cup SweptAway
              \/ result = "error" /\ links' = Swept /\ spoilt' = spoilt \cup SweptAway
              \/ result = "error" /\ links' = Swept \cup {p} /\ spoilt' = spoilt \cup SweptAway \cup {p}

\* disconnect_by_key_if_present and its variants, which differ in what they
\* leave blocked.  The driver blocks the pair before it asks the daemon.
DisconnectIfPresent(p, whenAbsent, whenRemoved, result) ==
    IF p \notin Swept
      THEN /\ result = "absent" /\ links' = Swept
           /\ blocked' = whenAbsent /\ spoilt' = spoilt \cup SweptAway
      ELSE \/ /\ result = "removed" /\ links' = Swept \ {p}
              /\ blocked' = whenRemoved /\ spoilt' = spoilt \cup SweptAway
           \/ /\ result = "error" /\ links' = Swept
              /\ blocked' = blocked \cup {p} /\ spoilt' = spoilt \cup SweptAway \cup {p}

\* One driver call of a script; a call whose own refresh fails changes nothing.
Call(step, result) ==
    LET p == step.pair
        with == blocked \cup {p}
        without == blocked \ {p}
    IN  \/ result = "error" /\ UNCHANGED <<links, blocked, spoilt>>
        \/ step.call = "add" /\ ConnectIfMissing(p, result)
        \/ step.call = "drop" /\ DisconnectIfPresent(p, with, with, result)
        \/ step.call = "cut" /\ DisconnectIfPresent(p, blocked, with, result)
        \/ step.call = "dropAllow" /\ DisconnectIfPresent(p, without, without, result)
        \/ step.call = "cutAllow" /\ DisconnectIfPresent(p, blocked, without, result)

-----------------------------------------------------------------------------
(* Starting                                                                *)

Init ==
    /\ links \in Graphs
    /\ blocked = {} /\ undo_stack = <<>> /\ redo_stack = <<>>
    /\ job = NoJob /\ spoilt = {} /\ jobs = 0 /\ faults = 0 /\ meddled = 0

Start(kind, cmd, todo, auto) ==
    /\ job = NoJob /\ jobs < MaxJobs
    /\ job' = Job(kind, cmd, todo, auto) /\ jobs' = jobs + 1
    /\ UNCHANGED <<links, blocked, stacks, spoilt, faults, meddled>>

\* An execution whose first refresh fails, or a reroute whose link is gone or
\* only observed, returns before it changes anything: it is no step here.
StartExecute(kind, cmd) ==
    /\ cmd.op = "reroute" => cmd.keys[1] \in Mutable(links)
    /\ Start(kind, cmd, ExecuteScript(cmd), FALSE)

\* A new command: the interface offers the disconnects of links it shows.
Execute ==
    /\ \E group \in Groups, p, q \in Pairs :
         \E cmd \in {Command("connect", <<p>>), Command("connect_many", group),
                     Command("disconnect", <<p>>),
                     Command("disconnect_many", group),
                     Command("disconnect_all", <<>>), Command("reroute", <<p, q>>)} :
            /\ cmd.op = "reroute" => p # q /\ (p[1] = q[1] \/ p[2] = q[2])
            /\ cmd.op = "disconnect" => p \in Mutable(links)
            /\ cmd.op = "disconnect_many" => cmd.keys # <<>> /\ Range(cmd.keys) \subseteq Mutable(links)
            /\ StartExecute("execute", cmd)

Undo ==
    /\ undo_stack # <<>>
    /\ Start("undo", Last(undo_stack), UndoScript(Last(undo_stack)), FALSE)

Redo ==
    /\ redo_stack # <<>>
    /\ StartExecute("redo", Last(redo_stack))

Activate ==
    \E rules \in Patchbays, exclusive, auto \in BOOLEAN :
        Start("activate", Command("activate", rules), ActivateScript(rules, exclusive), auto)

-----------------------------------------------------------------------------
(* Running: one driver call per step.                                      *)

\* A saved rule that is not live becomes the removal of what else feeds its
\* input, under auto-disconnect, and the connection.
ConsiderRule ==
    /\ job # NoJob /\ job.todo # <<>> /\ Head(job.todo).call = "rule"
    /\ LET p == Head(job.todo).pair
           stale == IF job.auto THEN SetToSeq(Mutable(links) \cap SharesInput(p)) ELSE <<>>
           steps == IF p \in links THEN <<>> ELSE Script("cut", stale) \o Script("add", <<p>>)
       IN  job' = [job EXCEPT !.todo = steps \o Tail(@)]
    /\ UNCHANGED <<links, blocked, stacks, spoilt, jobs, faults, meddled>>

\* restore_keys and every roll-back go on past a failing call and count it.
KeepsGoing(j) == j.failing \/ (j.kind = "undo" /\ j.cmd.op \in {"disconnect_many", "disconnect_all"})

\* Slip: the roll-back undoes what was created and leaves the removals.
Rollback_half(j) == Script("cutAllow", Reverse(j.created))

Rollback(j) == Script("cutAllow", Reverse(j.created)) \o Script("add", Reverse(j.removed))

\* Undoing a reroute that left its new route in place reports one stranded link.
StrandedAtOnce(j) ==
    IF j.kind = "undo" /\ j.cmd.op = "reroute" /\ Head(j.todo).call = "add" /\ j.removed = <<>>
      THEN 1 ELSE 0

AfterError(j) ==
    IF KeepsGoing(j)
      THEN [j EXCEPT !.todo = Tail(@), !.stranded = @ + 1]
      ELSE [j EXCEPT !.todo = Rollback(j), !.failing = TRUE, !.stranded = StrandedAtOnce(j)]

\* A link an activation made and then removed is no part of the original graph.
AfterCall(j, result) ==
    LET p == Head(j.todo).pair
        next == [j EXCEPT !.todo = Tail(@)]
    IN  IF result = "error" THEN AfterError(j)
        ELSE IF j.failing \/ result \notin {"made", "removed"} THEN next
        ELSE IF result = "made" THEN [next EXCEPT !.created = Append(@, p)]
        ELSE IF Contains(j.created, p) THEN [next EXCEPT !.created = RemoveFirst(@, p)]
        ELSE [next EXCEPT !.removed = Append(@, p)]

CallReturns ==
    /\ job # NoJob /\ job.todo # <<>> /\ Head(job.todo).call # "rule"
    /\ \E result \in {"made", "kept", "removed", "absent", "error"} :
         /\ Call(Head(job.todo), result)
         /\ job' = AfterCall(job, result)
         /\ faults' = IF result = "error" THEN faults + 1 ELSE faults
    /\ faults' <= MaxFaults
    /\ UNCHANGED <<stacks, jobs, meddled>>

Verdict(j) == IF j.stranded > 0 THEN "partial" ELSE IF j.failing THEN "failed" ELSE "ok"

Executed(j) ==
    [j.cmd EXCEPT !.done = IF j.cmd.op = "reroute" THEN j.created ELSE j.created \o j.removed,
                  !.before = j.before, !.after = links]

\* Slip: a new command keeps the redo stack.
MoveCommand_keeps_redo(j) ==
    CASE j.kind = "execute" -> undo_stack' = Append(undo_stack, Executed(j)) /\ UNCHANGED redo_stack
      [] j.kind = "redo" -> undo_stack' = Append(undo_stack, Executed(j)) /\ redo_stack' = Front(redo_stack)
      [] j.kind = "undo" -> undo_stack' = Front(undo_stack) /\ redo_stack' = Append(redo_stack, j.cmd)
      [] j.kind = "activate" -> UNCHANGED stacks

\* Only what succeeded moves between the stacks; a new command clears redo.
MoveCommand(j) ==
    CASE j.kind = "execute" -> undo_stack' = Append(undo_stack, Executed(j)) /\ redo_stack' = <<>>
      [] j.kind = "redo" -> undo_stack' = Append(undo_stack, Executed(j)) /\ redo_stack' = Front(redo_stack)
      [] j.kind = "undo" -> undo_stack' = Front(undo_stack) /\ redo_stack' = Append(redo_stack, j.cmd)
      [] j.kind = "activate" -> UNCHANGED stacks

Changed(j) == {p \in Pairs : (p \in j.before) # (p \in links)}

Finish ==
    /\ job # NoJob /\ job.todo = <<>>
    /\ IF Verdict(job) = "ok" THEN MoveCommand(job) ELSE UNCHANGED stacks
    /\ spoilt' = IF Verdict(job) = "partial" \/ (Verdict(job) = "ok" /\ job.kind = "activate")
                   THEN spoilt \cup Changed(job) ELSE spoilt
    /\ job' = NoJob
    /\ UNCHANGED <<links, blocked, jobs, faults, meddled>>

\* The session manager, or any other client of the daemon.
OtherClient ==
    /\ meddled < MaxOutside /\ meddled' = meddled + 1
    /\ \E p \in Pairs : /\ links' = IF p \in links THEN links \ {p} ELSE links \cup {p}
                        /\ spoilt' = spoilt \cup {p}
    /\ UNCHANGED <<blocked, stacks, job, jobs, faults>>

Next == Execute \/ Undo \/ Redo \/ Activate \/ ConsiderRule \/ CallReturns \/ Finish \/ OtherClient

Spec == Init /\ [][Next]_vars

-----------------------------------------------------------------------------
(* Properties                                                              *)

\* Two graphs differ only in links no stack accounts for.
Agree(S, T) == \A p \in Pairs \ spoilt : p \in S <=> p \in T

\* A command changes stacks only when it succeeded (stack.rs:33-65), which has to
\* keep a whole history true: between two operations the top of the undo stack
\* describes the graph that is left, the top of the redo stack the graph it was
\* undone to, and each entry follows on the one below.
StacksDescribeGraph ==
    job = NoJob =>
      /\ undo_stack # <<>> => Agree(Last(undo_stack).after, links)
      /\ redo_stack # <<>> => Agree(Last(redo_stack).before, links)
      /\ \A k \in 2..Len(undo_stack) : Agree(undo_stack[k-1].after, undo_stack[k].before)
      /\ \A k \in 2..Len(redo_stack) : Agree(redo_stack[k-1].before, redo_stack[k].after)

\* The next refresh never destroys a link our own calls made or left alone:
\* what is live and blocked was made by another client, or behind an error.
SweepSparesOurLinks == links \cap blocked \subseteq spoilt

\* What disconnect_keys (transaction.rs:43) and the activation (activation.rs:73)
\* promise, as the commands' own code can keep it: one that reports a plain
\* error left every link as it found it, except those another client changed and
\* those a failing driver call changed behind its error.
FailureLeavesNoTrace ==
    [][job # NoJob /\ job' = NoJob /\ Verdict(job) = "failed" => Changed(job) \subseteq spoilt]_vars

=============================================================================
