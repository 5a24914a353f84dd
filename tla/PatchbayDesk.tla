---------------------------- MODULE PatchbayDesk ----------------------------
(***************************************************************************)
(* The desktop's patchbay: saved rules, the handlers that edit the live    *)
(* graph, and the reconciler that keeps an activated patchbay in force.    *)
(*                                                                         *)
(* The interface thread runs everything.  A handler executes, undoes or    *)
(* redoes one command and then brings the rules in line with the graph;    *)
(* the pump refreshes a stale graph, which schedules a pass, and runs the  *)
(* pass once it is due.  Applications and the session manager change the   *)
(* graph in between.  A command is atomic here: LinkCommands shows what a  *)
(* failing one leaves.  Time is abstract: what waits for a moment is       *)
(* "later" until it is "due", in any order the delays may have.            *)
(***************************************************************************)
EXTENDS Integers, Sequences, FiniteSets, SequencesExt

CONSTANTS
    Pairs,       \* endpoint pairs <<output, input>>
    Patchbays,   \* the rule lists of the profiles on disk
    Pasts,       \* how a behaviour may begin: the saved rules, and what the user
                 \* has connected since
    MaxAttempts, \* attempts after which a rule has failed: 6 in the code
    MaxFaults,   \* bound on the driver calls that fail
    MaxEdits,    \* bound on the user's actions
    MaxOutside   \* bound on what applications and the session manager do

ASSUME DeskConstants ==
    /\ IsFiniteSet(Pairs) /\ \A p \in Pairs : p = <<p[1], p[2]>>
    /\ Patchbays \subseteq Seq(Pairs) /\ Pasts \subseteq [saved : Seq(Pairs), connected : SUBSET Pairs]
    /\ MaxAttempts \in Nat \ {0} /\ MaxFaults \in Nat /\ MaxEdits \in Nat /\ MaxOutside \in Nat

VARIABLES
    links,       \* the live links
    absent,      \* pairs with an endpoint that is gone or ambiguous
    rules,       \* Patchbay.connections
    suppressed,  \* manually_suppressed_patchbay
    settings,    \* patchbay_activated, patchbay_exclusive, patchbay_auto_disconnect
    run,         \* pending and next_run of the reconciler: "none", "later", "due"
    retry,       \* retry_state: the attempts by rule index; 0 is the pass itself
    waiting,     \* the indices whose next_retry is in the future
    undo_stack, redo_stack,
    deleted,     \* history: pairs the user removed and has not asked for since
    edits, outside, faults   \* history: how often, at most the bounds

graph == <<links, absent>>
reconciler == <<run, retry, waiting>>
stacks == <<undo_stack, redo_stack>>
counts == <<edits, outside, faults>>
deskVars == <<graph, rules, suppressed, settings, reconciler, stacks, deleted, counts>>

RetryKeys == 0..Cardinality(Pairs)
Feeds(S, p) == {q \in S : q[2] = p[2]}

-----------------------------------------------------------------------------
(* Rules                                                                   *)

\* sync_patchbay_connections: every live link becomes a rule, but those the
\* user removed by hand.
Synced(saved, live, kept) ==
    saved \o SetToSeq((live \ kept) \ Range(saved))

\* remove_patchbay_connections: the rules go, and the pairs are remembered.
Without_nothing(saved, pairs) == saved
Without(saved, pairs) ==
    LET kept[i \in 0..Len(saved)] ==
          IF i = 0 THEN <<>>
          ELSE IF saved[i] \in pairs THEN kept[i-1] ELSE Append(kept[i-1], saved[i])
    IN  kept[Len(saved)]

-----------------------------------------------------------------------------
(* The reconciler                                                          *)

MarkDirty == run' = "later" /\ retry' = [i \in RetryKeys |-> 0] /\ waiting' = {}
ScheduleNow == run' = "due" /\ retry' = [i \in RetryKeys |-> 0] /\ waiting' = {}
Deactivate == run' = "none" /\ retry' = [i \in RetryKeys |-> 0] /\ waiting' = {}

\* A pass carries the graph and the reconciler's state from rule to rule.
PassState == [links |-> links, run |-> "none", retry |-> retry, waiting |-> waiting]
FreshState == [PassState EXCEPT !.retry = [i \in RetryKeys |-> 0], !.waiting = {}]

RetryStatus(pass, i) ==
    LET attempts == IF pass.retry[i] < MaxAttempts THEN pass.retry[i] + 1 ELSE MaxAttempts
    IN  [pass EXCEPT !.retry[i] = attempts, !.waiting = @ \cup {i},
                     !.run = IF attempts < MaxAttempts THEN "later" ELSE @]

Satisfied(pass, i) == [pass EXCEPT !.retry[i] = 0, !.waiting = @ \ {i}]

\* resolve_rule finds both endpoints, and one of each.
Resolves(p) == p \notin absent

\* The exclusive clean-up, only when every rule found its endpoints.  A call
\* that fails ends it, with the links in cut already gone.
CleanUp(pass, saved, failing, cut) ==
    LET extra == links \ Range(saved)
    IN  IF ~settings.exclusive \/ (\E p \in Range(saved) : ~Resolves(p)) THEN pass
        ELSE IF extra \cap failing = {} THEN Satisfied([pass EXCEPT !.links = @ \ extra], 0)
        ELSE RetryStatus([pass EXCEPT !.links = @ \ (extra \cap cut)], 0)

\* One rule: skipped without its endpoints or before its next attempt.
ApplyRule(pass, saved, i, failing) ==
    LET p == saved[i]
        others == IF settings.auto THEN Feeds(pass.links, p) ELSE {}
        cleared == [pass EXCEPT !.links = @ \ (others \ failing)]
    IN  IF ~Resolves(p) \/ i \in pass.waiting THEN pass
        ELSE IF p \in pass.links THEN Satisfied(pass, i)
        ELSE IF (others \cup {p}) \cap failing = {}
             THEN Satisfied([cleared EXCEPT !.links = @ \cup {p}], i)
        ELSE RetryStatus(cleared, i)

Pass_stops(start, saved, failing, cut) ==
    LET pass[i \in 0..Len(saved)] ==
          IF i = 0 THEN CleanUp(start, saved, failing, cut) ELSE ApplyRule(pass[i-1], saved, i, failing)
    IN  IF Range(saved) \cap absent # {} THEN start ELSE pass[Len(saved)]

Pass(start, saved, failing, cut) ==
    LET pass[i \in 0..Len(saved)] ==
          IF i = 0 THEN CleanUp(start, saved, failing, cut) ELSE ApplyRule(pass[i-1], saved, i, failing)
    IN  pass[Len(saved)]

Due == settings.activated /\ run = "due"

\* reconcile_patchbay when a pass is due.
Reconcile ==
    /\ Due
    /\ \E failing \in IF faults < MaxFaults THEN SUBSET Pairs ELSE {{}} :
       \E cut \in IF failing # {} /\ settings.exclusive THEN SUBSET (Pairs \ failing) ELSE {{}} :
         LET pass == Pass(PassState, rules, failing, cut) IN
         /\ faults' = IF failing = {} THEN faults ELSE faults + 1
         /\ links' = pass.links /\ run' = pass.run
         /\ retry' = pass.retry /\ waiting' = pass.waiting
         /\ rules' = IF pass.links = links THEN rules ELSE Synced(rules, pass.links, suppressed)
    /\ UNCHANGED <<absent, suppressed, settings, stacks, deleted, edits, outside>>

\* The pass's own refresh fails: the pass as a whole is tried again.
ReconcileRefreshFails ==
    /\ Due /\ faults < MaxFaults /\ faults' = faults + 1
    /\ LET pass == RetryStatus(PassState, 0)
       IN  run' = pass.run /\ retry' = pass.retry /\ waiting' = pass.waiting
    /\ UNCHANGED <<graph, rules, suppressed, settings, stacks, deleted, edits, outside>>

\* The pump refreshes a graph that reported a change, or whose refresh interval
\* has elapsed, which may be at any time; it tries again when the refresh fails.
RefreshGraph ==
    /\ settings.activated /\ MarkDirty
    /\ UNCHANGED <<graph, rules, suppressed, settings, stacks, deleted, counts>>

\* Some delays end; the next run is never later than a retry it was set for.
Elapse ==
    /\ \E ended \in SUBSET waiting :
         /\ waiting' = waiting \ ended
         /\ run' \in IF run = "later" THEN {"later", "due"} ELSE {run}
    /\ <<run', waiting'>> # <<run, waiting>>
    /\ UNCHANGED <<graph, rules, suppressed, settings, retry, stacks, deleted, counts>>

-----------------------------------------------------------------------------
(* Handlers of the user's actions                                          *)

Edit == edits < MaxEdits /\ edits' = edits + 1 /\ UNCHANGED <<outside, faults>>
Record(cmd) == undo_stack' = Append(undo_stack, cmd) /\ redo_stack' = <<>>

\* After its command a handler refreshes the graph, and only then does it touch
\* the rules: a refresh that fails returns before.
ThenRefresh(settled, unsettled) == settled \/ unsettled

Connected(pairs) ==
    /\ Edit
    /\ links' = links \cup pairs
    /\ Record([kind |-> "connect", keys |-> pairs, made |-> pairs \ links, gone |-> {}])
    /\ deleted' = deleted \ pairs
    /\ ThenRefresh(/\ suppressed' = suppressed \ pairs
                   /\ rules' = Synced(rules, links', suppressed'),
                   UNCHANGED <<rules, suppressed>>)
    /\ UNCHANGED <<absent, settings, reconciler>>

ConnectPinPair == \E p \in Pairs \ absent : Connected({p})

\* The channel-wise connection of two nodes, or of a node and a pin.
EasyConnect == \E pairs \in SUBSET (Pairs \ absent) \ {{}} : Connected(pairs)

Disconnected(pairs, refreshes) ==
    /\ Edit /\ pairs # {}
    /\ links' = links \ pairs
    /\ Record([kind |-> "disconnect", keys |-> pairs, made |-> {}, gone |-> pairs])
    /\ ThenRefresh(/\ suppressed' = suppressed \cup pairs
                   /\ rules' = Synced(Without(rules, pairs), links', suppressed')
                   /\ deleted' = deleted \cup pairs,
                   refreshes /\ UNCHANGED <<rules, suppressed, deleted>>)
    /\ UNCHANGED <<absent, settings, reconciler>>

DeleteSelected == \E pairs \in SUBSET links : Disconnected(pairs, TRUE)

\* Every link of one node, which owns an output or an input here.
DisconnectNode ==
    \E p \in links, end \in {1, 2} : Disconnected({q \in links : q[end] = p[end]}, TRUE)

DisconnectAll == Disconnected(links, FALSE)

\* handle_link_rerouted: the rules are left as they are.
Reroute ==
    /\ Edit
    /\ \E p \in links, q \in Pairs \ absent :
         /\ p # q /\ (p[1] = q[1] \/ p[2] = q[2])
         /\ links' = (links \ {p}) \cup {q}
         /\ Record([kind |-> "reroute", keys |-> {q}, made |-> {q} \ links, gone |-> {p}])
         /\ deleted' = deleted \ {q}
    /\ UNCHANGED <<absent, rules, suppressed, settings, reconciler>>

\* The common end of the undo and redo handlers: what went is unsaved, the rest
\* synchronised, whether or not the command succeeded.
Settle ==
    LET gone == links \ links' IN
    /\ suppressed' = suppressed \cup gone
    /\ rules' = Synced(Without(rules, gone), links', suppressed')
    /\ deleted' = (deleted \cup gone) \ links'
    /\ UNCHANGED <<absent, settings, reconciler>>

\* A group disconnect restores what it can; the others undo wholly or not at all.
Undo ==
    /\ Edit /\ undo_stack # <<>>
    /\ LET cmd == Last(undo_stack)
           blocked == cmd.gone \cap absent # {}
       IN  /\ links' = CASE cmd.kind = "disconnect" -> links \cup (cmd.gone \ absent)
                          [] cmd.kind # "disconnect" /\ blocked -> links
                          [] OTHER -> (links \ cmd.made) \cup cmd.gone
           /\ IF blocked THEN UNCHANGED stacks
              ELSE undo_stack' = Front(undo_stack) /\ redo_stack' = Append(redo_stack, cmd)
    /\ Settle

\* Redo executes the command again on the pairs it was made for.
Redo ==
    /\ Edit /\ redo_stack # <<>>
    /\ LET cmd == Last(redo_stack)
           again == CASE cmd.kind = "connect" -> [cmd EXCEPT !.made = cmd.keys \ links]
                      [] cmd.kind = "disconnect" -> [cmd EXCEPT !.gone = cmd.keys \cap links]
                      [] cmd.kind = "reroute" -> [cmd EXCEPT !.made = cmd.keys \ links]
           fails == \/ cmd.kind # "disconnect" /\ cmd.keys \cap absent # {}
                    \/ cmd.kind = "reroute" /\ ~cmd.gone \subseteq links
       IN  IF fails THEN UNCHANGED <<links, stacks>>
           ELSE /\ links' = (links \ again.gone) \cup again.made
                /\ undo_stack' = Append(undo_stack, again) /\ redo_stack' = Front(redo_stack)
    /\ Settle

\* activate_patchbay: one activation at once, then a pass.  A failing one is
\* rolled back and leaves the patchbay activated with nothing scheduled.
Activation(saved) ==
    \/ /\ links' = Pass(FreshState, saved, {}, {}).links
       /\ rules' = Synced(saved, links', suppressed)
       /\ ScheduleNow /\ UNCHANGED faults
    \/ /\ faults < MaxFaults /\ faults' = faults + 1
       /\ rules' = saved /\ UNCHANGED <<links, reconciler>>

SwitchOn ==
    /\ ~settings.activated /\ settings' = [settings EXCEPT !.activated = TRUE]
    /\ edits < MaxEdits /\ edits' = edits + 1
    /\ Activation(rules)
    /\ UNCHANGED <<absent, suppressed, stacks, deleted, outside>>

SwitchOff ==
    /\ settings.activated /\ settings' = [settings EXCEPT !.activated = FALSE]
    /\ Edit /\ Deactivate
    /\ UNCHANGED <<graph, rules, suppressed, stacks, deleted>>

\* load_patchbay_path, by which profiles are selected as well.
Load ==
    /\ edits < MaxEdits /\ edits' = edits + 1
    /\ \E saved \in Patchbays :
         /\ deleted' = deleted \ Range(saved)
         /\ IF settings.activated
              THEN Activation(saved)
              ELSE rules' = saved /\ UNCHANGED <<links, reconciler, faults>>
    /\ UNCHANGED <<absent, suppressed, settings, stacks, outside>>

\* The rule editor: snapshot, rules from selected links, and remove.
EditRules ==
    /\ Edit
    /\ \/ rules' = SetToSeq(links) /\ deleted' = deleted \ links
       \/ \E chosen \in SUBSET links \ {{}} :
            rules' = Synced(rules, chosen, {}) /\ deleted' = deleted \ chosen
       \/ \E i \in DOMAIN rules : rules' = RemoveAt(rules, i) /\ UNCHANGED deleted
    /\ UNCHANGED <<graph, suppressed, settings, reconciler, stacks>>

\* save_rule, which needs both endpoints; bound: no rule is saved twice.
SaveRule ==
    /\ edits < MaxEdits /\ edits' = edits + 1
    /\ \E i \in 1..Len(rules) + 1, p \in Pairs \ (absent \cup Range(rules)) :
         LET saved == IF i \in DOMAIN rules THEN [rules EXCEPT ![i] = p] ELSE Append(rules, p) IN
         /\ deleted' = deleted \ {p}
         /\ IF settings.activated
              THEN Activation(saved)
              ELSE rules' = saved /\ UNCHANGED <<links, reconciler, faults>>
    /\ UNCHANGED <<absent, suppressed, settings, stacks, outside>>

-----------------------------------------------------------------------------
(* The rest of the system                                                  *)

Meddle == outside < MaxOutside /\ outside' = outside + 1 /\ UNCHANGED <<edits, faults>>

\* The session manager or another patchbay makes or destroys a link.
OtherClient ==
    /\ Meddle
    /\ \E p \in Pairs \ absent : links' = IF p \in links THEN links \ {p} ELSE links \cup {p}
    /\ UNCHANGED <<absent, rules, suppressed, settings, reconciler, stacks, deleted>>

\* An application stops, or becomes ambiguous, and starts again.
EndpointLeaves ==
    /\ Meddle
    /\ \E p \in Pairs \ absent : absent' = absent \cup {p} /\ links' = links \ {p}
    /\ UNCHANGED <<rules, suppressed, settings, reconciler, stacks, deleted>>

EndpointReturns ==
    /\ absent # {}
    /\ \E p \in absent : absent' = absent \ {p}
    /\ UNCHANGED <<links, rules, suppressed, settings, reconciler, stacks, deleted, counts>>

DeskInit ==
    /\ \E past \in Pasts : links = past.connected /\ rules = Synced(past.saved, links, {})
    /\ absent = {} /\ suppressed = {}
    /\ settings \in [activated : BOOLEAN, exclusive : BOOLEAN, auto : BOOLEAN]
    /\ run = IF settings.activated THEN "due" ELSE "none"
    /\ retry = [i \in RetryKeys |-> 0] /\ waiting = {}
    /\ undo_stack = IF links = {} THEN <<>>
                    ELSE <<[kind |-> "connect", keys |-> links, made |-> links, gone |-> {}]>>
    /\ redo_stack = <<>> /\ deleted = {}
    /\ edits = 0 /\ outside = 0 /\ faults = 0

User == ConnectPinPair \/ EasyConnect \/ DeleteSelected \/ DisconnectNode \/ DisconnectAll
        \/ Reroute \/ Undo \/ Redo
        \/ SwitchOn \/ SwitchOff \/ Load \/ EditRules \/ SaveRule
World == OtherClient \/ EndpointLeaves \/ EndpointReturns
Pump == RefreshGraph \/ Reconcile \/ ReconcileRefreshFails

DeskNext == User \/ World \/ Pump \/ Elapse

\* The pump runs every 50 ms, time passes, and the refresh interval is longer
\* than the debounce: between two intervals a pass that is due is run.
Fairness ==
    WF_deskVars(RefreshGraph) /\ WF_deskVars(Elapse) /\ SF_deskVars(Reconcile)

DeskSpec == DeskInit /\ [][DeskNext]_deskVars /\ Fairness

-----------------------------------------------------------------------------
(* Properties                                                              *)

\* "Manual disconnect has desired-state semantics" (docs/configuration.md:72):
\* a pass never makes a link the user removed, and whose removal the handler
\* saw through, before the user asks for it again.
DeletedStaysGone ==
    [][run = "due" /\ run' # "due" => (links' \ links) \cap deleted = {}]_deskVars

\* A rule that competes with another one for its input.
Contested(p) == settings.auto /\ \E q \in Range(rules) : q # p /\ q[2] = p[2]

\* "It continuously maintains saved routes" (docs/configuration.md:60): a saved
\* route that can be made is live at last, whatever failed, was skipped by the
\* pass that ran for another rule (reconciler.rs:197) or was lost with a
\* failing activation.  A route that shares its input under auto-disconnect is
\* excepted: its rules take the input from each other in every pass.
RulesConverge ==
    \A p \in Pairs :
        (settings.activated /\ p \in Range(rules) /\ p \notin absent)
          ~> (p \in links \/ p \notin Range(rules) \/ ~settings.activated
              \/ p \in absent \/ Contested(p))

=============================================================================
