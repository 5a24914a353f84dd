--------------------------- MODULE EffectInsertion ---------------------------
(***************************************************************************)
(* Effects: the loader pool that prepares a processor away from the        *)
(* interface thread, the manager that cancels and answers tickets, and the *)
(* driver that puts a prepared effect into a link, takes it out again, and *)
(* rolls back an insertion that fails half-way.                            *)
(*                                                                         *)
(* An effect has one ticket at a time, so it stands for it too.  A link is  *)
(* a pair of nodes; effects may be inserted into the links of other        *)
(* effects.  Handlers run on the interface thread, one at a time; between  *)
(* two driver calls of one handler the loader threads go on and another    *)
(* client (a session manager, say) may make or remove a link.              *)
(***************************************************************************)
EXTENDS Integers, Sequences, FiniteSets

CONSTANTS
    Effects,        \* effects, and their tickets
    Workers,        \* threads of the loader pool
    Src, Dst,       \* the two nodes that are linked at the beginning
    QueueCapacity,  \* jobs the loader's queue holds
    MaxFaults,      \* bound on the driver calls that fail
    MaxOutside      \* bound on the link changes of other clients

ASSUME EffectConstants ==
    /\ Src # Dst /\ Src \notin Effects /\ Dst \notin Effects /\ IsFiniteSet(Effects)
    /\ QueueCapacity \in Nat \ {0} /\ MaxFaults \in Nat /\ MaxOutside \in Nat

VARIABLES
    queue,      \* jobs waiting for a loader thread
    job,        \* what each loader thread works on
    events,     \* the preparation events nobody has polled
    tokens,     \* tickets the manager can cancel
    cancelled,  \* tickets whose cancellation was accepted
    pending,    \* pending_effects: the target of each ticket, in the driver
    waiting,    \* pending_effect_tickets, in the desktop
    place,      \* where an effect is: Absent, Standalone, or the link it replaced
    links,      \* the daemon's links
    view,       \* the links of the driver's graph
    blocked,    \* blocked_connections
    inbox,      \* polled events the current poll has still to handle
    task,       \* the insertion or removal in progress
    told,       \* history: another client cut the route, or an error reported a roll-back
                \* or a removal that failed
    faults, outside     \* history: how many, at most the bounds

loader == <<queue, job, events>>
tickets == <<tokens, cancelled, pending, waiting>>
graph == <<place, links, view, blocked>>
counts == <<faults, outside>>
vars == <<loader, tickets, graph, inbox, task, told, counts>>

Absent == <<"absent">>
Standalone == <<>>
NoJob == [stage |-> "none"]
NoTask == [kind |-> "none"]
Handler == task = NoTask /\ inbox = <<>>

Fault == faults < MaxFaults /\ faults' = faults + 1 /\ UNCHANGED outside
NoFault == UNCHANGED counts

-----------------------------------------------------------------------------
(* The loader pool                                                         *)

Take(w) ==
    /\ job[w] = NoJob /\ queue # <<>>
    /\ job' = [job EXCEPT ![w] = [effect |-> Head(queue), stage |-> "check"]]
    /\ queue' = Tail(queue)
    /\ UNCHANGED <<events, tickets, graph, inbox, task, told, counts>>

Working(w, stage) == job[w] # NoJob /\ job[w].stage = stage
Sends(w, kind) ==
    /\ job' = [job EXCEPT ![w] = NoJob]
    /\ events' = Append(events, [effect |-> job[w].effect, kind |-> kind])

\* Slip: a job that was cancelled in the queue is dropped without an event.
WorkerChecks_drops(w) ==
    /\ Working(w, "check")
    /\ IF job[w].effect \in cancelled
         THEN job' = [job EXCEPT ![w] = NoJob] /\ UNCHANGED events
         ELSE job' = [job EXCEPT ![w].stage = "prepare"] /\ UNCHANGED events
    /\ UNCHANGED <<queue, tickets, graph, inbox, task, told, counts>>

\* The tests before the preparation.
WorkerChecks(w) ==
    /\ Working(w, "check")
    /\ IF job[w].effect \in cancelled THEN Sends(w, "cancelled")
       ELSE job' = [job EXCEPT ![w].stage = "prepare"] /\ UNCHANGED events
    /\ UNCHANGED <<queue, tickets, graph, inbox, task, told, counts>>

\* prepare_instance succeeds, fails or panics...
Prepares(w) ==
    /\ Working(w, "prepare")
    /\ \E outcome \in {"ready", "failed"} : job' = [job EXCEPT ![w].stage = outcome]
    /\ UNCHANGED <<queue, events, tickets, graph, inbox, task, told, counts>>

\* ...and the ticket is tested once more before the event is chosen...
Decides(w) ==
    /\ \E outcome \in {"ready", "failed"} :
         /\ Working(w, outcome)
         /\ job' = [job EXCEPT ![w] = [effect |-> @.effect, stage |-> "send",
                       kind |-> IF @.effect \in cancelled THEN "cancelled" ELSE outcome]]
    /\ UNCHANGED <<queue, events, tickets, graph, inbox, task, told, counts>>

\* ...which a cancellation may still overtake.
Publishes(w) ==
    /\ Working(w, "send") /\ Sends(w, job[w].kind)
    /\ UNCHANGED <<queue, tickets, graph, inbox, task, told, counts>>

-----------------------------------------------------------------------------
(* Driver calls.  A rebuild of the graph destroys the blocked links it meets *)

Rebuilt(ls) == links' = ls \ blocked' /\ view' = links'
Go(step) == task' = [task EXCEPT !.step = step]

\* A call that fails may fail before or after the daemon acted on it.
Disconnect(l, ok, failed) ==
    /\ blocked' = blocked \cup {l}
    /\ \/ Rebuilt(links \ {l}) /\ Go(ok) /\ NoFault
       \/ links' \in {links, links \ {l}} /\ UNCHANGED view /\ Go(failed) /\ Fault

\* Slip: the pair stays blocked.
Connect_stays_blocked(l, ok, failed) ==
    /\ UNCHANGED blocked
    /\ \/ l \notin view /\ Rebuilt(links \cup {l}) /\ Go(ok) /\ NoFault
       \/ l \in view /\ UNCHANGED <<links, view>> /\ Go(failed) /\ NoFault
       \/ links' \in {links, links \cup {l}} /\ UNCHANGED view /\ Go(failed) /\ Fault

Connect(l, ok, failed) ==
    /\ blocked' = blocked \ {l}
    /\ \/ l \notin view /\ Rebuilt(links \cup {l}) /\ Go(ok) /\ NoFault
       \/ l \in view /\ UNCHANGED <<links, view>> /\ Go(failed) /\ NoFault
       \/ links' \in {links, links \cup {l}} /\ UNCHANGED view /\ Go(failed) /\ Fault

Present(n) == IF n \in Effects THEN place[n] # Absent ELSE TRUE
Touching(e) == {l \in links : e \in {l[1], l[2]}}

-----------------------------------------------------------------------------
(* Tickets                                                                 *)

\* create_effect: into the selected link, or standing alone.  A full queue
\* refuses the request.
BeginCreate(e) ==
    /\ Handler /\ place[e] = Absent /\ e \notin DOMAIN pending \cup cancelled
    /\ Len(queue) < QueueCapacity
    /\ \E target \in {Standalone} \cup view :
         /\ \/ target = Standalone /\ UNCHANGED <<links, view, blocked>>
            \/ UNCHANGED blocked /\ Rebuilt(links) /\ target \in view'
         /\ pending' = [x \in DOMAIN pending \cup {e} |-> IF x = e THEN target ELSE pending[x]]
    /\ queue' = Append(queue, e) /\ tokens' = tokens \cup {e} /\ waiting' = waiting \cup {e}
    /\ UNCHANGED <<job, events, cancelled, place, inbox, task, told, counts>>

\* cancel_effect_ticket, and cancel_pending_effects at the exit.
Cancel(e) ==
    /\ Handler /\ e \in waiting \cap tokens /\ e \notin cancelled
    /\ cancelled' = cancelled \cup {e}
    /\ UNCHANGED <<loader, tokens, pending, waiting, graph, inbox, task, told, counts>>

\* Slip: the event is passed on as the worker sent it.
Answer_as_sent(event) == event.kind

\* A cancellation that came after the worker's last test wins all the same.
Answer(event) == IF event.effect \in cancelled THEN "cancelled" ELSE event.kind

Poll ==
    /\ Handler /\ events # <<>>
    /\ inbox' = [k \in 1..Len(events) |-> [effect |-> events[k].effect, kind |-> Answer(events[k])]]
    /\ tokens' = tokens \ {events[k].effect : k \in 1..Len(events)}
    /\ events' = <<>>
    /\ UNCHANGED <<queue, job, cancelled, pending, waiting, graph, task, told, counts>>

\* One polled event: a failure or cancellation is passed on, and a prepared
\* effect activated.
HandleEvent ==
    /\ task = NoTask /\ inbox # <<>>
    /\ LET e == Head(inbox).effect IN
         /\ pending' = [x \in DOMAIN pending \ {e} |-> pending[x]]
         /\ IF Head(inbox).kind = "ready"
              THEN /\ task' = [kind |-> "insert", effect |-> e, target |-> pending[e],
                               step |-> "activate"]
                   /\ UNCHANGED <<inbox, waiting>>
              ELSE waiting' = waiting \ {e} /\ inbox' = Tail(inbox) /\ UNCHANGED task
    /\ UNCHANGED <<loader, tokens, cancelled, graph, told, counts>>

-----------------------------------------------------------------------------
(* Insertion and removal                                                   *)

At(step) == task # NoTask /\ task.step = step
Rest == <<loader, tokens, cancelled, pending>>

\* The ticket is answered, or the removal returns.
Finish ==
    /\ task' = NoTask
    /\ IF task.kind = "insert" THEN inbox' = Tail(inbox) /\ waiting' = waiting \ {task.effect}
       ELSE UNCHANGED <<inbox, waiting>>

\* A link that has vanished since the request fails the ticket.
Activate ==
    /\ At("activate") /\ UNCHANGED blocked
    /\ \/ /\ Rebuilt(links) /\ NoFault
          /\ IF task.target \in {Standalone} \cup view'
               THEN Go("publish") /\ UNCHANGED <<inbox, waiting>>
             ELSE Finish
       \/ UNCHANGED <<links, view>> /\ Finish /\ Fault
    /\ UNCHANGED <<Rest, place, told>>

\* The filter is published and the link looked up again: one that vanished
\* during the publication is rolled back to, not given up.
CreateNode ==
    /\ At("publish") /\ UNCHANGED blocked
    /\ \/ /\ Rebuilt(links) /\ NoFault
          /\ place' = [place EXCEPT ![task.effect] = Standalone]
          /\ IF task.target = Standalone THEN Finish
             ELSE /\ Go(IF task.target \in view' THEN "cut" ELSE "destroy")
                  /\ UNCHANGED <<inbox, waiting>>
       \/ UNCHANGED <<place, links, view>> /\ Finish /\ Fault
    /\ UNCHANGED <<Rest, told>>

Rewire ==
    /\ \/ At("cut") /\ Disconnect(task.target, "first", "destroy")
       \/ At("first") /\ Connect(<<task.target[1], task.effect>>, "second", "destroy")
       \/ At("second") /\ Connect(<<task.effect, task.target[2]>>, "commit", "destroy")
    /\ UNCHANGED <<Rest, place, inbox, waiting, told>>

Commit ==
    /\ At("commit") /\ Finish
    /\ place' = [place EXCEPT ![task.effect] = task.target]
    /\ UNCHANGED <<Rest, links, view, blocked, told, counts>>

\* remove_effect refuses an effect whose saved endpoints are gone.
Remove(e) ==
    /\ Handler /\ place[e] # Absent
    /\ \A k \in DOMAIN place[e] : Present(place[e][k])
    /\ UNCHANGED blocked /\ Rebuilt(links)
    /\ task' = [kind |-> "remove", effect |-> e, target |-> place[e], step |-> "destroy"]
    /\ UNCHANGED <<loader, tickets, place, inbox, told, counts>>

\* The filter goes with its links.  A removal that cannot see this ends there.
DestroyNode ==
    /\ At("destroy") /\ UNCHANGED blocked
    /\ place' = [place EXCEPT ![task.effect] = Absent]
    /\ LET left == links \ Touching(task.effect) IN
       \/ /\ Rebuilt(left) /\ NoFault /\ UNCHANGED told
          /\ IF task.target = Standalone THEN Finish
             ELSE Go("restore") /\ UNCHANGED <<inbox, waiting>>
       \/ /\ links' = left /\ UNCHANGED view /\ Fault
          /\ told' = TRUE
          /\ IF task.kind = "remove" THEN Finish
             ELSE Go("restore") /\ UNCHANGED <<inbox, waiting>>
    /\ UNCHANGED Rest

\* restore_direct_connection: a link that is already there will do.  No node
\* can go while the handler runs, so the endpoints are found.
Restore ==
    /\ At("restore") /\ Finish
    /\ LET l == task.target IN
       /\ blocked' = blocked \ {l}
       /\ \/ l \in view /\ UNCHANGED <<links, view, told, counts>>
          \/ l \notin view /\ Rebuilt(links \cup {l}) /\ NoFault /\ UNCHANGED told
          \/ /\ l \notin view /\ links' \in {links, links \cup {l}}
             /\ UNCHANGED view /\ Fault /\ told' = TRUE
    /\ UNCHANGED <<Rest, place>>

-----------------------------------------------------------------------------
(* Other clients, and the periodic refresh that notices them               *)

Outside == outside < MaxOutside /\ outside' = outside + 1 /\ UNCHANGED faults

\* A session manager links a stream on its own.
OutsideLinks ==
    /\ \E from \in {Src} \cup Effects, to \in {Dst} \cup Effects :
         /\ from # to /\ Present(from) /\ Present(to) /\ <<from, to>> \notin links
         /\ links' = links \cup {<<from, to>>}
    /\ Outside
    /\ UNCHANGED <<loader, tickets, place, view, blocked, inbox, task, told>>

OutsideUnlinks ==
    /\ \E l \in links : links' = links \ {l}
    /\ told' = TRUE /\ Outside
    /\ UNCHANGED <<loader, tickets, place, view, blocked, inbox, task>>

Refresh ==
    /\ Handler /\ view # links /\ UNCHANGED blocked /\ Rebuilt(links)
    /\ UNCHANGED <<loader, tickets, place, inbox, task, told, counts>>

-----------------------------------------------------------------------------
Init ==
    /\ queue = <<>> /\ job = [w \in Workers |-> NoJob] /\ events = <<>>
    /\ tokens = {} /\ cancelled = {} /\ pending = <<>> /\ waiting = {}
    /\ place = [e \in Effects |-> Absent]
    /\ links = {<<Src, Dst>>} /\ view = links /\ blocked = {}
    /\ inbox = <<>> /\ task = NoTask /\ told = FALSE /\ faults = 0 /\ outside = 0

Work(w) == Take(w) \/ WorkerChecks(w) \/ Prepares(w) \/ Decides(w) \/ Publishes(w)
Steps == HandleEvent \/ Activate \/ CreateNode \/ Rewire \/ Commit \/ DestroyNode \/ Restore

Next ==
    \/ \E w \in Workers : Work(w)
    \/ \E e \in Effects : BeginCreate(e) \/ Cancel(e) \/ Remove(e)
    \/ Poll \/ Steps \/ Refresh \/ OutsideLinks \/ OutsideUnlinks

\* The pool's threads run, the pump polls every 50 ms, and handlers go on.
Fairness ==
    /\ \A w \in Workers : WF_vars(Work(w))
    /\ WF_vars(Poll) /\ WF_vars(Steps)

Spec == Init /\ [][Next]_vars /\ Fairness

-----------------------------------------------------------------------------
(* Properties                                                              *)

\* "A worker can publish Ready just before the control thread receives a
\* cancellation request.  Do not let that race activate a graph node"
\* (lifecycle.rs:273): once cancel has accepted a ticket, its effect never
\* appears in the graph.
CancelledNeverActive == \A e \in cancelled : place[e] = Absent

\* Every ticket is answered, whichever thread prepares it, however often it is
\* cancelled and whatever fails.
TicketsAnswered == \A e \in Effects : e \in waiting ~> e \notin waiting

\* A set of nodes that audio from Src does not leave.
Holds(S) == Src \in S /\ \A l \in links : l[1] \in S => l[2] \in S

\* Inserting, failing to insert and removing effects, also into each other's
\* links, never cuts the route from the source to the destination: between two
\* handlers audio gets through, unless another client cut it or an error told
\* the user that a roll-back or a removal failed.
RouteKept ==
    Handler /\ ~told => \A S \in SUBSET ({Src, Dst} \cup Effects) : Holds(S) => Dst \in S

=============================================================================
