-------------------------- MODULE EffectProofs --------------------------
(***************************************************************************)
(* Proofs about the effect chain (EffectInsertion) and the runtime of Hush *)
(* noise suppression (HushRuntime).                                        *)
(*                                                                         *)
(* Of effects: tickets and cancellation, for any number of effects, loader *)
(* threads and failures, whatever other clients do to the graph, and with  *)
(* a queue of any capacity; then the route from the source to the          *)
(* destination, which insertions and removals keep whole.                  *)
(***************************************************************************)
EXTENDS EffectInsertion, HushRuntime, SequenceTheorems, WellFoundedInduction, TLAPS

Node    == {Src, Dst} \cup Effects
Link    == Node \X Node
Target  == {Standalone} \cup Link
Outcome == {"ready", "failed"}
Kind    == Outcome \cup {"cancelled"}
Event   == [effect : Effects, kind : Kind]
Job     == [effect : Effects, stage : {"check", "prepare"} \cup Outcome]
               \cup [effect : Effects, stage : {"send"}, kind : Kind]
Cutting == {"cut", "first", "second", "commit", "restore"}
Task    == [kind : {"insert", "remove"}, effect : Effects, target : Target,
            step : {"activate", "publish", "destroy"} \cup Cutting]

LoaderTyped ==
    /\ queue \in Seq(Effects) /\ events \in Seq(Event) /\ inbox \in Seq(Event)
    /\ job \in [Workers -> {NoJob} \cup Job]

TicketsTyped ==
    /\ tokens \subseteq Effects /\ cancelled \subseteq Effects /\ waiting \subseteq Effects
    /\ DOMAIN pending \subseteq Effects /\ \A e \in DOMAIN pending : pending[e] \in Target

GraphTyped ==
    /\ place \in [Effects -> {Absent} \cup Target]
    /\ links \subseteq Link /\ view \subseteq Link /\ blocked \subseteq Link

\* An insertion works on the event at the head of the inbox; only a direct link
\* is cut, and one is restored whatever stage of its replacement failed.
TaskTyped ==
    /\ task \in {NoTask} \cup Task
    /\ task # NoTask /\ task.kind = "insert" =>
         inbox # <<>> /\ inbox[1] = [effect |-> task.effect, kind |-> "ready"]
    /\ task # NoTask /\ task.kind = "remove" =>
         inbox = <<>> /\ task.step \in {"destroy", "restore"}
    /\ task # NoTask /\ task.step \in Cutting => task.target \in Link
    /\ task # NoTask /\ task.step = "destroy" /\ task.kind = "insert" => task.target \in Link
    /\ told \in BOOLEAN

TypeInv == LoaderTyped /\ TicketsTyped /\ GraphTyped /\ TaskTyped

\* Where the ticket of an effect is.
Queued(e, k) == k \in 1..Len(queue) /\ queue[k] = e
Held(e, w)   == w \in Workers /\ job[w] # NoJob /\ job[w].effect = e
Sent(e, k)   == k \in 1..Len(events) /\ events[k].effect = e
Polled(e, k) == k \in 1..Len(inbox) /\ inbox[k].effect = e

InQueue(e)  == \E k \in Nat : Queued(e, k)
InJob(e)    == \E w \in Workers : Held(e, w)
InEvents(e) == \E k \in Nat : Sent(e, k)
InInbox(e)  == \E k \in Nat : Polled(e, k)

Handled(e) == task # NoTask /\ task.kind = "insert" /\ task.effect = e

\* A ticket is in one place, once.
Once(e) ==
    /\ \A k, l \in Nat : Queued(e, k) /\ Queued(e, l) => k = l
    /\ \A v, w \in Workers : Held(e, v) /\ Held(e, w) => v = w
    /\ \A k, l \in Nat : Sent(e, k) /\ Sent(e, l) => k = l
    /\ \A k, l \in Nat : Polled(e, k) /\ Polled(e, l) => k = l
    /\ InQueue(e) => ~InJob(e) /\ ~InEvents(e) /\ ~InInbox(e)
    /\ InJob(e) => ~InEvents(e) /\ ~InInbox(e)
    /\ InEvents(e) => ~InInbox(e)

\* It can be cancelled until it is polled, its target is known until it is
\* handled, and whoever waits for it waits for a ticket that is there.
Tracked(e) ==
    /\ e \in tokens <=> InQueue(e) \/ InJob(e) \/ InEvents(e)
    /\ e \in DOMAIN pending <=> e \in tokens \/ (InInbox(e) /\ ~Handled(e))
    /\ e \in waiting <=> e \in tokens \/ InInbox(e)

\* Nothing of a ticket that may still be cancelled, or has been, is in the
\* graph, nor on its way there once the cancellation can no longer be heard.
Admitted(e) == e \in tokens \cup cancelled =>
    /\ place[e] = Absent
    /\ \A k \in Nat : Polled(e, k) => inbox[k].kind # "ready"

TicketInv == \A e \in Effects : Once(e) /\ Tracked(e) /\ Admitted(e)

IInv == TypeInv /\ TicketInv

--------------------------------------------------------------------------------
(* Sequences.                                                              *)

LEMMA Appended ==
  ASSUME NEW S, NEW s \in Seq(S), NEW x \in S
  PROVE  /\ Append(s, x) \in Seq(S) /\ Len(s) \in Nat /\ Len(Append(s, x)) = Len(s) + 1
         /\ \A k \in 1..Len(s) : Append(s, x)[k] = s[k]
         /\ Append(s, x)[Len(s) + 1] = x
  OBVIOUS

LEMMA Shortened ==
  ASSUME NEW S, NEW s \in Seq(S), s # <<>>
  PROVE  /\ Tail(s) \in Seq(S) /\ Len(s) \in Nat /\ Len(s) >= 1 /\ Len(Tail(s)) = Len(s) - 1
         /\ \A k \in 1..Len(Tail(s)) : Tail(s)[k] = s[k + 1]
         /\ Head(s) = s[1] /\ s[1] \in S
  OBVIOUS

LEMMA Emptied ==
  ASSUME NEW S, NEW s \in Seq(S)
  PROVE  s = <<>> <=> Len(s) = 0
  OBVIOUS

--------------------------------------------------------------------------------
(* Types.                                                                  *)

LEMMA JobFields ==
  ASSUME LoaderTyped, NEW w \in Workers, job[w] # NoJob
  PROVE  /\ job[w] \in Job /\ job[w].effect \in Effects
         /\ job[w].stage = "send" => job[w].kind \in Kind
  BY DEF LoaderTyped, Job, Outcome

LEMMA JobIsSome == ASSUME NEW j \in Job PROVE j # NoJob
<1>1. j.stage # "none"
  BY DEF Job, Outcome
<1> QED  BY <1>1 DEF NoJob

LEMMA TaskIsSome == ASSUME NEW t \in Task PROVE t # NoTask
<1>1. t.kind # "none"
  BY DEF Task
<1> QED  BY <1>1 DEF NoTask

LEMMA InitTypes == ASSUME Init PROVE TypeInv
<1>1. LoaderTyped
  BY DEF Init, LoaderTyped
<1>2. TicketsTyped
  BY DEF Init, TicketsTyped
<1>3. GraphTyped
  BY DEF Init, GraphTyped, Link, Node
<1>4. TaskTyped
  BY DEF Init, TaskTyped
<1> QED  BY <1>1, <1>2, <1>3, <1>4 DEF TypeInv

\* What a loader thread does stays with the loader.
LEMMA WorkTypes ==
  ASSUME TypeInv, NEW w \in Workers, Work(w)
  PROVE  TypeInv' /\ UNCHANGED <<tickets, graph, inbox, task, told, counts>>
<1>1. UNCHANGED <<tickets, graph, inbox, task, told, counts>>
  BY DEF Work, Take, WorkerChecks, Prepares, Decides, Publishes
<1>2. LoaderTyped'
  <2> USE DEF TypeInv, LoaderTyped
  <2>1. CASE Take(w)
    <3>1. queue # <<>> /\ queue' = Tail(queue)
          /\ job' = [job EXCEPT ![w] = [effect |-> Head(queue), stage |-> "check"]]
          /\ UNCHANGED <<events, inbox>>
      BY <2>1 DEF Take
    <3>2. Head(queue) \in Effects /\ queue' \in Seq(Effects)
      BY <3>1, Shortened
    <3>3. [effect |-> Head(queue), stage |-> "check"] \in Job
      BY <3>2 DEF Job
    <3> QED  BY <3>1, <3>2, <3>3
  <2>2. ASSUME NEW kind \in Kind, Sends(w, kind), job[w] # NoJob
        PROVE  job' \in [Workers -> {NoJob} \cup Job] /\ events' \in Seq(Event)
    <3>1. [effect |-> job[w].effect, kind |-> kind] \in Event
      BY <2>2, JobFields DEF Event
    <3> QED  BY <2>2, <3>1, Appended DEF Sends
  <2>3. ASSUME NEW stage \in {"prepare"} \cup Outcome, job' = [job EXCEPT ![w].stage = stage],
               job[w] # NoJob, job[w].stage # "send"
        PROVE  job' \in [Workers -> {NoJob} \cup Job]
    <3>1. [job[w] EXCEPT !.stage = stage] \in Job
      BY <2>3, JobFields DEF Job
    <3> QED  BY <2>3, <3>1
  <2>4. CASE WorkerChecks(w)
    BY <1>1, <2>2, <2>3, <2>4 DEF WorkerChecks, Working, Kind
  <2>5. CASE Prepares(w)
    BY <1>1, <2>3, <2>5 DEF Prepares, Working, Outcome
  <2>6. CASE Decides(w)
    <3>1. PICK outcome \in Outcome :
            /\ job[w] # NoJob
            /\ job' = [job EXCEPT ![w] = [effect |-> @.effect, stage |-> "send",
                          kind |-> IF @.effect \in cancelled THEN "cancelled" ELSE outcome]]
      BY <2>6 DEF Decides, Working, Outcome
    <3>2. [effect |-> job[w].effect, stage |-> "send",
           kind |-> IF job[w].effect \in cancelled THEN "cancelled" ELSE outcome] \in Job
      BY <3>1, JobFields DEF Job, Kind
    <3> QED  BY <1>1, <2>6, <3>1, <3>2 DEF Decides
  <2>7. CASE Publishes(w)
    <3>1. job[w].kind \in Kind /\ job[w] # NoJob /\ Sends(w, job[w].kind)
      BY <2>7, JobFields DEF Publishes, Working
    <3> QED  BY <1>1, <2>2, <2>7, <3>1 DEF Publishes
  <2> QED  BY <2>1, <2>4, <2>5, <2>6, <2>7 DEF Work
<1>3. TicketsTyped' /\ GraphTyped' /\ TaskTyped'
  BY <1>1 DEF TypeInv, TicketsTyped, GraphTyped, TaskTyped, tickets, graph
<1> QED  BY <1>1, <1>2, <1>3 DEF TypeInv

\* The driver's calls keep to links between nodes.
LEMMA RebuiltTypes ==
  ASSUME NEW ls \in SUBSET Link, Rebuilt(ls)
  PROVE  links' \subseteq Link /\ view' \subseteq Link
  BY DEF Rebuilt

LEMMA ConnectTypes ==
  ASSUME GraphTyped, NEW l \in Link, NEW ok, NEW fault,
         Connect(l, ok, fault) \/ Disconnect(l, ok, fault)
  PROVE  /\ links' \subseteq Link /\ view' \subseteq Link /\ blocked' \subseteq Link
         /\ Go(ok) \/ Go(fault)
<1>1. links \cup {l} \in SUBSET Link /\ links \ {l} \in SUBSET Link
  BY DEF GraphTyped
<1>2. CASE Connect(l, ok, fault)
  <2>1. blocked' \subseteq Link
    BY <1>2 DEF Connect, GraphTyped
  <2>2. CASE Rebuilt(links \cup {l})
    BY <1>1, <1>2, <2>1, <2>2, RebuiltTypes DEF Connect
  <2>3. CASE links' \in {links, links \cup {l}} /\ UNCHANGED view
    BY <1>1, <1>2, <2>1, <2>3 DEF Connect, GraphTyped
  <2> QED  BY <1>2, <2>2, <2>3 DEF Connect
<1>3. CASE Disconnect(l, ok, fault)
  <2>1. blocked' \subseteq Link
    BY <1>3 DEF Disconnect, GraphTyped
  <2>2. CASE Rebuilt(links \ {l})
    BY <1>1, <1>3, <2>1, <2>2, RebuiltTypes DEF Disconnect
  <2>3. CASE links' \in {links, links \ {l}} /\ UNCHANGED view
    BY <1>1, <1>3, <2>1, <2>3 DEF Disconnect, GraphTyped
  <2> QED  BY <1>3, <2>2, <2>3 DEF Disconnect
<1> QED  BY <1>2, <1>3

\* A handler ends, or goes on to its next step.
Ends == task # NoTask /\ Finish /\ told' \in BOOLEAN

GoesOn(step) ==
    /\ task # NoTask /\ Go(step) /\ UNCHANGED <<inbox, waiting>> /\ told' \in BOOLEAN
    /\ step \in IF task.kind = "insert" THEN {"publish", "destroy"} \cup Cutting
                ELSE {"destroy", "restore"}
    /\ step \in Cutting => task.target \in Link
    /\ step = "destroy" /\ task.kind = "insert" => task.target \in Link

LEMMA EndTypes ==
  ASSUME TypeInv, Ends, UNCHANGED Rest
  PROVE  /\ LoaderTyped' /\ TicketsTyped' /\ TaskTyped' /\ task' = NoTask
         /\ IF task.kind = "insert" THEN inbox # <<>> /\ inbox' = Tail(inbox) /\ inbox[1] \in Event
            ELSE inbox' = <<>>
<1> USE DEF TypeInv, LoaderTyped, TicketsTyped, TaskTyped, Ends, Finish, Rest, loader
<1>1. /\ task' = NoTask
      /\ UNCHANGED <<queue, job, events, tokens, cancelled, pending>>
  OBVIOUS
<1>2. CASE task.kind = "insert"
  <2>1. /\ inbox # <<>> /\ inbox' = Tail(inbox) /\ waiting' = waiting \ {task.effect}
    BY <1>2
  <2>2. inbox' \in Seq(Event) /\ inbox[1] \in Event
    BY <2>1, Shortened
  <2> QED  BY <1>1, <1>2, <2>1, <2>2
<1>3. CASE task.kind = "remove"
  <2>1. UNCHANGED <<inbox, waiting>> /\ inbox = <<>>
    BY <1>3
  <2> QED  BY <1>1, <1>3, <2>1
<1>4. task.kind \in {"insert", "remove"}
  BY DEF Task
<1> QED  BY <1>2, <1>3, <1>4

LEMMA GoTypes ==
  ASSUME TypeInv, NEW step, GoesOn(step), UNCHANGED Rest
  PROVE  /\ LoaderTyped' /\ TicketsTyped' /\ TaskTyped' /\ task' \in Task
         /\ task'.kind = task.kind /\ task'.effect = task.effect /\ UNCHANGED inbox
<1> USE DEF GoesOn
<1>1. task \in Task /\ task' = [task EXCEPT !.step = step]
  BY DEF TypeInv, TaskTyped, Go
<1>2. task' \in Task
  BY <1>1 DEF Task, Cutting
<1>3. task'.kind = task.kind /\ task'.effect = task.effect /\ task'.target = task.target
      /\ task'.step = step
  BY <1>1 DEF Task
<1>4. TaskTyped'
  BY <1>1, <1>2, <1>3 DEF TypeInv, TaskTyped, Task
<1>5. LoaderTyped' /\ TicketsTyped'
  BY DEF TypeInv, LoaderTyped, TicketsTyped, Rest, loader
<1> QED  BY <1>2, <1>3, <1>4, <1>5

\* An insertion or removal step: which of the two it is, and the effect whose
\* place it changes.
Step ==
    /\ task # NoTask /\ UNCHANGED Rest
    /\ Ends \/ \E step \in {"publish", "destroy"} \cup Cutting : GoesOn(step)
    /\ \A e \in Effects : e # task.effect => place'[e] = place[e]
    /\ task.kind = "remove" => \A e \in Effects : place'[e] \in {Absent, place[e]}

LEMMA InsertionSteps ==
  ASSUME TypeInv, Activate \/ CreateNode \/ Rewire \/ Commit
  PROVE  Step /\ GraphTyped'
<1> USE DEF TypeInv, GraphTyped
<1>1. task \in Task /\ task # NoTask /\ told \in BOOLEAN
  BY DEF TaskTyped, Activate, CreateNode, Rewire, Commit, At
<1>2. task.kind = "insert" /\ task.effect \in Effects /\ task.target \in Target
  BY <1>1 DEF TaskTyped, Activate, CreateNode, Rewire, Commit, At, Task
<1>3. links \in SUBSET Link
  OBVIOUS
<1>4. CASE Activate
  <2>1. /\ UNCHANGED <<Rest, place, told, blocked>>
        /\ Finish \/ (Go("publish") /\ UNCHANGED <<inbox, waiting>>)
        /\ Rebuilt(links) \/ UNCHANGED <<links, view>>
    BY <1>4 DEF Activate
  <2>2. Ends \/ GoesOn("publish")
    BY <1>1, <1>2, <2>1 DEF Ends, GoesOn, Cutting
  <2>3. links' \subseteq Link /\ view' \subseteq Link
    BY <1>3, <2>1, RebuiltTypes
  <2> QED  BY <1>1, <2>1, <2>2, <2>3 DEF Step
<1>5. CASE CreateNode
  <2>1. /\ UNCHANGED <<Rest, told, blocked>>
        /\ place' = [place EXCEPT ![task.effect] = Standalone] \/ place' = place
        /\ \/ Finish
           \/ /\ task.target # Standalone /\ UNCHANGED <<inbox, waiting>>
              /\ Go("cut") \/ Go("destroy")
        /\ Rebuilt(links) \/ UNCHANGED <<links, view>>
    BY <1>5 DEF CreateNode
  <2>2. Ends \/ GoesOn("cut") \/ GoesOn("destroy")
    BY <1>1, <1>2, <2>1 DEF Ends, GoesOn, Cutting, Target
  <2>3. links' \subseteq Link /\ view' \subseteq Link
    BY <1>3, <2>1, RebuiltTypes
  <2>4. place' \in [Effects -> {Absent} \cup Target]
    BY <1>2, <2>1 DEF Target
  <2>5. \A e \in Effects : e # task.effect => place'[e] = place[e]
    BY <2>1
  <2> QED  BY <1>1, <1>2, <2>1, <2>2, <2>3, <2>4, <2>5 DEF Step, Cutting
<1>6. CASE Rewire
  <2>1. task.target \in Link
    BY <1>1, <1>6 DEF Rewire, At, TaskTyped, Cutting
  <2>2. /\ UNCHANGED <<Rest, place, inbox, waiting, told>>
        /\ \E l \in Link : \E ok \in {"first", "second", "commit"} :
             Connect(l, ok, "destroy") \/ Disconnect(l, ok, "destroy")
    <3>1. /\ <<task.target[1], task.effect>> \in Link /\ <<task.effect, task.target[2]>> \in Link
      BY <1>2, <2>1 DEF Link, Node
    <3> QED  BY <1>6, <2>1, <3>1 DEF Rewire
  <2>3. PICK l \in Link, ok \in {"first", "second", "commit"} :
          Connect(l, ok, "destroy") \/ Disconnect(l, ok, "destroy")
    BY <2>2
  <2>4. /\ links' \subseteq Link /\ view' \subseteq Link /\ blocked' \subseteq Link
        /\ Go(ok) \/ Go("destroy")
    BY <2>3, ConnectTypes
  <2> QED  BY <1>1, <1>2, <2>1, <2>2, <2>4 DEF Step, GoesOn, Cutting
<1>7. CASE Commit
  <2>1. /\ Finish /\ place' = [place EXCEPT ![task.effect] = task.target]
        /\ UNCHANGED <<Rest, links, view, blocked, told>>
    BY <1>7 DEF Commit
  <2> QED  BY <1>1, <1>2, <2>1 DEF Step, Ends
<1> QED  BY <1>4, <1>5, <1>6, <1>7

LEMMA RollbackSteps ==
  ASSUME TypeInv, DestroyNode \/ Restore
  PROVE  Step /\ GraphTyped'
<1> USE DEF TypeInv, GraphTyped
<1>1. task \in Task /\ task # NoTask /\ told \in BOOLEAN
  BY DEF TaskTyped, DestroyNode, Restore, At
<1>2. task.effect \in Effects /\ task.target \in Target /\ task.kind \in {"insert", "remove"}
  BY <1>1 DEF Task
<1>3. CASE DestroyNode
  <2> DEFINE left == links \ Touching(task.effect)
  <2>1. task.target # Standalone \/ task.kind = "insert" => task.target \in Link
    BY <1>1, <1>2, <1>3 DEF DestroyNode, At, TaskTyped, Target
  <2>2. /\ UNCHANGED <<Rest, blocked>> /\ told' \in {told, TRUE}
        /\ place' = [place EXCEPT ![task.effect] = Absent]
        /\ \/ Finish
           \/ task.target \in Link /\ Go("restore") /\ UNCHANGED <<inbox, waiting>>
    BY <1>2, <1>3, <2>1 DEF DestroyNode
  <2>3. Ends \/ GoesOn("restore")
    BY <1>1, <1>2, <2>2 DEF Ends, GoesOn, Cutting
  <2>4. Rebuilt(left) \/ (links' = left /\ view' = view)
    BY <1>3 DEF DestroyNode
  <2>5. links' \subseteq Link /\ view' \subseteq Link
    <3>1. left \in SUBSET Link
      OBVIOUS
    <3> HIDE DEF left
    <3> QED  BY <2>4, <3>1, RebuiltTypes
  <2>6. place' \in [Effects -> {Absent} \cup Target]
    BY <2>2
  <2>7. \A e \in Effects : place'[e] \in {Absent, place[e]} /\ (e # task.effect => place'[e] = place[e])
    BY <1>2, <2>2
  <2> QED  BY <1>1, <2>2, <2>3, <2>5, <2>6, <2>7 DEF Step, Cutting
<1>4. CASE Restore
  <2>1. task.target \in Link
    BY <1>1, <1>4 DEF Restore, At, TaskTyped, Cutting
  <2>2. /\ Finish /\ UNCHANGED <<Rest, place>> /\ told' \in {told, TRUE}
        /\ blocked' = blocked \ {task.target}
        /\ \/ UNCHANGED <<links, view>>
           \/ Rebuilt(links \cup {task.target})
           \/ links' \in {links, links \cup {task.target}} /\ UNCHANGED view
    BY <1>4 DEF Restore
  <2>3. Ends
    BY <1>1, <2>2 DEF Ends
  <2>4. links \cup {task.target} \in SUBSET Link /\ blocked' \subseteq Link
    BY <2>1, <2>2
  <2>5. links' \subseteq Link /\ view' \subseteq Link
    BY <2>2, <2>4, RebuiltTypes
  <2> QED  BY <1>1, <2>2, <2>3, <2>4, <2>5 DEF Step
<1> QED  BY <1>3, <1>4

LEMMA StepTypes ==
  ASSUME TypeInv, Step, GraphTyped'
  PROVE  TypeInv'
<1>1. CASE Ends
  BY <1>1, EndTypes DEF Step, TypeInv
<1>2. CASE \E step \in {"publish", "destroy"} \cup Cutting : GoesOn(step)
  BY <1>2, GoTypes DEF Step, TypeInv
<1> QED  BY <1>1, <1>2 DEF Step

--------------------------------------------------------------------------------
(* Where the tickets are.                                                  *)

\* Of what a ticket's whereabouts are read from, only the task's step and the
\* places of effects without a ticket change.
Apart ==
    /\ UNCHANGED <<loader, tokens, cancelled, pending, waiting, inbox>>
    /\ \A e \in Effects : Handled(e)' <=> Handled(e)
    /\ \A e \in tokens \cup cancelled : place'[e] \in {Absent, place[e]}

LEMMA ApartKeeps ==
  ASSUME TicketInv, TypeInv, Apart
  PROVE  TicketInv'
<1> SUFFICES ASSUME NEW e \in Effects PROVE Once(e)' /\ Tracked(e)' /\ Admitted(e)'
  BY DEF TicketInv
<1> USE DEF Apart, TicketInv, loader, Queued, Held, Sent, Polled, InQueue, InJob, InEvents, InInbox
<1>1. Once(e)'
  BY DEF Once
<1>2. Tracked(e)'
  BY DEF Tracked
<1>3. Admitted(e)'
  BY DEF Admitted
<1> QED  BY <1>1, <1>2, <1>3

\* The insertion under way is that of an effect nobody can cancel any more.
LEMMA InsertedIsAdmitted ==
  ASSUME IInv, task # NoTask, task.kind = "insert"
  PROVE  /\ task.effect \in Effects /\ task.effect \notin tokens \cup cancelled
         /\ Polled(task.effect, 1) /\ inbox # <<>> /\ inbox[1].effect = task.effect
         /\ inbox[1].kind = "ready" /\ \A k \in Nat : Polled(task.effect, k) => k = 1
<1>1. task \in Task /\ inbox # <<>> /\ inbox[1] = [effect |-> task.effect, kind |-> "ready"]
  BY DEF IInv, TypeInv, TaskTyped
<1>2. task.effect \in Effects
  BY <1>1 DEF Task
<1>3. 1 \in 1..Len(inbox)
  BY <1>1, Shortened DEF IInv, TypeInv, LoaderTyped
<1>4. Polled(task.effect, 1)
  BY <1>1, <1>3 DEF Polled
<1>5. Once(task.effect) /\ Admitted(task.effect)
  BY <1>2 DEF IInv, TicketInv
<1> QED  BY <1>1, <1>2, <1>4, <1>5 DEF Once, Admitted

\* The event at the head of the inbox is answered.
LEMMA AnswerKeeps ==
  ASSUME IInv, inbox # <<>>, NEW e \in Effects, inbox[1].effect = e, inbox' = Tail(inbox),
         waiting' = waiting \ {e}, task' = NoTask,
         \A x \in Effects : Handled(x) => x = e,
         UNCHANGED <<loader, tokens, cancelled>>,
         \A x \in Effects \ {e} : (x \in DOMAIN pending' <=> x \in DOMAIN pending),
         e \notin DOMAIN pending',
         \A x \in tokens \cup cancelled : place'[x] \in {Absent, place[x]}
  PROVE  TicketInv'
<1>1. /\ inbox \in Seq(Event) /\ 1 \in 1..Len(inbox) /\ Len(inbox) \in Nat
      /\ Len(inbox') = Len(inbox) - 1
      /\ \A k \in 1..Len(inbox') : inbox'[k] = inbox[k + 1]
  BY Shortened DEF IInv, TypeInv, LoaderTyped
<1>2. ASSUME NEW x \in Effects, NEW k \in Nat
      PROVE  Polled(x, k)' <=> k > 0 /\ Polled(x, k + 1)
  BY <1>1 DEF Polled
<1>3. Polled(e, 1) /\ Once(e) /\ Tracked(e)
  BY <1>1 DEF Polled, IInv, TicketInv
<1>4. \A k \in Nat : ~Polled(e, k)'
  <2> SUFFICES ASSUME NEW k \in Nat, Polled(e, k)' PROVE FALSE
    OBVIOUS
  <2>1. k + 1 \in Nat /\ k + 1 # 1 /\ Polled(e, k + 1)
    BY <1>2
  <2> QED  BY <1>3, <2>1 DEF Once
<1>5. ASSUME NEW x \in Effects, x # e
      PROVE  /\ InInbox(x)' <=> InInbox(x)
             /\ \A k, l \in Nat : Polled(x, k)' /\ Polled(x, l)' => k = l
  <2>1. InInbox(x)' => InInbox(x)
    <3> SUFFICES ASSUME NEW k \in Nat, Polled(x, k)' PROVE InInbox(x)
      BY DEF InInbox
    <3>1. k + 1 \in Nat /\ Polled(x, k + 1)
      BY <1>2
    <3> QED  BY <3>1 DEF InInbox
  <2>2. InInbox(x) => InInbox(x)'
    <3> SUFFICES ASSUME NEW k \in Nat, Polled(x, k) PROVE InInbox(x)'
      BY DEF InInbox
    <3>1. k # 1 /\ k # 0
      BY <1>5 DEF Polled
    <3>2. k - 1 \in Nat /\ k - 1 > 0 /\ (k - 1) + 1 = k
      BY <3>1
    <3>3. Polled(x, k - 1)'
      BY <1>2, <3>2
    <3> QED  BY <3>2, <3>3 DEF InInbox
  <2>3. ASSUME NEW k \in Nat, NEW l \in Nat, Polled(x, k)', Polled(x, l)'
        PROVE  k = l
    <3>1. Polled(x, k + 1) /\ Polled(x, l + 1) /\ Once(x) /\ k + 1 \in Nat /\ l + 1 \in Nat
      BY <1>2, <2>3 DEF IInv, TicketInv
    <3>2. k + 1 = l + 1
      BY <3>1 DEF Once
    <3> QED  BY <3>2
  <2> QED  BY <2>1, <2>2, <2>3
<1>6. ASSUME NEW x \in Effects
      PROVE  /\ InQueue(x)' <=> InQueue(x)
             /\ InJob(x)' <=> InJob(x)
             /\ InEvents(x)' <=> InEvents(x)
             /\ \A k \in Nat : (Queued(x, k)' <=> Queued(x, k)) /\ (Sent(x, k)' <=> Sent(x, k))
             /\ \A w \in Workers : Held(x, w)' <=> Held(x, w)
             /\ ~Handled(x)'
  BY DEF Queued, Held, Sent, InQueue, InJob, InEvents, loader, Handled
<1>7. ASSUME NEW x \in Effects
      PROVE  Once(x)'
  <2>1. Once(x)
    BY DEF IInv, TicketInv
  <2>2. CASE x = e
    BY <1>4, <1>6, <2>1, <2>2 DEF Once, InInbox
  <2>3. CASE x # e
    BY <1>5, <1>6, <2>1, <2>3 DEF Once
  <2> QED  BY <2>2, <2>3
<1>8. ASSUME NEW x \in Effects
      PROVE  Tracked(x)'
  <2>1. Tracked(x)
    BY DEF IInv, TicketInv
  <2>2. CASE x = e
    <3>1. e \notin tokens /\ ~InInbox(e)'
      BY <1>3, <1>4 DEF Once, Tracked, InInbox
    <3> QED  BY <1>3, <1>6, <2>2, <3>1 DEF Tracked
  <2>3. CASE x # e
    <3>1. ~Handled(x)
      BY <2>3
    <3> QED  BY <1>5, <1>6, <2>1, <2>3, <3>1 DEF Tracked
  <2> QED  BY <2>2, <2>3
<1>9. ASSUME NEW x \in Effects
      PROVE  Admitted(x)'
  <2>1. Admitted(x)
    BY DEF IInv, TicketInv
  <2>2. ASSUME x \in tokens \cup cancelled, NEW k \in Nat, Polled(x, k)'
        PROVE  inbox'[k].kind # "ready"
    <3>1. k + 1 \in Nat /\ Polled(x, k + 1) /\ inbox'[k] = inbox[k + 1]
      BY <1>1, <1>2, <2>2 DEF Polled
    <3> QED  BY <2>1, <2>2, <3>1 DEF Admitted
  <2>3. x \in tokens \cup cancelled => place'[x] = Absent
    BY <2>1 DEF Admitted
  <2> QED  BY <2>2, <2>3 DEF Admitted
<1> QED  BY <1>7, <1>8, <1>9 DEF TicketInv

LEMMA InsertionKeeps ==
  ASSUME IInv, Step, GraphTyped'
  PROVE  IInv'
<1>1. TypeInv /\ TypeInv' /\ UNCHANGED <<loader, tokens, cancelled, pending>>
  BY StepTypes DEF IInv, Step, Rest
<1>2. CASE Ends /\ task.kind = "insert"
  <2> DEFINE e == task.effect
  <2>1. /\ e \in Effects /\ inbox # <<>> /\ inbox[1].effect = e /\ e \notin tokens \cup cancelled
        /\ Polled(e, 1) /\ Handled(e)
    BY <1>2, InsertedIsAdmitted DEF Handled, Ends
  <2>2. inbox' = Tail(inbox) /\ waiting' = waiting \ {e} /\ task' = NoTask
    BY <1>2 DEF Ends, Finish
  <2>3. e \notin DOMAIN pending
    BY <2>1 DEF IInv, TicketInv, Tracked
  <2>4. \A x \in tokens \cup cancelled : place'[x] = place[x]
    BY <1>1, <2>1 DEF Step, TypeInv, TicketsTyped
  <2>5. \A x \in Effects : Handled(x) => x = e
    BY DEF Handled
  <2> HIDE DEF e
  <2>6. TicketInv'
    BY <1>1, <2>1, <2>2, <2>3, <2>4, <2>5, AnswerKeeps
  <2> QED  BY <1>1, <2>6 DEF IInv
<1>3. CASE Ends /\ task.kind # "insert"
  <2>1. task.kind = "remove" /\ inbox = <<>> /\ UNCHANGED <<inbox, waiting>> /\ task' = NoTask
    BY <1>1, <1>3 DEF Ends, Finish, TypeInv, TaskTyped, Task
  <2>2. \A e \in tokens \cup cancelled : place'[e] \in {Absent, place[e]}
    BY <1>1, <2>1 DEF Step, TypeInv, TicketsTyped
  <2>3. Apart
    BY <1>1, <2>1, <2>2 DEF Apart, Handled
  <2> QED  BY <1>1, <2>3, ApartKeeps DEF IInv
<1>4. CASE \E step \in {"publish", "destroy"} \cup Cutting : GoesOn(step)
  <2>1. /\ task' \in Task /\ task'.kind = task.kind /\ task'.effect = task.effect
        /\ UNCHANGED <<inbox, waiting>> /\ task # NoTask /\ task \in Task
    BY <1>1, <1>4, GoTypes DEF Step, GoesOn, TypeInv, TaskTyped
  <2>2. \A e \in tokens \cup cancelled : place'[e] \in {Absent, place[e]}
    <3>1. CASE task.kind = "insert"
      BY <1>1, <2>1, <3>1, InsertedIsAdmitted DEF Step, TypeInv, TicketsTyped
    <3>2. CASE task.kind = "remove"
      BY <1>1, <3>2 DEF Step, TypeInv, TicketsTyped
    <3> QED  BY <2>1, <3>1, <3>2 DEF Task
  <2>3. Apart
    BY <1>1, <2>1, <2>2, TaskIsSome DEF Apart, Handled
  <2> QED  BY <1>1, <2>3, ApartKeeps DEF IInv
<1> QED  BY <1>2, <1>3, <1>4 DEF Step

\* A removal begins; the graph is refreshed, or changed by another client.
LEMMA GraphKeeps ==
  ASSUME IInv, (\E e \in Effects : Remove(e)) \/ Refresh \/ OutsideLinks \/ OutsideUnlinks
  PROVE  IInv'
<1> USE DEF IInv, TypeInv, GraphTyped, tickets, graph
<1>1. UNCHANGED <<loader, tickets, place, inbox>>
  BY DEF Remove, Refresh, OutsideLinks, OutsideUnlinks
<1>2. GraphTyped'
  <2>1. CASE (\E e \in Effects : Remove(e)) \/ Refresh
    BY <1>1, <2>1, RebuiltTypes DEF Remove, Refresh
  <2>2. CASE OutsideLinks
    <3>1. PICK from \in Node, to \in Node : links' = links \cup {<<from, to>>}
      BY <2>2 DEF OutsideLinks, Node
    <3>2. links' \subseteq Link
      BY <3>1 DEF Link
    <3> QED  BY <1>1, <2>2, <3>2 DEF OutsideLinks
  <2>3. CASE OutsideUnlinks
    BY <1>1, <2>3 DEF OutsideUnlinks
  <2> QED  BY <2>1, <2>2, <2>3
<1>3. TaskTyped' /\ \A x \in Effects : Handled(x)' <=> Handled(x)
  <2>1. CASE \E e \in Effects : Remove(e)
    <3>1. PICK e \in Effects :
            /\ Handler /\ place[e] # Absent /\ UNCHANGED told
            /\ task' = [kind |-> "remove", effect |-> e, target |-> place[e], step |-> "destroy"]
      BY <2>1 DEF Remove
    <3>2. task' \in Task /\ task'.kind = "remove" /\ task'.step = "destroy"
      BY <3>1 DEF Task, Target
    <3>3. task = NoTask /\ inbox' = <<>>
      BY <1>1, <3>1 DEF Handler
    <3> QED  BY <3>1, <3>2, <3>3 DEF TaskTyped, Cutting, Handled
  <2>2. CASE ~(\E e \in Effects : Remove(e))
    BY <1>1, <2>2 DEF Refresh, OutsideLinks, OutsideUnlinks, TaskTyped, Handled
  <2> QED  BY <2>1, <2>2
<1>4. Apart
  BY <1>1, <1>3 DEF Apart
<1>5. LoaderTyped' /\ TicketsTyped'
  BY <1>1 DEF LoaderTyped, TicketsTyped, loader
<1> QED  BY <1>2, <1>3, <1>4, <1>5, ApartKeeps

\* Once a cancellation is accepted, neither the graph nor the inbox holds the
\* effect; its event is still to be polled.
LEMMA CancelKeeps ==
  ASSUME IInv, NEW e \in Effects, Cancel(e)
  PROVE  IInv'
<1>1. /\ e \in tokens /\ cancelled' = cancelled \cup {e} /\ inbox = <<>>
      /\ UNCHANGED <<loader, tokens, pending, waiting, graph, inbox, task, told>>
  BY DEF Cancel, Handler
<1>2. TypeInv'
  BY <1>1 DEF IInv, TypeInv, LoaderTyped, TicketsTyped, GraphTyped, TaskTyped, loader, graph
<1>3. ASSUME NEW x \in Effects
      PROVE  Once(x)' /\ Tracked(x)' /\ Admitted(x)'
  <2> USE DEF Queued, Held, Sent, Polled, InQueue, InJob, InEvents, InInbox, loader
  <2>1. Once(x) /\ Tracked(x) /\ Admitted(x)
    BY DEF IInv, TicketInv
  <2>2. Once(x)'
    BY <1>1, <2>1 DEF Once
  <2>3. Tracked(x)'
    BY <1>1, <2>1 DEF Tracked, Handled
  <2>4. Admitted(x)'
    BY <1>1, <2>1 DEF Admitted, graph
  <2> QED  BY <2>2, <2>3, <2>4
<1> QED  BY <1>2, <1>3 DEF IInv, TicketInv

LEMMA HandleEventKeeps ==
  ASSUME IInv, HandleEvent
  PROVE  IInv'
<1> DEFINE e == inbox[1].effect
<1>1. /\ task = NoTask /\ inbox # <<>> /\ Head(inbox) = inbox[1] /\ inbox[1] \in Event
      /\ inbox \in Seq(Event) /\ Tail(inbox) \in Seq(Event) /\ 1 \in 1..Len(inbox)
  BY Shortened DEF HandleEvent, IInv, TypeInv, LoaderTyped
<1>2. /\ pending' = [x \in DOMAIN pending \ {e} |-> pending[x]]
      /\ UNCHANGED <<loader, tokens, cancelled, graph, told>>
  BY <1>1 DEF HandleEvent
<1>3. e \in Effects /\ Polled(e, 1) /\ \A x \in Effects : ~Handled(x)
  BY <1>1 DEF Event, Polled, Handled
<1>4. Tracked(e) /\ Once(e) /\ Admitted(e)
  BY <1>3 DEF IInv, TicketInv
<1>5. InInbox(e) /\ e \in DOMAIN pending /\ e \notin tokens
  BY <1>3, <1>4 DEF Tracked, InInbox, Once
<1>6. GraphTyped'
  BY <1>2 DEF IInv, TypeInv, GraphTyped, graph
<1>7. CASE inbox[1].kind = "ready"
  <2>1. /\ UNCHANGED <<inbox, waiting>>
        /\ task' = [kind |-> "insert", effect |-> e, target |-> pending[e], step |-> "activate"]
    BY <1>1, <1>7 DEF HandleEvent
  <2>2. inbox[1] = [effect |-> e, kind |-> "ready"]
    BY <1>1, <1>7 DEF Event
  <2>3. pending[e] \in Target
    BY <1>5 DEF IInv, TypeInv, TicketsTyped
  <2>4. task' \in Task /\ task'.kind = "insert" /\ task'.effect = e /\ task'.step = "activate"
    BY <1>3, <2>1, <2>3 DEF Task
  <2>5. task' # NoTask
    BY <2>4, TaskIsSome
  <2>6. TaskTyped'
    BY <1>1, <1>2, <2>1, <2>2, <2>4, <2>5 DEF IInv, TypeInv, TaskTyped, Cutting
  <2>7. LoaderTyped' /\ TicketsTyped'
    BY <1>2, <2>1 DEF IInv, TypeInv, LoaderTyped, TicketsTyped, loader
  <2>8. \A x \in Effects : Handled(x)' <=> x = e
    BY <2>4, <2>5 DEF Handled
  <2>9. ASSUME NEW x \in Effects
        PROVE  Once(x)' /\ Tracked(x)' /\ Admitted(x)'
    <3> HIDE DEF e
    <3> USE DEF Queued, Held, Sent, Polled, InQueue, InJob, InEvents, InInbox, loader
    <3>1. Once(x) /\ Tracked(x) /\ Admitted(x)
      BY DEF IInv, TicketInv
    <3>2. Once(x)'
      BY <1>2, <2>1, <3>1 DEF Once
    <3>3. Tracked(x)'
      <4>1. UNCHANGED <<tokens, waiting>> /\ (InInbox(x)' <=> InInbox(x))
            /\ (InQueue(x)' <=> InQueue(x)) /\ (InJob(x)' <=> InJob(x)) /\ (InEvents(x)' <=> InEvents(x))
        BY <1>2, <2>1
      <4>2. x \in DOMAIN pending' <=> x \in DOMAIN pending /\ x # e
        BY <1>2
      <4> HIDE DEF InInbox, InQueue, InJob, InEvents
      <4> QED  BY <1>3, <1>5, <2>8, <3>1, <4>1, <4>2 DEF Tracked
    <3>4. Admitted(x)'
      BY <1>2, <2>1, <3>1 DEF Admitted, graph
    <3> QED  BY <3>2, <3>3, <3>4
  <2> QED  BY <1>6, <2>6, <2>7, <2>9 DEF IInv, TypeInv, TicketInv
<1>8. CASE inbox[1].kind # "ready"
  <2>1. waiting' = waiting \ {e} /\ inbox' = Tail(inbox) /\ task' = NoTask
    BY <1>1, <1>8 DEF HandleEvent
  <2>2. LoaderTyped' /\ TicketsTyped' /\ TaskTyped'
    BY <1>1, <1>2, <2>1 DEF IInv, TypeInv, LoaderTyped, TicketsTyped, TaskTyped, loader
  <2>3. /\ \A x \in Effects \ {e} : (x \in DOMAIN pending' <=> x \in DOMAIN pending)
        /\ e \notin DOMAIN pending'
        /\ \A x \in tokens \cup cancelled : place'[x] \in {Absent, place[x]}
        /\ \A x \in Effects : Handled(x) => x = e
    BY <1>2, <1>3 DEF graph
  <2> HIDE DEF e
  <2>4. inbox[1].effect = e
    BY DEF e
  <2>5. TicketInv'
    BY <1>1, <1>2, <1>3, <2>1, <2>3, <2>4, AnswerKeeps
  <2> QED  BY <1>6, <2>2, <2>5 DEF IInv, TypeInv
<1> QED  BY <1>7, <1>8

--------------------------------------------------------------------------------
(* Tickets are issued, worked on and polled.                               *)

LEMMA CreateKeeps ==
  ASSUME IInv, NEW e \in Effects, BeginCreate(e)
  PROVE  IInv'
<1>1. /\ task = NoTask /\ inbox = <<>> /\ place[e] = Absent /\ e \notin DOMAIN pending
      /\ queue' = Append(queue, e) /\ tokens' = tokens \cup {e} /\ waiting' = waiting \cup {e}
      /\ UNCHANGED <<job, events, cancelled, place, inbox, task, told>>
  BY DEF BeginCreate, Handler
<1>2. PICK target \in {Standalone} \cup view :
        /\ \/ UNCHANGED <<links, view, blocked>>
           \/ UNCHANGED blocked /\ Rebuilt(links)
        /\ pending' = [x \in DOMAIN pending \cup {e} |-> IF x = e THEN target ELSE pending[x]]
  BY DEF BeginCreate
<1>3. /\ queue \in Seq(Effects) /\ queue' \in Seq(Effects) /\ Len(queue) \in Nat
      /\ Len(queue') = Len(queue) + 1
      /\ \A k \in 1..Len(queue) : queue'[k] = queue[k]
      /\ queue'[Len(queue) + 1] = e
  BY <1>1, Appended DEF IInv, TypeInv, LoaderTyped
<1>4. GraphTyped'
  BY <1>1, <1>2, RebuiltTypes DEF IInv, TypeInv, GraphTyped
<1>5. TicketsTyped'
  <2>1. target \in Target
    BY DEF IInv, TypeInv, GraphTyped, Target
  <2> QED  BY <1>1, <1>2, <2>1 DEF IInv, TypeInv, TicketsTyped
<1>6. LoaderTyped' /\ TaskTyped'
  BY <1>1, <1>3 DEF IInv, TypeInv, LoaderTyped, TaskTyped
<1>7. ASSUME NEW x \in Effects, NEW k \in Nat
      PROVE  Queued(x, k)' <=> Queued(x, k) \/ (x = e /\ k = Len(queue) + 1)
  BY <1>3 DEF Queued
<1>8. e \notin tokens /\ ~InQueue(e) /\ ~InJob(e) /\ ~InEvents(e) /\ ~InInbox(e)
  <2>1. Tracked(e) /\ \A k \in Nat : ~Polled(e, k)
    BY <1>1 DEF IInv, TicketInv, Polled
  <2> QED  BY <1>1, <2>1 DEF Tracked, InInbox
<1>9. ASSUME NEW x \in Effects
      PROVE  Once(x)' /\ Tracked(x)' /\ Admitted(x)'
  <2>1. Once(x) /\ Tracked(x) /\ Admitted(x)
    BY DEF IInv, TicketInv
  <2>2. /\ InJob(x)' <=> InJob(x)
        /\ InEvents(x)' <=> InEvents(x)
        /\ InInbox(x)' <=> InInbox(x)
        /\ \A k \in Nat : (Sent(x, k)' <=> Sent(x, k)) /\ (Polled(x, k)' <=> Polled(x, k))
        /\ \A w \in Workers : Held(x, w)' <=> Held(x, w)
        /\ ~Handled(x) /\ ~Handled(x)'
    BY <1>1 DEF InJob, InEvents, InInbox, Sent, Polled, Held, Handled
  <2>3. InQueue(x)' <=> InQueue(x) \/ x = e
    <3>1. Len(queue) + 1 \in Nat
      BY <1>3
    <3> QED  BY <1>7, <3>1 DEF InQueue
  <2>4. \A k, l \in Nat : Queued(x, k)' /\ Queued(x, l)' => k = l
    <3>1. CASE x = e
      BY <1>7, <1>8, <3>1 DEF InQueue
    <3>2. CASE x # e
      BY <1>7, <2>1, <3>2 DEF Once
    <3> QED  BY <3>1, <3>2
  <2>5. Once(x)'
    BY <1>8, <2>1, <2>2, <2>3, <2>4 DEF Once
  <2>6. x \in DOMAIN pending' <=> x \in DOMAIN pending \/ x = e
    BY <1>2
  <2>7. Tracked(x)'
    BY <1>1, <1>8, <2>1, <2>2, <2>3, <2>6 DEF Tracked
  <2>8. Admitted(x)'
    <3>1. \A k \in Nat : ~Polled(x, k)'
      BY <1>1 DEF Polled
    <3> QED  BY <1>1, <2>1, <3>1 DEF Admitted
  <2> QED  BY <2>5, <2>7, <2>8
<1> QED  BY <1>4, <1>5, <1>6, <1>9 DEF IInv, TypeInv, TicketInv

\* A loader thread moves a ticket on, from the queue to itself or from itself to
\* the events.
LEMMA TicketMoves ==
  ASSUME IInv, NEW w \in Workers, Work(w), NEW e \in Effects
  PROVE  Once(e)' /\ (InQueue(e)' \/ InJob(e)' \/ InEvents(e)' <=> InQueue(e) \/ InJob(e) \/ InEvents(e))
<1>1. /\ Once(e) /\ UNCHANGED inbox
      /\ queue \in Seq(Effects) /\ events \in Seq(Event) /\ job \in [Workers -> {NoJob} \cup Job]
  BY WorkTypes DEF IInv, TicketInv, TypeInv, LoaderTyped
<1>2. /\ \A k \in Nat : Polled(e, k)' <=> Polled(e, k)
      /\ InInbox(e)' <=> InInbox(e)
  BY <1>1 DEF Polled, InInbox
<1>3. ASSUME NEW v \in Workers, v # w
      PROVE  Held(e, v)' <=> Held(e, v)
  <2>1. job'[v] = job[v]
    BY <1>1, <1>3 DEF Work, Take, WorkerChecks, Prepares, Decides, Publishes, Sends
  <2> QED  BY <2>1 DEF Held
<1>4. CASE Take(w)
  <2>1. /\ job[w] = NoJob /\ queue # <<>> /\ queue' = Tail(queue) /\ UNCHANGED events
        /\ job'[w] = [effect |-> Head(queue), stage |-> "check"]
    BY <1>1, <1>4 DEF Take
  <2>2. /\ Len(queue) \in Nat /\ Len(queue) >= 1 /\ Len(queue') = Len(queue) - 1
        /\ \A k \in 1..Len(queue') : queue'[k] = queue[k + 1]
        /\ Head(queue) = queue[1] /\ queue[1] \in Effects
    BY <1>1, <2>1, Shortened
  <2>3. Held(e, w)' <=> Queued(e, 1)
    <3>1. job'[w] \in Job
      BY <2>1, <2>2 DEF Job
    <3>2. job'[w] # NoJob /\ job'[w].effect = queue[1]
      BY <2>1, <2>2, <3>1, JobIsSome
    <3> QED  BY <2>2, <3>2 DEF Held, Queued
  <2>4. ~Held(e, w)
    BY <2>1 DEF Held
  <2>5. \A k \in Nat : Queued(e, k)' <=> k > 0 /\ Queued(e, k + 1)
    BY <2>2 DEF Queued
  <2>6. /\ \A k \in Nat : Sent(e, k)' <=> Sent(e, k)
        /\ InEvents(e)' <=> InEvents(e)
    BY <2>1 DEF Sent, InEvents
  <2>7. \A k \in Nat : Queued(e, k) => k > 0
    BY <2>2 DEF Queued
  <2>8. InQueue(e)' => InQueue(e) /\ ~Queued(e, 1)
    <3> SUFFICES ASSUME NEW k \in Nat, Queued(e, k)' PROVE InQueue(e) /\ ~Queued(e, 1)
      BY DEF InQueue
    <3>1. k + 1 \in Nat /\ k + 1 # 1 /\ Queued(e, k + 1)
      BY <2>5
    <3> QED  BY <1>1, <3>1 DEF InQueue, Once
  <2>9. InQueue(e) => InQueue(e)' \/ Queued(e, 1)
    <3> SUFFICES ASSUME NEW k \in Nat, Queued(e, k), k # 1 PROVE InQueue(e)'
      BY DEF InQueue
    <3>1. k - 1 \in Nat /\ k - 1 > 0 /\ (k - 1) + 1 = k
      BY <2>7
    <3>2. Queued(e, k - 1)'
      BY <2>5, <3>1
    <3> QED  BY <3>1, <3>2 DEF InQueue
  <2>10. InJob(e)' <=> InJob(e) \/ Queued(e, 1)
    BY <1>3, <2>3, <2>4 DEF InJob
  <2>11. Queued(e, 1) => InQueue(e)
    BY DEF InQueue
  <2>12. ASSUME NEW k \in Nat, NEW l \in Nat, Queued(e, k)', Queued(e, l)'
         PROVE  k = l
    <3>1. k + 1 \in Nat /\ l + 1 \in Nat /\ Queued(e, k + 1) /\ Queued(e, l + 1)
      BY <2>5, <2>12
    <3>2. k + 1 = l + 1
      BY <1>1, <3>1 DEF Once
    <3> QED  BY <3>2
  <2>13. ASSUME NEW u \in Workers, NEW v \in Workers, Held(e, u)', Held(e, v)'
         PROVE  u = v
    <3>1. CASE Queued(e, 1)
      <4>1. \A x \in Workers : ~Held(e, x)
        BY <1>1, <2>11, <3>1 DEF Once, InJob
      <4>2. u = w /\ v = w
        BY <1>3, <2>13, <4>1
      <4> QED  BY <4>2
    <3>2. CASE ~Queued(e, 1)
      BY <1>1, <1>3, <2>3, <2>13, <3>2 DEF Once
    <3> QED  BY <3>1, <3>2
  <2>14. Once(e)'
    BY <1>1, <1>2, <2>6, <2>8, <2>9, <2>10, <2>11, <2>12, <2>13 DEF Once
  <2> QED  BY <2>6, <2>8, <2>9, <2>10, <2>11, <2>14
<1>5. CASE job'[w] # NoJob /\ job[w] # NoJob /\ job'[w].effect = job[w].effect /\ UNCHANGED <<queue, events>>
  <2>1. Held(e, w)' <=> Held(e, w)
    BY <1>5 DEF Held
  <2>2. /\ \A k \in Nat : (Queued(e, k)' <=> Queued(e, k)) /\ (Sent(e, k)' <=> Sent(e, k))
        /\ \A v \in Workers : Held(e, v)' <=> Held(e, v)
    BY <1>3, <1>5, <2>1 DEF Queued, Sent
  <2>3. (InQueue(e)' <=> InQueue(e)) /\ (InJob(e)' <=> InJob(e)) /\ (InEvents(e)' <=> InEvents(e))
    BY <2>2 DEF InQueue, InJob, InEvents
  <2>4. Once(e)'
    BY <1>1, <1>2, <2>2, <2>3 DEF Once
  <2> QED  BY <2>3, <2>4
<1>6. ASSUME NEW kind \in Kind, job[w] # NoJob, Sends(w, kind), UNCHANGED queue
      PROVE  Once(e)' /\ (InQueue(e)' \/ InJob(e)' \/ InEvents(e)' <=> InQueue(e) \/ InJob(e) \/ InEvents(e))
  <2> DEFINE new == [effect |-> job[w].effect, kind |-> kind]
  <2>1. job'[w] = NoJob /\ events' = Append(events, new) /\ new \in Event /\ new.effect = job[w].effect
    BY <1>1, <1>6, JobFields DEF Sends, Event, IInv, TypeInv
  <2> HIDE DEF new
  <2>2. /\ Len(events) \in Nat /\ Len(events') = Len(events) + 1
        /\ \A k \in 1..Len(events) : events'[k] = events[k]
        /\ events'[Len(events) + 1] = new
    BY <1>1, <2>1, Appended
  <2>3. \A k \in Nat : Sent(e, k)' <=> Sent(e, k) \/ (k = Len(events) + 1 /\ Held(e, w))
    BY <1>6, <2>1, <2>2 DEF Sent, Held
  <2>4. ~Held(e, w)'
    BY <2>1 DEF Held
  <2>5. /\ \A k \in Nat : Queued(e, k)' <=> Queued(e, k)
        /\ InQueue(e)' <=> InQueue(e)
    BY <1>6 DEF Queued, InQueue
  <2>6. InEvents(e)' <=> InEvents(e) \/ Held(e, w)
    <3>1. Len(events) + 1 \in Nat
      BY <2>2
    <3> QED  BY <2>3, <3>1 DEF InEvents
  <2>7. InJob(e) <=> InJob(e)' \/ Held(e, w)
    BY <1>3, <2>4 DEF InJob
  <2>8. InJob(e)' => ~Held(e, w)
    BY <1>1, <1>3, <2>4 DEF InJob, Once
  <2>9. ASSUME NEW k \in Nat, NEW l \in Nat, Sent(e, k)', Sent(e, l)'
        PROVE  k = l
    <3>1. CASE Held(e, w)
      <4>1. \A x \in Nat : ~Sent(e, x)
        BY <1>1, <3>1 DEF Once, InJob, InEvents
      <4> QED  BY <2>3, <2>9, <4>1
    <3>2. CASE ~Held(e, w)
      BY <1>1, <2>3, <2>9, <3>2 DEF Once
    <3> QED  BY <3>1, <3>2
  <2>10. \A u, v \in Workers : Held(e, u)' /\ Held(e, v)' => u = v
    BY <1>1, <1>3, <2>4 DEF Once
  <2>11. Once(e)'
    BY <1>1, <1>2, <2>5, <2>6, <2>7, <2>8, <2>9, <2>10 DEF Once
  <2> QED  BY <2>5, <2>6, <2>7, <2>11
<1>7. CASE WorkerChecks(w)
  <2>1. CASE Sends(w, "cancelled")
    BY <1>6, <1>7, <2>1 DEF WorkerChecks, Working, Kind
  <2>2. CASE job' = [job EXCEPT ![w].stage = "prepare"] /\ UNCHANGED events
    <3>1. job[w] # NoJob /\ job[w].stage = "check" /\ UNCHANGED queue
      BY <1>7 DEF WorkerChecks, Working
    <3>2. job[w] \in Job /\ job'[w] = [job[w] EXCEPT !.stage = "prepare"]
      BY <1>1, <2>2, <3>1, JobFields DEF IInv, TypeInv
    <3>3. job'[w] \in Job /\ job'[w].effect = job[w].effect
      BY <3>1, <3>2 DEF Job
    <3> QED  BY <1>5, <2>2, <3>1, <3>3, JobIsSome
  <2> QED  BY <1>7, <2>1, <2>2 DEF WorkerChecks
<1>8. CASE Prepares(w)
  <2>1. PICK outcome \in Outcome : job' = [job EXCEPT ![w].stage = outcome]
    BY <1>8 DEF Prepares, Outcome
  <2>2. job[w] # NoJob /\ job[w].stage = "prepare" /\ UNCHANGED <<queue, events>>
    BY <1>8 DEF Prepares, Working
  <2>3. job[w] \in Job /\ job'[w] = [job[w] EXCEPT !.stage = outcome]
    BY <1>1, <2>1, <2>2, JobFields DEF IInv, TypeInv
  <2>4. job'[w] \in Job /\ job'[w].effect = job[w].effect
    BY <2>2, <2>3 DEF Job, Outcome
  <2> QED  BY <1>5, <2>2, <2>4, JobIsSome
<1>9. CASE Decides(w)
  <2>1. PICK outcome \in Outcome :
          job' = [job EXCEPT ![w] = [effect |-> @.effect, stage |-> "send",
                     kind |-> IF @.effect \in cancelled THEN "cancelled" ELSE outcome]]
    BY <1>9 DEF Decides, Outcome
  <2>2. job[w] # NoJob /\ UNCHANGED <<queue, events>>
    BY <1>9 DEF Decides, Working
  <2>3. job'[w] = [effect |-> job[w].effect, stage |-> "send",
                   kind |-> IF job[w].effect \in cancelled THEN "cancelled" ELSE outcome]
    BY <1>1, <2>1
  <2>4. job'[w] \in Job /\ job'[w].effect = job[w].effect
    BY <2>2, <2>3, JobFields DEF Job, Kind, IInv, TypeInv
  <2> QED  BY <1>5, <2>2, <2>4, JobIsSome
<1>10. CASE Publishes(w)
  <2>1. job[w].kind \in Kind /\ job[w] # NoJob /\ Sends(w, job[w].kind) /\ UNCHANGED queue
    BY <1>10, JobFields DEF Publishes, Working, IInv, TypeInv
  <2> QED  BY <1>6, <2>1
<1> QED  BY <1>4, <1>7, <1>8, <1>9, <1>10 DEF Work

LEMMA WorkKeeps ==
  ASSUME IInv, NEW w \in Workers, Work(w)
  PROVE  IInv'
<1>1. TypeInv' /\ UNCHANGED <<tickets, graph, inbox, task>>
  BY WorkTypes DEF IInv
<1>2. ASSUME NEW e \in Effects
      PROVE  Once(e)' /\ Tracked(e)' /\ Admitted(e)'
  <2>1. Once(e) /\ Tracked(e) /\ Admitted(e)
    BY DEF IInv, TicketInv
  <2>2. Once(e)' /\ (InQueue(e)' \/ InJob(e)' \/ InEvents(e)' <=> InQueue(e) \/ InJob(e) \/ InEvents(e))
    BY TicketMoves
  <2>3. (InInbox(e)' <=> InInbox(e)) /\ (Handled(e)' <=> Handled(e))
    BY <1>1 DEF InInbox, Polled, Handled
  <2>4. Tracked(e)'
    BY <1>1, <2>1, <2>2, <2>3 DEF Tracked, tickets
  <2>5. Admitted(e)'
    BY <1>1, <2>1 DEF Admitted, Polled, tickets, graph
  <2> QED  BY <2>2, <2>4, <2>5
<1> QED  BY <1>1, <1>2 DEF IInv, TicketInv

LEMMA PollKeeps ==
  ASSUME IInv, Poll
  PROVE  IInv'
<1>1. /\ task = NoTask /\ inbox = <<>> /\ events' = <<>>
      /\ inbox' = [k \in 1..Len(events) |-> [effect |-> events[k].effect, kind |-> Answer(events[k])]]
      /\ tokens' = tokens \ {events[k].effect : k \in 1..Len(events)}
      /\ UNCHANGED <<queue, job, cancelled, pending, waiting, graph, task, told>>
  BY DEF Poll, Handler
<1>2. events \in Seq(Event) /\ Len(events) \in Nat
  BY DEF IInv, TypeInv, LoaderTyped
<1>3. /\ inbox' \in Seq(Event) /\ Len(inbox') = Len(events)
      /\ \A k \in 1..Len(events) : /\ inbox'[k].effect = events[k].effect
                                   /\ inbox'[k].kind = Answer(events[k])
  <2>1. ASSUME NEW k \in 1..Len(events)
        PROVE  [effect |-> events[k].effect, kind |-> Answer(events[k])] \in Event
    <3>1. events[k] \in Event
      BY <1>2
    <3> QED  BY <3>1 DEF Event, Answer, Kind
  <2>2. inbox' \in Seq(Event)
    BY <1>1, <1>2, <2>1
  <2>3. Len(inbox') = Len(events)
    BY <1>1, <1>2
  <2>4. \A k \in 1..Len(events) : /\ inbox'[k].effect = events[k].effect
                                  /\ inbox'[k].kind = Answer(events[k])
    BY <1>1
  <2> QED  BY <2>2, <2>3, <2>4
<1>4. TypeInv'
  <2>1. LoaderTyped' /\ TaskTyped'
    BY <1>1, <1>3 DEF IInv, TypeInv, LoaderTyped, TaskTyped
  <2>2. TicketsTyped' /\ GraphTyped'
    BY <1>1 DEF IInv, TypeInv, TicketsTyped, GraphTyped, graph
  <2> QED  BY <2>1, <2>2 DEF TypeInv
<1>5. ASSUME NEW x \in Effects
      PROVE  Once(x)' /\ Tracked(x)' /\ Admitted(x)'
  <2>1. Once(x) /\ Tracked(x) /\ Admitted(x)
    BY DEF IInv, TicketInv
  <2>2. \A k \in Nat : (Polled(x, k)' <=> Sent(x, k)) /\ ~Polled(x, k) /\ ~Sent(x, k)'
    BY <1>1, <1>3 DEF Polled, Sent
  <2>3. (InInbox(x)' <=> InEvents(x)) /\ ~InInbox(x) /\ ~InEvents(x)'
    BY <2>2 DEF InInbox, InEvents
  <2>4. /\ \A k \in Nat : Queued(x, k)' <=> Queued(x, k)
        /\ \A w \in Workers : Held(x, w)' <=> Held(x, w)
        /\ InQueue(x)' <=> InQueue(x)
        /\ InJob(x)' <=> InJob(x)
        /\ ~Handled(x) /\ ~Handled(x)'
    BY <1>1 DEF Queued, Held, InQueue, InJob, Handled
  <2>5. Once(x)'
    BY <2>1, <2>2, <2>3, <2>4 DEF Once
  <2>6. x \in tokens' <=> x \in tokens /\ ~InEvents(x)
    <3>1. InEvents(x) <=> x \in {events[k].effect : k \in 1..Len(events)}
      BY <1>2 DEF InEvents, Sent
    <3> QED  BY <1>1, <3>1
  <2>7. Tracked(x)'
    BY <1>1, <2>1, <2>3, <2>4, <2>6 DEF Tracked, Once
  <2>8. ASSUME x \in tokens' \cup cancelled', NEW k \in Nat, Polled(x, k)'
        PROVE  inbox'[k].kind # "ready"
    <3>1. InEvents(x) /\ k \in 1..Len(events) /\ events[k].effect = x
      BY <2>2, <2>3, <2>8 DEF InInbox, Sent
    <3>2. x \in cancelled
      BY <1>1, <2>6, <2>8, <3>1
    <3> QED  BY <1>3, <3>1, <3>2 DEF Answer
  <2>9. Admitted(x)'
    BY <1>1, <2>1, <2>6, <2>8 DEF Admitted, graph
  <2> QED  BY <2>5, <2>7, <2>9
<1> QED  BY <1>4, <1>5 DEF IInv, TicketInv

LEMMA InitTickets == ASSUME Init PROVE TicketInv
<1> SUFFICES ASSUME NEW e \in Effects PROVE Once(e) /\ Tracked(e) /\ Admitted(e)
  BY DEF TicketInv
<1>1. \A k \in Nat : ~Queued(e, k) /\ ~Sent(e, k) /\ ~Polled(e, k)
  BY DEF Init, Queued, Sent, Polled
<1>2. \A w \in Workers : ~Held(e, w)
  BY DEF Init, Held
<1>3. ~InQueue(e) /\ ~InJob(e) /\ ~InEvents(e) /\ ~InInbox(e)
  BY <1>1, <1>2 DEF InQueue, InJob, InEvents, InInbox
<1>4. Once(e)
  BY <1>1, <1>2, <1>3 DEF Once
<1>5. Tracked(e)
  BY <1>3 DEF Init, Tracked
<1>6. Admitted(e)
  BY DEF Init, Admitted
<1> QED  BY <1>4, <1>5, <1>6

LEMMA StepKeeps ==
  ASSUME IInv, [Next]_vars
  PROVE  IInv'
<1>1. CASE UNCHANGED vars
  <2>1. TypeInv'
    BY <1>1 DEF IInv, TypeInv, LoaderTyped, TicketsTyped, GraphTyped, TaskTyped, vars, loader,
                tickets, graph
  <2>2. Apart
    BY <1>1 DEF Apart, Handled, vars, loader, tickets, graph
  <2> QED  BY <2>1, <2>2, ApartKeeps DEF IInv
<1>2. CASE Next
  <2>1. CASE \E w \in Workers : Work(w)
    BY <2>1, WorkKeeps
  <2>2. CASE \E e \in Effects : BeginCreate(e) \/ Cancel(e)
    BY <2>2, CreateKeeps, CancelKeeps
  <2>3. CASE (\E e \in Effects : Remove(e)) \/ Refresh \/ OutsideLinks \/ OutsideUnlinks
    BY <2>3, GraphKeeps
  <2>4. CASE Poll \/ HandleEvent
    BY <2>4, PollKeeps, HandleEventKeeps
  <2>5. CASE Activate \/ CreateNode \/ Rewire \/ Commit \/ DestroyNode \/ Restore
    BY <2>5, InsertionSteps, RollbackSteps, InsertionKeeps DEF IInv
  <2> QED  BY <1>2, <2>1, <2>2, <2>3, <2>4, <2>5 DEF Next, Steps
<1> QED  BY <1>1, <1>2

--------------------------------------------------------------------------------
(* What is promised.                                                       *)

\* Every ticket is in one place, tracked and admitted as IInv says, whichever
\* thread prepares it, however calls fail and whatever other clients do
\* (loader.rs, lifecycle.rs).
THEOREM Invariant == Spec => []IInv
<1>1. Init => IInv
  BY InitTypes, InitTickets DEF IInv
<1>2. IInv /\ [Next]_vars => IInv'
  BY StepKeeps
<1> QED  BY <1>1, <1>2, PTL DEF Spec

\* Every job, event, handler and link is one the code can be in; in particular
\* an insertion that fails half-way has a link to restore.
THEOREM TypeCorrect == Spec => []TypeInv
<1>1. IInv => TypeInv
  BY DEF IInv
<1> QED  BY <1>1, Invariant, PTL

\* Once cancel has accepted a ticket, its effect never appears in the graph, also
\* when a loader thread had published Ready just before (lifecycle.rs:273).
THEOREM CancellationIsFinal == Spec => []CancelledNeverActive
<1>1. ASSUME IInv, NEW e \in cancelled
      PROVE  place[e] = Absent
  <2>1. e \in Effects
    BY <1>1 DEF IInv, TypeInv, TicketsTyped
  <2> QED  BY <1>1, <2>1 DEF IInv, TicketInv, Admitted
<1>2. IInv => CancelledNeverActive
  BY <1>1 DEF CancelledNeverActive
<1> QED  BY <1>2, Invariant, PTL

\* No ticket gets lost between the queue, a loader thread, the events and the
\* inbox: one the desktop waits for is in exactly one of them (the part of
\* TicketsAnswered that needs no fairness).
NoTicketLost ==
    \A e \in waiting :
        /\ Once(e)
        /\ InQueue(e) \/ InJob(e) \/ InEvents(e) \/ InInbox(e)

\* Neither a failed call nor a panic of a loader thread, nor a cancellation in any
\* of its stages, drops a ticket or answers it twice (loader.rs, lifecycle.rs).
THEOREM TicketsKept == Spec => []NoTicketLost
<1>1. ASSUME IInv, NEW e \in waiting
      PROVE  Once(e) /\ (InQueue(e) \/ InJob(e) \/ InEvents(e) \/ InInbox(e))
  <2>1. e \in Effects
    BY <1>1 DEF IInv, TypeInv, TicketsTyped
  <2>2. Once(e) /\ Tracked(e)
    BY <1>1, <2>1 DEF IInv, TicketInv
  <2> QED  BY <1>1, <2>2 DEF Tracked
<1>2. IInv => NoTicketLost
  BY <1>1 DEF NoTicketLost
<1> QED  BY <1>2, Invariant, PTL

--------------------------------------------------------------------------------
(* The route.  That audio gets through is no matter of one effect: each was *)
(* inserted into a link that may itself join two effects, and those may be  *)
(* removed in any order.  The invariant keeps the whole route as a chain of *)
(* distinct nodes and, of each effect on it, where the two ends of the link *)
(* are that it replaced.                                                    *)

\* The route from Src to Dst as the handlers have built it: n nodes c, none
\* twice.  Each effect on it replaced a link that went from a node before it to
\* one after it, and what two effects replaced does not cross.
Spine(n, c, lo, hi, p) ==
    /\ n \in Nat /\ n >= 2 /\ c \in [1..n -> Node] /\ c[1] = Src /\ c[n] = Dst
    /\ \A i, j \in 1..n : c[i] = c[j] => i = j
    /\ lo \in [1..n -> 1..n] /\ hi \in [1..n -> 1..n]
    /\ \A i \in 2..(n-1) : lo[i] < i /\ i < hi[i] /\ p[c[i]] = <<c[lo[i]], c[hi[i]]>>
    /\ \A i, j \in 2..(n-1) : ~(lo[i] < lo[j] /\ lo[j] < hi[i] /\ hi[i] < hi[j])

Ties(n, c) == {<<c[i], c[i+1]>> : i \in 1..(n-1)}
Routed(ls, p, missing) == \E n, c, lo, hi : Spine(n, c, lo, hi, p) /\ Ties(n, c) \subseteq ls \cup missing
Freed(ls, e) == {l \in ls : e \notin {l[1], l[2]}}
Elsewhere(p, q, e) == \A x \in Effects : x # e => q[x] = p[x]

Below == {p \in Nat \X Nat : p[1] < p[2]}

LEMMA Smallest ==
  ASSUME NEW S \in SUBSET Nat, S # {}
  PROVE  \E x \in S : \A y \in S : x <= y
<1>1. IsWellFoundedOn(Below, Nat)
  BY NatLessThanWellFounded DEF OpToRel, Below
<1>2. PICK x \in S : \A y \in S : <<y, x>> \notin Below
  BY <1>1, WFMin
<1>3. ASSUME NEW y \in S, y < x
      PROVE  <<y, x>> \in Below
  <2>1. <<y, x>> \in Nat \X Nat /\ <<y, x>>[1] = y /\ <<y, x>>[2] = x
    OBVIOUS
  <2> QED  BY <1>3, <2>1 DEF Below
<1>4. ASSUME NEW y \in S
      PROVE  x <= y
  <2>1. ~(y < x) /\ x \in Nat /\ y \in Nat
    BY <1>2, <1>3
  <2> QED  BY <2>1
<1> QED  BY <1>4

LEMMA Inner ==
  ASSUME EffectConstants, NEW n, NEW c, NEW lo, NEW hi, NEW p, Spine(n, c, lo, hi, p), NEW i \in 2..(n-1)
  PROVE  i \in 1..n /\ c[i] \in Effects /\ p[c[i]] \notin {Absent, Standalone}
<1>0. n \in Nat /\ n >= 2 /\ p[c[i]] = <<c[lo[i]], c[hi[i]]>>
  BY DEF Spine
<1>1. n \in Nat /\ n >= 2 /\ i \in 1..n /\ i # 1 /\ i # n /\ 1 \in 1..n /\ n \in 1..n
  BY <1>0
<1>2. c[i] \in Node /\ c[i] # c[1] /\ c[i] # c[n]
  BY <1>1 DEF Spine
<1>3. c[i] \in Effects
  BY <1>2 DEF Spine, Node
<1>4. \A a, b : <<a, b>> \notin {Absent, Standalone}
  BY DEF Absent, Standalone
<1> QED  BY <1>0, <1>1, <1>3, <1>4

\* What happens to the place of an effect that is not on the route.
LEMMA SpineOther ==
  ASSUME EffectConstants, NEW n, NEW c, NEW lo, NEW hi, NEW p, Spine(n, c, lo, hi, p),
         NEW q, NEW e, Elsewhere(p, q, e), \A i \in 2..(n-1) : c[i] # e
  PROVE  Spine(n, c, lo, hi, q)
<1>1. \A i \in 2..(n-1) : q[c[i]] = p[c[i]]
  BY Inner DEF Elsewhere
<1> QED  BY <1>1 DEF Spine

LEMMA TiesOf ==
  ASSUME NEW n, NEW c, NEW lo, NEW hi, NEW p, Spine(n, c, lo, hi, p), NEW k \in 1..(n-1), NEW i \in 1..(n-1)
  PROVE  <<c[i], c[i+1]>> = <<c[k], c[k+1]>> => i = k
<1>1. i \in 1..n /\ k \in 1..n
  BY DEF Spine
<1> QED  BY <1>1 DEF Spine

\* An effect that replaces a link of the route lengthens it...
LEMMA Lengthened ==
  ASSUME EffectConstants, NEW n, NEW c, NEW lo, NEW hi, NEW p, Spine(n, c, lo, hi, p),
         NEW k \in 1..(n-1), NEW e \in Effects, \A i \in 1..n : c[i] # e,
         NEW q, Elsewhere(p, q, e), q[e] = <<c[k], c[k+1]>>
  PROVE  \E m, d, low, high :
           /\ Spine(m, d, low, high, q)
           /\ Ties(m, d) \subseteq (Ties(n, c) \ {<<c[k], c[k+1]>>}) \cup {<<c[k], e>>, <<e, c[k+1]>>}
<1> DEFINE Old(i) == IF i <= k THEN i ELSE i - 1
           New(i) == IF i <= k THEN i ELSE i + 1
           m == n + 1
           d == [i \in 1..m |-> IF i = k + 1 THEN e ELSE c[Old(i)]]
           low == [i \in 1..m |-> IF i = k + 1 THEN k ELSE New(lo[Old(i)])]
           high == [i \in 1..m |-> IF i = k + 1 THEN k + 2 ELSE New(hi[Old(i)])]
<1>1. n \in Nat /\ n >= 2 /\ k \in Nat /\ 1 <= k /\ k + 1 <= n /\ m \in Nat
  BY DEF Spine
<1>2. /\ c \in [1..n -> Node] /\ c[1] = Src /\ c[n] = Dst
      /\ \A i, j \in 1..n : c[i] = c[j] => i = j
      /\ \A i \in 1..n : lo[i] \in 1..n /\ hi[i] \in 1..n
      /\ \A i \in 2..(n-1) : lo[i] < i /\ i < hi[i] /\ p[c[i]] = <<c[lo[i]], c[hi[i]]>>
      /\ \A i, j \in 2..(n-1) : ~(lo[i] < lo[j] /\ lo[j] < hi[i] /\ hi[i] < hi[j])
  BY DEF Spine
<1>3. \A i \in 1..m : i # k + 1 => Old(i) \in 1..n /\ New(Old(i)) = i
  BY <1>1
<1>4. \A i \in 1..n : New(i) \in 1..m /\ New(i) # k + 1 /\ Old(New(i)) = i
  BY <1>1
<1>5. \A i, j \in 1..n : (New(i) < New(j) <=> i < j)
                         /\ (k < New(i) <=> k + 1 <= i) /\ (New(i) < k + 2 <=> i <= k)
  BY <1>1
<1>6. \A i \in 2..(m-1) : i \in 1..m /\ (i # k + 1 => Old(i) \in 2..(n-1))
  BY <1>1
<1>7. \A i \in 1..m : /\ d[i] = IF i = k + 1 THEN e ELSE c[Old(i)]
                      /\ low[i] = IF i = k + 1 THEN k ELSE New(lo[Old(i)])
                      /\ high[i] = IF i = k + 1 THEN k + 2 ELSE New(hi[Old(i)])
  OBVIOUS
<1>8. d \in [1..m -> Node]
  BY <1>2, <1>3 DEF Node
<1>9. low \in [1..m -> 1..m] /\ high \in [1..m -> 1..m]
  BY <1>1, <1>2, <1>3, <1>4
<1>10. d[1] = Src /\ d[m] = Dst
  BY <1>1, <1>2, <1>7
<1>11. \A i \in 1..n : d[New(i)] = c[i]
  BY <1>4, <1>7
<1>12. d[k] = c[k] /\ d[k+1] = e /\ d[k+2] = c[k+1]
  BY <1>1, <1>7
<1> HIDE DEF d, low, high, Old, New
<1>13. ASSUME NEW i \in 1..m, NEW j \in 1..m, d[i] = d[j] PROVE i = j
  <2>1. CASE i = k + 1 \/ j = k + 1
    BY <1>3, <1>7, <1>13, <2>1
  <2>2. CASE i # k + 1 /\ j # k + 1
    <3>1. Old(i) \in 1..n /\ Old(j) \in 1..n /\ c[Old(i)] = c[Old(j)]
      BY <1>3, <1>7, <1>13, <2>2
    <3>2. Old(i) = Old(j)
      BY <1>2, <3>1
    <3> QED  BY <1>3, <2>2, <3>2
  <2> QED  BY <2>1, <2>2
<1>14. ASSUME NEW i \in 2..(m-1)
       PROVE  low[i] < i /\ i < high[i] /\ q[d[i]] = <<d[low[i]], d[high[i]]>>
  <2>1. CASE i = k + 1
    <3>1. low[i] = k /\ high[i] = k + 2 /\ d[i] = e
      BY <1>6, <1>7, <2>1
    <3> QED  BY <1>1, <1>12, <2>1, <3>1
  <2>2. CASE i # k + 1
    <3>1. /\ Old(i) \in 2..(n-1) /\ Old(i) \in 1..n /\ New(Old(i)) = i /\ d[i] = c[Old(i)]
          /\ low[i] = New(lo[Old(i)]) /\ high[i] = New(hi[Old(i)])
      BY <1>3, <1>6, <1>7, <2>2
    <3>2. /\ lo[Old(i)] \in 1..n /\ hi[Old(i)] \in 1..n
          /\ lo[Old(i)] < Old(i) /\ Old(i) < hi[Old(i)]
          /\ p[c[Old(i)]] = <<c[lo[Old(i)]], c[hi[Old(i)]]>>
      BY <1>2, <3>1
    <3>3. low[i] < i /\ i < high[i]
      BY <1>5, <3>1, <3>2
    <3>4. d[low[i]] = c[lo[Old(i)]] /\ d[high[i]] = c[hi[Old(i)]]
      BY <1>11, <3>1, <3>2
    <3>5. q[d[i]] = p[c[Old(i)]]
      BY <3>1, Inner DEF Elsewhere
    <3> QED  BY <3>2, <3>3, <3>4, <3>5
  <2> QED  BY <2>1, <2>2
<1>15. ASSUME NEW i \in 2..(m-1), NEW j \in 2..(m-1)
       PROVE  ~(low[i] < low[j] /\ low[j] < high[i] /\ high[i] < high[j])
  <2>1. CASE i = k + 1 /\ j = k + 1
    BY <1>1, <1>6, <1>7, <2>1
  <2>2. CASE i = k + 1 /\ j # k + 1
    <3>1. /\ low[i] = k /\ high[i] = k + 2 /\ low[j] = New(lo[Old(j)])
          /\ Old(j) \in 1..n /\ lo[Old(j)] \in 1..n
      BY <1>2, <1>3, <1>6, <1>7, <2>2
    <3>2. New(lo[Old(j)]) \in 1..m /\ New(lo[Old(j)]) # k + 1
      BY <1>4, <3>1
    <3> QED  BY <1>1, <3>1, <3>2
  <2>3. CASE i # k + 1 /\ j = k + 1
    <3>1. /\ low[j] = k /\ high[j] = k + 2 /\ high[i] = New(hi[Old(i)])
          /\ Old(i) \in 1..n /\ hi[Old(i)] \in 1..n
      BY <1>2, <1>3, <1>6, <1>7, <2>3
    <3>2. New(hi[Old(i)]) \in 1..m /\ New(hi[Old(i)]) # k + 1
      BY <1>4, <3>1
    <3> QED  BY <1>1, <3>1, <3>2
  <2>4. CASE i # k + 1 /\ j # k + 1
    <3>1. /\ Old(i) \in 2..(n-1) /\ Old(j) \in 2..(n-1) /\ Old(i) \in 1..n /\ Old(j) \in 1..n
          /\ low[i] = New(lo[Old(i)]) /\ high[i] = New(hi[Old(i)])
          /\ low[j] = New(lo[Old(j)]) /\ high[j] = New(hi[Old(j)])
      BY <1>3, <1>6, <1>7, <2>4
    <3>2. lo[Old(i)] \in 1..n /\ hi[Old(i)] \in 1..n /\ lo[Old(j)] \in 1..n /\ hi[Old(j)] \in 1..n
      BY <1>2, <3>1
    <3>3. ~(lo[Old(i)] < lo[Old(j)] /\ lo[Old(j)] < hi[Old(i)] /\ hi[Old(i)] < hi[Old(j)])
      BY <1>2, <3>1
    <3> QED  BY <1>5, <3>1, <3>2, <3>3
  <2> QED  BY <2>1, <2>2, <2>3, <2>4
<1>16. Spine(m, d, low, high, q)
  <2>1. m >= 2
    BY <1>1
  <2> HIDE DEF m
  <2> QED  BY <1>1, <1>8, <1>9, <1>10, <1>13, <1>14, <1>15, <2>1 DEF Spine
<1>17. ASSUME NEW i \in 1..(m-1)
       PROVE  <<d[i], d[i+1]>> \in (Ties(n, c) \ {<<c[k], c[k+1]>>}) \cup {<<c[k], e>>, <<e, c[k+1]>>}
  <2>1. CASE i = k
    BY <1>12, <2>1
  <2>2. CASE i = k + 1
    <3>1. i + 1 = k + 2
      BY <1>1, <2>2
    <3> QED  BY <1>12, <2>2, <3>1
  <2>3. CASE i # k /\ i # k + 1
    <3>1. i \in 1..m /\ i + 1 \in 1..m /\ i + 1 # k + 1
      BY <1>1, <2>3
    <3>2. Old(i) \in 1..(n-1) /\ Old(i) # k /\ Old(i+1) = Old(i) + 1
      BY <1>1, <2>3 DEF Old
    <3>3. d[i] = c[Old(i)] /\ d[i+1] = c[Old(i) + 1]
      BY <1>7, <2>3, <3>1, <3>2
    <3>4. <<d[i], d[i+1]>> \in Ties(n, c)
      BY <3>2, <3>3 DEF Ties
    <3>5. <<d[i], d[i+1]>> # <<c[k], c[k+1]>>
      BY <3>2, <3>3, TiesOf
    <3> QED  BY <3>4, <3>5
  <2> QED  BY <2>1, <2>2, <2>3
<1> QED  BY <1>16, <1>17 DEF Ties

\* ...and one that goes takes with it what had been put into its links.
LEMMA Shortcut ==
  ASSUME EffectConstants, NEW n, NEW c, NEW lo, NEW hi, NEW p, Spine(n, c, lo, hi, p),
         NEW k \in 2..(n-1), NEW q, Elsewhere(p, q, c[k])
  PROVE  \E m, d, low, high :
           Spine(m, d, low, high, q) /\ Ties(m, d) \subseteq Freed(Ties(n, c), c[k]) \cup {p[c[k]]}
<1> DEFINE a == lo[k]
           b == hi[k]
           gone == b - a - 1
           Old(i) == IF i <= a THEN i ELSE i + gone
           New(i) == IF i <= a THEN i ELSE i - gone
           Stays(i) == i <= a \/ b <= i
           m == n - gone
           d == [i \in 1..m |-> c[Old(i)]]
           low == [i \in 1..m |-> IF i \in 2..(m-1) THEN New(lo[Old(i)]) ELSE 1]
           high == [i \in 1..m |-> IF i \in 2..(m-1) THEN New(hi[Old(i)]) ELSE 1]
<1>2. /\ c \in [1..n -> Node] /\ c[1] = Src /\ c[n] = Dst
      /\ \A i, j \in 1..n : c[i] = c[j] => i = j
      /\ \A i \in 1..n : lo[i] \in 1..n /\ hi[i] \in 1..n
      /\ \A i \in 2..(n-1) : lo[i] < i /\ i < hi[i] /\ p[c[i]] = <<c[lo[i]], c[hi[i]]>>
      /\ \A i, j \in 2..(n-1) : ~(lo[i] < lo[j] /\ lo[j] < hi[i] /\ hi[i] < hi[j])
      /\ n \in Nat
  BY DEF Spine
<1>1. /\ n \in Nat /\ k \in 1..n /\ a \in 1..n /\ b \in 1..n /\ a < k /\ k < b
      /\ gone \in Nat /\ m \in Nat /\ m >= 2 /\ gone >= 1
  BY <1>2
<1>3. \A i \in 1..m : Old(i) \in 1..n /\ Stays(Old(i)) /\ Old(i) # k /\ New(Old(i)) = i
  BY <1>1
<1>4. \A i \in 1..n : Stays(i) => New(i) \in 1..m /\ Old(New(i)) = i
  BY <1>1
<1>5. \A i, j \in 1..n : Stays(i) /\ Stays(j) => (New(i) < New(j) <=> i < j)
  BY <1>1
<1>6. \A i \in 2..(m-1) : i \in 1..m /\ Old(i) \in 2..(n-1)
  BY <1>1
<1>7. \A i \in 1..m : d[i] = c[Old(i)]
  OBVIOUS
<1>8. \A i \in 2..(m-1) : low[i] = New(lo[Old(i)]) /\ high[i] = New(hi[Old(i)])
  BY <1>6
<1>9. ASSUME NEW i \in 2..(n-1), Stays(i)
      PROVE  Stays(lo[i]) /\ Stays(hi[i])
  <2>1. /\ i \in 1..n /\ lo[i] \in 1..n /\ hi[i] \in 1..n /\ lo[i] < i /\ i < hi[i]
        /\ ~(lo[i] < a /\ a < hi[i] /\ hi[i] < b)
        /\ ~(a < lo[i] /\ lo[i] < b /\ b < hi[i])
    BY <1>2
  <2> QED  BY <1>1, <1>9, <2>1
<1>10. \A i \in 2..(m-1) : /\ lo[Old(i)] \in 1..n /\ Stays(lo[Old(i)])
                           /\ hi[Old(i)] \in 1..n /\ Stays(hi[Old(i)])
  BY <1>2, <1>3, <1>6, <1>9
<1>11. low \in [1..m -> 1..m] /\ high \in [1..m -> 1..m]
  <2>1. 1 \in 1..m
    BY <1>1
  <2> QED  BY <1>4, <1>10, <2>1
<1>12. d \in [1..m -> Node]
  BY <1>2, <1>3
<1>13. d[1] = Src /\ d[m] = Dst
  <2>1. 1 \in 1..m /\ m \in 1..m /\ Old(1) = 1 /\ Old(m) = n
    BY <1>1
  <2> QED  BY <1>2, <1>7, <2>1
<1>14. \A i \in 1..n : Stays(i) => d[New(i)] = c[i]
  BY <1>4, <1>7
<1>15. d[a] = c[a] /\ d[a+1] = c[b] /\ Old(a) = a /\ Old(a+1) = b
  <2>1. a \in 1..m /\ a + 1 \in 1..m /\ Old(a) = a /\ Old(a+1) = b
    BY <1>1
  <2> HIDE DEF d, Old
  <2> QED  BY <1>7, <2>1
<1>16. p[c[k]] = <<c[a], c[b]>>
  BY <1>2
<1> HIDE DEF d, low, high, Old, New, Stays
<1>17. ASSUME NEW i \in 1..m, NEW j \in 1..m, d[i] = d[j] PROVE i = j
  <2>1. Old(i) \in 1..n /\ Old(j) \in 1..n /\ c[Old(i)] = c[Old(j)]
    BY <1>3, <1>7, <1>17
  <2>2. Old(i) = Old(j)
    BY <1>2, <2>1
  <2> QED  BY <1>3, <2>2
<1>18. ASSUME NEW i \in 2..(m-1)
       PROVE  low[i] < i /\ i < high[i] /\ q[d[i]] = <<d[low[i]], d[high[i]]>>
  <2>1. /\ Old(i) \in 2..(n-1) /\ Old(i) \in 1..n /\ Stays(Old(i)) /\ New(Old(i)) = i /\ d[i] = c[Old(i)]
        /\ low[i] = New(lo[Old(i)]) /\ high[i] = New(hi[Old(i)]) /\ Old(i) # k
    BY <1>3, <1>6, <1>7, <1>8
  <2>2. /\ lo[Old(i)] < Old(i) /\ Old(i) < hi[Old(i)]
        /\ p[c[Old(i)]] = <<c[lo[Old(i)]], c[hi[Old(i)]]>>
    BY <1>2, <2>1
  <2>3. low[i] < i /\ i < high[i]
    BY <1>5, <1>10, <2>1, <2>2
  <2>4. d[low[i]] = c[lo[Old(i)]] /\ d[high[i]] = c[hi[Old(i)]]
    BY <1>10, <1>14, <2>1
  <2>5. q[d[i]] = p[c[Old(i)]]
    <3>1. c[Old(i)] \in Effects /\ c[Old(i)] # c[k]
      BY <1>1, <1>2, <2>1, Inner
    <3> QED  BY <2>1, <3>1 DEF Elsewhere
  <2> QED  BY <2>2, <2>3, <2>4, <2>5
<1>19. ASSUME NEW i \in 2..(m-1), NEW j \in 2..(m-1)
       PROVE  ~(low[i] < low[j] /\ low[j] < high[i] /\ high[i] < high[j])
  <2>1. /\ Old(i) \in 2..(n-1) /\ Old(j) \in 2..(n-1)
        /\ low[i] = New(lo[Old(i)]) /\ high[i] = New(hi[Old(i)])
        /\ low[j] = New(lo[Old(j)]) /\ high[j] = New(hi[Old(j)])
    BY <1>6, <1>8
  <2>2. ~(lo[Old(i)] < lo[Old(j)] /\ lo[Old(j)] < hi[Old(i)] /\ hi[Old(i)] < hi[Old(j)])
    BY <1>2, <2>1
  <2> QED  BY <1>5, <1>10, <2>1, <2>2
<1>20. Spine(m, d, low, high, q)
  <2> HIDE DEF m
  <2> QED  BY <1>1, <1>11, <1>12, <1>13, <1>17, <1>18, <1>19 DEF Spine
<1>21. ASSUME NEW i \in 1..(m-1)
       PROVE  <<d[i], d[i+1]>> \in Freed(Ties(n, c), c[k]) \cup {p[c[k]]}
  <2>1. CASE i = a
    BY <1>15, <1>16, <2>1
  <2>2. CASE i # a
    <3>1. i \in 1..m /\ i + 1 \in 1..m
      BY <1>1
    <3>2. Old(i) \in 1..(n-1) /\ Old(i+1) = Old(i) + 1
      BY <1>1, <2>2 DEF Old
    <3>3. d[i] = c[Old(i)] /\ d[i+1] = c[Old(i) + 1]
      BY <1>7, <3>1, <3>2
    <3>4. c[Old(i)] # c[k] /\ c[Old(i) + 1] # c[k]
      BY <1>1, <1>2, <1>3, <3>1, <3>2
    <3> QED  BY <3>2, <3>3, <3>4 DEF Ties, Freed
  <2> QED  BY <2>1, <2>2
<1> QED  BY <1>20, <1>21 DEF Ties

LEMMA RoutedMore ==
  ASSUME NEW ls, NEW p, NEW missing, Routed(ls, p, missing),
         NEW more, NEW wide, ls \cup missing \subseteq more \cup wide
  PROVE  Routed(more, p, wide)
BY DEF Routed

\* An effect that stands alone is not on the route.
LEMMA OffRoute ==
  ASSUME EffectConstants, NEW ls, NEW p, NEW missing, Routed(ls, p, missing),
         NEW e \in Effects, p[e] \in {Absent, Standalone}, NEW q, Elsewhere(p, q, e)
  PROVE  Routed(Freed(ls, e), q, missing)
<1>1. PICK n, c, lo, hi : Spine(n, c, lo, hi, p) /\ Ties(n, c) \subseteq ls \cup missing
  BY DEF Routed
<1>2. \A i \in 2..(n-1) : c[i] # e
  BY <1>1, Inner
<1>3. \A i \in 1..n : c[i] # e
  <2>1. n \in Nat /\ c[1] # e /\ c[n] # e
    BY <1>1 DEF Spine, EffectConstants
  <2>2. \A i \in 1..n : i = 1 \/ i = n \/ i \in 2..(n-1)
    BY <2>1
  <2> QED  BY <1>2, <2>1, <2>2
<1>4. Spine(n, c, lo, hi, q)
  BY <1>1, <1>2, SpineOther
<1>5. ASSUME NEW i \in 1..(n-1) PROVE <<c[i], c[i+1]>> \in Freed(ls, e) \cup missing
  <2>1. i \in 1..n /\ i + 1 \in 1..n
    BY <1>1 DEF Spine
  <2>2. <<c[i], c[i+1]>> \in ls \cup missing
    BY <1>1 DEF Ties
  <2> QED  BY <1>3, <2>1, <2>2 DEF Freed
<1>6. Ties(n, c) \subseteq Freed(ls, e) \cup missing
  BY <1>5 DEF Ties
<1> QED  BY <1>4, <1>6 DEF Routed

LEMMA Spliced ==
  ASSUME EffectConstants, NEW ls, NEW p, NEW l \in Link, Routed(ls, p, {l}),
         NEW e \in Effects, p[e] \in {Absent, Standalone}, <<l[1], e>> \in ls, <<e, l[2]>> \in ls,
         NEW q, Elsewhere(p, q, e), q[e] = l
  PROVE  Routed(ls, q, {})
<1>1. PICK n, c, lo, hi : Spine(n, c, lo, hi, p) /\ Ties(n, c) \subseteq ls \cup {l}
  BY DEF Routed
<1>2. \A i \in 2..(n-1) : c[i] # e
  BY <1>1, Inner
<1>3. \A i \in 1..n : c[i] # e
  <2>1. n \in Nat /\ c[1] # e /\ c[n] # e
    BY <1>1 DEF Spine, EffectConstants
  <2>2. \A i \in 1..n : i = 1 \/ i = n \/ i \in 2..(n-1)
    BY <2>1
  <2> QED  BY <1>2, <2>1, <2>2
<1>4. CASE l \in Ties(n, c)
  <2>1. PICK k \in 1..(n-1) : l = <<c[k], c[k+1]>>
    BY <1>4 DEF Ties
  <2>2. PICK m, d, low, high :
          /\ Spine(m, d, low, high, q)
          /\ Ties(m, d) \subseteq (Ties(n, c) \ {<<c[k], c[k+1]>>}) \cup {<<c[k], e>>, <<e, c[k+1]>>}
    <3>1. q[e] = <<c[k], c[k+1]>>
      BY <2>1
    <3> QED  BY <1>1, <1>3, <3>1, Lengthened
  <2>3. <<c[k], e>> \in ls /\ <<e, c[k+1]>> \in ls
    BY <2>1
  <2>4. Ties(m, d) \subseteq ls \cup {}
    BY <1>1, <2>1, <2>2, <2>3
  <2> QED  BY <2>2, <2>4 DEF Routed
<1>5. CASE l \notin Ties(n, c)
  <2>1. Spine(n, c, lo, hi, q)
    BY <1>1, <1>2, SpineOther
  <2>2. Ties(n, c) \subseteq ls \cup {}
    BY <1>1, <1>5
  <2> QED  BY <2>1, <2>2 DEF Routed
<1> QED  BY <1>4, <1>5

LEMMA Unspliced ==
  ASSUME EffectConstants, NEW ls, NEW p, Routed(ls, p, {}), NEW e \in Effects, NEW q, Elsewhere(p, q, e)
  PROVE  Routed(Freed(ls, e), q, {p[e]})
<1>1. PICK n, c, lo, hi : Spine(n, c, lo, hi, p) /\ Ties(n, c) \subseteq ls
  BY DEF Routed
<1>2. CASE \E k \in 2..(n-1) : c[k] = e
  <2>1. PICK k \in 2..(n-1) : c[k] = e
    BY <1>2
  <2>2. PICK m, d, low, high :
          Spine(m, d, low, high, q) /\ Ties(m, d) \subseteq Freed(Ties(n, c), c[k]) \cup {p[c[k]]}
    <3>1. Elsewhere(p, q, c[k])
      BY <2>1
    <3> QED  BY <1>1, <3>1, Shortcut
  <2>3. Ties(m, d) \subseteq Freed(ls, e) \cup {p[e]}
    BY <1>1, <2>1, <2>2 DEF Freed
  <2> QED  BY <2>2, <2>3 DEF Routed
<1>3. CASE \A k \in 2..(n-1) : c[k] # e
  <2>1. Spine(n, c, lo, hi, q)
    BY <1>1, <1>3, SpineOther
  <2>2. \A i \in 1..n : c[i] # e
    <3>1. n \in Nat /\ c[1] # e /\ c[n] # e
      BY <1>1 DEF Spine, EffectConstants
    <3>2. \A i \in 1..n : i = 1 \/ i = n \/ i \in 2..(n-1)
      BY <3>1
    <3> QED  BY <1>3, <3>1, <3>2
  <2>3. ASSUME NEW i \in 1..(n-1) PROVE <<c[i], c[i+1]>> \in Freed(ls, e)
    <3>1. i \in 1..n /\ i + 1 \in 1..n
      BY <1>1 DEF Spine
    <3>2. <<c[i], c[i+1]>> \in ls
      BY <1>1 DEF Ties
    <3> QED  BY <2>2, <3>1, <3>2 DEF Freed
  <2>4. Ties(n, c) \subseteq Freed(ls, e) \cup {p[e]}
    BY <2>3 DEF Ties
  <2> QED  BY <2>1, <2>4 DEF Routed
<1> QED  BY <1>2, <1>3

\* Who hears a node of the route hears the next one, and so the last one.
LEMMA RouteCarries ==
  ASSUME NEW p, Routed(links, p, {}), NEW S, Holds(S)
  PROVE  Dst \in S
<1>1. PICK n, c, lo, hi : Spine(n, c, lo, hi, p) /\ Ties(n, c) \subseteq links
  BY DEF Routed
<1>2. n \in Nat /\ n >= 1 /\ c[1] = Src /\ c[n] = Dst
  BY <1>1 DEF Spine
<1>3. ASSUME NEW i \in 1..(n-1), c[i] \in S PROVE c[i+1] \in S
  <2>1. <<c[i], c[i+1]>> \in links
    BY <1>1 DEF Ties
  <2>2. <<c[i], c[i+1]>>[1] = c[i] /\ <<c[i], c[i+1]>>[2] = c[i+1]
    OBVIOUS
  <2> QED  BY <1>3, <2>1, <2>2 DEF Holds
<1> DEFINE bad == {i \in 1..n : c[i] \notin S}
<1>4. SUFFICES ASSUME bad # {} PROVE FALSE
  <2>1. n \in 1..n
    BY <1>2
  <2> QED  BY <1>2, <1>4, <2>1
<1>5. PICK i \in bad : \A k \in bad : i <= k
  <2>1. bad \in SUBSET Nat
    OBVIOUS
  <2> HIDE DEF bad
  <2> QED  BY <1>4, <2>1, Smallest
<1>6. i # 1
  BY <1>2 DEF Holds
<1>7. i - 1 \in 1..(n-1) /\ i - 1 \in 1..n /\ ~(i <= i - 1) /\ (i - 1) + 1 = i
  BY <1>2, <1>6
<1>8. c[i-1] \in S
  BY <1>5, <1>7
<1> QED  BY <1>3, <1>7, <1>8

--------------------------------------------------------------------------------
Live == links \ blocked
Opened ==
    /\ task # NoTask
    /\ \/ task.step \in {"first", "second", "commit", "restore"}
       \/ task.kind = "insert" /\ task.step = "destroy"
Gap == IF Opened THEN {task.target} ELSE {}

\* An effect with a ticket has no place yet, and keeps none while another one
\* is worked on.
Unplaced == \A e \in DOMAIN pending : place[e] = Absent /\ (task # NoTask => task.effect # e)

Placed == task # NoTask =>
    /\ task.kind = "insert" /\ task.step \in {"activate", "publish"} => place[task.effect] = Absent
    /\ task.kind = "insert" /\ task.step \in {"cut", "first", "second", "commit", "destroy"}
         => place[task.effect] = Standalone
    /\ task.kind = "remove" /\ task.step = "destroy" => place[task.effect] = task.target

Joined == task # NoTask =>
    /\ task.step \in {"second", "commit"} => <<task.target[1], task.effect>> \in Live
    /\ task.step = "commit" => <<task.effect, task.target[2]>> \in Live
    /\ task.step = "restore" => view \subseteq links

RouteInv == Unplaced /\ Placed /\ (~told => Joined /\ Routed(Live, place, Gap))

LEMMA RouteBegins == ASSUME Init PROVE RouteInv
<1> DEFINE c == [i \in 1..2 |-> IF i = 1 THEN Src ELSE Dst]
           one == [i \in 1..2 |-> 1]
<1>1. Spine(2, c, one, one, place)
  <2>1. c \in [1..2 -> Node] /\ c[1] = Src /\ c[2] = Dst
    BY DEF Node
  <2>2. \A i, j \in 1..2 : c[i] = c[j] => i = j
    BY EffectConstants DEF EffectConstants
  <2>3. one \in [1..2 -> 1..2]
    OBVIOUS
  <2>4. 2..(2-1) = {}
    OBVIOUS
  <2> HIDE DEF c, one
  <2> QED  BY <2>1, <2>2, <2>3, <2>4 DEF Spine
<1>2. Ties(2, c) \subseteq {<<Src, Dst>>}
  BY DEF Ties
<1>3. Live = {<<Src, Dst>>} /\ Gap = {}
  BY DEF Init, Live, Gap, Opened
<1>4. Routed(Live, place, Gap)
  BY <1>1, <1>2, <1>3 DEF Routed
<1>5. Unplaced /\ Placed /\ Joined
  BY DEF Init, Unplaced, Placed, Joined
<1> QED  BY <1>4, <1>5 DEF RouteInv

\* Neither the loader nor a poll nor a cancellation touches the graph.
LEMMA RouteUntouched ==
  ASSUME RouteInv, UNCHANGED <<graph, task, told, pending>>
  PROVE  RouteInv'
BY DEF RouteInv, Unplaced, Placed, Joined, Live, Gap, Opened, graph

LEMMA RebuiltLive ==
  ASSUME NEW ls, Rebuilt(ls)
  PROVE  Live' = ls \ blocked' /\ view' = links'
BY DEF Rebuilt, Live

\* Between the handlers.
LEMMA IdleKeepsRoute ==
  ASSUME IInv, RouteInv,
         HandleEvent \/ Refresh \/ \E e \in Effects : BeginCreate(e) \/ Remove(e)
  PROVE  RouteInv'
<1>1. task = NoTask /\ UNCHANGED <<told, place>> /\ Gap = {} /\ DOMAIN pending \subseteq Effects
  BY DEF HandleEvent, Refresh, BeginCreate, Remove, Handler, Gap, Opened, graph, IInv, TypeInv, TicketsTyped
<1>2. Live' = Live
  <2>1. UNCHANGED blocked /\ (UNCHANGED links \/ Rebuilt(links))
    BY DEF HandleEvent, Refresh, BeginCreate, Remove, graph
  <2> QED  BY <2>1, RebuiltLive DEF Live
<1>3. CASE HandleEvent
  <2>1. CASE UNCHANGED task /\ DOMAIN pending' \subseteq DOMAIN pending
    BY <1>1, <1>2, <2>1 DEF RouteInv, Unplaced, Placed, Joined, Gap, Opened
  <2>2. CASE UNCHANGED task /\ ~(DOMAIN pending' \subseteq DOMAIN pending)
    BY <1>3, <2>2 DEF HandleEvent
  <2>3. CASE ~UNCHANGED task
    <3> DEFINE e == Head(inbox).effect
    <3>1. /\ task' = [kind |-> "insert", effect |-> e, target |-> pending[e], step |-> "activate"]
          /\ pending' = [x \in DOMAIN pending \ {e} |-> pending[x]] /\ inbox # <<>>
      BY <1>3, <2>3 DEF HandleEvent
    <3>2. place[e] = Absent
      <4>1. inbox[1] \in Event /\ Head(inbox) = inbox[1] /\ 1 \in 1..Len(inbox)
        BY <3>1, Shortened DEF IInv, TypeInv, LoaderTyped
      <4>2. e \in Effects /\ Polled(e, 1) /\ ~Handled(e)
        BY <1>1, <4>1 DEF Event, Polled, Handled
      <4>3. e \in DOMAIN pending
        BY <4>2 DEF IInv, TicketInv, Tracked, InInbox
      <4> QED  BY <4>3 DEF RouteInv, Unplaced
    <3>3. /\ task'.kind = "insert" /\ task'.step = "activate" /\ task'.effect = e
          /\ DOMAIN pending' = DOMAIN pending \ {e}
      BY <3>1
    <3> HIDE DEF e
    <3>4. Gap' = {}
      BY <3>3 DEF Gap, Opened
    <3>5. Unplaced'
      BY <1>1, <3>3 DEF RouteInv, Unplaced
    <3>6. Placed' /\ Joined'
      BY <1>1, <3>2, <3>3 DEF Placed, Joined
    <3> QED  BY <1>1, <1>2, <3>4, <3>5, <3>6 DEF RouteInv
  <2> QED  BY <2>1, <2>2, <2>3
<1>4. CASE Refresh
  BY <1>1, <1>2, <1>4 DEF Refresh, RouteInv, Unplaced, Placed, Joined, Gap, Opened, tickets
<1>5. CASE \E e \in Effects : BeginCreate(e)
  <2>1. PICK e \in Effects : place[e] = Absent /\ DOMAIN pending' = DOMAIN pending \cup {e} /\ UNCHANGED task
    BY <1>5 DEF BeginCreate
  <2> QED  BY <1>1, <1>2, <2>1 DEF RouteInv, Unplaced, Placed, Joined, Gap, Opened
<1>6. CASE \E e \in Effects : Remove(e)
  <2>1. PICK e \in Effects :
          /\ place[e] # Absent /\ UNCHANGED pending
          /\ task' = [kind |-> "remove", effect |-> e, target |-> place[e], step |-> "destroy"]
    BY <1>6 DEF Remove, tickets
  <2>2. task'.kind = "remove" /\ task'.effect = e /\ task'.target = place[e] /\ task'.step = "destroy"
    BY <2>1
  <2>3. Gap' = {}
    BY <2>2 DEF Gap, Opened
  <2>4. Unplaced'
    BY <1>1, <2>1, <2>2 DEF RouteInv, Unplaced
  <2>5. Placed' /\ Joined'
    BY <1>1, <2>2 DEF Placed, Joined
  <2> QED  BY <1>1, <1>2, <2>3, <2>4, <2>5 DEF RouteInv
<1> QED  BY <1>3, <1>4, <1>5, <1>6

\* Another client only adds to the route, or the user knows.
LEMMA OutsideKeepsRoute ==
  ASSUME RouteInv, OutsideLinks \/ OutsideUnlinks
  PROVE  RouteInv'
<1>1. UNCHANGED <<place, task, pending, view, blocked>>
  BY DEF OutsideLinks, OutsideUnlinks, tickets
<1>2. Unplaced' /\ Placed' /\ Gap' = Gap
  BY <1>1 DEF RouteInv, Unplaced, Placed, Gap, Opened
<1>3. CASE OutsideLinks
  <2>1. links \subseteq links' /\ UNCHANGED told
    BY <1>3 DEF OutsideLinks
  <2>2. Live \subseteq Live'
    BY <1>1, <2>1 DEF Live
  <2>3. ~told => Joined'
    BY <1>1, <2>1, <2>2 DEF RouteInv, Joined
  <2>4. ~told => Routed(Live', place', Gap')
    BY <1>1, <1>2, <2>2, RoutedMore DEF RouteInv
  <2> QED  BY <1>2, <2>1, <2>3, <2>4 DEF RouteInv
<1>4. CASE OutsideUnlinks
  BY <1>2, <1>4 DEF OutsideUnlinks, RouteInv
<1> QED  BY <1>3, <1>4

\* A handler that ends or goes on leaves the tickets of the others alone.
LEMMA UnplacedKeeps ==
  ASSUME IInv, Unplaced, Step
  PROVE  Unplaced'
<1>1. /\ UNCHANGED pending /\ task # NoTask /\ DOMAIN pending \subseteq Effects
      /\ \A e \in Effects : e # task.effect => place'[e] = place[e]
  BY DEF Step, Rest, IInv, TypeInv, TicketsTyped
<1>2. task' # NoTask => task'.effect = task.effect
  BY EndTypes, GoTypes DEF Step, IInv
<1> QED  BY <1>1, <1>2 DEF Unplaced

LEMMA StepTaken ==
  ASSUME IInv, task # NoTask, NEW step, Go(step)
  PROVE  /\ task'.kind = task.kind /\ task'.effect = task.effect /\ task'.target = task.target
         /\ task'.step = step /\ task.kind \in {"insert", "remove"} /\ task.effect \in Effects
<1>1. task \in Task /\ task' = [task EXCEPT !.step = step]
  BY DEF IInv, TypeInv, TaskTyped, Go
<1>2. task.kind \in {"insert", "remove"} /\ task.effect \in Effects
  BY <1>1 DEF Task
<1>3. task'.kind = task.kind /\ task'.effect = task.effect /\ task'.target = task.target
      /\ task'.step = step
  BY <1>1 DEF Task
<1> QED  BY <1>2, <1>3

\* A handler that ends leaves the route whole.
LEMMA EndsWhole ==
  ASSUME task' = NoTask, ~told' => Routed(Live', place', {})
  PROVE  Placed' /\ (~told' => Joined' /\ Routed(Live', place', Gap'))
BY DEF Placed, Joined, Gap, Opened

LEMMA ActivateKeeps ==
  ASSUME IInv, RouteInv, Activate
  PROVE  Placed' /\ (~told' => Joined' /\ Routed(Live', place', Gap'))
<1>1. /\ task # NoTask /\ task.step = "activate" /\ task.kind = "insert"
      /\ UNCHANGED <<place, told, blocked>>
  BY DEF Activate, At, IInv, TypeInv, TaskTyped, Task
<1>2. Live' = Live /\ Gap = {}
  BY <1>1, RebuiltLive DEF Activate, Live, Gap, Opened
<1>3. CASE Finish
  <2>1. ~told' => Routed(Live', place', {})
    BY <1>1, <1>2 DEF RouteInv
  <2> QED  BY <1>3, <2>1, EndsWhole DEF Finish
<1>4. CASE Go("publish")
  <2>1. task'.kind = "insert" /\ task'.effect = task.effect /\ task'.step = "publish"
    BY <1>1, <1>4, StepTaken
  <2>2. Gap' = {} /\ Joined'
    BY <2>1 DEF Gap, Opened, Joined
  <2>3. Placed'
    BY <1>1, <2>1 DEF RouteInv, Placed
  <2> QED  BY <1>1, <1>2, <2>2, <2>3 DEF RouteInv
<1> QED  BY <1>3, <1>4 DEF Activate

LEMMA CreateNodeKeeps ==
  ASSUME IInv, RouteInv, CreateNode
  PROVE  Placed' /\ (~told' => Joined' /\ Routed(Live', place', Gap'))
<1>1. /\ task # NoTask /\ task.step = "publish" /\ task.kind = "insert" /\ task.effect \in Effects
      /\ UNCHANGED <<told, blocked>> /\ place[task.effect] = Absent
  BY DEF CreateNode, At, IInv, TypeInv, TaskTyped, Task, RouteInv, Placed
<1>2. Live' = Live /\ Gap = {}
  BY <1>1, RebuiltLive DEF CreateNode, Live, Gap, Opened
<1>3. CASE UNCHANGED place /\ Finish
  <2>1. ~told' => Routed(Live', place', {})
    BY <1>1, <1>2, <1>3 DEF RouteInv
  <2> QED  BY <1>3, <2>1, EndsWhole DEF Finish
<1>4. CASE place' = [place EXCEPT ![task.effect] = Standalone]
  <2>1. Elsewhere(place, place', task.effect) /\ place'[task.effect] = Standalone
    BY <1>1, <1>4 DEF Elsewhere, IInv, TypeInv, GraphTyped
  <2>2. ~told' => Routed(Live', place', {})
    <3> SUFFICES ASSUME ~told PROVE Routed(Live', place', {})
      BY <1>1
    <3>1. Routed(Freed(Live, task.effect), place', {})
      BY <1>1, <1>2, <2>1, EffectConstants, OffRoute DEF RouteInv
    <3>2. Freed(Live, task.effect) \cup {} \subseteq Live' \cup {}
      BY <1>2 DEF Freed
    <3> QED  BY <3>1, <3>2, RoutedMore
  <2>3. CASE Finish
    BY <2>2, <2>3, EndsWhole DEF Finish
  <2>4. CASE \E step \in {"cut", "destroy"} : Go(step)
    <3>1. PICK step \in {"cut", "destroy"} : Go(step)
      BY <2>4
    <3>2. task'.kind = "insert" /\ task'.effect = task.effect /\ task'.step \in {"cut", "destroy"}
      BY <1>1, <3>1, StepTaken
    <3>3. Placed' /\ Joined'
      BY <2>1, <3>2 DEF Placed, Joined
    <3>4. ~told' => Routed(Live', place', Gap')
      BY <2>2, RoutedMore
    <3> QED  BY <3>3, <3>4
  <2> QED  BY <1>4, <2>3, <2>4 DEF CreateNode
<1> QED  BY <1>3, <1>4 DEF CreateNode

LEMMA ConnectLive ==
  ASSUME NEW l, NEW ok, NEW fault, Connect(l, ok, fault)
  PROVE  Live \subseteq Live' /\ (Go(fault) \/ (Go(ok) /\ l \in Live'))
BY DEF Connect, Live, Rebuilt

LEMMA RewireKeeps ==
  ASSUME IInv, RouteInv, Rewire
  PROVE  Placed' /\ (~told' => Joined' /\ Routed(Live', place', Gap'))
<1> DEFINE e == task.effect
           t == task.target
<1>1. /\ task # NoTask /\ task.step \in {"cut", "first", "second"} /\ task.kind = "insert"
      /\ UNCHANGED <<place, told>> /\ place[e] = Standalone
  BY DEF Rewire, At, IInv, TypeInv, TaskTyped, Task, RouteInv, Placed
<1>2. SUFFICES ASSUME NEW step \in {"first", "second", "commit", "destroy"}, Go(step),
                      ~told => Live \subseteq Live' \cup {t},
                      ~told /\ step \in {"second", "commit"} => <<t[1], e>> \in Live',
                      ~told /\ step = "commit" => <<e, t[2]>> \in Live'
               PROVE  Placed' /\ (~told' => Joined' /\ Routed(Live', place', Gap'))
  <2>1. CASE At("cut") /\ Disconnect(t, "first", "destroy")
    <3>1. Go("first") \/ Go("destroy")
      BY <2>1 DEF Disconnect
    <3>2. Live \subseteq Live' \cup {t}
      BY <2>1 DEF Disconnect, Rebuilt, Live
    <3> QED  BY <1>2, <3>1, <3>2
  <2>2. CASE At("first") /\ Connect(<<t[1], e>>, "second", "destroy")
    <3>1. Live \subseteq Live' /\ (Go("destroy") \/ (Go("second") /\ <<t[1], e>> \in Live'))
      BY <2>2, ConnectLive
    <3> QED  BY <1>2, <3>1
  <2>3. CASE At("second") /\ Connect(<<e, t[2]>>, "commit", "destroy")
    <3>1. Live \subseteq Live' /\ (Go("destroy") \/ (Go("commit") /\ <<e, t[2]>> \in Live'))
      BY <2>3, ConnectLive
    <3>2. ~told => <<t[1], e>> \in Live
      BY <1>1, <2>3 DEF At, RouteInv, Joined
    <3> QED  BY <1>2, <3>1, <3>2
  <2> QED  BY <2>1, <2>2, <2>3 DEF Rewire
<1>3. task'.kind = "insert" /\ task'.effect = e /\ task'.target = t /\ task'.step = step /\ task' # NoTask
  <2>1. task'.kind = "insert" /\ task'.effect = e /\ task'.target = t /\ task'.step = step
    BY <1>1, <1>2, StepTaken
  <2>2. NoTask.kind = "none"
    BY DEF NoTask
  <2> QED  BY <2>1, <2>2
<1>4. Placed'
  BY <1>1, <1>3 DEF Placed
<1>5. ~told' => Joined'
  BY <1>1, <1>2, <1>3 DEF Joined
<1>6. Gap' = {t} /\ Gap \subseteq {t}
  BY <1>2, <1>3 DEF Gap, Opened
<1>7. ~told' => Routed(Live', place', Gap')
  <2> SUFFICES ASSUME ~told PROVE Routed(Live', place', Gap')
    BY <1>1
  <2>1. Live \cup Gap \subseteq Live' \cup Gap'
    BY <1>2, <1>6
  <2>2. Routed(Live', place, Gap')
    BY <2>1, RoutedMore DEF RouteInv
  <2> QED  BY <1>1, <2>2
<1> QED  BY <1>4, <1>5, <1>7

LEMMA CommitKeeps ==
  ASSUME IInv, RouteInv, Commit
  PROVE  Placed' /\ (~told' => Joined' /\ Routed(Live', place', Gap'))
<1> DEFINE e == task.effect
           t == task.target
<1>1. /\ task # NoTask /\ task.step = "commit" /\ task.kind = "insert" /\ e \in Effects /\ t \in Link
      /\ UNCHANGED <<links, blocked, told>> /\ place[e] = Standalone /\ task' = NoTask
      /\ place' = [place EXCEPT ![e] = t]
  BY DEF Commit, At, IInv, TypeInv, TaskTyped, Task, RouteInv, Placed, Cutting, Finish
<1>2. Live' = Live /\ Gap = {t}
  BY <1>1 DEF Live, Gap, Opened
<1>3. Elsewhere(place, place', e) /\ place'[e] = t
  BY <1>1 DEF Elsewhere, IInv, TypeInv, GraphTyped
<1>4. ASSUME ~told PROVE Routed(Live', place', {})
  <2>1. Routed(Live, place, {t}) /\ <<t[1], e>> \in Live /\ <<e, t[2]>> \in Live
    BY <1>1, <1>2, <1>4 DEF RouteInv, Joined
  <2> HIDE DEF e, t
  <2>2. Routed(Live, place', {})
    BY <1>1, <1>3, <2>1, EffectConstants, Spliced
  <2> QED  BY <1>2, <2>2
<1> QED  BY <1>1, <1>4, EndsWhole

LEMMA DestroyKeeps ==
  ASSUME IInv, RouteInv, DestroyNode
  PROVE  Placed' /\ (~told' => Joined' /\ Routed(Live', place', Gap'))
<1> DEFINE e == task.effect
           t == task.target
<1>1. /\ task # NoTask /\ task \in Task /\ task.step = "destroy" /\ e \in Effects /\ t \in Target
      /\ task.kind \in {"insert", "remove"}
      /\ UNCHANGED blocked /\ place' = [place EXCEPT ![e] = Absent]
      /\ place \in [Effects -> {Absent} \cup Target]
  BY DEF DestroyNode, At, IInv, TypeInv, TaskTyped, GraphTyped, Task
<1>2. /\ Elsewhere(place, place', e)
      /\ task.kind = "insert" => place[e] = Standalone /\ t \in Link /\ t # Standalone
      /\ task.kind = "remove" => place[e] = t
  <2>1. task.kind = "insert" => t \in Link
    BY <1>1 DEF IInv, TypeInv, TaskTyped
  <2>2. t \in Link => t # Standalone
    BY DEF Link, Standalone
  <2> QED  BY <1>1, <2>1, <2>2 DEF Elsewhere, RouteInv, Placed
<1>3. CASE Rebuilt(links \ Touching(e)) /\ NoFault /\ UNCHANGED told
           /\ IF t = Standalone THEN Finish ELSE Go("restore") /\ UNCHANGED <<inbox, waiting>>
  <2>1. Live' = Freed(Live, e) /\ view' = links'
    <3>1. Live' = (links \ Touching(e)) \ blocked /\ view' = links'
      BY <1>1, <1>3, RebuiltLive
    <3> QED  BY <3>1 DEF Live, Freed, Touching
  <2>2. ~told => Routed(Live', place', {t}) /\ (t = Standalone => Routed(Live', place', {}))
    <3> SUFFICES ASSUME ~told
                 PROVE  Routed(Live', place', {t}) /\ (t = Standalone => Routed(Live', place', {}))
      OBVIOUS
    <3> HIDE DEF e, t
    <3>1. Routed(Live, place, Gap)
      BY DEF RouteInv
    <3>2. CASE task.kind = "insert"
      <4>1. Gap = {t}
        BY <1>1, <3>2 DEF Gap, Opened, t
      <4>2. Routed(Freed(Live, e), place', {t})
        BY <1>1, <1>2, <3>1, <3>2, <4>1, EffectConstants, OffRoute
      <4> QED  BY <1>2, <2>1, <3>2, <4>2
    <3>3. CASE task.kind = "remove"
      <4>1. Gap = {} /\ place[e] = t
        BY <1>1, <1>2, <3>3 DEF Gap, Opened
      <4>2. Routed(Freed(Live, e), place', {t})
        BY <1>1, <1>2, <3>1, <4>1, EffectConstants, Unspliced
      <4>3. ASSUME t = Standalone PROVE Routed(Freed(Live, e), place', {})
        BY <1>1, <1>2, <3>1, <4>1, <4>3, EffectConstants, OffRoute
      <4> QED  BY <2>1, <4>2, <4>3
    <3> QED  BY <1>1, <3>2, <3>3
  <2>3. CASE t = Standalone
    <3>1. task' = NoTask
      BY <1>3, <2>3 DEF Finish
    <3> QED  BY <1>3, <2>2, <2>3, <3>1, EndsWhole
  <2>4. CASE t # Standalone
    <3>1. /\ task'.effect = e /\ task'.target = t /\ task'.step = "restore"
          /\ task'.kind \in {"insert", "remove"}
      BY <1>1, <1>3, <2>4, StepTaken
    <3>2. task' # NoTask
      <4>1. NoTask.kind = "none"
        BY DEF NoTask
      <4> QED  BY <3>1, <4>1
    <3>3. Gap' = {t}
      BY <3>1, <3>2 DEF Gap, Opened
    <3>4. Placed' /\ Joined'
      BY <2>1, <3>1 DEF Placed, Joined
    <3> QED  BY <1>3, <2>2, <3>3, <3>4
  <2> QED  BY <2>3, <2>4
<1>4. CASE told' = TRUE /\ (Finish \/ Go("restore"))
  <2>1. Placed'
    <3>1. CASE Finish
      BY <3>1 DEF Finish, Placed
    <3>2. CASE Go("restore")
      <4>1. task'.step = "restore"
        BY <1>1, <3>2, StepTaken
      <4> QED  BY <4>1 DEF Placed
    <3> QED  BY <1>4, <3>1, <3>2
  <2> QED  BY <1>4, <2>1
<1>5. \/ /\ Rebuilt(links \ Touching(e)) /\ NoFault /\ UNCHANGED told
         /\ IF t = Standalone THEN Finish ELSE Go("restore") /\ UNCHANGED <<inbox, waiting>>
      \/ told' = TRUE /\ (Finish \/ Go("restore"))
  BY DEF DestroyNode
<1> QED  BY <1>3, <1>4, <1>5

LEMMA RestoreKeeps ==
  ASSUME IInv, RouteInv, Restore
  PROVE  Placed' /\ (~told' => Joined' /\ Routed(Live', place', Gap'))
<1> DEFINE t == task.target
<1>1. /\ task # NoTask /\ task.step = "restore" /\ task' = NoTask /\ UNCHANGED place
      /\ blocked' = blocked \ {t}
  BY DEF Restore, At, Finish
<1>2. Gap = {t}
  BY <1>1 DEF Gap, Opened
<1>3. ASSUME ~told' PROVE Routed(Live', place', {})
  <2>1. ~told /\ ((t \in view /\ UNCHANGED links) \/ Rebuilt(links \cup {t}))
    BY <1>3 DEF Restore
  <2>2. view \subseteq links
    BY <1>1, <2>1 DEF RouteInv, Joined
  <2>3. Live \cup {t} \subseteq Live'
    <3>1. CASE t \in view /\ UNCHANGED links
      BY <1>1, <2>2, <3>1 DEF Live
    <3>2. CASE Rebuilt(links \cup {t})
      BY <1>1, <3>2 DEF Live, Rebuilt
    <3> QED  BY <2>1, <3>1, <3>2
  <2>4. Routed(Live, place, {t}) /\ Live \cup {t} \subseteq Live' \cup {}
    BY <1>2, <2>1, <2>3 DEF RouteInv
  <2>5. Routed(Live', place, {})
    BY <2>4, RoutedMore
  <2> QED  BY <1>1, <2>5
<1> QED  BY <1>1, <1>3, EndsWhole

LEMMA RouteKeeps ==
  ASSUME IInv, RouteInv, [Next]_vars
  PROVE  RouteInv'
<1>1. CASE (\E w \in Workers : Work(w)) \/ Poll \/ (\E e \in Effects : Cancel(e)) \/ UNCHANGED vars
  <2>1. UNCHANGED <<graph, task, told, pending>>
    BY <1>1 DEF Work, Take, WorkerChecks, Prepares, Decides, Publishes, Poll, Cancel, vars, tickets
  <2> QED  BY <2>1, RouteUntouched
<1>2. CASE HandleEvent \/ Refresh \/ \E e \in Effects : BeginCreate(e) \/ Remove(e)
  BY <1>2, IdleKeepsRoute
<1>3. CASE OutsideLinks \/ OutsideUnlinks
  BY <1>3, OutsideKeepsRoute
<1>4. CASE Activate \/ CreateNode \/ Rewire \/ Commit \/ DestroyNode \/ Restore
  <2>1. Step
    BY <1>4, InsertionSteps, RollbackSteps DEF IInv
  <2>2. Unplaced'
    BY <2>1, UnplacedKeeps DEF RouteInv
  <2>3. Placed' /\ (~told' => Joined' /\ Routed(Live', place', Gap'))
    BY <1>4, ActivateKeeps, CreateNodeKeeps, RewireKeeps, CommitKeeps, DestroyKeeps, RestoreKeeps
  <2> QED  BY <2>2, <2>3 DEF RouteInv
<1> QED  BY <1>1, <1>2, <1>3, <1>4 DEF Next, Steps

\* However effects are inserted into each other's links and removed again, and
\* wherever a call fails: between two handlers audio gets from the source to
\* the destination, unless another client cut it or the user was told
\* (effects/graph.rs, pipewire.rs).
THEOREM AudioGetsThrough == Spec => []RouteKept
<1>1. Init => RouteInv
  BY RouteBegins
<1>2. IInv /\ RouteInv /\ [Next]_vars => RouteInv'
  BY RouteKeeps
<1>3. RouteInv => RouteKept
  <2> SUFFICES ASSUME RouteInv, Handler, ~told, NEW S, Holds(S) PROVE Dst \in S
    BY DEF RouteKept
  <2>1. Routed(Live, place, {})
    BY DEF RouteInv, Handler, Gap, Opened
  <2>2. Live \cup {} \subseteq links \cup {}
    BY DEF Live
  <2>3. Routed(links, place, {})
    BY <2>1, <2>2, RoutedMore
  <2> QED  BY <2>3, RouteCarries
<1> QED  BY <1>1, <1>2, <1>3, Invariant, PTL DEF Spec

--------------------------------------------------------------------------------
(* Hush: wet audio is aligned, for every length of a callback and of the   *)
(* two rings, every schedule, backlog limit and lead.                      *)


Ages == (-Far)..Far
InBlock == [gen : BOOLEAN, ep : BOOLEAN, end : Ages]
OutBlock == [gen : BOOLEAN, at : Ages, src : Ages]
WorkerState == {"Starting", "Running", "Warming", "Recovering", "Overloaded"}
WorkerPlace == {"loop", "recover", "reset", "clear", "open", "overloaded", "backlog", "take", "more",
                "denoise", "end"}
CallbackPlace == {"idle", "test", "epoch", "push", "read", "warmClose", "overload", "close", "swap",
                  "mark",
                  "askClose", "askSwap", "askMark"}
CallbackVars == [at : CallbackPlace, left : 0..Far, ep : BOOLEAN]
WorkerVars == [at : WorkerPlace, state : WorkerState, attempts : Nat, cooling : BOOLEAN,
               pristine : BOOLEAN, warm : BOOLEAN, gen : BOOLEAN, next : Ages, out : Ages, held : Ages]

\* The callback hands its input over, and knows since when.
Pushing == cb.at \in {"test", "epoch", "push"}

HushTyped ==
    /\ cb \in CallbackVars /\ (Pushing => cb.left > 0)
    /\ mask \in BOOLEAN /\ restart \in BOOLEAN
    /\ input \in Seq(InBlock) /\ output \in Seq(OutBlock)
    /\ worker \in WorkerVars

\* After a change of generation nothing on the way is current.
Renewed == restart =>
    /\ ~Pushing
    /\ worker.pristine \/ ~worker.gen
    /\ \A i \in 1..Len(input) : ~input[i].gen
    /\ \A i \in 1..Len(output) : ~output[i].gen

\* The delay line: what was taken last, what comes out next, and what it holds.
Streams == worker.gen /\ ~worker.pristine /\ worker.at # "end"
Line ==
    /\ worker.pristine => worker.warm
    /\ Streams =>
         /\ IF worker.at = "denoise" THEN worker.out = Cut(worker.next + 1)
            ELSE worker.next < Far => worker.out = worker.next
         /\ ~worker.warm /\ worker.out < Far => worker.held = worker.out + 1

Denoising ==
    worker.at = "denoise" =>
        /\ input # <<>> /\ ~worker.pristine
        /\ IF input[1].gen THEN Streams /\ input[1].end = worker.next ELSE ~worker.gen

HushInv == HushTyped /\ Renewed /\ Line /\ Denoising /\ WetAligned

LEMMA HushBounds ==
  ASSUME HushConstants
  PROVE  /\ {Far, Lead, Schedule, BacklogLimit, MaxAttempts} \subseteq Nat
         /\ Far > 0 /\ BacklogLimit + 1 < Far /\ Lead < Far
         /\ \A q \in Quanta : q \in Nat \ {0} /\ q <= Lead
BY DEF HushConstants

LEMMA CutTyped ==
  ASSUME HushConstants, NEW x \in Int
  PROVE  Cut(x) \in Ages /\ Cut(x) \in Int
<1> DEFINE far == Far
<1>1. far \in Nat
  BY HushBounds
<1> QED  BY <1>1 DEF Cut, Ages

LEMMA HushBegins == ASSUME HushConstants, HushInit PROVE HushInv
<1>1. 0 \in Ages /\ 0 \in 0..Far
  BY HushBounds DEF Ages
<1>2. HushTyped
  <2>1. cb \in CallbackVars /\ (Pushing => cb.left > 0)
    BY <1>1 DEF HushInit, Idle, CallbackVars, CallbackPlace, Pushing
  <2>2. worker \in WorkerVars
    BY <1>1 DEF HushInit, WorkerVars, WorkerPlace, WorkerState
  <2>3. <<>> \in Seq(InBlock) /\ <<>> \in Seq(OutBlock)
    OBVIOUS
  <2> QED  BY <2>1, <2>2, <2>3 DEF HushInit, HushTyped
<1>3. Renewed /\ Denoising /\ WetAligned
  BY DEF HushInit, Renewed, Denoising, WetAligned
<1>4. Line
  BY DEF HushInit, Line, Streams
<1> QED  BY <1>2, <1>3, <1>4 DEF HushInv

\* How a ring changes: a block is added, or the first one taken.
LEMMA Added ==
  ASSUME NEW S, NEW s \in Seq(S), NEW b \in S
  PROVE  /\ Append(s, b) \in Seq(S) /\ Len(Append(s, b)) = Len(s) + 1
         /\ \A i \in 1..(Len(s) + 1) : Append(s, b)[i] = IF i <= Len(s) THEN s[i] ELSE b
OBVIOUS

LEMMA Dropped ==
  ASSUME NEW S, NEW s \in Seq(S), s # <<>>
  PROVE  /\ Tail(s) \in Seq(S) /\ Len(Tail(s)) = Len(s) - 1 /\ Len(s) \in Nat \ {0} /\ s[1] \in S
         /\ Head(s) = s[1]
         /\ \A i \in 1..Len(Tail(s)) : Tail(s)[i] = s[i + 1]
OBVIOUS

LEMMA Marked ==
  ASSUME NEW S, NEW s \in Seq(S), NEW t \in [1..Len(s) -> S]
  PROVE  t \in Seq(S) /\ Len(t) = Len(s)
OBVIOUS

\* A clock tick ages everything alike.
LEMMA TickKeeps ==
  ASSUME HushConstants, HushInv, NEW q \in Quanta, Tick(q)
  PROVE  HushInv'
<1> DEFINE Age(x) == IF restart THEN -Far ELSE Cut(x + q)
<1>0. q \in 1..Far /\ Far \in Nat
  BY HushBounds
<1>1. \A x \in Ages : Age(x) \in Ages
  <2>1. -Far \in Ages
    BY <1>0 DEF Ages
  <2> QED  BY <1>0, <2>1, CutTyped DEF Ages
<1>2. /\ input' = [i \in DOMAIN input |-> [input[i] EXCEPT !.end = Age(@)]]
      /\ output' = [i \in DOMAIN output |-> [output[i] EXCEPT !.at = Age(@), !.src = Age(@)]]
      /\ worker' = IF worker.pristine THEN worker
                   ELSE [worker EXCEPT !.next = Age(@), !.out = Age(@), !.held = Age(@)]
      /\ ~restart'
  BY DEF Tick
<1>3. ~restart => \A x \in Ages : x <= Age(x) /\ (Age(x) < Far => Age(x) = x + q)
  BY <1>0 DEF Cut, Ages
<1>a. ~restart => \A x, y \in Ages : (x < Far => y = x + 1) => (Age(x) < Far => Age(y) = Age(x) + 1)
  BY <1>0 DEF Cut, Ages
<1>b. ~restart => \A x \in Ages : Age(Cut(x + 1)) = Cut(Age(x) + 1)
  BY <1>0 DEF Cut, Ages
<1> HIDE DEF Age
<1>4. cb' \in CallbackVars /\ (Pushing => cb.left > 0)'
  <2>1. cb' = IF failed THEN Idle
              ELSE [Idle EXCEPT !.at = IF mask THEN "test" ELSE "read", !.left = q]
    BY DEF Tick
  <2>2. 0 \in 0..Far /\ q \in 0..Far
    BY <1>0
  <2>3. CASE failed
    BY <2>1, <2>2, <2>3 DEF Idle, CallbackVars, CallbackPlace, Pushing
  <2>4. CASE ~failed
    <3>1. cb' \in CallbackVars /\ cb'.left = q
      BY <2>1, <2>2, <2>4 DEF Idle, CallbackVars, CallbackPlace
    <3> QED  BY <1>0, <3>1
  <2> QED  BY <2>3, <2>4
<1>5. /\ input' \in Seq(InBlock) /\ Len(input') = Len(input)
      /\ \A i \in 1..Len(input) : input'[i].gen = input[i].gen /\ input'[i].end = Age(input[i].end)
  <2>1. ASSUME NEW b \in InBlock
        PROVE  LET aged == [b EXCEPT !.end = Age(@)]
               IN  aged \in InBlock /\ aged.gen = b.gen /\ aged.end = Age(b.end)
    BY <1>1 DEF InBlock
  <2>2. input \in Seq(InBlock)
    BY DEF HushInv, HushTyped
  <2>3. DOMAIN input = 1..Len(input) /\ \A i \in 1..Len(input) : input[i] \in InBlock
    BY <2>2
  <2>4. input' = [i \in 1..Len(input) |-> [input[i] EXCEPT !.end = Age(@)]]
    BY <1>2, <2>3
  <2>5. input' \in [1..Len(input) -> InBlock]
    BY <2>1, <2>3, <2>4
  <2>6. \A i \in 1..Len(input) : input'[i] = [input[i] EXCEPT !.end = Age(@)]
    BY <2>4
  <2> QED  BY <2>1, <2>2, <2>3, <2>5, <2>6, Marked
<1>6. /\ output' \in Seq(OutBlock) /\ Len(output') = Len(output)
      /\ \A i \in 1..Len(output) : /\ output'[i].gen = output[i].gen /\ output'[i].at = Age(output[i].at)
                                   /\ output'[i].src = Age(output[i].src)
  <2>1. ASSUME NEW b \in OutBlock
        PROVE  LET aged == [b EXCEPT !.at = Age(@), !.src = Age(@)]
               IN  aged \in OutBlock /\ aged.gen = b.gen /\ aged.at = Age(b.at) /\ aged.src = Age(b.src)
    BY <1>1 DEF OutBlock
  <2>2. output \in Seq(OutBlock)
    BY DEF HushInv, HushTyped
  <2>3. DOMAIN output = 1..Len(output) /\ \A i \in 1..Len(output) : output[i] \in OutBlock
    BY <2>2
  <2>4. output' = [i \in 1..Len(output) |-> [output[i] EXCEPT !.at = Age(@), !.src = Age(@)]]
    BY <1>2, <2>3
  <2>5. output' \in [1..Len(output) -> OutBlock]
    BY <2>1, <2>3, <2>4
  <2>6. \A i \in 1..Len(output) : output'[i] = [output[i] EXCEPT !.at = Age(@), !.src = Age(@)]
    BY <2>4
  <2> QED  BY <2>1, <2>2, <2>3, <2>5, <2>6, Marked
<1>7. worker' \in WorkerVars /\ worker'.at = worker.at /\ worker'.pristine = worker.pristine
      /\ worker'.warm = worker.warm /\ worker'.gen = worker.gen
      /\ (~worker.pristine => worker'.next = Age(worker.next) /\ worker'.out = Age(worker.out)
         /\ worker'.held = Age(worker.held))
  BY <1>1, <1>2 DEF HushInv, HushTyped, WorkerVars
<1>8. worker.next \in Ages /\ worker.out \in Ages /\ worker.held \in Ages /\ worker.gen \in BOOLEAN
      /\ worker.pristine \in BOOLEAN
  BY DEF HushInv, HushTyped, WorkerVars
<1>9. Streams' <=> Streams
  BY <1>7 DEF Streams
<1>10. Streams => ~restart
  BY <1>8 DEF Streams, Renewed, HushInv
<1>11. Line'
  <2>1. ASSUME Streams, worker.at = "denoise" PROVE worker'.out = Cut(worker'.next + 1)
    BY <2>1, <1>10, <1>b, <1>7, <1>8 DEF Streams, HushInv, Line
  <2>2. ASSUME Streams, worker.at # "denoise", worker'.next < Far PROVE worker'.out = worker'.next
    <3>1. worker'.next = Age(worker.next) /\ worker'.out = Age(worker.out)
      BY <2>2, <1>7 DEF Streams
    <3>2. worker.next < Far
      BY <3>1, <2>2, <1>10, <1>3, <1>1, <1>8, <1>0 DEF Ages
    <3> QED  BY <3>1, <3>2, <2>2 DEF HushInv, Line
  <2>3. ASSUME Streams, ~worker.warm, worker'.out < Far PROVE worker'.held = worker'.out + 1
    BY <2>3, <1>10, <1>a, <1>7, <1>8 DEF Streams, HushInv, Line
  <2> QED  BY <2>1, <2>2, <2>3, <1>7, <1>9 DEF HushInv, Line
<1>12. Denoising'
  <2> SUFFICES ASSUME worker.at = "denoise" PROVE Denoising'
    BY <1>7 DEF Denoising
  <2>1. input # <<>> /\ input' # <<>> /\ 1 \in 1..Len(input)
    BY <1>5 DEF HushInv, HushTyped, Denoising
  <2> QED  BY <2>1, <1>5, <1>7, <1>9 DEF HushInv, Denoising, Streams
<1>13. WetAligned'
  <2> SUFFICES ASSUME NEW i \in 1..Len(output), output'[i].gen, output'[i].at < Far
               PROVE  output'[i].src = output'[i].at + 1
    BY <1>6 DEF WetAligned
  <2>1. ~restart /\ (output[i].at < Far => output[i].src = output[i].at + 1)
    BY <1>6 DEF HushInv, HushTyped, WetAligned, Renewed
  <2>2. output[i].at \in Ages /\ output[i].src \in Ages
    <3>1. output \in Seq(OutBlock)
      BY DEF HushInv, HushTyped
    <3>2. output[i] \in OutBlock
      BY <3>1
    <3> QED  BY <3>2 DEF OutBlock
  <2> QED  BY <2>1, <2>2, <1>a, <1>6
<1>14. Renewed' /\ HushTyped'
  BY <1>2, <1>4, <1>5, <1>6, <1>7 DEF Renewed, HushTyped, Tick, HushInv, clock
<1> QED  BY <1>11, <1>12, <1>13, <1>14 DEF HushInv

Calls ==
    /\ cb' \in CallbackVars /\ (Pushing => cb.left > 0)' /\ UNCHANGED clock
    /\ Pushing' => Pushing

\* The delay line is left as it is, and no block is being denoised afterwards
\* that was not before.
Quiet ==
    /\ worker' \in WorkerVars
    /\ worker'.pristine = worker.pristine /\ worker'.warm = worker.warm /\ worker'.gen = worker.gen
    /\ worker'.next = worker.next /\ worker'.out = worker.out /\ worker'.held = worker.held
    /\ output' \in {output, <<>>}
    /\ \/ worker'.at \in {worker.at, "end"} /\ input' = input
       \/ /\ worker.at \notin {"denoise", "end"} /\ worker'.at # "denoise"
          /\ input' \in {input, <<>>} \/ (input # <<>> /\ input' = Tail(input))

LEMMA QuietKeeps == ASSUME HushInv, Calls, Quiet PROVE HushInv'
<1>1. /\ input \in Seq(InBlock) /\ output \in Seq(OutBlock) /\ worker \in WorkerVars
      /\ mask \in BOOLEAN /\ restart \in BOOLEAN
  BY DEF HushInv, HushTyped
<1>2. /\ input' \in Seq(InBlock)
      /\ \A i \in 1..Len(input') : \E j \in 1..Len(input) : input'[i] = input[j]
  <2>1. CASE input' = input
    BY <1>1, <2>1
  <2>2. CASE input' = <<>>
    BY <2>2
  <2>3. CASE input # <<>> /\ input' = Tail(input)
    <3>1. \A i \in 1..Len(input') : i + 1 \in 1..Len(input)
      BY <1>1, <2>3, Dropped
    <3> QED  BY <1>1, <2>3, <3>1, Dropped
  <2> QED  BY <2>1, <2>2, <2>3 DEF Quiet
<1>3. /\ output' \in Seq(OutBlock)
      /\ \A i \in 1..Len(output') : i \in 1..Len(output) /\ output'[i] = output[i]
  <2>1. CASE output' = output
    BY <1>1, <2>1
  <2>2. CASE output' = <<>>
    BY <2>2
  <2> QED  BY <2>1, <2>2 DEF Quiet
<1>4. HushTyped'
  <2>1. input' \in Seq(InBlock) /\ output' \in Seq(OutBlock)
    BY <1>2, <1>3
  <2> QED  BY <1>1, <2>1 DEF HushTyped, Quiet, Calls, clock
<1>5. Renewed'
  BY <1>2, <1>3 DEF HushInv, Renewed, Quiet, Calls, clock
<1>6. Line'
  BY DEF HushInv, Line, Streams, Quiet
<1>7. Denoising'
  BY DEF HushInv, Denoising, Streams, Quiet
<1>8. WetAligned'
  <2>1. DOMAIN output = 1..Len(output) /\ DOMAIN output' = 1..Len(output')
    BY <1>1, <1>3
  <2> QED  BY <1>3, <2>1 DEF HushInv, WetAligned
<1> QED  BY <1>4, <1>5, <1>6, <1>7, <1>8 DEF HushInv

LEMMA PushKeeps == ASSUME HushConstants, HushInv, Push PROVE HushInv'
<1> DEFINE b == [gen |-> TRUE, ep |-> cb.ep, end |-> cb.left - 1]
<1>1. /\ cb \in CallbackVars /\ cb.left > 0 /\ input \in Seq(InBlock) /\ ~restart
      /\ output \in Seq(OutBlock) /\ worker \in WorkerVars
  BY DEF HushInv, HushTyped, Push, Renewed, Pushing
<1>2. b \in InBlock /\ input' = Append(input, b) /\ UNCHANGED <<clock, output, worker>>
  <2>1. cb.left \in 0..Far /\ cb.ep \in BOOLEAN /\ Far \in Nat
    BY <1>1, HushBounds DEF CallbackVars
  <2>2. cb.left - 1 \in Ages
    BY <1>1, <2>1 DEF Ages
  <2> QED  BY <2>1, <2>2 DEF Push, InBlock
<1>3. cb' \in CallbackVars /\ (Pushing => cb.left > 0)'
  <2>1. cb' = [cb EXCEPT !.left = @ - 1, !.at = IF cb.left = 1 THEN "read" ELSE "push"]
    BY DEF Push
  <2>2. cb.left \in 0..Far /\ Far \in Nat
    BY <1>1, HushBounds DEF CallbackVars
  <2>3. cb.left - 1 \in 0..Far
    BY <1>1, <2>2
  <2>4. cb' \in CallbackVars /\ cb'.left = cb.left - 1 /\ cb'.at \in {"push", "read"}
        /\ (cb'.at = "push" => cb.left # 1)
    BY <1>1, <2>1, <2>3 DEF CallbackVars, CallbackPlace
  <2> QED  BY <1>1, <2>2, <2>4 DEF Pushing
<1> HIDE DEF b
<1>4. HushTyped' /\ Renewed'
  BY <1>1, <1>2, <1>3, Added DEF HushInv, HushTyped, Renewed, clock
<1>5. input # <<>> => input' # <<>> /\ input'[1] = input[1]
  <2>1. input # <<>> => 1 \in 1..Len(input)
    BY <1>1
  <2> QED  BY <1>1, <1>2, <2>1, Added
<1>6. Line' /\ Denoising' /\ WetAligned'
  BY <1>2, <1>5 DEF HushInv, Line, Streams, Denoising, WetAligned
<1> QED  BY <1>4, <1>6 DEF HushInv

\* read_timeline leaves a part of what is in the ring.
LEMMA ReadKeeps == ASSUME HushConstants, HushInv, Read PROVE HushInv'
<1>1. /\ output \in Seq(OutBlock) /\ input \in Seq(InBlock) /\ worker \in WorkerVars
         /\ mask \in BOOLEAN /\ restart \in BOOLEAN
      /\ UNCHANGED <<clock, input, worker>> /\ cb' = Idle
  BY DEF HushInv, HushTyped, Read, Goto
<1>3. /\ output' \in Seq(OutBlock)
      /\ \A i \in 1..Len(output') : \E j \in 1..Len(output) : output'[i] = output[j]
  <2>1. CASE failed
    BY <1>1, <2>1 DEF Read
  <2>2. CASE ~failed
    <3>1. PICK first \in 1..(Len(output) + 1) : output' = SubSeq(output, first, Len(output))
      BY <2>2 DEF Read
    <3>2. /\ output' \in Seq(OutBlock) /\ Len(output) \in Nat
          /\ Len(output') = IF first <= Len(output) THEN Len(output) - first + 1 ELSE 0
          /\ \A i \in 1..Len(output') : output'[i] = output[first + i - 1]
      BY <1>1, <3>1, SubSeqProperties
    <3>3. \A i \in 1..Len(output') : first + i - 1 \in 1..Len(output)
      BY <3>1, <3>2
    <3> QED  BY <3>2, <3>3
  <2> QED  BY <2>1, <2>2
<1>4. cb' \in CallbackVars /\ cb'.at = "idle"
  BY <1>1, HushBounds DEF Idle, CallbackVars, CallbackPlace
<1>5. HushTyped' /\ Renewed'
  BY <1>1, <1>3, <1>4 DEF HushInv, HushTyped, Renewed, clock, Pushing
<1>6. WetAligned'
  <2>1. DOMAIN output = 1..Len(output) /\ DOMAIN output' = 1..Len(output')
    BY <1>1, <1>3
  <2> QED  BY <1>3, <2>1 DEF HushInv, WetAligned
<1>7. Line' /\ Denoising'
  BY <1>1 DEF HushInv, Line, Streams, Denoising
<1> QED  BY <1>5, <1>6, <1>7 DEF HushInv

LEMMA GotoPlace ==
  ASSUME HushConstants, cb \in CallbackVars, NEW pc \in CallbackPlace \ {"push"}, Goto(pc)
  PROVE  cb' \in CallbackVars /\ cb'.at = pc /\ (pc # "idle" => cb'.left = cb.left)
<1>1. 0 \in 0..Far
  BY HushBounds
<1>2. Idle \in CallbackVars
  BY <1>1 DEF Idle, CallbackVars, CallbackPlace
<1> QED  BY <1>2 DEF Goto, Idle, CallbackVars

LEMMA AsksTyped ==
  ASSUME HushConstants, NEW ok, Asks(ok)
  PROVE  cb' \in CallbackVars /\ ~Pushing'
<1>1. 0 \in 0..Far
  BY HushBounds
<1> QED  BY <1>1 DEF Asks, Idle, CallbackVars, CallbackPlace, Pushing

\* The other steps of the callback touch neither ring.
LEMMA CallbackKeeps ==
  ASSUME HushConstants, HushInv, Callback \/ Reenable
  PROVE  HushInv'
<1>1. cb \in CallbackVars /\ worker \in WorkerVars
  BY DEF HushInv, HushTyped
<1>2. ASSUME UNCHANGED <<clock, input, output, worker>>, NEW pc \in CallbackPlace \ {"push"},
             Goto(pc),
             pc \in {"test", "epoch"} => Pushing
      PROVE  HushInv'
  <2>1. Calls
    BY <1>1, <1>2, GotoPlace DEF Calls, Pushing, HushInv, HushTyped
  <2>2. Quiet
    BY <1>1, <1>2 DEF Quiet
  <2> QED  BY <2>1, <2>2, QuietKeeps
<1>3. CASE Test
  <2>1. Goto("epoch") \/ Goto("read")
    BY <1>3 DEF Test
  <2>2. Pushing /\ UNCHANGED <<clock, input, output, worker>>
    BY <1>3 DEF Test, Pushing
  <2> QED  BY <1>2, <2>1, <2>2 DEF CallbackPlace
<1>4. CASE LoadEpoch
  <2>1. cb' \in CallbackVars /\ cb'.left = cb.left /\ Pushing
    BY <1>1, <1>4 DEF LoadEpoch, CallbackVars, CallbackPlace, Pushing
  <2>2. Calls
    BY <1>4, <2>1 DEF Calls, LoadEpoch, HushInv, HushTyped, Pushing
  <2>3. Quiet
    BY <1>1, <1>4 DEF Quiet, LoadEpoch
  <2> QED  BY <2>2, <2>3, QuietKeeps
<1>5. CASE Full
  <2>1. \E pc \in {"read", "warmClose", "close"} : Goto(pc)
    BY <1>5 DEF Full
  <2> QED  BY <1>2, <1>5, <2>1 DEF Full, CallbackPlace
<1>6. CASE Closes
  <2>1. \E pc \in {"overload", "swap", "askSwap"} : Goto(pc)
    BY <1>6 DEF Closes
  <2> QED  BY <1>2, <1>6, <2>1 DEF Closes, CallbackPlace
<1>7. CASE Swaps
  <2>1. \E pc \in {"askMark", "read", "mark"} : Goto(pc)
    BY <1>7 DEF Swaps
  <2> QED  BY <1>2, <1>7, <2>1 DEF Swaps, CallbackPlace
<1>8. CASE Marks
  <2>1. \E pc \in {"idle", "read"} : Goto(pc)
    BY <1>8 DEF Marks
  <2> QED  BY <1>2, <1>8, <2>1 DEF Marks, CallbackPlace
<1>9. CASE Reenable
  <2>1. cb' \in CallbackVars /\ ~Pushing'
    BY <1>9, AsksTyped DEF Reenable
  <2>2. Calls
    BY <1>9, <2>1 DEF Calls, Reenable, clock
  <2>3. Quiet
    BY <1>1, <1>9 DEF Quiet, Reenable
  <2> QED  BY <2>2, <2>3, QuietKeeps
<1> QED  BY <1>3, <1>4, <1>5, <1>6, <1>7, <1>8, <1>9, TickKeeps, PushKeeps, ReadKeeps DEF Callback

\* A change of generation makes everything on the way stale.
LEMMA SetMaskKeeps == ASSUME HushConstants, HushInv, SetMask PROVE HushInv'
<1>1. /\ output \in Seq(OutBlock) /\ input \in Seq(InBlock) /\ worker \in WorkerVars
      /\ DOMAIN input = 1..Len(input) /\ DOMAIN output = 1..Len(output)
  BY DEF HushInv, HushTyped
<1>2. /\ input' \in Seq(InBlock) /\ Len(input') = Len(input)
      /\ \A i \in 1..Len(input) : ~input'[i].gen
  <2>1. ASSUME NEW b \in InBlock
        PROVE  [b EXCEPT !.gen = FALSE] \in InBlock /\ ~[b EXCEPT !.gen = FALSE].gen
    BY DEF InBlock
  <2>2. input' = [i \in 1..Len(input) |-> [input[i] EXCEPT !.gen = FALSE]]
    BY <1>1 DEF SetMask
  <2>3. \A i \in 1..Len(input) : input[i] \in InBlock
    BY <1>1
  <2>4. input' \in [1..Len(input) -> InBlock]
    BY <2>1, <2>2, <2>3
  <2>5. \A i \in 1..Len(input) : ~input'[i].gen
    BY <2>1, <2>2, <2>3
  <2> QED  BY <1>1, <2>4, <2>5, Marked
<1>3. /\ output' \in Seq(OutBlock) /\ Len(output') = Len(output)
      /\ \A i \in 1..Len(output) : ~output'[i].gen
  <2>1. Stale \in OutBlock /\ ~Stale.gen
    <3>1. 0 \in Ages
      BY HushBounds DEF Ages
    <3> QED  BY <3>1 DEF Stale, OutBlock
  <2>2. output' = [i \in 1..Len(output) |-> Stale]
    BY <1>1 DEF SetMask
  <2>3. output' \in [1..Len(output) -> OutBlock]
    BY <2>1, <2>2
  <2> QED  BY <1>1, <2>1, <2>2, <2>3, Marked
<1>4. worker' \in WorkerVars /\ ~worker'.gen /\ worker'.pristine = worker.pristine
      /\ worker'.warm = worker.warm /\ worker'.at = worker.at
  BY <1>1 DEF SetMask, WorkerVars
<1>5. cb' \in CallbackVars /\ ~Pushing' /\ mask' \in BOOLEAN /\ restart' = TRUE
  BY AsksTyped DEF SetMask
<1>6. HushTyped' /\ Renewed'
  BY <1>2, <1>3, <1>4, <1>5 DEF HushTyped, Renewed
<1>7. Line'
  BY <1>4 DEF HushInv, Line, Streams
<1>8. Denoising'
  <2> SUFFICES ASSUME worker.at = "denoise" PROVE input' # <<>> /\ ~input'[1].gen
    BY <1>4 DEF HushInv, Denoising
  <2>1. 1 \in 1..Len(input)
    BY <1>1 DEF HushInv, Denoising
  <2> QED  BY <1>2, <2>1
<1>9. WetAligned'
  <2>1. DOMAIN output' = 1..Len(output)
    BY <1>3
  <2> QED  BY <1>3, <2>1 DEF WetAligned
<1> QED  BY <1>6, <1>7, <1>8, <1>9 DEF HushInv

\* The worker turns to something else.
LineKept ==
    /\ worker'.pristine = worker.pristine /\ worker'.warm = worker.warm /\ worker'.gen = worker.gen
    /\ worker'.next = worker.next /\ worker'.out = worker.out /\ worker'.held = worker.held

LEMMA TurnsTo ==
  ASSUME worker \in WorkerVars, NEW pc \in WorkerPlace, Goes(pc) \/ GivesWay(pc)
  PROVE  worker' \in WorkerVars /\ worker'.at = pc /\ LineKept
<1>1. CASE Goes(pc)
  BY <1>1 DEF Goes, WorkerVars, LineKept
<1>2. CASE worker' = [worker EXCEPT !.at = pc, !.state = "Overloaded", !.cooling = TRUE]
  BY <1>2 DEF WorkerVars, WorkerState, LineKept
<1> QED  BY <1>1, <1>2 DEF GivesWay

\* The next block, if it is the continuation, leaves the delay line where the
\* last one left it.
LEMMA TakeKeeps == ASSUME HushConstants, HushInv, TakeBlock PROVE HushInv'
<1> DEFINE b == Head(input)
           now == IF worker.gen THEN worker ELSE Reset
<1>1. /\ cb \in CallbackVars /\ input \in Seq(InBlock) /\ input # <<>> /\ output \in Seq(OutBlock)
      /\ worker \in WorkerVars /\ worker.at \in {"take", "more"}
      /\ UNCHANGED <<cb, clock, output>>
  BY DEF HushInv, HushTyped, TakeBlock
<1>2. Calls
  BY <1>1 DEF Calls, Pushing, HushInv, HushTyped, clock
<1> HIDE DEF b, now
<1>3. CASE Behind(b.end)
  <2>1. GivesWay("more") /\ input' = Tail(input)
    BY <1>3 DEF TakeBlock, b
  <2>2. Quiet
    BY <1>1, <2>1, TurnsTo DEF Quiet, LineKept, WorkerPlace
  <2> QED  BY <1>2, <2>2, QuietKeeps
<1>4. CASE ~Behind(b.end) /\ (~b.gen \/ ~b.ep \/ (~worker.pristine /\ b.end + 1 # worker.next))
  <2>1. Goes("more") /\ input' = Tail(input)
    BY <1>4 DEF TakeBlock, b
  <2>2. Quiet
    BY <1>1, <2>1, TurnsTo DEF Quiet, LineKept, WorkerPlace
  <2> QED  BY <1>2, <2>2, QuietKeeps
<1>5. CASE ~Behind(b.end) /\ b.gen /\ b.ep /\ (worker.pristine \/ b.end + 1 = worker.next)
  <2>1. /\ worker' = [now EXCEPT !.at = "denoise", !.next = b.end, !.pristine = FALSE,
                            !.out = IF now.pristine THEN b.end + 1 ELSE @]
        /\ input' = input
    BY <1>5 DEF TakeBlock, b, now
  <2>2. b \in InBlock /\ b = input[1] /\ 1 \in 1..Len(input)
    BY <1>1 DEF b
  <2>3. b.end \in Ages /\ b.end + 1 \in Ages /\ b.end + 1 < Far /\ Far \in Nat /\ b.end \in Int
    BY <1>5, <2>2, HushBounds DEF Behind, InBlock, Ages
  <2>4. now \in WorkerVars /\ now.gen /\ (now.pristine => now.warm)
    <3>1. 0 \in Ages
      BY HushBounds DEF Ages
    <3> QED  BY <1>1, <3>1 DEF Reset, WorkerVars, HushInv, Line, now
  <2>5. ~now.pristine => worker.gen /\ ~worker.pristine /\ now = worker
    BY <1>1 DEF Reset, WorkerVars, now
  <2>6. ~now.pristine => now.out = b.end + 1 /\ (~now.warm /\ now.out < Far => now.held = now.out + 1)
    <3> SUFFICES ASSUME ~now.pristine
                 PROVE  now.out = b.end + 1 /\ (~now.warm /\ now.out < Far => now.held = now.out + 1)
      OBVIOUS
    <3>1. Streams /\ now = worker /\ worker.next = b.end + 1 /\ worker.next < Far
      BY <1>1, <1>5, <2>3, <2>5 DEF Streams
    <3> QED  BY <1>1, <3>1 DEF HushInv, Line
  <2>7. worker' \in WorkerVars /\ worker'.at = "denoise" /\ worker'.gen /\ ~worker'.pristine
        /\ worker'.next = b.end /\ worker'.warm = now.warm
        /\ worker'.out = b.end + 1 /\ (~now.pristine => worker'.held = now.held)
    BY <2>1, <2>3, <2>4, <2>6 DEF WorkerVars, WorkerPlace
  <2>8. Cut(b.end + 1) = b.end + 1
    BY <2>3 DEF Cut, Ages
  <2>9. Line'
    <3>1. ASSUME ~worker'.warm, worker'.out < Far PROVE worker'.held = worker'.out + 1
      BY <2>4, <2>6, <2>7, <3>1
    <3> QED  BY <2>7, <2>8, <3>1 DEF Line, Streams
  <2>10. Denoising'
    BY <1>1, <1>5, <2>1, <2>2, <2>7 DEF Denoising, Streams
  <2>11. ~restart
    BY <1>5, <2>2 DEF HushInv, Renewed, b
  <2>12. HushTyped' /\ Renewed' /\ WetAligned'
    BY <1>1, <2>1, <2>7, <2>11 DEF HushInv, HushTyped, Renewed, Pushing, WetAligned, clock
  <2> QED  BY <2>9, <2>10, <2>12 DEF HushInv
<1> QED  BY <1>3, <1>4, <1>5

\* What comes out is aligned, and the line moves on by one block.
LEMMA DenoiseKeeps == ASSUME HushConstants, HushInv, Denoise PROVE HushInv'
<1> DEFINE b == Head(input)
           wet == IF b.gen THEN [gen |-> TRUE, at |-> worker.out, src |-> worker.held] ELSE Stale
<1>1. /\ cb \in CallbackVars /\ input \in Seq(InBlock) /\ output \in Seq(OutBlock)
      /\ worker \in WorkerVars /\ worker.at = "denoise" /\ input # <<>>
      /\ UNCHANGED <<cb, clock>> /\ input' = Tail(input)
  BY DEF HushInv, HushTyped, Denoise, WorkerAt, Denoising
<1>2. b \in InBlock /\ b = input[1] /\ 1 \in 1..Len(input)
  BY <1>1
<1>3. /\ b.end \in Int /\ worker.out \in Int
      /\ b.end \in Ages /\ worker.next \in Ages /\ worker.out \in Ages /\ worker.held \in Ages
         /\ Ages \subseteq Int
      /\ Far \in Nat /\ 0 \in Ages
  BY <1>1, <1>2, HushBounds DEF InBlock, WorkerVars, Ages
<1>4. Cut(worker.out - 1) \in Ages /\ Cut(b.end + 1) \in Ages
  BY <1>3, CutTyped
<1>5. output' = output \/ (~worker.warm /\ output' = Append(output, wet))
  BY DEF Denoise, Emitted
<1> HIDE DEF b
<1>6. /\ worker' \in WorkerVars /\ worker'.at = "more" /\ ~worker'.warm /\ worker'.gen = worker.gen
         /\ worker'.pristine = worker.pristine
      /\ worker'.next = worker.next /\ worker'.out = Cut(worker.out - 1)
         /\ worker'.held = Cut(b.end + 1)
  <2> DEFINE done == [worker EXCEPT !.at = "more", !.warm = FALSE, !.out = Cut(@ - 1),
                                !.held = Cut(b.end + 1)]
  <2>1. /\ done \in WorkerVars /\ done.at = "more" /\ ~done.warm /\ done.gen = worker.gen
        /\ done.pristine = worker.pristine /\ done.next = worker.next
           /\ done.out = Cut(worker.out - 1)
        /\ done.held = Cut(b.end + 1) /\ done.state = worker.state
    BY <1>1, <1>4 DEF WorkerVars, WorkerPlace
  <2> DEFINE begun == IF worker.state = "Starting" THEN "Running" ELSE worker.state
  <2>2. \/ worker' = [done EXCEPT !.state = begun]
        \/ worker' = [done EXCEPT !.state = "Overloaded", !.cooling = TRUE]
        \/ worker' = [done EXCEPT !.state = "Running", !.attempts = 0]
    BY DEF Denoise, b
  <2> HIDE DEF done
  <2>3. PICK st \in WorkerState : \/ worker' = [done EXCEPT !.state = st]
                                 \/ worker' = [done EXCEPT !.state = st, !.cooling = TRUE]
                                 \/ worker' = [done EXCEPT !.state = st, !.attempts = 0]
    <3>1. worker.state \in WorkerState
      BY <1>1 DEF WorkerVars
    <3> QED  BY <2>2, <3>1 DEF WorkerState
  <2>4. CASE worker' = [done EXCEPT !.state = st]
    BY <2>1, <2>4 DEF WorkerVars
  <2>5. CASE worker' = [done EXCEPT !.state = st, !.cooling = TRUE]
    BY <2>1, <2>5 DEF WorkerVars
  <2>6. CASE worker' = [done EXCEPT !.state = st, !.attempts = 0]
    BY <2>1, <2>6 DEF WorkerVars
  <2> QED  BY <2>3, <2>4, <2>5, <2>6
<1>7. /\ wet \in OutBlock /\ (wet.gen => ~restart)
      /\ ~worker.warm /\ wet.gen /\ wet.at < Far => wet.src = wet.at + 1
  <2>1. CASE b.gen
    <3>1. wet = [gen |-> TRUE, at |-> worker.out, src |-> worker.held] /\ Streams /\ ~restart
      BY <1>1, <1>2, <2>1 DEF HushInv, Denoising, Renewed
    <3>2. ~worker.warm /\ worker.out < Far => worker.held = worker.out + 1
      BY <3>1 DEF HushInv, Line
    <3> HIDE DEF wet
    <3>3. wet.gen /\ wet.at = worker.out /\ wet.src = worker.held /\ wet \in OutBlock
      BY <1>3, <3>1 DEF OutBlock
    <3> QED  BY <3>1, <3>2, <3>3
  <2>2. CASE ~b.gen
    BY <1>3, <2>2 DEF Stale, OutBlock
  <2> QED  BY <2>1, <2>2
<1> HIDE DEF wet
<1>8. /\ output' \in Seq(OutBlock)
      /\ \A i \in 1..Len(output') : (i \in 1..Len(output) /\ output'[i] = output[i])
                                   \/ (~worker.warm /\ output'[i] = wet)
  <2>1. CASE output' = output
    BY <1>1, <2>1
  <2>2. CASE ~worker.warm /\ output' = Append(output, wet)
    <3>1. \A i \in 1..Len(output') : i \in 1..(Len(output) + 1)
          /\ (i <= Len(output) => i \in 1..Len(output))
      BY <1>1, <1>7, <2>2, Added
    <3> QED  BY <1>1, <1>7, <2>2, <3>1, Added
  <2> QED  BY <1>5, <2>1, <2>2
<1>9. /\ input' \in Seq(InBlock)
      /\ \A i \in 1..Len(input') : i + 1 \in 1..Len(input) /\ input'[i] = input[i + 1]
  BY <1>1, Dropped
<1>10. Renewed' /\ HushTyped'
  BY <1>1, <1>6, <1>7, <1>8, <1>9 DEF HushInv, Renewed, HushTyped, Pushing, clock
<1>11. WetAligned'
  <2>1. DOMAIN output = 1..Len(output) /\ DOMAIN output' = 1..Len(output')
    BY <1>1, <1>8
  <2> QED  BY <1>7, <1>8, <2>1 DEF HushInv, WetAligned
<1>12. Line'
  <2> SUFFICES ASSUME Streams'
               PROVE  /\ worker'.next < Far => worker'.out = worker'.next
                      /\ worker'.out < Far => worker'.held = worker'.out + 1
    BY <1>1, <1>6 DEF Line, Streams, HushInv, Denoising
  <2>1. Streams /\ b.end = worker.next
    BY <1>1, <1>2, <1>6 DEF Streams, HushInv, Denoising
  <2>2. worker.out = Cut(worker.next + 1)
    BY <1>1, <2>1 DEF HushInv, Line
  <2> QED  BY <1>3, <1>6, <2>1, <2>2 DEF Cut, Ages
<1>13. Denoising'
  BY <1>6 DEF Denoising
<1> QED  BY <1>10, <1>11, <1>12, <1>13 DEF HushInv

\* The other steps of the worker, and the end of a cooldown.
LEMMA WorkerKeeps ==
  ASSUME HushConstants, HushInv, Worker \/ Cooled
  PROVE  HushInv'
<1>1. /\ cb \in CallbackVars /\ worker \in WorkerVars /\ MaxAttempts \in Nat
  BY HushBounds DEF HushInv, HushTyped
<1>2. ASSUME UNCHANGED <<cb, clock>> PROVE Calls
  BY <1>2 DEF Calls, Pushing, HushInv, HushTyped, clock
<1>3. ASSUME UNCHANGED <<cb, clock, output>>, NEW pc \in WorkerPlace,
             Goes(pc) \/ GivesWay(pc),
             input' = input, pc = "end" \/ (worker.at \notin {"denoise", "end"} /\ pc # "denoise")
      PROVE  HushInv'
  BY <1>1, <1>2, <1>3, TurnsTo, QuietKeeps DEF Quiet, LineKept
<1>4. CASE Loop
  <2>1. worker' \in WorkerVars /\ LineKept /\ worker'.at \in {"recover", "overloaded", "backlog"}
    BY <1>1, <1>4 DEF Loop, WorkerVars, WorkerPlace, WorkerState, LineKept
  <2> QED  BY <1>1, <1>2, <1>4, <2>1, QuietKeeps DEF Loop, WorkerAt, Quiet, LineKept
<1>5. CASE Recover
  <2>1. worker' \in WorkerVars /\ LineKept /\ worker'.at = "reset"
    BY <1>1, <1>5 DEF Recover, WorkerVars, WorkerPlace, WorkerState, LineKept
  <2>2. cb' \in CallbackVars /\ cb'.at = cb.at /\ cb'.left = cb.left
    BY <1>1, <1>5 DEF Recover, CallbackVars
  <2>3. Calls
    BY <1>5, <2>2 DEF Recover, Calls, Pushing, HushInv, HushTyped
  <2> QED  BY <1>1, <1>5, <2>1, <2>3, QuietKeeps DEF Recover, WorkerAt, Quiet, LineKept
<1>6. CASE ResetsDone
  <2>1. worker' \in WorkerVars /\ worker'.pristine /\ worker'.warm /\ worker'.at = "clear"
    <3>1. 0 \in Ages
      BY HushBounds DEF Ages
    <3> QED  BY <1>1, <1>6, <3>1 DEF ResetsDone, Reset, WorkerVars, WorkerPlace, WorkerState
  <2>2. UNCHANGED <<cb, clock, input, output>>
    BY <1>6 DEF ResetsDone
  <2>3. HushTyped' /\ Renewed' /\ Line' /\ Denoising' /\ WetAligned'
    BY <1>1, <2>1, <2>2 DEF HushInv, HushTyped, Renewed, Line, Streams, Denoising, WetAligned,
        Pushing, clock
  <2> QED  BY <2>3 DEF HushInv
<1>7. CASE ResetFails
  BY <1>3, <1>7 DEF ResetFails, WorkerAt, WorkerPlace
<1>8. CASE Clear
  BY <1>3, <1>8 DEF Clear, WorkerAt, WorkerPlace
<1>9. CASE Open
  BY <1>3, <1>9 DEF Open, WorkerAt, WorkerPlace
<1>10. CASE Overloaded
  <2>1. worker' \in WorkerVars /\ LineKept /\ worker'.at = "loop"
    <3>1. PICK k \in Nat : worker' = [worker EXCEPT !.at = "loop", !.attempts = k]
      <4>1. worker.attempts \in Nat /\ worker.attempts + 1 \in Nat
        BY <1>1 DEF WorkerVars
      <4> QED  BY <1>10, <4>1 DEF Overloaded
    <3> QED  BY <1>1, <3>1 DEF WorkerVars, WorkerPlace, LineKept
  <2> QED  BY <1>1, <1>2, <1>10, <2>1, QuietKeeps DEF Overloaded, WorkerAt, Quiet, LineKept
<1>11. CASE Backlog
  <2>1. Goes("take") \/ GivesWay("loop")
    BY <1>11 DEF Backlog
  <2> QED  BY <1>3, <1>11, <2>1 DEF Backlog, WorkerAt, WorkerPlace
<1>12. CASE EndRound
  BY <1>3, <1>12 DEF EndRound, WorkerAt, WorkerPlace
<1>13. CASE DenoiseFails
  BY <1>3, <1>13 DEF DenoiseFails, WorkerAt, WorkerPlace
<1>14. CASE Cooled
  <2>1. worker' \in WorkerVars /\ LineKept /\ worker'.at = worker.at
    BY <1>1, <1>14 DEF Cooled, WorkerVars, LineKept
  <2> QED  BY <1>1, <1>2, <1>14, <2>1, QuietKeeps DEF Cooled, Quiet, LineKept
<1> QED  BY <1>4, <1>5, <1>6, <1>7, <1>8, <1>9, <1>10, <1>11, <1>12, <1>13, <1>14, TakeKeeps,
         DenoiseKeeps
         DEF Worker

LEMMA HushStep == ASSUME HushConstants, HushInv, [HushNext]_(hushVars) PROVE HushInv'
<1>1. CASE UNCHANGED hushVars
  BY <1>1 DEF HushInv, HushTyped, Renewed, Line, Streams, Denoising, WetAligned, Pushing,
      hushVars, clock
<1> QED  BY <1>1, CallbackKeeps, SetMaskKeeps, WorkerKeeps DEF HushNext

\* Wet audio is never shifted against the dry audio it replaces, through every
\* resynchronization, overload, retry, change of channels and of generation:
\* a block of the current generation holds the input of its position.
THEOREM Aligned ==
  ASSUME HushConstants
  PROVE  HushSpec => []WetAligned
<1>1. HushInit => HushInv
  BY HushBegins
<1>2. HushInv /\ [HushNext]_(hushVars) => HushInv'
  BY HushStep
<1>3. HushInv => WetAligned
  BY DEF HushInv
<1> QED  BY <1>1, <1>2, <1>3, PTL DEF HushSpec

================================================================================
