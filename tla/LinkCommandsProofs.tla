------------------------- MODULE LinkCommandsProofs -------------------------
(***************************************************************************)
(* Undo, redo, roll-back and the driver's sweep, proved for any finite set *)
(* of pairs, groups and lists of rules of any length, any history of       *)
(* operations and any number of failing calls and foreign changes.         *)
(*                                                                         *)
(* The stacks are a history and a future of the graph (Past, Future); what *)
(* an operation in progress has made and removed so far tells the graph it *)
(* began with (Ledger), and what is left of its script leads to the graph  *)
(* it is after (Leads).  All of it is said of the pairs nobody spoilt.     *)
(***************************************************************************)
EXTENDS LinkCommands, FiniteSetTheorems, SequenceTheorems, TLAPS

Ops   == {"connect", "connect_many", "disconnect", "disconnect_many", "disconnect_all", "reroute"}
Calls == {"add", "drop", "cut", "dropAllow", "cutAllow", "rule"}
Step  == [call : Calls, pair : Pairs]
Cmd   == [op : Ops \cup {"activate"}, keys : Seq(Pairs), done : Seq(Pairs),
          before : SUBSET Pairs, after : SUBSET Pairs]
Jobs  == [kind : {"execute", "redo", "undo", "activate"}, cmd : Cmd, todo : Seq(Step),
          created : Seq(Pairs), removed : Seq(Pairs), auto : BOOLEAN, failing : BOOLEAN,
          stranded : Nat, before : SUBSET Pairs]

TypeInv ==
    /\ links \subseteq Pairs /\ blocked \subseteq Pairs
    /\ undo_stack \in Seq(Cmd) /\ redo_stack \in Seq(Cmd)
    /\ job \in {NoJob} \cup Jobs

Connects(cmd)    == cmd.op \in {"connect", "connect_many"}
Disconnects(cmd) == cmd.op \in {"disconnect", "disconnect_many", "disconnect_all"}
Reroutes(cmd)    == cmd.op = "reroute"

Ours == Pairs \ spoilt

\* A reroute knows its old and its new route.
Routed(cmd) == Reroutes(cmd) => Len(cmd.keys) = 2 /\ cmd.keys[1] # cmd.keys[2]

\* What an execution in the graph G makes of the pair p.
Aimed(cmd, G, p) ==
    CASE Connects(cmd) -> p \in G \/ Contains(cmd.keys, p)
      [] cmd.op \in {"disconnect", "disconnect_many"} -> p \in G /\ ~Contains(cmd.keys, p)
      [] cmd.op = "disconnect_all" -> p \in G /\ p \in Observed
      [] Reroutes(cmd) -> p = cmd.keys[2] \/ (p \in G /\ p # cmd.keys[1])

\* A command on a stack tells what it found, what it left and what to undo.
Recorded(cmd, p) ==
    /\ p \in cmd.after <=> Aimed(cmd, cmd.before, p)
    /\ Connects(cmd) \/ Reroutes(cmd) => (Contains(cmd.done, p) => p \notin cmd.before)
    /\ Disconnects(cmd) => (Contains(cmd.done, p) => p \in cmd.before)
    /\ Reroutes(cmd) /\ p = cmd.keys[1] => p \in cmd.before
    /\ ~Contains(cmd.done, p) /\ ~(Reroutes(cmd) /\ p = cmd.keys[1])
         => (p \in cmd.after <=> p \in cmd.before)

Entry(cmd) == cmd.op \in Ops /\ Routed(cmd) /\ \A p \in Ours : Recorded(cmd, p)

\* The graph the operation in progress started from, or the present one.
Basis == IF job = NoJob THEN links ELSE job.before

\* The history behind a graph, and the one that can be redone from it.
Past(stack, graph) ==
    /\ \A k \in 1..Len(stack) : Entry(stack[k])
    /\ stack # <<>> => Agree(stack[Len(stack)].after, graph)
    /\ \A k \in 2..Len(stack) : Agree(stack[k-1].after, stack[k].before)
Future(stack, graph) ==
    /\ \A k \in 1..Len(stack) : Entry(stack[k])
    /\ stack # <<>> => Agree(stack[Len(stack)].before, graph)
    /\ \A k \in 2..Len(stack) : Agree(stack[k-1].before, stack[k].after)

StackInv == Past(undo_stack, Basis) /\ Future(redo_stack, Basis)

\* Whose command runs.
Runs(j) == j.kind \in {"execute", "redo"}
Commanded(j) ==
    /\ j.kind # "activate" => j.cmd.op \in Ops /\ Routed(j.cmd)
    /\ j.kind = "redo" => redo_stack # <<>> /\ j.cmd = redo_stack[Len(redo_stack)]
    /\ j.kind = "undo" => undo_stack # <<>> /\ j.cmd = undo_stack[Len(undo_stack)]
    /\ Runs(j) /\ Reroutes(j.cmd) /\ j.cmd.keys[1] \in Ours => j.cmd.keys[1] \in j.before

\* What the calls of an execution have in common.
Uniform(j) ==
    Runs(j) /\ ~j.failing =>
      /\ Connects(j.cmd) => j.removed = <<>> /\ \A k \in 1..Len(j.todo) : j.todo[k].call = "add"
      /\ Disconnects(j.cmd) => j.created = <<>> /\ \A k \in 1..Len(j.todo) : j.todo[k].call = "drop"
      /\ Reroutes(j.cmd) =>
           /\ \A p \in Pairs : Contains(j.created, p) => p = j.cmd.keys[2]
           /\ \A p \in Pairs : Contains(j.removed, p) => p = j.cmd.keys[1]
           /\ \A k \in 1..Len(j.todo) :
                \/ j.todo[k].call = "cut" /\ j.todo[k].pair = j.cmd.keys[1]
                \/ j.todo[k].call = "add" /\ j.todo[k].pair = j.cmd.keys[2]

Rules(todo) == \E k \in 1..Len(todo) : todo[k].call = "rule"
Perseveres(j) == j.kind = "undo" /\ j.cmd.op \in {"disconnect_many", "disconnect_all"}
Scripted(j) ==
    /\ ~j.failing /\ ~Perseveres(j) => j.stranded = 0
    /\ j.failing \/ j.kind # "activate" => ~Rules(j.todo)

\* The graph G is what the operation found, but for what it noted down.
Ledger(j, G, p) ==
    /\ Contains(j.removed, p) => p \in j.before
    /\ p \in G <=> Contains(j.created, p) \/ (p \in j.before /\ ~Contains(j.removed, p))
    /\ Contains(j.created, p) /\ ~Contains(j.removed, p) => p \notin j.before
    /\ \A i, k \in 1..Len(j.created) : j.created[i] = p /\ j.created[k] = p => i = k

\* The last call that is left for a pair decides what becomes of it.
Leads(todo, G, p, goal) ==
    /\ \A k \in 1..Len(todo) :
         todo[k].pair = p /\ (\A i \in (k+1)..Len(todo) : todo[i].pair # p)
           => (todo[k].call = "add" <=> goal)
    /\ (\A k \in 1..Len(todo) : todo[k].pair # p) => (p \in G <=> goal)

Goal(j, p) == IF j.failing THEN p \in j.before
              ELSE IF j.kind = "undo" THEN p \in j.cmd.before
              ELSE Aimed(j.cmd, j.before, p)

Tracked(j, G, p) ==
    /\ ~j.failing => Ledger(j, G, p)
    /\ j.failing \/ j.kind # "activate" => Leads(j.todo, G, p, Goal(j, p))

JobInv ==
    job # NoJob =>
      /\ Commanded(job) /\ Uniform(job) /\ Scripted(job)
      /\ job.stranded = 0 => \A p \in Ours : Tracked(job, links, p)

IInv == TypeInv /\ StackInv /\ JobInv

-----------------------------------------------------------------------------
(* Sequences.                                                              *)

Below == {p \in Nat \X Nat : p[1] < p[2]}

LEMMA Smallest ==
  ASSUME NEW S \in SUBSET Nat, S # {}
  PROVE  \E x \in S : \A y \in S : x <= y
<1>1. IsWellFoundedOn(Below, Nat)
  BY NatLessThanWellFounded DEF OpToRel, Below
<1>2. PICK x \in S : \A y \in S : <<y, x>> \notin Below
  BY <1>1, WFMin
<1>3. ASSUME NEW y \in S, y < x
      PROVE  <<y, x>> \in Below
  <2>1. <<y, x>> \in Nat \X Nat /\ <<y, x>>[1] = y /\ <<y, x>>[2] = x
    OBVIOUS
  <2> QED  BY <1>3, <2>1 DEF Below
<1>4. ASSUME NEW y \in S
      PROVE  x <= y
  <2>1. ~(y < x) /\ x \in Nat /\ y \in Nat
    BY <1>2, <1>3
  <2> QED  BY <2>1
<1> QED  BY <1>4

LEMMA Appended ==
  ASSUME NEW S, NEW s \in Seq(S), NEW x \in S
  PROVE  /\ Append(s, x) \in Seq(S) /\ Len(s) \in Nat /\ Len(Append(s, x)) = Len(s) + 1
         /\ \A k \in 1..Len(s) : Append(s, x)[k] = s[k]
         /\ Append(s, x)[Len(s) + 1] = x /\ Append(s, x) # <<>>
  OBVIOUS

LEMMA Shortened ==
  ASSUME NEW S, NEW s \in Seq(S), s # <<>>
  PROVE  /\ Tail(s) \in Seq(S) /\ Len(s) \in Nat /\ Len(s) >= 1 /\ Len(Tail(s)) = Len(s) - 1
         /\ \A k \in 1..Len(Tail(s)) : Tail(s)[k] = s[k + 1]
         /\ Head(s) = s[1] /\ s[1] \in S
  OBVIOUS

LEMMA Joined ==
  ASSUME NEW S, NEW s \in Seq(S), NEW t \in Seq(S)
  PROVE  /\ s \o t \in Seq(S) /\ Len(s) \in Nat /\ Len(t) \in Nat /\ Len(s \o t) = Len(s) + Len(t)
         /\ \A k \in 1..Len(s) : (s \o t)[k] = s[k]
         /\ \A k \in 1..Len(t) : (s \o t)[Len(s) + k] = t[k]
  OBVIOUS

LEMMA FrontOf ==
  ASSUME NEW S, NEW s \in Seq(S), s # <<>>
  PROVE  /\ Front(s) \in Seq(S) /\ Len(s) \in Nat /\ Len(s) >= 1 /\ Len(Front(s)) = Len(s) - 1
         /\ \A k \in 1..Len(Front(s)) : Front(s)[k] = s[k]
         /\ Last(s) = s[Len(s)] /\ s[Len(s)] \in S
<1> DEFINE n == Len(s)
<1>1. n \in Nat /\ n >= 1
  OBVIOUS
<1>2. n \in 1..Len(s) /\ Len(s) = n
  OBVIOUS
<1> HIDE DEF n
<1>3. \A i \in 1..(n - 1) : s[i] \in S
  BY <1>1, <1>2
<1>4. /\ SubSeq(s, 1, n - 1) \in Seq(S)
      /\ Len(SubSeq(s, 1, n - 1)) = IF 1 <= n - 1 THEN n - 1 - 1 + 1 ELSE 0
      /\ \A i \in 1..(n - 1 - 1 + 1) : SubSeq(s, 1, n - 1)[i] = s[1 + i - 1]
  <2>1. 1 \in Int /\ n - 1 \in Int
    BY <1>1
  <2> QED  BY <1>3, <2>1, SubSeqProperties
<1>5. Front(s) = SubSeq(s, 1, n - 1)
  BY <1>2 DEF Front
<1>6. Len(Front(s)) = n - 1
  BY <1>1, <1>4, <1>5
<1>7. ASSUME NEW i \in 1..(n - 1)
      PROVE  Front(s)[i] = s[i]
  <2>1. i \in 1..(n - 1 - 1 + 1) /\ 1 + i - 1 = i
    BY <1>1
  <2> QED  BY <1>4, <1>5, <2>1
<1>8. s[n] \in S
  BY <1>2
<1> QED  BY <1>1, <1>2, <1>4, <1>5, <1>6, <1>7, <1>8 DEF Last

\* The first x is taken out, and what is behind it moves up.
LEMMA RemoveFirstSplits ==
  ASSUME NEW S, NEW s \in Seq(S), NEW x, Contains(s, x)
  PROVE  LET r == RemoveFirst(s, x)
         IN  /\ r \in Seq(S) /\ Len(s) \in Nat /\ Len(r) = Len(s) - 1
             /\ \E i \in 1..Len(s) :
                  /\ s[i] = x
                  /\ \A k \in 1..Len(r) : r[k] = IF k < i THEN s[k] ELSE s[k + 1]
<1> DEFINE I == {i \in 1..Len(s) : s[i] = x}
           m == Min(I)
           front == SubSeq(s, 1, m - 1)
           back == SubSeq(s, m + 1, Len(s))
<1>1. Len(s) \in Nat /\ I # {} /\ I \subseteq Nat
  BY DEF Contains
<1>2. \E i \in I : \A j \in I : i <= j
  <2> HIDE DEF I
  <2> QED  BY <1>1, Smallest
<1>3. m \in I
  <2> HIDE DEF I
  <2> QED  BY <1>2 DEF Min
<1>4. RemoveFirst(s, x) = front \o back
  BY <1>1 DEF RemoveFirst, RemoveAt, SelectInSeq, Contains
<1>5. m \in 1..Len(s) /\ s[m] = x
  BY <1>3
<1> HIDE DEF m, I
<1>6. front \in Seq(S) /\ Len(front) = m - 1 /\ \A k \in 1..(m - 1) : front[k] = s[k]
  BY <1>1, <1>5
<1>7. back \in Seq(S) /\ Len(back) = Len(s) - m /\ \A k \in 1..(Len(s) - m) : back[k] = s[m + k]
  <2>1. m + 1 \in Int /\ Len(s) \in Int /\ \A i \in (m + 1)..Len(s) : s[i] \in S
    BY <1>1, <1>5
  <2>2. /\ back \in Seq(S) /\ Len(back) = IF m + 1 <= Len(s) THEN Len(s) - (m + 1) + 1 ELSE 0
        /\ \A i \in 1..(Len(s) - (m + 1) + 1) : back[i] = s[m + 1 + i - 1]
    BY <2>1, SubSeqProperties
  <2> HIDE DEF back
  <2>3. Len(back) = Len(s) - m
    <3>1. CASE m < Len(s)
      <4>1. m + 1 <= Len(s) /\ Len(s) - (m + 1) + 1 = Len(s) - m
        BY <1>1, <1>5, <3>1
      <4> QED  BY <2>2, <4>1
    <3>2. CASE m = Len(s)
      <4>1. ~(m + 1 <= Len(s)) /\ 0 = Len(s) - m
        BY <1>1, <1>5, <3>2
      <4> QED  BY <2>2, <4>1
    <3> QED  BY <1>1, <1>5, <3>1, <3>2
  <2>4. ASSUME NEW k \in 1..(Len(s) - m)
        PROVE  back[k] = s[m + k]
    <3>1. k \in 1..(Len(s) - (m + 1) + 1) /\ m + 1 + k - 1 = m + k
      BY <1>1, <1>5
    <3>2. back[k] = s[m + 1 + k - 1]
      BY <2>2, <3>1
    <3> QED  BY <3>1, <3>2
  <2> QED  BY <2>2, <2>3, <2>4
<1> HIDE DEF front, back
<1>8. front \o back \in Seq(S) /\ Len(front \o back) = Len(s) - 1
  <2>1. front \o back \in Seq(S) /\ Len(front \o back) = Len(front) + Len(back)
    BY <1>6, <1>7, Joined
  <2>2. (m - 1) + (Len(s) - m) = Len(s) - 1
    BY <1>1, <1>5
  <2> QED  BY <1>6, <1>7, <2>1, <2>2
<1>9. ASSUME NEW k \in 1..(Len(s) - 1)
      PROVE  (front \o back)[k] = IF k < m THEN s[k] ELSE s[k + 1]
  <2>1. CASE k < m
    BY <1>1, <1>5, <1>6, <1>7, <2>1, Joined
  <2>2. CASE ~(k < m)
    <3>1. k - (m - 1) \in 1..(Len(s) - m) /\ (m - 1) + (k - (m - 1)) = k /\ m + (k - (m - 1)) = k + 1
      BY <1>1, <1>5, <2>2
    <3>2. (front \o back)[Len(front) + (k - (m - 1))] = back[k - (m - 1)]
      BY <1>6, <1>7, <3>1, Joined
    <3> QED  BY <1>6, <1>7, <2>2, <3>1, <3>2
  <2> QED  BY <2>1, <2>2
<1> QED  BY <1>1, <1>4, <1>5, <1>8, <1>9

Once(s, x) == \A i, k \in 1..Len(s) : s[i] = x /\ s[k] = x => i = k

LEMMA RemovedOnce ==
  ASSUME NEW S, NEW s \in Seq(S), NEW x, Contains(s, x), NEW y
  PROVE  LET r == RemoveFirst(s, x)
         IN  /\ r \in Seq(S)
             /\ Once(s, y) => Once(r, y)
             /\ Contains(r, y) => Contains(s, y)
             /\ x # y /\ Contains(s, y) => Contains(r, y)
             /\ Once(s, x) => ~Contains(r, x)
<1> DEFINE r == RemoveFirst(s, x)
<1>1. r \in Seq(S) /\ Len(s) \in Nat /\ Len(r) = Len(s) - 1
  BY RemoveFirstSplits
<1>2. PICK i \in 1..Len(s) :
         /\ s[i] = x
         /\ \A k \in 1..Len(r) : r[k] = IF k < i THEN s[k] ELSE s[k + 1]
  BY RemoveFirstSplits
<1> HIDE DEF r
<1> DEFINE Old(k) == IF k < i THEN k ELSE k + 1
<1>3. ASSUME NEW k \in 1..Len(r)
      PROVE  Old(k) \in 1..Len(s) /\ Old(k) # i /\ r[k] = s[Old(k)]
  BY <1>1, <1>2
<1>4. ASSUME NEW k \in 1..Len(s), k # i
      PROVE  \E n \in 1..Len(r) : r[n] = s[k]
  <2>1. CASE k < i
    <3>1. k \in 1..Len(r)
      BY <1>1, <2>1
    <3> QED  BY <1>2, <2>1, <3>1
  <2>2. CASE ~(k < i)
    <3>1. k - 1 \in 1..Len(r) /\ ~(k - 1 < i) /\ (k - 1) + 1 = k
      BY <1>1, <1>4, <2>2
    <3> QED  BY <1>2, <3>1
  <2> QED  BY <2>1, <2>2
<1>5. \A k, n \in 1..Len(r) : Old(k) = Old(n) => k = n
  BY <1>1, <1>2
<1> HIDE DEF Old
<1>6. Once(s, y) => Once(r, y)
  BY <1>3, <1>5 DEF Once
<1>7. Contains(r, y) => Contains(s, y)
  BY <1>3 DEF Contains
<1>8. x # y /\ Contains(s, y) => Contains(r, y)
  BY <1>2, <1>4 DEF Contains
<1>9. Once(s, x) => ~Contains(r, x)
  BY <1>2, <1>3 DEF Once, Contains
<1> QED  BY <1>1, <1>6, <1>7, <1>8, <1>9 DEF r

LEMMA Reversed ==
  ASSUME NEW S, NEW s \in Seq(S)
  PROVE  /\ Reverse(s) \in Seq(S) /\ Len(Reverse(s)) = Len(s)
         /\ \A x : Contains(Reverse(s), x) <=> Contains(s, x)
<1>1. Len(s) \in Nat
  OBVIOUS
<1>2. ASSUME NEW i \in 1..Len(s)
      PROVE  Len(s) - i + 1 \in 1..Len(s) /\ s[Len(s) - i + 1] \in S
  BY <1>1
<1>3. Reverse(s) \in [1..Len(s) -> S]
  BY <1>2 DEF Reverse
<1>4. Reverse(s) \in Seq(S)
  BY <1>1, <1>3, IsASeq
<1>5. Len(Reverse(s)) = Len(s)
  BY <1>1, <1>3, <1>4, LenProperties
<1>6. ASSUME NEW x
      PROVE  Contains(Reverse(s), x) <=> Contains(s, x)
  <2>1. ASSUME NEW i \in 1..Len(s), Reverse(s)[i] = x
        PROVE  Contains(s, x)
    BY <1>2, <2>1 DEF Reverse, Contains
  <2>2. ASSUME NEW i \in 1..Len(s), s[i] = x
        PROVE  Contains(Reverse(s), x)
    <3>1. Len(s) - i + 1 \in 1..Len(s) /\ Len(s) - (Len(s) - i + 1) + 1 = i
      BY <1>1
    <3>2. Reverse(s)[Len(s) - i + 1] = s[i]
      BY <3>1 DEF Reverse
    <3> QED  BY <1>5, <2>2, <3>1, <3>2 DEF Contains
  <2> QED  BY <1>5, <2>1, <2>2 DEF Contains
<1> QED  BY <1>4, <1>5, <1>6

LEMMA ContainsAppended ==
  ASSUME NEW S, NEW s \in Seq(S), NEW x \in S, NEW y
  PROVE  Contains(Append(s, x), y) <=> Contains(s, y) \/ x = y
<1>1. ASSUME NEW k \in 1..Len(Append(s, x)), Append(s, x)[k] = y
      PROVE  Contains(s, y) \/ x = y
  <2>1. k \in 1..Len(s) \/ k = Len(s) + 1
    BY Appended
  <2> QED  BY <1>1, <2>1, Appended DEF Contains
<1>2. ASSUME Contains(s, y)
      PROVE  Contains(Append(s, x), y)
  <2>1. PICK k \in 1..Len(s) : s[k] = y
    BY <1>2 DEF Contains
  <2>2. k \in 1..Len(Append(s, x)) /\ Append(s, x)[k] = y
    BY <2>1, Appended
  <2> QED  BY <2>2 DEF Contains
<1>3. Contains(Append(s, x), x)
  <2>1. Len(s) + 1 \in 1..Len(Append(s, x))
    BY Appended
  <2> QED  BY <2>1, Appended DEF Contains
<1> QED  BY <1>1, <1>2, <1>3 DEF Contains

LEMMA ContainsJoined ==
  ASSUME NEW S, NEW s \in Seq(S), NEW t \in Seq(S), NEW y
  PROVE  Contains(s \o t, y) <=> Contains(s, y) \/ Contains(t, y)
<1>1. ASSUME NEW k \in 1..Len(s \o t), (s \o t)[k] = y
      PROVE  Contains(s, y) \/ Contains(t, y)
  <2>1. CASE k \in 1..Len(s)
    BY <1>1, <2>1, Joined DEF Contains
  <2>2. CASE k \notin 1..Len(s)
    <3>1. k - Len(s) \in 1..Len(t) /\ Len(s) + (k - Len(s)) = k
      BY <2>2, Joined
    <3>2. t[k - Len(s)] = y
      BY <1>1, <3>1, Joined
    <3> QED  BY <3>1, <3>2 DEF Contains
  <2> QED  BY <2>1, <2>2
<1>2. ASSUME Contains(s, y)
      PROVE  Contains(s \o t, y)
  <2>1. PICK k \in 1..Len(s) : s[k] = y
    BY <1>2 DEF Contains
  <2>2. k \in 1..Len(s \o t) /\ (s \o t)[k] = y
    BY <2>1, Joined
  <2> QED  BY <2>2 DEF Contains
<1>3. ASSUME Contains(t, y)
      PROVE  Contains(s \o t, y)
  <2>1. PICK k \in 1..Len(t) : t[k] = y
    BY <1>3 DEF Contains
  <2>2. Len(s) + k \in 1..Len(s \o t) /\ (s \o t)[Len(s) + k] = y
    BY <2>1, Joined
  <2> QED  BY <2>2 DEF Contains
<1> QED  BY <1>1, <1>2, <1>3 DEF Contains

LEMMA Singleton ==
  ASSUME NEW S, NEW x \in S
  PROVE  <<x>> \in Seq(S) /\ Len(<<x>>) = 1 /\ <<x>>[1] = x /\ \A y : Contains(<<x>>, y) <=> x = y
  BY DEF Contains

LEMMA ContainsNothing == \A y : ~Contains(<<>>, y)
  BY DEF Contains

\* A set in any order.
LEMMA Listed ==
  ASSUME NEW S \in SUBSET Pairs
  PROVE  /\ SetToSeq(S) \in Seq(S) /\ SetToSeq(S) \in Seq(Pairs)
         /\ \A p : Contains(SetToSeq(S), p) <=> p \in S
<1> DEFINE n == Cardinality(S)
           f == SetToSeq(S)
<1>1. IsFiniteSet(S)
  BY CommandConstants, FS_Subset
<1>2. n \in Nat /\ ExistsBijection(1..n, S)
  BY <1>1, FS_CardinalityType
<1>3. \E g \in [1..n -> S] : IsInjective(g)
  BY <1>2 DEF ExistsBijection, Bijection, Injection
<1>4. f \in [1..n -> S] /\ IsInjective(f)
  BY <1>3 DEF SetToSeq
<1> HIDE DEF f
<1>5. f \in Injection(1..n, S)
  BY <1>4 DEF Injection
<1>6. IsFiniteSet(1..n) /\ Cardinality(1..n) = Cardinality(S)
  <2> HIDE DEF n
  <2>1. IsFiniteSet(1..n) /\ Cardinality(1..n) = IF 1 > n THEN 0 ELSE n - 1 + 1
    BY <1>2, FS_Interval
  <2> QED  BY <1>2, <2>1 DEF n
<1>7. f \in Surjection(1..n, S)
  BY <1>1, <1>5, <1>6, FS_Injection
<1>8. f \in Seq(S) /\ f \in Seq(Pairs)
  <2> HIDE DEF n
  <2> QED  BY <1>2, <1>4, IsASeq
<1>9. Len(f) = n
  <2> HIDE DEF n
  <2> QED  BY <1>2, <1>4, <1>8, LenProperties
<1>10. ASSUME NEW p
       PROVE  Contains(f, p) <=> p \in S
  BY <1>4, <1>7, <1>9 DEF Contains, Surjection
<1> QED  BY <1>8, <1>10 DEF f

-----------------------------------------------------------------------------
(* Scripts.                                                                *)

Speaks(todo, p) == \E k \in 1..Len(todo) : todo[k].pair = p

LEMMA ScriptOf ==
  ASSUME NEW call \in Calls, NEW keys \in Seq(Pairs)
  PROVE  LET s == Script(call, keys)
         IN  /\ s \in Seq(Step) /\ Len(keys) \in Nat /\ Len(s) = Len(keys)
             /\ \A k \in 1..Len(keys) : s[k].call = call /\ s[k].pair = keys[k]
             /\ \A p : Speaks(s, p) <=> Contains(keys, p)
             /\ call # "rule" => ~Rules(s)
<1> DEFINE s == Script(call, keys)
<1>1. Len(keys) \in Nat /\ \A k \in 1..Len(keys) : keys[k] \in Pairs
  OBVIOUS
<1>2. s \in [1..Len(keys) -> Step]
  BY <1>1 DEF Script, Step
<1>3. \A k \in 1..Len(keys) : s[k].call = call /\ s[k].pair = keys[k]
  BY DEF Script
<1> HIDE DEF s
<1>4. s \in Seq(Step) /\ Len(s) = Len(keys)
  <2>1. s \in Seq(Step)
    BY <1>1, <1>2, IsASeq
  <2> QED  BY <1>1, <1>2, <2>1, LenProperties
<1>5. \A p : Speaks(s, p) <=> Contains(keys, p)
  BY <1>3, <1>4 DEF Speaks, Contains
<1>6. call # "rule" => ~Rules(s)
  BY <1>3, <1>4 DEF Rules
<1> QED  BY <1>1, <1>3, <1>4, <1>5, <1>6 DEF s

LEMMA ScriptLeads ==
  ASSUME NEW call \in Calls, NEW keys \in Seq(Pairs), NEW G, NEW p, NEW goal \in BOOLEAN,
         Contains(keys, p) => (call = "add" <=> goal),
         ~Contains(keys, p) => (p \in G <=> goal)
  PROVE  Leads(Script(call, keys), G, p, goal)
<1> DEFINE s == Script(call, keys)
<1>1. Len(s) = Len(keys) /\ \A k \in 1..Len(keys) : s[k].call = call /\ s[k].pair = keys[k]
  BY ScriptOf
<1> HIDE DEF s
<1>2. ASSUME NEW k \in 1..Len(s), s[k].pair = p
      PROVE  s[k].call = "add" <=> goal
  <2>1. Contains(keys, p)
    BY <1>1, <1>2 DEF Contains
  <2> QED  BY <1>1, <2>1
<1>3. ASSUME \A k \in 1..Len(s) : s[k].pair # p
      PROVE  p \in G <=> goal
  <2>1. ~Contains(keys, p)
    BY <1>1, <1>3 DEF Contains
  <2> QED  BY <2>1
<1> QED  BY <1>2, <1>3 DEF Leads, s

\* What comes last decides.
LEMMA JoinLeads ==
  ASSUME NEW s \in Seq(Step), NEW t \in Seq(Step), NEW G, NEW p, NEW goal \in BOOLEAN,
         Speaks(t, p) => Leads(t, G, p, goal),
         ~Speaks(t, p) => Leads(s, G, p, goal)
  PROVE  Leads(s \o t, G, p, goal)
<1> DEFINE r == s \o t
<1>1. Len(s) \in Nat /\ Len(t) \in Nat /\ Len(r) = Len(s) + Len(t)
      /\ (\A k \in 1..Len(s) : r[k] = s[k]) /\ \A k \in 1..Len(t) : r[Len(s) + k] = t[k]
  BY Joined
<1> HIDE DEF r
<1>2. ASSUME NEW k \in 1..Len(t)
      PROVE  Len(s) + k \in 1..Len(r) /\ r[Len(s) + k] = t[k]
  BY <1>1
<1>3. ASSUME NEW k \in 1..Len(s)
      PROVE  k \in 1..Len(r) /\ r[k] = s[k]
  BY <1>1
<1>4. ASSUME NEW k \in 1..Len(r), r[k].pair = p, \A i \in (k+1)..Len(r) : r[i].pair # p
      PROVE  r[k].call = "add" <=> goal
  <2>1. CASE k <= Len(s)
    <3>1. k \in 1..Len(s) /\ r[k] = s[k]
      BY <1>1, <2>1
    <3>2. ~Speaks(t, p)
      <4>1. ASSUME NEW i \in 1..Len(t)
            PROVE  t[i].pair # p
        <5>1. Len(s) + i \in (k+1)..Len(r)
          BY <1>1, <2>1
        <5> QED  BY <1>2, <1>4, <5>1
      <4> QED  BY <4>1 DEF Speaks
    <3>3. ASSUME NEW i \in (k+1)..Len(s)
          PROVE  s[i].pair # p
      <4>1. i \in 1..Len(s) /\ i \in (k+1)..Len(r)
        BY <1>1
      <4> QED  BY <1>3, <1>4, <4>1
    <3> QED  BY <1>4, <3>1, <3>2, <3>3 DEF Leads
  <2>2. CASE ~(k <= Len(s))
    <3>1. k - Len(s) \in 1..Len(t) /\ Len(s) + (k - Len(s)) = k
      BY <1>1, <2>2
    <3>2. r[k] = t[k - Len(s)]
      BY <1>2, <3>1
    <3>3. Speaks(t, p)
      BY <1>4, <3>1, <3>2 DEF Speaks
    <3>4. ASSUME NEW i \in ((k - Len(s)) + 1)..Len(t)
          PROVE  t[i].pair # p
      <4>1. i \in 1..Len(t) /\ Len(s) + i \in (k+1)..Len(r)
        BY <1>1, <2>2
      <4> QED  BY <1>2, <1>4, <4>1
    <3> QED  BY <1>4, <3>1, <3>2, <3>3, <3>4 DEF Leads
  <2> QED  BY <2>1, <2>2
<1>5. ASSUME \A k \in 1..Len(r) : r[k].pair # p
      PROVE  p \in G <=> goal
  <2>1. ~Speaks(t, p)
    BY <1>2, <1>5 DEF Speaks
  <2>2. \A k \in 1..Len(s) : s[k].pair # p
    BY <1>3, <1>5
  <2> QED  BY <2>1, <2>2 DEF Leads
<1> QED  BY <1>4, <1>5 DEF Leads, r

LEMMA JoinSpeaks ==
  ASSUME NEW s \in Seq(Step), NEW t \in Seq(Step)
  PROVE  /\ s \o t \in Seq(Step)
         /\ Rules(s \o t) <=> Rules(s) \/ Rules(t)
<1> DEFINE r == s \o t
<1>1. Len(s) \in Nat /\ Len(t) \in Nat /\ Len(r) = Len(s) + Len(t) /\ r \in Seq(Step)
      /\ (\A k \in 1..Len(s) : r[k] = s[k]) /\ \A k \in 1..Len(t) : r[Len(s) + k] = t[k]
  BY Joined
<1> HIDE DEF r
<1>2. ASSUME NEW k \in 1..Len(r), r[k].call = "rule"
      PROVE  Rules(s) \/ Rules(t)
  <2>1. CASE k <= Len(s)
    <3>1. k \in 1..Len(s) /\ r[k] = s[k]
      BY <1>1, <2>1
    <3> QED  BY <1>2, <3>1 DEF Rules
  <2>2. CASE ~(k <= Len(s))
    <3>1. k - Len(s) \in 1..Len(t) /\ Len(s) + (k - Len(s)) = k
      BY <1>1, <2>2
    <3>2. r[k] = t[k - Len(s)]
      BY <1>1, <3>1
    <3> QED  BY <1>2, <3>1, <3>2 DEF Rules
  <2> QED  BY <2>1, <2>2
<1>3. ASSUME NEW k \in 1..Len(s), s[k].call = "rule"
      PROVE  Rules(r)
  <2>1. k \in 1..Len(r) /\ r[k] = s[k]
    BY <1>1
  <2> QED  BY <1>3, <2>1 DEF Rules
<1>4. ASSUME NEW k \in 1..Len(t), t[k].call = "rule"
      PROVE  Rules(r)
  <2>1. Len(s) + k \in 1..Len(r) /\ r[Len(s) + k] = t[k]
    BY <1>1
  <2> QED  BY <1>4, <2>1 DEF Rules
<1>5. Rules(r) <=> Rules(s) \/ Rules(t)
  BY <1>2, <1>3, <1>4 DEF Rules
<1> QED  BY <1>1, <1>5 DEF r

\* A call that does to its pair what it is for, and to no other.
LEMMA TailLeads ==
  ASSUME NEW todo \in Seq(Step), todo # <<>>, NEW G, NEW H, NEW p, NEW goal \in BOOLEAN,
         Leads(todo, G, p, goal),
         p # Head(todo).pair => (p \in H <=> p \in G),
         p = Head(todo).pair => (p \in H <=> Head(todo).call = "add")
  PROVE  Leads(Tail(todo), H, p, goal)
<1> DEFINE r == Tail(todo)
           n == Len(todo)
<1>1. n \in Nat /\ n >= 1 /\ Len(r) = n - 1 /\ Head(todo) = todo[1]
      /\ \A k \in 1..Len(r) : r[k] = todo[k + 1]
  BY Shortened
<1> HIDE DEF r
<1>2. ASSUME NEW k \in 1..Len(r), r[k].pair = p, \A i \in (k+1)..Len(r) : r[i].pair # p
      PROVE  r[k].call = "add" <=> goal
  <2>1. k + 1 \in 1..n /\ r[k] = todo[k + 1]
    BY <1>1
  <2>2. ASSUME NEW i \in ((k+1)+1)..n
        PROVE  todo[i].pair # p
    <3>1. i - 1 \in (k+1)..Len(r) /\ i - 1 \in 1..Len(r) /\ (i - 1) + 1 = i
      BY <1>1
    <3> QED  BY <1>1, <1>2, <3>1
  <2> QED  BY <1>2, <2>1, <2>2 DEF Leads
<1>3. ASSUME \A k \in 1..Len(r) : r[k].pair # p
      PROVE  p \in H <=> goal
  <2>1. ASSUME NEW i \in 2..n
        PROVE  todo[i].pair # p
    <3>1. i - 1 \in 1..Len(r) /\ (i - 1) + 1 = i
      BY <1>1
    <3> QED  BY <1>1, <1>3, <3>1
  <2>2. CASE p = Head(todo).pair
    <3>1. 1 \in 1..n /\ todo[1].pair = p /\ \A i \in (1+1)..n : todo[i].pair # p
      BY <1>1, <2>1, <2>2
    <3>2. todo[1].call = "add" <=> goal
      BY <3>1 DEF Leads
    <3> QED  BY <1>1, <2>2, <3>2
  <2>3. CASE p # Head(todo).pair
    <3>1. \A k \in 1..n : todo[k].pair # p
      BY <1>1, <2>1, <2>3
    <3> QED  BY <2>3, <3>1 DEF Leads
  <2> QED  BY <2>2, <2>3
<1> QED  BY <1>2, <1>3 DEF Leads, r

LEMMA TailSpeaks ==
  ASSUME NEW todo \in Seq(Step), todo # <<>>
  PROVE  /\ Tail(todo) \in Seq(Step) /\ Head(todo) \in Step
         /\ Head(todo).pair \in Pairs /\ Head(todo).call \in Calls
         /\ Head(todo) = todo[1] /\ 1 \in 1..Len(todo)
         /\ \A k \in 1..Len(Tail(todo)) : k + 1 \in 1..Len(todo) /\ Tail(todo)[k] = todo[k + 1]
<1>1. Head(todo) \in Step
  BY Shortened
<1> QED  BY <1>1, Shortened DEF Step

-----------------------------------------------------------------------------
(* The driver.                                                             *)

\* What a call does to the pairs no other client and no error changed: it does to
\* its own what its result says, and leaves the others.
LEMMA CallEffect ==
  ASSUME NEW step \in Step, step.call # "rule", NEW result, Call(step, result), TypeInv
  PROVE  /\ links' \subseteq Pairs /\ blocked' \subseteq Pairs /\ spoilt \subseteq spoilt'
         /\ \A p \in Pairs \ spoilt' :
              p # step.pair \/ result = "error" => (p \in links' <=> p \in links)
         /\ result # "error" /\ step.pair \notin spoilt' =>
              /\ step.pair \in links' <=> step.call = "add"
              /\ step.call = "add" => result = IF step.pair \in links THEN "kept" ELSE "made"
              /\ step.call # "add" => result = IF step.pair \in links THEN "removed" ELSE "absent"
         /\ step.call = "add" => result \in {"made", "kept", "error"}
         /\ step.call # "add" => result \in {"removed", "absent", "error"}
<1> DEFINE q == step.pair
<1>0. q \in Pairs /\ links \subseteq Pairs /\ blocked \subseteq Pairs
  BY DEF TypeInv, Step
<1>1. CASE result = "error" /\ UNCHANGED <<links, blocked, spoilt>>
  BY <1>0, <1>1
<1>2. CASE step.call = "add" /\ ConnectIfMissing(q, result)
  BY <1>0, <1>2 DEF ConnectIfMissing, Swept, SweptAway
<1>3. ASSUME NEW whenAbsent \in SUBSET Pairs, NEW whenRemoved \in SUBSET Pairs,
             DisconnectIfPresent(q, whenAbsent, whenRemoved, result), step.call # "add"
      PROVE  /\ links' \subseteq Pairs /\ blocked' \subseteq Pairs /\ spoilt \subseteq spoilt'
             /\ \A p \in Pairs \ spoilt' :
                  p # q \/ result = "error" => (p \in links' <=> p \in links)
             /\ result # "error" /\ q \notin spoilt' =>
                  q \notin links' /\ result = IF q \in links THEN "removed" ELSE "absent"
             /\ result \in {"removed", "absent", "error"}
  BY <1>0, <1>3 DEF DisconnectIfPresent, Swept, SweptAway
<1>4. CASE \/ step.call = "drop" /\ DisconnectIfPresent(q, blocked \cup {q}, blocked \cup {q}, result)
           \/ step.call = "cut" /\ DisconnectIfPresent(q, blocked, blocked \cup {q}, result)
           \/ step.call = "dropAllow" /\ DisconnectIfPresent(q, blocked \ {q}, blocked \ {q}, result)
           \/ step.call = "cutAllow" /\ DisconnectIfPresent(q, blocked, blocked \ {q}, result)
  <2>1. {blocked, blocked \cup {q}, blocked \ {q}} \subseteq SUBSET Pairs
    BY <1>0
  <2>2. step.call # "add"
    BY <1>4
  <2> QED  BY <1>3, <1>4, <2>1, <2>2
<1> QED  BY <1>1, <1>2, <1>4 DEF Call

-----------------------------------------------------------------------------
(* What other clients and errors leave alone.                              *)

LEMMA StackStays ==
  ASSUME StackInv, UNCHANGED stacks, spoilt \subseteq spoilt',
         \A p \in Ours' : p \in Basis' <=> p \in Basis
  PROVE  StackInv'
<1>1. Ours' \subseteq Ours
  BY DEF Ours
<1>2. UNCHANGED undo_stack /\ UNCHANGED redo_stack
  BY DEF stacks
<1>3. ASSUME NEW cmd, Entry(cmd)
      PROVE  Entry(cmd)'
  BY <1>1, <1>3 DEF Entry, Recorded, Aimed
<1>4. ASSUME NEW S, NEW T, Agree(S, T)
      PROVE  Agree(S, T)'
  BY <1>1, <1>4 DEF Agree, Ours
<1>5. ASSUME NEW S, Agree(S, Basis)
      PROVE  Agree(S, Basis)'
  BY <1>1, <1>5 DEF Agree, Ours
<1>6. Past(undo_stack, Basis)'
  <2>1. \A k \in 1..Len(undo_stack) : Entry(undo_stack[k])'
    BY <1>2, <1>3 DEF StackInv, Past
  <2>2. undo_stack # <<>> => Agree(undo_stack[Len(undo_stack)].after, Basis)'
    BY <1>2, <1>5 DEF StackInv, Past
  <2>3. \A k \in 2..Len(undo_stack) : Agree(undo_stack[k-1].after, undo_stack[k].before)'
    BY <1>2, <1>4 DEF StackInv, Past
  <2> QED  BY <1>2, <2>1, <2>2, <2>3 DEF Past
<1>7. Future(redo_stack, Basis)'
  <2>1. \A k \in 1..Len(redo_stack) : Entry(redo_stack[k])'
    BY <1>2, <1>3 DEF StackInv, Future
  <2>2. redo_stack # <<>> => Agree(redo_stack[Len(redo_stack)].before, Basis)'
    BY <1>2, <1>5 DEF StackInv, Future
  <2>3. \A k \in 2..Len(redo_stack) : Agree(redo_stack[k-1].before, redo_stack[k].after)'
    BY <1>2, <1>4 DEF StackInv, Future
  <2> QED  BY <1>2, <2>1, <2>2, <2>3 DEF Future
<1> QED  BY <1>6, <1>7 DEF StackInv

LEMMA JobStays ==
  ASSUME JobInv, UNCHANGED <<stacks, job>>, spoilt \subseteq spoilt',
         \A p \in Ours' : p \in links' <=> p \in links
  PROVE  JobInv'
<1>1. Ours' \subseteq Ours /\ UNCHANGED <<undo_stack, redo_stack, job>>
  BY DEF Ours, stacks
<1>2. ASSUME NEW p \in Ours', Tracked(job, links, p)
      PROVE  Tracked(job, links', p)
  BY <1>2 DEF Tracked, Ledger, Leads
<1> QED  BY <1>1, <1>2 DEF JobInv, Commanded, Uniform, Scripted, Perseveres, Runs

-----------------------------------------------------------------------------
(* Starting.                                                               *)

LEMMA JobIsSome == ASSUME NEW j \in Jobs PROVE j # NoJob
<1>1. j.kind # "none"
  BY DEF Jobs
<1> QED  BY <1>1 DEF NoJob

LEMMA StartKeeps ==
  ASSUME IInv, NEW kind \in {"execute", "redo", "undo", "activate"}, NEW cmd \in Cmd,
         NEW todo \in Seq(Step), NEW auto \in BOOLEAN, Start(kind, cmd, todo, auto),
         Commanded(Job(kind, cmd, todo, auto)), Uniform(Job(kind, cmd, todo, auto)),
         kind # "activate" => ~Rules(todo),
         kind # "activate" => \A p \in Ours : Leads(todo, links, p, Goal(Job(kind, cmd, todo, auto), p))
  PROVE  IInv'
<1> DEFINE j == Job(kind, cmd, todo, auto)
<1>1. job = NoJob /\ job' = j /\ UNCHANGED <<links, blocked, undo_stack, redo_stack, spoilt>>
  BY DEF Start, stacks
<1>2. /\ j.kind = kind /\ j.cmd = cmd /\ j.todo = todo /\ j.created = <<>> /\ j.removed = <<>>
      /\ j.failing = FALSE /\ j.stranded = 0 /\ j.before = links
  BY DEF Job
<1>3. j \in Jobs
  BY DEF Job, Jobs, IInv, TypeInv
<1> HIDE DEF j
<1>4. TypeInv'
  BY <1>1, <1>3 DEF IInv, TypeInv
<1>5. StackInv'
  <2>1. Basis = links /\ Basis' = links
    BY <1>1, <1>2, <1>3, JobIsSome DEF Basis
  <2> QED  BY <1>1, <2>1, StackStays DEF IInv, stacks
<1>6. JobInv'
  <2>1. Scripted(j)
    BY <1>2 DEF Scripted
  <2>2. ASSUME NEW p \in Ours
        PROVE  Tracked(j, links, p)
    <3>1. Ledger(j, links, p)
      BY <1>2 DEF Ledger, Contains
    <3> QED  BY <1>2, <2>2, <3>1 DEF Tracked, j
  <2>3. Ours' = Ours /\ Commanded(j) /\ Uniform(j)
    BY <1>1 DEF Ours, j
  <2>4. Commanded(job)'
    BY <1>1, <2>3 DEF Commanded, Runs, Routed, Reroutes
  <2>5. Uniform(job)' /\ Scripted(job)'
    BY <1>1, <2>1, <2>3 DEF Uniform, Scripted, Perseveres, Runs
  <2> QED  BY <1>1, <2>2, <2>3, <2>4, <2>5 DEF JobInv
<1> QED  BY <1>4, <1>5, <1>6 DEF IInv

LEMMA FreshFields ==
  ASSUME NEW kind, NEW cmd, NEW todo, NEW auto
  PROVE  LET j == Job(kind, cmd, todo, auto)
         IN  /\ j.kind = kind /\ j.cmd = cmd /\ j.todo = todo /\ j.created = <<>> /\ j.removed = <<>>
             /\ j.failing = FALSE /\ j.stranded = 0 /\ j.before = links
  BY DEF Job

LEMMA CmdFields ==
  ASSUME NEW cmd \in Cmd
  PROVE  cmd.keys \in Seq(Pairs) /\ cmd.done \in Seq(Pairs) /\ cmd.op \in Ops \cup {"activate"}
  BY DEF Cmd

LEMMA AimedAt ==
  ASSUME NEW cmd, cmd.op \in Ops, NEW G, NEW p
  PROVE  /\ Aimed(cmd, G, p) \in BOOLEAN
         /\ Connects(cmd) => (Aimed(cmd, G, p) <=> p \in G \/ Contains(cmd.keys, p))
         /\ cmd.op \in {"disconnect", "disconnect_many"} =>
              (Aimed(cmd, G, p) <=> p \in G /\ ~Contains(cmd.keys, p))
         /\ cmd.op = "disconnect_all" => (Aimed(cmd, G, p) <=> p \in G /\ p \in Observed)
         /\ Reroutes(cmd) => (Aimed(cmd, G, p) <=> p = cmd.keys[2] \/ (p \in G /\ p # cmd.keys[1]))
<1>1. CASE cmd.op \in {"connect", "connect_many"}
  <2>1. Aimed(cmd, G, p) = (p \in G \/ Contains(cmd.keys, p))
    BY <1>1, Zenon DEF Aimed, Connects, Reroutes
  <2> QED  BY <1>1, <2>1 DEF Connects, Reroutes, Contains
<1>2. CASE cmd.op \in {"disconnect", "disconnect_many"}
  <2>1. Aimed(cmd, G, p) = (p \in G /\ ~Contains(cmd.keys, p))
    BY <1>2, Zenon DEF Aimed, Connects, Reroutes
  <2> QED  BY <1>2, <2>1 DEF Connects, Reroutes, Contains
<1>3. CASE cmd.op = "disconnect_all"
  <2>1. Aimed(cmd, G, p) = (p \in G /\ p \in Observed)
    BY <1>3, Zenon DEF Aimed, Connects, Reroutes
  <2>2. Aimed(cmd, G, p) \in BOOLEAN /\ (Aimed(cmd, G, p) <=> p \in G /\ p \in Observed)
    BY <2>1
  <2>3. ~Connects(cmd) /\ ~Reroutes(cmd) /\ cmd.op \notin {"disconnect", "disconnect_many"}
    BY <1>3 DEF Connects, Reroutes
  <2> QED  BY <1>3, <2>2, <2>3, Zenon
<1>4. CASE cmd.op = "reroute"
  <2>1. Aimed(cmd, G, p) = (p = cmd.keys[2] \/ (p \in G /\ p # cmd.keys[1]))
    BY <1>4, Zenon DEF Aimed, Connects, Reroutes
  <2> QED  BY <1>4, <2>1 DEF Connects, Reroutes
<1>5. \/ cmd.op \in {"connect", "connect_many"} \/ cmd.op \in {"disconnect", "disconnect_many"}
      \/ cmd.op = "disconnect_all" \/ cmd.op = "reroute"
  BY DEF Ops
<1> QED  BY <1>1, <1>2, <1>3, <1>4, <1>5, Zenon

LEMMA ExecuteScriptLeads ==
  ASSUME TypeInv, NEW cmd \in Cmd, cmd.op \in Ops, Routed(cmd)
  PROVE  /\ ExecuteScript(cmd) \in Seq(Step) /\ ~Rules(ExecuteScript(cmd))
         /\ \A p \in Pairs : Leads(ExecuteScript(cmd), links, p, Aimed(cmd, links, p))
         /\ LET todo == ExecuteScript(cmd)
            IN  /\ Connects(cmd) => \A k \in 1..Len(todo) : todo[k].call = "add"
                /\ Disconnects(cmd) => \A k \in 1..Len(todo) : todo[k].call = "drop"
                /\ Reroutes(cmd) =>
                     \A k \in 1..Len(todo) :
                       \/ todo[k].call = "cut" /\ todo[k].pair = cmd.keys[1]
                       \/ todo[k].call = "add" /\ todo[k].pair = cmd.keys[2]
<1> DEFINE todo == ExecuteScript(cmd)
<1>0. cmd.keys \in Seq(Pairs) /\ links \subseteq Pairs
  BY CmdFields DEF TypeInv
<1>1. CASE Connects(cmd)
  <2>1. todo = Script("add", cmd.keys) /\ "add" \in Calls
    BY <1>1 DEF Connects, ExecuteScript, Calls
  <2>2. ASSUME NEW p \in Pairs
        PROVE  Leads(todo, links, p, Aimed(cmd, links, p))
    <3>1. Aimed(cmd, links, p) \in BOOLEAN
          /\ (Aimed(cmd, links, p) <=> p \in links \/ Contains(cmd.keys, p))
      BY <1>1, AimedAt
    <3> QED  BY <1>0, <2>1, <3>1, ScriptLeads
  <2>3. todo \in Seq(Step) /\ ~Rules(todo) /\ \A k \in 1..Len(todo) : todo[k].call = "add"
    BY <1>0, <2>1, ScriptOf
  <2>4. ~Disconnects(cmd) /\ ~Reroutes(cmd)
    BY <1>1 DEF Connects, Disconnects, Reroutes
  <2> QED  BY <2>2, <2>3, <2>4
<1>2. CASE Disconnects(cmd)
  <2>1. PICK keys \in Seq(Pairs) :
          /\ todo = Script("drop", keys)
          /\ \A p \in Pairs : Aimed(cmd, links, p) <=> p \in links /\ ~Contains(keys, p)
    <3>1. CASE cmd.op = "disconnect_all"
      <4> DEFINE all == SetToSeq(Mutable(links))
      <4>1. Mutable(links) \in SUBSET Pairs
        BY <1>0 DEF Mutable
      <4>2. all \in Seq(Pairs) /\ \A p : Contains(all, p) <=> p \in links \ Observed
        BY <4>1, Listed DEF Mutable
      <4>3. todo = Script("drop", all)
        BY <3>1 DEF ExecuteScript
      <4> HIDE DEF all, todo
      <4>4. ASSUME NEW p \in Pairs
            PROVE  Aimed(cmd, links, p) <=> p \in links /\ ~Contains(all, p)
        BY <3>1, <4>2, AimedAt
      <4> QED  BY <4>2, <4>3, <4>4
    <3>2. CASE cmd.op \in {"disconnect", "disconnect_many"}
      <4>1. todo = Script("drop", cmd.keys)
        BY <3>2 DEF ExecuteScript
      <4> HIDE DEF todo
      <4>2. ASSUME NEW p \in Pairs
            PROVE  Aimed(cmd, links, p) <=> p \in links /\ ~Contains(cmd.keys, p)
        BY <3>2, AimedAt
      <4> QED  BY <1>0, <4>1, <4>2
    <3> QED  BY <1>2, <3>1, <3>2 DEF Disconnects
  <2>2. "drop" \in Calls
    BY DEF Calls
  <2> HIDE DEF todo
  <2>3. ASSUME NEW p \in Pairs
        PROVE  Leads(todo, links, p, Aimed(cmd, links, p))
    BY <2>1, <2>2, ScriptLeads, AimedAt
  <2>4. todo \in Seq(Step) /\ ~Rules(todo) /\ \A k \in 1..Len(todo) : todo[k].call = "drop"
    BY <2>1, <2>2, ScriptOf
  <2>5. ~Connects(cmd) /\ ~Reroutes(cmd)
    BY <1>2 DEF Connects, Disconnects, Reroutes
  <2> QED  BY <2>3, <2>4, <2>5 DEF todo
<1>3. CASE Reroutes(cmd)
  <2> DEFINE old == <<cmd.keys[1]>>
             new == <<cmd.keys[2]>>
             s == Script("cut", old)
             t == Script("add", new)
  <2>1. todo = s \o t /\ {"cut", "add"} \subseteq Calls
    BY <1>3 DEF Reroutes, ExecuteScript, Calls
  <2>2. cmd.keys[1] \in Pairs /\ cmd.keys[2] \in Pairs /\ cmd.keys[1] # cmd.keys[2]
    BY <1>0, <1>3 DEF Routed
  <2>3. old \in Seq(Pairs) /\ new \in Seq(Pairs)
        /\ (\A p : Contains(old, p) <=> p = cmd.keys[1]) /\ \A p : Contains(new, p) <=> p = cmd.keys[2]
    BY <2>2, Singleton
  <2> HIDE DEF old, new
  <2>4. s \in Seq(Step) /\ ~Rules(s) /\ (\A k \in 1..Len(s) : s[k].call = "cut" /\ Contains(old, s[k].pair))
    <3>1. /\ s \in Seq(Step) /\ Len(old) \in Nat /\ Len(s) = Len(old) /\ ~Rules(s)
          /\ \A k \in 1..Len(old) : s[k].call = "cut" /\ s[k].pair = old[k]
      BY <2>1, <2>3, ScriptOf
    <3> HIDE DEF s
    <3> QED  BY <3>1 DEF Contains
  <2>5. t \in Seq(Step) /\ ~Rules(t) /\ (\A k \in 1..Len(t) : t[k].call = "add" /\ Contains(new, t[k].pair))
        /\ \A p : Speaks(t, p) <=> Contains(new, p)
    <3>1. /\ t \in Seq(Step) /\ Len(new) \in Nat /\ Len(t) = Len(new) /\ ~Rules(t)
          /\ \A k \in 1..Len(new) : t[k].call = "add" /\ t[k].pair = new[k]
          /\ \A p : Speaks(t, p) <=> Contains(new, p)
      BY <2>1, <2>3, ScriptOf
    <3> HIDE DEF t
    <3> QED  BY <3>1 DEF Contains
  <2>6. ASSUME NEW p \in Pairs
        PROVE  Leads(todo, links, p, Aimed(cmd, links, p))
    <3>1. Aimed(cmd, links, p) <=> p = cmd.keys[2] \/ (p \in links /\ p # cmd.keys[1])
      BY <1>3, AimedAt
    <3> DEFINE goal == Aimed(cmd, links, p)
    <3>2. goal \in BOOLEAN
      BY AimedAt
    <3>3. Speaks(t, p) => Leads(t, links, p, goal)
      BY <2>1, <2>3, <2>5, <3>1, <3>2, ScriptLeads
    <3>4. ~Speaks(t, p) => Leads(s, links, p, goal)
      BY <2>1, <2>2, <2>3, <2>5, <3>1, <3>2, ScriptLeads
    <3> HIDE DEF goal, s, t
    <3>5. Leads(s \o t, links, p, goal)
      BY <2>4, <2>5, <3>2, <3>3, <3>4, JoinLeads
    <3> QED  BY <2>1, <3>5 DEF goal
  <2>7. todo \in Seq(Step) /\ ~Rules(todo)
    BY <2>1, <2>4, <2>5, JoinSpeaks
  <2>8. ASSUME NEW k \in 1..Len(todo)
        PROVE  \/ todo[k].call = "cut" /\ todo[k].pair = cmd.keys[1]
               \/ todo[k].call = "add" /\ todo[k].pair = cmd.keys[2]
    <3> HIDE DEF s, t
    <3>1. Len(s) \in Nat /\ Len(t) \in Nat /\ Len(s \o t) = Len(s) + Len(t)
          /\ (\A i \in 1..Len(s) : (s \o t)[i] = s[i]) /\ \A i \in 1..Len(t) : (s \o t)[Len(s) + i] = t[i]
      BY <2>4, <2>5, Joined
    <3>2. CASE k \in 1..Len(s)
      BY <2>1, <2>3, <2>4, <3>1, <3>2
    <3>3. CASE k \notin 1..Len(s)
      <4>1. k - Len(s) \in 1..Len(t) /\ Len(s) + (k - Len(s)) = k
        BY <2>1, <3>1, <3>3
      <4>2. todo[k] = t[k - Len(s)]
        BY <2>1, <3>1, <4>1
      <4> QED  BY <2>3, <2>5, <4>1, <4>2
    <3> QED  BY <3>2, <3>3
  <2>9. ~Connects(cmd) /\ ~Disconnects(cmd)
    BY <1>3 DEF Connects, Disconnects, Reroutes
  <2> QED  BY <2>6, <2>7, <2>8, <2>9
<1> QED  BY <1>1, <1>2, <1>3 DEF Ops, Connects, Disconnects, Reroutes

LEMMA StartExecuteKeeps ==
  ASSUME IInv, NEW kind \in {"execute", "redo"}, NEW cmd \in Cmd, cmd.op \in Ops, Routed(cmd),
         kind = "redo" => redo_stack # <<>> /\ cmd = redo_stack[Len(redo_stack)],
         StartExecute(kind, cmd)
  PROVE  IInv'
<1> DEFINE todo == ExecuteScript(cmd)
           j == Job(kind, cmd, todo, FALSE)
<1>1. Start(kind, cmd, todo, FALSE) /\ (Reroutes(cmd) => cmd.keys[1] \in links)
  BY DEF StartExecute, Mutable, Reroutes
<1>2. TypeInv
  BY DEF IInv
<1>3. /\ j.kind = kind /\ j.cmd = cmd /\ j.todo = todo /\ j.created = <<>> /\ j.removed = <<>>
      /\ j.failing = FALSE /\ j.before = links
  <2> HIDE DEF todo
  <2> QED  BY DEF Job
<1>4. /\ todo \in Seq(Step) /\ ~Rules(todo)
      /\ \A p \in Pairs : Leads(todo, links, p, Aimed(cmd, links, p))
      /\ Connects(cmd) => \A k \in 1..Len(todo) : todo[k].call = "add"
      /\ Disconnects(cmd) => \A k \in 1..Len(todo) : todo[k].call = "drop"
      /\ Reroutes(cmd) =>
           \A k \in 1..Len(todo) : \/ todo[k].call = "cut" /\ todo[k].pair = cmd.keys[1]
                                   \/ todo[k].call = "add" /\ todo[k].pair = cmd.keys[2]
  BY <1>2, ExecuteScriptLeads
<1> HIDE DEF j, todo
<1>5. Commanded(j)
  BY <1>1, <1>3 DEF Commanded
<1>6. Uniform(j)
  BY <1>3, <1>4, ContainsNothing DEF Uniform
<1>7. ASSUME NEW p \in Ours
      PROVE  Leads(todo, links, p, Goal(j, p))
  <2>1. Goal(j, p) = Aimed(cmd, links, p)
    BY <1>3 DEF Goal
  <2> QED  BY <1>4, <2>1 DEF Ours
<1>8. kind \in {"execute", "redo", "undo", "activate"} /\ FALSE \in BOOLEAN
  OBVIOUS
<1> QED  BY <1>1, <1>4, <1>5, <1>6, <1>7, <1>8, StartKeeps DEF j

LEMMA ExecuteKeeps == ASSUME IInv, Execute PROVE IInv'
<1>1. PICK group \in Groups, p \in Pairs, q \in Pairs :
        \E cmd \in {Command("connect", <<p>>), Command("connect_many", group),
                    Command("disconnect", <<p>>), Command("disconnect_many", group),
                    Command("disconnect_all", <<>>), Command("reroute", <<p, q>>)} :
           /\ cmd.op = "reroute" => p # q
           /\ StartExecute("execute", cmd)
  BY DEF Execute
<1>2. PICK cmd \in {Command("connect", <<p>>), Command("connect_many", group),
                    Command("disconnect", <<p>>), Command("disconnect_many", group),
                    Command("disconnect_all", <<>>), Command("reroute", <<p, q>>)} :
           /\ cmd.op = "reroute" => p # q
           /\ StartExecute("execute", cmd)
  BY <1>1
<1>3. group \in Seq(Pairs) /\ <<p>> \in Seq(Pairs) /\ <<p, q>> \in Seq(Pairs) /\ <<>> \in Seq(Pairs)
  BY CommandConstants
<1>4. ASSUME NEW op \in Ops, NEW keys \in Seq(Pairs)
      PROVE  Command(op, keys) \in Cmd /\ Command(op, keys).op = op /\ Command(op, keys).keys = keys
  <2>1. <<>> \in Seq(Pairs)
    OBVIOUS
  <2> QED  BY <2>1 DEF Command, Cmd
<1>5. {"connect", "connect_many", "disconnect", "disconnect_many", "disconnect_all", "reroute"} \subseteq Ops
  BY DEF Ops
<1>6. PICK op \in Ops, keys \in Seq(Pairs) :
        cmd = Command(op, keys) /\ (op = "reroute" => keys = <<p, q>>)
  BY <1>2, <1>3, <1>5
<1>7. cmd \in Cmd /\ cmd.op \in Ops /\ (cmd.op = "reroute" => cmd.keys = <<p, q>>)
  BY <1>4, <1>6
<1>8. Routed(cmd)
  BY <1>2, <1>7 DEF Routed, Reroutes
<1>9. "execute" \in {"execute", "redo"} /\ "execute" # "redo"
  OBVIOUS
<1> QED  BY <1>2, <1>7, <1>8, <1>9, StartExecuteKeeps

LEMMA UndoScriptLeads ==
  ASSUME TypeInv, NEW cmd \in Cmd, Entry(cmd), Agree(cmd.after, links)
  PROVE  /\ UndoScript(cmd) \in Seq(Step) /\ ~Rules(UndoScript(cmd))
         /\ \A p \in Ours : Leads(UndoScript(cmd), links, p, p \in cmd.before)
<1> DEFINE todo == UndoScript(cmd)
<1>1. cmd.keys \in Seq(Pairs) /\ cmd.done \in Seq(Pairs) /\ cmd.op \in Ops /\ Routed(cmd)
  BY CmdFields DEF Entry
<1>2. {"add", "dropAllow", "cutAllow"} \subseteq Calls /\ "rule" \notin {"add", "dropAllow", "cutAllow"}
  BY DEF Calls
<1>3. ASSUME NEW p \in Ours
      PROVE  Recorded(cmd, p) /\ (p \in cmd.after <=> p \in links)
  BY DEF Entry, Agree, Ours
<1>4. CASE Connects(cmd)
  <2>1. PICK call \in {"dropAllow", "cutAllow"}, keys \in Seq(Pairs) :
          todo = Script(call, keys) /\ \A p : Contains(keys, p) <=> Contains(cmd.done, p)
    <3>1. CASE cmd.op = "connect"
      <4>1. todo = Script("dropAllow", cmd.done)
        BY <3>1 DEF UndoScript
      <4> QED  BY <1>1, <4>1
    <3>2. CASE cmd.op = "connect_many"
      <4>1. todo = Script("cutAllow", Reverse(cmd.done))
        BY <3>2 DEF UndoScript
      <4>2. Reverse(cmd.done) \in Seq(Pairs) /\ \A p : Contains(Reverse(cmd.done), p) <=> Contains(cmd.done, p)
        BY <1>1, Reversed
      <4> HIDE DEF todo
      <4> QED  BY <4>1, <4>2
    <3> QED  BY <1>4, <3>1, <3>2 DEF Connects
  <2> HIDE DEF todo
  <2>2. ASSUME NEW p \in Ours
        PROVE  Leads(todo, links, p, p \in cmd.before)
    <3>1. /\ Contains(cmd.done, p) => p \notin cmd.before
          /\ ~Contains(cmd.done, p) => (p \in links <=> p \in cmd.before)
      BY <1>3, <1>4 DEF Recorded, Connects, Reroutes
    <3>2. call \in Calls /\ call # "add"
      BY <1>2
    <3> DEFINE goal == p \in cmd.before
    <3>3. goal \in BOOLEAN /\ (Contains(cmd.done, p) => ~goal)
          /\ (~Contains(cmd.done, p) => (p \in links <=> goal))
      BY <3>1
    <3> HIDE DEF goal
    <3>4. Leads(todo, links, p, goal)
      BY <2>1, <3>2, <3>3, ScriptLeads
    <3> QED  BY <3>4 DEF goal
  <2>3. todo \in Seq(Step) /\ ~Rules(todo)
    BY <1>2, <2>1, ScriptOf
  <2> QED  BY <2>2, <2>3 DEF todo
<1>5. CASE Disconnects(cmd)
  <2>1. todo = Script("add", cmd.done)
    BY <1>5 DEF UndoScript, Disconnects
  <2> HIDE DEF todo
  <2>2. ASSUME NEW p \in Ours
        PROVE  Leads(todo, links, p, p \in cmd.before)
    <3>1. /\ Contains(cmd.done, p) => p \in cmd.before
          /\ ~Contains(cmd.done, p) => (p \in links <=> p \in cmd.before)
      BY <1>3, <1>5 DEF Recorded, Disconnects, Reroutes
    <3> DEFINE goal == p \in cmd.before
    <3>2. goal \in BOOLEAN /\ (Contains(cmd.done, p) => goal)
          /\ (~Contains(cmd.done, p) => (p \in links <=> goal))
      BY <3>1
    <3> HIDE DEF goal
    <3>3. Leads(todo, links, p, goal)
      BY <1>1, <1>2, <2>1, <3>2, ScriptLeads
    <3> QED  BY <3>3 DEF goal
  <2>3. todo \in Seq(Step) /\ ~Rules(todo)
    BY <1>1, <1>2, <2>1, ScriptOf
  <2> QED  BY <2>2, <2>3 DEF todo
<1>6. CASE Reroutes(cmd)
  <2> DEFINE old == <<cmd.keys[1]>>
             s == Script("cutAllow", cmd.done)
             t == Script("add", old)
  <2>1. todo = s \o t
    BY <1>6 DEF Reroutes, UndoScript
  <2>2. cmd.keys[1] \in Pairs
    BY <1>1, <1>6 DEF Routed
  <2>3. old \in Seq(Pairs) /\ \A p : Contains(old, p) <=> p = cmd.keys[1]
    BY <2>2, Singleton
  <2> HIDE DEF old
  <2>4. s \in Seq(Step) /\ ~Rules(s)
    BY <1>1, <1>2, ScriptOf
  <2>5. t \in Seq(Step) /\ ~Rules(t) /\ \A p : Speaks(t, p) <=> Contains(old, p)
    BY <1>2, <2>3, ScriptOf
  <2>6. ASSUME NEW p \in Ours
        PROVE  Leads(todo, links, p, p \in cmd.before)
    <3>1. /\ Contains(cmd.done, p) => p \notin cmd.before
          /\ p = cmd.keys[1] => p \in cmd.before
          /\ ~Contains(cmd.done, p) /\ p # cmd.keys[1] => (p \in links <=> p \in cmd.before)
      BY <1>3, <1>6 DEF Recorded, Reroutes
    <3> DEFINE goal == p \in cmd.before
    <3>2. goal \in BOOLEAN /\ (Contains(cmd.done, p) => ~goal) /\ (p = cmd.keys[1] => goal)
          /\ (~Contains(cmd.done, p) /\ p # cmd.keys[1] => (p \in links <=> goal))
      BY <3>1
    <3> HIDE DEF goal
    <3>3. Speaks(t, p) => Leads(t, links, p, goal)
      BY <1>2, <2>3, <2>5, <3>2, ScriptLeads
    <3>4. ~Speaks(t, p) => Leads(s, links, p, goal)
      BY <1>1, <1>2, <2>3, <2>5, <3>2, ScriptLeads
    <3> HIDE DEF s, t
    <3>5. Leads(s \o t, links, p, goal)
      BY <2>4, <2>5, <3>2, <3>3, <3>4, JoinLeads
    <3> QED  BY <2>1, <3>5 DEF goal
  <2>7. todo \in Seq(Step) /\ ~Rules(todo)
    BY <2>1, <2>4, <2>5, JoinSpeaks
  <2> QED  BY <2>6, <2>7
<1> QED  BY <1>1, <1>4, <1>5, <1>6 DEF Ops, Connects, Disconnects, Reroutes

LEMMA UndoKeeps == ASSUME IInv, Undo PROVE IInv'
<1> DEFINE cmd == Last(undo_stack)
           todo == UndoScript(cmd)
           j == Job("undo", cmd, todo, FALSE)
<1>1. undo_stack # <<>> /\ Start("undo", cmd, todo, FALSE) /\ job = NoJob
  BY DEF Undo, Start
<1>2. cmd = undo_stack[Len(undo_stack)] /\ cmd \in Cmd /\ Len(undo_stack) \in 1..Len(undo_stack)
  BY <1>1, FrontOf DEF IInv, TypeInv
<1>3. Entry(cmd) /\ Agree(cmd.after, links)
  BY <1>1, <1>2 DEF IInv, StackInv, Past, Basis
<1> HIDE DEF cmd
<1>4. /\ todo \in Seq(Step) /\ ~Rules(todo)
      /\ \A p \in Ours : Leads(todo, links, p, p \in cmd.before)
  BY <1>2, <1>3, UndoScriptLeads DEF IInv
<1> HIDE DEF todo
<1>5. j.kind = "undo" /\ j.cmd = cmd /\ j.todo = todo /\ j.failing = FALSE /\ j.before = links
  BY DEF Job
<1> HIDE DEF j
<1>6. Commanded(j) /\ Uniform(j)
  BY <1>1, <1>2, <1>3, <1>5 DEF Commanded, Uniform, Runs, Entry
<1>7. ASSUME NEW p \in Ours
      PROVE  Leads(todo, links, p, Goal(j, p))
  <2>1. Goal(j, p) = (p \in cmd.before)
    BY <1>5 DEF Goal
  <2> QED  BY <1>4, <2>1
<1>8. "undo" \in {"execute", "redo", "undo", "activate"} /\ FALSE \in BOOLEAN
  OBVIOUS
<1> QED  BY <1>1, <1>2, <1>4, <1>6, <1>7, <1>8, StartKeeps DEF j

LEMMA RedoKeeps == ASSUME IInv, Redo PROVE IInv'
<1> DEFINE cmd == Last(redo_stack)
<1>1. redo_stack # <<>> /\ StartExecute("redo", cmd)
  BY DEF Redo
<1>2. cmd = redo_stack[Len(redo_stack)] /\ cmd \in Cmd /\ Len(redo_stack) \in 1..Len(redo_stack)
  BY <1>1, FrontOf DEF IInv, TypeInv
<1>3. cmd.op \in Ops /\ Routed(cmd)
  BY <1>2 DEF IInv, StackInv, Future, Entry
<1> HIDE DEF cmd
<1> QED  BY <1>1, <1>2, <1>3, StartExecuteKeeps

LEMMA ActivateKeeps == ASSUME IInv, Activate PROVE IInv'
<1>1. PICK rules \in Patchbays, exclusive \in BOOLEAN, auto \in BOOLEAN :
        Start("activate", Command("activate", rules), ActivateScript(rules, exclusive), auto)
  BY DEF Activate
<1> DEFINE cmd == Command("activate", rules)
           sweep == SetToSeq(Mutable(links) \ Range(rules))
           first == IF exclusive THEN Script("cut", sweep) ELSE <<>>
           todo == ActivateScript(rules, exclusive)
           j == Job("activate", cmd, todo, auto)
<1>2. rules \in Seq(Pairs) /\ <<>> \in Seq(Pairs) /\ <<>> \in Seq(Step)
  BY CommandConstants
<1>3. cmd \in Cmd
  BY <1>2 DEF Command, Cmd
<1>4. "cut" \in Calls /\ "rule" \in Calls
  BY DEF Calls
<1>5. sweep \in Seq(Pairs)
  <2>1. Mutable(links) \ Range(rules) \in SUBSET Pairs
    BY DEF IInv, TypeInv, Mutable
  <2> QED  BY <2>1, Listed
<1> HIDE DEF sweep
<1>6. first \in Seq(Step) /\ Script("rule", rules) \in Seq(Step)
  BY <1>2, <1>4, <1>5, ScriptOf
<1>7. todo = first \o Script("rule", rules)
  BY DEF ActivateScript, sweep
<1> HIDE DEF first, todo, cmd
<1>8. todo \in Seq(Step)
  BY <1>6, <1>7, JoinSpeaks
<1>9. j.kind = "activate"
  BY DEF Job
<1> HIDE DEF j
<1>10. Commanded(j) /\ Uniform(j)
  BY <1>9 DEF Commanded, Uniform, Runs
<1>11. "activate" \in {"execute", "redo", "undo", "activate"}
  OBVIOUS
<1> QED  BY <1>1, <1>3, <1>8, <1>10, <1>11, StartKeeps DEF j, cmd, todo

-----------------------------------------------------------------------------
(* Running.                                                                *)

LEMMA JobFields ==
  ASSUME TypeInv, job # NoJob
  PROVE  /\ job \in Jobs /\ job.cmd \in Cmd /\ job.todo \in Seq(Step) /\ job.created \in Seq(Pairs)
         /\ job.removed \in Seq(Pairs) /\ job.failing \in BOOLEAN /\ job.stranded \in Nat
         /\ job.before \subseteq Pairs /\ job.kind \in {"execute", "redo", "undo", "activate"}
         /\ job.auto \in BOOLEAN
  BY DEF TypeInv, Jobs

LEMMA ConsiderRuleKeeps == ASSUME IInv, ConsiderRule PROVE IInv'
<1> DEFINE p == Head(job.todo).pair
           stale == IF job.auto THEN SetToSeq(Mutable(links) \cap SharesInput(p)) ELSE <<>>
           steps == IF p \in links THEN <<>> ELSE Script("cut", stale) \o Script("add", <<p>>)
<1>1. /\ job # NoJob /\ job.todo # <<>> /\ Head(job.todo).call = "rule"
      /\ job' = [job EXCEPT !.todo = steps \o Tail(@)]
      /\ UNCHANGED <<links, blocked, undo_stack, redo_stack, spoilt>>
  BY DEF ConsiderRule, stacks
<1>2. /\ job \in Jobs /\ job.todo \in Seq(Step) /\ Tail(job.todo) \in Seq(Step) /\ p \in Pairs
      /\ Rules(job.todo)
  BY <1>1, JobFields, TailSpeaks DEF IInv, Rules
<1>3. stale \in Seq(Pairs)
  <2>1. Mutable(links) \cap SharesInput(p) \in SUBSET Pairs
    BY DEF SharesInput
  <2>2. <<>> \in Seq(Pairs)
    OBVIOUS
  <2> QED  BY <2>1, <2>2, Listed
<1>4. "cut" \in Calls /\ "add" \in Calls
  BY DEF Calls
<1> HIDE DEF stale, p
<1>5. steps \in Seq(Step)
  <2>1. <<p>> \in Seq(Pairs)
    BY <1>2
  <2>2. Script("cut", stale) \in Seq(Step) /\ Script("add", <<p>>) \in Seq(Step)
    BY <1>3, <1>4, <2>1, ScriptOf
  <2>3. <<>> \in Seq(Step)
    OBVIOUS
  <2> QED  BY <2>2, <2>3, JoinSpeaks
<1> HIDE DEF steps
<1> DEFINE rest == steps \o Tail(job.todo)
<1>6. rest \in Seq(Step)
  BY <1>2, <1>5, JoinSpeaks
<1>7. job' = [job EXCEPT !.todo = rest]
  BY <1>1
<1> HIDE DEF rest
<1>8. job' \in Jobs /\ job' # NoJob
  <2>1. job' \in Jobs
    BY <1>2, <1>6, <1>7 DEF Jobs
  <2> QED  BY <2>1, JobIsSome
<1>9. /\ job'.kind = job.kind /\ job'.cmd = job.cmd /\ job'.created = job.created
      /\ job'.removed = job.removed /\ job'.failing = job.failing /\ job'.stranded = job.stranded
      /\ job'.before = job.before /\ job'.todo = rest
  BY <1>2, <1>7 DEF Jobs
<1>10. job.kind = "activate" /\ ~job.failing
  BY <1>1, <1>2 DEF IInv, JobInv, Scripted
<1>11. TypeInv'
  BY <1>1, <1>8 DEF IInv, TypeInv
<1>12. StackInv'
  <2>1. Basis' = Basis
    BY <1>1, <1>8, <1>9 DEF Basis
  <2> QED  BY <1>1, <2>1, StackStays DEF IInv, stacks
<1>13. JobInv'
  <2>1. Commanded(job) /\ Scripted(job) /\ (job.stranded = 0 => \A x \in Ours : Tracked(job, links, x))
    BY <1>1 DEF IInv, JobInv
  <2>2. Commanded(job)' /\ Uniform(job)' /\ Ours' = Ours
    BY <1>1, <1>9, <1>10, <2>1 DEF Commanded, Uniform, Runs, Ours
  <2>3. Scripted(job)'
    BY <1>9, <1>10, <2>1 DEF Scripted, Perseveres
  <2>4. ASSUME NEW x \in Ours, Tracked(job, links, x)
        PROVE  Tracked(job', links', x)
    <3>1. Ledger(job, links, x)
      BY <1>10, <2>4 DEF Tracked
    <3>2. Ledger(job', links', x)
      BY <1>1, <1>9, <3>1 DEF Ledger
    <3> QED  BY <1>9, <1>10, <3>2 DEF Tracked
  <2> QED  BY <1>8, <1>9, <2>1, <2>2, <2>3, <2>4 DEF JobInv
<1> QED  BY <1>11, <1>12, <1>13 DEF IInv

LEMMA OtherClientKeeps == ASSUME IInv, OtherClient PROVE IInv'
<1>1. UNCHANGED <<blocked, undo_stack, redo_stack, job>> /\ UNCHANGED stacks
  BY DEF OtherClient, stacks
<1>2. PICK p \in Pairs : /\ links' = IF p \in links THEN links \ {p} ELSE links \cup {p}
                         /\ spoilt' = spoilt \cup {p}
  BY DEF OtherClient
<1>3. TypeInv'
  BY <1>1, <1>2 DEF IInv, TypeInv
<1>4. \A x \in Ours' : x \in links' <=> x \in links
  BY <1>2 DEF Ours
<1>5. \A x \in Ours' : x \in Basis' <=> x \in Basis
  BY <1>1, <1>4 DEF Basis
<1>6. spoilt \subseteq spoilt'
  BY <1>2
<1> QED  BY <1>1, <1>3, <1>4, <1>5, <1>6, StackStays, JobStays DEF IInv

\* What a call that succeeds leaves in the job.
Kept(j, n) == /\ n.kind = j.kind /\ n.cmd = j.cmd /\ n.auto = j.auto /\ n.before = j.before

LEMMA AfterSuccess ==
  ASSUME TypeInv, job # NoJob, job.todo # <<>>, NEW result, result # "error"
  PROVE  LET n == AfterCall(job, result)
             p == Head(job.todo).pair
         IN  /\ n \in Jobs /\ Kept(job, n) /\ n.todo = Tail(job.todo)
             /\ n.failing = job.failing /\ n.stranded = job.stranded
             /\ \/ /\ n.created = job.created /\ n.removed = job.removed
                   /\ job.failing \/ result \notin {"made", "removed"}
                \/ /\ n.created = Append(job.created, p) /\ n.removed = job.removed
                   /\ result = "made" /\ ~job.failing
                \/ /\ n.created = RemoveFirst(job.created, p) /\ n.removed = job.removed
                   /\ result = "removed" /\ Contains(job.created, p) /\ ~job.failing
                \/ /\ n.created = job.created /\ n.removed = Append(job.removed, p)
                   /\ result = "removed" /\ ~Contains(job.created, p) /\ ~job.failing
<1> DEFINE n == AfterCall(job, result)
           p == Head(job.todo).pair
<1>1. /\ job \in Jobs /\ job.cmd \in Cmd /\ job.todo \in Seq(Step) /\ job.created \in Seq(Pairs)
      /\ job.removed \in Seq(Pairs) /\ job.failing \in BOOLEAN /\ job.stranded \in Nat
      /\ job.before \subseteq Pairs /\ job.kind \in {"execute", "redo", "undo", "activate"}
      /\ job.auto \in BOOLEAN
  BY JobFields
<1>2. Tail(job.todo) \in Seq(Step) /\ p \in Pairs
  BY <1>1, TailSpeaks
<1>4. ASSUME NEW c \in Seq(Pairs), NEW r \in Seq(Pairs),
             n = [job EXCEPT !.todo = Tail(job.todo), !.created = c, !.removed = r]
      PROVE  /\ n \in Jobs /\ Kept(job, n) /\ n.todo = Tail(job.todo)
             /\ n.failing = job.failing /\ n.stranded = job.stranded
             /\ n.created = c /\ n.removed = r
  <2> DEFINE m == [job EXCEPT !.todo = Tail(job.todo), !.created = c, !.removed = r]
  <2>1. m \in Jobs
    BY <1>1, <1>2 DEF Jobs
  <2>2. /\ m.todo = Tail(job.todo) /\ m.created = c /\ m.removed = r
        /\ m.failing = job.failing /\ m.stranded = job.stranded
    BY <1>1 DEF Jobs
  <2>3. m.kind = job.kind /\ m.cmd = job.cmd /\ m.auto = job.auto /\ m.before = job.before
    BY <1>1 DEF Jobs
  <2>4. n = m
    BY <1>4
  <2> HIDE DEF n, m
  <2> QED  BY <2>1, <2>2, <2>3, <2>4 DEF Kept
<1>5. CASE job.failing \/ result \notin {"made", "removed"}
  <2>1. n = [job EXCEPT !.todo = Tail(job.todo)]
    BY <1>5 DEF AfterCall
  <2>2. n = [job EXCEPT !.todo = Tail(job.todo), !.created = job.created, !.removed = job.removed]
    BY <1>1, <2>1 DEF Jobs
  <2> QED  BY <1>1, <1>4, <1>5, <2>2
<1>6. CASE ~job.failing /\ result = "made"
  <2>1. n = [job EXCEPT !.todo = Tail(job.todo), !.created = Append(job.created, p)]
    BY <1>1, <1>6 DEF AfterCall, Jobs
  <2>2. n = [job EXCEPT !.todo = Tail(job.todo), !.created = Append(job.created, p), !.removed = job.removed]
    BY <1>1, <2>1 DEF Jobs
  <2>3. Append(job.created, p) \in Seq(Pairs)
    BY <1>1, <1>2
  <2> QED  BY <1>1, <1>4, <1>6, <2>2, <2>3
<1>7. CASE ~job.failing /\ result = "removed" /\ Contains(job.created, p)
  <2>1. n = [job EXCEPT !.todo = Tail(job.todo), !.created = RemoveFirst(job.created, p)]
    BY <1>1, <1>7 DEF AfterCall, Jobs
  <2>2. RemoveFirst(job.created, p) \in Seq(Pairs)
    BY <1>1, <1>7, RemovedOnce
  <2>3. n = [job EXCEPT !.todo = Tail(job.todo), !.created = RemoveFirst(job.created, p), !.removed = job.removed]
    BY <1>1, <2>1 DEF Jobs
  <2> QED  BY <1>1, <1>4, <1>7, <2>2, <2>3
<1>8. CASE ~job.failing /\ result = "removed" /\ ~Contains(job.created, p)
  <2>1. n = [job EXCEPT !.todo = Tail(job.todo), !.removed = Append(job.removed, p)]
    BY <1>1, <1>8 DEF AfterCall, Jobs
  <2>2. n = [job EXCEPT !.todo = Tail(job.todo), !.created = job.created, !.removed = Append(job.removed, p)]
    BY <1>1, <2>1 DEF Jobs
  <2>3. Append(job.removed, p) \in Seq(Pairs)
    BY <1>1, <1>2
  <2> QED  BY <1>1, <1>4, <1>8, <2>2, <2>3
<1> QED  BY <1>1, <1>5, <1>6, <1>7, <1>8

LEMMA GoalTyped == ASSUME NEW j, j.kind = "activate" \/ j.cmd.op \in Ops, j.failing \/ j.kind # "activate", NEW p
                   PROVE  Goal(j, p) \in BOOLEAN
<1>1. CASE j.failing
  <2>1. Goal(j, p) = (p \in j.before)
    BY <1>1 DEF Goal
  <2> QED  BY <2>1
<1>2. CASE ~j.failing /\ j.kind = "undo"
  <2>1. Goal(j, p) = (p \in j.cmd.before)
    BY <1>2 DEF Goal
  <2> QED  BY <2>1
<1>3. CASE ~j.failing /\ j.kind # "undo"
  <2>1. Goal(j, p) = Aimed(j.cmd, j.before, p)
    BY <1>3 DEF Goal
  <2> QED  BY <1>3, <2>1, AimedAt
<1> QED  BY <1>1, <1>2, <1>3

\* A call that succeeds keeps the books.
LEMMA SuccessTracks ==
  ASSUME IInv, job # NoJob, job.todo # <<>>, Head(job.todo).call # "rule",
         NEW result, result # "error", Call(Head(job.todo), result),
         NEW p \in Ours', Tracked(job, links, p)
  PROVE  Tracked(AfterCall(job, result), links', p)
<1> DEFINE n == AfterCall(job, result)
           step == Head(job.todo)
           q == step.pair
<1>1. TypeInv /\ p \in Pairs /\ p \notin spoilt'
  BY DEF IInv, Ours
<1>2. /\ job.todo \in Seq(Step) /\ job.created \in Seq(Pairs) /\ job.removed \in Seq(Pairs)
      /\ job.failing \in BOOLEAN
  BY <1>1, JobFields
<1>3. step \in Step /\ q \in Pairs
  BY <1>2, TailSpeaks
<1>4. /\ p # q => (p \in links' <=> p \in links)
      /\ p = q => /\ p \in links' <=> step.call = "add"
                  /\ step.call = "add" => result = IF p \in links THEN "kept" ELSE "made"
                  /\ step.call # "add" => result = IF p \in links THEN "removed" ELSE "absent"
  BY <1>1, <1>3, CallEffect
<1>5. /\ Kept(job, n) /\ n.todo = Tail(job.todo) /\ n.failing = job.failing
      /\ \/ /\ n.created = job.created /\ n.removed = job.removed
            /\ job.failing \/ result \notin {"made", "removed"}
         \/ /\ n.created = Append(job.created, q) /\ n.removed = job.removed
            /\ result = "made" /\ ~job.failing
         \/ /\ n.created = RemoveFirst(job.created, q) /\ n.removed = job.removed
            /\ result = "removed" /\ Contains(job.created, q) /\ ~job.failing
         \/ /\ n.created = job.created /\ n.removed = Append(job.removed, q)
            /\ result = "removed" /\ ~Contains(job.created, q) /\ ~job.failing
  BY <1>1, AfterSuccess
<1> HIDE DEF n, q, step
<1>6. ASSUME ~job.failing
      PROVE  Ledger(n, links', p)
  <2>1. Ledger(job, links, p) /\ Once(job.created, p)
    BY <1>6 DEF Tracked, Ledger, Once
  <2>2. n.before = job.before
    BY <1>5 DEF Kept
  <2>3. CASE n.created = job.created /\ n.removed = job.removed /\ result \notin {"made", "removed"}
    <3>1. p \in links' <=> p \in links
      BY <1>4, <2>3
    <3> QED  BY <2>1, <2>2, <2>3, <3>1 DEF Ledger
  <2>4. CASE n.created = Append(job.created, q) /\ n.removed = job.removed /\ result = "made"
    <3>1. Contains(n.created, p) <=> Contains(job.created, p) \/ q = p
      BY <1>2, <1>3, <2>4, ContainsAppended DEF q
    <3>2. p = q => p \in links' /\ p \notin links
      BY <1>4, <2>4
    <3>3. Once(n.created, p)
      <4>1. CASE p = q
        <5>1. \A k \in 1..Len(job.created) : job.created[k] # p
          BY <2>1, <3>2, <4>1 DEF Ledger, Contains
        <5>2. /\ Len(n.created) = Len(job.created) + 1 /\ Len(job.created) \in Nat
              /\ \A k \in 1..Len(job.created) : n.created[k] = job.created[k]
          BY <1>2, <1>3, <2>4, Appended DEF q
        <5>3. \A k \in 1..Len(n.created) : n.created[k] = p => k = Len(n.created)
          BY <5>1, <5>2
        <5> QED  BY <5>3 DEF Once
      <4>2. CASE p # q
        <5>1. /\ Len(n.created) = Len(job.created) + 1 /\ Len(job.created) \in Nat
              /\ \A k \in 1..Len(job.created) : n.created[k] = job.created[k]
              /\ n.created[Len(job.created) + 1] = q
          BY <1>2, <1>3, <2>4, Appended DEF q
        <5>2. \A k \in 1..Len(n.created) : n.created[k] = p => k \in 1..Len(job.created)
          BY <4>2, <5>1
        <5> QED  BY <2>1, <5>1, <5>2 DEF Once
      <4> QED  BY <4>1, <4>2
    <3> QED  BY <1>4, <2>1, <2>2, <2>4, <3>1, <3>2, <3>3 DEF Ledger, Once
  <2>5. CASE /\ n.created = RemoveFirst(job.created, q) /\ n.removed = job.removed
             /\ result = "removed" /\ Contains(job.created, q)
    <3>1. /\ Once(n.created, p) /\ (Contains(n.created, p) => Contains(job.created, p))
          /\ (p # q /\ Contains(job.created, p) => Contains(n.created, p))
          /\ (p = q => ~Contains(n.created, p))
      BY <1>2, <2>1, <2>5, RemovedOnce
    <3>2. p = q => p \notin links' /\ p \in links
      BY <1>4, <2>5
    <3> QED  BY <1>4, <2>1, <2>2, <2>5, <3>1, <3>2 DEF Ledger, Once
  <2>6. CASE /\ n.created = job.created /\ n.removed = Append(job.removed, q)
             /\ result = "removed" /\ ~Contains(job.created, q)
    <3>1. Contains(n.removed, p) <=> Contains(job.removed, p) \/ q = p
      BY <1>2, <1>3, <2>6, ContainsAppended DEF q
    <3>2. p = q => p \notin links' /\ p \in links
      BY <1>4, <2>6
    <3> QED  BY <1>4, <2>1, <2>2, <2>6, <3>1, <3>2 DEF Ledger
  <2> QED  BY <1>5, <1>6, <2>3, <2>4, <2>5, <2>6
<1>7. ASSUME job.failing \/ job.kind # "activate"
      PROVE  Leads(n.todo, links', p, Goal(n, p))
  <2>1. job.kind = "activate" \/ job.cmd.op \in Ops
    BY DEF IInv, JobInv, Commanded
  <2> DEFINE goal == Goal(job, p)
  <2>2. goal \in BOOLEAN
    BY <1>7, <2>1, GoalTyped
  <2>3. Leads(job.todo, links, p, goal)
    BY <1>7 DEF Tracked
  <2>4. Goal(n, p) = goal
    BY <1>5 DEF Goal, Kept
  <2> HIDE DEF goal
  <2>5. Leads(Tail(job.todo), links', p, goal)
    BY <1>2, <1>4, <2>2, <2>3, TailLeads DEF q, step
  <2> QED  BY <1>5, <2>4, <2>5
<1> QED  BY <1>5, <1>6, <1>7 DEF Tracked, Kept, n

LEMMA SuccessUniform ==
  ASSUME IInv, job # NoJob, job.todo # <<>>, Head(job.todo).call # "rule",
         NEW result, result # "error", Call(Head(job.todo), result)
  PROVE  Uniform(AfterCall(job, result))
<1> DEFINE n == AfterCall(job, result)
           step == Head(job.todo)
           q == step.pair
           rest == Tail(job.todo)
<1>1. TypeInv /\ Uniform(job)
  BY DEF IInv, JobInv
<1>2. /\ job.todo \in Seq(Step) /\ job.created \in Seq(Pairs) /\ job.removed \in Seq(Pairs)
  BY <1>1, JobFields
<1>3. /\ step \in Step /\ q \in Pairs /\ step = job.todo[1] /\ 1 \in 1..Len(job.todo)
      /\ \A k \in 1..Len(rest) : k + 1 \in 1..Len(job.todo) /\ rest[k] = job.todo[k + 1]
  BY <1>2, TailSpeaks
<1>4. /\ step.call = "add" => result \in {"made", "kept"}
      /\ step.call # "add" => result \in {"removed", "absent"}
  BY <1>1, <1>3, CallEffect
<1>5. /\ Kept(job, n) /\ n.todo = rest /\ n.failing = job.failing
      /\ \/ /\ n.created = job.created /\ n.removed = job.removed
         \/ /\ n.created = Append(job.created, q) /\ n.removed = job.removed
            /\ result = "made"
         \/ /\ n.created = RemoveFirst(job.created, q) /\ n.removed = job.removed
            /\ result = "removed" /\ Contains(job.created, q)
         \/ /\ n.created = job.created /\ n.removed = Append(job.removed, q)
            /\ result = "removed"
  BY <1>1, AfterSuccess
<1> HIDE DEF n, q, rest
<1>6. ASSUME Runs(job), ~job.failing, Connects(job.cmd)
      PROVE  n.removed = <<>> /\ \A k \in 1..Len(n.todo) : n.todo[k].call = "add"
  <2>1. job.removed = <<>> /\ \A k \in 1..Len(job.todo) : job.todo[k].call = "add"
    BY <1>1, <1>6 DEF Uniform
  <2>2. result \in {"made", "kept"}
    BY <1>3, <1>4, <2>1
  <2> QED  BY <1>3, <1>5, <2>1, <2>2
<1>7. ASSUME Runs(job), ~job.failing, Disconnects(job.cmd)
      PROVE  n.created = <<>> /\ \A k \in 1..Len(n.todo) : n.todo[k].call = "drop"
  <2>1. job.created = <<>> /\ \A k \in 1..Len(job.todo) : job.todo[k].call = "drop"
    BY <1>1, <1>7 DEF Uniform
  <2>2. result \in {"removed", "absent"} /\ ~Contains(job.created, q)
    BY <1>3, <1>4, <2>1, ContainsNothing
  <2> QED  BY <1>3, <1>5, <2>1, <2>2
<1>8. ASSUME Runs(job), ~job.failing, Reroutes(job.cmd)
      PROVE  /\ \A p \in Pairs : Contains(n.created, p) => p = job.cmd.keys[2]
             /\ \A p \in Pairs : Contains(n.removed, p) => p = job.cmd.keys[1]
             /\ \A k \in 1..Len(n.todo) :
                  \/ n.todo[k].call = "cut" /\ n.todo[k].pair = job.cmd.keys[1]
                  \/ n.todo[k].call = "add" /\ n.todo[k].pair = job.cmd.keys[2]
  <2>1. /\ \A p \in Pairs : Contains(job.created, p) => p = job.cmd.keys[2]
        /\ \A p \in Pairs : Contains(job.removed, p) => p = job.cmd.keys[1]
        /\ \A k \in 1..Len(job.todo) :
             \/ job.todo[k].call = "cut" /\ job.todo[k].pair = job.cmd.keys[1]
             \/ job.todo[k].call = "add" /\ job.todo[k].pair = job.cmd.keys[2]
    BY <1>1, <1>8 DEF Uniform
  <2>2. \/ step.call = "cut" /\ q = job.cmd.keys[1]
        \/ step.call = "add" /\ q = job.cmd.keys[2]
    BY <1>3, <2>1 DEF q
  <2>3. /\ result = "made" => q = job.cmd.keys[2]
        /\ result = "removed" => q = job.cmd.keys[1]
    BY <1>4, <2>2
  <2>4. ASSUME NEW p \in Pairs, Contains(n.created, p)
        PROVE  p = job.cmd.keys[2]
    <3>1. CASE n.created = job.created
      BY <2>1, <2>4, <3>1
    <3>2. CASE n.created = Append(job.created, q) /\ result = "made"
      BY <1>2, <1>3, <2>1, <2>3, <2>4, <3>2, ContainsAppended
    <3>3. CASE n.created = RemoveFirst(job.created, q) /\ Contains(job.created, q)
      <4>1. Contains(job.created, p)
        BY <1>2, <2>4, <3>3, RemovedOnce
      <4> QED  BY <2>1, <4>1
    <3> QED  BY <1>5, <3>1, <3>2, <3>3
  <2>5. ASSUME NEW p \in Pairs, Contains(n.removed, p)
        PROVE  p = job.cmd.keys[1]
    <3>1. CASE n.removed = job.removed
      BY <2>1, <2>5, <3>1
    <3>2. CASE n.removed = Append(job.removed, q) /\ result = "removed"
      BY <1>2, <1>3, <2>1, <2>3, <2>5, <3>2, ContainsAppended
    <3> QED  BY <1>5, <3>1, <3>2
  <2> QED  BY <1>3, <1>5, <2>1, <2>4, <2>5
<1> QED  BY <1>5, <1>6, <1>7, <1>8 DEF Uniform, Kept, Runs, n

LEMMA RollbackOf ==
  ASSUME TypeInv, job # NoJob
  PROVE  /\ Rollback(job) \in Seq(Step) /\ ~Rules(Rollback(job))
         /\ \A p \in Pairs : Ledger(job, links, p) => Leads(Rollback(job), links, p, p \in job.before)
<1> DEFINE back == Reverse(job.created)
           again == Reverse(job.removed)
           s == Script("cutAllow", back)
           t == Script("add", again)
<1>1. job.created \in Seq(Pairs) /\ job.removed \in Seq(Pairs)
  BY JobFields
<1>2. /\ back \in Seq(Pairs) /\ again \in Seq(Pairs)
      /\ \A p : Contains(back, p) <=> Contains(job.created, p)
      /\ \A p : Contains(again, p) <=> Contains(job.removed, p)
  BY <1>1, Reversed
<1>3. Rollback(job) = s \o t /\ {"add", "cutAllow"} \subseteq Calls
  BY DEF Rollback, Calls
<1> HIDE DEF back, again
<1>4. s \in Seq(Step) /\ ~Rules(s)
  BY <1>2, <1>3, ScriptOf
<1>5. t \in Seq(Step) /\ ~Rules(t) /\ \A p : Speaks(t, p) <=> Contains(again, p)
  BY <1>2, <1>3, ScriptOf
<1>6. ASSUME NEW p \in Pairs, Ledger(job, links, p)
      PROVE  Leads(Rollback(job), links, p, p \in job.before)
  <2> DEFINE goal == p \in job.before
  <2>1. goal \in BOOLEAN /\ (Contains(again, p) => goal)
        /\ (~Contains(again, p) /\ Contains(back, p) => ~goal)
        /\ (~Contains(again, p) /\ ~Contains(back, p) => (p \in links <=> goal))
    BY <1>2, <1>6 DEF Ledger
  <2> HIDE DEF goal
  <2>2. Speaks(t, p) => Leads(t, links, p, goal)
    BY <1>2, <1>3, <1>5, <2>1, ScriptLeads
  <2>3. ~Speaks(t, p) => Leads(s, links, p, goal)
    BY <1>2, <1>3, <1>5, <2>1, ScriptLeads
  <2> HIDE DEF s, t
  <2>4. Leads(s \o t, links, p, goal)
    BY <1>4, <1>5, <2>1, <2>2, <2>3, JoinLeads
  <2> QED  BY <1>3, <2>4 DEF goal
<1>7. Rollback(job) \in Seq(Step) /\ ~Rules(Rollback(job))
  BY <1>3, <1>4, <1>5, JoinSpeaks
<1> QED  BY <1>6, <1>7

\* A call that fails starts the roll-back, or is counted.
LEMMA AfterFailure ==
  ASSUME TypeInv, job # NoJob, job.todo # <<>>
  PROVE  LET n == AfterCall(job, "error")
         IN  /\ n \in Jobs /\ Kept(job, n)
             /\ n.created = job.created /\ n.removed = job.removed
             /\ \/ /\ KeepsGoing(job) /\ n.todo = Tail(job.todo) /\ n.failing = job.failing
                   /\ n.stranded # 0
                \/ /\ ~KeepsGoing(job) /\ n.todo = Rollback(job) /\ n.failing = TRUE
<1>1. /\ job \in Jobs /\ job.todo \in Seq(Step) /\ job.failing \in BOOLEAN /\ job.stranded \in Nat
  BY JobFields
<1>2. Tail(job.todo) \in Seq(Step)
  BY <1>1, TailSpeaks
<1>3. AfterCall(job, "error") = AfterError(job)
  BY DEF AfterCall
<1>4. CASE KeepsGoing(job)
  <2> DEFINE n == [job EXCEPT !.todo = Tail(job.todo), !.stranded = job.stranded + 1]
  <2>1. AfterCall(job, "error") = n
    BY <1>1, <1>3, <1>4 DEF AfterError, Jobs
  <2>2. job.stranded + 1 \in Nat /\ job.stranded + 1 # 0
    BY <1>1
  <2>3. n \in Jobs
    BY <1>1, <1>2, <2>2 DEF Jobs
  <2>4. /\ n.kind = job.kind /\ n.cmd = job.cmd /\ n.auto = job.auto /\ n.before = job.before
        /\ n.created = job.created /\ n.removed = job.removed
        /\ n.todo = Tail(job.todo) /\ n.failing = job.failing /\ n.stranded = job.stranded + 1
    BY <1>1 DEF Jobs
  <2> HIDE DEF n
  <2> QED  BY <1>4, <2>1, <2>2, <2>3, <2>4 DEF Kept
<1>5. CASE ~KeepsGoing(job)
  <2> DEFINE k == StrandedAtOnce(job)
             n == [job EXCEPT !.todo = Rollback(job), !.failing = TRUE, !.stranded = k]
  <2>1. AfterCall(job, "error") = n
    BY <1>3, <1>5 DEF AfterError
  <2>2. k \in Nat
    BY DEF StrandedAtOnce
  <2>3. Rollback(job) \in Seq(Step)
    BY RollbackOf
  <2> HIDE DEF k
  <2>4. n \in Jobs
    BY <1>1, <2>2, <2>3 DEF Jobs
  <2>5. /\ n.kind = job.kind /\ n.cmd = job.cmd /\ n.auto = job.auto /\ n.before = job.before
        /\ n.created = job.created /\ n.removed = job.removed
        /\ n.todo = Rollback(job) /\ n.failing = TRUE
    BY <1>1 DEF Jobs
  <2> HIDE DEF n
  <2> QED  BY <1>5, <2>1, <2>4, <2>5 DEF Kept
<1> QED  BY <1>4, <1>5

LEMMA CallReturnsKeeps == ASSUME IInv, CallReturns PROVE IInv'
<1>1. PICK result \in {"made", "kept", "removed", "absent", "error"} :
        Call(Head(job.todo), result) /\ job' = AfterCall(job, result)
  BY DEF CallReturns
<1>2. /\ job # NoJob /\ job.todo # <<>> /\ Head(job.todo).call # "rule"
      /\ UNCHANGED <<undo_stack, redo_stack>> /\ UNCHANGED stacks
  BY DEF CallReturns, stacks
<1>3. TypeInv /\ StackInv /\ Commanded(job) /\ Uniform(job) /\ Scripted(job)
      /\ (job.stranded = 0 => \A p \in Ours : Tracked(job, links, p))
  BY <1>2 DEF IInv, JobInv
<1>4. job.todo \in Seq(Step) /\ Head(job.todo) \in Step /\ job.stranded \in Nat /\ job.failing \in BOOLEAN
  BY <1>2, <1>3, JobFields, TailSpeaks
<1>5. /\ links' \subseteq Pairs /\ blocked' \subseteq Pairs /\ spoilt \subseteq spoilt'
      /\ result = "error" => \A p \in Pairs \ spoilt' : (p \in links' <=> p \in links)
  BY <1>1, <1>2, <1>3, <1>4, CallEffect
<1>6. Ours' \subseteq Ours /\ Ours' \subseteq Pairs
  BY <1>5 DEF Ours
<1>7. job' \in Jobs /\ Kept(job, job')
  <2>1. CASE result = "error"
    BY <1>1, <1>2, <1>3, <2>1, AfterFailure
  <2>2. CASE result # "error"
    BY <1>1, <1>2, <1>3, <2>2, AfterSuccess
  <2> QED  BY <2>1, <2>2
<1>8. job' # NoJob
  BY <1>7, JobIsSome
<1>9. TypeInv'
  BY <1>2, <1>3, <1>5, <1>7 DEF TypeInv
<1>10. StackInv'
  <2>1. Basis' = Basis
    BY <1>2, <1>7, <1>8 DEF Basis, Kept
  <2> QED  BY <1>2, <1>3, <1>5, <2>1, StackStays
<1>11. Commanded(job)'
  BY <1>2, <1>3, <1>6, <1>7 DEF Commanded, Kept, Runs
<1>12. CASE result # "error"
  <2>1. /\ job'.todo = Tail(job.todo) /\ job'.failing = job.failing /\ job'.stranded = job.stranded
    BY <1>1, <1>2, <1>3, <1>12, AfterSuccess
  <2>2. Uniform(job')
    BY <1>1, <1>2, <1>12, SuccessUniform
  <2>3. Scripted(job')
    <3>1. Rules(Tail(job.todo)) => Rules(job.todo)
      BY <1>2, <1>4, TailSpeaks DEF Rules
    <3> QED  BY <1>3, <1>7, <2>1, <3>1 DEF Scripted, Perseveres, Kept
  <2>4. ASSUME job'.stranded = 0, NEW p \in Ours'
        PROVE  Tracked(job', links', p)
    <3>1. Tracked(job, links, p)
      BY <1>3, <1>6, <2>1, <2>4
    <3> QED  BY <1>1, <1>2, <1>12, <3>1, SuccessTracks
  <2>5. JobInv'
    BY <1>11, <2>2, <2>3, <2>4 DEF JobInv
  <2> QED  BY <1>9, <1>10, <2>5 DEF IInv
<1>13. CASE result = "error"
  <2>1. /\ job'.created = job.created /\ job'.removed = job.removed
        /\ \/ /\ KeepsGoing(job) /\ job'.todo = Tail(job.todo) /\ job'.failing = job.failing
              /\ job'.stranded # 0
           \/ /\ ~KeepsGoing(job) /\ job'.todo = Rollback(job) /\ job'.failing = TRUE
    BY <1>1, <1>2, <1>3, <1>13, AfterFailure
  <2>2. CASE KeepsGoing(job)
    <3>1. job'.todo = Tail(job.todo) /\ job'.failing = job.failing /\ job'.stranded # 0
      BY <2>1, <2>2
    <3>2. /\ \A k \in 1..Len(Tail(job.todo)) :
                k + 1 \in 1..Len(job.todo) /\ Tail(job.todo)[k] = job.todo[k + 1]
          /\ Rules(Tail(job.todo)) => Rules(job.todo)
      BY <1>2, <1>4, TailSpeaks DEF Rules
    <3>3. job.failing \/ Perseveres(job)
      BY <2>2 DEF KeepsGoing, Perseveres
    <3>4. Uniform(job')
      BY <1>7, <3>1, <3>3 DEF Uniform, Kept, Runs, Perseveres
    <3>5. Scripted(job')
      BY <1>3, <1>7, <3>1, <3>2, <3>3 DEF Scripted, Perseveres, Kept
    <3>6. JobInv'
      BY <1>11, <3>1, <3>4, <3>5 DEF JobInv
    <3> QED  BY <1>9, <1>10, <3>6 DEF IInv
  <2>3. CASE ~KeepsGoing(job)
    <3>1. job'.todo = Rollback(job) /\ job'.failing = TRUE
      BY <2>1, <2>3
    <3>2. ~job.failing /\ job.stranded = 0
      BY <1>3, <2>3 DEF KeepsGoing, Scripted, Perseveres
    <3>3. /\ ~Rules(Rollback(job))
          /\ \A p \in Pairs : Ledger(job, links, p) => Leads(Rollback(job), links, p, p \in job.before)
      BY <1>2, <1>3, RollbackOf
    <3>4. Uniform(job') /\ Scripted(job')
      BY <3>1, <3>3 DEF Uniform, Scripted
    <3>5. ASSUME NEW p \in Ours'
          PROVE  Tracked(job', links', p)
      <4>1. Ledger(job, links, p)
        BY <1>3, <1>6, <3>2, <3>5 DEF Tracked
      <4>2. Leads(Rollback(job), links, p, p \in job.before) /\ (p \in links' <=> p \in links)
        BY <1>5, <1>6, <1>13, <3>3, <3>5, <4>1 DEF Ours
      <4>3. Leads(Rollback(job), links', p, p \in job.before)
        BY <4>2 DEF Leads
      <4>4. Goal(job', p) = (p \in job.before)
        BY <1>7, <3>1 DEF Goal, Kept
      <4> QED  BY <3>1, <4>3, <4>4 DEF Tracked
    <3>6. JobInv'
      BY <1>11, <3>4, <3>5 DEF JobInv
    <3> QED  BY <1>9, <1>10, <3>6 DEF IInv
  <2> QED  BY <2>2, <2>3
<1> QED  BY <1>12, <1>13

-----------------------------------------------------------------------------
(* Finishing.                                                              *)

LEMMA PastGrows ==
  ASSUME NEW stack \in Seq(Cmd), NEW cmd \in Cmd, NEW graph, NEW now,
         Past(stack, graph), Entry(cmd), Agree(cmd.before, graph), Agree(cmd.after, now)
  PROVE  Past(Append(stack, cmd), now)
<1> DEFINE longer == Append(stack, cmd)
           n == Len(stack)
<1>1. /\ n \in Nat /\ Len(longer) = n + 1 /\ longer[n + 1] = cmd
      /\ \A k \in 1..n : longer[k] = stack[k]
  BY Appended
<1>2. stack # <<>> => n \in 1..n /\ Agree(stack[n].after, cmd.before)
  BY DEF Past, Agree
<1>3. n # 0 => stack # <<>>
  OBVIOUS
<1> HIDE DEF longer, n
<1>4. ASSUME NEW k \in 1..(n + 1)
      PROVE  Entry(longer[k])
  <2>1. CASE k = n + 1
    BY <1>1, <2>1
  <2>2. CASE k \in 1..n
    BY <1>1, <2>2 DEF Past, n
  <2> QED  BY <1>1, <2>1, <2>2
<1>5. ASSUME NEW k \in 2..(n + 1)
      PROVE  Agree(longer[k-1].after, longer[k].before)
  <2>1. CASE k = n + 1
    <3>1. n # 0 /\ k - 1 = n
      BY <1>1, <2>1
    <3> QED  BY <1>1, <1>2, <1>3, <2>1, <3>1
  <2>2. CASE k \in 2..n
    <3>1. k \in 1..n /\ k - 1 \in 1..n
      BY <1>1, <2>2
    <3> QED  BY <1>1, <2>2, <3>1 DEF Past, n
  <2> QED  BY <1>1, <2>1, <2>2
<1> QED  BY <1>1, <1>4, <1>5 DEF Past, longer

LEMMA FutureGrows ==
  ASSUME NEW stack \in Seq(Cmd), NEW cmd \in Cmd, NEW graph, NEW now,
         Future(stack, graph), Entry(cmd), Agree(cmd.after, graph), Agree(cmd.before, now)
  PROVE  Future(Append(stack, cmd), now)
<1> DEFINE longer == Append(stack, cmd)
           n == Len(stack)
<1>1. /\ n \in Nat /\ Len(longer) = n + 1 /\ longer[n + 1] = cmd
      /\ \A k \in 1..n : longer[k] = stack[k]
  BY Appended
<1>2. stack # <<>> => n \in 1..n /\ Agree(stack[n].before, cmd.after)
  BY DEF Future, Agree
<1>3. n # 0 => stack # <<>>
  OBVIOUS
<1> HIDE DEF longer, n
<1>4. ASSUME NEW k \in 1..(n + 1)
      PROVE  Entry(longer[k])
  <2>1. CASE k = n + 1
    BY <1>1, <2>1
  <2>2. CASE k \in 1..n
    BY <1>1, <2>2 DEF Future, n
  <2> QED  BY <1>1, <2>1, <2>2
<1>5. ASSUME NEW k \in 2..(n + 1)
      PROVE  Agree(longer[k-1].before, longer[k].after)
  <2>1. CASE k = n + 1
    <3>1. n # 0 /\ k - 1 = n
      BY <1>1, <2>1
    <3> QED  BY <1>1, <1>2, <1>3, <2>1, <3>1
  <2>2. CASE k \in 2..n
    <3>1. k \in 1..n /\ k - 1 \in 1..n
      BY <1>1, <2>2
    <3> QED  BY <1>1, <2>2, <3>1 DEF Future, n
  <2> QED  BY <1>1, <2>1, <2>2
<1> QED  BY <1>1, <1>4, <1>5 DEF Future, longer

LEMMA PastShrinks ==
  ASSUME NEW stack \in Seq(Cmd), stack # <<>>, NEW graph, NEW now,
         Past(stack, graph), Agree(stack[Len(stack)].before, now)
  PROVE  Past(Front(stack), now)
<1> DEFINE rest == Front(stack)
           n == Len(stack)
<1>1. /\ n \in Nat /\ n >= 1 /\ Len(rest) = n - 1 /\ rest \in Seq(Cmd)
      /\ \A k \in 1..Len(rest) : rest[k] = stack[k]
  BY FrontOf
<1>2. rest # <<>> => n >= 2
  BY <1>1
<1> HIDE DEF rest
<1>3. \A k \in 1..Len(rest) : Entry(rest[k])
  BY <1>1 DEF Past
<1>4. ASSUME NEW k \in 2..Len(rest)
      PROVE  Agree(rest[k-1].after, rest[k].before)
  <2>1. k \in 1..Len(rest) /\ k - 1 \in 1..Len(rest) /\ k \in 2..n
    BY <1>1
  <2> QED  BY <1>1, <2>1 DEF Past
<1>5. ASSUME rest # <<>>
      PROVE  Agree(rest[Len(rest)].after, now)
  <2>1. n \in 2..n /\ n - 1 \in 1..Len(rest) /\ Len(rest) = n - 1
    BY <1>1, <1>2, <1>5
  <2>2. Agree(stack[n-1].after, stack[n].before)
    BY <2>1 DEF Past
  <2> QED  BY <1>1, <2>1, <2>2 DEF Agree
<1> QED  BY <1>3, <1>4, <1>5 DEF Past, rest

LEMMA FutureShrinks ==
  ASSUME NEW stack \in Seq(Cmd), stack # <<>>, NEW graph, NEW now,
         Future(stack, graph), Agree(stack[Len(stack)].after, now)
  PROVE  Future(Front(stack), now)
<1> DEFINE rest == Front(stack)
           n == Len(stack)
<1>1. /\ n \in Nat /\ n >= 1 /\ Len(rest) = n - 1 /\ rest \in Seq(Cmd)
      /\ \A k \in 1..Len(rest) : rest[k] = stack[k]
  BY FrontOf
<1>2. rest # <<>> => n >= 2
  BY <1>1
<1> HIDE DEF rest
<1>3. \A k \in 1..Len(rest) : Entry(rest[k])
  BY <1>1 DEF Future
<1>4. ASSUME NEW k \in 2..Len(rest)
      PROVE  Agree(rest[k-1].before, rest[k].after)
  <2>1. k \in 1..Len(rest) /\ k - 1 \in 1..Len(rest) /\ k \in 2..n
    BY <1>1
  <2> QED  BY <1>1, <2>1 DEF Future
<1>5. ASSUME rest # <<>>
      PROVE  Agree(rest[Len(rest)].before, now)
  <2>1. n \in 2..n /\ n - 1 \in 1..Len(rest) /\ Len(rest) = n - 1
    BY <1>1, <1>2, <1>5
  <2>2. Agree(stack[n-1].before, stack[n].after)
    BY <2>1 DEF Future
  <2> QED  BY <1>1, <2>1, <2>2 DEF Agree
<1> QED  BY <1>3, <1>4, <1>5 DEF Future, rest

\* With no call left, what the calls lead to is what is.
LEMMA Arrived ==
  ASSUME JobInv, job # NoJob, job.todo = <<>>, job.stranded = 0,
         job.failing \/ job.kind # "activate", NEW p \in Ours
  PROVE  p \in links <=> Goal(job, p)
<1>1. Leads(job.todo, links, p, Goal(job, p))
  BY DEF JobInv, Tracked
<1> QED  BY <1>1 DEF Leads

\* What an execution records is true.
LEMMA ExecutedIsEntry ==
  ASSUME IInv, job # NoJob, job.todo = <<>>, job.stranded = 0, ~job.failing, Runs(job)
  PROVE  /\ Executed(job) \in Cmd /\ Entry(Executed(job))
         /\ Executed(job).before = job.before /\ Executed(job).after = links
         /\ \A p \in Ours : p \in links <=> Aimed(job.cmd, job.before, p)
<1> DEFINE cmd == job.cmd
           done == IF cmd.op = "reroute" THEN job.created ELSE job.created \o job.removed
           e == Executed(job)
<1>1. /\ job.created \in Seq(Pairs) /\ job.removed \in Seq(Pairs) /\ cmd \in Cmd
      /\ job.before \subseteq Pairs /\ links \subseteq Pairs
  BY JobFields DEF IInv, TypeInv
<1>2. done \in Seq(Pairs)
  BY <1>1, Joined
<1>3. e = [cmd EXCEPT !.done = done, !.before = job.before, !.after = links]
  BY DEF Executed
<1> HIDE DEF done
<1>4. /\ e \in Cmd /\ e.op = cmd.op /\ e.keys = cmd.keys /\ e.done = done
      /\ e.before = job.before /\ e.after = links
  BY <1>1, <1>2, <1>3 DEF Cmd
<1> HIDE DEF e
<1>5. Commanded(job) /\ Uniform(job) /\ cmd.op \in Ops /\ Routed(cmd)
  BY DEF IInv, JobInv, Commanded, Runs
<1>6. ASSUME NEW p \in Ours
      PROVE  (p \in links <=> Aimed(cmd, job.before, p)) /\ Ledger(job, links, p)
  <2>1. job.kind # "activate" /\ job.kind # "undo"
    BY DEF Runs
  <2>2. p \in links <=> Goal(job, p)
    BY <2>1, Arrived DEF IInv
  <2>3. Goal(job, p) = Aimed(cmd, job.before, p)
    BY <2>1 DEF Goal
  <2>4. Ledger(job, links, p)
    BY DEF IInv, JobInv, Tracked
  <2> QED  BY <2>2, <2>3, <2>4
<1>7. \A p : cmd.op # "reroute" => (Contains(done, p) <=> Contains(job.created, p) \/ Contains(job.removed, p))
  BY <1>1, ContainsJoined DEF done
<1>8. cmd.op = "reroute" => done = job.created
  BY DEF done
<1>9. ASSUME NEW p \in Ours
      PROVE  Recorded(e, p)
  <2>1. Aimed(e, e.before, p) <=> Aimed(cmd, job.before, p)
    BY <1>4 DEF Aimed, Connects, Reroutes
  <2>2. p \in e.after <=> Aimed(e, e.before, p)
    BY <1>4, <1>6, <2>1
  <2>3. ASSUME Connects(e), Contains(done, p)
        PROVE  p \notin job.before
    <3>1. job.removed = <<>> /\ cmd.op # "reroute"
      BY <1>4, <1>5, <2>3 DEF Uniform, Connects
    <3> QED  BY <1>6, <1>7, <2>3, <3>1, ContainsNothing DEF Ledger
  <2>4. ASSUME Reroutes(e)
        PROVE  /\ Contains(done, p) => p \notin job.before
               /\ p = cmd.keys[1] => p \in job.before
               /\ ~Contains(done, p) /\ p # cmd.keys[1] => (p \in links <=> p \in job.before)
    <3>1. /\ Contains(job.created, p) => p = cmd.keys[2]
          /\ Contains(job.removed, p) => p = cmd.keys[1]
          /\ cmd.keys[1] # cmd.keys[2] /\ done = job.created /\ p \in Pairs
      BY <1>4, <1>5, <1>8, <2>4 DEF Uniform, Reroutes, Routed, Ours
    <3>2. p = cmd.keys[1] => p \in job.before
      BY <1>4, <1>5, <2>4 DEF Commanded, Reroutes
    <3> QED  BY <1>6, <3>1, <3>2 DEF Ledger
  <2>5. ASSUME Disconnects(e), Contains(done, p)
        PROVE  p \in job.before
    <3>1. job.created = <<>> /\ cmd.op # "reroute"
      BY <1>4, <1>5, <2>5 DEF Uniform, Disconnects
    <3> QED  BY <1>6, <1>7, <2>5, <3>1, ContainsNothing DEF Ledger
  <2>6. ASSUME ~Reroutes(e), ~Contains(done, p)
        PROVE  p \in links <=> p \in job.before
    BY <1>4, <1>6, <1>7, <2>6 DEF Ledger, Reroutes
  <2> QED  BY <1>4, <2>2, <2>3, <2>4, <2>5, <2>6 DEF Recorded
<1>10. Entry(e)
  BY <1>4, <1>5, <1>9 DEF Entry, Routed, Reroutes
<1> QED  BY <1>4, <1>6, <1>10 DEF e

LEMMA FinishMovesOn ==
  ASSUME IInv, Finish, Verdict(job) = "ok", job.kind # "activate"
  PROVE  /\ undo_stack' \in Seq(Cmd) /\ redo_stack' \in Seq(Cmd)
         /\ Past(undo_stack', links) /\ Future(redo_stack', links)
<1>1. job # NoJob /\ job.todo = <<>> /\ MoveCommand(job)
  BY DEF Finish
<1>2. job.stranded = 0 /\ ~job.failing
  BY <1>1, JobFields DEF Verdict, IInv
<1>3. /\ undo_stack \in Seq(Cmd) /\ redo_stack \in Seq(Cmd) /\ job.cmd \in Cmd
      /\ job.kind \in {"execute", "redo", "undo"}
  BY <1>1, JobFields DEF IInv, TypeInv
<1>4. Past(undo_stack, job.before) /\ Future(redo_stack, job.before)
  BY <1>1 DEF IInv, StackInv, Basis
<1>5. Commanded(job)
  BY <1>1 DEF IInv, JobInv
<1> DEFINE e == Executed(job)
<1>6. ASSUME Runs(job)
      PROVE  /\ e \in Cmd /\ \A p \in Ours : p \in links <=> Aimed(job.cmd, job.before, p)
             /\ Past(Append(undo_stack, e), links)
  <2>1. /\ e \in Cmd /\ Entry(e) /\ e.before = job.before /\ e.after = links
        /\ \A p \in Ours : p \in links <=> Aimed(job.cmd, job.before, p)
    BY <1>1, <1>2, <1>6, ExecutedIsEntry
  <2> HIDE DEF e
  <2>2. Agree(e.before, job.before) /\ Agree(e.after, links)
    BY <2>1 DEF Agree
  <2> QED  BY <1>3, <1>4, <2>1, <2>2, PastGrows
<1>7. CASE job.kind = "execute"
  <2>1. undo_stack' = Append(undo_stack, e) /\ redo_stack' = <<>>
    BY <1>1, <1>7 DEF MoveCommand
  <2>2. Runs(job)
    BY <1>7 DEF Runs
  <2>3. redo_stack' \in Seq(Cmd) /\ Future(redo_stack', links)
    BY <2>1 DEF Future
  <2> HIDE DEF e
  <2> QED  BY <1>3, <1>6, <2>1, <2>2, <2>3
<1>8. CASE job.kind = "redo"
  <2> DEFINE c == job.cmd
  <2>1. undo_stack' = Append(undo_stack, e) /\ redo_stack' = Front(redo_stack)
    BY <1>1, <1>8 DEF MoveCommand
  <2>2. Runs(job) /\ redo_stack # <<>> /\ c = redo_stack[Len(redo_stack)]
    BY <1>5, <1>8 DEF Runs, Commanded
  <2>3. Len(redo_stack) \in 1..Len(redo_stack) /\ Front(redo_stack) \in Seq(Cmd)
    BY <1>3, <2>2, FrontOf
  <2>4. Entry(c) /\ Agree(c.before, job.before)
    BY <1>4, <2>2, <2>3 DEF Future
  <2>5. Agree(c.after, links)
    <3>1. ASSUME NEW p \in Ours
          PROVE  p \in c.after <=> p \in links
      <4>1. (p \in c.after <=> Aimed(c, c.before, p)) /\ c.op \in Ops
        BY <2>4 DEF Entry, Recorded
      <4>2. p \in c.before <=> p \in job.before
        BY <2>4 DEF Agree, Ours
      <4>3. Aimed(c, c.before, p) <=> Aimed(c, job.before, p)
        BY <4>1, <4>2, AimedAt DEF Ops, Connects, Reroutes
      <4> QED  BY <1>6, <2>2, <4>1, <4>3
    <3> QED  BY <3>1 DEF Agree, Ours
  <2>6. Future(Front(redo_stack), links)
    BY <1>3, <1>4, <2>2, <2>5, FutureShrinks
  <2> HIDE DEF e
  <2> QED  BY <1>3, <1>6, <2>1, <2>2, <2>3, <2>6
<1>9. CASE job.kind = "undo"
  <2> DEFINE c == job.cmd
  <2>1. undo_stack' = Front(undo_stack) /\ redo_stack' = Append(redo_stack, c)
    BY <1>1, <1>9 DEF MoveCommand
  <2>2. undo_stack # <<>> /\ c = undo_stack[Len(undo_stack)]
    BY <1>5, <1>9 DEF Commanded
  <2>3. Len(undo_stack) \in 1..Len(undo_stack) /\ Front(undo_stack) \in Seq(Cmd)
    BY <1>3, <2>2, FrontOf
  <2>4. Entry(c) /\ Agree(c.after, job.before)
    BY <1>4, <2>2, <2>3 DEF Past
  <2>5. Agree(c.before, links)
    <3>1. ASSUME NEW p \in Ours
          PROVE  p \in c.before <=> p \in links
      <4>1. p \in links <=> Goal(job, p)
        BY <1>1, <1>2, <1>9, Arrived DEF IInv
      <4>2. Goal(job, p) = (p \in c.before)
        BY <1>2, <1>9 DEF Goal
      <4> QED  BY <4>1, <4>2
    <3> QED  BY <3>1 DEF Agree, Ours
  <2>6. Past(Front(undo_stack), links)
    BY <1>3, <1>4, <2>2, <2>5, PastShrinks
  <2>7. Future(Append(redo_stack, c), links)
    BY <1>3, <1>4, <2>4, <2>5, FutureGrows
  <2> QED  BY <1>3, <2>1, <2>3, <2>6, <2>7
<1> QED  BY <1>3, <1>7, <1>8, <1>9

\* A plain error leaves the graph as it was, a roll-back that did not get through
\* and an activation change what no stack accounts for.
LEMMA FinishStays ==
  ASSUME IInv, Finish, Verdict(job) # "ok" \/ job.kind = "activate"
  PROVE  /\ UNCHANGED stacks /\ spoilt \subseteq spoilt'
         /\ \A p \in Ours' : p \in links <=> p \in job.before
         /\ Verdict(job) = "failed" => Changed(job) \subseteq spoilt
<1>1. job # NoJob /\ job.todo = <<>>
  BY DEF Finish
<1>2. UNCHANGED stacks
  BY DEF Finish, MoveCommand, Verdict
<1>3. CASE Verdict(job) = "failed"
  <2>1. job.failing /\ job.stranded = 0 /\ spoilt' = spoilt
    BY <1>1, <1>3, JobFields DEF Verdict, Finish, IInv
  <2>2. ASSUME NEW p \in Ours
        PROVE  p \in links <=> p \in job.before
    <3>1. p \in links <=> Goal(job, p)
      BY <1>1, <2>1, Arrived DEF IInv
    <3>2. Goal(job, p) = (p \in job.before)
      BY <2>1 DEF Goal
    <3> QED  BY <3>1, <3>2
  <2> QED  BY <1>2, <2>1, <2>2 DEF Ours, Changed
<1>4. CASE Verdict(job) # "failed"
  <2>1. spoilt' = spoilt \cup Changed(job)
    BY <1>4 DEF Finish, Verdict
  <2> QED  BY <1>2, <1>4, <2>1 DEF Ours, Changed
<1> QED  BY <1>3, <1>4

LEMMA FinishKeeps == ASSUME IInv, Finish PROVE IInv'
<1>1. job # NoJob /\ job' = NoJob /\ UNCHANGED <<links, blocked>> /\ TypeInv /\ StackInv
  BY DEF Finish, IInv
<1>2. JobInv' /\ Basis = job.before /\ Basis' = links
  BY <1>1 DEF JobInv, Basis
<1>3. CASE Verdict(job) = "ok" /\ job.kind # "activate"
  <2>1. /\ undo_stack' \in Seq(Cmd) /\ redo_stack' \in Seq(Cmd)
        /\ Past(undo_stack', links) /\ Future(redo_stack', links)
    BY <1>3, FinishMovesOn
  <2>2. spoilt' = spoilt
    BY <1>3 DEF Finish
  <2>3. StackInv'
    BY <1>2, <2>1, <2>2 DEF StackInv, Past, Future, Entry, Recorded, Agree, Ours
  <2> QED  BY <1>1, <1>2, <2>1, <2>3 DEF IInv, TypeInv
<1>4. CASE Verdict(job) # "ok" \/ job.kind = "activate"
  <2>1. /\ UNCHANGED stacks /\ spoilt \subseteq spoilt'
        /\ \A p \in Ours' : p \in links <=> p \in job.before
    BY <1>4, FinishStays
  <2>2. StackInv'
    BY <1>1, <1>2, <2>1, StackStays
  <2> QED  BY <1>1, <1>2, <2>1, <2>2 DEF IInv, TypeInv, stacks
<1> QED  BY <1>3, <1>4

-----------------------------------------------------------------------------
(* The theorems.                                                           *)

LEMMA InitHolds == ASSUME Init PROVE IInv
<1>1. links \in SUBSET Pairs /\ blocked = {} /\ undo_stack = <<>> /\ redo_stack = <<>> /\ job = NoJob
  BY CommandConstants DEF Init
<1>2. TypeInv
  BY <1>1 DEF TypeInv
<1>3. StackInv
  BY <1>1 DEF StackInv, Past, Future
<1>4. JobInv
  BY <1>1 DEF JobInv
<1> QED  BY <1>2, <1>3, <1>4 DEF IInv

LEMMA StepKeeps == ASSUME IInv, [Next]_vars PROVE IInv'
<1>1. CASE UNCHANGED vars
  <2>1. UNCHANGED <<links, blocked, undo_stack, redo_stack, job, spoilt>> /\ UNCHANGED stacks
    BY <1>1 DEF vars, stacks
  <2>2. Basis' = Basis
    BY <2>1 DEF Basis
  <2>3. StackInv' /\ JobInv'
    BY <2>1, <2>2, StackStays, JobStays DEF IInv
  <2> QED  BY <2>1, <2>3 DEF IInv, TypeInv
<1> QED  BY <1>1, ExecuteKeeps, UndoKeeps, RedoKeeps, ActivateKeeps, ConsiderRuleKeeps,
            CallReturnsKeeps, FinishKeeps, OtherClientKeeps DEF Next

\* The invariant on which the theorems below rest: stacks and operation in progress
\* account for the graph (stack.rs, transaction.rs), call by call.
THEOREM Invariant == Spec => []IInv
<1>1. Init => IInv
  BY InitHolds
<1>2. IInv /\ [Next]_vars => IInv'
  BY StepKeeps
<1> QED  BY <1>1, <1>2, PTL DEF Spec

\* The undo stack tells how the graph came to be what it is, and the redo stack
\* what it can become again (stack.rs), however many commands were executed, undone
\* and redone, whatever other clients did in between and whichever calls failed.
THEOREM StacksTell == Spec => []StacksDescribeGraph
<1>1. IInv => StacksDescribeGraph
  <2>1. ASSUME IInv, job = NoJob
        PROVE  /\ undo_stack # <<>> => Agree(Last(undo_stack).after, links)
               /\ redo_stack # <<>> => Agree(Last(redo_stack).before, links)
               /\ \A k \in 2..Len(undo_stack) : Agree(undo_stack[k-1].after, undo_stack[k].before)
               /\ \A k \in 2..Len(redo_stack) : Agree(redo_stack[k-1].before, redo_stack[k].after)
    BY <2>1 DEF IInv, StackInv, Past, Future, Basis, Last
  <2> QED  BY <2>1 DEF StacksDescribeGraph
<1> QED  BY <1>1, Invariant, PTL

\* A command or an activation that reports a plain error left the links as they
\* were (transaction.rs, activation.rs), for scripts and roll-backs of any length.
THEOREM NoTrace == Spec => FailureLeavesNoTrace
<1>1. ASSUME IInv, [Next]_vars, job # NoJob, job' = NoJob, Verdict(job) = "failed"
      PROVE  Changed(job) \subseteq spoilt
  <2>1. ASSUME NEW kind, NEW cmd, NEW todo, NEW auto, Start(kind, cmd, todo, auto)
        PROVE  FALSE
    BY <1>1, <2>1 DEF Start
  <2>2. ~Execute
    BY <2>1 DEF Execute, StartExecute
  <2>3. ~Undo /\ ~Redo /\ ~Activate
    BY <2>1 DEF Undo, Redo, Activate, StartExecute
  <2>4. CASE ConsiderRule
    <3>1. job \in Jobs
      BY <1>1, JobFields DEF IInv
    <3>2. PICK rest : job' = [job EXCEPT !.todo = rest]
      BY <2>4 DEF ConsiderRule
    <3>3. job'.kind = job.kind /\ job.kind # "none"
      BY <3>1, <3>2 DEF Jobs
    <3> QED  BY <1>1, <3>3 DEF NoJob
  <2>5. CASE CallReturns
    <3>1. PICK result : job' = AfterCall(job, result)
      BY <2>5 DEF CallReturns
    <3>2. job.todo # <<>> /\ TypeInv
      BY <1>1, <2>5 DEF CallReturns, IInv
    <3>3. job' \in Jobs
      BY <1>1, <3>1, <3>2, AfterFailure, AfterSuccess
    <3> QED  BY <1>1, <3>3, JobIsSome
  <2>6. CASE Finish
    BY <1>1, <2>6, FinishStays
  <2>7. ~OtherClient /\ ~UNCHANGED vars
    BY <1>1 DEF OtherClient, vars
  <2> QED  BY <1>1, <2>2, <2>3, <2>4, <2>5, <2>6, <2>7 DEF Next
<1>2. IInv /\ [Next]_vars
        => [job # NoJob /\ job' = NoJob /\ Verdict(job) = "failed" => Changed(job) \subseteq spoilt]_vars
  BY <1>1
<1> QED  BY <1>2, Invariant, PTL DEF Spec, FailureLeavesNoTrace

\* A driver call sweeps before it looks, so that what is live behind it is not
\* blocked, unless the daemon made or kept a link behind the error of the call.
LEMMA CallSpares ==
  ASSUME NEW step, NEW result, Call(step, result), SweepSparesOurLinks
  PROVE  SweepSparesOurLinks'
BY DEF Call, ConnectIfMissing, DisconnectIfPresent, Swept, SweptAway, SweepSparesOurLinks

\* Live and blocked are only what another client made and what a failing call
\* changed, whatever is executed, undone, redone and activated, and whichever
\* driver calls fail.
THEOREM SweepSpares == Spec => []SweepSparesOurLinks
<1>1. Init => SweepSparesOurLinks
  BY DEF Init, SweepSparesOurLinks
<1>2. ASSUME SweepSparesOurLinks, [Next]_vars
      PROVE  SweepSparesOurLinks'
  <2>1. ASSUME UNCHANGED <<links, blocked>>, spoilt \subseteq spoilt'
        PROVE  SweepSparesOurLinks'
    BY <1>2, <2>1 DEF SweepSparesOurLinks
  <2>2. ASSUME NEW kind, NEW cmd, NEW todo, NEW auto, Start(kind, cmd, todo, auto)
        PROVE  SweepSparesOurLinks'
    BY <2>1, <2>2 DEF Start
  <2>3. CASE Execute
    <3>1. PICK cmd : StartExecute("execute", cmd)
      BY <2>3 DEF Execute
    <3> QED  BY <3>1, <2>2 DEF StartExecute
  <2>4. CASE Undo
    BY <2>2, <2>4 DEF Undo
  <2>5. CASE Redo
    BY <2>2, <2>5 DEF Redo, StartExecute
  <2>6. CASE Activate
    BY <2>2, <2>6 DEF Activate
  <2>7. CASE ConsiderRule
    BY <2>1, <2>7 DEF ConsiderRule
  <2>8. CASE CallReturns
    <3>1. PICK result : Call(Head(job.todo), result)
      BY <2>8 DEF CallReturns
    <3> QED  BY <1>2, <3>1, CallSpares
  <2>9. CASE Finish
    BY <2>1, <2>9 DEF Finish
  <2>10. CASE OtherClient
    BY <1>2, <2>10 DEF OtherClient, SweepSparesOurLinks
  <2>11. CASE UNCHANGED vars
    BY <2>1, <2>11 DEF vars
  <2> QED  BY <1>2, <2>3, <2>4, <2>5, <2>6, <2>7, <2>8, <2>9, <2>10, <2>11 DEF Next
<1> QED  BY <1>1, <1>2, PTL DEF Spec

=============================================================================
