------------------------- MODULE PipelinedGraph_proofs -------------------------
(* The nodes, targets and queues of PipelinedGraph, in every graph that       *)
(* GraphParameters describes: a node descriptor is triggered from one place,  *)
(* nodes are executed after those they depend on, references are neither      *)
(* lost nor duplicated, and the graph is run as GraphSchedule says.           *)
EXTENDS PipelinedGraph, FiniteSetTheorems, TLAPS

-----------------------------------------------------------------------------
(* The invariant                                                            *)

HostJob == ({"consumed"} \X UserData) \cup ({"complete"} \X Inst)
TaskRecord ==
    [at : {"idle", "acquire", "release", "consumed", "trigger"},
     inst : Inst \cup {NoActor}, k : Nat, prm : Seq(Ref), wake : Seq(Inst),
     after : Inst \cup {NoActor}]

JobsTyped ==
    /\ jobQ \in [Target \cup {Host} -> Seq(Inst \cup HostJob)]
    /\ \A t \in Target : jobQ[t] \in Seq(Inst)
    /\ jobQ[Host] \in Seq(HostJob)
TasksTyped == task \in [Target -> TaskRecord]
NodesTyped ==
    executed \subseteq Inst /\ blocked \subseteq Inst /\ behind \in [Inst -> Inst \cup {NoActor}]
QueuesTyped ==
    /\ held \in [Data \X Pipe -> Ref \cup {NoRef}] /\ doneCnt \in [Data \X Pipe -> Nat]
    /\ readyQ \in [Data -> Seq(Ref)] /\ doneQ \in [UserData -> Seq(Ref)]
    /\ waiting \in [Data -> Seq(Inst)] /\ retrigger \in [UserData -> Seq(Inst)]
    /\ enq \subseteq Ref
Typed == JobsTyped /\ TasksTyped /\ NodesTyped /\ QueuesTyped

\* Where the task of a target is.
Shape(t) ==
    LET i == task[t].inst
        k == task[t].k
    IN  /\ task[t].at = "idle" => task[t] = Idle
        /\ task[t].at # "idle" => i \in Inst /\ TargetOf[i[1]] = t /\ k >= 1
        /\ task[t].at = "acquire" =>
              /\ k <= Len(Params[i[1]]) + 1 /\ Len(task[t].prm) = k - 1
              /\ task[t].wake = <<>> /\ task[t].after = NoActor
        /\ task[t].at \in {"release", "consumed"} =>
              /\ i \in executed /\ i[2] \in InRun
              /\ k <= Len(Params[i[1]]) + 1 /\ Len(task[t].prm) = Len(Params[i[1]])
        /\ task[t].at = "consumed" =>
              /\ k <= Len(Params[i[1]]) /\ Params[i[1]][k] \in UserData
        /\ task[t].at # "release" => task[t].wake = <<>>
        /\ task[t].at = "trigger" =>
              /\ k <= Len(OutNodes[i[1]]) + 1
              /\ k <= Len(OutNodes[i[1]]) => i \in executed
TaskShape == \A t \in Target : Shape(t)

\* The task of the node's target works on the node.
OnTask(n, p, step) == task[TargetOf[n]].inst = <<n, p>> /\ task[TargetOf[n]].at = step
Releasing(n, p) == OnTask(n, p, "release") \/ OnTask(n, p, "consumed")

Incomplete(n, p) ==
    \/ <<n, p>> \notin executed \/ Releasing(n, p)
    \/ <<"complete", <<n, p>>>> \in Range(jobQ[Host])
LeafTodo == [p \in Pipe |-> IF p \in InRun THEN {n \in Leaf : Incomplete(n, p)} ELSE {}]

GSP == INSTANCE GraphSchedule_proofs WITH
         ready <- Len(readyQ[Param0]),
         unfed <- Unfed,
         leafTodo <- LeafTodo
Implements == GSP!Next \/ UNCHANGED GSP!vars

\* A node descriptor is where it will be triggered from, or its task acquires.
Place == ({"job", "wake", "after", "acquire"} \X Target)
           \cup ({"waiting"} \X Data) \cup ({"call"} \X UserData) \cup ({"behind"} \X Inst)
Tokens(x) ==
    CASE x[1] = "job" -> Range(jobQ[x[2]])
      [] x[1] = "wake" -> Range(task[x[2]].wake)
      [] x[1] = "after" -> {task[x[2]].after} \ {NoActor}
      [] x[1] = "acquire" -> IF task[x[2]].at = "acquire" THEN {task[x[2]].inst} ELSE {}
      [] x[1] = "waiting" -> Range(waiting[x[2]])
      [] x[1] = "call" -> Range(retrigger[x[2]])
      [] x[1] = "behind" -> {behind[x[2]]} \ {NoActor}
Somewhere(i) == \E x \in Place : i \in Tokens(x)

\* The node m of the run has not looked at n yet.
Pending(m, n, p) ==
    \/ Releasing(m, p)
    \/ /\ OnTask(m, p, "trigger")
       /\ \E j \in DOMAIN OutNodes[m] : j >= task[TargetOf[m]].k /\ OutNodes[m][j] = n
Enabled(i) ==
    \A m \in InNodes(i[1]) : <<m, i[2]>> \in executed /\ ~Pending(m, i[1], i[2])
Due(i) == i \notin executed /\ i[2] \in InRun /\ Enabled(i)

\* Every place has an instance once, one place has it, if and only if it is due.
ListsInv ==
    /\ \A t \in Target : /\ IsInjective(jobQ[t]) /\ IsInjective(task[t].wake)
                         /\ \A i \in Range(jobQ[t]) : TargetOf[i[1]] = t
    /\ \A d \in Data : IsInjective(waiting[d])
    /\ \A d \in UserData : IsInjective(retrigger[d])
OnePlace == \A x, y \in Place : x # y => Tokens(x) \cap Tokens(y) = {}
DueInv == \A i \in Inst : Somewhere(i) <=> Due(i)

BlockedInv ==
    /\ \A i \in blocked : Due(i) /\ i \notin Tokens(<<"acquire", TargetOf[i[1]]>>)
    /\ \A i \in Inst : behind[i] # NoActor => Prev(behind[i]) = i

\* A node that was executed was due, and between runs all nodes were or none.
ExecInv ==
    /\ \A i \in executed : Enabled(i)
    /\ \A p \in Pipe \ InRun : \/ \A n \in Node : <<n, p>> \in executed
                               \/ \A n \in Node : <<n, p>> \notin executed

\* The node has released the data of the run.
StillHas(n, d, p) ==
    \E j \in DOMAIN Params[n] :
       /\ Params[n][j] = d
       /\ \/ OnTask(n, p, "release") /\ j >= task[TargetOf[n]].k
          \/ OnTask(n, p, "consumed") /\ j > task[TargetOf[n]].k
ReleasedBy(n, d, p) == <<n, p>> \in executed /\ ~StillHas(n, d, p)
Readers(d, p) == {n \in Consumers(d) : ReleasedBy(n, d, p)}
Full(d, p) == IF Consumers(d) = {} THEN ReleasedBy(Producer[d], d, p)
                                   ELSE Readers(d, p) = Consumers(d)
Untouched(d, p) == \A n \in Node : d \in Range(Params[n]) => <<n, p>> \notin executed

HeldOf(d, p) ==
    /\ doneCnt[<<d, p>>] <= Cardinality(Consumers(d))
    /\ held[<<d, p>>] # NoRef => /\ doneCnt[<<d, p>>] = Cardinality(Readers(d, p))
                                /\ ~Full(d, p) /\ p \in InRun
    /\ held[<<d, p>>] = NoRef => Full(d, p) \/ Untouched(d, p)
HeldInv == \A d \in Data, p \in Pipe : HeldOf(d, p)

\* What a task has acquired and not released is what the descriptor holds.
Has(t, j) ==
    \/ task[t].at = "acquire"
    \/ task[t].at = "release" /\ j >= task[t].k
    \/ task[t].at = "consumed" /\ j > task[t].k
PrmOf(t) ==
    \A j \in DOMAIN task[t].prm : Has(t, j) =>
       /\ task[t].prm[j] = held[<<Params[task[t].inst[1]][j], task[t].inst[2]>>]
       /\ task[t].prm[j] # NoRef
PrmInv == \A t \in Target : PrmOf(t)

\* Where the references are.
HeldRefs(d) == {held[<<d, p>>] : p \in Pipe} \ {NoRef}
DoneRefs(d) == IF d \in UserData THEN Range(doneQ[d]) ELSE {}
GivenRefs(d) == IF d \in UserData THEN enq \cap Range(Refs[d])
                ELSE IF verified > 0 THEN Range(Refs[d]) ELSE {}
RefOf(d) ==
    /\ IsInjective(readyQ[d]) /\ (d \in UserData => IsInjective(doneQ[d]))
    /\ \A p, q \in Pipe : held[<<d, p>>] = held[<<d, q>>] /\ held[<<d, p>>] # NoRef => p = q
    /\ Range(readyQ[d]) \cap HeldRefs(d) = {} /\ Range(readyQ[d]) \cap DoneRefs(d) = {}
    /\ HeldRefs(d) \cap DoneRefs(d) = {}
    /\ Range(readyQ[d]) \cup HeldRefs(d) \cup DoneRefs(d) = GivenRefs(d)
RefInv == \A d \in Data : RefOf(d)

\* The messages to the host: a node reports once, and some leaf node of its run
\* is still to be reported with it or after it.
Reported(j, n, p) == jobQ[Host][j] = <<"complete", <<n, p>>>>
HostInv ==
    \A n \in Node, p \in Pipe : \A j \in DOMAIN jobQ[Host] : Reported(j, n, p) =>
       /\ p \in InRun /\ <<n, p>> \in executed /\ ~Releasing(n, p)
       /\ \A h \in DOMAIN jobQ[Host] : Reported(h, n, p) => j = h
       /\ \E l \in Leaf : \/ <<l, p>> \notin executed
                          \/ Releasing(l, p)
                          \/ \E h \in DOMAIN jobQ[Host] : h >= j /\ Reported(h, l, p)

Unverified ==
    verified = 0 => /\ \A t \in Target : task[t] = Idle /\ jobQ[t] = <<>>
                    /\ \A d \in Data : waiting[d] = <<>> /\ readyQ[d] = <<>>
                    /\ executed = {}

Detail ==
    /\ Typed /\ TaskShape /\ ListsInv /\ OnePlace /\ DueInv /\ BlockedInv /\ ExecInv
    /\ HeldInv /\ PrmInv /\ RefInv /\ HostInv /\ Unverified /\ WaitsForNothingReady
Inv == Detail /\ GSP!IInv

-----------------------------------------------------------------------------
(* Lists, sets and places                                                   *)

\* A descriptor added at the end of a list is in it once more.
LEMMA Appended ==
  ASSUME NEW S, NEW s \in Seq(S), NEW e \in S
  PROVE  /\ Append(s, e) \in Seq(S) /\ Range(Append(s, e)) = Range(s) \cup {e}
         /\ Len(Append(s, e)) = Len(s) + 1 /\ Append(s, e)[Len(s) + 1] = e
         /\ \A j \in 1 .. Len(s) : Append(s, e)[j] = s[j]
         /\ IsInjective(s) /\ e \notin Range(s) => IsInjective(Append(s, e))
<1>1. /\ Append(s, e) \in Seq(S) /\ DOMAIN Append(s, e) = 1 .. Len(s) + 1
      /\ DOMAIN s = 1 .. Len(s) /\ Append(s, e)[Len(s) + 1] = e
      /\ \A j \in 1 .. Len(s) : Append(s, e)[j] = s[j]
      /\ Len(s) \in Nat /\ Len(Append(s, e)) = Len(s) + 1
  OBVIOUS
<1>2. Range(Append(s, e)) = Range(s) \cup {e}
  BY <1>1 DEF Range
<1>3. ASSUME IsInjective(s), e \notin Range(s) PROVE IsInjective(Append(s, e))
  <2>1. ASSUME NEW a \in DOMAIN Append(s, e), NEW b \in DOMAIN Append(s, e),
               Append(s, e)[a] = Append(s, e)[b]
        PROVE  a = b
    BY <1>1, <1>3, <2>1 DEF Range, IsInjective
  <2> QED
    BY <2>1 DEF IsInjective
<1> QED
  BY <1>1, <1>2, <1>3

\* A descriptor taken from the front of a list is in it once less.
LEMMA Taken ==
  ASSUME NEW S, NEW s \in Seq(S), s # <<>>
  PROVE  /\ Tail(s) \in Seq(S) /\ Head(s) \in S /\ Head(s) = s[1]
         /\ Range(s) = Range(Tail(s)) \cup {Head(s)}
         /\ Len(Tail(s)) = Len(s) - 1 /\ \A j \in 1 .. Len(s) - 1 : Tail(s)[j] = s[j + 1]
         /\ IsInjective(s) => IsInjective(Tail(s)) /\ Head(s) \notin Range(Tail(s))
<1>1. /\ Tail(s) \in Seq(S) /\ DOMAIN Tail(s) = 1 .. Len(s) - 1 /\ Head(s) = s[1]
      /\ DOMAIN s = 1 .. Len(s) /\ Len(s) \in Nat \ {0} /\ Len(Tail(s)) = Len(s) - 1
      /\ \A j \in 1 .. Len(s) - 1 : Tail(s)[j] = s[j + 1]
      /\ Head(s) \in S
  OBVIOUS
<1>2. Range(s) = Range(Tail(s)) \cup {Head(s)}
  <2>1. ASSUME NEW a \in DOMAIN s PROVE s[a] \in Range(Tail(s)) \cup {Head(s)}
    <3>1. CASE a = 1
      BY <1>1, <3>1
    <3>2. CASE a # 1
      <4>1. a - 1 \in DOMAIN Tail(s) /\ Tail(s)[a - 1] = s[a]
        <5>1. a - 1 \in 1 .. Len(s) - 1 /\ (a - 1) + 1 = a
          BY <1>1, <3>2
        <5> QED
          BY <1>1, <5>1
      <4> QED
        BY <4>1 DEF Range
    <3> QED
      BY <3>1, <3>2
  <2>2. ASSUME NEW a \in DOMAIN Tail(s) PROVE Tail(s)[a] \in Range(s)
    <3>1. a + 1 \in DOMAIN s /\ Tail(s)[a] = s[a + 1]
      BY <1>1
    <3> QED
      BY <3>1 DEF Range
  <2>3. Head(s) \in Range(s)
    BY <1>1 DEF Range
  <2> QED
    BY <2>1, <2>2, <2>3 DEF Range
<1>3. ASSUME IsInjective(s) PROVE IsInjective(Tail(s)) /\ Head(s) \notin Range(Tail(s))
  <2>0. \A a \in DOMAIN Tail(s) : a \in 1 .. Len(s) - 1 /\ Tail(s)[a] = s[a + 1] /\ a + 1 \in DOMAIN s
    BY <1>1
  <2>1. ASSUME NEW a \in DOMAIN Tail(s), NEW b \in DOMAIN Tail(s), Tail(s)[a] = Tail(s)[b]
        PROVE  a = b
    <3>1. a + 1 = b + 1 /\ a \in Int /\ b \in Int
      BY <1>3, <2>0, <2>1 DEF IsInjective
    <3> QED
      BY <3>1
  <2>2. ASSUME NEW a \in DOMAIN Tail(s) PROVE Tail(s)[a] # Head(s)
    <3>1. a + 1 # 1 /\ 1 \in DOMAIN s
      BY <1>1, <2>0
    <3> QED
      BY <1>1, <1>3, <2>0, <3>1 DEF IsInjective
  <2> QED
    BY <2>1, <2>2 DEF Range, IsInjective
<1> QED
  BY <1>1, <1>2, <1>3

\* The empty list.
LEMMA Empty == Range(<<>>) = {} /\ IsInjective(<<>>) /\ \A S : <<>> \in Seq(S)
BY DEF Range, IsInjective

\* The elements of a list, and its length.
LEMMA ListOf ==
  ASSUME NEW S, NEW s \in Seq(S)
  PROVE  /\ Range(s) \subseteq S /\ DOMAIN s = 1 .. Len(s) /\ Len(s) \in Nat
         /\ s = <<>> <=> Range(s) = {}
<1>1. DOMAIN s = 1 .. Len(s) /\ Len(s) \in Nat /\ \A j \in DOMAIN s : s[j] \in S
  OBVIOUS
<1>2. s # <<>> => 1 \in DOMAIN s
  BY <1>1
<1> QED
  BY <1>1, <1>2, Empty DEF Range

\* Where the places of instances are disjoint, they still are when a set of instances
\* goes from one place to another, ...
LEMMA Moves ==
  ASSUME NEW P, NEW f, NEW g, NEW a \in P, NEW b \in P, NEW S, a # b,
         \A x, y \in P : x # y => f[x] \cap f[y] = {},
         \A x \in P \ {a, b} : g[x] = f[x],
         g[a] = f[a] \ S, g[b] = f[b] \cup S, S \subseteq f[a]
  PROVE  /\ \A x, y \in P : x # y => g[x] \cap g[y] = {}
         /\ \A i : (\E x \in P : i \in g[x]) <=> (\E x \in P : i \in f[x])
<1>1. ASSUME NEW x \in P, NEW y \in P, x # y, NEW i, i \in g[x], i \in g[y] PROVE FALSE
  <2>1. \A z \in P : i \in g[z] => \/ i \in f[z] /\ ~(z = a /\ i \in S)
                                   \/ z = b /\ i \in S
    BY DEF Range
  <2>2. i \in S => i \in f[a]
    OBVIOUS
  <2> QED
    BY <1>1, <2>1, <2>2
<1>2. ASSUME NEW i PROVE (\E x \in P : i \in g[x]) <=> (\E x \in P : i \in f[x])
  OBVIOUS
<1> QED
  BY <1>1, <1>2

\* ... leaves its place ...
LEMMA Leaves ==
  ASSUME NEW P, NEW f, NEW g, NEW a \in P, NEW S,
         \A x, y \in P : x # y => f[x] \cap f[y] = {},
         \A x \in P \ {a} : g[x] = f[x], g[a] = f[a] \ S, S \subseteq f[a]
  PROVE  /\ \A x, y \in P : x # y => g[x] \cap g[y] = {}
         /\ \A i : (\E x \in P : i \in g[x]) <=> (\E x \in P : i \in f[x]) /\ i \notin S
<1>1. ASSUME NEW x \in P, NEW y \in P, x # y, NEW i, i \in g[x], i \in g[y] PROVE FALSE
  BY <1>1
<1>2. ASSUME NEW i PROVE (\E x \in P : i \in g[x]) <=> (\E x \in P : i \in f[x]) /\ i \notin S
  <2>1. \A x \in P : i \in g[x] => i \in f[x] /\ i \notin S
    OBVIOUS
  <2>2. \A x \in P : i \in f[x] /\ i \notin S => i \in g[x]
    OBVIOUS
  <2> QED
    BY <2>1, <2>2
<1> QED
  BY <1>1, <1>2

\* ... or comes to one place from nowhere.
LEMMA Comes ==
  ASSUME NEW P, NEW f, NEW g, NEW b \in P, NEW S,
         \A x, y \in P : x # y => f[x] \cap f[y] = {},
         \A x \in P \ {b} : g[x] = f[x], g[b] = f[b] \cup S,
         \A x \in P : f[x] \cap S = {}
  PROVE  /\ \A x, y \in P : x # y => g[x] \cap g[y] = {}
         /\ \A i : (\E x \in P : i \in g[x]) <=> (\E x \in P : i \in f[x]) \/ i \in S
<1>1. ASSUME NEW x \in P, NEW y \in P, x # y, NEW i, i \in g[x], i \in g[y] PROVE FALSE
  BY <1>1
<1>2. ASSUME NEW i PROVE (\E x \in P : i \in g[x]) <=> (\E x \in P : i \in f[x]) \/ i \in S
  OBVIOUS
<1> QED
  BY <1>1, <1>2

\* The pipeline instances form a ring.
LEMMA Instances ==
  /\ IsFiniteSet(Pipe)
  /\ \A i \in Inst : Prev(i) \in Inst
  /\ \A i, j \in Inst : Prev(i) = Prev(j) => i = j
<1>0. Depth \in Nat \ {0}
  BY DepthAssumption
<1>1. \A p \in Pipe : (p + Depth - 1) % Depth = IF p = 0 THEN Depth - 1 ELSE p - 1
  <2> TAKE p \in Pipe
  <2>1. p \in 0 .. Depth - 1
    BY DEF Pipe
  <2>2. CASE p = 0
    BY <1>0, <2>1, <2>2
  <2>3. CASE p # 0
    <3>1. (p - 1) % Depth = p - 1
      BY <1>0, <2>1, <2>3
    <3>2. (p - 1 + Depth) % Depth = (p - 1) % Depth
      BY <1>0, <2>1
    <3>3. p + Depth - 1 = p - 1 + Depth
      BY <1>0, <2>1
    <3> QED
      BY <2>3, <3>1, <3>2, <3>3
  <2> QED
    BY <2>2, <2>3
<1>2. IsFiniteSet(Pipe)
  BY <1>0, FS_Interval DEF Pipe
<1>3. \A p \in Pipe : (p + Depth - 1) % Depth \in Pipe
  BY <1>0, <1>1 DEF Pipe
<1>4. \A p, q \in Pipe : (p + Depth - 1) % Depth = (q + Depth - 1) % Depth => p = q
  BY <1>0, <1>1 DEF Pipe
<1>5. ASSUME NEW i \in Inst, NEW j \in Inst, Prev(i) = Prev(j) PROVE i = j
  <2>1. i = <<i[1], i[2]>> /\ j = <<j[1], j[2]>> /\ i[2] \in Pipe /\ j[2] \in Pipe
    BY DEF Inst
  <2>2. i[1] = j[1] /\ (i[2] + Depth - 1) % Depth = (j[2] + Depth - 1) % Depth
    BY <1>5 DEF Prev
  <2> QED
    BY <1>4, <2>1, <2>2
<1>6. \A i \in Inst : Prev(i) \in Inst
  BY <1>3 DEF Prev, Inst
<1> QED
  BY <1>2, <1>5, <1>6

-----------------------------------------------------------------------------
(* What a step leaves alone                                                 *)

\* The node and the pipeline instance a target works on.
LEMMA ShapeOf ==
  ASSUME Typed, TaskShape, GraphParameters, NEW t \in Target, task[t].at # "idle"
  PROVE  \E n \in Node, p \in Pipe :
            /\ task[t].inst = <<n, p>> /\ TargetOf[n] = t /\ task[t].k \in Nat \ {0}
            /\ Params[n] \in Seq(Data) /\ OutNodes[n] \in Seq(Node)
            /\ task[t].prm \in Seq(Ref) /\ task[t].wake \in Seq(Inst)
<1>1. /\ task[t].inst \in Inst /\ TargetOf[task[t].inst[1]] = t /\ task[t].k >= 1
      /\ task[t].k \in Nat /\ task[t].prm \in Seq(Ref) /\ task[t].wake \in Seq(Inst)
  BY DEF TaskShape, Shape, Typed, TasksTyped, TaskRecord
<1>2. PICK n \in Node, p \in Pipe : task[t].inst = <<n, p>>
  BY <1>1 DEF Inst
<1>3. TargetOf[n] = t /\ Params[n] \in Seq(Data) /\ OutNodes[n] \in Seq(Node)
  BY <1>1, <1>2 DEF GraphParameters
<1>4. task[t].k \in Nat \ {0}
  BY <1>1
<1> QED
  BY <1>1, <1>2, <1>3, <1>4

\* The task of t has become so, and the other tasks are as they were.
TaskIs(t, step, i, k, s, w, b) ==
    /\ TasksTyped'
    /\ task'[t].at = step /\ task'[t].inst = i /\ task'[t].k = k
    /\ task'[t].prm = s /\ task'[t].wake = w /\ task'[t].after = b
    /\ \A u \in Target \ {t} : task'[u] = task[u]

\* The record of the task after each of the ways to change it.
LEMMA TaskSteps ==
  ASSUME TasksTyped, NEW t \in Target
  PROVE  LET c == task[t] IN
         /\ \A r \in Ref : HasParam(t, r) =>
               TaskIs(t, c.at, c.inst, c.k + 1, Append(c.prm, r), c.wake, c.after)
         /\ NextParam(t) => TaskIs(t, c.at, c.inst, c.k + 1, c.prm, c.wake, c.after)
         /\ task' = [task EXCEPT ![t] = Idle] =>
               TaskIs(t, "idle", NoActor, 0, <<>>, <<>>, NoActor) /\ task'[t] = Idle
         /\ \A i \in Inst :
               task' = [task EXCEPT ![t] = [Idle EXCEPT !.at = "acquire", !.inst = i, !.k = 1]]
               => TaskIs(t, "acquire", i, 1, <<>>, <<>>, NoActor)
         /\ \A b \in Inst \cup {NoActor} :
               task' = [task EXCEPT ![t].at = "release", ![t].k = 1, ![t].after = b]
               => TaskIs(t, "release", c.inst, 1, c.prm, c.wake, b)
         /\ \A w \in Seq(Inst) : task' = [task EXCEPT ![t].k = @ + 1, ![t].wake = w]
               => TaskIs(t, c.at, c.inst, c.k + 1, c.prm, w, c.after)
         /\ task' = [task EXCEPT ![t].at = "consumed"]
               => TaskIs(t, "consumed", c.inst, c.k, c.prm, c.wake, c.after)
         /\ task' = [task EXCEPT ![t].at = "release", ![t].k = @ + 1]
               => TaskIs(t, "release", c.inst, c.k + 1, c.prm, c.wake, c.after)
         /\ \A w \in Seq(Inst) : task' = [task EXCEPT ![t].wake = w]
               => TaskIs(t, c.at, c.inst, c.k, c.prm, w, c.after)
         /\ task' = [task EXCEPT ![t].at = "trigger", ![t].k = 1]
               => TaskIs(t, "trigger", c.inst, 1, c.prm, c.wake, c.after)
<1> DEFINE c == task[t]
<1>1. /\ task \in [Target -> TaskRecord] /\ c \in TaskRecord
      /\ c.k \in Nat /\ c.k + 1 \in Nat /\ c.prm \in Seq(Ref) /\ c.wake \in Seq(Inst)
      /\ c.inst \in Inst \cup {NoActor} /\ c.after \in Inst \cup {NoActor}
      /\ c.at \in {"idle", "acquire", "release", "consumed", "trigger"}
  BY DEF TasksTyped, TaskRecord
<1>2. ASSUME NEW r \in TaskRecord, task' = [task EXCEPT ![t] = r]
      PROVE  TaskIs(t, r.at, r.inst, r.k, r.prm, r.wake, r.after) /\ task'[t] = r
  BY <1>1, <1>2 DEF TaskIs, TasksTyped
<1>5. ASSUME NEW r \in Ref, HasParam(t, r)
      PROVE  TaskIs(t, c.at, c.inst, c.k + 1, Append(c.prm, r), c.wake, c.after)
  <2>1. Append(c.prm, r) \in Seq(Ref)
    BY <1>1
  <2> QED
    BY <1>1, <1>5, <2>1 DEF TaskIs, TasksTyped, TaskRecord, HasParam
<1>6. ASSUME NextParam(t) PROVE TaskIs(t, c.at, c.inst, c.k + 1, c.prm, c.wake, c.after)
  BY <1>1, <1>6 DEF TaskIs, TasksTyped, TaskRecord, NextParam
<1>7. ASSUME task' = [task EXCEPT ![t] = Idle]
      PROVE  TaskIs(t, "idle", NoActor, 0, <<>>, <<>>, NoActor) /\ task'[t] = Idle
  <2>1. Idle \in TaskRecord
    BY DEF Idle, TaskRecord
  <2> QED
    BY <1>2, <1>7, <2>1 DEF Idle
<1>8. ASSUME NEW i \in Inst,
             task' = [task EXCEPT ![t] = [Idle EXCEPT !.at = "acquire", !.inst = i, !.k = 1]]
      PROVE  TaskIs(t, "acquire", i, 1, <<>>, <<>>, NoActor)
  <2>1. /\ Idle \in TaskRecord /\ Idle.prm = <<>> /\ Idle.wake = <<>>
        /\ Idle.after = NoActor
    BY DEF Idle, TaskRecord
  <2>2. ASSUME NEW e \in TaskRecord,
               task' = [task EXCEPT ![t] = [e EXCEPT !.at = "acquire", !.inst = i, !.k = 1]]
        PROVE  TaskIs(t, "acquire", i, 1, e.prm, e.wake, e.after)
    BY <1>1, <2>2 DEF TaskIs, TasksTyped, TaskRecord
  <2> QED
    BY <1>8, <2>1, <2>2
<1>9. ASSUME NEW b \in Inst \cup {NoActor},
             task' = [task EXCEPT ![t].at = "release", ![t].k = 1, ![t].after = b]
      PROVE  TaskIs(t, "release", c.inst, 1, c.prm, c.wake, b)
  BY <1>1, <1>9 DEF TaskIs, TasksTyped, TaskRecord
<1>10. ASSUME NEW w \in Seq(Inst), task' = [task EXCEPT ![t].k = @ + 1, ![t].wake = w]
       PROVE  TaskIs(t, c.at, c.inst, c.k + 1, c.prm, w, c.after)
  BY <1>1, <1>10 DEF TaskIs, TasksTyped, TaskRecord
<1>11. ASSUME task' = [task EXCEPT ![t].at = "consumed"]
       PROVE  TaskIs(t, "consumed", c.inst, c.k, c.prm, c.wake, c.after)
  BY <1>1, <1>11 DEF TaskIs, TasksTyped, TaskRecord
<1>12. ASSUME task' = [task EXCEPT ![t].at = "release", ![t].k = @ + 1]
       PROVE  TaskIs(t, "release", c.inst, c.k + 1, c.prm, c.wake, c.after)
  BY <1>1, <1>12 DEF TaskIs, TasksTyped, TaskRecord
<1>13. ASSUME NEW w \in Seq(Inst), task' = [task EXCEPT ![t].wake = w]
       PROVE  TaskIs(t, c.at, c.inst, c.k, c.prm, w, c.after)
  BY <1>1, <1>13 DEF TaskIs, TasksTyped, TaskRecord
<1>14. ASSUME task' = [task EXCEPT ![t].at = "trigger", ![t].k = 1]
       PROVE  TaskIs(t, "trigger", c.inst, 1, c.prm, c.wake, c.after)
  BY <1>1, <1>14 DEF TaskIs, TasksTyped, TaskRecord
<1> QED
  BY <1>5, <1>6, <1>7, <1>8, <1>9, <1>10, <1>11, <1>12, <1>13, <1>14

Others(t) == \A u \in Target \ {t} : task'[u] = task[u]
SameWork(t) == task'[t].at = task[t].at /\ task'[t].inst = task[t].inst /\ task'[t].k = task[t].k
Early(t) == task[t].at \in {"idle", "acquire"} /\ task'[t].at \in {"idle", "acquire"}
Late(t) == /\ task[t].at \in {"release", "consumed"} /\ task'[t].at \in {"release", "consumed"}
           /\ task'[t].inst = task[t].inst
SameReleasing == \A n \in Node, p \in Pipe : Releasing(n, p)' <=> Releasing(n, p)
SamePending == \A m, n \in Node, p \in Pipe : Pending(m, n, p)' <=> Pending(m, n, p)
SameStill == \A n \in Node, d \in Data, p \in Pipe : StillHas(n, d, p)' <=> StillHas(n, d, p)
SameRun == InRun' = InRun
SameNodes == executed' = executed
SameDue == \A i \in Inst : Due(i)' <=> Due(i)
SameOtherPlaces(X) == \A x \in Place \ X : Tokens(x)' = Tokens(x)

\* Acquiring and releasing change nothing for the nodes that come after.
LEMMA WorkSame ==
  ASSUME GraphParameters, NEW t \in Target, Others(t), SameWork(t) \/ Early(t) \/ Late(t)
  PROVE  /\ SameReleasing /\ SamePending
         /\ ~Late(t) \/ SameWork(t) => SameStill
<1>0. \A n \in Node : TargetOf[n] \in Target
  BY DEF GraphParameters
<1>1. ASSUME NEW n \in Node, NEW p \in Pipe PROVE Releasing(n, p)' <=> Releasing(n, p)
  BY <1>0 DEF Releasing, OnTask, Others, SameWork, Early, Late
<1>2. ASSUME NEW m \in Node, NEW n \in Node, NEW p \in Pipe
      PROVE  Pending(m, n, p)' <=> Pending(m, n, p)
  <2>1. OnTask(m, p, "trigger")' <=> OnTask(m, p, "trigger")
    BY <1>0 DEF OnTask, Others, SameWork, Early, Late
  <2>2. OnTask(m, p, "trigger") => task'[TargetOf[m]].k = task[TargetOf[m]].k
    BY <1>0 DEF OnTask, Others, SameWork, Early, Late
  <2> QED
    BY <1>1, <2>1, <2>2 DEF Pending
<1>3. ASSUME ~Late(t) \/ SameWork(t), NEW n \in Node, NEW d \in Data, NEW p \in Pipe
      PROVE  StillHas(n, d, p)' <=> StillHas(n, d, p)
  <2>1. /\ OnTask(n, p, "release")' <=> OnTask(n, p, "release")
        /\ OnTask(n, p, "consumed")' <=> OnTask(n, p, "consumed")
    BY <1>0, <1>3 DEF OnTask, Others, SameWork, Early, Late
  <2>2. OnTask(n, p, "release") \/ OnTask(n, p, "consumed")
           => task'[TargetOf[n]].k = task[TargetOf[n]].k
    BY <1>0, <1>3 DEF OnTask, Others, SameWork, Early, Late
  <2> QED
    BY <2>1, <2>2 DEF StillHas
<1> QED
  BY <1>1, <1>2, <1>3 DEF SameReleasing, SamePending, SameStill

\* A step of no target leaves the work of all targets as it is.
LEMMA TaskSame ==
  ASSUME task' = task
  PROVE  SameReleasing /\ SamePending /\ SameStill
BY DEF SameReleasing, SamePending, SameStill, Releasing, Pending, StillHas, OnTask

\* The runs are the same ones unless a descriptor is taken from freeQ or put back.
LEMMA RunSame ==
  /\ UNCHANGED <<freeQ, verified>> => SameRun
  /\ UNCHANGED controlVars => SameRun
BY DEF SameRun, InRun, controlVars, descVars

\* The same nodes are due when no node was executed and no target moved on.
LEMMA DueSame ==
  ASSUME SameNodes, SameRun, SamePending
  PROVE  /\ SameDue /\ \A i \in Inst : Enabled(i)' <=> Enabled(i)
         /\ ExecInv /\ executed \subseteq Inst => ExecInv'
<1>1. ASSUME NEW i \in Inst PROVE Enabled(i)' <=> Enabled(i)
  <2>1. i[1] \in Node /\ i[2] \in Pipe /\ InNodes(i[1]) \subseteq Node
    BY DEF Inst, InNodes
  <2> QED
    BY <2>1 DEF Enabled, SameNodes, SamePending
<1>2. SameDue
  BY <1>1 DEF Due, SameDue, SameNodes, SameRun
<1>3. ASSUME ExecInv, executed \subseteq Inst PROVE ExecInv'
  BY <1>1, <1>3 DEF ExecInv, SameNodes, SameRun
<1> QED
  BY <1>1, <1>2, <1>3

\* Places and what is in them.
LEMMA Places ==
  /\ \A t \in Target : /\ <<"job", t>> \in Place /\ <<"wake", t>> \in Place
                       /\ <<"after", t>> \in Place /\ <<"acquire", t>> \in Place
  /\ \A d \in Data : <<"waiting", d>> \in Place
  /\ \A d \in UserData : <<"call", d>> \in Place
  /\ \A i \in Inst : <<"behind", i>> \in Place
  /\ \A x \in Place : \/ \E t \in Target : \/ x = <<"job", t>> \/ x = <<"wake", t>>
                                           \/ x = <<"after", t>> \/ x = <<"acquire", t>>
                      \/ \E d \in Data : x = <<"waiting", d>>
                      \/ \E d \in UserData : x = <<"call", d>>
                      \/ \E i \in Inst : x = <<"behind", i>>
BY DEF Place

\* Which instances each place has ...
LEMMA TokensOf ==
  /\ \A t : /\ Tokens(<<"job", t>>) = Range(jobQ[t])
            /\ Tokens(<<"wake", t>>) = Range(task[t].wake)
            /\ Tokens(<<"after", t>>) = {task[t].after} \ {NoActor}
            /\ Tokens(<<"acquire", t>>) =
                  IF task[t].at = "acquire" THEN {task[t].inst} ELSE {}
  /\ \A d : Tokens(<<"waiting", d>>) = Range(waiting[d])
  /\ \A d : Tokens(<<"call", d>>) = Range(retrigger[d])
  /\ \A i : Tokens(<<"behind", i>>) = {behind[i]} \ {NoActor}
BY DEF Tokens

\* ... and which it has after the step.
LEMMA TokensPrimed ==
  /\ \A t : /\ Tokens(<<"job", t>>)' = Range(jobQ'[t])
            /\ Tokens(<<"wake", t>>)' = Range(task'[t].wake)
            /\ Tokens(<<"after", t>>)' = {task'[t].after} \ {NoActor}
            /\ Tokens(<<"acquire", t>>)' =
                  IF task'[t].at = "acquire" THEN {task'[t].inst} ELSE {}
  /\ \A d : Tokens(<<"waiting", d>>)' = Range(waiting'[d])
  /\ \A d : Tokens(<<"call", d>>)' = Range(retrigger'[d])
  /\ \A i : Tokens(<<"behind", i>>)' = {behind'[i]} \ {NoActor}
BY DEF Tokens

\* A place whose list is left alone has what it had.
LEMMA PlacesSame ==
  /\ \A t : /\ jobQ'[t] = jobQ[t] => Tokens(<<"job", t>>)' = Tokens(<<"job", t>>)
            /\ task'[t].wake = task[t].wake => Tokens(<<"wake", t>>)' = Tokens(<<"wake", t>>)
            /\ task'[t].after = task[t].after => Tokens(<<"after", t>>)' = Tokens(<<"after", t>>)
            /\ task'[t].at = task[t].at /\ task'[t].inst = task[t].inst
                  => Tokens(<<"acquire", t>>)' = Tokens(<<"acquire", t>>)
            /\ task[t].at # "acquire" /\ task'[t].at # "acquire"
                  => Tokens(<<"acquire", t>>)' = Tokens(<<"acquire", t>>)
  /\ \A d : waiting'[d] = waiting[d] => Tokens(<<"waiting", d>>)' = Tokens(<<"waiting", d>>)
  /\ \A d : retrigger'[d] = retrigger[d] => Tokens(<<"call", d>>)' = Tokens(<<"call", d>>)
  /\ \A i : behind'[i] = behind[i] => Tokens(<<"behind", i>>)' = Tokens(<<"behind", i>>)
<1>1. ASSUME NEW t
      PROVE  /\ jobQ'[t] = jobQ[t] => Tokens(<<"job", t>>)' = Tokens(<<"job", t>>)
             /\ task'[t].wake = task[t].wake => Tokens(<<"wake", t>>)' = Tokens(<<"wake", t>>)
             /\ task'[t].after = task[t].after
                   => Tokens(<<"after", t>>)' = Tokens(<<"after", t>>)
  BY DEF Tokens
<1>2. ASSUME NEW t
      PROVE  /\ task'[t].at = task[t].at /\ task'[t].inst = task[t].inst
                   => Tokens(<<"acquire", t>>)' = Tokens(<<"acquire", t>>)
             /\ task[t].at # "acquire" /\ task'[t].at # "acquire"
                   => Tokens(<<"acquire", t>>)' = Tokens(<<"acquire", t>>)
  BY DEF Tokens
<1>3. /\ \A d : waiting'[d] = waiting[d] => Tokens(<<"waiting", d>>)' = Tokens(<<"waiting", d>>)
      /\ \A d : retrigger'[d] = retrigger[d] => Tokens(<<"call", d>>)' = Tokens(<<"call", d>>)
      /\ \A i : behind'[i] = behind[i] => Tokens(<<"behind", i>>)' = Tokens(<<"behind", i>>)
  BY DEF Tokens
<1> QED
  BY <1>1, <1>2, <1>3

\* A step that changes the variables of some places leaves the other places alone.
LEMMA OtherPlaces ==
  ASSUME NEW X,
         \A t \in Target :
            /\ <<"job", t>> \in X \/ jobQ'[t] = jobQ[t]
            /\ <<"wake", t>> \in X \/ task'[t].wake = task[t].wake
            /\ <<"after", t>> \in X \/ task'[t].after = task[t].after
            /\ \/ <<"acquire", t>> \in X
               \/ task'[t].at = task[t].at /\ task'[t].inst = task[t].inst
               \/ task[t].at # "acquire" /\ task'[t].at # "acquire",
         \A d \in Data : <<"waiting", d>> \in X \/ waiting'[d] = waiting[d],
         \A d \in UserData : <<"call", d>> \in X \/ retrigger'[d] = retrigger[d],
         \A i \in Inst : <<"behind", i>> \in X \/ behind'[i] = behind[i]
  PROVE  SameOtherPlaces(X)
<1> SUFFICES ASSUME NEW x \in Place, x \notin X PROVE Tokens(x)' = Tokens(x)
  BY DEF SameOtherPlaces
<1>1. ASSUME NEW t \in Target,
             \/ x = <<"job", t>> \/ x = <<"wake", t>> \/ x = <<"after", t>> \/ x = <<"acquire", t>>
      PROVE  Tokens(x)' = Tokens(x)
  BY <1>1, PlacesSame
<1>2. ASSUME NEW d \in Data, x = <<"waiting", d>> PROVE Tokens(x)' = Tokens(x)
  BY <1>2, PlacesSame
<1>3. ASSUME NEW d \in UserData, x = <<"call", d>> PROVE Tokens(x)' = Tokens(x)
  BY <1>3, PlacesSame
<1>4. ASSUME NEW i \in Inst, x = <<"behind", i>> PROVE Tokens(x)' = Tokens(x)
  BY <1>4, PlacesSame
<1> QED
  BY <1>1, <1>2, <1>3, <1>4, Places

\* Nothing moves.
LEMMA TokensSame ==
  ASSUME OnePlace, DueInv, SameDue, SameOtherPlaces({})
  PROVE  OnePlace' /\ DueInv'
<1>1. \A x \in Place : Tokens(x)' = Tokens(x)
  BY DEF SameOtherPlaces
<1>2. OnePlace'
  BY <1>1 DEF OnePlace
<1>3. \A i \in Inst : Somewhere(i)' <=> Somewhere(i)
  BY <1>1 DEF Somewhere
<1> QED
  BY <1>2, <1>3 DEF DueInv, SameDue

\* Instances go from one place to another.
LEMMA TokensMove ==
  ASSUME OnePlace, DueInv, SameDue, NEW a \in Place, NEW b \in Place, a # b, NEW S,
         SameOtherPlaces({a, b}), Tokens(a)' = Tokens(a) \ S, Tokens(b)' = Tokens(b) \cup S,
         S \subseteq Tokens(a)
  PROVE  OnePlace' /\ DueInv'
<1> DEFINE f == [x \in Place |-> Tokens(x)]
           g == [x \in Place |-> Tokens(x)']
<1>1. \A x \in Place : f[x] = Tokens(x) /\ g[x] = Tokens(x)'
  OBVIOUS
<1> HIDE DEF f, g
<1>2. /\ \A x, y \in Place : x # y => f[x] \cap f[y] = {}
      /\ \A x \in Place \ {a, b} : g[x] = f[x]
      /\ g[a] = f[a] \ S /\ g[b] = f[b] \cup S /\ S \subseteq f[a]
  BY <1>1 DEF OnePlace, SameOtherPlaces
<1>3. /\ \A x, y \in Place : x # y => g[x] \cap g[y] = {}
      /\ \A i : (\E x \in Place : i \in g[x]) <=> (\E x \in Place : i \in f[x])
  BY <1>2, Moves
<1>4. OnePlace'
  BY <1>1, <1>3 DEF OnePlace
<1>5. \A i \in Inst : Somewhere(i)' <=> Somewhere(i)
  BY <1>1, <1>3 DEF Somewhere
<1> QED
  BY <1>4, <1>5 DEF DueInv, SameDue

\* An instance that is no longer due leaves its place.
LEMMA TokensLeave ==
  ASSUME OnePlace, DueInv, NEW a \in Place, NEW c \in Inst, c \in Tokens(a),
         SameOtherPlaces({a}), Tokens(a)' = Tokens(a) \ {c},
         ~Due(c)', \A i \in Inst \ {c} : Due(i)' <=> Due(i)
  PROVE  OnePlace' /\ DueInv'
<1> DEFINE f == [x \in Place |-> Tokens(x)]
           g == [x \in Place |-> Tokens(x)']
           S == {c}
<1>1. \A x \in Place : f[x] = Tokens(x) /\ g[x] = Tokens(x)'
  OBVIOUS
<1> HIDE DEF f, g
<1>2. /\ \A x, y \in Place : x # y => f[x] \cap f[y] = {}
      /\ \A x \in Place \ {a} : g[x] = f[x]
      /\ g[a] = f[a] \ S /\ S \subseteq f[a]
  BY <1>1 DEF OnePlace, SameOtherPlaces
<1>3. /\ \A x, y \in Place : x # y => g[x] \cap g[y] = {}
      /\ \A i : (\E x \in Place : i \in g[x]) <=> (\E x \in Place : i \in f[x]) /\ i \notin S
  <2> HIDE DEF S
  <2> QED
    BY <1>2, Leaves
<1>4. OnePlace'
  BY <1>1, <1>3 DEF OnePlace
<1>5. \A i \in Inst : Somewhere(i)' <=> Somewhere(i) /\ i # c
  BY <1>1, <1>3 DEF Somewhere
<1> QED
  BY <1>4, <1>5 DEF DueInv

\* Instances that become due come to a place.
LEMMA TokensCome ==
  ASSUME OnePlace, DueInv, NEW b \in Place, NEW S \in SUBSET Inst,
         SameOtherPlaces({b}), Tokens(b)' = Tokens(b) \cup S,
         \A i \in S : ~Due(i), \A i \in Inst : Due(i)' <=> Due(i) \/ i \in S
  PROVE  OnePlace' /\ DueInv'
<1> DEFINE f == [x \in Place |-> Tokens(x)]
           g == [x \in Place |-> Tokens(x)']
<1>1. \A x \in Place : f[x] = Tokens(x) /\ g[x] = Tokens(x)'
  OBVIOUS
<1> HIDE DEF f, g
<1>0. \A x \in Place : f[x] \cap S = {}
  BY <1>1 DEF DueInv, Somewhere
<1>2. /\ \A x, y \in Place : x # y => f[x] \cap f[y] = {}
      /\ \A x \in Place \ {b} : g[x] = f[x]
      /\ g[b] = f[b] \cup S
  BY <1>1 DEF OnePlace, SameOtherPlaces
<1>3. /\ \A x, y \in Place : x # y => g[x] \cap g[y] = {}
      /\ \A i : (\E x \in Place : i \in g[x]) <=> (\E x \in Place : i \in f[x]) \/ i \in S
  BY <1>0, <1>2, Comes
<1>4. OnePlace'
  BY <1>1, <1>3 DEF OnePlace
<1>5. \A i \in Inst : Somewhere(i)' <=> Somewhere(i) \/ i \in S
  BY <1>1, <1>3 DEF Somewhere
<1> QED
  BY <1>4, <1>5 DEF DueInv

\* A step that acquires and releases nothing keeps what descriptors hold.
LEMMA HeldSame ==
  ASSUME HeldInv, UNCHANGED <<held, doneCnt>>, SameRun, SameNodes, SameStill, GraphParameters
  PROVE  HeldInv'
<1>1. \A n \in Node, d \in Data, p \in Pipe : ReleasedBy(n, d, p)' <=> ReleasedBy(n, d, p)
  BY DEF ReleasedBy, SameNodes, SameStill
<1>2. ASSUME NEW d \in Data, NEW p \in Pipe
      PROVE  Readers(d, p)' = Readers(d, p) /\ (Full(d, p)' <=> Full(d, p))
  <2>1. Readers(d, p)' = Readers(d, p)
    BY <1>1 DEF Readers, Consumers
  <2>2. Consumers(d) = {} => (ReleasedBy(Producer[d], d, p)' <=> ReleasedBy(Producer[d], d, p))
    <3>1. Consumers(d) = {} => Producer[d] \in Node
      BY GraphAssumption DEF GraphParameters
    <3> QED
      BY <1>1, <3>1
  <2> QED
    BY <2>1, <2>2 DEF Full
<1>3. \A d \in Data, p \in Pipe : Untouched(d, p)' <=> Untouched(d, p)
  BY DEF Untouched, SameNodes
<1> QED
  BY <1>2, <1>3 DEF HeldInv, HeldOf, SameRun

\* What the other tasks acquired is theirs still.
LEMMA PrmSame ==
  ASSUME PrmInv, UNCHANGED held, NEW t \in Target, Others(t), PrmOf(t)'
  PROVE  PrmInv'
<1>1. ASSUME NEW u \in Target, u # t PROVE PrmOf(u)'
  <2>1. task'[u] = task[u] /\ PrmOf(u)
    BY <1>1 DEF Others, PrmInv
  <2> QED
    BY <2>1 DEF PrmOf, Has
<1> QED
  BY <1>1 DEF PrmInv

\* The other tasks are where they were.
LEMMA ShapeSame ==
  ASSUME TaskShape, SameRun, executed \subseteq executed', NEW t \in Target, Others(t),
         Shape(t)'
  PROVE  TaskShape'
<1>1. ASSUME NEW u \in Target, u # t PROVE Shape(u)'
  <2>1. task'[u] = task[u] /\ Shape(u)
    BY <1>1 DEF Others, TaskShape
  <2> QED
    BY <2>1 DEF Shape, SameRun
<1> QED
  BY <1>1 DEF TaskShape

\* Blocked nodes stay blocked for the reason they were.
LEMMA BlockedSame ==
  ASSUME BlockedInv, blocked \subseteq Inst, UNCHANGED <<blocked, behind>>, SameDue,
         \A i \in Inst : i \in Tokens(<<"acquire", TargetOf[i[1]]>>)'
                          => i \in Tokens(<<"acquire", TargetOf[i[1]]>>)
  PROVE  BlockedInv'
BY DEF BlockedInv, SameDue, Prev

\* The lists of a step that sends and takes nothing.
LEMMA ListsSame ==
  ASSUME ListsInv, NEW t \in Target, Others(t), IsInjective(task'[t].wake),
         \A u \in Target : jobQ'[u] = jobQ[u], UNCHANGED <<waiting, retrigger>>
  PROVE  ListsInv'
BY DEF ListsInv, Others

\* Only a graph that was verified has work for a target.
LEMMA Busy ==
  ASSUME Detail, NEW t \in Target, task[t].at # "idle" \/ jobQ[t] # <<>>, verified' = verified
  PROVE  verified # 0 /\ Unverified'
BY DEF Detail, Unverified, Idle

\* A step that moves no reference.
LEMMA RefsSame ==
  ASSUME RefInv, UNCHANGED <<held, readyQ, doneQ, enq, verified>>
  PROVE  RefInv'
<1>1. \A d : HeldRefs(d)' = HeldRefs(d) /\ DoneRefs(d)' = DoneRefs(d) /\ GivenRefs(d)' = GivenRefs(d)
  BY DEF HeldRefs, DoneRefs, GivenRefs
<1>2. ASSUME NEW d \in Data PROVE RefOf(d)'
  <2>1. RefOf(d)
    BY DEF RefInv
  <2> QED
    BY <1>1, <2>1 DEF RefOf
<1> QED
  BY <1>2 DEF RefInv

\* A step that sends nothing to the host and leaves the nodes alone.
LEMMA HostSame ==
  ASSUME HostInv, jobQ'[Host] = jobQ[Host], SameRun, SameNodes, SameReleasing
  PROVE  HostInv'
<1>1. \A j, n, p : Reported(j, n, p)' <=> Reported(j, n, p)
  BY DEF Reported
<1>2. \A n \in Node, p \in Pipe : Releasing(n, p)' <=> Releasing(n, p)
  BY DEF SameReleasing
<1>3. Leaf \subseteq Node
  BY GraphAssumption
<1> QED
  BY <1>1, <1>2, <1>3 DEF HostInv, SameRun, SameNodes

\* A job is put at the end of the queue of one target ...
LEMMA SendsTo ==
  ASSUME JobsTyped, NEW t \in Target, NEW i \in Inst, Send(t, i)
  PROVE  /\ JobsTyped' /\ jobQ'[t] = Append(jobQ[t], i) /\ jobQ'[Host] = jobQ[Host]
         /\ \A u \in Target \ {t} : jobQ'[u] = jobQ[u]
<1>1. Host \notin Target
  BY GraphAssumption
<1>2. Append(jobQ[t], i) \in Seq(Inst) /\ Append(jobQ[t], i) \in Seq(Inst \cup HostJob)
  BY DEF JobsTyped
<1> QED
  BY <1>1, <1>2 DEF JobsTyped, Send

\* ... or of the host ...
LEMMA SendsToHost ==
  ASSUME JobsTyped, NEW j \in HostJob, Send(Host, j)
  PROVE  /\ JobsTyped' /\ jobQ'[Host] = Append(jobQ[Host], j)
         /\ \A u \in Target : jobQ'[u] = jobQ[u]
<1>1. Host \notin Target
  BY GraphAssumption
<1>2. Append(jobQ[Host], j) \in Seq(HostJob) /\ Append(jobQ[Host], j) \in Seq(Inst \cup HostJob)
  BY DEF JobsTyped
<1> QED
  BY <1>1, <1>2 DEF JobsTyped, Send

\* ... and taken from the front of it.
LEMMA TakesFrom ==
  ASSUME JobsTyped, NEW t \in Target \cup {Host}, jobQ[t] # <<>>,
         jobQ' = [jobQ EXCEPT ![t] = Tail(@)]
  PROVE  /\ JobsTyped' /\ jobQ'[t] = Tail(jobQ[t])
         /\ \A u \in (Target \cup {Host}) \ {t} : jobQ'[u] = jobQ[u]
<1>1. Host \notin Target
  BY GraphAssumption
<1>2. /\ t \in Target => Tail(jobQ[t]) \in Seq(Inst)
      /\ t = Host => Tail(jobQ[t]) \in Seq(HostJob)
      /\ Tail(jobQ[t]) \in Seq(Inst \cup HostJob)
  BY DEF JobsTyped
<1> QED
  BY <1>1, <1>2 DEF JobsTyped

-----------------------------------------------------------------------------
(* The runs of GraphSchedule                                                *)

\* The two instances of GraphControl have the same variables.
LEMMA ControlUnchanged ==
  UNCHANGED controlVars <=> UNCHANGED GSP!controlVars
BY DEF controlVars, descVars, hostVars, callVars, countVars, abandonVars, waitVars,
       GSP!controlVars, GSP!descVars, GSP!hostVars, GSP!callVars, GSP!countVars,
       GSP!abandonVars, GSP!waitVars

\* The same leaf nodes are still to complete ...
LEMMA LeavesSame ==
  ASSUME SameRun, SameNodes, SameReleasing,
         \A n \in Leaf, p \in Pipe : <<"complete", <<n, p>>>> \in Range(jobQ'[Host])
                                   <=> <<"complete", <<n, p>>>> \in Range(jobQ[Host])
  PROVE  LeafTodo' = LeafTodo
<1>1. Leaf \subseteq Node
  BY GraphAssumption
<1>2. \A n \in Leaf, p \in Pipe : Incomplete(n, p)' <=> Incomplete(n, p)
  BY <1>1 DEF Incomplete, SameNodes, SameReleasing
<1>3. \A p \in Pipe : {n \in Leaf : Incomplete(n, p)}' = {n \in Leaf : Incomplete(n, p)}
  BY <1>2
<1> QED
  BY <1>3 DEF LeafTodo, SameRun

\* ... and the same runs still lack their input, ...
LEMMA UnfedSame ==
  ASSUME UNCHANGED held, SameNodes, SameRun
  PROVE  Unfed' = Unfed
BY DEF Unfed, SameNodes, SameRun, Consumers

\* ... so that the step is none of GraphSchedule.
LEMMA RunsStutter ==
  ASSUME UNCHANGED controlVars, Len(readyQ[Param0])' = Len(readyQ[Param0]),
         Unfed' = Unfed, LeafTodo' = LeafTodo
  PROVE  Implements
BY ControlUnchanged DEF Implements, GSP!vars, GSP!runVars

\* The targets and the descriptors are left alone.
LEMMA NodesLeft ==
  ASSUME Detail, GraphParameters,
         UNCHANGED <<task, executed, blocked, behind, held, doneCnt>>, SameRun
  PROVE  /\ TasksTyped' /\ NodesTyped' /\ TaskShape' /\ BlockedInv' /\ ExecInv' /\ HeldInv'
         /\ PrmInv' /\ SameDue /\ Unfed' = Unfed
         /\ jobQ'[Host] = jobQ[Host] => HostInv' /\ LeafTodo' = LeafTodo
<1>1. SameRun /\ SameNodes
  BY DEF SameNodes
<1>2. SameReleasing /\ SamePending /\ SameStill
  BY TaskSame
<1>3. TasksTyped' /\ NodesTyped' /\ TaskShape'
  BY <1>1 DEF Detail, Typed, TasksTyped, NodesTyped, TaskShape, Shape, SameRun
<1>4. SameDue /\ ExecInv'
  BY <1>1, <1>2, DueSame DEF Detail, Typed, NodesTyped
<1>7. BlockedInv'
  <2>1. \A i \in blocked : i \in Inst
    BY DEF Detail, Typed, NodesTyped
  <2>2. \A i \in blocked : Tokens(<<"acquire", TargetOf[i[1]]>>)' = Tokens(<<"acquire", TargetOf[i[1]]>>)
    BY DEF Tokens
  <2> QED
    BY <1>4, <2>1, <2>2 DEF Detail, BlockedInv, SameDue, Prev
<1>8. HeldInv'
  BY <1>1, <1>2, HeldSame DEF Detail
<1>9. PrmInv'
  BY DEF Detail, PrmInv, PrmOf, Has
<1>10. ASSUME jobQ'[Host] = jobQ[Host] PROVE HostInv' /\ LeafTodo' = LeafTodo
  BY <1>1, <1>2, <1>10, HostSame, LeavesSame DEF Detail
<1>11. Unfed' = Unfed
  BY <1>1, UnfedSame
<1> QED
  BY <1>1, <1>3, <1>4, <1>7, <1>8, <1>9, <1>10, <1>11

\* A step of GraphControl alone.
LEMMA DetailSame ==
  ASSUME Detail, UNCHANGED detailVars, UNCHANGED <<freeQ, verified>>, GraphParameters
  PROVE  /\ Detail' /\ Len(readyQ[Param0])' = Len(readyQ[Param0])
         /\ Unfed' = Unfed /\ LeafTodo' = LeafTodo
<1> USE DEF detailVars, nodeVars, queueVars, userVars
<1>1. /\ TasksTyped' /\ NodesTyped' /\ TaskShape' /\ BlockedInv' /\ ExecInv' /\ HeldInv'
      /\ PrmInv' /\ SameDue /\ HostInv' /\ Unfed' = Unfed /\ LeafTodo' = LeafTodo
  BY RunSame, NodesLeft
<1>2. JobsTyped' /\ QueuesTyped' /\ ListsInv'
  BY DEF Detail, Typed, JobsTyped, QueuesTyped, ListsInv
<1>3. SameOtherPlaces({})
  BY DEF SameOtherPlaces, Tokens
<1>4. OnePlace' /\ DueInv'
  BY <1>1, <1>3, TokensSame DEF Detail
<1>5. RefInv' /\ Unverified' /\ WaitsForNothingReady'
  BY RefsSame DEF Detail, Unverified, WaitsForNothingReady
<1> QED
  BY <1>1, <1>2, <1>4, <1>5 DEF Detail, Typed

\* ownGraphScheduleGraphWrapper, vxWaitGraph: a call touches no node and no queue.
LEMMA CallSteps ==
  ASSUME Detail, GraphParameters, NEW a \in App, CallStep(a)
  PROVE  Detail' /\ Implements
<1> USE DEF controlVars, descVars, hostVars, callVars, countVars, abandonVars, waitVars,
            GSP!controlVars, GSP!descVars, GSP!hostVars, GSP!callVars, GSP!countVars,
            GSP!abandonVars, GSP!waitVars
<1>1. UNCHANGED detailVars /\ UNCHANGED <<freeQ, verified>>
  BY DEF CallStep, EnqueueEnd, EnqueueFail, ScheduleLock, WaitCheck, WaitReturn
<1>2. /\ Detail' /\ Len(readyQ[Param0])' = Len(readyQ[Param0])
      /\ Unfed' = Unfed /\ LeafTodo' = LeafTodo
  BY <1>1, DetailSame
<1>3. /\ EnqueueEnd(a) => GSP!EnqueueEnd(a)
      /\ EnqueueFail(a) => GSP!EnqueueFail(a)
      /\ WaitCheck(a) => GSP!WaitCheck(a)
      /\ WaitReturn(a) => GSP!WaitReturn(a)
  BY DEF EnqueueEnd, EnqueueFail, WaitCheck, WaitReturn,
         GSP!EnqueueEnd, GSP!EnqueueFail, GSP!WaitCheck, GSP!WaitReturn
<1>4. ScheduleLock(a) => GSP!ScheduleLock(a)
  BY DEF ScheduleLock, GSP!ScheduleLock, TotalNumSchedule, GSP!TotalNumSchedule
<1>5. GSP!CallStep(a)
  BY <1>2, <1>3, <1>4 DEF CallStep, GSP!CallStep, GSP!runVars
<1> QED
  BY <1>2, <1>5 DEF Implements, GSP!Next

\* The host between two messages touches no node and no queue.
LEMMA LockSteps ==
  ASSUME Detail, GraphParameters, RescheduleLock \/ ScheduleUnlock \/ HostAbandons,
         UNCHANGED detailVars
  PROVE  Detail' /\ Implements
<1> USE DEF controlVars, descVars, hostVars, callVars, countVars, abandonVars, waitVars,
            GSP!controlVars, GSP!descVars, GSP!hostVars, GSP!callVars, GSP!countVars,
            GSP!abandonVars, GSP!waitVars
<1>1. UNCHANGED <<freeQ, verified>>
  BY DEF RescheduleLock, ScheduleUnlock, HostAbandons
<1>2. /\ Detail' /\ Len(readyQ[Param0])' = Len(readyQ[Param0])
      /\ Unfed' = Unfed /\ LeafTodo' = LeafTodo
  BY <1>1, DetailSame
<1>3. RescheduleLock => GSP!RescheduleLock
  BY DEF RescheduleLock, GSP!RescheduleLock, TotalNumSchedule, GSP!TotalNumSchedule, Host, GSP!Host
<1>4. ScheduleUnlock => GSP!ScheduleUnlock
  BY DEF ScheduleUnlock, GSP!ScheduleUnlock, Host, GSP!Host, Queueing, GSP!Queueing
<1>5. HostAbandons => GSP!HostAbandons
  BY DEF HostAbandons, GSP!HostAbandons, Host, GSP!Host
<1>6. GSP!HostStep
  BY <1>2, <1>3, <1>4, <1>5 DEF GSP!HostStep, GSP!runVars
<1> QED
  BY <1>2, <1>6 DEF Implements, GSP!Next

-----------------------------------------------------------------------------
(* The application                                                          *)

\* A node descriptor is sent to its target.
LEMMA Triggered ==
  ASSUME JobsTyped, ListsInv, GraphParameters, NEW i \in Inst, NEW t \in Target,
         t = TargetOf[i[1]], i \notin Range(jobQ[t]), Trigger(i)
  PROVE  /\ JobsTyped' /\ jobQ'[Host] = jobQ[Host]
         /\ Tokens(<<"job", t>>)' = Tokens(<<"job", t>>) \cup {i}
         /\ \A u \in Target \ {t} : jobQ'[u] = jobQ[u]
         /\ \A u \in Target : /\ IsInjective(jobQ'[u])
                              /\ \A j \in Range(jobQ'[u]) : TargetOf[j[1]] = u
<1>1. /\ JobsTyped' /\ jobQ'[t] = Append(jobQ[t], i) /\ jobQ'[Host] = jobQ[Host]
      /\ \A u \in Target \ {t} : jobQ'[u] = jobQ[u]
  BY SendsTo DEF Trigger
<1>2. /\ Range(Append(jobQ[t], i)) = Range(jobQ[t]) \cup {i}
      /\ IsInjective(jobQ[t]) => IsInjective(Append(jobQ[t], i))
  BY Appended DEF JobsTyped
<1>3. Tokens(<<"job", t>>)' = Tokens(<<"job", t>>) \cup {i}
  BY <1>1, <1>2 DEF Tokens
<1>4. ASSUME NEW u \in Target
      PROVE  IsInjective(jobQ'[u]) /\ \A j \in Range(jobQ'[u]) : TargetOf[j[1]] = u
  <2>1. CASE u = t
    BY <1>1, <1>2, <2>1 DEF ListsInv
  <2>2. CASE u # t
    BY <1>1, <2>2 DEF ListsInv
  <2> QED
    BY <2>1, <2>2
<1> QED
  BY <1>1, <1>3, <1>4

\* A dequeue call that gets nothing touches no node and no queue.
LEMMA DequeueLeft ==
  ASSUME Detail, GraphParameters, NEW x \in Dequeuer,
         DequeueNothing(x) \/ DequeueWait(x) \/ DequeueWoken(x)
  PROVE  Detail' /\ Implements
<1> USE DEF queueVars, nodeVars, controlVars, descVars
<1>1. UNCHANGED <<controlVars, jobQ, task, nodeVars, queueVars, retrigger, enq>>
  BY DEF DequeueNothing, DequeueWait, DequeueWoken
<1>2. /\ TasksTyped' /\ NodesTyped' /\ TaskShape' /\ BlockedInv' /\ ExecInv' /\ HeldInv'
      /\ PrmInv' /\ SameDue /\ HostInv' /\ Unfed' = Unfed /\ LeafTodo' = LeafTodo
  BY <1>1, RunSame, NodesLeft
<1>3. JobsTyped' /\ QueuesTyped' /\ ListsInv'
  BY <1>1 DEF Detail, Typed, JobsTyped, QueuesTyped, ListsInv
<1>4. SameOtherPlaces({})
  BY <1>1 DEF SameOtherPlaces, Tokens
<1>5. OnePlace' /\ DueInv'
  BY <1>2, <1>4, TokensSame DEF Detail
<1>6. RefInv' /\ Unverified' /\ WaitsForNothingReady'
  BY <1>1, RefsSame DEF Detail, Unverified, WaitsForNothingReady
<1>7. Implements
  BY <1>1, <1>2, RunsStutter
<1> QED
  BY <1>2, <1>3, <1>5, <1>6, <1>7 DEF Detail, Typed

\* vxGraphParameterDequeueDoneRef: the reference goes back to the application.
LEMMA DequeueTakes ==
  ASSUME Detail, GraphParameters, NEW x \in Dequeuer, DequeueRef(x)
  PROVE  Detail' /\ Implements
<1> USE DEF queueVars, nodeVars, controlVars, descVars
<1>0. PICK d \in UserData : d = Dequeues[x]
  BY DEF GraphParameters
<1>1. /\ UNCHANGED <<controlVars, jobQ, task, nodeVars, held, doneCnt, readyQ, waiting, retrigger>>
      /\ doneQ[d] # <<>> /\ doneQ' = [doneQ EXCEPT ![d] = Tail(@)]
      /\ enq' = enq \ {Head(doneQ[d])}
  BY <1>0 DEF DequeueRef
<1>2. /\ TasksTyped' /\ NodesTyped' /\ TaskShape' /\ BlockedInv' /\ ExecInv' /\ HeldInv'
      /\ PrmInv' /\ SameDue /\ HostInv' /\ Unfed' = Unfed /\ LeafTodo' = LeafTodo
  BY <1>1, RunSame, NodesLeft
<1>q. doneQ \in [UserData -> Seq(Ref)] /\ doneQ[d] \in Seq(Ref) /\ d \in Data
  BY DEF Detail, Typed, QueuesTyped, GraphParameters
<1>t. /\ Tail(doneQ[d]) \in Seq(Ref)
      /\ Range(doneQ[d]) = Range(Tail(doneQ[d])) \cup {Head(doneQ[d])}
      /\ IsInjective(doneQ[d]) =>
            IsInjective(Tail(doneQ[d])) /\ Head(doneQ[d]) \notin Range(Tail(doneQ[d]))
  BY <1>1, <1>q, Taken
<1>u. doneQ'[d] = Tail(doneQ[d]) /\ \A e \in UserData \ {d} : doneQ'[e] = doneQ[e]
  BY <1>1, <1>q
<1>3. JobsTyped' /\ QueuesTyped' /\ ListsInv'
  <2>1. doneQ' \in [UserData -> Seq(Ref)]
    BY <1>1, <1>q, <1>t
  <2> QED
    BY <1>1, <2>1 DEF Detail, Typed, JobsTyped, QueuesTyped, ListsInv
<1>4. SameOtherPlaces({})
  BY <1>1 DEF SameOtherPlaces, Tokens
<1>5. OnePlace' /\ DueInv'
  BY <1>2, <1>4, TokensSame DEF Detail
<1>6. RefInv'
  <2>1. \A e : HeldRefs(e)' = HeldRefs(e)
    BY <1>1 DEF HeldRefs
  <2>2. RefOf(d)'
    <3>1. RefOf(d) /\ DoneRefs(d) = Range(doneQ[d]) /\ GivenRefs(d) = enq \cap Range(Refs[d])
      BY <1>q DEF Detail, RefInv, DoneRefs, GivenRefs
    <3>2. /\ DoneRefs(d)' = Range(Tail(doneQ[d])) /\ IsInjective(doneQ'[d])
          /\ Head(doneQ[d]) \notin Range(Tail(doneQ[d]))
          /\ GivenRefs(d)' = (enq \ {Head(doneQ[d])}) \cap Range(Refs[d])
      BY <1>1, <1>t, <1>u, <3>1 DEF RefOf, DoneRefs, GivenRefs
    <3> QED
      BY <1>1, <1>t, <2>1, <3>1, <3>2 DEF RefOf
  <2>3. ASSUME NEW e \in Data, e # d PROVE RefOf(e)'
    <3>1. RefOf(e)
      BY DEF Detail, RefInv
    <3>2. DoneRefs(e)' = DoneRefs(e)
      BY <1>u, <2>3 DEF DoneRefs
    <3>3. Head(doneQ[d]) \in Range(Refs[d])
      BY <1>q, <1>t DEF Detail, RefInv, RefOf, DoneRefs, GivenRefs
    <3>4. Range(Refs[d]) \cap Range(Refs[e]) = {}
      BY <1>q, <2>3 DEF GraphParameters
    <3>5. GivenRefs(e)' = GivenRefs(e)
      BY <1>1, <3>3, <3>4 DEF GivenRefs
    <3> QED
      BY <1>1, <1>u, <2>1, <2>3, <3>1, <3>2, <3>5 DEF RefOf
  <2> QED
    BY <2>2, <2>3 DEF RefInv
<1>7. Unverified' /\ WaitsForNothingReady'
  BY <1>1 DEF Detail, Unverified, WaitsForNothingReady
<1>8. Implements
  BY <1>1, <1>2, RunsStutter
<1> QED
  BY <1>2, <1>3, <1>5, <1>6, <1>7, <1>8 DEF Detail, Typed

\* The call that enqueued a reference sends the nodes it found blocked to their targets.
LEMMA RetriggerStep ==
  ASSUME Detail, GraphParameters, NEW d \in UserData, Retrigger(d)
  PROVE  Detail' /\ Implements
<1> USE DEF queueVars, nodeVars, controlVars, descVars
<1>1. /\ UNCHANGED <<controlVars, task, nodeVars, queueVars, enq>>
      /\ retrigger[d] # <<>> /\ Trigger(Head(retrigger[d]))
      /\ retrigger' = [retrigger EXCEPT ![d] = Tail(@)]
  BY DEF Retrigger
<1>q. /\ retrigger \in [UserData -> Seq(Inst)] /\ retrigger[d] \in Seq(Inst)
      /\ IsInjective(retrigger[d])
  BY DEF Detail, Typed, QueuesTyped, ListsInv
<1>t. /\ Tail(retrigger[d]) \in Seq(Inst) /\ Head(retrigger[d]) \in Inst
      /\ Range(retrigger[d]) = Range(Tail(retrigger[d])) \cup {Head(retrigger[d])}
      /\ IsInjective(Tail(retrigger[d])) /\ Head(retrigger[d]) \notin Range(Tail(retrigger[d]))
  BY <1>1, <1>q, Taken
<1>i. PICK i \in Inst : i = Head(retrigger[d])
  BY <1>t
<1>g. PICK t \in Target : t = TargetOf[i[1]]
  BY DEF Inst, GraphParameters
<1>u. /\ retrigger'[d] = Tail(retrigger[d])
      /\ \A e \in UserData \ {d} : retrigger'[e] = retrigger[e]
  BY <1>1, <1>q
<1>p. /\ <<"call", d>> \in Place /\ <<"job", t>> \in Place /\ <<"call", d>> # <<"job", t>>
      /\ Tokens(<<"call", d>>) = Range(retrigger[d]) /\ Tokens(<<"job", t>>) = Range(jobQ[t])
  BY Places, TokensOf
<1>n. i \notin Range(jobQ[t])
  BY <1>i, <1>p, <1>t DEF Detail, OnePlace
<1>j. /\ JobsTyped' /\ jobQ'[Host] = jobQ[Host]
      /\ Tokens(<<"job", t>>)' = Tokens(<<"job", t>>) \cup {i}
      /\ \A u \in Target \ {t} : jobQ'[u] = jobQ[u]
      /\ \A u \in Target : /\ IsInjective(jobQ'[u])
                           /\ \A j \in Range(jobQ'[u]) : TargetOf[j[1]] = u
  BY <1>1, <1>g, <1>i, <1>n, Triggered DEF Detail, Typed
<1>2. /\ TasksTyped' /\ NodesTyped' /\ TaskShape' /\ BlockedInv' /\ ExecInv' /\ HeldInv'
      /\ PrmInv' /\ SameDue /\ HostInv' /\ Unfed' = Unfed /\ LeafTodo' = LeafTodo
  BY <1>1, <1>j, RunSame, NodesLeft
<1>3. QueuesTyped' /\ ListsInv'
  <2>1. retrigger' \in [UserData -> Seq(Inst)]
    BY <1>1, <1>q, <1>t
  <2>2. QueuesTyped'
    BY <1>1, <2>1 DEF Detail, Typed, QueuesTyped
  <2> QED
    BY <1>1, <1>j, <1>t, <1>u, <2>2 DEF Detail, ListsInv
<1>4. Tokens(<<"call", d>>)' = Tokens(<<"call", d>>) \ {i}
  BY <1>i, <1>p, <1>t, <1>u, TokensPrimed
<1>5. SameOtherPlaces({<<"call", d>>, <<"job", t>>})
  BY <1>1, <1>j, <1>u, OtherPlaces
<1>6. OnePlace' /\ DueInv'
  <2>1. {i} \subseteq Tokens(<<"call", d>>)
    BY <1>i, <1>p, <1>t
  <2> QED
    BY <1>2, <1>4, <1>5, <1>j, <1>p, <2>1, TokensMove DEF Detail
<1>v. verified # 0 /\ verified' = verified
  <2>1. <<"call", d>> \in Place /\ i \in Tokens(<<"call", d>>)
    BY <1>i, <1>p, <1>t
  <2>2. Due(i)
    BY <2>1 DEF Detail, DueInv, Somewhere
  <2> QED
    BY <1>1, <2>2 DEF Due, InRun
<1>7. RefInv' /\ Unverified' /\ WaitsForNothingReady'
  BY <1>1, <1>v, RefsSame DEF Detail, Unverified, WaitsForNothingReady
<1>8. Implements
  BY <1>1, <1>2, RunsStutter
<1> QED
  BY <1>2, <1>3, <1>6, <1>7, <1>8, <1>j DEF Detail, Typed

\* ownDataRefQEnqueueReadyRef: the reference is new in the queue, and who was blocked on it
\* is in the call.
LEMMA Enqueued ==
  ASSUME Detail, GraphParameters, NEW d \in UserData, NEW r, EnqueueReady(d, r),
         UNCHANGED <<freeQ, verified>>, verified > 0
  PROVE  /\ Detail' /\ Unfed' = Unfed /\ LeafTodo' = LeafTodo
         /\ Len(readyQ[d])' = Len(readyQ[d]) + 1
         /\ \A e \in Data \ {d} : readyQ'[e] = readyQ[e]
<1> USE DEF nodeVars
<1>1. /\ UNCHANGED <<jobQ, task, nodeVars, held, doneCnt, doneQ>>
      /\ retrigger[d] = <<>> /\ r \in Range(Refs[d]) /\ r \notin enq /\ enq' = enq \cup {r}
      /\ readyQ' = [readyQ EXCEPT ![d] = Append(@, r)]
      /\ retrigger' = [retrigger EXCEPT ![d] = waiting[d]]
      /\ waiting' = [waiting EXCEPT ![d] = <<>>]
  BY DEF EnqueueReady, ExtractBlockedNodes, BlockedAfterExtract
<1>2. /\ TasksTyped' /\ NodesTyped' /\ TaskShape' /\ BlockedInv' /\ ExecInv' /\ HeldInv'
      /\ PrmInv' /\ SameDue /\ HostInv' /\ Unfed' = Unfed /\ LeafTodo' = LeafTodo
  BY <1>1, RunSame, NodesLeft
<1>q. /\ readyQ \in [Data -> Seq(Ref)] /\ retrigger \in [UserData -> Seq(Inst)]
      /\ waiting \in [Data -> Seq(Inst)] /\ d \in Data /\ enq \subseteq Ref
      /\ readyQ[d] \in Seq(Ref) /\ waiting[d] \in Seq(Inst)
  BY DEF Detail, Typed, QueuesTyped, GraphParameters
<1>r. r \in Ref /\ <<>> \in Seq(Inst)
  <2>1. Refs[d] \in Seq(Ref)
    BY <1>q DEF GraphParameters
  <2> QED
    BY <1>1, <2>1, ListOf
<1>a. /\ Append(readyQ[d], r) \in Seq(Ref) /\ Range(Append(readyQ[d], r)) = Range(readyQ[d]) \cup {r}
      /\ Len(Append(readyQ[d], r)) = Len(readyQ[d]) + 1
      /\ IsInjective(readyQ[d]) /\ r \notin Range(readyQ[d]) => IsInjective(Append(readyQ[d], r))
  BY <1>q, <1>r, Appended
<1>u. /\ readyQ'[d] = Append(readyQ[d], r) /\ retrigger'[d] = waiting[d] /\ waiting'[d] = <<>>
      /\ \A e \in Data \ {d} : readyQ'[e] = readyQ[e] /\ waiting'[e] = waiting[e]
      /\ \A e \in UserData \ {d} : retrigger'[e] = retrigger[e]
  BY <1>1, <1>q
<1>3. JobsTyped' /\ QueuesTyped' /\ ListsInv'
  <2>1. /\ readyQ' \in [Data -> Seq(Ref)] /\ retrigger' \in [UserData -> Seq(Inst)]
        /\ waiting' \in [Data -> Seq(Inst)] /\ enq' \subseteq Ref
    BY <1>1, <1>q, <1>r, <1>a
  <2>2. JobsTyped' /\ QueuesTyped'
    BY <1>1, <2>1 DEF Detail, Typed, JobsTyped, QueuesTyped
  <2> QED
    BY <1>1, <1>q, <1>u, <2>2, Empty DEF Detail, ListsInv
<1>p. /\ <<"waiting", d>> \in Place /\ <<"call", d>> \in Place /\ <<"waiting", d>> # <<"call", d>>
      /\ Tokens(<<"waiting", d>>) = Range(waiting[d]) /\ Tokens(<<"call", d>>) = Range(retrigger[d])
      /\ Tokens(<<"waiting", d>>)' = {} /\ Tokens(<<"call", d>>)' = Range(waiting[d])
      /\ Range(retrigger[d]) = {}
  BY <1>1, <1>q, <1>u, Places, TokensOf, TokensPrimed, Empty
<1>5. SameOtherPlaces({<<"waiting", d>>, <<"call", d>>})
  BY <1>1, <1>u, OtherPlaces
<1>6. OnePlace' /\ DueInv'
  <2>1. /\ Tokens(<<"waiting", d>>)' = Tokens(<<"waiting", d>>) \ Tokens(<<"waiting", d>>)
        /\ Tokens(<<"call", d>>)' = Tokens(<<"call", d>>) \cup Tokens(<<"waiting", d>>)
    BY <1>p
  <2>2. \A S : Tokens(<<"waiting", d>>) = S => S \subseteq Tokens(<<"waiting", d>>)
    OBVIOUS
  <2> QED
    BY <1>2, <1>5, <1>p, <2>1, <2>2, TokensMove DEF Detail
<1>7. RefInv'
  <2>1. \A e : HeldRefs(e)' = HeldRefs(e) /\ DoneRefs(e)' = DoneRefs(e)
    BY <1>1 DEF HeldRefs, DoneRefs
  <2>2. RefOf(d)'
    <3>1. RefOf(d) /\ GivenRefs(d) = enq \cap Range(Refs[d])
      BY <1>q DEF Detail, RefInv, GivenRefs
    <3>2. GivenRefs(d)' = GivenRefs(d) \cup {r} /\ r \notin GivenRefs(d)
      BY <1>1, <3>1 DEF GivenRefs
    <3>3. r \notin Range(readyQ[d]) /\ r \notin HeldRefs(d) /\ r \notin DoneRefs(d)
      BY <3>1, <3>2 DEF RefOf
    <3>4. /\ Range(readyQ'[d]) = Range(readyQ[d]) \cup {r} /\ IsInjective(readyQ'[d])
      BY <1>a, <1>u, <3>1, <3>3 DEF RefOf
    <3> QED
      BY <1>1, <2>1, <3>1, <3>2, <3>3, <3>4 DEF RefOf
  <2>3. ASSUME NEW e \in Data, e # d PROVE RefOf(e)'
    <3>1. RefOf(e)
      BY DEF Detail, RefInv
    <3>2. Range(Refs[d]) \cap Range(Refs[e]) = {}
      BY <1>q, <2>3 DEF GraphParameters
    <3>3. GivenRefs(e)' = GivenRefs(e)
      BY <1>1, <3>2 DEF GivenRefs
    <3> QED
      BY <1>1, <1>u, <2>1, <2>3, <3>1, <3>3 DEF RefOf
  <2> QED
    BY <2>2, <2>3 DEF RefInv
<1>8. WaitsForNothingReady'
  BY <1>u DEF Detail, WaitsForNothingReady
<1>9. Unverified'
  BY DEF Unverified
<1> QED
  BY <1>2, <1>3, <1>6, <1>7, <1>8, <1>9, <1>a, <1>u DEF Detail, Typed

\* A reference for an output is enqueued.
LEMMA EnqueueOutputStep ==
  ASSUME Detail, GraphParameters, NEW d \in UserData, EnqueueOutput(d)
  PROVE  Detail' /\ Implements
<1> USE DEF controlVars, descVars
<1>1. PICK r : EnqueueReady(d, r)
  BY DEF EnqueueOutput
<1>2. UNCHANGED controlVars /\ d # Param0 /\ verified > 0 /\ UNCHANGED <<freeQ, verified>>
  BY DEF EnqueueOutput
<1>3. /\ Detail' /\ Unfed' = Unfed /\ LeafTodo' = LeafTodo
      /\ \A e \in Data \ {d} : readyQ'[e] = readyQ[e]
  BY <1>1, <1>2, Enqueued
<1>4. Param0 \in Data
  BY GraphAssumption DEF GraphParameters
<1> QED
  BY <1>2, <1>3, <1>4, RunsStutter

\* A reference for the input is enqueued, and the call goes on to schedule.
LEMMA EnqueueInputStep ==
  ASSUME Detail, GraphParameters, NEW a \in App, EnqueueInput(a)
  PROVE  Detail' /\ Implements
<1> USE DEF controlVars, descVars, hostVars, callVars, countVars, abandonVars, waitVars,
            GSP!controlVars, GSP!descVars, GSP!hostVars, GSP!callVars, GSP!countVars,
            GSP!abandonVars, GSP!waitVars
<1>1. PICK r : EnqueueReady(Param0, r)
  BY DEF EnqueueInput
<1>2. UNCHANGED <<freeQ, verified>> /\ verified > 0
  BY DEF EnqueueInput, EnqueueControl
<1>3. Param0 \in UserData
  BY GraphAssumption
<1>4. /\ Detail' /\ Unfed' = Unfed /\ LeafTodo' = LeafTodo
      /\ Len(readyQ[Param0])' = Len(readyQ[Param0]) + 1
  BY <1>1, <1>2, <1>3, Enqueued
<1>5. GSP!EnqueueControl(a)
  BY DEF EnqueueInput, EnqueueControl, GSP!EnqueueControl, Queueing, GSP!Queueing
<1>6. GSP!EnqueueRef(a)
  BY <1>4, <1>5 DEF GSP!EnqueueRef
<1> QED
  BY <1>4, <1>6 DEF Implements, GSP!Next

-----------------------------------------------------------------------------
(* The start, and vxVerifyGraph                                             *)

\* Nothing runs before vxVerifyGraph.
LEMMA NothingRuns == verified = 0 => InRun = {} /\ LeafTodo = [p \in Pipe |-> {}] /\ Unfed = {}
BY DEF InRun, LeafTodo, Unfed

\* A graph that was not verified has nothing anywhere.
LEMMA InitDetail == GraphParameters /\ Init => Detail /\ GSP!Init
<1> SUFFICES ASSUME GraphParameters, Init PROVE Detail /\ GSP!Init
  OBVIOUS
<1> USE DEF Init
<1>1. verified = 0 /\ InRun = {}
  BY NothingRuns DEF InitControl
<1>e. \A S : <<>> \in Seq(S)
  OBVIOUS
<1>2. Typed
  <2>1. JobsTyped
    BY <1>e, GraphAssumption DEF JobsTyped
  <2>2. TasksTyped
    BY <1>e DEF TasksTyped, TaskRecord, Idle
  <2>3. NodesTyped /\ QueuesTyped
    BY <1>e DEF NodesTyped, QueuesTyped
  <2> QED
    BY <2>1, <2>2, <2>3 DEF Typed
<1>i. \A t \in Target : task[t] = Idle /\ jobQ[t] = <<>> /\ jobQ[Host] = <<>>
  OBVIOUS
<1>f. Idle.at = "idle" /\ Idle.wake = <<>> /\ Idle.after = NoActor /\ Idle.prm = <<>>
  BY DEF Idle
<1>3. TaskShape
  BY <1>i, <1>f DEF TaskShape, Shape
<1>4. ListsInv
  BY <1>i, <1>f, Empty, <1>e DEF ListsInv
<1>5. \A x \in Place : Tokens(x) = {}
  <2> TAKE x \in Place
  <2>1. ASSUME NEW t \in Target,
               \/ x = <<"job", t>> \/ x = <<"wake", t>> \/ x = <<"after", t>> \/ x = <<"acquire", t>>
        PROVE  Tokens(x) = {}
    BY <1>i, <1>f, <2>1, TokensOf, Empty
  <2>2. ASSUME NEW d \in Data, x = <<"waiting", d>> PROVE Tokens(x) = {}
    BY <2>2, TokensOf, Empty
  <2>3. ASSUME NEW d \in UserData, x = <<"call", d>> PROVE Tokens(x) = {}
    BY <2>3, TokensOf, Empty
  <2>4. ASSUME NEW i \in Inst, x = <<"behind", i>> PROVE Tokens(x) = {}
    BY <2>4, TokensOf
  <2> QED
    BY <2>1, <2>2, <2>3, <2>4, Places
<1>6. OnePlace /\ DueInv /\ BlockedInv
  BY <1>1, <1>5 DEF OnePlace, DueInv, Somewhere, Due, BlockedInv
<1>7. ExecInv /\ HeldInv
  <2>1. \A d \in Data : Cardinality(Consumers(d)) >= 0
    <3> TAKE d \in Data
    <3>1. IsFiniteSet(Consumers(d))
      BY FS_Subset DEF Consumers, GraphParameters
    <3>2. Cardinality(Consumers(d)) \in Nat
      BY <3>1, FS_CardinalityType
    <3> QED
      BY <3>2
  <2>2. \A d \in Data, p \in Pipe : Untouched(d, p) /\ held[<<d, p>>] = NoRef /\ doneCnt[<<d, p>>] = 0
    BY DEF Untouched
  <2> QED
    BY <2>1, <2>2 DEF ExecInv, HeldInv, HeldOf
<1>8. PrmInv
  <2>1. \A t \in Target : DOMAIN task[t].prm = {}
    BY <1>i, <1>f
  <2> QED
    BY <2>1 DEF PrmInv, PrmOf
<1>9. RefInv
  <2>1. ASSUME NEW d \in Data PROVE RefOf(d)
    <3>2. readyQ[d] = <<>> /\ enq = {} /\ (d \in UserData => doneQ[d] = <<>>)
      OBVIOUS
    <3>3. \A p \in Pipe : held[<<d, p>>] = NoRef
      OBVIOUS
    <3>4. HeldRefs(d) = {}
      BY <3>3 DEF HeldRefs
    <3>5. DoneRefs(d) = {} /\ GivenRefs(d) = {}
      BY <1>1, <3>2, Empty DEF DoneRefs, GivenRefs
    <3>1. readyQ[d] = <<>> /\ HeldRefs(d) = {} /\ DoneRefs(d) = {} /\ GivenRefs(d) = {}
      BY <3>2, <3>4, <3>5
    <3> HIDE DEF Init
    <3> QED
      BY <3>1, <3>2, <3>3, Empty DEF RefOf
  <2> QED
    BY <2>1 DEF RefInv
<1>10. HostInv /\ Unverified /\ WaitsForNothingReady
  <2>1. jobQ[Host] = <<>>
    OBVIOUS
  <2>2. HostInv
    BY <2>1 DEF HostInv
  <2> QED
    BY <2>2 DEF Unverified, WaitsForNothingReady
<1>11. GSP!Init
  <2>1. GSP!InitControl
    BY DEF InitControl, GSP!InitControl, Pipe, GSP!Pipe
  <2>2. Len(readyQ[Param0]) = 0
    BY GraphAssumption DEF GraphParameters
  <2> QED
    BY <1>1, <2>1, <2>2, NothingRuns DEF GSP!Init, Pipe, GSP!Pipe
<1> HIDE DEF Init
<1> QED
  BY <1>2, <1>3, <1>4, <1>6, <1>7, <1>8, <1>9, <1>10, <1>11 DEF Detail

\* vxVerifyGraph fills the queues of the data between nodes.
LEMMA VerifyGraphStep ==
  ASSUME Inv, GraphParameters, VerifyGraph
  PROVE  Detail' /\ Implements
<1> USE DEF nodeVars, userVars
<1>1. /\ UNCHANGED <<jobQ, task, nodeVars, held, doneCnt, doneQ, waiting, retrigger, enq>>
      /\ VerifyControl
      /\ readyQ' = [d \in Data |-> IF d \in UserData THEN <<>> ELSE Refs[d]]
  BY DEF VerifyGraph
<1>2. verified = 0 /\ verified' = 1 /\ freeQ = <<>> /\ freeQ' = PutAll(freeQ)
  BY <1>1, GraphAssumption DEF VerifyControl, Inv, GSP!IInv, GSP!TypeOK, GSP!FreshInv
<1>3. InRun = {} /\ InRun' = {}
  <2> DEFINE ids == [i \in 1 .. Depth |-> i - 1]
  <2>1. ids \in Seq(Pipe) /\ Len(ids) = Depth /\ <<>> \o ids = ids
    BY DepthAssumption DEF Pipe
  <2>2. SubSeq(ids, 1, Depth) = ids
    BY <2>1, DepthAssumption
  <2>3. freeQ' = ids
    BY <1>2, <2>1, <2>2, DepthAssumption DEF PutAll
  <2>4. \A p \in Pipe : p + 1 \in 1 .. Depth /\ ids[p + 1] = p
    BY DepthAssumption DEF Pipe
  <2>5. DOMAIN ids = 1 .. Depth
    OBVIOUS
  <2> HIDE DEF ids
  <2>6. Pipe \subseteq Range(ids)
    BY <2>4, <2>5 DEF Range
  <2> QED
    BY <1>2, <2>3, <2>6 DEF InRun
<1>4. /\ TasksTyped' /\ NodesTyped' /\ TaskShape' /\ BlockedInv' /\ ExecInv' /\ HeldInv'
      /\ PrmInv' /\ SameDue /\ HostInv' /\ Unfed' = Unfed /\ LeafTodo' = LeafTodo
  BY <1>1, <1>3, NodesLeft DEF SameRun, Inv
<1>q. readyQ \in [Data -> Seq(Ref)] /\ \A d \in Data : Refs[d] \in Seq(Ref)
  BY DEF Inv, Detail, Typed, QueuesTyped, GraphParameters
<1>5. JobsTyped' /\ QueuesTyped' /\ ListsInv'
  <2>1. readyQ' \in [Data -> Seq(Ref)]
    BY <1>1, <1>q, Empty
  <2> QED
    BY <1>1, <2>1 DEF Inv, Detail, Typed, JobsTyped, QueuesTyped, ListsInv
<1>6. SameOtherPlaces({})
  BY <1>1 DEF SameOtherPlaces, Tokens
<1>7. OnePlace' /\ DueInv'
  BY <1>4, <1>6, TokensSame DEF Inv, Detail
<1>8. RefInv'
  <2>1. \A d : HeldRefs(d)' = HeldRefs(d) /\ DoneRefs(d)' = DoneRefs(d)
    BY <1>1 DEF HeldRefs, DoneRefs
  <2>2. ASSUME NEW d \in Data PROVE RefOf(d)'
    <3>1. RefOf(d) /\ readyQ[d] = <<>>
      BY <1>2 DEF Inv, Detail, RefInv, Unverified
    <3>2. CASE d \in UserData
      <4>1. readyQ'[d] = readyQ[d] /\ GivenRefs(d)' = GivenRefs(d)
        BY <1>1, <3>1, <3>2 DEF GivenRefs
      <4> QED
        BY <1>1, <2>1, <3>1, <4>1 DEF RefOf
    <3>3. CASE d \notin UserData
      <4>1. readyQ'[d] = Refs[d] /\ GivenRefs(d)' = Range(Refs[d]) /\ DoneRefs(d) = {}
        BY <1>1, <1>2, <3>3 DEF GivenRefs, DoneRefs
      <4>2. \A p \in Pipe : held[<<d, p>>] = NoRef
        BY <1>3 DEF Inv, Detail, HeldInv, HeldOf
      <4>3. HeldRefs(d) = {}
        BY <4>2 DEF HeldRefs
      <4>4. IsInjective(Refs[d])
        BY DEF GraphParameters
      <4> QED
        BY <1>1, <2>1, <3>3, <4>1, <4>2, <4>3, <4>4 DEF RefOf
    <3> QED
      BY <3>2, <3>3
  <2> QED
    BY <2>2 DEF RefInv
<1>9. Unverified' /\ WaitsForNothingReady'
  BY <1>1, <1>2 DEF Inv, Detail, Unverified, WaitsForNothingReady
<1>10. Implements
  <2>1. Param0 \in Data /\ Param0 \in UserData
    BY GraphAssumption DEF GraphParameters
  <2>2. readyQ[Param0] = <<>> /\ readyQ'[Param0] = <<>>
    BY <1>1, <1>2, <2>1 DEF Inv, Detail, Unverified
  <2>3. GSP!VerifyControl
    BY <1>1 DEF VerifyControl, GSP!VerifyControl, PutAll, GSP!PutAll, Pipe, GSP!Pipe,
                hostVars, callVars, countVars, abandonVars, waitVars, GSP!hostVars,
                GSP!callVars, GSP!countVars, GSP!abandonVars, GSP!waitVars
  <2>4. GSP!VerifyGraph
    BY <1>4, <2>2, <2>3 DEF GSP!VerifyGraph, GSP!runVars
  <2> QED
    BY <2>4 DEF Implements, GSP!Next
<1> QED
  BY <1>4, <1>5, <1>7, <1>8, <1>9, <1>10 DEF Detail, Typed

-----------------------------------------------------------------------------
(* A target acquires                                                        *)

\* Until the node is executed nothing changes for the other nodes and the host.
LEMMA EarlyStep ==
  ASSUME Detail, GraphParameters, NEW t \in Target, Others(t),
         Early(t) \/ SameWork(t), UNCHANGED <<executed, verified, freeQ>>,
         jobQ'[Host] = jobQ[Host], Shape(t)', task[t].at # "idle" \/ jobQ[t] # <<>>
  PROVE  /\ SameReleasing /\ SamePending /\ SameStill /\ SameDue /\ SameRun /\ SameNodes
         /\ TaskShape' /\ ExecInv' /\ HostInv' /\ LeafTodo' = LeafTodo
         /\ verified # 0 /\ Unverified'
<1>1. SameRun /\ SameNodes
  BY RunSame DEF SameNodes
<1>2. SameReleasing /\ SamePending
  BY WorkSame
<1>3. SameStill
  <2>1. Early(t) => ~Late(t)
    BY DEF Early, Late
  <2> QED
    BY <2>1, WorkSame
<1>4. SameDue /\ ExecInv'
  BY <1>1, <1>2, DueSame DEF Detail, Typed, NodesTyped
<1>5. TaskShape'
  BY <1>1, ShapeSame DEF Detail
<1>6. HostInv' /\ LeafTodo' = LeafTodo
  BY <1>1, <1>2, HostSame, LeavesSame DEF Detail
<1>7. verified # 0 /\ Unverified'
  BY Busy
<1> QED
  BY <1>1, <1>2, <1>3, <1>4, <1>5, <1>6, <1>7

\* The data of a node that is still to be executed is not released by all.
LEMMA NotFull ==
  ASSUME Detail, GraphParameters, NEW n \in Node, NEW p \in Pipe, NEW d \in Range(Params[n]),
         <<n, p>> \notin executed
  PROVE  /\ d \in Data /\ ~Full(d, p)
         /\ held[<<d, p>>] = NoRef => Untouched(d, p) /\ Readers(d, p) = {}
<1>1. d \in Data
  BY ListOf DEF GraphParameters
<1>2. ~Full(d, p)
  <2>1. CASE Producer[d] # n
    <3>1. n \in Consumers(d)
      BY <2>1 DEF Consumers
    <3>2. n \notin Readers(d, p)
      BY DEF Readers, ReleasedBy
    <3> QED
      BY <3>1, <3>2 DEF Full
  <2>2. CASE Producer[d] = n /\ Consumers(d) = {}
    BY <2>2 DEF Full, ReleasedBy
  <2>3. CASE Producer[d] = n /\ Consumers(d) # {}
    <3>1. PICK c \in Consumers(d) : TRUE
      BY <2>3
    <3>2. n # NoActor
      BY DEF GraphParameters
    <3>3. c \in Node /\ n \in InNodes(c)
      BY <1>1, <2>3, <3>1, <3>2 DEF GraphParameters, InNodes, Consumers
    <3>4. <<c, p>> \notin executed
      <4>1. <<c, p>> \in executed => Enabled(<<c, p>>)
        BY DEF Detail, ExecInv
      <4> QED
        BY <3>3, <4>1 DEF Enabled
    <3> QED
      BY <2>3, <3>1, <3>4 DEF Full, Readers, ReleasedBy
  <2> QED
    BY <2>1, <2>2, <2>3
<1>3. ASSUME held[<<d, p>>] = NoRef PROVE Untouched(d, p) /\ Readers(d, p) = {}
  <2>1. Untouched(d, p)
    BY <1>1, <1>2, <1>3 DEF Detail, HeldInv, HeldOf
  <2> QED
    BY <2>1 DEF Untouched, Readers, ReleasedBy, Consumers
<1> QED
  BY <1>1, <1>2, <1>3

\* The node that the task acquires for.
LEMMA AcquiresFor ==
  ASSUME Detail, GraphParameters, NEW t \in Target, task[t].at = "acquire"
  PROVE  \E n \in Node, p \in Pipe :
            /\ task[t].inst = <<n, p>> /\ TargetOf[n] = t /\ task[t].k \in Nat \ {0}
            /\ Params[n] \in Seq(Data) /\ IsInjective(Params[n])
            /\ task[t].prm \in Seq(Ref) /\ Len(task[t].prm) = task[t].k - 1
            /\ task[t].k <= Len(Params[n]) + 1
            /\ task[t].wake = <<>> /\ task[t].after = NoActor
            /\ Due(<<n, p>>) /\ <<n, p>> \notin executed /\ p \in InRun
            /\ <<n, p>> \in Tokens(<<"acquire", t>>)
<1>1. PICK n \in Node, p \in Pipe :
         /\ task[t].inst = <<n, p>> /\ TargetOf[n] = t /\ task[t].k \in Nat \ {0}
         /\ Params[n] \in Seq(Data) /\ task[t].prm \in Seq(Ref)
  BY ShapeOf DEF Detail
<1>2. /\ Len(task[t].prm) = task[t].k - 1 /\ task[t].wake = <<>> /\ task[t].after = NoActor
      /\ task[t].k <= Len(Params[n]) + 1
  BY <1>1 DEF Detail, TaskShape, Shape
<1>3. <<n, p>> \in Tokens(<<"acquire", t>>)
  BY <1>1, TokensOf
<1>4. Due(<<n, p>>)
  <2>1. <<"acquire", t>> \in Place /\ <<n, p>> \in Inst
    BY Places DEF Inst
  <2> QED
    BY <1>3, <2>1 DEF Detail, DueInv, Somewhere
<1> QED
  BY <1>1, <1>2, <1>3, <1>4 DEF Due, GraphParameters

\* One more parameter was acquired.
LEMMA PrmGrows ==
  ASSUME NEW s \in Seq(Ref), NEW r \in Ref, NEW k \in Nat \ {0}, Len(s) = k - 1
  PROVE  /\ Len(Append(s, r)) = k /\ Append(s, r)[k] = r /\ DOMAIN Append(s, r) = 1 .. k
         /\ \A j \in 1 .. k - 1 : Append(s, r)[j] = s[j]
         /\ DOMAIN s = 1 .. k - 1
OBVIOUS

\* ownTargetNodeDescAcquireParameter, the reference is held already.
LEMMA AcquireHeldStep ==
  ASSUME Detail, GraphParameters, NEW t \in Target, AcquireHeld(t)
  PROVE  Detail' /\ Implements
<1> USE DEF queueVars, nodeVars, userVars, controlVars, descVars
<1>1. /\ UNCHANGED <<controlVars, jobQ, nodeVars, queueVars, userVars>>
      /\ task[t].at = "acquire"
  BY DEF AcquireHeld, AtParam
<1>2. PICK n \in Node, p \in Pipe :
         /\ task[t].inst = <<n, p>> /\ TargetOf[n] = t /\ task[t].k \in Nat \ {0}
         /\ Params[n] \in Seq(Data) /\ task[t].prm \in Seq(Ref)
         /\ Len(task[t].prm) = task[t].k - 1
         /\ task[t].wake = <<>> /\ task[t].after = NoActor
  BY <1>1, AcquiresFor
<1>3. PICK k \in Nat \ {0} : k = task[t].k
  BY <1>2
<1>4. k \in DOMAIN Params[n] /\ k \in 1 .. Len(Params[n])
  BY <1>2, <1>3 DEF AcquireHeld, AtParam, InstOf
<1>5. PICK d \in Data : d = Params[n][k]
  BY <1>2, <1>4
<1>6. held[<<d, p>>] # NoRef /\ HasParam(t, held[<<d, p>>])
  BY <1>2, <1>3, <1>5 DEF AcquireHeld, Param, InstOf
<1>7. PICK r \in Ref : r = held[<<d, p>>]
  BY <1>6 DEF Detail, Typed, QueuesTyped
<1>8. TaskIs(t, "acquire", <<n, p>>, k + 1, Append(task[t].prm, r), <<>>, NoActor)
  BY <1>1, <1>2, <1>3, <1>6, <1>7, TaskSteps DEF Detail, Typed
<1>a. /\ Len(Append(task[t].prm, r)) = k /\ Append(task[t].prm, r)[k] = r
      /\ DOMAIN Append(task[t].prm, r) = 1 .. k
      /\ \A j \in 1 .. k - 1 : Append(task[t].prm, r)[j] = task[t].prm[j]
      /\ DOMAIN task[t].prm = 1 .. k - 1
  BY <1>2, <1>3
<1>9. Others(t) /\ Early(t)
  BY <1>1, <1>8 DEF TaskIs, Others, Early
<1>10. Shape(t)'
  <2>1. k + 1 <= Len(Params[n]) + 1 /\ k = (k + 1) - 1 /\ k + 1 >= 1
    BY <1>2, <1>4
  <2>2. <<n, p>> \in Inst
    BY DEF Inst
  <2> QED
    BY <1>2, <1>8, <1>a, <2>1, <2>2 DEF Shape, TaskIs
<1>11. /\ SameReleasing /\ SamePending /\ SameStill /\ SameDue /\ SameRun /\ SameNodes
       /\ TaskShape' /\ ExecInv' /\ HostInv' /\ LeafTodo' = LeafTodo /\ Unverified'
  BY <1>1, <1>9, <1>10, EarlyStep
<1>12. PrmInv'
  <2>1. PrmOf(t)
    BY DEF Detail, PrmInv
  <2>2. ASSUME NEW j \in 1 .. k
        PROVE  /\ task'[t].prm[j] = held[<<Params[n][j], p>>]
               /\ task'[t].prm[j] # NoRef
    <3>1. CASE j = k
      BY <1>5, <1>6, <1>7, <1>8, <1>a, <3>1 DEF TaskIs
    <3>2. CASE j # k
      <4>1. j \in 1 .. k - 1
        BY <3>2
      <4>2. j \in DOMAIN task[t].prm /\ Has(t, j)
        BY <1>1, <1>a, <4>1 DEF Has
      <4>3. task[t].prm[j] = held[<<Params[n][j], p>>] /\ task[t].prm[j] # NoRef
        BY <1>2, <2>1, <4>2 DEF PrmOf
      <4> QED
        BY <1>8, <1>a, <4>1, <4>3 DEF TaskIs
    <3> QED
      BY <3>1, <3>2
  <2>3. PrmOf(t)'
    BY <1>1, <1>8, <1>a, <2>2 DEF TaskIs, PrmOf
  <2> QED
    BY <1>1, <1>9, <2>3, PrmSame DEF Detail
<1>13. Typed' /\ ListsInv'
  <2>1. Typed'
    BY <1>1, <1>8 DEF TaskIs, Detail, Typed, JobsTyped, NodesTyped, QueuesTyped
  <2> QED
    BY <1>1, <1>8, <1>9, <2>1, ListsSame, Empty DEF Detail, TaskIs
<1>14. SameOtherPlaces({})
  BY <1>1, <1>2, <1>8, OtherPlaces DEF TaskIs
<1>15. OnePlace' /\ DueInv'
  BY <1>11, <1>14, TokensSame DEF Detail
<1>16. BlockedInv'
  <2>1. \A u \in Target : Tokens(<<"acquire", u>>)' = Tokens(<<"acquire", u>>)
    BY <1>14, Places DEF SameOtherPlaces
  <2>2. \A i \in Inst : TargetOf[i[1]] \in Target
    BY DEF Inst, GraphParameters
  <2> QED
    BY <1>1, <1>11, <2>1, <2>2, BlockedSame DEF Detail, Typed, NodesTyped
<1>17. HeldInv' /\ RefInv' /\ WaitsForNothingReady'
  BY <1>1, <1>11, HeldSame, RefsSame DEF Detail, WaitsForNothingReady
<1>18. Implements
  BY <1>1, <1>11, UnfedSame, RunsStutter
<1> QED
  BY <1>11, <1>12, <1>13, <1>15, <1>16, <1>17, <1>18 DEF Detail

\* Descriptors, references and tasks that the step does not concern.
LEMMA HeldElsewhere ==
  ASSUME HeldInv, GraphParameters, SameRun, SameNodes, NEW d \in Data, NEW p \in Pipe,
         \A x \in (Data \X Pipe) \ {<<d, p>>} : held'[x] = held[x] /\ doneCnt'[x] = doneCnt[x],
         \A n \in Node, e \in Data, q \in Pipe :
            <<e, q>> # <<d, p>> => (StillHas(n, e, q)' <=> StillHas(n, e, q)),
         HeldOf(d, p)'
  PROVE  HeldInv'
<1>1. ASSUME NEW e \in Data, NEW q \in Pipe, <<e, q>> # <<d, p>> PROVE HeldOf(e, q)'
  <2>1. \A n \in Node : ReleasedBy(n, e, q)' <=> ReleasedBy(n, e, q)
    BY <1>1 DEF ReleasedBy, SameNodes
  <2>2. Readers(e, q)' = Readers(e, q)
    BY <2>1 DEF Readers, Consumers
  <2>3. Full(e, q)' <=> Full(e, q)
    <3>1. Consumers(e) = {} => Producer[e] \in Node
      BY GraphAssumption DEF GraphParameters
    <3> QED
      BY <2>1, <2>2, <3>1 DEF Full
  <2>4. Untouched(e, q)' <=> Untouched(e, q)
    BY DEF Untouched, SameNodes
  <2>5. held'[<<e, q>>] = held[<<e, q>>] /\ doneCnt'[<<e, q>>] = doneCnt[<<e, q>>]
    BY <1>1
  <2>6. HeldOf(e, q)
    BY DEF HeldInv
  <2> QED
    BY <2>2, <2>3, <2>4, <2>5, <2>6 DEF HeldOf, SameRun
<1> QED
  BY <1>1 DEF HeldInv

\* The references of data the step does not touch.
LEMMA RefOfSame ==
  ASSUME NEW e \in Data, RefOf(e), \A q \in Pipe : held'[<<e, q>>] = held[<<e, q>>],
         readyQ'[e] = readyQ[e], e \in UserData => doneQ'[e] = doneQ[e],
         UNCHANGED <<enq, verified>>
  PROVE  RefOf(e)'
<1>1. HeldRefs(e)' = HeldRefs(e)
  BY DEF HeldRefs
<1>2. DoneRefs(e)' = DoneRefs(e) /\ GivenRefs(e)' = GivenRefs(e)
  BY DEF DoneRefs, GivenRefs
<1> QED
  BY <1>1, <1>2 DEF RefOf

\* What tasks acquired of data the step does not touch.
LEMMA PrmElsewhere ==
  ASSUME Detail, GraphParameters, NEW t \in Target, Others(t), PrmOf(t)',
         NEW d \in Data, NEW p \in Pipe,
         \A x \in (Data \X Pipe) \ {<<d, p>>} : held'[x] = held[x],
         \A u \in Target \ {t} : \A j \in DOMAIN task[u].prm : Has(u, j) =>
            <<Params[task[u].inst[1]][j], task[u].inst[2]>> # <<d, p>>
  PROVE  PrmInv'
<1>1. ASSUME NEW u \in Target, u # t PROVE PrmOf(u)'
  <2>1. task'[u] = task[u] /\ PrmOf(u)
    BY <1>1 DEF Others, Detail, PrmInv
  <2>2. ASSUME NEW j \in DOMAIN task[u].prm, Has(u, j)
        PROVE  /\ task[u].prm[j] = held'[<<Params[task[u].inst[1]][j], task[u].inst[2]>>]
               /\ task[u].prm[j] # NoRef
    <3>1. task[u].at \in {"acquire", "release", "consumed"}
      BY <2>2 DEF Has
    <3>2. PICK m \in Node, q \in Pipe :
             /\ task[u].inst = <<m, q>> /\ task[u].k \in Nat \ {0}
             /\ Params[m] \in Seq(Data) /\ task[u].prm \in Seq(Ref)
      BY <3>1, ShapeOf DEF Detail
    <3>3. Len(task[u].prm) <= Len(Params[m])
      BY <3>1, <3>2 DEF Detail, TaskShape, Shape
    <3>4. Params[m][j] \in Data
      BY <3>2, <3>3
    <3>5. <<Params[m][j], q>> # <<d, p>>
      BY <1>1, <2>2, <3>2
    <3>6. held'[<<Params[m][j], q>>] = held[<<Params[m][j], q>>]
      BY <3>4, <3>5
    <3> QED
      BY <2>1, <2>2, <3>2, <3>6 DEF PrmOf
  <2> QED
    BY <2>1, <2>2 DEF PrmOf, Has
<1> QED
  BY <1>1 DEF PrmInv

\* ownTargetNodeDescAcquireParameter, a reference is in the queue.
LEMMA AcquireRefStep ==
  ASSUME Detail, GraphParameters, NEW t \in Target, AcquireRef(t)
  PROVE  Detail' /\ Implements
<1> USE DEF nodeVars, userVars, controlVars, descVars
<1>1. /\ UNCHANGED <<controlVars, jobQ, nodeVars, doneQ, waiting, userVars>>
      /\ task[t].at = "acquire"
  BY DEF AcquireRef, AtParam
<1>2. PICK n \in Node, p \in Pipe :
         /\ task[t].inst = <<n, p>> /\ TargetOf[n] = t /\ task[t].k \in Nat \ {0}
         /\ Params[n] \in Seq(Data) /\ IsInjective(Params[n]) /\ task[t].prm \in Seq(Ref)
         /\ Len(task[t].prm) = task[t].k - 1
         /\ task[t].wake = <<>> /\ task[t].after = NoActor
         /\ <<n, p>> \notin executed /\ p \in InRun
  BY <1>1, AcquiresFor
<1>3. PICK k \in Nat \ {0} : k = task[t].k
  BY <1>2
<1>4. k \in DOMAIN Params[n] /\ k \in 1 .. Len(Params[n])
  BY <1>2, <1>3 DEF AcquireRef, AtParam, InstOf
<1>5. PICK d \in Data : d = Params[n][k]
  BY <1>2, <1>4
<1>6. /\ held[<<d, p>>] = NoRef /\ readyQ[d] # <<>> /\ HasParam(t, Head(readyQ[d]))
      /\ held' = [held EXCEPT ![<<d, p>>] = Head(readyQ[d])]
      /\ doneCnt' = [doneCnt EXCEPT ![<<d, p>>] = 0]
      /\ readyQ' = [readyQ EXCEPT ![d] = Tail(@)]
  BY <1>2, <1>3, <1>5 DEF AcquireRef, Param, InstOf, AcquireDoneCnt
<1>q. /\ readyQ \in [Data -> Seq(Ref)] /\ readyQ[d] \in Seq(Ref)
      /\ held \in [Data \X Pipe -> Ref \cup {NoRef}] /\ doneCnt \in [Data \X Pipe -> Nat]
      /\ <<d, p>> \in Data \X Pipe
  BY DEF Detail, Typed, QueuesTyped
<1>t. /\ Tail(readyQ[d]) \in Seq(Ref) /\ Head(readyQ[d]) \in Ref
      /\ Range(readyQ[d]) = Range(Tail(readyQ[d])) \cup {Head(readyQ[d])}
      /\ Len(Tail(readyQ[d])) = Len(readyQ[d]) - 1
      /\ IsInjective(readyQ[d]) =>
            IsInjective(Tail(readyQ[d])) /\ Head(readyQ[d]) \notin Range(Tail(readyQ[d]))
  BY <1>6, <1>q, Taken
<1>7. PICK r \in Ref : r = Head(readyQ[d])
  BY <1>t
<1>u. /\ held'[<<d, p>>] = r /\ doneCnt'[<<d, p>>] = 0 /\ readyQ'[d] = Tail(readyQ[d])
      /\ \A x \in (Data \X Pipe) \ {<<d, p>>} : held'[x] = held[x] /\ doneCnt'[x] = doneCnt[x]
      /\ \A e \in Data \ {d} : readyQ'[e] = readyQ[e]
      /\ r # NoRef
  BY <1>6, <1>7, <1>q DEF GraphParameters
<1>8. TaskIs(t, "acquire", <<n, p>>, k + 1, Append(task[t].prm, r), <<>>, NoActor)
  BY <1>1, <1>2, <1>3, <1>6, <1>7, TaskSteps DEF Detail, Typed
<1>a. /\ Len(Append(task[t].prm, r)) = k /\ Append(task[t].prm, r)[k] = r
      /\ DOMAIN Append(task[t].prm, r) = 1 .. k
      /\ \A j \in 1 .. k - 1 : Append(task[t].prm, r)[j] = task[t].prm[j]
      /\ DOMAIN task[t].prm = 1 .. k - 1
  <2>1. task[t].prm \in Seq(Ref) /\ Len(task[t].prm) = k - 1
    BY <1>2, <1>3
  <2>2. \A s \in Seq(Ref) : Len(s) = k - 1 =>
          /\ Len(Append(s, r)) = k /\ Append(s, r)[k] = r /\ DOMAIN Append(s, r) = 1 .. k
          /\ \A j \in 1 .. k - 1 : Append(s, r)[j] = s[j]
          /\ DOMAIN s = 1 .. k - 1
    BY PrmGrows
  <2> QED
    BY ONLY <2>1, <2>2
<1>9. Others(t) /\ Early(t)
  BY <1>1, <1>8 DEF TaskIs, Others, Early
<1>10. Shape(t)'
  <2>1. k + 1 <= Len(Params[n]) + 1 /\ k = (k + 1) - 1 /\ k + 1 >= 1
    BY <1>2, <1>4
  <2>2. <<n, p>> \in Inst
    BY DEF Inst
  <2> QED
    BY <1>2, <1>8, <1>a, <2>1, <2>2 DEF Shape, TaskIs
<1>11. /\ SameReleasing /\ SamePending /\ SameStill /\ SameDue /\ SameRun /\ SameNodes
       /\ TaskShape' /\ ExecInv' /\ HostInv' /\ LeafTodo' = LeafTodo /\ Unverified'
  BY <1>1, <1>9, <1>10, EarlyStep
<1>12. PrmInv'
  <2>1. PrmOf(t)
    BY DEF Detail, PrmInv
  <2>2. ASSUME NEW j \in 1 .. k
        PROVE  /\ task'[t].prm[j] = held'[<<Params[n][j], p>>]
               /\ task'[t].prm[j] # NoRef
    <3>1. CASE j = k
      BY <1>5, <1>u, <1>8, <1>a, <3>1 DEF TaskIs
    <3>2. CASE j # k
      <4>1. j \in 1 .. k - 1
        BY <3>2
      <4>2. j \in DOMAIN task[t].prm /\ Has(t, j)
        BY <1>1, <1>a, <4>1 DEF Has
      <4>3. task[t].prm[j] = held[<<Params[n][j], p>>] /\ task[t].prm[j] # NoRef
        BY <1>2, <2>1, <4>2 DEF PrmOf
      <4>4. j \in DOMAIN Params[n] /\ Params[n][j] \in Data
        BY <1>2, <1>4, <4>1
      <4>5. Params[n][j] # d
        BY <1>2, <1>4, <1>5, <3>2, <4>4 DEF IsInjective
      <4>6. held'[<<Params[n][j], p>>] = held[<<Params[n][j], p>>]
        BY <1>u, <4>4, <4>5
      <4> QED
        BY <1>8, <1>a, <4>1, <4>3, <4>6 DEF TaskIs
    <3> QED
      BY <3>1, <3>2
  <2>3. PrmOf(t)'
    BY <1>8, <1>a, <2>2 DEF TaskIs, PrmOf
  <2>4. \A u \in Target \ {t} : \A j \in DOMAIN task[u].prm : Has(u, j) =>
            <<Params[task[u].inst[1]][j], task[u].inst[2]>> # <<d, p>>
    BY <1>6 DEF Detail, PrmInv, PrmOf
  <2> QED
    BY <1>9, <1>u, <2>3, <2>4, PrmElsewhere
<1>13. Typed' /\ ListsInv'
  <2>1. /\ readyQ' \in [Data -> Seq(Ref)] /\ held' \in [Data \X Pipe -> Ref \cup {NoRef}]
        /\ doneCnt' \in [Data \X Pipe -> Nat]
    BY <1>6, <1>t, <1>q
  <2>2. QueuesTyped'
    BY <1>1, <2>1 DEF Detail, Typed, QueuesTyped
  <2>3. JobsTyped' /\ TasksTyped' /\ NodesTyped'
    BY <1>1, <1>8 DEF TaskIs, Detail, Typed, JobsTyped, NodesTyped
  <2> QED
    BY <1>1, <1>8, <1>9, <2>2, <2>3, ListsSame, Empty DEF Detail, TaskIs, Typed
<1>14. SameOtherPlaces({})
  BY <1>1, <1>2, <1>8, OtherPlaces DEF TaskIs
<1>15. OnePlace' /\ DueInv'
  BY <1>11, <1>14, TokensSame DEF Detail
<1>16. BlockedInv'
  <2>1. \A u \in Target : Tokens(<<"acquire", u>>)' = Tokens(<<"acquire", u>>)
    BY <1>14, Places DEF SameOtherPlaces
  <2>2. \A i \in Inst : TargetOf[i[1]] \in Target
    BY DEF Inst, GraphParameters
  <2> QED
    BY <1>1, <1>11, <2>1, <2>2, BlockedSame DEF Detail, Typed, NodesTyped
<1>17. HeldInv'
  <2>0. d \in Range(Params[n])
    BY <1>4, <1>5 DEF Range
  <2>1. Readers(d, p) = {} /\ ~Full(d, p)
    BY <1>2, <1>6, <2>0, NotFull
  <2>2. \A m \in Node : ReleasedBy(m, d, p)' <=> ReleasedBy(m, d, p)
    BY <1>11 DEF ReleasedBy, SameNodes, SameStill
  <2>3. Readers(d, p)' = {}
    BY <2>1, <2>2 DEF Readers, Consumers
  <2>4. ~Full(d, p)'
    <3>1. Consumers(d) = {} => Producer[d] \in Node
      BY GraphAssumption DEF GraphParameters
    <3> QED
      BY <2>1, <2>2, <2>3, <3>1 DEF Full
  <2>5. Cardinality({}) = 0 /\ Cardinality(Consumers(d)) \in Nat
    <3>1. IsFiniteSet(Consumers(d))
      BY FS_Subset DEF Consumers, GraphParameters
    <3> QED
      BY <3>1, FS_EmptySet, FS_CardinalityType
  <2>6. HeldOf(d, p)'
    <3>1. doneCnt'[<<d, p>>] <= Cardinality(Consumers(d))
      BY <1>u, <2>5
    <3> QED
      BY <1>2, <1>u, <1>11, <2>3, <2>4, <2>5, <3>1 DEF HeldOf, SameRun
  <2> QED
    BY <1>11, <1>u, <2>6, HeldElsewhere DEF Detail, SameStill
<1>18. RefInv'
  <2>1. ASSUME NEW e \in Data, e # d PROVE RefOf(e)'
    BY <1>1, <1>u, <2>1, RefOfSame DEF Detail, RefInv
  <2>2. RefOf(d)'
    <3>1. RefOf(d)
      BY DEF Detail, RefInv
    <3>2. HeldRefs(d)' = HeldRefs(d) \cup {r} /\ r \notin HeldRefs(d)
      <4>1. \A q \in Pipe : q # p => held'[<<d, q>>] = held[<<d, q>>]
        BY <1>u
      <4>2. r \notin HeldRefs(d)
        BY <1>7, <1>t, <3>1 DEF RefOf
      <4>3. ASSUME NEW v, v \in HeldRefs(d)' PROVE v \in HeldRefs(d) \cup {r}
        <5>1. PICK q \in Pipe : v = held'[<<d, q>>] /\ v # NoRef
          BY <4>3 DEF HeldRefs
        <5> QED
          BY <1>u, <4>1, <5>1 DEF HeldRefs
      <4>4. ASSUME NEW v, v \in HeldRefs(d) PROVE v \in HeldRefs(d)'
        <5>1. PICK q \in Pipe : v = held[<<d, q>>] /\ v # NoRef
          BY <4>4 DEF HeldRefs
        <5>2. v = held'[<<d, q>>]
          BY <1>6, <4>1, <5>1
        <5> QED
          BY <5>1, <5>2 DEF HeldRefs
      <4>5. r \in HeldRefs(d)'
        BY <1>u DEF HeldRefs
      <4> QED
        BY <4>2, <4>3, <4>4, <4>5
    <3>3. DoneRefs(d)' = DoneRefs(d) /\ GivenRefs(d)' = GivenRefs(d)
      BY <1>1 DEF DoneRefs, GivenRefs
    <3>4. Range(readyQ'[d]) = Range(readyQ[d]) \ {r} /\ r \in Range(readyQ[d])
      BY <1>7, <1>t, <1>u, <3>1 DEF RefOf
    <3>5. \A a, b \in Pipe : held'[<<d, a>>] = held'[<<d, b>>] /\ held'[<<d, a>>] # NoRef => a = b
      <4>1. \A a \in Pipe : a # p => held'[<<d, a>>] # r /\ held'[<<d, a>>] = held[<<d, a>>]
        BY <1>u, <3>2 DEF HeldRefs
      <4> QED
        BY <1>u, <3>1, <4>1 DEF RefOf
    <3>6. IsInjective(readyQ'[d]) /\ (d \in UserData => IsInjective(doneQ'[d]))
      BY <1>1, <1>t, <1>u, <3>1 DEF RefOf
    <3> QED
      BY <3>1, <3>2, <3>3, <3>4, <3>5, <3>6 DEF RefOf
  <2> QED
    BY <2>1, <2>2 DEF RefInv
<1>19. WaitsForNothingReady'
  BY <1>1, <1>6, <1>u DEF Detail, WaitsForNothingReady
<1>20. Implements
  <2>0. Param0 \in Data /\ Producer[Param0] = NoActor /\ n # NoActor
    BY GraphAssumption DEF GraphParameters
  <2>1. CASE d # Param0
    <3>1. \A q \in Pipe : held'[<<Param0, q>>] = held[<<Param0, q>>]
      BY <1>u, <2>0, <2>1
    <3>2. InRun \subseteq Pipe /\ InRun' = InRun /\ executed' = executed
      BY <1>11 DEF InRun, SameRun, SameNodes
    <3>3. Unfed' = Unfed
      BY <3>1, <3>2 DEF Unfed, Consumers
    <3>4. readyQ'[Param0] = readyQ[Param0]
      BY <1>u, <2>0, <2>1
    <3> QED
      BY <1>1, <1>11, <3>3, <3>4, RunsStutter
  <2>2. CASE d = Param0
    <3>1. \A q \in Pipe \ {p} : held'[<<Param0, q>>] = held[<<Param0, q>>]
      BY <1>u, <2>0, <2>2
    <3>2. InRun \subseteq Pipe /\ InRun' = InRun /\ executed' = executed
      BY <1>11 DEF InRun, SameRun, SameNodes
    <3>3. n \in Consumers(Param0)
      BY <1>4, <1>5, <2>0, <2>2 DEF Consumers, Range
    <3>4. p \in Unfed
      BY <1>2, <1>6, <2>2, <3>3 DEF Unfed
    <3>5. Unfed' = Unfed \ {p}
      BY <1>u, <2>2, <3>1, <3>2 DEF Unfed, Consumers
    <3>6. Len(readyQ[Param0]) > 0 /\ Len(readyQ'[Param0]) = Len(readyQ[Param0]) - 1
      BY <1>6, <1>q, <1>t, <1>u, <2>2
    <3>7. GSP!TakeRefs(p)
      BY <1>1, <1>11, <3>4, <3>5, <3>6, ControlUnchanged DEF GSP!TakeRefs
    <3> QED
      BY <3>7 DEF Implements, GSP!Next, GSP!RunStep, Pipe, GSP!Pipe
  <2> QED
    BY <2>1, <2>2
<1> QED
  BY <1>11, <1>12, <1>13, <1>15, <1>16, <1>17, <1>18, <1>19, <1>20 DEF Detail

\* ownTargetNodeDescAcquireParameter, the queue is empty: the node waits in its list.
LEMMA AcquireBlocksStep ==
  ASSUME Detail, GraphParameters, NEW t \in Target, AcquireBlocks(t)
  PROVE  Detail' /\ Implements
<1> USE DEF userVars, controlVars, descVars
<1>1. /\ UNCHANGED <<controlVars, jobQ, executed, behind, held, doneCnt, readyQ, doneQ, userVars>>
      /\ task[t].at = "acquire" /\ task' = [task EXCEPT ![t] = Idle]
  BY DEF AcquireBlocks, AtParam
<1>2. PICK n \in Node, p \in Pipe :
         /\ task[t].inst = <<n, p>> /\ TargetOf[n] = t /\ task[t].k \in Nat \ {0}
         /\ Params[n] \in Seq(Data)
         /\ task[t].wake = <<>> /\ task[t].after = NoActor
         /\ Due(<<n, p>>) /\ <<n, p>> \in Tokens(<<"acquire", t>>)
  BY <1>1, AcquiresFor
<1>3. PICK i \in Inst : i = <<n, p>>
  BY DEF Inst
<1>5. PICK d \in Data : d = Param(t)
  BY <1>2 DEF AcquireBlocks, AtParam, InstOf, Param
<1>6. /\ readyQ[d] = <<>> /\ waiting' = [waiting EXCEPT ![d] = Append(@, i)]
      /\ blocked' = blocked \cup {i}
  BY <1>2, <1>3, <1>5 DEF AcquireBlocks, InstOf
<1>q. waiting \in [Data -> Seq(Inst)] /\ waiting[d] \in Seq(Inst) /\ blocked \subseteq Inst
  BY DEF Detail, Typed, QueuesTyped, NodesTyped
<1>a. /\ Append(waiting[d], i) \in Seq(Inst)
      /\ Range(Append(waiting[d], i)) = Range(waiting[d]) \cup {i}
      /\ IsInjective(waiting[d]) /\ i \notin Range(waiting[d])
            => IsInjective(Append(waiting[d], i))
  BY <1>q, Appended
<1>u. /\ waiting'[d] = Append(waiting[d], i)
      /\ \A e \in Data \ {d} : waiting'[e] = waiting[e]
  BY <1>6, <1>q
<1>8. TaskIs(t, "idle", NoActor, 0, <<>>, <<>>, NoActor) /\ task'[t] = Idle
  BY <1>1, TaskSteps DEF Detail, Typed
<1>9. Others(t) /\ Early(t)
  BY <1>1, <1>8 DEF TaskIs, Others, Early
<1>10. Shape(t)'
  BY <1>8 DEF Shape, TaskIs
<1>11. /\ SameReleasing /\ SamePending /\ SameStill /\ SameDue /\ SameRun /\ SameNodes
       /\ TaskShape' /\ ExecInv' /\ HostInv' /\ LeafTodo' = LeafTodo /\ Unverified'
  BY <1>1, <1>9, <1>10, EarlyStep
<1>12. PrmInv'
  <2>1. PrmOf(t)'
    BY <1>8 DEF TaskIs, PrmOf
  <2> QED
    BY <1>1, <1>9, <2>1, PrmSame DEF Detail
<1>p. /\ <<"waiting", d>> \in Place /\ <<"acquire", t>> \in Place
      /\ <<"acquire", t>> # <<"waiting", d>>
      /\ Tokens(<<"waiting", d>>) = Range(waiting[d]) /\ Tokens(<<"acquire", t>>) = {i}
      /\ Tokens(<<"waiting", d>>)' = Range(Append(waiting[d], i))
      /\ Tokens(<<"acquire", t>>)' = {}
  <2>1. Tokens(<<"waiting", d>>) = Range(waiting[d]) /\ Tokens(<<"acquire", t>>) = {i}
    BY <1>1, <1>2, <1>3, TokensOf
  <2>2. task'[t].at = "idle" /\ waiting'[d] = Append(waiting[d], i)
    BY <1>8, <1>u DEF TaskIs
  <2>3. /\ Tokens(<<"waiting", d>>)' = Range(Append(waiting[d], i))
        /\ Tokens(<<"acquire", t>>)' = {}
    BY <2>2, TokensPrimed
  <2> QED
    BY <2>1, <2>3, Places
<1>n. i \notin Range(waiting[d])
  BY <1>p DEF Detail, OnePlace
<1>13. Typed' /\ ListsInv'
  <2>1. waiting' \in [Data -> Seq(Inst)] /\ blocked' \subseteq Inst
    BY <1>6, <1>q, <1>a
  <2>2. Typed'
    BY <1>1, <1>8, <2>1 DEF TaskIs, Detail, Typed, JobsTyped, NodesTyped, QueuesTyped
  <2>3. \A e \in Data : IsInjective(waiting'[e])
    BY <1>a, <1>n, <1>u DEF Detail, ListsInv
  <2> QED
    BY <1>1, <1>8, <1>9, <2>2, <2>3, Empty DEF Detail, ListsInv, TaskIs, Others
<1>14. SameOtherPlaces({<<"acquire", t>>, <<"waiting", d>>})
  BY <1>1, <1>2, <1>u, <1>8, OtherPlaces DEF TaskIs
<1>15. OnePlace' /\ DueInv'
  BY <1>11, <1>14, <1>a, <1>p, TokensMove DEF Detail
<1>16. BlockedInv'
  <2>1. \A u \in Target : Tokens(<<"acquire", u>>)' \subseteq Tokens(<<"acquire", u>>)
    <3> TAKE u \in Target
    <3>1. CASE u = t
      BY <1>p, <3>1
    <3>2. CASE u # t
      <4>1. <<"acquire", u>> # <<"acquire", t>> /\ <<"acquire", u>> # <<"waiting", d>>
        BY <3>2
      <4> QED
        BY <1>14, <4>1, Places DEF SameOtherPlaces
    <3> QED
      BY <3>1, <3>2
  <2>2. \A j \in Inst : TargetOf[j[1]] \in Target
    BY DEF Inst, GraphParameters
  <2>3. TargetOf[i[1]] = t /\ Due(i)'
    BY <1>2, <1>3, <1>11 DEF SameDue
  <2>4. ASSUME NEW j \in blocked'
        PROVE  Due(j)' /\ j \notin Tokens(<<"acquire", TargetOf[j[1]]>>)'
    <3>1. CASE j = i
      BY <1>p, <2>3, <3>1
    <3>2. CASE j # i
      BY <1>6, <1>q, <1>11, <2>1, <2>2, <2>4, <3>2 DEF Detail, BlockedInv, SameDue
    <3> QED
      BY <3>1, <3>2
  <2> QED
    BY <1>1, <2>4 DEF Detail, BlockedInv, Prev
<1>17. HeldInv' /\ RefInv'
  BY <1>1, <1>11, HeldSame, RefsSame DEF Detail
<1>18. WaitsForNothingReady'
  BY <1>1, <1>6, <1>u DEF Detail, WaitsForNothingReady
<1>19. Implements
  BY <1>1, <1>11, UnfedSame, RunsStutter
<1> QED
  BY <1>11, <1>12, <1>13, <1>15, <1>16, <1>17, <1>18, <1>19 DEF Detail

\* A descriptor is taken from a job queue.
LEMMA JobTaken ==
  ASSUME Detail, GraphParameters, NEW t \in Target, jobQ[t] # <<>>,
         jobQ' = [jobQ EXCEPT ![t] = Tail(@)]
  PROVE  \E i \in Inst :
            /\ i = Head(jobQ[t]) /\ TargetOf[i[1]] = t /\ Due(i)
            /\ i \in Tokens(<<"job", t>>)
            /\ Tokens(<<"job", t>>)' = Tokens(<<"job", t>>) \ {i}
            /\ JobsTyped' /\ jobQ'[Host] = jobQ[Host]
            /\ \A u \in Target \ {t} : jobQ'[u] = jobQ[u]
            /\ \A u \in Target : /\ IsInjective(jobQ'[u])
                                 /\ \A j \in Range(jobQ'[u]) : TargetOf[j[1]] = u
<1>1. jobQ[t] \in Seq(Inst) /\ IsInjective(jobQ[t])
  BY DEF Detail, Typed, JobsTyped, ListsInv
<1>2. /\ Tail(jobQ[t]) \in Seq(Inst) /\ Head(jobQ[t]) \in Inst
      /\ Range(jobQ[t]) = Range(Tail(jobQ[t])) \cup {Head(jobQ[t])}
      /\ IsInjective(Tail(jobQ[t])) /\ Head(jobQ[t]) \notin Range(Tail(jobQ[t]))
  BY <1>1, Taken
<1>3. PICK i \in Inst : i = Head(jobQ[t])
  BY <1>2
<1>4. /\ JobsTyped' /\ jobQ'[t] = Tail(jobQ[t])
      /\ \A u \in (Target \cup {Host}) \ {t} : jobQ'[u] = jobQ[u]
  BY TakesFrom DEF Detail, Typed
<1>5. Host # t
  BY GraphAssumption
<1>6. /\ i \in Tokens(<<"job", t>>) /\ Tokens(<<"job", t>>)' = Tokens(<<"job", t>>) \ {i}
      /\ <<"job", t>> \in Place
  <2>1. Tokens(<<"job", t>>)' = Range(Tail(jobQ[t])) /\ Tokens(<<"job", t>>) = Range(jobQ[t])
    BY <1>4, TokensOf, TokensPrimed
  <2> QED
    BY <1>2, <1>3, <2>1, Places
<1>7. Due(i) /\ TargetOf[i[1]] = t
  BY <1>2, <1>3, <1>6 DEF Detail, DueInv, Somewhere, ListsInv
<1>8. ASSUME NEW u \in Target
      PROVE  IsInjective(jobQ'[u]) /\ \A j \in Range(jobQ'[u]) : TargetOf[j[1]] = u
  <2>1. CASE u = t
    BY <1>2, <1>4, <2>1 DEF Detail, ListsInv
  <2>2. CASE u # t
    BY <1>4, <2>2 DEF Detail, ListsInv
  <2> QED
    BY <2>1, <2>2
<1> QED
  BY <1>3, <1>4, <1>5, <1>6, <1>7, <1>8

\* ownTargetTaskMain takes a job: the node acquires, or is blocked behind the previous
\* instance.
LEMMA TakeJobStep ==
  ASSUME Detail, GraphParameters, NEW t \in Target, TakeJob(t)
  PROVE  Detail' /\ Implements
<1> USE DEF userVars, queueVars, controlVars, descVars
<1>1. /\ UNCHANGED <<controlVars, executed, queueVars, userVars>>
      /\ task[t].at = "idle" /\ jobQ[t] # <<>> /\ jobQ' = [jobQ EXCEPT ![t] = Tail(@)]
  BY DEF TakeJob
<1>2. PICK i \in Inst :
         /\ i = Head(jobQ[t]) /\ TargetOf[i[1]] = t /\ Due(i)
         /\ i \in Tokens(<<"job", t>>)
         /\ Tokens(<<"job", t>>)' = Tokens(<<"job", t>>) \ {i}
         /\ JobsTyped' /\ jobQ'[Host] = jobQ[Host]
         /\ \A u \in Target \ {t} : jobQ'[u] = jobQ[u]
         /\ \A u \in Target : /\ IsInjective(jobQ'[u])
                              /\ \A j \in Range(jobQ'[u]) : TargetOf[j[1]] = u
  BY <1>1, JobTaken
<1>3. i \notin executed /\ i # NoActor
  BY <1>2 DEF Due, GraphParameters
<1>q. /\ blocked \subseteq Inst /\ behind \in [Inst -> Inst \cup {NoActor}] /\ Prev(i) \in Inst
      /\ \A j \in Inst : TargetOf[j[1]] \in Target
  BY Instances DEF Detail, Typed, NodesTyped, Inst, GraphParameters
<1>i. task[t] = Idle /\ task[t].wake = <<>> /\ task[t].after = NoActor
  BY <1>1 DEF Detail, TaskShape, Shape, Idle
<1>4. CASE IsPrevPipeNodeBlocked(i)
  <2>1. /\ blocked' = blocked \cup {i} /\ behind' = [behind EXCEPT ![Prev(i)] = i]
        /\ task' = task
    BY <1>2, <1>3, <1>4 DEF TakeJob
  <2>2. Others(t) /\ SameWork(t) /\ Shape(t)'
    BY <1>1, <2>1 DEF Others, SameWork, Shape, Detail, TaskShape, InRun
  <2>3. /\ SameReleasing /\ SamePending /\ SameStill /\ SameDue /\ SameRun /\ SameNodes
        /\ TaskShape' /\ ExecInv' /\ HostInv' /\ LeafTodo' = LeafTodo /\ Unverified'
    BY <1>1, <1>2, <2>2, EarlyStep
  <2>4. PICK b \in Inst : b = Prev(i)
    BY <1>q
  <2>p. /\ <<"job", t>> \in Place /\ <<"behind", b>> \in Place /\ <<"acquire", t>> \in Place
        /\ <<"job", t>> # <<"behind", b>> /\ <<"job", t>> # <<"acquire", t>>
    BY Places
  <2>5. behind[b] = NoActor
    <3>1. CASE behind[b] # NoActor
      <4>1. behind[b] \in Inst /\ Prev(behind[b]) = Prev(i)
        BY <1>q, <2>4, <3>1 DEF Detail, BlockedInv
      <4>2. behind[b] = i
        BY <4>1, Instances
      <4>3. i \in Tokens(<<"behind", b>>)
        BY <1>3, <4>2, TokensOf
      <4> QED
        BY <1>2, <2>p, <4>3 DEF Detail, OnePlace
    <3> QED
      BY <3>1
  <2>6. /\ behind'[b] = i /\ \A j \in Inst \ {b} : behind'[j] = behind[j]
        /\ behind' \in [Inst -> Inst \cup {NoActor}]
    BY <1>q, <2>1, <2>4
  <2>7. Tokens(<<"behind", b>>)' = Tokens(<<"behind", b>>) \cup {i}
    BY <1>3, <2>5, <2>6, TokensOf, TokensPrimed
  <2>8. SameOtherPlaces({<<"job", t>>, <<"behind", b>>})
    BY <1>1, <1>2, <2>1, <2>6, OtherPlaces
  <2>9. OnePlace' /\ DueInv'
    BY <1>2, <2>3, <2>7, <2>8, <2>p, TokensMove DEF Detail
  <2>10. Typed' /\ ListsInv'
    <3>1. blocked' \subseteq Inst
      BY <1>q, <2>1
    <3> QED
      BY <1>1, <1>2, <2>1, <2>6, <3>1 DEF Detail, Typed, NodesTyped, TasksTyped, QueuesTyped, ListsInv
  <2>11. BlockedInv'
    <3>1. \A u : Tokens(<<"acquire", u>>)' = Tokens(<<"acquire", u>>)
      BY <2>1, PlacesSame
    <3>2. i \notin Tokens(<<"acquire", t>>)
      BY <1>2, <2>p DEF Detail, OnePlace
    <3>3. ASSUME NEW j \in blocked'
          PROVE  Due(j)' /\ j \notin Tokens(<<"acquire", TargetOf[j[1]]>>)'
      <4>1. CASE j = i
        BY <1>2, <2>3, <3>1, <3>2, <4>1 DEF SameDue
      <4>2. CASE j # i
        BY <1>q, <2>1, <2>3, <3>1, <3>3, <4>2 DEF Detail, BlockedInv, SameDue
      <4> QED
        BY <4>1, <4>2
    <3>4. ASSUME NEW j \in Inst, behind'[j] # NoActor PROVE Prev(behind'[j]) = j
      BY <2>4, <2>6, <3>4 DEF Detail, BlockedInv
    <3> QED
      BY <3>3, <3>4 DEF BlockedInv, Prev
  <2>12. PrmInv'
    BY <1>1, <2>1 DEF Detail, PrmInv, PrmOf, Has
  <2>13. HeldInv' /\ RefInv' /\ WaitsForNothingReady'
    BY <1>1, <2>3, HeldSame, RefsSame DEF Detail, WaitsForNothingReady
  <2>14. Implements
    BY <1>1, <2>3, UnfedSame, RunsStutter
  <2> QED
    BY <2>3, <2>9, <2>10, <2>11, <2>12, <2>13, <2>14 DEF Detail
<1>5. CASE ~IsPrevPipeNodeBlocked(i)
  <2>1. /\ blocked' = blocked \ {i} /\ behind' = behind
        /\ task' = [task EXCEPT ![t] = [Idle EXCEPT !.at = "acquire", !.inst = i, !.k = 1]]
    BY <1>2, <1>3, <1>5 DEF TakeJob
  <2>2. TaskIs(t, "acquire", i, 1, <<>>, <<>>, NoActor)
    BY <2>1, TaskSteps DEF Detail, Typed
  <2>3. Others(t) /\ Early(t)
    BY <1>1, <2>2 DEF TaskIs, Others, Early
  <2>4. Shape(t)'
    <3>1. i[1] \in Node /\ Params[i[1]] \in Seq(Data)
      BY DEF Inst, GraphParameters
    <3>2. 1 <= Len(Params[i[1]]) + 1 /\ Len(<<>>) = 1 - 1
      BY <3>1
    <3> QED
      BY <1>2, <2>2, <3>2 DEF Shape, TaskIs
  <2>5. /\ SameReleasing /\ SamePending /\ SameStill /\ SameDue /\ SameRun /\ SameNodes
        /\ TaskShape' /\ ExecInv' /\ HostInv' /\ LeafTodo' = LeafTodo /\ Unverified'
    BY <1>1, <1>2, <2>3, <2>4, EarlyStep
  <2>p. /\ <<"job", t>> \in Place /\ <<"acquire", t>> \in Place /\ <<"job", t>> # <<"acquire", t>>
        /\ Tokens(<<"acquire", t>>) = {} /\ Tokens(<<"acquire", t>>)' = {i}
    BY <1>1, <2>2, Places, TokensOf, TokensPrimed DEF TaskIs
  <2>8. SameOtherPlaces({<<"job", t>>, <<"acquire", t>>})
    BY <1>1, <1>2, <1>i, <2>1, <2>2, OtherPlaces DEF TaskIs
  <2>9. OnePlace' /\ DueInv'
    <3>1. Tokens(<<"acquire", t>>)' = Tokens(<<"acquire", t>>) \cup {i}
      BY <2>p
    <3>2. \A j \in Inst : j \in Tokens(<<"job", t>>) => {j} \subseteq Tokens(<<"job", t>>)
      OBVIOUS
    <3> QED
      BY <1>2, <2>5, <2>8, <2>p, <3>1, <3>2, TokensMove DEF Detail
  <2>10. Typed' /\ ListsInv'
    <3>1. blocked' \subseteq Inst
      BY <1>q, <2>1
    <3>2. Typed'
      BY <1>1, <1>2, <2>1, <2>2, <3>1 DEF Detail, Typed, NodesTyped, QueuesTyped, TaskIs
    <3> QED
      BY <1>1, <1>2, <2>2, <2>3, <3>2, Empty DEF Detail, ListsInv, TaskIs, Others
  <2>11. BlockedInv'
    <3>1. ASSUME NEW j \in blocked, j # i
          PROVE  j \notin Tokens(<<"acquire", TargetOf[j[1]]>>)'
      <4>1. TargetOf[j[1]] \in Target
        BY <1>q
      <4>2. CASE TargetOf[j[1]] = t
        BY <2>p, <3>1, <4>2
      <4>3. CASE TargetOf[j[1]] # t
        <5>1. task'[TargetOf[j[1]]] = task[TargetOf[j[1]]]
          BY <2>3, <4>1, <4>3 DEF Others
        <5>2. Tokens(<<"acquire", TargetOf[j[1]]>>)' = Tokens(<<"acquire", TargetOf[j[1]]>>)
          BY <5>1, PlacesSame
        <5> QED
          BY <5>2 DEF Detail, BlockedInv
      <4> QED
        BY <4>2, <4>3
    <3> QED
      BY <1>q, <2>1, <2>5, <3>1 DEF Detail, BlockedInv, SameDue, Prev
  <2>12. PrmInv'
    <3>1. PrmOf(t)'
      BY <2>2 DEF TaskIs, PrmOf
    <3> QED
      BY <1>1, <2>3, <3>1, PrmSame DEF Detail
  <2>13. HeldInv' /\ RefInv' /\ WaitsForNothingReady'
    BY <1>1, <2>5, HeldSame, RefsSame DEF Detail, WaitsForNothingReady
  <2>14. Implements
    BY <1>1, <2>5, UnfedSame, RunsStutter
  <2> QED
    BY <2>5, <2>9, <2>10, <2>11, <2>12, <2>13, <2>14 DEF Detail
<1> QED
  BY <1>4, <1>5

-----------------------------------------------------------------------------
(* A target executes a node                                                 *)

\* What the step does, in the terms of the invariant.
LEMMA Executes ==
  ASSUME Detail, GraphParameters, NEW t \in Target, ExecuteNode(t)
  PROVE  \E n \in Node, p \in Pipe, b \in Inst \cup {NoActor} :
            /\ task[t].at = "acquire" /\ task[t].inst = <<n, p>> /\ TargetOf[n] = t
            /\ Params[n] \in Seq(Data) /\ Len(task[t].prm) = Len(Params[n])
            /\ task[t].prm \in Seq(Ref)
            /\ task[t].wake = <<>> /\ task[t].after = NoActor
            /\ Due(<<n, p>>) /\ <<n, p>> \notin executed /\ p \in InRun
            /\ <<n, p>> \in Tokens(<<"acquire", t>>) /\ b = behind[<<n, p>>]
            /\ executed' = executed \cup {<<n, p>>} /\ blocked' = blocked \ {<<n, p>>}
            /\ behind' = [behind EXCEPT ![<<n, p>>] = NoActor]
            /\ TaskIs(t, "release", <<n, p>>, 1, task[t].prm, <<>>, b)
            /\ \A d \in Range(Params[n]) : held[<<d, p>>] # NoRef
<1>1. task[t].at = "acquire" /\ PastParams(t, "acquire")
  BY DEF ExecuteNode, PastParams
<1>2. PICK n \in Node, p \in Pipe :
         /\ task[t].inst = <<n, p>> /\ TargetOf[n] = t /\ task[t].k \in Nat \ {0}
         /\ Params[n] \in Seq(Data) /\ task[t].prm \in Seq(Ref)
         /\ Len(task[t].prm) = task[t].k - 1 /\ task[t].k <= Len(Params[n]) + 1
         /\ task[t].wake = <<>> /\ task[t].after = NoActor
         /\ Due(<<n, p>>) /\ <<n, p>> \notin executed /\ p \in InRun
         /\ <<n, p>> \in Tokens(<<"acquire", t>>)
  BY <1>1, AcquiresFor
<1>3. Len(task[t].prm) = Len(Params[n])
  <2>1. task[t].k > Len(Params[n]) /\ Len(Params[n]) \in Nat
    BY <1>1, <1>2 DEF PastParams, InstOf
  <2> QED
    BY <1>2, <2>1
<1>4. PICK b \in Inst \cup {NoActor} : b = behind[<<n, p>>]
  BY DEF Detail, Typed, NodesTyped, Inst
<1>5. /\ executed' = executed \cup {<<n, p>>} /\ blocked' = blocked \ {<<n, p>>}
      /\ behind' = [behind EXCEPT ![<<n, p>>] = NoActor]
      /\ task' = [task EXCEPT ![t].at = "release", ![t].k = 1, ![t].after = b]
  BY <1>2, <1>4 DEF ExecuteNode, InstOf
<1>6. TaskIs(t, "release", <<n, p>>, 1, task[t].prm, <<>>, b)
  BY <1>2, <1>5, TaskSteps DEF Detail, Typed
<1>7. ASSUME NEW d \in Range(Params[n]) PROVE held[<<d, p>>] # NoRef
  <2>1. PICK j \in DOMAIN Params[n] : d = Params[n][j]
    BY DEF Range
  <2>2. j \in DOMAIN task[t].prm
    BY <1>2, <1>3
  <2>3. PrmOf(t) /\ Has(t, j)
    BY <1>1 DEF Detail, PrmInv, Has
  <2>4. task[t].prm[j] = held[<<Params[n][j], p>>] /\ task[t].prm[j] # NoRef
    BY <1>2, <2>2, <2>3 DEF PrmOf
  <2> QED
    BY <2>1, <2>4
<1> QED
  BY <1>1, <1>2, <1>3, <1>4, <1>5, <1>6, <1>7

\* The node is executed after those it depends on.
LEMMA ExecutePrecedence ==
  ASSUME Detail, GraphParameters, NEW t \in Target, ExecuteNode(t)
  PROVE  StepPrecedence
<1>1. PICK n \in Node, p \in Pipe :
         executed' = executed \cup {<<n, p>>} /\ Due(<<n, p>>)
  BY Executes
<1> QED
  BY <1>1 DEF StepPrecedence, Due, Enabled

\* ownTargetNodeDescNodeExecuteTargetKernel: the node was executed, it will release.
LEMMA ExecuteNodeStep ==
  ASSUME Detail, GraphParameters, NEW t \in Target, ExecuteNode(t)
  PROVE  Detail' /\ Implements
<1> USE DEF userVars, queueVars, controlVars, descVars
<1>1. UNCHANGED <<controlVars, jobQ, queueVars, userVars>>
  BY DEF ExecuteNode
<1>2. PICK n \in Node, p \in Pipe, b \in Inst \cup {NoActor} :
         /\ task[t].at = "acquire" /\ task[t].inst = <<n, p>> /\ TargetOf[n] = t
         /\ Params[n] \in Seq(Data) /\ Len(task[t].prm) = Len(Params[n])
         /\ task[t].prm \in Seq(Ref)
         /\ task[t].wake = <<>> /\ task[t].after = NoActor
         /\ Due(<<n, p>>) /\ <<n, p>> \notin executed /\ p \in InRun
         /\ <<n, p>> \in Tokens(<<"acquire", t>>) /\ b = behind[<<n, p>>]
         /\ executed' = executed \cup {<<n, p>>} /\ blocked' = blocked \ {<<n, p>>}
         /\ behind' = [behind EXCEPT ![<<n, p>>] = NoActor]
         /\ TaskIs(t, "release", <<n, p>>, 1, task[t].prm, <<>>, b)
         /\ \A d \in Range(Params[n]) : held[<<d, p>>] # NoRef
  BY Executes
<1>i. PICK i \in Inst : i = <<n, p>>
  BY DEF Inst
<1>3. SameRun /\ Others(t) /\ verified # 0 /\ Unverified'
  BY <1>1, <1>2, RunSame, Busy DEF TaskIs, Others
<1>g. \A m \in Node : TargetOf[m] \in Target
  BY DEF GraphParameters
<1>4. /\ Releasing(n, p)' /\ ~Releasing(n, p)
      /\ \A x \in Node : Pending(n, x, p)' /\ ~Pending(n, x, p)
  BY <1>2 DEF TaskIs, Releasing, Pending, OnTask
<1>5. ASSUME NEW m \in Node, NEW q \in Pipe, <<m, q>> # <<n, p>>
      PROVE  /\ <<m, q>> \in executed' <=> <<m, q>> \in executed
             /\ Releasing(m, q)' <=> Releasing(m, q)
             /\ \A x \in Node : Pending(m, x, q)' <=> Pending(m, x, q)
             /\ \A d \in Data : StillHas(m, d, q)' <=> StillHas(m, d, q)
  <2>1. CASE TargetOf[m] = t
    <3>1. \A s \in {"release", "consumed", "trigger"} : ~OnTask(m, q, s)' /\ ~OnTask(m, q, s)
      BY <1>2, <1>5, <2>1 DEF TaskIs, OnTask
    <3> QED
      BY <1>2, <1>5, <3>1 DEF Releasing, Pending, StillHas
  <2>2. CASE TargetOf[m] # t
    <3>1. task'[TargetOf[m]] = task[TargetOf[m]]
      BY <1>3, <1>g, <2>2 DEF Others
    <3> QED
      BY <1>2, <1>5, <3>1 DEF Releasing, Pending, StillHas, OnTask
  <2> QED
    BY <2>1, <2>2
<1>6. ASSUME NEW j \in Inst PROVE Enabled(j)' <=> Enabled(j)
  <2>1. j[1] \in Node /\ j[2] \in Pipe /\ InNodes(j[1]) \subseteq Node
    BY DEF Inst, InNodes
  <2>2. CASE n \in InNodes(j[1]) /\ j[2] = p
    BY <1>2, <1>4, <2>1, <2>2 DEF Enabled
  <2>3. CASE ~(n \in InNodes(j[1]) /\ j[2] = p)
    <3>1. \A m \in InNodes(j[1]) : <<m, j[2]>> # <<n, p>>
      BY <2>3
    <3> QED
      BY <1>5, <2>1, <3>1 DEF Enabled
  <2> QED
    BY <2>2, <2>3
<1>7. ~Due(i)' /\ \A j \in Inst \ {i} : Due(j)' <=> Due(j)
  BY <1>2, <1>3, <1>6, <1>i DEF Due, SameRun
<1>8. ExecInv'
  <2>1. \A j \in executed' : Enabled(j)'
    BY <1>2, <1>6, <1>i DEF Detail, Typed, NodesTyped, ExecInv, Due
  <2>2. \A q \in Pipe \ InRun : \A m \in Node : <<m, q>> \in executed' <=> <<m, q>> \in executed
    BY <1>2
  <2> QED
    BY <1>3, <2>1, <2>2 DEF Detail, ExecInv, SameRun
<1>9. TaskShape'
  <2>1. Shape(t)'
    <3>1. 1 <= Len(Params[n]) + 1 /\ <<n, p>> \in executed'
      BY <1>2
    <3> QED
      BY <1>2, <1>3, <1>i, <3>1 DEF Shape, TaskIs, SameRun
  <2> QED
    BY <1>2, <1>3, <2>1, ShapeSame DEF Detail
<1>10. Typed' /\ ListsInv'
  <2>1. executed' \subseteq Inst /\ blocked' \subseteq Inst /\ behind' \in [Inst -> Inst \cup {NoActor}]
    BY <1>2, <1>i DEF Detail, Typed, NodesTyped
  <2>2. Typed'
    BY <1>1, <1>2, <2>1 DEF Detail, Typed, JobsTyped, NodesTyped, QueuesTyped, TaskIs
  <2> QED
    BY <1>1, <1>2, <1>3, <2>2, ListsSame, Empty DEF Detail, TaskIs
<1>q. /\ behind'[i] = NoActor /\ \A j \in Inst \ {i} : behind'[j] = behind[j]
  BY <1>2, <1>i DEF Detail, Typed, NodesTyped
<1>p. /\ <<"acquire", t>> \in Place /\ <<"after", t>> \in Place /\ <<"behind", i>> \in Place
      /\ <<"acquire", t>> # <<"after", t>> /\ <<"acquire", t>> # <<"behind", i>>
      /\ <<"behind", i>> # <<"after", t>>
  BY Places
<1>t. /\ Tokens(<<"acquire", t>>) = {i} /\ Tokens(<<"acquire", t>>)' = {}
      /\ Tokens(<<"after", t>>) = {} /\ Tokens(<<"after", t>>)' = {b} \ {NoActor}
      /\ Tokens(<<"behind", i>>) = {b} \ {NoActor} /\ Tokens(<<"behind", i>>)' = {}
  <2>1. task'[t].at = "release" /\ task'[t].after = b
    BY <1>2 DEF TaskIs
  <2>2. Tokens(<<"acquire", t>>) = {i} /\ Tokens(<<"after", t>>) = {}
    BY <1>2, <1>i, TokensOf
  <2>3. Tokens(<<"behind", i>>) = {b} \ {NoActor}
    BY <1>2, <1>i, TokensOf
  <2>4. Tokens(<<"acquire", t>>)' = {} /\ Tokens(<<"after", t>>)' = {b} \ {NoActor}
    BY <2>1, TokensPrimed
  <2>5. Tokens(<<"behind", i>>)' = {}
    BY <1>q, TokensPrimed
  <2> QED
    BY <2>2, <2>3, <2>4, <2>5
<1>11. SameOtherPlaces({<<"acquire", t>>, <<"after", t>>, <<"behind", i>>})
  <2>1. /\ \A u \in Target \ {t} : task'[u] = task[u]
        /\ task'[t].wake = task[t].wake /\ jobQ' = jobQ /\ waiting' = waiting
        /\ retrigger' = retrigger
    BY <1>1, <1>2 DEF TaskIs
  <2> QED
    BY <1>q, <2>1, OtherPlaces
<1>12. OnePlace' /\ DueInv'
  <2> DEFINE S == {b} \ {NoActor}
             f == [x \in Place |-> Tokens(x)]
             h == [x \in Place |-> IF x = <<"acquire", t>> THEN {} ELSE Tokens(x)]
             g == [x \in Place |-> Tokens(x)']
             I == {i}
  <2>a. PICK a1 \in Place : a1 = <<"acquire", t>>
    BY <1>p
  <2>b. PICK a2 \in Place : a2 = <<"behind", i>>
    BY <1>p
  <2>c. PICK a3 \in Place : a3 = <<"after", t>>
    BY <1>p
  <2>d. a1 # a2 /\ a1 # a3 /\ a2 # a3
    BY <1>p, <2>a, <2>b, <2>c
  <2>1. /\ \A x \in Place : f[x] = Tokens(x) /\ g[x] = Tokens(x)'
        /\ \A x \in Place \ {a1} : h[x] = f[x]
        /\ h[a1] = f[a1] \ I /\ I \subseteq f[a1]
    BY <1>t, <2>a
  <2>2. /\ \A x \in Place \ {a2, a3} : g[x] = h[x]
        /\ g[a2] = h[a2] \ S /\ g[a3] = h[a3] \cup S /\ S \subseteq h[a2]
    BY <1>t, <2>a, <2>b, <2>c, <2>d, <1>11 DEF SameOtherPlaces
  <2>i. \A j : j \in I <=> j = i
    OBVIOUS
  <2> HIDE DEF f, g, h, S, I
  <2>3. \A x, y \in Place : x # y => f[x] \cap f[y] = {}
    BY <2>1 DEF Detail, OnePlace
  <2>4. /\ \A x, y \in Place : x # y => h[x] \cap h[y] = {}
        /\ \A j : (\E x \in Place : j \in h[x]) <=> (\E x \in Place : j \in f[x]) /\ j \notin I
    BY <2>1, <2>3, Leaves
  <2>5. /\ \A x, y \in Place : x # y => g[x] \cap g[y] = {}
        /\ \A j : (\E x \in Place : j \in g[x]) <=> (\E x \in Place : j \in h[x])
    BY <2>2, <2>4, <2>d, Moves
  <2>6. OnePlace'
    BY <2>1, <2>5 DEF OnePlace
  <2>7. ASSUME NEW j \in Inst PROVE Somewhere(j)' <=> Somewhere(j) /\ j # i
    <3>1. Somewhere(j)' <=> \E x \in Place : j \in g[x]
      BY <2>1 DEF Somewhere
    <3>2. Somewhere(j) <=> \E x \in Place : j \in f[x]
      BY <2>1 DEF Somewhere
    <3> QED
      BY <2>4, <2>5, <2>i, <3>1, <3>2
  <2> QED
    BY <1>7, <2>6, <2>7 DEF Detail, DueInv
<1>13. BlockedInv'
  <2>1. ASSUME NEW j \in blocked'
        PROVE  Due(j)' /\ j \notin Tokens(<<"acquire", TargetOf[j[1]]>>)'
    <3>1. j \in blocked /\ j # i /\ j \in Inst /\ TargetOf[j[1]] \in Target
      BY <1>2, <1>i, <1>g DEF Detail, Typed, NodesTyped, Inst
    <3>2. CASE TargetOf[j[1]] = t
      BY <1>7, <1>t, <3>1, <3>2 DEF Detail, BlockedInv
    <3>3. CASE TargetOf[j[1]] # t
      <4>1. Tokens(<<"acquire", TargetOf[j[1]]>>)' = Tokens(<<"acquire", TargetOf[j[1]]>>)
        BY <1>3, <3>1, <3>3, PlacesSame DEF Others
      <4> QED
        BY <1>7, <3>1, <4>1 DEF Detail, BlockedInv
    <3> QED
      BY <3>2, <3>3
  <2>2. ASSUME NEW j \in Inst, behind'[j] # NoActor PROVE Prev(behind'[j]) = j
    BY <1>q, <2>2 DEF Detail, BlockedInv
  <2> QED
    BY <2>1, <2>2 DEF BlockedInv, Prev
<1>14. HeldInv'
  <2>1. ASSUME NEW d \in Data, NEW q \in Pipe, NEW m \in Node, d \in Range(Params[m])
        PROVE  ReleasedBy(m, d, q)' <=> ReleasedBy(m, d, q)
    <3>1. CASE <<m, q>> = <<n, p>>
      <4>1. PICK j \in DOMAIN Params[n] : Params[n][j] = d
        BY <2>1, <3>1 DEF Range
      <4>2. j >= 1
        BY <1>2, <4>1
      <4>3. StillHas(n, d, p)'
        BY <1>2, <4>1, <4>2 DEF TaskIs, StillHas, OnTask
      <4> QED
        BY <1>2, <3>1, <4>3 DEF ReleasedBy
    <3>2. CASE <<m, q>> # <<n, p>>
      BY <1>5, <3>2 DEF ReleasedBy
    <3> QED
      BY <3>1, <3>2
  <2>2. ASSUME NEW d \in Data, NEW q \in Pipe PROVE HeldOf(d, q)'
    <3>1. Readers(d, q)' = Readers(d, q)
      BY <2>1 DEF Readers, Consumers
    <3>2. Full(d, q)' <=> Full(d, q)
      <4>1. Consumers(d) = {} => Producer[d] \in Node /\ d \in Range(Params[Producer[d]])
        BY GraphAssumption DEF GraphParameters
      <4> QED
        BY <2>1, <3>1, <4>1 DEF Full
    <3>3. held[<<d, q>>] = NoRef => (Untouched(d, q)' <=> Untouched(d, q))
      BY <1>2 DEF Untouched
    <3>4. HeldOf(d, q)
      BY DEF Detail, HeldInv
    <3> QED
      BY <1>1, <1>3, <3>1, <3>2, <3>3, <3>4 DEF HeldOf, SameRun
  <2> QED
    BY <2>2 DEF HeldInv
<1>15. PrmInv'
  <2>1. PrmOf(t)
    BY DEF Detail, PrmInv
  <2>2. \A j \in DOMAIN task[t].prm :
           /\ task[t].prm[j] = held[<<Params[n][j], p>>] /\ task[t].prm[j] # NoRef
    <3>1. ASSUME NEW j \in DOMAIN task[t].prm
          PROVE  task[t].prm[j] = held[<<Params[n][j], p>>] /\ task[t].prm[j] # NoRef
      <4>1. Has(t, j)
        BY <1>2 DEF Has
      <4> QED
        BY <1>2, <2>1, <4>1 DEF PrmOf
    <3> QED
      BY <3>1
  <2>3. task'[t].prm = task[t].prm /\ task'[t].inst = <<n, p>> /\ held' = held
    BY <1>1, <1>2 DEF TaskIs
  <2>4. PrmOf(t)'
    BY <2>2, <2>3 DEF PrmOf
  <2> QED
    BY <1>1, <1>3, <2>4, PrmSame DEF Detail
<1>16. RefInv' /\ WaitsForNothingReady'
  BY <1>1, RefsSame DEF Detail, WaitsForNothingReady
<1>17. HostInv'
  <2>1. \A j, m, q : Reported(j, m, q)' <=> Reported(j, m, q)
    BY <1>1 DEF Reported
  <2>2. DOMAIN jobQ'[Host] = DOMAIN jobQ[Host] /\ Leaf \subseteq Node
    BY <1>1, GraphAssumption
  <2>3. ASSUME NEW m \in Node, NEW q \in Pipe, NEW j \in DOMAIN jobQ[Host], Reported(j, m, q)
        PROVE  /\ q \in InRun' /\ <<m, q>> \in executed' /\ ~Releasing(m, q)'
               /\ \A h \in DOMAIN jobQ[Host] : Reported(h, m, q) => j = h
               /\ \E l \in Leaf : \/ <<l, q>> \notin executed'
                                  \/ Releasing(l, q)'
                                  \/ \E h \in DOMAIN jobQ[Host] : h >= j /\ Reported(h, l, q)
    <3>1. /\ q \in InRun /\ <<m, q>> \in executed /\ ~Releasing(m, q)
          /\ \A h \in DOMAIN jobQ[Host] : Reported(h, m, q) => j = h
      BY <2>3 DEF Detail, HostInv
    <3>2. PICK l \in Leaf : \/ <<l, q>> \notin executed
                            \/ Releasing(l, q)
                            \/ \E h \in DOMAIN jobQ[Host] : h >= j /\ Reported(h, l, q)
      BY <2>3 DEF Detail, HostInv
    <3>3. \/ <<l, q>> \notin executed' \/ Releasing(l, q)'
          \/ \E h \in DOMAIN jobQ[Host] : h >= j /\ Reported(h, l, q)
      BY <1>4, <1>5, <2>2, <3>2
    <3>4. <<m, q>> # <<n, p>>
      BY <1>2, <3>1
    <3> QED
      BY <1>3, <1>5, <3>1, <3>3, <3>4 DEF SameRun
  <2> QED
    BY <2>1, <2>2, <2>3 DEF HostInv
<1>18. LeafTodo' = LeafTodo
  <2>1. Leaf \subseteq Node
    BY GraphAssumption
  <2>2. \A l \in Leaf, q \in Pipe : Incomplete(l, q)' <=> Incomplete(l, q)
    BY <1>1, <1>2, <1>4, <1>5, <2>1 DEF Incomplete
  <2>3. \A q \in Pipe : {l \in Leaf : Incomplete(l, q)}' = {l \in Leaf : Incomplete(l, q)}
    BY <2>2
  <2> QED
    BY <1>3, <2>3 DEF LeafTodo, SameRun
<1>19. Unfed' = Unfed
  <2>1. ASSUME NEW q \in InRun
        PROVE  (held[<<Param0, q>>] = NoRef /\ \E c \in Consumers(Param0) : <<c, q>> \notin executed')
               <=> (held[<<Param0, q>>] = NoRef /\ \E c \in Consumers(Param0) : <<c, q>> \notin executed)
    BY <1>2 DEF Consumers
  <2> QED
    BY <1>1, <1>3, <2>1 DEF Unfed, SameRun, Consumers
<1>20. Implements
  BY <1>1, <1>18, <1>19, RunsStutter
<1> QED
  BY <1>3, <1>8, <1>9, <1>10, <1>12, <1>13, <1>14, <1>15, <1>16, <1>17, <1>20 DEF Detail

-----------------------------------------------------------------------------
(* A target releases                                                        *)

\* The task is about to release the parameter k of the node n in the run p.
ReleasesFor(t, n, p, k, d) ==
    /\ task[t].at = "release" /\ task[t].inst = <<n, p>> /\ TargetOf[n] = t
    /\ task[t].k = k /\ k \in DOMAIN Params[n] /\ Params[n][k] = d
    /\ task[t].wake = <<>> /\ <<n, p>> \in executed /\ p \in InRun
    /\ Params[n] \in Seq(Data) /\ IsInjective(Params[n])
    /\ task[t].prm \in Seq(Ref) /\ Len(task[t].prm) = Len(Params[n])

\* The parameter at which a releasing task is.
LEMMA ReleasesParam ==
  ASSUME Detail, GraphParameters, NEW t \in Target, AtParam(t, "release")
  PROVE  \E n \in Node, p \in Pipe, k \in Nat \ {0}, d \in Data :
            /\ ReleasesFor(t, n, p, k, d) /\ d = Param(t) /\ InstOf(t) = <<n, p>>
            /\ task[t].prm[k] = held[<<d, p>>] /\ held[<<d, p>>] # NoRef
            /\ doneCnt[<<d, p>>] = Cardinality(Readers(d, p)) /\ ~Full(d, p)
<1>1. /\ task[t].at = "release" /\ task[t].k \in DOMAIN Params[task[t].inst[1]]
      /\ task[t].wake = <<>>
  BY DEF AtParam, InstOf
<1>2. PICK n \in Node, p \in Pipe :
         /\ task[t].inst = <<n, p>> /\ TargetOf[n] = t /\ task[t].k \in Nat \ {0}
         /\ Params[n] \in Seq(Data) /\ task[t].prm \in Seq(Ref)
  BY <1>1, ShapeOf DEF Detail
<1>3. PICK k \in Nat \ {0} : k = task[t].k
  BY <1>2
<1>4. PICK d \in Data : d = Params[n][k]
  BY <1>1, <1>2, <1>3
<1>5. /\ <<n, p>> \in executed /\ p \in InRun /\ Len(task[t].prm) = Len(Params[n])
  BY <1>1, <1>2 DEF Detail, TaskShape, Shape
<1>6. ReleasesFor(t, n, p, k, d)
  BY <1>1, <1>2, <1>3, <1>4, <1>5 DEF ReleasesFor, GraphParameters
<1>7. d = Param(t) /\ InstOf(t) = <<n, p>>
  BY <1>2, <1>3, <1>4 DEF Param, InstOf
<1>8. task[t].prm[k] = held[<<d, p>>] /\ held[<<d, p>>] # NoRef
  <2>1. PrmOf(t) /\ k \in DOMAIN task[t].prm
    BY <1>1, <1>2, <1>3, <1>5 DEF Detail, PrmInv
  <2>2. Has(t, k)
    BY <1>1, <1>3 DEF Has
  <2> QED
    BY <1>2, <1>4, <2>1, <2>2 DEF PrmOf
<1>9. doneCnt[<<d, p>>] = Cardinality(Readers(d, p)) /\ ~Full(d, p)
  BY <1>8 DEF Detail, HeldInv, HeldOf
<1> QED
  BY <1>6, <1>7, <1>8, <1>9

\* The task has released the parameter: it goes on, or sends a message first.
Drops(t) ==
    /\ Others(t) /\ task'[t].inst = task[t].inst
    /\ \/ task'[t].at = "release" /\ task'[t].k = task[t].k + 1
       \/ task'[t].at = "consumed" /\ task'[t].k = task[t].k

\* The step releases this parameter, of this node and run, and no other.
LEMMA Dropped ==
  ASSUME Detail, GraphParameters, NEW t \in Target, NEW n \in Node, NEW p \in Pipe,
         NEW k \in Nat \ {0}, NEW d \in Data, ReleasesFor(t, n, p, k, d), Drops(t), SameNodes
  PROVE  /\ ReleasedBy(n, d, p)' /\ ~ReleasedBy(n, d, p)
         /\ \A m \in Node, e \in Data, q \in Pipe : <<m, e, q>> # <<n, d, p>> =>
               /\ StillHas(m, e, q)' <=> StillHas(m, e, q)
               /\ ReleasedBy(m, e, q)' <=> ReleasedBy(m, e, q)
<1>0. \A m \in Node : TargetOf[m] \in Target
  BY DEF GraphParameters
<1>1. /\ task[t].at = "release" /\ task[t].inst = <<n, p>> /\ TargetOf[n] = t
      /\ task[t].k = k /\ k \in DOMAIN Params[n] /\ Params[n][k] = d
      /\ Params[n] \in Seq(Data) /\ IsInjective(Params[n]) /\ <<n, p>> \in executed
  BY DEF ReleasesFor
<1>2. \A j \in DOMAIN Params[n] : j \in Nat /\ (Params[n][j] = d => j = k)
  BY <1>1 DEF IsInjective
<1>3. StillHas(n, d, p)
  BY <1>1 DEF StillHas, OnTask
<1>4. ~StillHas(n, d, p)'
  <2>1. ASSUME NEW j \in DOMAIN Params[n], Params[n][j] = d,
               \/ OnTask(n, p, "release")' /\ j >= task'[TargetOf[n]].k
               \/ OnTask(n, p, "consumed")' /\ j > task'[TargetOf[n]].k
        PROVE  FALSE
    <3>1. j = k /\ ~(k >= k + 1) /\ ~(k > k)
      BY <1>2, <2>1
    <3>2. CASE task'[t].at = "release" /\ task'[t].k = k + 1
      BY <1>1, <2>1, <3>1, <3>2 DEF OnTask
    <3>3. CASE task'[t].at = "consumed" /\ task'[t].k = k
      BY <1>1, <2>1, <3>1, <3>3 DEF OnTask
    <3> QED
      BY <1>1, <3>2, <3>3 DEF Drops
  <2> QED
    BY <2>1 DEF StillHas
<1>5. ASSUME NEW m \in Node, NEW e \in Data, NEW q \in Pipe, <<m, e, q>> # <<n, d, p>>
      PROVE  StillHas(m, e, q)' <=> StillHas(m, e, q)
  <2>1. CASE TargetOf[m] # t
    <3>1. task'[TargetOf[m]] = task[TargetOf[m]]
      BY <1>0, <2>1 DEF Drops, Others
    <3> QED
      BY <3>1 DEF StillHas, OnTask
  <2>2. CASE TargetOf[m] = t /\ <<m, q>> # <<n, p>>
    BY <1>1, <2>2 DEF StillHas, OnTask, Drops
  <2>3. CASE m = n /\ q = p
    <3>1. ASSUME NEW j \in DOMAIN Params[n], Params[n][j] = e
          PROVE  (j >= k + 1 <=> j >= k) /\ (j > k <=> j >= k)
      <4>1. j # k
        BY <1>1, <1>5, <2>3, <3>1
      <4> QED
        BY <1>2, <4>1
    <3>2. CASE task'[t].at = "release" /\ task'[t].k = k + 1
      BY <1>1, <2>3, <3>1, <3>2 DEF StillHas, OnTask, Drops
    <3>3. CASE task'[t].at = "consumed" /\ task'[t].k = k
      BY <1>1, <2>3, <3>1, <3>3 DEF StillHas, OnTask, Drops
    <3> QED
      BY <1>1, <3>2, <3>3 DEF Drops
  <2> QED
    BY <2>1, <2>2, <2>3
<1> QED
  BY <1>1, <1>3, <1>4, <1>5 DEF ReleasedBy, SameNodes

\* The node that counts as many readers as there are is the last one.
LEMMA LastConsumer ==
  ASSUME Detail, GraphParameters, NEW t \in Target, NEW n \in Node, NEW p \in Pipe,
         NEW k \in Nat \ {0}, NEW d \in Data, ReleasesFor(t, n, p, k, d), Drops(t), SameNodes,
         ~Full(d, p)
  PROVE  LET cnt == Cardinality(Readers(d, p)) + (IF Producer[d] = n THEN 0 ELSE 1)
         IN  /\ Cardinality(Readers(d, p)') = cnt
             /\ (cnt = Cardinality(Consumers(d))) <=> Full(d, p)'
             /\ cnt \in Nat /\ cnt <= Cardinality(Consumers(d))
<1>1. /\ d \in Range(Params[n]) /\ ReleasedBy(n, d, p)' /\ ~ReleasedBy(n, d, p)
      /\ \A m \in Node : m # n => (ReleasedBy(m, d, p)' <=> ReleasedBy(m, d, p))
  <2>1. d \in Range(Params[n])
    BY DEF ReleasesFor, Range
  <2> QED
    BY <2>1, Dropped
<1>2. /\ IsFiniteSet(Consumers(d)) /\ Consumers(d) \subseteq Node
      /\ Readers(d, p) \subseteq Consumers(d) /\ Readers(d, p)' \subseteq Consumers(d)
  BY FS_Subset DEF Consumers, Readers, GraphParameters
<1>3. /\ IsFiniteSet(Readers(d, p)) /\ Cardinality(Readers(d, p)) \in Nat
      /\ IsFiniteSet(Readers(d, p)') /\ Cardinality(Readers(d, p)') \in Nat
      /\ Cardinality(Consumers(d)) \in Nat
      /\ Cardinality(Readers(d, p)') <= Cardinality(Consumers(d))
      /\ Cardinality(Readers(d, p)') = Cardinality(Consumers(d)) => Readers(d, p)' = Consumers(d)
  BY <1>2, FS_Subset, FS_CardinalityType
<1>4. Cardinality(Readers(d, p)') = Cardinality(Readers(d, p)) + (IF Producer[d] = n THEN 0 ELSE 1)
  <2>1. CASE Producer[d] = n
    <3>1. Readers(d, p)' = Readers(d, p)
      BY <1>1, <2>1 DEF Readers, Consumers
    <3> QED
      BY <1>3, <2>1, <3>1
  <2>2. CASE Producer[d] # n
    <3>1. n \in Consumers(d) /\ n \notin Readers(d, p)
      BY <1>1, <2>2 DEF Readers, Consumers
    <3>2. Readers(d, p)' = Readers(d, p) \cup {n}
      BY <1>1, <3>1 DEF Readers, Consumers
    <3>3. Cardinality(Readers(d, p) \cup {n}) = Cardinality(Readers(d, p)) + 1
      BY <1>3, <3>1, FS_AddElement
    <3> QED
      BY <2>2, <3>2, <3>3
  <2> QED
    BY <2>1, <2>2
<1>5. (Cardinality(Readers(d, p)') = Cardinality(Consumers(d))) <=> Full(d, p)'
  <2>1. CASE Consumers(d) = {}
    <3>1. Producer[d] = n
      BY <1>1, <2>1 DEF Consumers
    <3>2. Full(d, p)'
      BY <1>1, <2>1, <3>1 DEF Full, Consumers
    <3>3. Readers(d, p)' = {}
      BY <1>2, <2>1
    <3> QED
      BY <2>1, <3>2, <3>3
  <2>2. CASE Consumers(d) # {}
    <3>1. Full(d, p)' <=> Readers(d, p)' = Consumers(d)
      BY <2>2 DEF Full, Consumers
    <3> QED
      BY <1>3, <3>1
  <2> QED
    BY <2>1, <2>2
<1> QED
  BY <1>3, <1>4, <1>5

\* The producer gives up the data only if no one reads it; that its count is the
\* number of consumers says the same as long as not all of them have read.
LEMMA LastReleases ==
  ASSUME Detail, GraphParameters, NEW t \in Target, AtParam(t, "release")
  PROVE  LastToRelease(t) <=> IsLastConsumer(Param(t), DoneCount(t))
<1>1. PICK n \in Node, p \in Pipe, k \in Nat \ {0}, d \in Data :
         /\ d = Param(t) /\ InstOf(t) = <<n, p>>
         /\ doneCnt[<<d, p>>] = Cardinality(Readers(d, p)) /\ ~Full(d, p)
  BY ReleasesParam
<1>2. CASE Producer[d] # n
  BY <1>1, <1>2 DEF LastToRelease
<1>3. CASE Producer[d] = n
  <2>1. IsFiniteSet(Consumers(d)) /\ Readers(d, p) \subseteq Consumers(d)
    BY FS_Subset DEF Consumers, Readers, GraphParameters
  <2>2. /\ Cardinality(Readers(d, p)) \in Nat
        /\ Cardinality(Readers(d, p)) = Cardinality(Consumers(d)) => Readers(d, p) = Consumers(d)
    BY <2>1, FS_Subset, FS_CardinalityType
  <2>3. (Cardinality(Readers(d, p)) = Cardinality(Consumers(d))) <=> (Consumers(d) = {})
    <3>1. CASE Consumers(d) = {}
      BY <2>1, <3>1
    <3>2. CASE Consumers(d) # {}
      BY <1>1, <2>2, <3>2 DEF Full
    <3> QED
      BY <3>1, <3>2
  <2>4. DoneCount(t) = Cardinality(Readers(d, p))
    BY <1>1, <1>3, <2>2 DEF DoneCount
  <2> QED
    BY <1>1, <1>3, <2>3, <2>4 DEF LastToRelease, IsLastConsumer
<1> QED
  BY <1>2, <1>3

\* When all have released the data no other task has it.
LEMMA NobodyElse ==
  ASSUME Detail, GraphParameters, NEW t \in Target, NEW n \in Node, NEW p \in Pipe,
         NEW k \in Nat \ {0}, NEW d \in Data, ReleasesFor(t, n, p, k, d), Drops(t), SameNodes,
         Full(d, p)'
  PROVE  \A u \in Target \ {t} : \A j \in DOMAIN task[u].prm : Has(u, j) =>
            <<Params[task[u].inst[1]][j], task[u].inst[2]>> # <<d, p>>
<1> SUFFICES ASSUME NEW u \in Target, u # t, NEW j \in DOMAIN task[u].prm, Has(u, j),
                    <<Params[task[u].inst[1]][j], task[u].inst[2]>> = <<d, p>>
             PROVE  FALSE
  OBVIOUS
<1>0. /\ <<n, p>> \in executed /\ TargetOf[n] = t /\ d \in Range(Params[n])
  BY DEF ReleasesFor, Range
<1>1. task[u].at \in {"acquire", "release", "consumed"}
  BY DEF Has
<1>2. PICK m \in Node, q \in Pipe :
         /\ task[u].inst = <<m, q>> /\ TargetOf[m] = u /\ task[u].k \in Nat \ {0}
         /\ Params[m] \in Seq(Data) /\ task[u].prm \in Seq(Ref)
  BY <1>1, ShapeOf DEF Detail
<1>3. q = p /\ Params[m][j] = d /\ m # n
  BY <1>0, <1>2
<1>4. j \in DOMAIN Params[m] /\ d \in Range(Params[m])
  <2>1. Len(task[u].prm) <= Len(Params[m])
    BY <1>1, <1>2 DEF Detail, TaskShape, Shape
  <2>2. j \in DOMAIN Params[m]
    BY <1>2, <2>1
  <2> QED
    BY <1>3, <2>2 DEF Range
<1>5. ~ReleasedBy(m, d, p)
  <2>1. CASE task[u].at = "acquire"
    <3>1. <<m, p>> \notin executed
      BY <1>2, <1>3, <2>1, AcquiresFor
    <3> QED
      BY <3>1 DEF ReleasedBy
  <2>2. CASE task[u].at # "acquire"
    <3>1. StillHas(m, d, p)
      BY <1>1, <1>2, <1>3, <1>4, <2>2 DEF Has, StillHas, OnTask
    <3> QED
      BY <3>1 DEF ReleasedBy
  <2> QED
    BY <2>1, <2>2
<1>6. ~ReleasedBy(m, d, p)'
  BY <1>3, <1>5, Dropped
<1>7. CASE Producer[d] # m
  <2>1. m \in Consumers(d)
    BY <1>4, <1>7 DEF Consumers
  <2>2. m \notin Readers(d, p)'
    BY <1>6 DEF Readers
  <2>3. Full(d, p)' => m \in Readers(d, p)'
    BY <2>1 DEF Full, Consumers
  <2> QED
    BY <2>2, <2>3
<1>8. CASE Producer[d] = m
  <2>1. n \in Consumers(d) /\ m # NoActor
    BY <1>0, <1>3, <1>8 DEF Consumers, GraphParameters
  <2>2. m \in InNodes(n)
    BY <1>8, <2>1 DEF GraphParameters, InNodes
  <2>3. Enabled(<<n, p>>)
    BY <1>0 DEF Detail, ExecInv
  <2>4. <<m, p>> \in executed /\ ~Releasing(m, p)
    BY <2>2, <2>3 DEF Enabled, Pending
  <2>5. ~StillHas(m, d, p)
    BY <2>4 DEF StillHas, Releasing
  <2> QED
    BY <1>5, <2>4, <2>5 DEF ReleasedBy
<1> QED
  BY <1>7, <1>8

\* What a release leaves alone.
LEMMA ReleaseStep ==
  ASSUME Detail, GraphParameters, NEW t \in Target, NEW n \in Node, NEW p \in Pipe,
         NEW k \in Nat \ {0}, NEW d \in Data, ReleasesFor(t, n, p, k, d), Drops(t), Shape(t)',
         UNCHANGED <<executed, verified, freeQ, jobQ>>
  PROVE  /\ SameReleasing /\ SamePending /\ SameDue /\ SameRun /\ SameNodes
         /\ TaskShape' /\ ExecInv' /\ HostInv' /\ LeafTodo' = LeafTodo /\ Unverified'
<1>1. SameRun /\ SameNodes
  BY RunSame DEF SameNodes
<1>2. SameReleasing /\ SamePending
  <2>1. Late(t) /\ Others(t)
    BY DEF Late, Drops, ReleasesFor
  <2> QED
    BY <2>1, WorkSame
<1>3. SameDue /\ ExecInv'
  BY <1>1, <1>2, DueSame DEF Detail, Typed, NodesTyped
<1>4. TaskShape'
  BY <1>1, ShapeSame DEF Detail, Drops
<1>5. HostInv' /\ LeafTodo' = LeafTodo
  BY <1>1, <1>2, HostSame, LeavesSame DEF Detail
<1>6. Unverified'
  BY Busy DEF ReleasesFor
<1> QED
  BY <1>1, <1>2, <1>3, <1>4, <1>5, <1>6

\* No task but t acquires another node than before, and t does not either.
LEMMA AcquiringKept ==
  ASSUME GraphParameters, NEW t \in Target, Others(t),
         task'[t].at = "acquire" => task[t].at = "acquire" /\ task'[t].inst = task[t].inst,
         NEW i \in Inst, i \in Tokens(<<"acquire", TargetOf[i[1]]>>)'
  PROVE  i \in Tokens(<<"acquire", TargetOf[i[1]]>>)
<1>1. TargetOf[i[1]] \in Target
  BY DEF Inst, GraphParameters
<1>2. CASE TargetOf[i[1]] # t
  <2>1. task'[TargetOf[i[1]]] = task[TargetOf[i[1]]]
    BY <1>1, <1>2 DEF Others
  <2> QED
    BY <2>1, PlacesSame
<1>3. CASE TargetOf[i[1]] = t
  BY <1>3 DEF Tokens
<1> QED
  BY <1>2, <1>3

\* A task that does not begin to acquire unblocks no node.
LEMMA AcquiringSame ==
  ASSUME Detail, GraphParameters, NEW t \in Target, Others(t), SameDue,
         UNCHANGED <<blocked, behind>>,
         task'[t].at = "acquire" => task[t].at = "acquire" /\ task'[t].inst = task[t].inst
  PROVE  BlockedInv'
<1>1. \A i \in Inst : i \in Tokens(<<"acquire", TargetOf[i[1]]>>)'
                      => i \in Tokens(<<"acquire", TargetOf[i[1]]>>)
  BY AcquiringKept
<1> QED
  BY <1>1, BlockedSame DEF Detail, Typed, NodesTyped

\* ownTargetNodeDescReleaseParameter, other consumers still need the reference.
LEMMA KeepParamStep ==
  ASSUME Detail, GraphParameters, NEW t \in Target, KeepParam(t)
  PROVE  Detail' /\ Implements
<1> USE DEF nodeVars, userVars, controlVars, descVars
<1>1. /\ UNCHANGED <<controlVars, jobQ, nodeVars, held, readyQ, doneQ, waiting, userVars>>
      /\ AtParam(t, "release") /\ NextParam(t)
  BY DEF KeepParam
<1>2. PICK n \in Node, p \in Pipe, k \in Nat \ {0}, d \in Data :
         /\ ReleasesFor(t, n, p, k, d) /\ d = Param(t) /\ InstOf(t) = <<n, p>>
         /\ doneCnt[<<d, p>>] = Cardinality(Readers(d, p)) /\ ~Full(d, p)
         /\ held[<<d, p>>] # NoRef
  BY <1>1, ReleasesParam
<1>3. /\ task[t].at = "release" /\ task[t].inst = <<n, p>> /\ TargetOf[n] = t
      /\ task[t].k = k /\ k \in DOMAIN Params[n] /\ Params[n] \in Seq(Data)
      /\ task[t].wake = <<>> /\ <<n, p>> \in executed /\ p \in InRun
      /\ Len(task[t].prm) = Len(Params[n])
  BY <1>2 DEF ReleasesFor
<1>4. TaskIs(t, "release", <<n, p>>, k + 1, task[t].prm, <<>>, task[t].after)
  BY <1>1, <1>3, TaskSteps DEF Detail, Typed
<1>5. Drops(t) /\ Others(t) /\ SameNodes
  BY <1>1, <1>3, <1>4 DEF TaskIs, Drops, Others, SameNodes
<1>6. Shape(t)'
  <2>1. k + 1 <= Len(Params[n]) + 1 /\ k + 1 >= 1
    BY <1>3
  <2>2. <<n, p>> \in Inst /\ InRun' = InRun
    BY <1>1 DEF Inst, InRun
  <2> QED
    BY <1>1, <1>3, <1>4, <2>1, <2>2 DEF Shape, TaskIs
<1>7. /\ SameReleasing /\ SamePending /\ SameDue /\ SameRun /\ SameNodes
      /\ TaskShape' /\ ExecInv' /\ HostInv' /\ LeafTodo' = LeafTodo /\ Unverified'
  BY <1>1, <1>2, <1>5, <1>6, ReleaseStep
<1>8. PICK cnt \in Nat :
         /\ cnt = Cardinality(Readers(d, p)) + (IF Producer[d] = n THEN 0 ELSE 1)
         /\ Cardinality(Readers(d, p)') = cnt /\ cnt <= Cardinality(Consumers(d))
         /\ (cnt = Cardinality(Consumers(d))) <=> Full(d, p)'
  BY <1>2, <1>5, LastConsumer
<1>9. cnt = DoneCount(t) /\ doneCnt' = [doneCnt EXCEPT ![<<d, p>>] = cnt]
  <2>1. cnt = DoneCount(t)
    BY <1>2, <1>8 DEF DoneCount
  <2> QED
    BY <1>2, <2>1 DEF KeepParam
<1>10. ~Full(d, p)'
  BY <1>1, <1>2, <1>8, <1>9, LastReleases DEF KeepParam, IsLastConsumer
<1>q. doneCnt \in [Data \X Pipe -> Nat] /\ <<d, p>> \in Data \X Pipe
  BY DEF Detail, Typed, QueuesTyped
<1>11. HeldInv'
  <2>1. \A x \in (Data \X Pipe) \ {<<d, p>>} : held'[x] = held[x] /\ doneCnt'[x] = doneCnt[x]
    BY <1>1, <1>9, <1>q
  <2>2. \A m \in Node, e \in Data, q \in Pipe :
            <<e, q>> # <<d, p>> => (StillHas(m, e, q)' <=> StillHas(m, e, q))
    BY <1>2, <1>5, Dropped
  <2>3. doneCnt'[<<d, p>>] = cnt
    BY <1>9, <1>q
  <2>4. HeldOf(d, p)'
    BY <1>1, <1>2, <1>3, <1>7, <1>8, <1>10, <2>3 DEF HeldOf, SameRun, Consumers
  <2> QED
    BY <1>7, <2>1, <2>2, <2>4, HeldElsewhere DEF Detail
<1>12. Typed' /\ ListsInv'
  <2>1. doneCnt' \in [Data \X Pipe -> Nat]
    BY <1>9, <1>q
  <2>2. Typed'
    BY <1>1, <1>4, <2>1 DEF TaskIs, Detail, Typed, JobsTyped, NodesTyped, QueuesTyped
  <2> QED
    BY <1>1, <1>4, <1>5, <2>2, ListsSame, Empty DEF Detail, TaskIs
<1>13. PrmInv'
  <2>1. PrmOf(t)
    BY DEF Detail, PrmInv
  <2>2. ASSUME NEW j \in DOMAIN task[t].prm, j >= k + 1
        PROVE  task[t].prm[j] = held[<<Params[n][j], p>>] /\ task[t].prm[j] # NoRef
    <3>1. j >= k
      BY <1>3, <2>2
    <3>2. Has(t, j)
      BY <1>3, <3>1 DEF Has
    <3> QED
      BY <1>3, <2>1, <3>2 DEF PrmOf
  <2>3. /\ task'[t].prm = task[t].prm /\ task'[t].inst = <<n, p>> /\ held' = held
        /\ \A j \in DOMAIN task[t].prm : Has(t, j)' => j >= k + 1
    BY <1>1, <1>4 DEF TaskIs, Has
  <2>4. PrmOf(t)'
    BY <2>2, <2>3 DEF PrmOf
  <2> QED
    BY <1>1, <1>5, <2>4, PrmSame DEF Detail
<1>14. OnePlace' /\ DueInv'
  <2>1. SameOtherPlaces({})
    BY <1>1, <1>3, <1>4, OtherPlaces DEF TaskIs
  <2> QED
    BY <1>7, <2>1, TokensSame DEF Detail
<1>15. BlockedInv'
  BY <1>1, <1>4, <1>5, <1>7, AcquiringSame DEF TaskIs
<1>16. RefInv' /\ WaitsForNothingReady'
  BY <1>1, RefsSame DEF Detail, WaitsForNothingReady
<1>17. Implements
  BY <1>1, <1>7, UnfedSame, RunsStutter
<1> QED
  BY <1>7, <1>11, <1>12, <1>13, <1>14, <1>15, <1>16, <1>17 DEF Detail

\* A descriptor gives its reference back.
LEMMA GivesBack ==
  ASSUME NEW d \in Data, NEW p \in Pipe, NEW r, RefOf(d), r = held[<<d, p>>], r # NoRef,
         held'[<<d, p>>] = NoRef, \A q \in Pipe \ {p} : held'[<<d, q>>] = held[<<d, q>>]
  PROVE  /\ HeldRefs(d)' = HeldRefs(d) \ {r} /\ r \in HeldRefs(d)
         /\ \A a, b \in Pipe : held'[<<d, a>>] = held'[<<d, b>>] /\ held'[<<d, a>>] # NoRef => a = b
         /\ r \notin Range(readyQ[d]) /\ r \notin DoneRefs(d)
<1>1. r \in HeldRefs(d)
  BY DEF HeldRefs
<1>2. \A q \in Pipe \ {p} : held[<<d, q>>] # r
  BY DEF RefOf
<1>3. ASSUME NEW v, v \in HeldRefs(d)' PROVE v \in HeldRefs(d) /\ v # r
  <2>1. PICK q \in Pipe : v = held'[<<d, q>>] /\ v # NoRef
    BY <1>3 DEF HeldRefs
  <2>2. q # p /\ v = held[<<d, q>>]
    BY <2>1
  <2> QED
    BY <1>2, <2>1, <2>2 DEF HeldRefs
<1>4. ASSUME NEW v, v \in HeldRefs(d), v # r PROVE v \in HeldRefs(d)'
  <2>1. PICK q \in Pipe : v = held[<<d, q>>] /\ v # NoRef
    BY <1>4 DEF HeldRefs
  <2>2. v = held'[<<d, q>>]
    BY <1>4, <2>1
  <2> QED
    BY <2>1, <2>2 DEF HeldRefs
<1>5. \A a, b \in Pipe : held'[<<d, a>>] = held'[<<d, b>>] /\ held'[<<d, a>>] # NoRef => a = b
  BY DEF RefOf
<1> QED
  BY <1>1, <1>3, <1>4, <1>5 DEF RefOf

\* ownTargetNodeDescReleaseParameter, the last consumer gives the reference back to the
\* queue.
LEMMA ReleaseParamStep ==
  ASSUME Detail, GraphParameters, NEW t \in Target, ReleaseParam(t)
  PROVE  Detail' /\ Implements
<1> USE DEF nodeVars, userVars, controlVars, descVars
<1>1. /\ UNCHANGED <<controlVars, jobQ, nodeVars, doneQ, userVars>>
      /\ AtParam(t, "release")
  BY DEF ReleaseParam
<1>2. PICK n \in Node, p \in Pipe, k \in Nat \ {0}, d \in Data :
         /\ ReleasesFor(t, n, p, k, d) /\ d = Param(t) /\ InstOf(t) = <<n, p>>
         /\ doneCnt[<<d, p>>] = Cardinality(Readers(d, p)) /\ ~Full(d, p)
         /\ task[t].prm[k] = held[<<d, p>>] /\ held[<<d, p>>] # NoRef
  BY <1>1, ReleasesParam
<1>3. /\ task[t].at = "release" /\ task[t].inst = <<n, p>> /\ TargetOf[n] = t
      /\ task[t].k = k /\ k \in DOMAIN Params[n] /\ Params[n][k] = d /\ Params[n] \in Seq(Data)
      /\ IsInjective(Params[n])
      /\ task[t].wake = <<>> /\ <<n, p>> \in executed /\ p \in InRun
      /\ task[t].prm \in Seq(Ref) /\ Len(task[t].prm) = Len(Params[n])
  BY <1>2 DEF ReleasesFor
<1>r. PICK r \in Ref : r = held[<<d, p>>] /\ Released(t) = r /\ r # NoRef
  BY <1>2, <1>3 DEF Detail, Typed, QueuesTyped, Released
<1>q. /\ held \in [Data \X Pipe -> Ref \cup {NoRef}]
      /\ doneCnt \in [Data \X Pipe -> Nat] /\ <<d, p>> \in Data \X Pipe
      /\ readyQ \in [Data -> Seq(Ref)] /\ waiting \in [Data -> Seq(Inst)]
      /\ readyQ[d] \in Seq(Ref) /\ waiting[d] \in Seq(Inst) /\ IsInjective(waiting[d])
      /\ <<>> \in Seq(Inst)
  BY Empty DEF Detail, Typed, QueuesTyped, ListsInv
<1>s. /\ d \notin UserData /\ held' = [held EXCEPT ![<<d, p>>] = NoRef]
      /\ doneCnt' = [doneCnt EXCEPT ![<<d, p>>] = DoneCount(t)]
      /\ readyQ' = [readyQ EXCEPT ![d] = Append(@, r)]
      /\ waiting' = [waiting EXCEPT ![d] = <<>>]
      /\ task' = [task EXCEPT ![t].k = @ + 1, ![t].wake = waiting[d]]
      /\ LastToRelease(t)
  BY <1>2, <1>r DEF ReleaseParam, BlockedAfterExtract, ExtractBlockedNodes
<1>4. TaskIs(t, "release", <<n, p>>, k + 1, task[t].prm, waiting[d], task[t].after)
  <2>1. TaskIs(t, task[t].at, task[t].inst, task[t].k + 1, task[t].prm, waiting[d], task[t].after)
    BY <1>q, <1>s, TaskSteps DEF Detail, Typed
  <2> QED
    BY <1>3, <2>1
<1>5. Drops(t) /\ Others(t) /\ SameNodes
  BY <1>1, <1>3, <1>4 DEF TaskIs, Drops, Others, SameNodes
<1>6. Shape(t)'
  <2>1. k + 1 <= Len(Params[n]) + 1 /\ k + 1 >= 1
    BY <1>3
  <2>2. <<n, p>> \in Inst /\ InRun' = InRun
    BY <1>1 DEF Inst, InRun
  <2> QED
    BY <1>1, <1>3, <1>4, <2>1, <2>2 DEF Shape, TaskIs
<1>7. /\ SameReleasing /\ SamePending /\ SameDue /\ SameRun /\ SameNodes
      /\ TaskShape' /\ ExecInv' /\ HostInv' /\ LeafTodo' = LeafTodo /\ Unverified'
  BY <1>1, <1>2, <1>5, <1>6, ReleaseStep
<1>8. PICK cnt \in Nat :
         /\ cnt = Cardinality(Readers(d, p)) + (IF Producer[d] = n THEN 0 ELSE 1)
         /\ Cardinality(Readers(d, p)') = cnt /\ cnt <= Cardinality(Consumers(d))
         /\ (cnt = Cardinality(Consumers(d))) <=> Full(d, p)'
  BY <1>2, <1>5, LastConsumer
<1>9. cnt = DoneCount(t)
  BY <1>2, <1>8 DEF DoneCount
<1>10. Full(d, p)'
  BY <1>1, <1>2, <1>8, <1>9, <1>s, LastReleases DEF IsLastConsumer
<1>u. /\ held'[<<d, p>>] = NoRef /\ doneCnt'[<<d, p>>] = cnt
      /\ \A x \in (Data \X Pipe) \ {<<d, p>>} : held'[x] = held[x] /\ doneCnt'[x] = doneCnt[x]
      /\ readyQ'[d] = Append(readyQ[d], r) /\ waiting'[d] = <<>>
      /\ \A e \in Data \ {d} : readyQ'[e] = readyQ[e] /\ waiting'[e] = waiting[e]
  BY <1>9, <1>q, <1>s
<1>a. /\ Append(readyQ[d], r) \in Seq(Ref)
      /\ Range(Append(readyQ[d], r)) = Range(readyQ[d]) \cup {r}
      /\ IsInjective(readyQ[d]) /\ r \notin Range(readyQ[d]) => IsInjective(Append(readyQ[d], r))
  BY <1>q, Appended
<1>11. HeldInv'
  <2>2. \A m \in Node, e \in Data, q \in Pipe :
            <<e, q>> # <<d, p>> => (StillHas(m, e, q)' <=> StillHas(m, e, q))
    BY <1>2, <1>5, Dropped
  <2>4. HeldOf(d, p)'
    BY <1>8, <1>10, <1>u DEF HeldOf, Consumers
  <2> QED
    BY <1>7, <1>u, <2>2, <2>4, HeldElsewhere DEF Detail
<1>12. Typed' /\ ListsInv'
  <2>1. /\ held' \in [Data \X Pipe -> Ref \cup {NoRef}] /\ doneCnt' \in [Data \X Pipe -> Nat]
        /\ readyQ' \in [Data -> Seq(Ref)] /\ waiting' \in [Data -> Seq(Inst)]
    BY <1>8, <1>9, <1>a, <1>q, <1>s
  <2>2. Typed'
    BY <1>1, <1>4, <2>1 DEF TaskIs, Detail, Typed, JobsTyped, NodesTyped, QueuesTyped
  <2>3. \A e \in Data : IsInjective(waiting'[e])
    BY <1>u, Empty DEF Detail, ListsInv
  <2> QED
    BY <1>1, <1>4, <1>5, <1>q, <2>2, <2>3 DEF Detail, ListsInv, TaskIs, Others
<1>13. PrmInv'
  <2>1. PrmOf(t)
    BY DEF Detail, PrmInv
  <2>2. ASSUME NEW j \in DOMAIN task[t].prm, j >= k + 1
        PROVE  task[t].prm[j] = held'[<<Params[n][j], p>>] /\ task[t].prm[j] # NoRef
    <3>1. j >= k /\ j # k /\ j \in DOMAIN Params[n]
      BY <1>3, <2>2
    <3>2. Has(t, j)
      BY <1>3, <3>1 DEF Has
    <3>3. Params[n][j] # d /\ Params[n][j] \in Data
      BY <1>3, <3>1 DEF IsInjective
    <3>4. held'[<<Params[n][j], p>>] = held[<<Params[n][j], p>>]
      BY <1>u, <3>3
    <3> QED
      BY <1>3, <2>1, <3>2, <3>4 DEF PrmOf
  <2>3. PrmOf(t)'
    BY <1>4, <2>2 DEF TaskIs, PrmOf, Has
  <2>4. \A u \in Target \ {t} : \A j \in DOMAIN task[u].prm : Has(u, j) =>
            <<Params[task[u].inst[1]][j], task[u].inst[2]>> # <<d, p>>
    BY <1>2, <1>5, <1>10, NobodyElse
  <2> QED
    BY <1>5, <1>u, <2>3, <2>4, PrmElsewhere
<1>p. /\ <<"waiting", d>> \in Place /\ <<"wake", t>> \in Place
      /\ <<"waiting", d>> # <<"wake", t>>
      /\ Tokens(<<"wake", t>>)' = Tokens(<<"wake", t>>) \cup Tokens(<<"waiting", d>>)
      /\ Tokens(<<"waiting", d>>)' = Tokens(<<"waiting", d>>) \ Tokens(<<"waiting", d>>)
  <2>1. Tokens(<<"waiting", d>>) = Range(waiting[d]) /\ Tokens(<<"wake", t>>) = {}
    BY <1>3, TokensOf, Empty
  <2>2. Tokens(<<"waiting", d>>)' = {}
    BY <1>u, TokensPrimed, Empty
  <2>3. task'[t].wake = waiting[d]
    BY <1>4 DEF TaskIs
  <2>4. Tokens(<<"wake", t>>)' = Range(waiting[d])
    BY <2>3, TokensPrimed
  <2> QED
    BY <2>1, <2>2, <2>4, Places
<1>14. OnePlace' /\ DueInv'
  <2>1. SameOtherPlaces({<<"waiting", d>>, <<"wake", t>>})
    BY <1>1, <1>3, <1>4, <1>u, OtherPlaces DEF TaskIs
  <2>2. \A S : Tokens(<<"waiting", d>>) = S => S \subseteq Tokens(<<"waiting", d>>)
    OBVIOUS
  <2> QED
    BY <1>7, <1>p, <2>1, <2>2, TokensMove DEF Detail
<1>15. BlockedInv'
  BY <1>1, <1>4, <1>5, <1>7, AcquiringSame DEF TaskIs
<1>16. RefInv'
  <2>1. ASSUME NEW e \in Data, e # d PROVE RefOf(e)'
    BY <1>1, <1>u, <2>1, RefOfSame DEF Detail, RefInv
  <2>2. RefOf(d)'
    <3>1. RefOf(d)
      BY DEF Detail, RefInv
    <3>2. \A q \in Pipe \ {p} : held'[<<d, q>>] = held[<<d, q>>]
      BY <1>u
    <3>3. /\ HeldRefs(d)' = HeldRefs(d) \ {r} /\ r \in HeldRefs(d)
          /\ \A a, b \in Pipe : held'[<<d, a>>] = held'[<<d, b>>] /\ held'[<<d, a>>] # NoRef => a = b
          /\ r \notin Range(readyQ[d]) /\ r \notin DoneRefs(d)
      BY <1>r, <1>u, <3>1, <3>2, GivesBack
    <3>4. DoneRefs(d)' = DoneRefs(d) /\ GivenRefs(d)' = GivenRefs(d)
      BY <1>1 DEF DoneRefs, GivenRefs
    <3>5. Range(readyQ'[d]) = Range(readyQ[d]) \cup {r} /\ IsInjective(readyQ'[d])
      BY <1>a, <1>u, <3>1, <3>3 DEF RefOf
    <3> QED
      BY <1>1, <3>1, <3>3, <3>4, <3>5 DEF RefOf
  <2> QED
    BY <2>1, <2>2 DEF RefInv
<1>17. WaitsForNothingReady'
  BY <1>u DEF Detail, WaitsForNothingReady
<1>18. Implements
  <2>1. Param0 \in Data /\ d # Param0
    BY <1>s, GraphAssumption DEF GraphParameters
  <2>2. \A q \in Pipe : held'[<<Param0, q>>] = held[<<Param0, q>>]
    BY <1>u, <2>1
  <2>3. InRun \subseteq Pipe /\ InRun' = InRun /\ executed' = executed
    BY <1>7 DEF InRun, SameRun, SameNodes
  <2>4. Unfed' = Unfed
    BY <2>2, <2>3 DEF Unfed, Consumers
  <2>5. readyQ'[Param0] = readyQ[Param0]
    BY <1>u, <2>1
  <2> QED
    BY <1>1, <1>7, <2>4, <2>5, RunsStutter
<1> QED
  BY <1>7, <1>11, <1>12, <1>13, <1>14, <1>15, <1>16, <1>17, <1>18 DEF Detail

\* ownTargetNodeDescReleaseParameter, the last consumer gives the reference to the
\* application.
LEMMA ReleaseDoneStep ==
  ASSUME Detail, GraphParameters, NEW t \in Target, ReleaseDone(t)
  PROVE  Detail' /\ Implements
<1> USE DEF nodeVars, userVars, controlVars, descVars
<1>1. /\ UNCHANGED <<controlVars, jobQ, nodeVars, readyQ, waiting, userVars>>
      /\ AtParam(t, "release")
  BY DEF ReleaseDone
<1>2. PICK n \in Node, p \in Pipe, k \in Nat \ {0}, d \in Data :
         /\ ReleasesFor(t, n, p, k, d) /\ d = Param(t) /\ InstOf(t) = <<n, p>>
         /\ doneCnt[<<d, p>>] = Cardinality(Readers(d, p)) /\ ~Full(d, p)
         /\ task[t].prm[k] = held[<<d, p>>] /\ held[<<d, p>>] # NoRef
  BY <1>1, ReleasesParam
<1>3. /\ task[t].at = "release" /\ task[t].inst = <<n, p>> /\ TargetOf[n] = t
      /\ task[t].k = k /\ k \in DOMAIN Params[n] /\ Params[n][k] = d /\ Params[n] \in Seq(Data)
      /\ IsInjective(Params[n])
      /\ task[t].wake = <<>> /\ <<n, p>> \in executed /\ p \in InRun
      /\ task[t].prm \in Seq(Ref) /\ Len(task[t].prm) = Len(Params[n])
  BY <1>2 DEF ReleasesFor
<1>r. PICK r \in Ref : r = held[<<d, p>>] /\ Released(t) = r /\ r # NoRef
  BY <1>2, <1>3 DEF Detail, Typed, QueuesTyped, Released
<1>s. /\ d \in UserData /\ held' = [held EXCEPT ![<<d, p>>] = NoRef]
      /\ doneCnt' = [doneCnt EXCEPT ![<<d, p>>] = DoneCount(t)]
      /\ doneQ' = [doneQ EXCEPT ![d] = Append(@, r)]
      /\ task' = [task EXCEPT ![t].at = "consumed"]
      /\ LastToRelease(t)
  BY <1>2, <1>r DEF ReleaseDone
<1>q. /\ held \in [Data \X Pipe -> Ref \cup {NoRef}]
      /\ doneCnt \in [Data \X Pipe -> Nat] /\ <<d, p>> \in Data \X Pipe
      /\ doneQ \in [UserData -> Seq(Ref)] /\ doneQ[d] \in Seq(Ref)
  BY <1>s DEF Detail, Typed, QueuesTyped
<1>4. TaskIs(t, "consumed", <<n, p>>, k, task[t].prm, <<>>, task[t].after)
  BY <1>3, <1>s, TaskSteps DEF Detail, Typed
<1>5. Drops(t) /\ Others(t) /\ SameNodes
  BY <1>1, <1>3, <1>4 DEF TaskIs, Drops, Others, SameNodes
<1>6. Shape(t)'
  <2>1. k <= Len(Params[n]) + 1 /\ k >= 1 /\ k <= Len(Params[n])
    BY <1>3
  <2>2. <<n, p>> \in Inst /\ InRun' = InRun
    BY <1>1 DEF Inst, InRun
  <2> QED
    BY <1>1, <1>3, <1>4, <1>s, <2>1, <2>2 DEF Shape, TaskIs
<1>7. /\ SameReleasing /\ SamePending /\ SameDue /\ SameRun /\ SameNodes
      /\ TaskShape' /\ ExecInv' /\ HostInv' /\ LeafTodo' = LeafTodo /\ Unverified'
  BY <1>1, <1>2, <1>5, <1>6, ReleaseStep
<1>8. PICK cnt \in Nat :
         /\ cnt = Cardinality(Readers(d, p)) + (IF Producer[d] = n THEN 0 ELSE 1)
         /\ Cardinality(Readers(d, p)') = cnt /\ cnt <= Cardinality(Consumers(d))
         /\ (cnt = Cardinality(Consumers(d))) <=> Full(d, p)'
  BY <1>2, <1>5, LastConsumer
<1>9. cnt = DoneCount(t)
  BY <1>2, <1>8 DEF DoneCount
<1>10. Full(d, p)'
  BY <1>1, <1>2, <1>8, <1>9, <1>s, LastReleases DEF IsLastConsumer
<1>u. /\ held'[<<d, p>>] = NoRef /\ doneCnt'[<<d, p>>] = cnt
      /\ \A x \in (Data \X Pipe) \ {<<d, p>>} : held'[x] = held[x] /\ doneCnt'[x] = doneCnt[x]
      /\ doneQ'[d] = Append(doneQ[d], r)
      /\ \A e \in UserData \ {d} : doneQ'[e] = doneQ[e]
  BY <1>9, <1>q, <1>s
<1>a. /\ Append(doneQ[d], r) \in Seq(Ref)
      /\ Range(Append(doneQ[d], r)) = Range(doneQ[d]) \cup {r}
      /\ IsInjective(doneQ[d]) /\ r \notin Range(doneQ[d]) => IsInjective(Append(doneQ[d], r))
  BY <1>q, Appended
<1>11. HeldInv'
  <2>2. \A m \in Node, e \in Data, q \in Pipe :
            <<e, q>> # <<d, p>> => (StillHas(m, e, q)' <=> StillHas(m, e, q))
    BY <1>2, <1>5, Dropped
  <2>4. HeldOf(d, p)'
    BY <1>8, <1>10, <1>u DEF HeldOf, Consumers
  <2> QED
    BY <1>7, <1>u, <2>2, <2>4, HeldElsewhere DEF Detail
<1>12. Typed' /\ ListsInv'
  <2>1. /\ held' \in [Data \X Pipe -> Ref \cup {NoRef}] /\ doneCnt' \in [Data \X Pipe -> Nat]
        /\ doneQ' \in [UserData -> Seq(Ref)]
    BY <1>8, <1>9, <1>a, <1>q, <1>s
  <2>2. Typed'
    BY <1>1, <1>4, <2>1 DEF TaskIs, Detail, Typed, JobsTyped, NodesTyped, QueuesTyped
  <2> QED
    BY <1>1, <1>4, <1>5, <2>2, ListsSame, Empty DEF Detail, TaskIs
<1>13. PrmInv'
  <2>1. PrmOf(t)
    BY DEF Detail, PrmInv
  <2>2. ASSUME NEW j \in DOMAIN task[t].prm, j > k
        PROVE  task[t].prm[j] = held'[<<Params[n][j], p>>] /\ task[t].prm[j] # NoRef
    <3>1. j >= k /\ j # k /\ j \in DOMAIN Params[n]
      BY <1>3, <2>2
    <3>2. Has(t, j)
      BY <1>3, <3>1 DEF Has
    <3>3. Params[n][j] # d /\ Params[n][j] \in Data
      BY <1>3, <3>1 DEF IsInjective
    <3>4. held'[<<Params[n][j], p>>] = held[<<Params[n][j], p>>]
      BY <1>u, <3>3
    <3> QED
      BY <1>3, <2>1, <3>2, <3>4 DEF PrmOf
  <2>3. PrmOf(t)'
    BY <1>4, <2>2 DEF TaskIs, PrmOf, Has
  <2>4. \A u \in Target \ {t} : \A j \in DOMAIN task[u].prm : Has(u, j) =>
            <<Params[task[u].inst[1]][j], task[u].inst[2]>> # <<d, p>>
    BY <1>2, <1>5, <1>10, NobodyElse
  <2> QED
    BY <1>5, <1>u, <2>3, <2>4, PrmElsewhere
<1>14. OnePlace' /\ DueInv'
  <2>1. SameOtherPlaces({})
    BY <1>1, <1>3, <1>4, OtherPlaces DEF TaskIs
  <2> QED
    BY <1>7, <2>1, TokensSame DEF Detail
<1>15. BlockedInv'
  BY <1>1, <1>4, <1>5, <1>7, AcquiringSame DEF TaskIs
<1>16. RefInv'
  <2>1. ASSUME NEW e \in Data, e # d PROVE RefOf(e)'
    <3>1. e \in UserData => doneQ'[e] = doneQ[e]
      BY <1>u, <2>1
    <3> QED
      BY <1>1, <1>u, <2>1, <3>1, RefOfSame DEF Detail, RefInv
  <2>2. RefOf(d)'
    <3>1. RefOf(d)
      BY DEF Detail, RefInv
    <3>2. \A q \in Pipe \ {p} : held'[<<d, q>>] = held[<<d, q>>]
      BY <1>u
    <3>3. /\ HeldRefs(d)' = HeldRefs(d) \ {r} /\ r \in HeldRefs(d)
          /\ \A a, b \in Pipe : held'[<<d, a>>] = held'[<<d, b>>] /\ held'[<<d, a>>] # NoRef => a = b
          /\ r \notin Range(readyQ[d]) /\ r \notin DoneRefs(d)
      BY <1>r, <1>u, <3>1, <3>2, GivesBack
    <3>4. GivenRefs(d)' = GivenRefs(d) /\ DoneRefs(d) = Range(doneQ[d])
      BY <1>1, <1>s DEF DoneRefs, GivenRefs
    <3>5. DoneRefs(d)' = DoneRefs(d) \cup {r} /\ IsInjective(doneQ'[d])
      BY <1>a, <1>s, <1>u, <3>1, <3>3, <3>4 DEF RefOf, DoneRefs
    <3> QED
      BY <1>1, <3>1, <3>3, <3>4, <3>5 DEF RefOf
  <2> QED
    BY <2>1, <2>2 DEF RefInv
<1>17. WaitsForNothingReady'
  BY <1>1 DEF Detail, WaitsForNothingReady
<1>18. Implements
  <2>1. Param0 \in Data /\ Consumers(Param0) # {}
    BY GraphAssumption DEF GraphParameters
  <2>3. InRun \subseteq Pipe /\ InRun' = InRun /\ executed' = executed
    BY <1>7 DEF InRun, SameRun, SameNodes
  <2>4. Unfed' = Unfed
    <3>1. CASE d # Param0
      <4>1. \A q \in Pipe : held'[<<Param0, q>>] = held[<<Param0, q>>]
        BY <1>u, <2>1, <3>1
      <4> QED
        BY <2>3, <4>1 DEF Unfed, Consumers
    <3>2. CASE d = Param0
      <4>1. \A q \in Pipe \ {p} : held'[<<Param0, q>>] = held[<<Param0, q>>]
        BY <1>u, <3>2
      <4>2. \A c \in Consumers(Param0) : <<c, p>> \in executed
        BY <1>10, <2>1, <2>3, <3>2 DEF Full, Consumers, Readers, ReleasedBy
      <4>3. p \notin Unfed /\ p \notin Unfed'
        BY <2>3, <4>2 DEF Unfed, Consumers
      <4>4. \A q \in Pipe \ {p} : q \in Unfed' <=> q \in Unfed
        BY <2>3, <4>1 DEF Unfed, Consumers
      <4>5. Unfed \subseteq Pipe /\ Unfed' \subseteq Pipe
        BY <2>3 DEF Unfed
      <4> QED
        BY <4>3, <4>4, <4>5
    <3> QED
      BY <3>1, <3>2
  <2> QED
    BY <1>1, <1>7, <2>4, RunsStutter
<1> QED
  BY <1>7, <1>11, <1>12, <1>13, <1>14, <1>15, <1>16, <1>17, <1>18 DEF Detail

-----------------------------------------------------------------------------
(* A target triggers                                                        *)

\* ownTargetTriggerNode of the nodes that were blocked on a queue.
LEMMA WakeBlockedStep ==
  ASSUME Detail, GraphParameters, NEW t \in Target, WakeBlocked(t)
  PROVE  Detail' /\ Implements
<1> USE DEF userVars, queueVars, nodeVars, controlVars, descVars
<1>1. /\ UNCHANGED <<controlVars, nodeVars, queueVars, userVars>>
      /\ task[t].wake # <<>> /\ Trigger(Head(task[t].wake))
      /\ task' = [task EXCEPT ![t].wake = Tail(@)]
  BY DEF WakeBlocked
<1>2. task[t].at = "release"
  BY <1>1 DEF Detail, TaskShape, Shape, Typed, TasksTyped, TaskRecord
<1>3. PICK w \in Seq(Inst) : w = task[t].wake
  BY DEF Detail, Typed, TasksTyped, TaskRecord
<1>4. /\ Tail(w) \in Seq(Inst) /\ Head(w) \in Inst /\ Range(w) = Range(Tail(w)) \cup {Head(w)}
      /\ IsInjective(Tail(w)) /\ Head(w) \notin Range(Tail(w))
  <2>1. IsInjective(w) /\ w # <<>>
    BY <1>1, <1>3 DEF Detail, ListsInv
  <2> QED
    BY <2>1, Taken
<1>i. PICK i \in Inst : i = Head(w)
  BY <1>4
<1>g. PICK g \in Target : g = TargetOf[i[1]]
  BY DEF Inst, GraphParameters
<1>5. TaskIs(t, task[t].at, task[t].inst, task[t].k, task[t].prm, Tail(w), task[t].after)
  <2>1. task' = [task EXCEPT ![t].wake = Tail(w)]
    BY <1>1, <1>3
  <2> QED
    BY <1>4, <2>1, TaskSteps DEF Detail, Typed
<1>6. Others(t) /\ SameWork(t)
  BY <1>5 DEF TaskIs, Others, SameWork
<1>p. /\ <<"wake", t>> \in Place /\ <<"job", g>> \in Place /\ <<"wake", t>> # <<"job", g>>
      /\ Tokens(<<"wake", t>>) = Range(w) /\ Tokens(<<"job", g>>) = Range(jobQ[g])
      /\ Tokens(<<"wake", t>>)' = Range(Tail(w)) /\ i \in Tokens(<<"wake", t>>)
  <2>1. task'[t].wake = Tail(w)
    BY <1>5 DEF TaskIs
  <2>2. Tokens(<<"wake", t>>)' = Range(Tail(w))
    BY <2>1, TokensPrimed
  <2> QED
    BY <1>3, <1>4, <1>i, <2>2, Places, TokensOf
<1>n. i \notin Range(jobQ[g])
  BY <1>p DEF Detail, OnePlace
<1>j. /\ JobsTyped' /\ jobQ'[Host] = jobQ[Host]
      /\ Tokens(<<"job", g>>)' = Tokens(<<"job", g>>) \cup {i}
      /\ \A u \in Target \ {g} : jobQ'[u] = jobQ[u]
      /\ \A u \in Target : /\ IsInjective(jobQ'[u])
                           /\ \A j \in Range(jobQ'[u]) : TargetOf[j[1]] = u
  BY <1>1, <1>3, <1>g, <1>i, <1>n, Triggered DEF Detail, Typed
<1>7. Shape(t)'
  <2>1. Shape(t) /\ InRun' = InRun /\ executed' = executed
    BY <1>1 DEF Detail, TaskShape, InRun
  <2> QED
    BY <1>2, <1>5, <2>1 DEF Shape, TaskIs
<1>8. /\ SameReleasing /\ SamePending /\ SameStill /\ SameDue /\ SameRun /\ SameNodes
      /\ TaskShape' /\ ExecInv' /\ HostInv' /\ LeafTodo' = LeafTodo /\ Unverified'
  BY <1>1, <1>2, <1>6, <1>7, <1>j, EarlyStep
<1>9. Typed' /\ ListsInv'
  <2>1. Typed'
    BY <1>1, <1>5, <1>j DEF TaskIs, Detail, Typed, NodesTyped, QueuesTyped
  <2>2. \A u \in Target : IsInjective(task'[u].wake)
    BY <1>4, <1>5 DEF TaskIs, Detail, ListsInv
  <2> QED
    BY <1>1, <1>j, <2>1, <2>2 DEF Detail, ListsInv
<1>10. OnePlace' /\ DueInv'
  <2>1. SameOtherPlaces({<<"wake", t>>, <<"job", g>>})
    BY <1>1, <1>5, <1>j, OtherPlaces DEF TaskIs
  <2>2. Tokens(<<"wake", t>>)' = Tokens(<<"wake", t>>) \ {i} /\ {i} \subseteq Tokens(<<"wake", t>>)
    BY <1>4, <1>i, <1>p
  <2> QED
    BY <1>8, <1>j, <1>p, <2>1, <2>2, TokensMove DEF Detail
<1>11. BlockedInv'
  BY <1>1, <1>2, <1>5, <1>6, <1>8, AcquiringSame DEF TaskIs
<1>12. PrmInv'
  <2>1. PrmOf(t) /\ task'[t].prm = task[t].prm /\ task'[t].inst = task[t].inst /\ held' = held
        /\ task'[t].at = task[t].at /\ task'[t].k = task[t].k
    BY <1>1, <1>5 DEF TaskIs, Detail, PrmInv
  <2>2. PrmOf(t)'
    BY <2>1 DEF PrmOf, Has
  <2> QED
    BY <1>1, <1>6, <2>2, PrmSame DEF Detail
<1>13. HeldInv' /\ RefInv' /\ WaitsForNothingReady'
  BY <1>1, <1>8, HeldSame, RefsSame DEF Detail, WaitsForNothingReady
<1>14. Implements
  BY <1>1, <1>8, UnfedSame, RunsStutter
<1> QED
  BY <1>8, <1>9, <1>10, <1>11, <1>12, <1>13, <1>14 DEF Detail

\* A step of a task that released everything: nothing is released by it.
LEMMA LateStep ==
  ASSUME Detail, GraphParameters, NEW t \in Target, Others(t), task[t].at = "trigger",
         task'[t].at \in {"trigger", "idle"}, UNCHANGED <<executed, verified, freeQ>>,
         jobQ'[Host] = jobQ[Host], Shape(t)'
  PROVE  /\ SameReleasing /\ SameStill /\ SameRun /\ SameNodes
         /\ TaskShape' /\ HostInv' /\ LeafTodo' = LeafTodo
         /\ verified # 0 /\ Unverified'
<1>0. \A n \in Node : TargetOf[n] \in Target
  BY DEF GraphParameters
<1>1. SameRun /\ SameNodes
  BY RunSame DEF SameNodes
<1>2. ASSUME NEW n \in Node, NEW p \in Pipe
      PROVE  /\ OnTask(n, p, "release")' <=> OnTask(n, p, "release")
             /\ OnTask(n, p, "consumed")' <=> OnTask(n, p, "consumed")
             /\ OnTask(n, p, "release") \/ OnTask(n, p, "consumed")
                   => task'[TargetOf[n]].k = task[TargetOf[n]].k
  BY <1>0 DEF OnTask, Others
<1>3. SameReleasing
  BY <1>2 DEF SameReleasing, Releasing
<1>4. SameStill
  BY <1>2 DEF SameStill, StillHas
<1>5. TaskShape'
  BY <1>1, ShapeSame DEF Detail
<1>6. HostInv' /\ LeafTodo' = LeafTodo
  BY <1>1, <1>3, HostSame, LeavesSame DEF Detail
<1>7. verified # 0 /\ Unverified'
  BY Busy
<1> QED
  BY <1>1, <1>3, <1>4, <1>5, <1>6, <1>7

\* The node blocked behind this one is triggered, and the task is idle.
LEMMA FinishNodeStep ==
  ASSUME Detail, GraphParameters, NEW t \in Target, FinishNode(t)
  PROVE  Detail' /\ Implements
<1> USE DEF userVars, queueVars, nodeVars, controlVars, descVars
<1>1. /\ UNCHANGED <<controlVars, nodeVars, queueVars, userVars>>
      /\ task[t].at = "trigger" /\ task' = [task EXCEPT ![t] = Idle]
  BY DEF FinishNode
<1>2. PICK n \in Node, p \in Pipe :
         /\ task[t].inst = <<n, p>> /\ TargetOf[n] = t /\ task[t].k \in Nat \ {0}
         /\ OutNodes[n] \in Seq(Node)
  BY <1>1, ShapeOf DEF Detail
<1>3. task[t].k > Len(OutNodes[n]) /\ task[t].wake = <<>>
  BY <1>1, <1>2 DEF FinishNode, InstOf, Detail, TaskShape, Shape
<1>b. PICK b \in Inst \cup {NoActor} : b = task[t].after
  BY DEF Detail, Typed, TasksTyped, TaskRecord
<1>5. TaskIs(t, "idle", NoActor, 0, <<>>, <<>>, NoActor) /\ task'[t] = Idle
  BY <1>1, TaskSteps DEF Detail, Typed
<1>6. Others(t)
  BY <1>5 DEF TaskIs, Others
<1>7. Shape(t)'
  BY <1>5 DEF Shape, TaskIs
<1>p. /\ <<"after", t>> \in Place /\ Tokens(<<"after", t>>) = {b} \ {NoActor}
      /\ Tokens(<<"after", t>>)' = {}
  <2>1. task'[t].after = NoActor
    BY <1>5 DEF TaskIs
  <2>2. Tokens(<<"after", t>>)' = {}
    BY <2>1, TokensPrimed
  <2> QED
    BY <1>b, <2>2, Places, TokensOf
<1>j. /\ JobsTyped' /\ jobQ'[Host] = jobQ[Host]
      /\ \A u \in Target : /\ IsInjective(jobQ'[u])
                           /\ \A j \in Range(jobQ'[u]) : TargetOf[j[1]] = u
      /\ SameDue => OnePlace' /\ DueInv'
  <2>1. CASE b = NoActor
    <3>1. jobQ' = jobQ
      BY <1>b, <2>1 DEF FinishNode
    <3>2. SameOtherPlaces({})
      BY <1>1, <1>3, <1>5, <1>b, <2>1, <3>1, OtherPlaces DEF TaskIs
    <3> QED
      BY <3>1, <3>2, TokensSame DEF Detail, Typed, JobsTyped, ListsInv
  <2>2. CASE b # NoActor
    <3>1. PICK i \in Inst : i = b
      BY <2>2
    <3>2. PICK g \in Target : g = TargetOf[i[1]]
      BY DEF Inst, GraphParameters
    <3>3. Trigger(i)
      BY <1>b, <2>2, <3>1 DEF FinishNode
    <3>p. /\ <<"job", g>> \in Place /\ <<"after", t>> # <<"job", g>>
          /\ Tokens(<<"job", g>>) = Range(jobQ[g])
          /\ i \in Tokens(<<"after", t>>) /\ {i} \subseteq Tokens(<<"after", t>>)
          /\ Tokens(<<"after", t>>)' = Tokens(<<"after", t>>) \ {i}
      BY <1>p, <2>2, <3>1, Places, TokensOf
    <3>4. i \notin Range(jobQ[g])
      BY <1>p, <3>p DEF Detail, OnePlace
    <3>5. /\ JobsTyped' /\ jobQ'[Host] = jobQ[Host]
          /\ Tokens(<<"job", g>>)' = Tokens(<<"job", g>>) \cup {i}
          /\ \A u \in Target \ {g} : jobQ'[u] = jobQ[u]
          /\ \A u \in Target : /\ IsInjective(jobQ'[u])
                               /\ \A j \in Range(jobQ'[u]) : TargetOf[j[1]] = u
      BY <3>2, <3>3, <3>4, Triggered DEF Detail, Typed
    <3>6. SameOtherPlaces({<<"after", t>>, <<"job", g>>})
      BY <1>1, <1>3, <1>5, <3>5, OtherPlaces DEF TaskIs
    <3>7. SameDue => OnePlace' /\ DueInv'
      BY <1>p, <3>p, <3>5, <3>6, TokensMove DEF Detail
    <3> QED
      BY <3>5, <3>7
  <2> QED
    BY <2>1, <2>2
<1>8. /\ SameReleasing /\ SameStill /\ SameRun /\ SameNodes
      /\ TaskShape' /\ HostInv' /\ LeafTodo' = LeafTodo /\ Unverified'
  BY <1>1, <1>5, <1>6, <1>7, <1>j, LateStep DEF TaskIs
<1>9. SamePending
  <2>1. ASSUME NEW m \in Node, NEW x \in Node, NEW q \in Pipe
        PROVE  Pending(m, x, q)' <=> Pending(m, x, q)
    <3>1. CASE TargetOf[m] = t
      <4>1. ~Pending(m, x, q)'
        BY <1>5, <3>1 DEF TaskIs, Pending, Releasing, OnTask
      <4>2. ~Releasing(m, q)
        BY <1>1, <3>1 DEF Releasing, OnTask
      <4>3. OnTask(m, q, "trigger") => m = n
        BY <1>2, <3>1 DEF OnTask
      <4>4. \A j \in DOMAIN OutNodes[n] : ~(j >= task[t].k)
        BY <1>2, <1>3
      <4>5. ~Pending(m, x, q)
        BY <3>1, <4>2, <4>3, <4>4 DEF Pending
      <4> QED
        BY <4>1, <4>5
    <3>2. CASE TargetOf[m] # t
      <4>1. task'[TargetOf[m]] = task[TargetOf[m]]
        BY <1>6, <3>2 DEF Others, GraphParameters
      <4> QED
        BY <4>1 DEF Pending, Releasing, OnTask
    <3> QED
      BY <3>1, <3>2
  <2> QED
    BY <2>1 DEF SamePending
<1>10. SameDue /\ ExecInv'
  BY <1>8, <1>9, DueSame DEF Detail, Typed, NodesTyped
<1>11. Typed' /\ ListsInv'
  <2>1. Typed'
    BY <1>1, <1>5, <1>j DEF TaskIs, Detail, Typed, NodesTyped, QueuesTyped
  <2>2. \A u \in Target : IsInjective(task'[u].wake)
    BY <1>5, Empty DEF TaskIs, Detail, ListsInv
  <2> QED
    BY <1>1, <1>j, <2>1, <2>2 DEF Detail, ListsInv
<1>12. BlockedInv'
  BY <1>1, <1>5, <1>6, <1>10, AcquiringSame DEF TaskIs
<1>13. PrmInv'
  <2>1. PrmOf(t)'
    BY <1>5 DEF TaskIs, PrmOf
  <2> QED
    BY <1>1, <1>6, <2>1, PrmSame DEF Detail
<1>14. HeldInv' /\ RefInv' /\ WaitsForNothingReady'
  BY <1>1, <1>8, HeldSame, RefsSame DEF Detail, WaitsForNothingReady
<1>15. Implements
  BY <1>1, <1>8, UnfedSame, RunsStutter
<1> QED
  BY <1>8, <1>10, <1>11, <1>12, <1>13, <1>14, <1>15, <1>j DEF Detail

\* ownTargetNodeDescTriggerNextNodes: the last of the nodes it depends on triggers a node.
LEMMA TriggerNextStep ==
  ASSUME Detail, GraphParameters, NEW t \in Target, TriggerNext(t)
  PROVE  Detail' /\ Implements
<1> USE DEF userVars, queueVars, nodeVars, controlVars, descVars
<1>1. /\ UNCHANGED <<controlVars, nodeVars, queueVars, userVars>>
      /\ task[t].at = "trigger" /\ task' = [task EXCEPT ![t].k = @ + 1]
  BY DEF TriggerNext
<1>2. PICK n \in Node, p \in Pipe :
         /\ task[t].inst = <<n, p>> /\ TargetOf[n] = t /\ task[t].k \in Nat \ {0}
         /\ OutNodes[n] \in Seq(Node)
  BY <1>1, ShapeOf DEF Detail
<1>k. PICK k \in Nat \ {0} : k = task[t].k
  BY <1>2
<1>3. /\ k \in DOMAIN OutNodes[n] /\ k <= Len(OutNodes[n]) /\ k \in 1 .. Len(OutNodes[n])
      /\ DOMAIN OutNodes[n] = 1 .. Len(OutNodes[n])
  BY <1>1, <1>2, <1>k DEF TriggerNext, InstOf
<1>m. PICK m \in Node : m = OutNodes[n][k] /\ n \in InNodes(m)
  <2>1. OutNodes[n][k] \in Node
    BY <1>2, <1>3
  <2>2. OutNodes[n][k] \in Range(OutNodes[n])
    BY <1>3 DEF Range
  <2> QED
    BY <2>1, <2>2 DEF InNodes
<1>i. PICK i \in Inst : i = <<m, p>>
  BY DEF Inst
<1>g. PICK g \in Target : g = TargetOf[m]
  BY DEF GraphParameters
<1>s. task' = [task EXCEPT ![t].k = k + 1] /\ k + 1 \in Nat \ {0}
  BY <1>1, <1>k
<1>5. TaskIs(t, "trigger", <<n, p>>, k + 1, task[t].prm, task[t].wake, task[t].after)
  <2>1. TaskIs(t, task[t].at, task[t].inst, task[t].k + 1, task[t].prm, task[t].wake, task[t].after)
    BY <1>1, TaskSteps DEF Detail, Typed, NextParam
  <2> QED
    BY <1>1, <1>2, <1>k, <2>1
<1>6. Others(t)
  BY <1>5 DEF TaskIs, Others
<1>e. <<n, p>> \in executed /\ task[t].wake = <<>>
  <2>1. Shape(t)
    BY DEF Detail, TaskShape
  <2>2. task[t].inst[1] = n
    BY <1>2
  <2> QED
    BY <1>1, <1>2, <1>3, <1>k, <2>1, <2>2 DEF Shape
<1>c. /\ CanNodeExecute(m, p) => Trigger(i)
      /\ ~CanNodeExecute(m, p) => jobQ' = jobQ
  BY <1>2, <1>m, <1>i, <1>k DEF TriggerNext, InstOf
<1>7. Shape(t)'
  <2>1. k + 1 <= Len(OutNodes[n]) + 1 /\ k + 1 >= 1
    BY <1>3
  <2> QED
    BY <1>1, <1>2, <1>5, <1>e, <2>1 DEF Shape, TaskIs, Inst
\* Every node looks once at each that follows.
<1>8. /\ \A l, x \in Node, q \in Pipe :
            Pending(l, x, q)' <=> Pending(l, x, q) /\ <<l, x, q>> # <<n, m, p>>
      /\ Pending(n, m, p)
      /\ \A l \in InNodes(m) : l # n => ~Pending(l, m, p)
  <2>1. ASSUME NEW l \in Node, NEW x \in Node, NEW q \in Pipe, TargetOf[l] = t
        PROVE  /\ Pending(l, x, q) <=> /\ l = n /\ q = p
                                       /\ \E j \in DOMAIN OutNodes[n] : j >= k /\ OutNodes[n][j] = x
               /\ Pending(l, x, q)' <=> /\ l = n /\ q = p
                                        /\ \E j \in DOMAIN OutNodes[n] : j >= k + 1 /\ OutNodes[n][j] = x
    <3>1. ~Releasing(l, q) /\ (OnTask(l, q, "trigger") <=> l = n /\ q = p)
      BY <1>1, <1>2, <2>1 DEF Releasing, OnTask
    <3>2. ~Releasing(l, q)' /\ (OnTask(l, q, "trigger")' <=> l = n /\ q = p) /\ task'[t].k = k + 1
      BY <1>5, <2>1 DEF Releasing, OnTask, TaskIs
    <3> QED
      BY <1>k, <2>1, <3>1, <3>2 DEF Pending
  <2>2. ASSUME NEW x \in Node
        PROVE  (\E j \in DOMAIN OutNodes[n] : j >= k + 1 /\ OutNodes[n][j] = x)
                 <=> (\E j \in DOMAIN OutNodes[n] : j >= k /\ OutNodes[n][j] = x) /\ x # m
    <3>1. \A j \in DOMAIN OutNodes[n] : OutNodes[n][j] = m => j = k
      BY <1>3, <1>m DEF GraphParameters, IsInjective
    <3>2. \A j \in DOMAIN OutNodes[n] : j >= k + 1 <=> j >= k /\ j # k
      BY <1>3
    <3> QED
      BY <1>3, <1>m, <3>1, <3>2
  <2>3. \E j \in DOMAIN OutNodes[n] : j >= k /\ OutNodes[n][j] = m
    BY <1>3, <1>m
  <2>4. ASSUME NEW l \in Node, NEW x \in Node, NEW q \in Pipe, TargetOf[l] # t
        PROVE  Pending(l, x, q)' <=> Pending(l, x, q)
    <3>1. task'[TargetOf[l]] = task[TargetOf[l]]
      BY <1>6, <2>4 DEF Others, GraphParameters
    <3> QED
      BY <3>1 DEF Pending, Releasing, OnTask
  <2>5. \A l, x \in Node, q \in Pipe :
            Pending(l, x, q)' <=> Pending(l, x, q) /\ <<l, x, q>> # <<n, m, p>>
    <3> TAKE l, x \in Node, q \in Pipe
    <3>1. CASE TargetOf[l] = t
      BY <2>1, <2>2, <3>1
    <3>2. CASE TargetOf[l] # t
      BY <1>2, <2>4, <3>2
    <3> QED
      BY <3>1, <3>2
  <2>6. Pending(n, m, p)
    BY <1>2, <2>1, <2>3
  <2>7. ASSUME NEW l \in InNodes(m) PROVE l \in Node /\ TargetOf[l] = t
    <3>1. TargetOf[l] = TargetOf[n]
      BY <1>m DEF GraphParameters
    <3> QED
      BY <1>2, <3>1 DEF InNodes
  <2> QED
    BY <2>1, <2>5, <2>6, <2>7
<1>9. /\ ~Due(i) /\ (Due(i)' <=> CanNodeExecute(m, p))
      /\ \A x \in Inst \ {i} : Due(x)' <=> Due(x)
      /\ \A x \in Inst : Enabled(x) => Enabled(x)'
      /\ InRun' = InRun
  <2>1. InRun' = InRun /\ executed' = executed
    BY <1>1, RunSame DEF SameRun
  <2>2. ~Enabled(i)
    BY <1>8, <1>m, <1>i DEF Enabled
  <2>3. i \notin executed
    BY <2>2 DEF Detail, ExecInv
  <2>4. p \in InRun
    BY <1>e, <1>i, <2>3 DEF Detail, ExecInv
  <2>5. Enabled(i)' <=> CanNodeExecute(m, p)
    <3>1. \A l \in InNodes(m) : l \in Node /\ ~Pending(l, m, p)'
      BY <1>8 DEF InNodes
    <3> QED
      BY <1>i, <2>1, <3>1 DEF Enabled, CanNodeExecute
  <2>6. ASSUME NEW x \in Inst \ {i} PROVE Enabled(x)' <=> Enabled(x)
    <3>1. PICK y \in Node, q \in Pipe : x = <<y, q>>
      BY DEF Inst
    <3>2. <<y, q>> # <<m, p>>
      BY <1>i, <3>1
    <3>3. \A l \in InNodes(y) : l \in Node /\ (Pending(l, y, q)' <=> Pending(l, y, q))
      BY <1>8, <3>2 DEF InNodes
    <3> QED
      BY <2>1, <3>1, <3>3 DEF Enabled
  <2>7. Due(i)' <=> CanNodeExecute(m, p)
    BY <1>i, <2>1, <2>3, <2>4, <2>5 DEF Due
  <2> QED
    BY <2>1, <2>2, <2>6, <2>7 DEF Due
<1>p. <<"job", g>> \in Place /\ Tokens(<<"job", g>>) = Range(jobQ[g]) /\ i \notin Range(jobQ[g])
  <2>1. ~Somewhere(i)
    BY <1>9 DEF Detail, DueInv
  <2>2. <<"job", g>> \in Place /\ Tokens(<<"job", g>>) = Range(jobQ[g])
    BY Places, TokensOf
  <2> QED
    BY <2>1, <2>2 DEF Somewhere
<1>j. /\ JobsTyped' /\ jobQ'[Host] = jobQ[Host] /\ OnePlace' /\ DueInv'
      /\ \A u \in Target : /\ IsInjective(jobQ'[u])
                           /\ \A j \in Range(jobQ'[u]) : TargetOf[j[1]] = u
  <2>1. CASE ~CanNodeExecute(m, p)
    <3>1. jobQ' = jobQ
      BY <1>c, <2>1
    <3>2. SameOtherPlaces({})
      BY <1>1, <1>2, <1>5, <3>1, OtherPlaces DEF TaskIs
    <3>3. SameDue
      BY <1>9, <2>1 DEF SameDue
    <3> QED
      BY <3>1, <3>2, <3>3, TokensSame DEF Detail, Typed, JobsTyped, ListsInv
  <2>2. CASE CanNodeExecute(m, p)
    <3>1. g = TargetOf[i[1]] /\ Trigger(i)
      BY <1>c, <1>g, <1>i, <2>2
    <3>2. /\ JobsTyped' /\ jobQ'[Host] = jobQ[Host]
          /\ Tokens(<<"job", g>>)' = Tokens(<<"job", g>>) \cup {i}
          /\ \A u \in Target \ {g} : jobQ'[u] = jobQ[u]
          /\ \A u \in Target : /\ IsInjective(jobQ'[u])
                               /\ \A j \in Range(jobQ'[u]) : TargetOf[j[1]] = u
      BY <1>p, <3>1, Triggered DEF Detail, Typed
    <3>3. SameOtherPlaces({<<"job", g>>})
      BY <1>1, <1>2, <1>5, <3>2, OtherPlaces DEF TaskIs
    <3>4. \A x \in {i} : ~Due(x)
      BY <1>9
    <3>5. \A x \in Inst : Due(x)' <=> Due(x) \/ x \in {i}
      BY <1>9, <2>2
    <3>6. {i} \in SUBSET Inst
      OBVIOUS
    <3>7. OnePlace' /\ DueInv'
      BY <1>p, <3>2, <3>3, <3>4, <3>5, <3>6, TokensCome DEF Detail
    <3> QED
      BY <3>2, <3>7
  <2> QED
    BY <2>1, <2>2
<1>10. /\ SameReleasing /\ SameStill /\ SameRun /\ SameNodes
       /\ TaskShape' /\ HostInv' /\ LeafTodo' = LeafTodo /\ Unverified'
  BY <1>1, <1>5, <1>6, <1>7, <1>j, LateStep DEF TaskIs
<1>11. ExecInv'
  BY <1>1, <1>9 DEF Detail, ExecInv, Typed, NodesTyped
<1>12. Typed' /\ ListsInv'
  <2>1. Typed'
    BY <1>1, <1>5, <1>j DEF TaskIs, Detail, Typed, NodesTyped, QueuesTyped
  <2>2. \A u \in Target : IsInjective(task'[u].wake)
    BY <1>5 DEF TaskIs, Detail, ListsInv
  <2> QED
    BY <1>1, <1>j, <2>1, <2>2 DEF Detail, ListsInv
<1>13. BlockedInv'
  <2>1. \A x \in Inst : x \in Tokens(<<"acquire", TargetOf[x[1]]>>)'
                      => x \in Tokens(<<"acquire", TargetOf[x[1]]>>)
    BY <1>5, <1>6, AcquiringKept DEF TaskIs
  <2>2. \A x \in Inst : Due(x) => Due(x)'
    BY <1>9
  <2> QED
    BY <1>1, <2>1, <2>2 DEF Detail, Typed, NodesTyped, BlockedInv, Prev
<1>14. PrmInv'
  <2>1. PrmOf(t)'
    BY <1>5 DEF TaskIs, PrmOf, Has
  <2> QED
    BY <1>1, <1>6, <2>1, PrmSame DEF Detail
<1>15. HeldInv' /\ RefInv' /\ WaitsForNothingReady'
  BY <1>1, <1>10, HeldSame, RefsSame DEF Detail, WaitsForNothingReady
<1>16. Implements
  BY <1>1, <1>10, UnfedSame, RunsStutter
<1> QED
  BY <1>10, <1>11, <1>12, <1>13, <1>14, <1>15, <1>16, <1>j DEF Detail

-----------------------------------------------------------------------------
(* A target reports                                                         *)

\* As long as a node is not complete some leaf node is not.
LEMMA SomeLeaf ==
  ASSUME ExecInv, GraphParameters, NEW n \in Node, NEW p \in Pipe,
         <<n, p>> \notin executed \/ Releasing(n, p)
  PROVE  \E l \in Leaf : <<l, p>> \notin executed \/ Releasing(l, p)
<1> SUFFICES ASSUME \A l \in Leaf : <<l, p>> \in executed /\ ~Releasing(l, p) PROVE FALSE
  OBVIOUS
<1> DEFINE S == {x \in Node : <<x, p>> \in executed /\ ~Releasing(x, p)}
<1>1. Leaf \subseteq S
  BY GraphAssumption
<1>2. ASSUME NEW x \in S, NEW y \in InNodes(x) PROVE y \in S
  <2>1. Enabled(<<x, p>>)
    BY DEF ExecInv
  <2>2. <<y, p>> \in executed /\ ~Pending(y, x, p)
    BY <2>1 DEF Enabled
  <2> QED
    BY <2>2 DEF Pending, InNodes
<1>3. S \in SUBSET Node /\ \A x \in S : InNodes(x) \subseteq S
  BY <1>2
<1>4. n \notin S
  OBVIOUS
<1> HIDE DEF S
<1> QED
  BY <1>1, <1>3, <1>4 DEF GraphParameters

\* A message about a reference is none about a node.
LEMMA HostHears ==
  ASSUME HostInv, JobsTyped, NEW x \in HostJob, x[1] = "consumed",
         jobQ'[Host] = Append(jobQ[Host], x), SameRun, SameNodes, SameReleasing
  PROVE  HostInv' /\ LeafTodo' = LeafTodo
<1>1. PICK q \in Seq(HostJob) : q = jobQ[Host]
  BY DEF JobsTyped
<1>2. /\ Range(Append(q, x)) = Range(q) \cup {x} /\ DOMAIN q = 1 .. Len(q)
      /\ DOMAIN Append(q, x) = 1 .. Len(q) + 1 /\ Append(q, x)[Len(q) + 1] = x
      /\ \A j \in 1 .. Len(q) : Append(q, x)[j] = q[j]
      /\ Len(q) \in Nat
  BY Appended, ListOf
<1>3. ASSUME NEW j \in DOMAIN jobQ'[Host], NEW n \in Node, NEW p \in Pipe
      PROVE  Reported(j, n, p)' <=> j \in DOMAIN jobQ[Host] /\ Reported(j, n, p)
  <2>1. CASE j = Len(q) + 1
    BY <1>1, <1>2, <2>1 DEF Reported
  <2>2. CASE j # Len(q) + 1
    <3>1. j \in 1 .. Len(q)
      BY <1>1, <1>2, <2>2
    <3> QED
      BY <1>1, <1>2, <3>1 DEF Reported
  <2> QED
    BY <2>1, <2>2
<1>4. DOMAIN jobQ[Host] \subseteq DOMAIN jobQ'[Host]
  BY <1>1, <1>2
<1>5. \A n \in Node, p \in Pipe : Releasing(n, p)' <=> Releasing(n, p)
  BY DEF SameReleasing
<1>6. Leaf \subseteq Node
  BY GraphAssumption
<1>7. HostInv'
  <2> SUFFICES ASSUME NEW n \in Node, NEW p \in Pipe, NEW j \in DOMAIN jobQ'[Host],
                      Reported(j, n, p)'
               PROVE  /\ p \in InRun' /\ <<n, p>> \in executed' /\ ~Releasing(n, p)'
                      /\ \A h \in DOMAIN jobQ'[Host] : Reported(h, n, p)' => j = h
                      /\ \E l \in Leaf : \/ <<l, p>> \notin executed'
                                         \/ Releasing(l, p)'
                                         \/ \E h \in DOMAIN jobQ'[Host] : h >= j /\ Reported(h, l, p)'
    BY DEF HostInv
  <2>1. j \in DOMAIN jobQ[Host] /\ Reported(j, n, p)
    BY <1>3
  <2>2. /\ p \in InRun /\ <<n, p>> \in executed /\ ~Releasing(n, p)
        /\ \A h \in DOMAIN jobQ[Host] : Reported(h, n, p) => j = h
    BY <2>1 DEF HostInv
  <2>3. PICK l \in Leaf : \/ <<l, p>> \notin executed
                          \/ Releasing(l, p)
                          \/ \E h \in DOMAIN jobQ[Host] : h >= j /\ Reported(h, l, p)
    BY <2>1 DEF HostInv
  <2>4. l \in Node
    BY <1>6
  <2> QED
    BY <1>3, <1>4, <1>5, <2>2, <2>3, <2>4 DEF SameRun, SameNodes
<1>8. LeafTodo' = LeafTodo
  BY <1>1, <1>2, LeavesSame
<1> QED
  BY <1>7, <1>8

\* ownTargetNodeDescSendRefConsumed.
LEMMA SendRefConsumedStep ==
  ASSUME Detail, GraphParameters, NEW t \in Target, SendRefConsumed(t)
  PROVE  Detail' /\ Implements
<1> USE DEF userVars, queueVars, nodeVars, controlVars, descVars
<1>1. /\ UNCHANGED <<controlVars, nodeVars, queueVars, userVars>>
      /\ task[t].at = "consumed" /\ Send(Host, <<"consumed", Param(t)>>)
      /\ task' = [task EXCEPT ![t].at = "release", ![t].k = @ + 1]
  BY DEF SendRefConsumed
<1>2. PICK n \in Node, p \in Pipe :
         /\ task[t].inst = <<n, p>> /\ TargetOf[n] = t /\ task[t].k \in Nat \ {0}
         /\ Params[n] \in Seq(Data)
  BY <1>1, ShapeOf DEF Detail
<1>k. PICK k \in Nat \ {0} : k = task[t].k
  BY <1>2
<1>3. /\ <<n, p>> \in executed /\ p \in InRun /\ k <= Len(Params[n])
      /\ Params[n][k] \in UserData /\ Len(task[t].prm) = Len(Params[n])
      /\ task[t].wake = <<>>
  <2>1. Shape(t)
    BY DEF Detail, TaskShape
  <2>2. task[t].inst[1] = n /\ task[t].inst[2] = p
    BY <1>2
  <2> QED
    BY <1>1, <1>2, <1>k, <2>1, <2>2 DEF Shape
<1>5. TaskIs(t, "release", <<n, p>>, k + 1, task[t].prm, <<>>, task[t].after)
  <2>1. TaskIs(t, "release", task[t].inst, task[t].k + 1, task[t].prm, task[t].wake, task[t].after)
    BY <1>1, TaskSteps DEF Detail, Typed
  <2> QED
    BY <1>2, <1>3, <1>k, <2>1
<1>6. Others(t) /\ Late(t) /\ ~(task'[t].at = "acquire")
  BY <1>1, <1>2, <1>5 DEF TaskIs, Others, Late
<1>x. PICK x \in HostJob : x = <<"consumed", Params[n][k]>>
  BY <1>3 DEF HostJob
<1>j. /\ JobsTyped' /\ jobQ'[Host] = Append(jobQ[Host], x)
      /\ \A u \in Target : jobQ'[u] = jobQ[u]
  <2>1. Send(Host, x)
    BY <1>1, <1>2, <1>k, <1>x DEF Param, InstOf
  <2> QED
    BY <2>1, SendsToHost DEF Detail, Typed
<1>7. SameRun /\ SameNodes /\ SameReleasing /\ SamePending
  BY <1>1, <1>6, RunSame, WorkSame DEF SameNodes
<1>8. SameStill
  <2>1. ASSUME NEW l \in Node, NEW d \in Data, NEW q \in Pipe
        PROVE  StillHas(l, d, q)' <=> StillHas(l, d, q)
    <3>1. CASE TargetOf[l] = t
      <4>0. task'[t].inst = <<n, p>> /\ task'[t].at = "release"
        BY <1>5 DEF TaskIs
      <4>1. /\ ~OnTask(l, q, "release") /\ (OnTask(l, q, "consumed") <=> l = n /\ q = p)
            /\ (OnTask(l, q, "release")' <=> l = n /\ q = p) /\ ~OnTask(l, q, "consumed")'
        <5>1. ~OnTask(l, q, "release") /\ ~OnTask(l, q, "consumed")'
          BY <1>1, <3>1, <4>0 DEF OnTask
        <5>2. OnTask(l, q, "consumed") <=> l = n /\ q = p
          BY <1>1, <1>2, <3>1 DEF OnTask
        <5>3. OnTask(l, q, "release")' <=> l = n /\ q = p
          BY <3>1, <4>0 DEF OnTask
        <5> QED
          BY <5>1, <5>2, <5>3
      <4>2. task'[t].k = k + 1
        BY <1>5 DEF TaskIs
      <4>3. DOMAIN Params[n] = 1 .. Len(Params[n])
        BY <1>2, ListOf
      <4>4. \A j \in DOMAIN Params[n] : j > k <=> j >= k + 1
        BY <4>3
      <4> QED
        BY <1>k, <3>1, <4>1, <4>2, <4>4 DEF StillHas
    <3>2. CASE TargetOf[l] # t
      <4>1. task'[TargetOf[l]] = task[TargetOf[l]]
        BY <1>6, <3>2 DEF Others, GraphParameters
      <4> QED
        BY <4>1 DEF StillHas, OnTask
    <3> QED
      BY <3>1, <3>2
  <2> QED
    BY <2>1 DEF SameStill
<1>9. SameDue /\ ExecInv'
  BY <1>7, DueSame DEF Detail, Typed, NodesTyped
<1>10. TaskShape'
  <2>1. InRun' = InRun /\ executed' = executed
    BY <1>7 DEF SameRun, SameNodes
  <2>2. k + 1 <= Len(Params[n]) + 1 /\ k + 1 >= 1
    BY <1>2, <1>3
  <2>3. Shape(t)'
    BY <1>2, <1>3, <1>5, <2>1, <2>2 DEF Shape, TaskIs, Inst
  <2> QED
    BY <1>6, <1>7, <2>1, <2>3, ShapeSame DEF Detail
<1>11. HostInv' /\ LeafTodo' = LeafTodo
  BY <1>7, <1>j, <1>x, HostHears DEF Detail, Typed
<1>12. Typed' /\ ListsInv'
  <2>1. Typed'
    BY <1>1, <1>5, <1>j DEF TaskIs, Detail, Typed, NodesTyped, QueuesTyped
  <2>2. IsInjective(task'[t].wake)
    BY <1>5, Empty DEF TaskIs
  <2> QED
    BY <1>1, <1>6, <1>j, <2>1, <2>2, ListsSame DEF Detail
<1>13. OnePlace' /\ DueInv'
  <2>1. SameOtherPlaces({})
    BY <1>1, <1>3, <1>5, <1>j, OtherPlaces DEF TaskIs
  <2> QED
    BY <1>9, <2>1, TokensSame DEF Detail
<1>14. BlockedInv'
  BY <1>1, <1>6, <1>9, AcquiringSame
<1>15. PrmInv'
  <2>1. /\ PrmOf(t) /\ task'[t].prm = task[t].prm /\ task'[t].inst = task[t].inst
        /\ held' = held
    BY <1>1, <1>2, <1>5 DEF TaskIs, Detail, PrmInv
  <2>2. DOMAIN task[t].prm \subseteq Nat
    BY ListOf DEF Detail, Typed, TasksTyped, TaskRecord
  <2>3. ASSUME NEW j \in DOMAIN task[t].prm, Has(t, j)' PROVE Has(t, j)
    <3>1. j >= k + 1
      BY <1>5, <2>3 DEF Has, TaskIs
    <3>2. j > k
      BY <2>2, <3>1
    <3> QED
      BY <1>1, <1>k, <3>2 DEF Has
  <2>4. PrmOf(t)'
    BY <2>1, <2>3 DEF PrmOf
  <2> QED
    BY <1>1, <1>6, <2>4, PrmSame DEF Detail
<1>16. HeldInv' /\ RefInv' /\ WaitsForNothingReady' /\ Unverified'
  BY <1>1, <1>7, <1>8, HeldSame, RefsSame, Busy DEF Detail, WaitsForNothingReady
<1>17. Implements
  BY <1>1, <1>7, <1>11, UnfedSame, RunsStutter
<1> QED
  BY <1>9, <1>10, <1>11, <1>12, <1>13, <1>14, <1>15, <1>16, <1>17 DEF Detail

\* The host hears that a node is complete whose task has released everything.
LEMMA HostHearsNode ==
  ASSUME HostInv, ExecInv, JobsTyped, GraphParameters, NEW n \in Node, NEW p \in Pipe,
         jobQ'[Host] = IF SendsComplete(n) THEN Append(jobQ[Host], <<"complete", <<n, p>>>>)
                       ELSE jobQ[Host],
         SameRun, SameNodes, p \in InRun, <<n, p>> \in executed, Releasing(n, p),
         \A l \in Node, q \in Pipe : Releasing(l, q)' <=> Releasing(l, q) /\ <<l, q>> # <<n, p>>
  PROVE  HostInv' /\ LeafTodo' = LeafTodo
<1>1. PICK s \in Seq(HostJob) : s = jobQ[Host]
  BY DEF JobsTyped
<1>x. PICK x \in HostJob : x = <<"complete", <<n, p>>>>
  BY DEF HostJob, Inst
<1>2. /\ Range(Append(s, x)) = Range(s) \cup {x} /\ DOMAIN s = 1 .. Len(s)
      /\ DOMAIN Append(s, x) = 1 .. Len(s) + 1 /\ Append(s, x)[Len(s) + 1] = x
      /\ \A j \in 1 .. Len(s) : Append(s, x)[j] = s[j]
      /\ Len(s) \in Nat
  BY Appended, ListOf
<1>6. Leaf \subseteq Node /\ \A l \in Leaf : SendsComplete(l)
  BY GraphAssumption DEF SendsComplete
<1>3. /\ DOMAIN jobQ[Host] \subseteq DOMAIN jobQ'[Host]
      /\ \A j \in DOMAIN jobQ[Host], h \in DOMAIN jobQ'[Host] : h = Len(s) + 1 => h >= j /\ h # j
      /\ \A j \in DOMAIN jobQ'[Host] : j \notin DOMAIN jobQ[Host] =>
            j = Len(s) + 1 /\ SendsComplete(n)
      /\ SendsComplete(n) => Len(s) + 1 \in DOMAIN jobQ'[Host]
      /\ \A j \in DOMAIN jobQ'[Host] : j >= j
  <2>1. CASE SendsComplete(n)
    <3>1. DOMAIN jobQ'[Host] = 1 .. Len(s) + 1
      BY <1>1, <1>x, <1>2, <2>1
    <3> QED
      BY <1>1, <1>2, <2>1, <3>1
  <2>2. CASE ~SendsComplete(n)
    <3>1. DOMAIN jobQ'[Host] = 1 .. Len(s)
      BY <1>1, <1>2, <2>2
    <3> QED
      BY <1>1, <1>2, <2>2, <3>1
  <2> QED
    BY <2>1, <2>2
<1>4. ASSUME NEW j \in DOMAIN jobQ'[Host], NEW l \in Node, NEW q \in Pipe
      PROVE  Reported(j, l, q)' <=> \/ j \in DOMAIN jobQ[Host] /\ Reported(j, l, q)
                                    \/ j = Len(s) + 1 /\ <<l, q>> = <<n, p>>
  <2>1. CASE j = Len(s) + 1
    <3>1. j \notin DOMAIN jobQ[Host]
      BY <1>1, <1>2, <2>1
    <3>2. jobQ'[Host][j] = <<"complete", <<n, p>>>>
      BY <1>1, <1>x, <1>2, <1>3, <2>1, <3>1
    <3> QED
      BY <2>1, <3>1, <3>2 DEF Reported
  <2>2. CASE j # Len(s) + 1
    <3>1. j \in 1 .. Len(s) /\ j \in DOMAIN jobQ[Host]
      BY <1>1, <1>2, <1>3, <2>2
    <3>2. jobQ'[Host][j] = jobQ[Host][j]
      BY <1>1, <1>x, <1>2, <3>1
    <3> QED
      BY <2>2, <3>1, <3>2 DEF Reported
  <2> QED
    BY <2>1, <2>2
<1>5. \A j \in DOMAIN jobQ[Host] : ~Reported(j, n, p)
  BY DEF HostInv
<1>7. HostInv'
  <2> SUFFICES ASSUME NEW l \in Node, NEW q \in Pipe, NEW j \in DOMAIN jobQ'[Host],
                      Reported(j, l, q)'
               PROVE  /\ q \in InRun' /\ <<l, q>> \in executed' /\ ~Releasing(l, q)'
                      /\ \A h \in DOMAIN jobQ'[Host] : Reported(h, l, q)' => j = h
                      /\ \E m \in Leaf : \/ <<m, q>> \notin executed'
                                         \/ Releasing(m, q)'
                                         \/ \E h \in DOMAIN jobQ'[Host] : h >= j /\ Reported(h, m, q)'
    BY DEF HostInv
  <2>1. CASE <<l, q>> = <<n, p>>
    <3>1. j = Len(s) + 1 /\ SendsComplete(n)
      BY <1>3, <1>4, <1>5, <2>1
    <3>2. \A h \in DOMAIN jobQ'[Host] : Reported(h, l, q)' => j = h
      BY <1>4, <1>5, <2>1, <3>1
    <3>3. \E m \in Leaf : \/ <<m, q>> \notin executed'
                          \/ Releasing(m, q)'
                          \/ \E h \in DOMAIN jobQ'[Host] : h >= j /\ Reported(h, m, q)'
      <4>1. CASE n \in Leaf
        BY <1>3, <2>1, <4>1
      <4>2. CASE n \notin Leaf
        <5>1. PICK m \in Leaf : <<m, p>> \notin executed \/ Releasing(m, p)
          BY SomeLeaf
        <5>2. m \in Node /\ <<m, p>> # <<n, p>>
          BY <1>6, <4>2
        <5> QED
          BY <2>1, <5>1, <5>2 DEF SameNodes
      <4> QED
        BY <4>1, <4>2
    <3> QED
      BY <2>1, <3>2, <3>3 DEF SameRun, SameNodes
  <2>2. CASE <<l, q>> # <<n, p>>
    <3>1. j \in DOMAIN jobQ[Host] /\ Reported(j, l, q)
      BY <1>4, <2>2
    <3>2. /\ q \in InRun /\ <<l, q>> \in executed /\ ~Releasing(l, q)
          /\ \A h \in DOMAIN jobQ[Host] : Reported(h, l, q) => j = h
      BY <3>1 DEF HostInv
    <3>3. \A h \in DOMAIN jobQ'[Host] : Reported(h, l, q)' => j = h
      BY <1>4, <2>2, <3>2
    <3>4. PICK m \in Leaf : \/ <<m, q>> \notin executed
                            \/ Releasing(m, q)
                            \/ \E h \in DOMAIN jobQ[Host] : h >= j /\ Reported(h, m, q)
      BY ONLY HostInv, l \in Node, q \in Pipe, <3>1 DEF HostInv
    <3>5. m \in Node /\ SendsComplete(m)
      BY <1>6
    <3>6. CASE Releasing(m, q) /\ <<m, q>> = <<n, p>>
      <4>1. Len(s) + 1 \in DOMAIN jobQ'[Host] /\ m = n
        BY <1>3, <3>5, <3>6
      <4>2. Len(s) + 1 >= j /\ Reported(Len(s) + 1, m, q)'
        BY <1>3, <1>4, <3>1, <3>5, <3>6, <4>1
      <4> QED
        BY <3>2, <3>3, <2>2, <4>1, <4>2 DEF SameRun, SameNodes
    <3>7. CASE <<m, q>> \notin executed \/ (Releasing(m, q) /\ <<m, q>> # <<n, p>>)
      BY <2>2, <3>2, <3>3, <3>5, <3>7 DEF SameRun, SameNodes
    <3>8. CASE \E h \in DOMAIN jobQ[Host] : h >= j /\ Reported(h, m, q)
      <4>1. \E h \in DOMAIN jobQ'[Host] : h >= j /\ Reported(h, m, q)'
        BY <1>3, <1>4, <3>5, <3>8
      <4> QED
        BY <2>2, <3>2, <3>3, <4>1 DEF SameRun, SameNodes
    <3> QED
      BY <3>4, <3>6, <3>7, <3>8
  <2> QED
    BY <2>1, <2>2
<1>8. LeafTodo' = LeafTodo
  <2>1. ASSUME NEW l \in Leaf, NEW q \in Pipe PROVE Incomplete(l, q)' <=> Incomplete(l, q)
    <3>1. l \in Node /\ SendsComplete(l)
      BY <1>6
    <3>2. CASE <<l, q>> = <<n, p>>
      <4>1. <<"complete", <<l, q>>>> \in Range(jobQ'[Host])
        BY <1>1, <1>2, <1>x, <3>1, <3>2
      <4> QED
        BY <3>2, <4>1 DEF Incomplete
    <3>3. CASE <<l, q>> # <<n, p>>
      <4>1. <<"complete", <<l, q>>>> \in Range(jobQ'[Host]) <=> <<"complete", <<l, q>>>> \in Range(jobQ[Host])
        <5>1. CASE SendsComplete(n)
          <6>1. Range(jobQ'[Host]) = Range(jobQ[Host]) \cup {x}
            BY <1>1, <1>2, <1>x, <5>1
          <6>2. <<"complete", <<l, q>>>> # x
            BY <1>x, <3>3
          <6> QED
            BY <6>1, <6>2
        <5>2. CASE ~SendsComplete(n)
          BY <5>2
        <5> QED
          BY <5>1, <5>2
      <4> QED
        BY <3>1, <3>3, <4>1 DEF Incomplete, SameNodes
    <3> QED
      BY <3>2, <3>3
  <2>2. \A q \in Pipe : {l \in Leaf : Incomplete(l, q)}' = {l \in Leaf : Incomplete(l, q)}
    BY <2>1
  <2> QED
    BY <2>2 DEF LeafTodo, SameRun
<1> QED
  BY <1>7, <1>8

\* ownTargetNodeDescSendComplete.
LEMMA SendCompleteStep ==
  ASSUME Detail, GraphParameters, NEW t \in Target, SendComplete(t)
  PROVE  Detail' /\ Implements
<1> USE DEF userVars, queueVars, nodeVars, controlVars, descVars
<1>1. /\ UNCHANGED <<controlVars, nodeVars, queueVars, userVars>>
      /\ task[t].at = "release" /\ task[t].wake = <<>>
      /\ task' = [task EXCEPT ![t].at = "trigger", ![t].k = 1]
  BY DEF SendComplete, PastParams
<1>2. PICK n \in Node, p \in Pipe :
         /\ task[t].inst = <<n, p>> /\ TargetOf[n] = t /\ task[t].k \in Nat \ {0}
         /\ Params[n] \in Seq(Data) /\ OutNodes[n] \in Seq(Node)
  BY <1>1, ShapeOf DEF Detail
<1>3. /\ <<n, p>> \in executed /\ p \in InRun /\ task[t].k > Len(Params[n])
  <2>1. Shape(t)
    BY DEF Detail, TaskShape
  <2>2. task[t].inst[1] = n /\ task[t].inst[2] = p
    BY <1>2
  <2> QED
    BY <1>1, <1>2, <2>1, <2>2 DEF Shape, SendComplete, PastParams, InstOf
<1>5. TaskIs(t, "trigger", <<n, p>>, 1, task[t].prm, <<>>, task[t].after)
  <2>1. TaskIs(t, "trigger", task[t].inst, 1, task[t].prm, task[t].wake, task[t].after)
    BY <1>1, TaskSteps DEF Detail, Typed
  <2> QED
    BY <1>1, <1>2, <2>1
<1>6. Others(t) /\ ~(task'[t].at = "acquire")
  BY <1>5 DEF TaskIs, Others
<1>x. PICK x \in HostJob : x = <<"complete", <<n, p>>>>
  BY DEF HostJob, Inst
<1>j. /\ JobsTyped' /\ \A u \in Target : jobQ'[u] = jobQ[u]
      /\ jobQ'[Host] = IF SendsComplete(n) THEN Append(jobQ[Host], <<"complete", <<n, p>>>>)
                       ELSE jobQ[Host]
  <2>1. CASE SendsComplete(n)
    <3>1. Send(Host, x)
      BY <1>2, <1>x, <2>1 DEF SendComplete, InstOf
    <3> QED
      BY <1>x, <2>1, <3>1, SendsToHost DEF Detail, Typed
  <2>2. CASE ~SendsComplete(n)
    <3>1. jobQ' = jobQ
      BY <1>2, <2>2 DEF SendComplete, InstOf
    <3> QED
      BY <2>2, <3>1 DEF Detail, Typed, JobsTyped
  <2> QED
    BY <2>1, <2>2
<1>7. SameRun /\ SameNodes
  BY <1>1, RunSame DEF SameNodes
<1>r. /\ Releasing(n, p)
      /\ \A l \in Node, q \in Pipe : Releasing(l, q)' <=> Releasing(l, q) /\ <<l, q>> # <<n, p>>
      /\ \A l \in Node, q \in Pipe, m \in Node : l \in InNodes(m) =>
            (Pending(l, m, q)' <=> Pending(l, m, q))
      /\ SameStill
  <2>0. task'[t].inst = <<n, p>> /\ task'[t].at = "trigger" /\ task'[t].k = 1
    BY <1>5 DEF TaskIs
  <2>1. ASSUME NEW l \in Node, NEW q \in Pipe, TargetOf[l] = t
        PROVE  /\ Releasing(l, q) <=> <<l, q>> = <<n, p>>
               /\ ~Releasing(l, q)'
               /\ OnTask(l, q, "release") <=> <<l, q>> = <<n, p>>
               /\ ~OnTask(l, q, "consumed") /\ ~OnTask(l, q, "trigger")
    BY <1>1, <1>2, <2>0, <2>1 DEF Releasing, OnTask
  <2>2. ASSUME NEW l \in Node, NEW q \in Pipe, TargetOf[l] = t
        PROVE  /\ ~OnTask(l, q, "release")' /\ ~OnTask(l, q, "consumed")'
               /\ OnTask(l, q, "trigger")' <=> <<l, q>> = <<n, p>>
    BY <2>0, <2>2 DEF OnTask
  <2>3. ASSUME NEW l \in Node, NEW q \in Pipe, TargetOf[l] # t
        PROVE  /\ Releasing(l, q)' <=> Releasing(l, q)
               /\ \A m \in Node : Pending(l, m, q)' <=> Pending(l, m, q)
               /\ \A d \in Data : StillHas(l, d, q)' <=> StillHas(l, d, q)
    <3>1. task'[TargetOf[l]] = task[TargetOf[l]]
      BY <1>6, <2>3 DEF Others, GraphParameters
    <3>2. Releasing(l, q)' <=> Releasing(l, q)
      BY <3>1 DEF Releasing, OnTask
    <3>3. \A m \in Node : Pending(l, m, q)' <=> Pending(l, m, q)
      BY <3>1 DEF Pending, Releasing, OnTask
    <3>4. \A d \in Data : StillHas(l, d, q)' <=> StillHas(l, d, q)
      BY <3>1 DEF StillHas, OnTask
    <3> QED
      BY <3>2, <3>3, <3>4
  <2>4. Releasing(n, p)
    BY <1>2, <2>1
  <2>5. \A l \in Node, q \in Pipe : Releasing(l, q)' <=> Releasing(l, q) /\ <<l, q>> # <<n, p>>
    <3> TAKE l \in Node, q \in Pipe
    <3>1. CASE TargetOf[l] = t
      BY <2>1, <3>1
    <3>2. CASE TargetOf[l] # t
      BY <1>2, <2>3, <3>2
    <3> QED
      BY <3>1, <3>2
  <2>6. ASSUME NEW l \in Node, NEW q \in Pipe, NEW m \in Node, l \in InNodes(m), TargetOf[l] = t
        PROVE  Pending(l, m, q)' <=> Pending(l, m, q)
    <3>1. \E j \in DOMAIN OutNodes[l] : OutNodes[l][j] = m
      BY <2>6 DEF InNodes, Range
    <3>a. OutNodes[l] \in Seq(Node)
      BY DEF GraphParameters
    <3>2. DOMAIN OutNodes[l] \subseteq Nat \ {0}
      BY <3>a
    <3>3. \E j \in DOMAIN OutNodes[l] : j >= 1 /\ OutNodes[l][j] = m
      BY <3>1, <3>2
    <3>4. Pending(l, m, q) <=> <<l, q>> = <<n, p>>
      BY <2>1, <2>6 DEF Pending
    <3>5. Pending(l, m, q)' <=> <<l, q>> = <<n, p>>
      BY <2>0, <2>1, <2>2, <2>6, <3>3 DEF Pending
    <3> QED
      BY <3>4, <3>5
  <2>7. SameStill
    <3>1. ASSUME NEW l \in Node, NEW d \in Data, NEW q \in Pipe, TargetOf[l] = t
          PROVE  ~StillHas(l, d, q) /\ ~StillHas(l, d, q)'
      <4>1. \A j \in DOMAIN Params[n] : ~(j >= task[t].k)
        BY <1>2, <1>3
      <4> QED
        BY <2>1, <2>2, <3>1, <4>1 DEF StillHas
    <3>2. \A l \in Node : TargetOf[l] = t \/ TargetOf[l] # t
      OBVIOUS
    <3> QED
      BY <2>3, <3>1, <3>2 DEF SameStill
  <2> QED
    BY <2>3, <2>4, <2>5, <2>6, <2>7
<1>9. SameDue /\ ExecInv'
  <2>1. ASSUME NEW i \in Inst PROVE Enabled(i)' <=> Enabled(i)
    <3>1. i[1] \in Node /\ i[2] \in Pipe /\ InNodes(i[1]) \subseteq Node
      BY DEF Inst, InNodes
    <3> QED
      BY <1>7, <1>r, <3>1 DEF Enabled, SameNodes
  <2> QED
    BY <1>7, <2>1 DEF Due, SameDue, SameNodes, SameRun, Detail, ExecInv, Typed, NodesTyped
<1>10. TaskShape'
  <2>1. InRun' = InRun /\ executed' = executed
    BY <1>7 DEF SameRun, SameNodes
  <2>2. 1 <= Len(OutNodes[n]) + 1
    BY <1>2
  <2>3. Shape(t)'
    BY <1>2, <1>3, <1>5, <2>1, <2>2 DEF Shape, TaskIs, Inst
  <2> QED
    BY <1>6, <1>7, <2>1, <2>3, ShapeSame DEF Detail
<1>11. HostInv' /\ LeafTodo' = LeafTodo
  BY <1>3, <1>7, <1>j, <1>r, HostHearsNode DEF Detail, Typed
<1>12. Typed' /\ ListsInv'
  <2>1. Typed'
    BY <1>1, <1>5, <1>j DEF TaskIs, Detail, Typed, NodesTyped, QueuesTyped
  <2>2. IsInjective(task'[t].wake)
    BY <1>5, Empty DEF TaskIs
  <2> QED
    BY <1>1, <1>6, <1>j, <2>1, <2>2, ListsSame DEF Detail
<1>13. OnePlace' /\ DueInv'
  <2>a. /\ task'[t].wake = task[t].wake /\ task'[t].after = task[t].after
        /\ task[t].at # "acquire" /\ task'[t].at # "acquire"
        /\ \A u \in Target \ {t} : task'[u] = task[u]
    BY <1>1, <1>5 DEF TaskIs
  <2>1. SameOtherPlaces({})
    BY <1>1, <1>j, <2>a, OtherPlaces
  <2> QED
    BY <1>9, <2>1, TokensSame DEF Detail
<1>14. BlockedInv'
  BY <1>1, <1>6, <1>9, AcquiringSame
<1>15. PrmInv'
  <2>1. PrmOf(t)'
    BY <1>5 DEF TaskIs, PrmOf, Has
  <2> QED
    BY <1>1, <1>6, <2>1, PrmSame DEF Detail
<1>16. HeldInv' /\ RefInv' /\ WaitsForNothingReady' /\ Unverified'
  BY <1>1, <1>7, <1>r, HeldSame, RefsSame, Busy DEF Detail, WaitsForNothingReady
<1>17. Implements
  BY <1>1, <1>7, <1>11, UnfedSame, RunsStutter
<1> QED
  BY <1>9, <1>10, <1>11, <1>12, <1>13, <1>14, <1>15, <1>16, <1>17 DEF Detail

-----------------------------------------------------------------------------
(* The host target                                                          *)

\* The messages that are left are of runs that go on.
LEMMA HostForgets ==
  ASSUME HostInv, JobsTyped, jobQ[Host] # <<>>, jobQ'[Host] = Tail(jobQ[Host]),
         SameNodes, SameReleasing,
         \A l \in Node, q \in Pipe : \A j \in DOMAIN jobQ[Host] :
            j # 1 /\ Reported(j, l, q) => q \in InRun'
  PROVE  HostInv'
<1>1. PICK s \in Seq(HostJob) : s = jobQ[Host]
  BY DEF JobsTyped
<1>2. /\ \A j \in DOMAIN jobQ'[Host] : j + 1 \in DOMAIN jobQ[Host] /\ j + 1 # 1
      /\ \A j \in DOMAIN jobQ'[Host] : jobQ'[Host][j] = jobQ[Host][j + 1]
      /\ \A j, h \in DOMAIN jobQ'[Host] : j + 1 = h + 1 => j = h
      /\ \A j \in DOMAIN jobQ'[Host], h \in DOMAIN jobQ[Host] : h >= j + 1 =>
            h - 1 \in DOMAIN jobQ'[Host] /\ h - 1 >= j /\ (h - 1) + 1 = h
  <2>1. /\ Len(Tail(s)) = Len(s) - 1 /\ \A j \in 1 .. Len(s) - 1 : Tail(s)[j] = s[j + 1]
        /\ Tail(s) \in Seq(HostJob)
    BY <1>1, Taken
  <2>2. /\ DOMAIN s = 1 .. Len(s) /\ DOMAIN Tail(s) = 1 .. Len(s) - 1 /\ Len(s) \in Nat
    BY <2>1, ListOf
  <2> QED
    BY <1>1, <2>1, <2>2
<1>3. \A l, q : \A j \in DOMAIN jobQ'[Host] : Reported(j, l, q)' <=> Reported(j + 1, l, q)
  BY <1>2 DEF Reported
<1>4. Leaf \subseteq Node
  BY GraphAssumption
<1> SUFFICES ASSUME NEW l \in Node, NEW q \in Pipe, NEW j \in DOMAIN jobQ'[Host],
                    Reported(j, l, q)'
             PROVE  /\ q \in InRun' /\ <<l, q>> \in executed' /\ ~Releasing(l, q)'
                    /\ \A h \in DOMAIN jobQ'[Host] : Reported(h, l, q)' => j = h
                    /\ \E m \in Leaf : \/ <<m, q>> \notin executed'
                                       \/ Releasing(m, q)'
                                       \/ \E h \in DOMAIN jobQ'[Host] : h >= j /\ Reported(h, m, q)'
  BY DEF HostInv
<1>i. PICK i \in DOMAIN jobQ[Host] : i = j + 1 /\ i # 1 /\ Reported(i, l, q)
  BY <1>2, <1>3
<1>5. /\ <<l, q>> \in executed /\ ~Releasing(l, q)
      /\ \A h \in DOMAIN jobQ[Host] : Reported(h, l, q) => i = h
  BY <1>i DEF HostInv
<1>6. \A h \in DOMAIN jobQ'[Host] : Reported(h, l, q)' => j = h
  BY <1>2, <1>3, <1>5, <1>i
<1>7. PICK m \in Leaf : \/ <<m, q>> \notin executed
                        \/ Releasing(m, q)
                        \/ \E h \in DOMAIN jobQ[Host] : h >= i /\ Reported(h, m, q)
  BY ONLY HostInv, l \in Node, q \in Pipe, <1>i DEF HostInv
<1>8. ASSUME NEW h \in DOMAIN jobQ[Host], h >= i, Reported(h, m, q)
      PROVE  \E g \in DOMAIN jobQ'[Host] : g >= j /\ Reported(g, m, q)'
  <2>1. h - 1 \in DOMAIN jobQ'[Host] /\ h - 1 >= j /\ (h - 1) + 1 = h
    BY <1>2, <1>8, <1>i
  <2>2. Reported(h - 1, m, q)'
    BY <1>3, <1>8, <2>1
  <2> QED
    BY <2>1, <2>2
<1>9. m \in Node
  BY <1>4
<1>10. q \in InRun' /\ <<l, q>> \in executed' /\ ~Releasing(l, q)'
  BY <1>i, <1>5 DEF SameNodes, SameReleasing
<1>11. \E x \in Leaf : \/ <<x, q>> \notin executed'
                       \/ Releasing(x, q)'
                       \/ \E h \in DOMAIN jobQ'[Host] : h >= j /\ Reported(h, x, q)'
  BY <1>7, <1>8, <1>9 DEF SameNodes, SameReleasing
<1> QED
  BY <1>6, <1>10, <1>11

\* The host takes a message and the run goes on.
LEMMA HostLeft ==
  ASSUME Detail, GraphParameters, jobQ[Host] # <<>>, jobQ' = [jobQ EXCEPT ![Host] = Tail(@)],
         UNCHANGED <<task, executed, blocked, behind, held, doneCnt, readyQ, doneQ, waiting>>,
         UNCHANGED <<retrigger, enq, verified>>, SameDue, ExecInv', HeldInv', TaskShape',
         \A l \in Node, q \in Pipe : \A j \in DOMAIN jobQ[Host] :
            j # 1 /\ Reported(j, l, q) => q \in InRun'
  PROVE  Detail' /\ Len(readyQ[Param0])' = Len(readyQ[Param0])
<1>1. /\ JobsTyped' /\ jobQ'[Host] = Tail(jobQ[Host])
      /\ \A t \in Target : jobQ'[t] = jobQ[t]
  <2>1. Host \notin Target
    BY GraphAssumption
  <2> QED
    BY <2>1, TakesFrom DEF Detail, Typed
<1>2. SameReleasing /\ SameNodes
  BY TaskSame DEF SameNodes
<1>3. HostInv'
  BY <1>1, <1>2, HostForgets DEF Detail, Typed
<1>4. Typed' /\ ListsInv'
  BY <1>1 DEF Detail, Typed, TasksTyped, NodesTyped, QueuesTyped, ListsInv
<1>5. SameOtherPlaces({})
  BY <1>1, OtherPlaces
<1>6. OnePlace' /\ DueInv'
  BY <1>5, TokensSame DEF Detail
<1>7. BlockedInv'
  <2>1. \A i \in Inst : i \in Tokens(<<"acquire", TargetOf[i[1]]>>)'
                      => i \in Tokens(<<"acquire", TargetOf[i[1]]>>)
    BY DEF Tokens
  <2> QED
    BY <2>1, BlockedSame DEF Detail, Typed, NodesTyped
<1>8. PrmInv' /\ RefInv'
  BY RefsSame DEF Detail, PrmInv, PrmOf, Has
<1>9. Unverified' /\ WaitsForNothingReady'
  BY <1>1 DEF Detail, Unverified, WaitsForNothingReady
<1> QED
  BY <1>3, <1>4, <1>6, <1>7, <1>8, <1>9 DEF Detail

\* The same when no run begins or ends.
LEMMA HostGoesOn ==
  ASSUME Detail, GraphParameters, jobQ[Host] # <<>>, jobQ' = [jobQ EXCEPT ![Host] = Tail(@)],
         UNCHANGED <<task, executed, blocked, behind, held, doneCnt, readyQ, doneQ, waiting>>,
         UNCHANGED <<retrigger, enq, verified, freeQ>>
  PROVE  Detail' /\ Len(readyQ[Param0])' = Len(readyQ[Param0]) /\ Unfed' = Unfed /\ SameRun
<1>1. SameRun
  BY RunSame
<1>2. TaskShape' /\ ExecInv' /\ HeldInv' /\ SameDue /\ Unfed' = Unfed
  BY <1>1, NodesLeft
<1>3. \A l \in Node, q \in Pipe : \A j \in DOMAIN jobQ[Host] :
         j # 1 /\ Reported(j, l, q) => q \in InRun'
  BY <1>1 DEF SameRun, Detail, HostInv
<1> QED
  BY <1>1, <1>2, <1>3, HostLeft

\* The messages to the host are the first and those behind it.
LEMMA MessagesOf ==
  ASSUME JobsTyped, jobQ[Host] # <<>>
  PROVE  /\ 1 \in DOMAIN jobQ[Host] /\ jobQ[Host][1] = Head(jobQ[Host])
         /\ Head(jobQ[Host]) \in HostJob
         /\ Range(jobQ[Host]) = Range(Tail(jobQ[Host])) \cup {Head(jobQ[Host])}
         /\ \A x \in Range(Tail(jobQ[Host])) :
               \E j \in DOMAIN jobQ[Host] : j # 1 /\ jobQ[Host][j] = x
<1>1. PICK s \in Seq(HostJob) : s = jobQ[Host]
  BY DEF JobsTyped
<1>2. /\ Head(s) \in HostJob /\ Head(s) = s[1]
      /\ Range(s) = Range(Tail(s)) \cup {Head(s)}
      /\ Len(Tail(s)) = Len(s) - 1 /\ \A j \in 1 .. Len(s) - 1 : Tail(s)[j] = s[j + 1]
      /\ Tail(s) \in Seq(HostJob)
  BY <1>1, Taken
<1>3. DOMAIN s = 1 .. Len(s) /\ 1 \in DOMAIN s /\ DOMAIN Tail(s) = 1 .. Len(s) - 1
  BY <1>1, <1>2
<1>4. ASSUME NEW x \in Range(Tail(s)) PROVE \E j \in DOMAIN s : j # 1 /\ s[j] = x
  <2>1. PICK h \in DOMAIN Tail(s) : Tail(s)[h] = x
    BY DEF Range
  <2>2. h + 1 \in DOMAIN s /\ h + 1 # 1 /\ s[h + 1] = x
    BY <1>2, <1>3, <2>1
  <2> QED
    BY <2>2
<1> QED
  BY <1>1, <1>2, <1>3, <1>4

\* ownTargetCmdDescHandlerHost hears of a reference that is done.
LEMMA RefConsumedStep ==
  ASSUME Detail, GraphParameters, RefConsumed
  PROVE  Detail' /\ Implements
<1> USE DEF queueVars, nodeVars, controlVars, descVars
<1>1. /\ jobQ[Host] # <<>> /\ jobQ' = [jobQ EXCEPT ![Host] = Tail(@)]
      /\ UNCHANGED <<controlVars, task, nodeVars, queueVars, retrigger, enq>>
      /\ Head(jobQ[Host])[1] = "consumed"
  BY DEF RefConsumed, HostTakes
<1>2. Detail' /\ Len(readyQ[Param0])' = Len(readyQ[Param0]) /\ Unfed' = Unfed /\ SameRun
  BY <1>1, HostGoesOn
<1>3. jobQ'[Host] = Tail(jobQ[Host])
  BY <1>1, TakesFrom DEF Detail, Typed
<1>4. \A n \in Leaf, p \in Pipe : <<"complete", <<n, p>>>> \in Range(jobQ'[Host])
                                <=> <<"complete", <<n, p>>>> \in Range(jobQ[Host])
  <2>1. Range(jobQ[Host]) = Range(jobQ'[Host]) \cup {Head(jobQ[Host])}
    BY <1>1, <1>3, MessagesOf DEF Detail, Typed
  <2>2. \A n, p : <<"complete", <<n, p>>>> # Head(jobQ[Host])
    BY <1>1
  <2> QED
    BY <2>1, <2>2
<1>5. LeafTodo' = LeafTodo
  BY <1>1, <1>2, <1>4, TaskSame, LeavesSame DEF SameNodes
<1> QED
  BY <1>1, <1>2, <1>5, RunsStutter

\* The module of finite sets that GraphSchedule_proofs refers to is the same.
LEMMA CountedAlike == \A S : GSP!Cardinality(S) = Cardinality(S)
BY DEF Cardinality, GSP!Cardinality

\* The host takes the report of a node: it will not be reported again.
LEMMA ReportTaken ==
  ASSUME Detail, GraphParameters, jobQ[Host] # <<>>, Head(jobQ[Host])[1] = "complete",
         jobQ' = [jobQ EXCEPT ![Host] = Tail(@)]
  PROVE  \E n \in Node, p \in Pipe :
            /\ Head(jobQ[Host]) = <<"complete", <<n, p>>>>
            /\ p \in InRun /\ <<n, p>> \in executed /\ ~Releasing(n, p)
            /\ LeafTodo[p] # {} /\ (n \in Leaf => n \in LeafTodo[p])
            /\ \A l, q : <<"complete", <<l, q>>>> \in Range(jobQ'[Host])
                  <=> <<"complete", <<l, q>>>> \in Range(jobQ[Host]) /\ <<l, q>> # <<n, p>>
            /\ \A j \in DOMAIN jobQ[Host] : j # 1 => ~Reported(j, n, p)
<1>1. /\ 1 \in DOMAIN jobQ[Host] /\ jobQ[Host][1] = Head(jobQ[Host])
      /\ Head(jobQ[Host]) \in HostJob
      /\ Range(jobQ[Host]) = Range(Tail(jobQ[Host])) \cup {Head(jobQ[Host])}
      /\ \A x \in Range(Tail(jobQ[Host])) :
            \E j \in DOMAIN jobQ[Host] : j # 1 /\ jobQ[Host][j] = x
  BY MessagesOf DEF Detail, Typed
<1>2. PICK n \in Node, p \in Pipe : Head(jobQ[Host]) = <<"complete", <<n, p>>>>
  BY <1>1 DEF HostJob, Inst
<1>3. Reported(1, n, p)
  BY <1>1, <1>2 DEF Reported
<1>4. /\ p \in InRun /\ <<n, p>> \in executed /\ ~Releasing(n, p)
      /\ \A h \in DOMAIN jobQ[Host] : Reported(h, n, p) => 1 = h
  BY <1>1, <1>3 DEF Detail, HostInv
<1>5. PICK m \in Leaf : \/ <<m, p>> \notin executed
                        \/ Releasing(m, p)
                        \/ \E h \in DOMAIN jobQ[Host] : h >= 1 /\ Reported(h, m, p)
  <2>1. HostInv
    BY DEF Detail
  <2> QED
    BY ONLY <2>1, n \in Node, p \in Pipe, <1>1, <1>3 DEF HostInv
<1>6. m \in LeafTodo[p]
  <2>1. \A h \in DOMAIN jobQ[Host] : Reported(h, m, p) => <<"complete", <<m, p>>>> \in Range(jobQ[Host])
    BY DEF Reported, Range
  <2> QED
    BY <1>4, <1>5, <2>1 DEF LeafTodo, Incomplete
<1>7. n \in Leaf => n \in LeafTodo[p]
  BY <1>1, <1>2, <1>4 DEF LeafTodo, Incomplete
<1>8. ASSUME NEW l, NEW q
      PROVE  <<"complete", <<l, q>>>> \in Range(jobQ'[Host])
                <=> <<"complete", <<l, q>>>> \in Range(jobQ[Host]) /\ <<l, q>> # <<n, p>>
  <2>1. jobQ'[Host] = Tail(jobQ[Host])
    BY TakesFrom DEF Detail, Typed
  <2>2. <<"complete", <<n, p>>>> \notin Range(Tail(jobQ[Host]))
    BY <1>1, <1>4 DEF Reported
  <2>3. CASE <<l, q>> = <<n, p>>
    BY <2>1, <2>2, <2>3
  <2>4. CASE <<l, q>> # <<n, p>>
    <3>1. <<"complete", <<l, q>>>> # Head(jobQ[Host])
      BY <1>2, <2>4
    <3> QED
      BY <1>1, <2>1, <2>4, <3>1
  <2> QED
    BY <2>3, <2>4
<1> QED
  BY <1>2, <1>4, <1>6, <1>7, <1>8

\* One leaf node less is to complete.
LEMMA LeafGone ==
  ASSUME SameNodes, SameReleasing, NEW n \in Node, NEW p \in Pipe, p \in InRun,
         <<n, p>> \in executed, ~Releasing(n, p),
         \A l, q : <<"complete", <<l, q>>>> \in Range(jobQ'[Host])
                  <=> <<"complete", <<l, q>>>> \in Range(jobQ[Host]) /\ <<l, q>> # <<n, p>>,
         InRun' = InRun \/ (InRun' = InRun \ {p} /\ LeafTodo[p] = {n})
  PROVE  LeafTodo' = [LeafTodo EXCEPT ![p] = @ \ {n}]
<1>1. Leaf \subseteq Node
  BY GraphAssumption
<1>2. ASSUME NEW l \in Leaf, NEW q \in Pipe
      PROVE  Incomplete(l, q)' <=> Incomplete(l, q) /\ <<l, q>> # <<n, p>>
  <2>1. Releasing(l, q)' <=> Releasing(l, q)
    BY <1>1 DEF SameReleasing
  <2>2. <<l, q>> = <<n, p>> => l = n /\ q = p
    OBVIOUS
  <2> QED
    BY <2>1, <2>2 DEF Incomplete, SameNodes
<1>3. \A q \in Pipe : {l \in Leaf : Incomplete(l, q)}' =
         IF q = p THEN {l \in Leaf : Incomplete(l, q)} \ {n} ELSE {l \in Leaf : Incomplete(l, q)}
  <2> TAKE q \in Pipe
  <2>1. CASE q = p
    <3>1. \A l \in Leaf : Incomplete(l, q)' <=> Incomplete(l, q) /\ l # n
      BY <1>2, <2>1
    <3> QED
      BY <2>1, <3>1
  <2>2. CASE q # p
    <3>1. \A l \in Leaf : Incomplete(l, q)' <=> Incomplete(l, q)
      BY <1>2, <2>2
    <3> QED
      BY <2>2, <3>1
  <2> QED
    BY <2>1, <2>2
<1>4. LeafTodo = [q \in Pipe |-> IF q \in InRun THEN {l \in Leaf : Incomplete(l, q)} ELSE {}]
  BY DEF LeafTodo
<1>5. LeafTodo' = [q \in Pipe |-> IF q \in InRun' THEN {l \in Leaf : Incomplete(l, q)}' ELSE {}]
  BY DEF LeafTodo
<1>6. CASE InRun' = InRun
  BY <1>3, <1>4, <1>5, <1>6
<1>7. CASE InRun' = InRun \ {p} /\ LeafTodo[p] = {n}
  BY <1>3, <1>4, <1>5, <1>7
<1> QED
  BY <1>6, <1>7

\* When no leaf node is to complete but one that is reported, the run is over.
LEMMA RunOver ==
  ASSUME Inv, GraphParameters, NEW n \in Leaf, NEW p \in Pipe, LeafTodo[p] = {n},
         p \in InRun, <<n, p>> \in executed, ~Releasing(n, p)
  PROVE  /\ \A x \in Node : <<x, p>> \in executed /\ ~Releasing(x, p)
         /\ \A d \in Data : held[<<d, p>>] = NoRef
         /\ p \notin Unfed
<1>1. \A l \in Leaf : <<l, p>> \in executed /\ ~Releasing(l, p)
  <2>1. \A l \in Leaf : l # n => ~Incomplete(l, p)
    BY DEF LeafTodo
  <2> QED
    BY <2>1 DEF Incomplete
<1>2. ASSUME NEW x \in Node PROVE <<x, p>> \in executed /\ ~Releasing(x, p)
  BY <1>1, SomeLeaf DEF Inv, Detail
<1>3. ASSUME NEW d \in Data PROVE held[<<d, p>>] = NoRef
  <2>1. ASSUME NEW x \in Node PROVE ReleasedBy(x, d, p)
    BY <1>2 DEF ReleasedBy, StillHas, Releasing
  <2>2. Readers(d, p) = Consumers(d)
    BY <2>1 DEF Readers, Consumers
  <2>3. Consumers(d) = {} => Producer[d] \in Node
    BY GraphAssumption DEF GraphParameters
  <2>4. Full(d, p)
    BY <2>1, <2>2, <2>3 DEF Full
  <2> QED
    BY <2>4 DEF Inv, Detail, HeldInv, HeldOf
<1>4. p \notin Unfed
  BY <1>2 DEF Unfed, Consumers
<1> QED
  BY <1>2, <1>3, <1>4

\* It hears of a node that does not end the run ...
LEMMA LeafCompletesStep ==
  ASSUME Inv, GraphParameters, NEW n \in Node, NEW p \in Pipe,
         Head(jobQ[Host]) = <<"complete", <<n, p>>>>, HostTakes("complete"),
         \/ n \notin Leaf /\ (AbandonControl(p) \/ UNCHANGED controlVars)
         \/ n \in Leaf /\ LeafControl(p)
  PROVE  Detail' /\ Implements
<1> USE DEF queueVars, nodeVars
<1>1. /\ jobQ[Host] # <<>> /\ jobQ' = [jobQ EXCEPT ![Host] = Tail(@)]
      /\ UNCHANGED <<task, nodeVars, queueVars, retrigger, enq>>
      /\ Head(jobQ[Host])[1] = "complete"
  BY DEF HostTakes
<1>2. UNCHANGED <<freeQ, verified>>
  BY DEF AbandonControl, LeafControl, controlVars, descVars
<1>3. Detail' /\ Len(readyQ[Param0])' = Len(readyQ[Param0]) /\ Unfed' = Unfed /\ SameRun
  BY <1>1, <1>2, HostGoesOn DEF Inv
<1>4. /\ p \in InRun /\ <<n, p>> \in executed /\ ~Releasing(n, p)
      /\ LeafTodo[p] # {} /\ (n \in Leaf => n \in LeafTodo[p])
      /\ \A l, q : <<"complete", <<l, q>>>> \in Range(jobQ'[Host])
            <=> <<"complete", <<l, q>>>> \in Range(jobQ[Host]) /\ <<l, q>> # <<n, p>>
  <2>1. Detail
    BY DEF Inv
  <2>2. PICK l \in Node, q \in Pipe :
            /\ Head(jobQ[Host]) = <<"complete", <<l, q>>>>
            /\ q \in InRun /\ <<l, q>> \in executed /\ ~Releasing(l, q)
            /\ LeafTodo[q] # {} /\ (l \in Leaf => l \in LeafTodo[q])
            /\ \A m, r : <<"complete", <<m, r>>>> \in Range(jobQ'[Host])
                  <=> <<"complete", <<m, r>>>> \in Range(jobQ[Host]) /\ <<m, r>> # <<l, q>>
    BY <1>1, <2>1, ReportTaken
  <2>3. l = n /\ q = p
    BY <2>2
  <2> QED
    BY <2>2, <2>3
<1>5. SameNodes /\ SameReleasing
  BY <1>1, TaskSame DEF SameNodes
<1>6. CASE n \notin Leaf
  <2>1. LeafTodo' = LeafTodo
    <3>1. \A l \in Leaf, q \in Pipe : <<"complete", <<l, q>>>> \in Range(jobQ'[Host])
                                    <=> <<"complete", <<l, q>>>> \in Range(jobQ[Host])
      BY <1>4, <1>6
    <3> QED
      BY <1>3, <1>5, <3>1, LeavesSame
  <2>2. CASE UNCHANGED controlVars
    BY <1>3, <2>1, <2>2, RunsStutter
  <2>3. CASE AbandonControl(p)
    <3>1. GSP!AbandonControl(p)
      BY <2>3 DEF AbandonControl, GSP!AbandonControl, HostIdle, GSP!HostIdle, Host, GSP!Host,
                  hostVars, callVars, countVars, waitVars, GSP!hostVars, GSP!callVars,
                  GSP!countVars, GSP!waitVars
    <3>2. GSP!NodeAbandons(p)
      BY <1>3, <1>4, <2>1, <3>1 DEF GSP!NodeAbandons, GSP!runVars
    <3>3. p \in GSP!Pipe
      BY DEF Pipe, GSP!Pipe
    <3>4. GSP!Next
      BY <3>2, <3>3 DEF GSP!Next, GSP!RunStep
    <3> QED
      BY <1>3, <3>4 DEF Implements
  <2> QED
    BY <1>3, <1>6, <2>2, <2>3
<1>7. CASE n \in Leaf /\ LeafControl(p)
  <2>1. LeafTodo' = [LeafTodo EXCEPT ![p] = @ \ {n}]
    BY <1>3, <1>4, <1>5, LeafGone DEF SameRun
  <2>2. GSP!LeafControl(p)
    BY <1>7, CountedAlike DEF LeafControl, GSP!LeafControl, HostIdle, GSP!HostIdle, Host, GSP!Host,
                hostVars, callVars, countVars, abandonVars, waitVars, GSP!hostVars, GSP!callVars,
                GSP!countVars, GSP!abandonVars, GSP!waitVars
  <2>3. GSP!LeafCompletes(n, p)
    BY <1>3, <1>4, <1>7, <2>1, <2>2 DEF GSP!LeafCompletes
  <2>4. p \in GSP!Pipe
    BY DEF Pipe, GSP!Pipe
  <2>5. GSP!Next
    BY <1>7, <2>3, <2>4 DEF GSP!Next, GSP!RunStep
  <2> QED
    BY <1>3, <2>5 DEF Implements
<1> QED
  BY <1>6, <1>7

\* ... and of the leaf node that does.
LEMMA RunCompletesStep ==
  ASSUME Inv, GraphParameters, NEW n \in Leaf, NEW p \in Pipe,
         Head(jobQ[Host]) = <<"complete", <<n, p>>>>, HostTakes("complete"),
         NEW abandon \in BOOLEAN, abandon => n \in CallbackNode, CompleteControl(p, abandon)
  PROVE  Detail' /\ Implements
<1> USE DEF queueVars, nodeVars
<1>0. n \in Node /\ Detail
  BY GraphAssumption DEF Inv
<1>1. /\ jobQ[Host] # <<>> /\ jobQ' = [jobQ EXCEPT ![Host] = Tail(@)]
      /\ UNCHANGED <<task, nodeVars, queueVars, retrigger, enq>>
      /\ Head(jobQ[Host])[1] = "complete"
  BY DEF HostTakes
<1>2. UNCHANGED verified
  BY DEF CompleteControl
<1>4. /\ p \in InRun /\ <<n, p>> \in executed /\ ~Releasing(n, p)
      /\ LeafTodo[p] # {} /\ n \in LeafTodo[p]
      /\ \A l, q : <<"complete", <<l, q>>>> \in Range(jobQ'[Host])
            <=> <<"complete", <<l, q>>>> \in Range(jobQ[Host]) /\ <<l, q>> # <<n, p>>
      /\ \A j \in DOMAIN jobQ[Host] : j # 1 => ~Reported(j, n, p)
  <2>2. PICK l \in Node, q \in Pipe :
            /\ Head(jobQ[Host]) = <<"complete", <<l, q>>>>
            /\ q \in InRun /\ <<l, q>> \in executed /\ ~Releasing(l, q)
            /\ LeafTodo[q] # {} /\ (l \in Leaf => l \in LeafTodo[q])
            /\ \A m, r : <<"complete", <<m, r>>>> \in Range(jobQ'[Host])
                  <=> <<"complete", <<m, r>>>> \in Range(jobQ[Host]) /\ <<m, r>> # <<l, q>>
            /\ \A j \in DOMAIN jobQ[Host] : j # 1 => ~Reported(j, l, q)
    BY <1>0, <1>1, ReportTaken
  <2>3. l = n /\ q = p
    BY <2>2
  <2> QED
    BY <2>2, <2>3
<1>5. SameNodes /\ SameReleasing /\ SamePending /\ SameStill
  BY <1>1, TaskSame DEF SameNodes
<1>6. LeafTodo[p] = {n}
  <2>1. leafDone[p] = Cardinality(Leaf \ LeafTodo[p])
    <3>1. p \in GSP!Pipe
      BY DEF Pipe, GSP!Pipe
    <3> QED
      BY <1>4, <3>1, CountedAlike DEF Inv, GSP!IInv, GSP!LeavesCounted
  <2>2. leafDone[p] + 1 = Cardinality(Leaf)
    BY DEF CompleteControl
  <2>3. LeafTodo[p] \subseteq Leaf
    BY DEF LeafTodo
  <2> DEFINE R == Leaf \ LeafTodo[p]
  <2>4. IsFiniteSet(R) /\ IsFiniteSet(R \cup {n}) /\ IsFiniteSet(Leaf)
    BY LeafAssumption, FS_Subset, FS_AddElement
  <2>5. Cardinality(R \cup {n}) = Cardinality(R) + 1
    BY <1>4, <2>4, FS_AddElement
  <2>6. R \cup {n} \subseteq Leaf /\ Cardinality(R \cup {n}) = Cardinality(Leaf)
    BY <2>1, <2>2, <2>5
  <2>7. R \cup {n} = Leaf
    BY <2>4, <2>6, FS_Subset
  <2> QED
    BY <1>4, <2>3, <2>7
<1>7. /\ \A x \in Node : <<x, p>> \in executed /\ ~Releasing(x, p)
      /\ \A d \in Data : held[<<d, p>>] = NoRef
      /\ p \notin Unfed
  BY <1>4, <1>6, RunOver
<1>8. InRun' = InRun \ {p} /\ verified # 0
  <2>1. verified # 0
    BY <1>4 DEF InRun
  <2>2. freeQ \in Seq(Pipe) /\ submitted \in Nat /\ verified > 0 /\ Len(freeQ) + submitted = Depth
    <3>1. GSP!TypeOK /\ GSP!DescriptorsConserved
      BY DEF Inv, GSP!IInv
    <3>2. freeQ \in Seq(Pipe) /\ submitted \in Nat /\ verified > 0
      BY <2>1, <3>1 DEF GSP!TypeOK, Pipe, GSP!Pipe
    <3> QED
      BY <3>1, <3>2 DEF GSP!DescriptorsConserved
  <2>3. Len(freeQ) < MaxDepth
    BY <2>2, DepthAssumption
  <2>4. freeQ' = Append(freeQ, p)
    BY <2>3 DEF CompleteControl, EnqueueFreeObjDesc
  <2>5. Range(freeQ') = Range(freeQ) \cup {p}
    BY <2>2, <2>4, Appended
  <2> QED
    BY <1>2, <2>1, <2>5 DEF InRun
<1>9. SameDue /\ ExecInv'
  <2>1. \A i \in Inst : Enabled(i)' <=> Enabled(i)
    <3> TAKE i \in Inst
    <3>1. i[1] \in Node /\ i[2] \in Pipe /\ InNodes(i[1]) \subseteq Node
      BY DEF Inst, InNodes
    <3> QED
      BY <1>5, <3>1 DEF Enabled, SameNodes, SamePending
  <2>2. ASSUME NEW i \in Inst PROVE Due(i)' <=> Due(i)
    <3>1. i[2] = p => i \in executed
      BY <1>7 DEF Inst
    <3> QED
      BY <1>5, <1>8, <2>1, <3>1 DEF Due, SameNodes
  <2>3. ExecInv'
    BY <1>0, <1>5, <1>7, <1>8, <2>1 DEF Detail, ExecInv, Typed, NodesTyped, SameNodes
  <2> QED
    BY <2>2, <2>3 DEF SameDue
<1>10. TaskShape'
  <2>1. ASSUME NEW t \in Target PROVE Shape(t)'
    <3>1. Shape(t)
      BY <1>0 DEF Detail, TaskShape
    <3>2. task[t].at \in {"release", "consumed"} => task[t].inst[2] # p
      <4>1. SUFFICES ASSUME task[t].at \in {"release", "consumed"}, task[t].inst[2] = p PROVE FALSE
        OBVIOUS
      <4>2. PICK x \in Node, q \in Pipe : task[t].inst = <<x, q>> /\ TargetOf[x] = t
        BY <1>0, <4>1, ShapeOf DEF Detail
      <4>3. Releasing(x, p)
        BY <4>1, <4>2 DEF Releasing, OnTask
      <4> QED
        BY <1>7, <4>3
    <3> QED
      BY <1>1, <1>5, <1>8, <3>1, <3>2 DEF Shape, SameNodes
  <2> QED
    BY <2>1 DEF TaskShape
<1>11. HeldInv'
  <2>1. \A x \in Node, d \in Data, q \in Pipe : ReleasedBy(x, d, q)' <=> ReleasedBy(x, d, q)
    BY <1>5 DEF ReleasedBy, SameNodes, SameStill
  <2>2. ASSUME NEW d \in Data, NEW q \in Pipe PROVE HeldOf(d, q)'
    <3>1. Readers(d, q)' = Readers(d, q)
      BY <2>1 DEF Readers, Consumers
    <3>2. Consumers(d) = {} => (ReleasedBy(Producer[d], d, q)' <=> ReleasedBy(Producer[d], d, q))
      <4>1. Consumers(d) = {} => Producer[d] \in Node
        BY GraphAssumption DEF GraphParameters
      <4> QED
        BY <2>1, <4>1
    <3>3. Full(d, q)' <=> Full(d, q)
      BY <3>1, <3>2 DEF Full
    <3>4. Untouched(d, q)' <=> Untouched(d, q)
      BY <1>5 DEF Untouched, SameNodes
    <3>5. held'[<<d, q>>] = held[<<d, q>>] /\ doneCnt'[<<d, q>>] = doneCnt[<<d, q>>]
      BY <1>1
    <3>6. HeldOf(d, q)
      BY <1>0 DEF Detail, HeldInv
    <3> QED
      BY <1>7, <1>8, <3>1, <3>3, <3>4, <3>5, <3>6 DEF HeldOf
  <2> QED
    BY <2>2 DEF HeldInv
<1>12. \A l \in Node, q \in Pipe : \A j \in DOMAIN jobQ[Host] :
          j # 1 /\ Reported(j, l, q) => q \in InRun'
  <2> SUFFICES ASSUME NEW l \in Node, NEW q \in Pipe, NEW j \in DOMAIN jobQ[Host],
                      j # 1, Reported(j, l, q), q = p
               PROVE  FALSE
    BY <1>0, <1>8 DEF Detail, HostInv
  <2>1. HostInv
    BY <1>0 DEF Detail
  <2>2. PICK m \in Leaf : \/ <<m, q>> \notin executed
                          \/ Releasing(m, q)
                          \/ \E h \in DOMAIN jobQ[Host] : h >= j /\ Reported(h, m, q)
    BY ONLY <2>1, l \in Node, q \in Pipe, j \in DOMAIN jobQ[Host], Reported(j, l, q) DEF HostInv
  <2>3. m \in Node
    BY GraphAssumption
  <2>4. PICK h \in DOMAIN jobQ[Host] : h >= j /\ Reported(h, m, p)
    BY <1>7, <2>2, <2>3
  <2>5. h # 1
    <3>1. DOMAIN jobQ[Host] \subseteq Nat \ {0}
      <4>1. jobQ[Host] \in Seq(HostJob)
        BY <1>0 DEF Detail, Typed, JobsTyped
      <4> QED
        BY <4>1
    <3> QED
      BY <2>4, <3>1
  <2>6. m # n
    BY <1>4, <2>4, <2>5
  <2>7. <<"complete", <<m, p>>>> \in Range(jobQ[Host])
    BY <2>4 DEF Reported, Range
  <2>8. m \in LeafTodo[p]
    BY <1>4, <2>7 DEF LeafTodo, Incomplete
  <2> QED
    BY <1>6, <2>6, <2>8
<1>13. Detail' /\ Len(readyQ[Param0])' = Len(readyQ[Param0])
  BY <1>0, <1>1, <1>2, <1>9, <1>10, <1>11, <1>12, HostLeft
<1>14. Unfed' = Unfed
  BY <1>1, <1>5, <1>7, <1>8 DEF Unfed, SameNodes, Consumers
<1>15. LeafTodo' = [LeafTodo EXCEPT ![p] = @ \ {n}]
  BY <1>0, <1>4, <1>5, <1>6, <1>8, LeafGone
<1>16. GSP!CompleteControl(p, abandon)
  BY CountedAlike DEF CompleteControl, GSP!CompleteControl, HostIdle, GSP!HostIdle, Host, GSP!Host,
         CompletedState, GSP!CompletedState, TakenPending, GSP!TakenPending,
         PostEvent, GSP!PostEvent, EnqueueFreeObjDesc, GSP!EnqueueFreeObjDesc,
         LeafDoneReset, GSP!LeafDoneReset, callVars, waitVars, GSP!callVars, GSP!waitVars
<1>17. abandon \in {FALSE, CallbackAtLeaf}
  <2>1. CASE abandon = TRUE
    <3>1. CallbackNode \cap Leaf # {}
      BY <2>1
    <3>2. CallbackAtLeaf = TRUE
      BY <3>1, GraphAssumption
    <3> QED
      BY <2>1, <3>2
  <2>2. CASE abandon = FALSE
    BY <2>2
  <2> QED
    BY <2>1, <2>2
<1>18. GSP!RunCompletes(n, p, abandon)
  BY <1>4, <1>7, <1>13, <1>14, <1>15, <1>16 DEF GSP!RunCompletes
<1>19. p \in GSP!Pipe
  BY DEF Pipe, GSP!Pipe
<1>20. GSP!Next
  BY <1>17, <1>18, <1>19 DEF GSP!Next, GSP!RunStep
<1> QED
  BY <1>13, <1>20 DEF Implements

\* ownTargetCmdDescHandlerHost hears of a node.
LEMMA NodeCompletesStep ==
  ASSUME Inv, GraphParameters, NodeCompletes
  PROVE  Detail' /\ Implements
<1>1. HostTakes("complete") /\ Head(jobQ[Host])[1] = "complete" /\ jobQ[Host] # <<>>
  BY DEF NodeCompletes, HostTakes
<1>2. PICK n \in Node, p \in Pipe : Head(jobQ[Host]) = <<"complete", <<n, p>>>>
  BY <1>1, MessagesOf DEF HostJob, Inst, Inv, Detail, Typed
<1>3. Head(jobQ[Host])[2][1] = n /\ Head(jobQ[Host])[2][2] = p
  BY <1>2
<1>4. CASE \/ n \notin Leaf /\ (AbandonControl(p) \/ UNCHANGED controlVars)
           \/ n \in Leaf /\ LeafControl(p)
  BY <1>1, <1>2, <1>4, LeafCompletesStep
<1>5. CASE /\ n \in Leaf
           /\ \E abandon \in {FALSE, (Head(jobQ[Host])[2][1] \in CallbackNode)} :
                 CompleteControl(Head(jobQ[Host])[2][2], abandon)
  <2>1. PICK abandon \in {FALSE, (Head(jobQ[Host])[2][1] \in CallbackNode)} :
                 CompleteControl(Head(jobQ[Host])[2][2], abandon)
    BY <1>5
  <2>2. abandon \in BOOLEAN
    <3>1. abandon = FALSE \/ abandon = (Head(jobQ[Host])[2][1] \in CallbackNode)
      BY <2>1, Zenon
    <3>2. CASE Head(jobQ[Host])[2][1] \in CallbackNode
      <4>1. (Head(jobQ[Host])[2][1] \in CallbackNode) = TRUE
        BY <3>2, Zenon
      <4> QED
        BY <3>1, <4>1, Zenon
    <3>3. CASE Head(jobQ[Host])[2][1] \notin CallbackNode
      <4>1. (Head(jobQ[Host])[2][1] \in CallbackNode) = FALSE
        BY <3>3
      <4> QED
        BY <3>1, <4>1, Zenon
    <3> QED
      BY <3>2, <3>3
  <2>3. abandon => Head(jobQ[Host])[2][1] \in CallbackNode
    BY <2>1
  <2>4. abandon => n \in CallbackNode
    BY <1>3, <2>3
  <2>5. CompleteControl(p, abandon)
    BY <1>3, <2>1
  <2> QED
    BY <1>1, <1>2, <1>5, <2>2, <2>4, <2>5, RunCompletesStep
<1>6. \/ Head(jobQ[Host])[2][1] \notin Leaf
           /\ (AbandonControl(Head(jobQ[Host])[2][2]) \/ UNCHANGED controlVars)
      \/ Head(jobQ[Host])[2][1] \in Leaf /\ LeafControl(Head(jobQ[Host])[2][2])
      \/ /\ Head(jobQ[Host])[2][1] \in Leaf
         /\ \E abandon \in {FALSE, (Head(jobQ[Host])[2][1] \in CallbackNode)} :
               CompleteControl(Head(jobQ[Host])[2][2], abandon)
  BY DEF NodeCompletes
<1> QED
  BY <1>3, <1>4, <1>5, <1>6

-----------------------------------------------------------------------------
(* A run begins                                                             *)

\* The descriptors of the head nodes are put behind what is in the queue.
LEMMA Joined ==
  ASSUME NEW S, NEW s \in Seq(S), NEW r \in Seq(S)
  PROVE  /\ s \o r \in Seq(S) /\ Range(s \o r) = Range(s) \cup Range(r)
         /\ IsInjective(s) /\ IsInjective(r) /\ Range(s) \cap Range(r) = {}
              => IsInjective(s \o r)
<1>1. /\ s \o r \in Seq(S) /\ DOMAIN (s \o r) = 1 .. Len(s) + Len(r)
      /\ \A j \in 1 .. Len(s) : (s \o r)[j] = s[j]
      /\ \A j \in 1 .. Len(r) : (s \o r)[Len(s) + j] = r[j]
      /\ DOMAIN s = 1 .. Len(s) /\ DOMAIN r = 1 .. Len(r) /\ Len(s) \in Nat /\ Len(r) \in Nat
  OBVIOUS
<1>2. ASSUME NEW j \in DOMAIN (s \o r)
      PROVE  \/ j \in DOMAIN s /\ (s \o r)[j] = s[j]
             \/ j - Len(s) \in DOMAIN r /\ (s \o r)[j] = r[j - Len(s)] /\ j \in Nat
  <2>1. CASE j <= Len(s)
    BY <1>1, <2>1
  <2>2. CASE ~(j <= Len(s))
    <3>1. j - Len(s) \in 1 .. Len(r) /\ Len(s) + (j - Len(s)) = j
      BY <1>1, <2>2
    <3> QED
      BY <1>1, <3>1
  <2> QED
    BY <2>1, <2>2
<1>3. Range(s \o r) = Range(s) \cup Range(r)
  <2>1. \A j \in DOMAIN s : j \in DOMAIN (s \o r) /\ (s \o r)[j] = s[j]
    BY <1>1
  <2>2. \A j \in DOMAIN r : Len(s) + j \in DOMAIN (s \o r) /\ (s \o r)[Len(s) + j] = r[j]
    BY <1>1
  <2>3. ASSUME NEW x \in Range(s \o r) PROVE x \in Range(s) \cup Range(r)
    <3>1. PICK j \in DOMAIN (s \o r) : x = (s \o r)[j]
      BY DEF Range
    <3> QED
      BY <1>2, <3>1 DEF Range
  <2>4. ASSUME NEW x \in Range(s) PROVE x \in Range(s \o r)
    BY <2>1 DEF Range
  <2>5. ASSUME NEW x \in Range(r) PROVE x \in Range(s \o r)
    <3>1. PICK j \in DOMAIN r : x = r[j]
      BY DEF Range
    <3>2. Len(s) + j \in DOMAIN (s \o r) /\ (s \o r)[Len(s) + j] = x
      BY <2>2, <3>1
    <3> QED
      BY <3>2 DEF Range
  <2> QED
    BY <2>3, <2>4, <2>5
<1>4. ASSUME IsInjective(s), IsInjective(r), Range(s) \cap Range(r) = {}
      PROVE  IsInjective(s \o r)
  <2>1. ASSUME NEW a \in DOMAIN (s \o r), NEW b \in DOMAIN (s \o r), (s \o r)[a] = (s \o r)[b]
        PROVE  a = b
    <3>1. CASE a \in DOMAIN s /\ (s \o r)[a] = s[a]
      <4>1. CASE b \in DOMAIN s /\ (s \o r)[b] = s[b]
        BY <1>4, <2>1, <3>1, <4>1 DEF IsInjective
      <4>2. CASE b - Len(s) \in DOMAIN r /\ (s \o r)[b] = r[b - Len(s)]
        BY <1>4, <2>1, <3>1, <4>2 DEF Range
      <4> QED
        BY <1>2, <4>1, <4>2
    <3>2. CASE a - Len(s) \in DOMAIN r /\ (s \o r)[a] = r[a - Len(s)] /\ a \in Nat
      <4>1. CASE b \in DOMAIN s /\ (s \o r)[b] = s[b]
        BY <1>4, <2>1, <3>2, <4>1 DEF Range
      <4>2. CASE b - Len(s) \in DOMAIN r /\ (s \o r)[b] = r[b - Len(s)] /\ b \in Nat
        <5>1. a - Len(s) = b - Len(s)
          BY <1>4, <2>1, <3>2, <4>2 DEF IsInjective
        <5> QED
          BY <1>1, <3>2, <4>2, <5>1
      <4> QED
        BY <1>2, <4>1, <4>2
    <3> QED
      BY <1>2, <3>1, <3>2
  <2> QED
    BY <2>1 DEF IsInjective
<1> QED
  BY <1>1, <1>3, <1>4

\* The descriptor that is taken was free.
LEMMA RunBegins ==
  ASSUME Inv, GraphParameters, NEW p, SubmitControl(p)
  PROVE  p \in Pipe /\ p \notin InRun /\ InRun' = InRun \cup {p} /\ verified # 0 /\ verified' = verified
<1>1. freeQ # <<>> /\ p = Head(freeQ) /\ freeQ' = Tail(freeQ) /\ verified' = verified
  BY DEF SubmitControl
<1>2. freeQ \in Seq(Pipe) /\ verified # 0
  BY <1>1 DEF Inv, GSP!IInv, GSP!TypeOK, GSP!FreshInv, Pipe, GSP!Pipe
<1>3. IsInjective(freeQ)
  BY DEF Inv, GSP!IInv, GSP!DescriptorsConserved, IsInjective
<1>4. /\ p \in Pipe /\ Range(freeQ) = Range(Tail(freeQ)) \cup {p} /\ p \notin Range(Tail(freeQ))
  BY <1>1, <1>2, <1>3, Taken
<1> QED
  BY <1>1, <1>2, <1>4 DEF InRun

\* The head nodes of the run.
Heads(t, p) == {i \in Inst : i[2] = p /\ InNodes(i[1]) = {} /\ TargetOf[i[1]] = t}

\* Every target gets its head nodes of the run, once.
LEMMA HeadsSent ==
  ASSUME JobsTyped, ListsInv, GraphParameters, NEW p \in Pipe,
         \A t \in Target : Range(jobQ[t]) \cap Heads(t, p) = {},
         jobQ' = [t \in DOMAIN jobQ |->
            IF t = Host THEN jobQ[t]
            ELSE jobQ[t] \o [h \in DOMAIN HeadNodes[t] |-> <<HeadNodes[t][h], p>>]]
  PROVE  /\ JobsTyped' /\ jobQ'[Host] = jobQ[Host]
         /\ \A t \in Target : /\ Range(jobQ'[t]) = Range(jobQ[t]) \cup Heads(t, p)
                              /\ IsInjective(jobQ'[t])
                              /\ \A i \in Range(jobQ'[t]) : TargetOf[i[1]] = t
<1>0. Host \notin Target
  BY GraphAssumption
<1>1. jobQ'[Host] = jobQ[Host] /\ DOMAIN jobQ' = Target \cup {Host}
  BY DEF JobsTyped
<1>2. ASSUME NEW t \in Target
      PROVE  /\ jobQ'[t] \in Seq(Inst) /\ Range(jobQ'[t]) = Range(jobQ[t]) \cup Heads(t, p)
             /\ IsInjective(jobQ'[t])
             /\ \A i \in Range(jobQ'[t]) : TargetOf[i[1]] = t
  <2> DEFINE s == [h \in DOMAIN HeadNodes[t] |-> <<HeadNodes[t][h], p>>]
  <2>1. jobQ'[t] = jobQ[t] \o s
    BY <1>0 DEF JobsTyped
  <2>2. HeadNodes[t] \in Seq(Node) /\ IsInjective(HeadNodes[t])
    BY DEF GraphParameters
  <2>3. s \in Seq(Inst)
    BY <2>2 DEF Inst
  <2>4. DOMAIN s = DOMAIN HeadNodes[t] /\ \A h \in DOMAIN s : s[h] = <<HeadNodes[t][h], p>>
    OBVIOUS
  <2> HIDE DEF s
  <2>5. IsInjective(s)
    BY <2>2, <2>4 DEF IsInjective
  <2>6. Range(s) = Heads(t, p)
    <3>1. Range(HeadNodes[t]) = {n \in Node : InNodes(n) = {} /\ TargetOf[n] = t}
      BY GraphAssumption
    <3>2. ASSUME NEW i \in Range(s) PROVE i \in Heads(t, p)
      <4>1. PICK h \in DOMAIN s : i = s[h]
        BY DEF Range
      <4>2. PICK n \in Node : n = HeadNodes[t][h] /\ InNodes(n) = {} /\ TargetOf[n] = t
        <5>1. HeadNodes[t][h] \in Range(HeadNodes[t])
          BY <2>4 DEF Range
        <5> QED
          BY <3>1, <5>1
      <4>3. i = <<n, p>>
        BY <2>4, <4>1, <4>2
      <4> QED
        BY <4>2, <4>3 DEF Heads, Inst
    <3>3. ASSUME NEW i \in Heads(t, p) PROVE i \in Range(s)
      <4>1. PICK n \in Node : i = <<n, p>> /\ InNodes(n) = {} /\ TargetOf[n] = t
        BY DEF Heads, Inst
      <4>2. n \in Range(HeadNodes[t])
        BY <3>1, <4>1
      <4>3. PICK h \in DOMAIN HeadNodes[t] : n = HeadNodes[t][h]
        BY <4>2 DEF Range
      <4>4. h \in DOMAIN s /\ s[h] = i
        BY <2>4, <4>1, <4>3
      <4> QED
        BY <4>4 DEF Range
    <3> QED
      BY <3>2, <3>3
  <2>7. jobQ[t] \in Seq(Inst) /\ IsInjective(jobQ[t]) /\ \A i \in Range(jobQ[t]) : TargetOf[i[1]] = t
    BY DEF JobsTyped, ListsInv
  <2>8. /\ jobQ[t] \o s \in Seq(Inst) /\ Range(jobQ[t] \o s) = Range(jobQ[t]) \cup Range(s)
        /\ IsInjective(jobQ[t] \o s)
    BY <2>3, <2>5, <2>6, <2>7, Joined
  <2>9. \A i \in Heads(t, p) : TargetOf[i[1]] = t
    BY DEF Heads
  <2> QED
    BY <2>1, <2>6, <2>7, <2>8, <2>9
<1>3. JobsTyped'
  <2>1. \A t \in Target : jobQ'[t] \in Seq(Inst \cup HostJob)
    <3>1. \A S, T : S \subseteq T => Seq(S) \subseteq Seq(T)
      OBVIOUS
    <3>2. Inst \subseteq Inst \cup HostJob
      OBVIOUS
    <3> QED
      BY <1>2, <3>1, <3>2
  <2>2. jobQ'[Host] \in Seq(Inst \cup HostJob) /\ jobQ'[Host] \in Seq(HostJob)
    BY <1>1 DEF JobsTyped
  <2>3. jobQ' \in [Target \cup {Host} -> Seq(Inst \cup HostJob)]
    BY <1>1, <2>1, <2>2 DEF JobsTyped
  <2> QED
    BY <1>2, <2>2, <2>3 DEF JobsTyped
<1> QED
  BY <1>1, <1>2, <1>3

\* A task that still works for the previous run of the instance is about to finish.
LEMMA NothingPends ==
  ASSUME Detail, GraphParameters, NEW p \in Pipe, p \notin InRun
  PROVE  /\ \A m, n \in Node : ~Pending(m, n, p) /\ ~Releasing(m, p)
         /\ \A t \in Target : task[t].at \in {"release", "consumed"} => task[t].inst[2] # p
         /\ \A t \in Target : task[t].at = "trigger" /\ task[t].inst[2] = p =>
               ~(task[t].k <= Len(OutNodes[task[t].inst[1]]))
<1>1. \A t \in Target : task[t].at \in {"release", "consumed"} => task[t].inst[2] # p
  BY DEF Detail, TaskShape, Shape
<1>2. ASSUME NEW m \in Node PROVE ~Releasing(m, p)
  <2>1. TargetOf[m] \in Target
    BY DEF GraphParameters
  <2> QED
    BY <1>1, <2>1 DEF Releasing, OnTask
<1>3. ASSUME NEW m \in Node, NEW n \in Node, Pending(m, n, p) PROVE FALSE
  <2>0. TargetOf[m] \in Target
    BY DEF GraphParameters
  <2>1. PICK j \in DOMAIN OutNodes[m] : j >= task[TargetOf[m]].k /\ OutNodes[m][j] = n
    BY <1>2, <1>3 DEF Pending
  <2>2. OnTask(m, p, "trigger")
    BY <1>2, <1>3 DEF Pending
  <2>3. <<m, p>> \in executed
    <3>1. Shape(TargetOf[m]) /\ task[TargetOf[m]].k \in Nat
      BY <2>0 DEF Detail, TaskShape, Typed, TasksTyped, TaskRecord
    <3>2. OutNodes[m] \in Seq(Node)
      BY DEF GraphParameters
    <3>3. task[TargetOf[m]].k <= Len(OutNodes[m])
      BY <2>1, <3>1, <3>2
    <3>4. task[TargetOf[m]].inst[1] = m /\ task[TargetOf[m]].inst = <<m, p>>
      BY <2>2 DEF OnTask
    <3> QED
      BY <2>2, <3>1, <3>3, <3>4 DEF Shape, OnTask
  <2>4. <<n, p>> \in executed
    BY <2>3 DEF Detail, ExecInv
  <2>5. Enabled(<<n, p>>)
    BY <2>4 DEF Detail, ExecInv
  <2>6. m \in InNodes(n)
    BY <2>1 DEF InNodes, Range
  <2> QED
    BY <1>3, <2>5, <2>6 DEF Enabled
<1>4. ASSUME NEW t \in Target, task[t].at = "trigger", task[t].inst[2] = p,
             task[t].k <= Len(OutNodes[task[t].inst[1]])
      PROVE  FALSE
  <2>1. PICK n \in Node, q \in Pipe :
           /\ task[t].inst = <<n, q>> /\ TargetOf[n] = t /\ task[t].k \in Nat \ {0}
           /\ OutNodes[n] \in Seq(Node)
    BY <1>4, ShapeOf DEF Detail
  <2>2. q = p /\ task[t].k \in DOMAIN OutNodes[n]
    BY <1>4, <2>1
  <2>3. OutNodes[n][task[t].k] \in Node
    BY <2>1, <2>2
  <2>4. task[t].k >= task[t].k
    BY <2>1
  <2>5. Pending(n, OutNodes[n][task[t].k], p)
    BY <1>4, <2>1, <2>2, <2>4 DEF Pending, OnTask
  <2> QED
    BY <1>3, <2>3, <2>5
<1> QED
  BY <1>1, <1>2, <1>3, <1>4

\* What the beginning of a run makes due are its head nodes.
LEMMA HeadsDue ==
  ASSUME Detail, GraphParameters, NEW p \in Pipe, p \notin InRun, InRun' = InRun \cup {p},
         task' = task, executed' = ClearState(p)
  PROVE  /\ executed' \subseteq executed
         /\ \A n \in Node, q \in Pipe : <<n, q>> \in executed' <=> <<n, q>> \in executed /\ q # p
         /\ \A i \in Inst : i[2] # p => (Due(i)' <=> Due(i)) /\ (Enabled(i)' <=> Enabled(i))
         /\ \A i \in Inst : i[2] = p => ~Due(i) /\ (Due(i)' <=> InNodes(i[1]) = {})
<1>1. /\ executed' \subseteq executed
      /\ \A n \in Node, q \in Pipe : <<n, q>> \in executed' <=> <<n, q>> \in executed /\ q # p
  <2>1. \A n \in Node, q \in Pipe : <<n, q>> \in {<<m, p>> : m \in Node} <=> q = p
    OBVIOUS
  <2> QED
    BY <2>1 DEF ClearState
<1>2. SamePending
  BY TaskSame
<1>3. ASSUME NEW n \in Node, NEW q \in Pipe, q # p
      PROVE  /\ Due(<<n, q>>)' <=> Due(<<n, q>>)
             /\ Enabled(<<n, q>>)' <=> Enabled(<<n, q>>)
  <2>1. \A m \in InNodes(n) : /\ <<m, q>> \in executed' <=> <<m, q>> \in executed
                              /\ Pending(m, n, q)' <=> Pending(m, n, q)
    BY <1>1, <1>2, <1>3 DEF SamePending, InNodes
  <2>2. Enabled(<<n, q>>)' <=> Enabled(<<n, q>>)
    BY <2>1 DEF Enabled
  <2>3. <<n, q>> \in executed' <=> <<n, q>> \in executed
    BY <1>1, <1>3
  <2> QED
    BY <1>3, <2>2, <2>3 DEF Due
<1>4. ASSUME NEW n \in Node
      PROVE  ~Due(<<n, p>>) /\ (Due(<<n, p>>)' <=> InNodes(n) = {})
  <2>1. \A m \in InNodes(n) : <<m, p>> \notin executed'
    BY <1>1 DEF InNodes
  <2>2. Enabled(<<n, p>>)' <=> InNodes(n) = {}
    BY <2>1 DEF Enabled
  <2>3. <<n, p>> \notin executed'
    BY <1>1
  <2> QED
    BY <2>2, <2>3 DEF Due
<1>5. ASSUME NEW i \in Inst PROVE i[1] \in Node /\ i[2] \in Pipe /\ i = <<i[1], i[2]>>
  BY DEF Inst
<1>6. \A i \in Inst : i[2] # p => (Due(i)' <=> Due(i)) /\ (Enabled(i)' <=> Enabled(i))
  <2> TAKE i \in Inst
  <2>1. PICK n \in Node, q \in Pipe : i = <<n, q>>
    BY DEF Inst
  <2> QED
    BY <1>3, <2>1
<1>7. \A i \in Inst : i[2] = p => ~Due(i) /\ (Due(i)' <=> InNodes(i[1]) = {})
  <2> TAKE i \in Inst
  <2>1. PICK n \in Node, q \in Pipe : i = <<n, q>>
    BY DEF Inst
  <2> QED
    BY <1>4, <2>1
<1> QED
  BY <1>1, <1>6, <1>7

\* ownGraphScheduleGraph: the nodes of the run are as before an execution, its head nodes
\* are triggered.
LEMMA SubmitRunStep ==
  ASSUME Inv, GraphParameters, NEW p, SubmitRun(p)
  PROVE  Detail' /\ Implements
<1> USE DEF queueVars, nodeVars, userVars
<1>0. Detail
  BY DEF Inv
<1>1. /\ SubmitControl(p) /\ executed' = ClearState(p)
      /\ UNCHANGED <<task, blocked, behind, queueVars, userVars>>
      /\ jobQ' = [t \in DOMAIN jobQ |->
            IF t = Host THEN jobQ[t]
            ELSE jobQ[t] \o [h \in DOMAIN HeadNodes[t] |-> <<HeadNodes[t][h], p>>]]
  BY DEF SubmitRun
<1>2. p \in Pipe /\ p \notin InRun /\ InRun' = InRun \cup {p} /\ verified # 0 /\ verified' = verified
  BY <1>1, RunBegins
<1>3. /\ executed' \subseteq executed
      /\ \A n \in Node, q \in Pipe : <<n, q>> \in executed' <=> <<n, q>> \in executed /\ q # p
      /\ \A i \in Inst : i[2] # p => (Due(i)' <=> Due(i)) /\ (Enabled(i)' <=> Enabled(i))
      /\ \A i \in Inst : i[2] = p => ~Due(i) /\ (Due(i)' <=> InNodes(i[1]) = {})
  BY <1>0, <1>1, <1>2, HeadsDue
<1>4. SameReleasing /\ SamePending /\ SameStill
  BY <1>1, TaskSame
<1>5. \A t \in Target : Heads(t, p) \subseteq Inst /\ \A i \in Heads(t, p) : ~Somewhere(i)
  BY <1>0, <1>3 DEF Heads, Detail, DueInv
<1>6. /\ JobsTyped' /\ jobQ'[Host] = jobQ[Host]
      /\ \A t \in Target : /\ Range(jobQ'[t]) = Range(jobQ[t]) \cup Heads(t, p)
                           /\ IsInjective(jobQ'[t])
                           /\ \A i \in Range(jobQ'[t]) : TargetOf[i[1]] = t
  <2>1. ASSUME NEW t \in Target PROVE Range(jobQ[t]) \cap Heads(t, p) = {}
    <3>1. <<"job", t>> \in Place /\ Tokens(<<"job", t>>) = Range(jobQ[t])
      BY Places, TokensOf
    <3> QED
      BY <1>5, <3>1 DEF Somewhere
  <2> QED
    BY <1>0, <1>1, <1>2, <2>1, HeadsSent DEF Detail, Typed
<1>7. Typed' /\ ListsInv'
  BY <1>0, <1>1, <1>3, <1>6 DEF Detail, Typed, TasksTyped, NodesTyped, QueuesTyped, ListsInv
<1>8. TaskShape'
  <2>1. ASSUME NEW t \in Target PROVE Shape(t)'
    <3>1. Shape(t)
      BY <1>0 DEF Detail, TaskShape
    <3>2. /\ task[t].at \in {"release", "consumed"} => task[t].inst[2] # p
          /\ task[t].at = "trigger" /\ task[t].inst[2] = p =>
               ~(task[t].k <= Len(OutNodes[task[t].inst[1]]))
      BY <1>0, <1>2, NothingPends
    <3>3. task[t].at # "idle" => /\ task[t].inst = <<task[t].inst[1], task[t].inst[2]>>
                                 /\ task[t].inst[1] \in Node /\ task[t].inst[2] \in Pipe
      BY <1>0, ShapeOf DEF Detail
    <3>4. /\ task[t].at \in {"release", "consumed"} =>
                task[t].inst \in executed' /\ task[t].inst[2] \in InRun'
          /\ task[t].at = "trigger" =>
                (task[t].k <= Len(OutNodes[task[t].inst[1]]) => task[t].inst \in executed')
      BY <1>2, <1>3, <3>1, <3>2, <3>3 DEF Shape
    <3> QED
      BY <1>1, <3>1, <3>4 DEF Shape
  <2> QED
    BY <2>1 DEF TaskShape
<1>9. OnePlace' /\ DueInv'
  <2> DEFINE New(x) == IF x[1] = "job" THEN Heads(x[2], p) ELSE {}
  <2>1. ASSUME NEW x \in Place PROVE Tokens(x)' = Tokens(x) \cup New(x)
    <3>1. ASSUME NEW t \in Target, x = <<"job", t>> PROVE Tokens(x)' = Tokens(x) \cup New(x)
      <4>1. Range(jobQ'[t]) = Range(jobQ[t]) \cup Heads(t, p)
        BY <1>6
      <4>2. Tokens(<<"job", t>>)' = Range(jobQ'[t])
        BY TokensPrimed
      <4> QED
        BY <3>1, <4>1, <4>2, TokensOf
    <3>2. ASSUME NEW t \in Target,
                 x = <<"wake", t>> \/ x = <<"after", t>> \/ x = <<"acquire", t>>
          PROVE  Tokens(x)' = Tokens(x) \cup New(x)
      <4>1. Tokens(x)' = Tokens(x)
        BY <1>1, <3>2, PlacesSame
      <4>2. New(x) = {}
        BY <3>2
      <4> QED
        BY <4>1, <4>2
    <3>3. ASSUME NEW d, x = <<"waiting", d>> \/ x = <<"call", d>> \/ x = <<"behind", d>>
          PROVE  Tokens(x)' = Tokens(x) \cup New(x)
      <4>1. Tokens(x)' = Tokens(x)
        BY <1>1, <3>3, PlacesSame
      <4>2. New(x) = {}
        BY <3>3
      <4> QED
        BY <4>1, <4>2
    <3> QED
      BY <3>1, <3>2, <3>3, Places
  <2>2. ASSUME NEW x \in Place, NEW i \in New(x)
        PROVE  /\ i \in Inst /\ ~Somewhere(i) /\ i[2] = p /\ InNodes(i[1]) = {}
               /\ x = <<"job", TargetOf[i[1]]>>
    <3>1. PICK t \in Target : x = <<"job", t>>
      BY Places
    <3> QED
      BY <1>5, <3>1 DEF Heads
  <2>3. ASSUME NEW i \in Inst, i[2] = p, InNodes(i[1]) = {}
        PROVE  \E x \in Place : i \in New(x)
    <3>1. TargetOf[i[1]] \in Target
      BY DEF Inst, GraphParameters
    <3>2. <<"job", TargetOf[i[1]]>> \in Place /\ i \in New(<<"job", TargetOf[i[1]]>>)
      BY <2>3, <3>1, Places DEF Heads
    <3> QED
      BY <3>2
  <2> HIDE DEF New
  <2>4. OnePlace'
    <3> SUFFICES ASSUME NEW x \in Place, NEW y \in Place, x # y, NEW i,
                        i \in Tokens(x)', i \in Tokens(y)'
                 PROVE  FALSE
      BY DEF OnePlace
    <3>1. (i \in Tokens(x) \/ i \in New(x)) /\ (i \in Tokens(y) \/ i \in New(y))
      BY <2>1
    <3>2. ~(i \in Tokens(x) /\ i \in Tokens(y))
      BY <1>0 DEF Detail, OnePlace
    <3> QED
      BY <2>2, <3>1, <3>2 DEF Somewhere
  <2>5. \A i \in Inst : Somewhere(i)' <=> Somewhere(i) \/ (i[2] = p /\ InNodes(i[1]) = {})
    <3> TAKE i \in Inst
    <3>1. Somewhere(i)' <=> \E x \in Place : i \in Tokens(x)'
      BY DEF Somewhere
    <3> QED
      BY <2>1, <2>2, <2>3, <3>1 DEF Somewhere
  <2> QED
    BY <1>0, <1>3, <2>4, <2>5 DEF Detail, DueInv
<1>10. BlockedInv'
  <2>1. ASSUME NEW i \in blocked
        PROVE  Due(i)' /\ i \notin Tokens(<<"acquire", TargetOf[i[1]]>>)'
    <3>1. i \in Inst /\ Due(i) /\ i \notin Tokens(<<"acquire", TargetOf[i[1]]>>)
      BY <1>0 DEF Detail, BlockedInv, Typed, NodesTyped
    <3>2. i[2] # p
      BY <1>2, <3>1 DEF Due
    <3> QED
      BY <1>1, <1>3, <3>1, <3>2, PlacesSame
  <2> QED
    BY <1>0, <1>1, <2>1 DEF Detail, BlockedInv, Prev
<1>11. ExecInv'
  <2>1. ASSUME NEW i \in executed' PROVE Enabled(i)'
    <3>1. i \in Inst /\ i \in executed
      BY <1>0, <1>3 DEF Detail, Typed, NodesTyped
    <3>2. PICK n \in Node, q \in Pipe : i = <<n, q>>
      BY <3>1 DEF Inst
    <3>3. q # p
      BY <1>3, <3>2
    <3> QED
      BY <1>0, <1>3, <3>1, <3>2, <3>3 DEF Detail, ExecInv
  <2>2. ASSUME NEW q \in Pipe \ InRun'
        PROVE  \/ \A n \in Node : <<n, q>> \in executed'
               \/ \A n \in Node : <<n, q>> \notin executed'
    <3>1. q \in Pipe \ InRun /\ q # p
      BY <1>2
    <3> QED
      BY <1>0, <1>3, <3>1 DEF Detail, ExecInv
  <2> QED
    BY <2>1, <2>2 DEF ExecInv
<1>12. HeldInv'
  <2> SUFFICES ASSUME NEW d \in Data, NEW q \in Pipe PROVE HeldOf(d, q)'
    BY DEF HeldInv
  <2>1. /\ HeldOf(d, q) /\ held'[<<d, q>>] = held[<<d, q>>]
        /\ doneCnt'[<<d, q>>] = doneCnt[<<d, q>>]
    BY <1>0, <1>1 DEF Detail, HeldInv
  <2>2. CASE q = p
    <3>1. held[<<d, q>>] = NoRef
      BY <1>2, <2>1, <2>2 DEF HeldOf
    <3>2. Untouched(d, q)'
      BY <1>3, <2>2 DEF Untouched
    <3> QED
      BY <2>1, <3>1, <3>2 DEF HeldOf
  <2>3. CASE q # p
    <3>1. \A x \in Node : ReleasedBy(x, d, q)' <=> ReleasedBy(x, d, q)
      BY <1>3, <1>4, <2>3 DEF ReleasedBy, SameStill
    <3>2. Readers(d, q)' = Readers(d, q)
      BY <3>1 DEF Readers, Consumers
    <3>3. Consumers(d) = {} => (ReleasedBy(Producer[d], d, q)' <=> ReleasedBy(Producer[d], d, q))
      <4>1. Consumers(d) = {} => Producer[d] \in Node
        BY GraphAssumption DEF GraphParameters
      <4> QED
        BY <3>1, <4>1
    <3>4. Full(d, q)' <=> Full(d, q)
      BY <3>2, <3>3 DEF Full
    <3>5. Untouched(d, q)' <=> Untouched(d, q)
      BY <1>3, <2>3 DEF Untouched
    <3> QED
      BY <1>2, <2>1, <2>3, <3>2, <3>4, <3>5 DEF HeldOf
  <2> QED
    BY <2>2, <2>3
<1>13. PrmInv' /\ RefInv' /\ WaitsForNothingReady' /\ Unverified'
  BY <1>0, <1>1, <1>2, RefsSame DEF Detail, PrmInv, PrmOf, Has, WaitsForNothingReady, Unverified
<1>14. HostInv'
  <2>1. \A j, n, q : Reported(j, n, q)' <=> Reported(j, n, q)
    BY <1>6 DEF Reported
  <2> SUFFICES ASSUME NEW n \in Node, NEW q \in Pipe, NEW j \in DOMAIN jobQ[Host], Reported(j, n, q)
               PROVE  /\ q \in InRun' /\ <<n, q>> \in executed' /\ ~Releasing(n, q)'
                      /\ \A h \in DOMAIN jobQ[Host] : Reported(h, n, q) => j = h
                      /\ \E l \in Leaf : \/ <<l, q>> \notin executed'
                                         \/ Releasing(l, q)'
                                         \/ \E h \in DOMAIN jobQ[Host] : h >= j /\ Reported(h, l, q)
    BY <1>6, <2>1 DEF HostInv
  <2>2. HostInv
    BY <1>0 DEF Detail
  <2>3. /\ q \in InRun /\ <<n, q>> \in executed /\ ~Releasing(n, q)
        /\ \A h \in DOMAIN jobQ[Host] : Reported(h, n, q) => j = h
    BY <2>2 DEF HostInv
  <2>4. PICK l \in Leaf : \/ <<l, q>> \notin executed
                          \/ Releasing(l, q)
                          \/ \E h \in DOMAIN jobQ[Host] : h >= j /\ Reported(h, l, q)
    BY ONLY <2>2, n \in Node, q \in Pipe, j \in DOMAIN jobQ[Host], Reported(j, n, q) DEF HostInv
  <2>5. l \in Node /\ q # p
    BY <1>2, <2>3, GraphAssumption
  <2> QED
    BY <1>2, <1>3, <1>4, <2>3, <2>4, <2>5 DEF SameReleasing
<1>15. LeafTodo' = [LeafTodo EXCEPT ![p] = Leaf]
  <2>0. Leaf \subseteq Node
    BY GraphAssumption
  <2>1. ASSUME NEW l \in Leaf, NEW q \in Pipe
        PROVE  /\ q = p => Incomplete(l, q)'
               /\ q # p => (Incomplete(l, q)' <=> Incomplete(l, q))
    BY <1>3, <1>4, <1>6, <2>0 DEF Incomplete, SameReleasing
  <2>2. ASSUME NEW q \in Pipe
        PROVE  {l \in Leaf : Incomplete(l, q)}' =
                  IF q = p THEN Leaf ELSE {l \in Leaf : Incomplete(l, q)}
    BY <2>1
  <2>3. LeafTodo = [q \in Pipe |-> IF q \in InRun THEN {l \in Leaf : Incomplete(l, q)} ELSE {}]
    BY DEF LeafTodo
  <2>4. LeafTodo' = [q \in Pipe |-> IF q \in InRun' THEN {l \in Leaf : Incomplete(l, q)}' ELSE {}]
    BY DEF LeafTodo
  <2> QED
    BY <1>2, <2>2, <2>3, <2>4
<1>16. Unfed' = Unfed \cup {p}
  <2>1. Param0 \in Data
    BY GraphAssumption DEF GraphParameters
  <2>2. held[<<Param0, p>>] = NoRef
    BY <1>0, <1>2, <2>1 DEF Detail, HeldInv, HeldOf
  <2>3. \E n \in Consumers(Param0) : <<n, p>> \notin executed'
    BY <1>2, <1>3 DEF GraphParameters, Consumers
  <2>4. \A q \in InRun : (\E n \in Consumers(Param0) : <<n, q>> \notin executed')
                          <=> (\E n \in Consumers(Param0) : <<n, q>> \notin executed)
    <3>1. InRun \subseteq Pipe
      BY DEF InRun
    <3> QED
      BY <1>2, <1>3, <3>1 DEF Consumers
  <2>5. held' = held
    BY <1>1
  <2>6. Unfed' = {q \in InRun' : held[<<Param0, q>>] = NoRef
                                   /\ \E n \in Consumers(Param0) : <<n, q>> \notin executed'}
    BY <2>5 DEF Unfed, Consumers
  <2> QED
    BY <1>2, <2>2, <2>3, <2>4, <2>6 DEF Unfed
<1>17. GSP!SubmitControl(p)
  BY <1>1 DEF SubmitControl, GSP!SubmitControl, ClearEvent, GSP!ClearEvent,
              hostVars, callVars, countVars, waitVars, GSP!hostVars, GSP!callVars,
              GSP!countVars, GSP!waitVars
<1>18. GSP!SubmitRun(p)
  <2>1. GSP!Queueing
    BY GraphAssumption DEF GSP!Queueing
  <2> QED
    BY <1>1, <1>15, <1>16, <1>17, <2>1 DEF GSP!SubmitRun
<1>19. GSP!Next
  <2>1. p \in GSP!Pipe
    BY <1>2 DEF Pipe, GSP!Pipe
  <2> QED
    BY <1>18, <2>1 DEF GSP!Next, GSP!RunStep
<1> QED
  BY <1>7, <1>8, <1>9, <1>10, <1>11, <1>12, <1>13, <1>14, <1>19 DEF Detail, Implements

-----------------------------------------------------------------------------
(* The theorems                                                              *)

\* The constants of GraphSchedule are those of PipelinedGraph.
LEMMA ControlAssumptions ==
  /\ GSP!IsFiniteSet(Leaf) /\ GSP!Actor = Actor /\ GSP!Pipe = Pipe
  /\ Leaf # {} /\ Mode \in {"NORMAL", "AUTO", "MANUAL"}
  /\ Depth \in Nat /\ MaxDepth \in Nat /\ 1 <= Depth /\ Depth < MaxDepth
  /\ Waiter \subseteq App /\ GSP!Host \notin App /\ NoActor \notin GSP!Actor
  /\ NoActor \notin GSP!Pipe
  /\ MaxRequest \in Nat /\ MaxBatch \in Nat \ {0} /\ MaxVerify \in Nat \ {0}
  /\ CallbackAtLeaf \in BOOLEAN /\ Rewait \in BOOLEAN
<1>1. GSP!IsFiniteSet(Leaf)
  BY LeafAssumption DEF IsFiniteSet, GSP!IsFiniteSet
<1>2. GSP!Actor = Actor /\ GSP!Pipe = Pipe /\ GSP!Host = Host
  BY DEF GSP!Actor, Actor, GSP!Pipe, Pipe, GSP!Host, Host
<1> QED
  BY <1>1, <1>2, LeafAssumption, ModeAssumption, DepthAssumption, ActorAssumption,
     BoundAssumption

\* Nothing holds a reference and nothing runs at the start.
LEMMA InitInv == GraphParameters /\ Init => Inv
<1> SUFFICES ASSUME GraphParameters, Init PROVE Inv
  OBVIOUS
<1>1. Detail /\ GSP!Init
  BY InitDetail
<1>2. GSP!IInv
  BY <1>1, GSP!InitIInv, ControlAssumptions
<1> QED
  BY <1>1, <1>2 DEF Inv

\* A target does one of thirteen things.
LEMMA TargetSteps ==
  ASSUME Detail, GraphParameters, NEW t \in Target, TargetStep(t)
  PROVE  Detail' /\ Implements
<1>1. CASE TakeJob(t) \/ AcquireHeld(t) \/ AcquireRef(t) \/ AcquireBlocks(t)
  BY <1>1, TakeJobStep, AcquireHeldStep, AcquireRefStep, AcquireBlocksStep
<1>2. CASE ExecuteNode(t) \/ KeepParam(t) \/ ReleaseParam(t) \/ ReleaseDone(t)
  BY <1>2, ExecuteNodeStep, KeepParamStep, ReleaseParamStep, ReleaseDoneStep
<1>3. CASE SendRefConsumed(t) \/ WakeBlocked(t) \/ SendComplete(t)
  BY <1>3, SendRefConsumedStep, WakeBlockedStep, SendCompleteStep
<1>4. CASE TriggerNext(t) \/ FinishNode(t)
  BY <1>4, TriggerNextStep, FinishNodeStep
<1> QED
  BY <1>1, <1>2, <1>3, <1>4 DEF TargetStep

\* Every step keeps the invariant, and is a step of GraphSchedule or of none.
LEMMA NextInv ==
  ASSUME Inv, GraphParameters, [Next]_vars
  PROVE  Inv' /\ Implements
<1>d. Detail /\ GSP!IInv
  BY DEF Inv
<1>1. Detail' /\ Implements
  <2>1. CASE VerifyGraph
    BY <2>1, VerifyGraphStep
  <2>2. ASSUME NEW a \in App, EnqueueInput(a) \/ CallStep(a) PROVE Detail' /\ Implements
    BY <1>d, <2>2, EnqueueInputStep, CallSteps
  <2>3. ASSUME NEW d \in UserData, EnqueueOutput(d) \/ Retrigger(d)
        PROVE  Detail' /\ Implements
    BY <1>d, <2>3, EnqueueOutputStep, RetriggerStep
  <2>4. ASSUME NEW x \in Dequeuer, Dequeue(x) PROVE Detail' /\ Implements
    BY <1>d, <2>4, DequeueTakes, DequeueLeft DEF Dequeue
  <2>5. ASSUME NEW p \in Pipe, SubmitRun(p) PROVE Detail' /\ Implements
    BY <2>5, SubmitRunStep
  <2>6. ASSUME NEW t \in Target, TargetStep(t) PROVE Detail' /\ Implements
    BY <1>d, <2>6, TargetSteps
  <2>7. CASE HostStep
    BY <1>d, <2>7, RefConsumedStep, NodeCompletesStep, LockSteps DEF HostStep
  <2>8. CASE UNCHANGED vars
    <3>1. UNCHANGED detailVars /\ UNCHANGED <<freeQ, verified>> /\ UNCHANGED controlVars
      BY <2>8 DEF vars, controlVars, descVars
    <3>2. /\ Detail' /\ Len(readyQ[Param0])' = Len(readyQ[Param0])
          /\ Unfed' = Unfed /\ LeafTodo' = LeafTodo
      BY <1>d, <3>1, DetailSame
    <3> QED
      BY <3>1, <3>2, RunsStutter
  <2> QED
    BY <2>1, <2>2, <2>3, <2>4, <2>5, <2>6, <2>7, <2>8 DEF Next
<1>2. [GSP!Next]_GSP!vars
  BY <1>1 DEF Implements
<1>3. GSP!IInv'
  BY <1>d, <1>2, GSP!NextIInv, GraphAssumption, ControlAssumptions
<1> QED
  BY <1>1, <1>3 DEF Inv

\* The invariant of the runs of a graph.
THEOREM Invariance == GraphParameters => (Spec => []Inv)
<1> SUFFICES ASSUME GraphParameters PROVE Spec => []Inv
  OBVIOUS
<1>1. Init => Inv
  BY InitInv
<1>2. Inv /\ [Next]_vars => Inv'
  BY NextInv
<1> QED
  BY <1>1, <1>2, PTL DEF Spec

\* x says at which position i is in the place w.
PositionIn(i, x, w) ==
    \/ \E t, j : /\ x = <<"job", j>> /\ w = <<"job", t>> /\ t = TargetOf[i[1]]
                 /\ t \in Target /\ j \in Occurrences(jobQ[t], i)
    \/ \E d \in Data : \E j : /\ x = <<"waiting", d, j>> /\ w = <<"waiting", d>>
                          /\ j \in Occurrences(waiting[d], i)
    \/ \E d \in UserData : \E j : /\ x = <<"call", d, j>> /\ w = <<"call", d>>
                              /\ j \in Occurrences(retrigger[d], i)
    \/ \E t \in Target : \E j : /\ x = <<"wake", t, j>> /\ w = <<"wake", t>>
                            /\ j \in Occurrences(task[t].wake, i)
    \/ \E k \in Inst : x = <<"behind", k>> /\ w = <<"behind", k>> /\ behind[k] = i
    \/ \E t \in Target : x = <<"after", t>> /\ w = <<"after", t>> /\ task[t].after = i

\* What Triggers counts are the positions of the instance.
LEMMA TriggersAre ==
  ASSUME NEW i, NEW x
  PROVE  x \in Triggers(i) <=>
            \/ \E j : x = <<"job", j>> /\ j \in Occurrences(jobQ[TargetOf[i[1]]], i)
            \/ \E d \in Data : \E j : x = <<"waiting", d, j>> /\ j \in Occurrences(waiting[d], i)
            \/ \E d \in UserData : \E j : x = <<"call", d, j>> /\ j \in Occurrences(retrigger[d], i)
            \/ \E t \in Target : \E j : x = <<"wake", t, j>> /\ j \in Occurrences(task[t].wake, i)
            \/ \E k \in Inst : x = <<"behind", k>> /\ behind[k] = i
            \/ \E t \in Target : x = <<"after", t>> /\ task[t].after = i
<1> DEFINE jobs == {<<"job", j>> : j \in Occurrences(jobQ[TargetOf[i[1]]], i)}
           waits(d) == {<<"waiting", d, j>> : j \in Occurrences(waiting[d], i)}
           given(d) == {<<"call", d, j>> : j \in Occurrences(retrigger[d], i)}
           woken(t) == {<<"wake", t, j>> : j \in Occurrences(task[t].wake, i)}
           after(U) == {<<"after", t>> : t \in U}
           before(I) == {<<"behind", j>> : j \in I}
           waitsAll == UNION {waits(d) : d \in Data}
           givenAll == UNION {given(d) : d \in UserData}
           wokenAll == UNION {woken(t) : t \in Target}
           lasts == {u \in Target : task[u].after = i}
           held2 == {k \in Inst : behind[k] = i}
<1>1. x \in Triggers(i) <=> \/ x \in jobs \/ x \in waitsAll \/ x \in givenAll \/ x \in wokenAll
                            \/ x \in before(held2) \/ x \in after(lasts)
  <2>1. Triggers(i) = jobs \cup waitsAll \cup givenAll \cup wokenAll \cup before(held2)
                        \cup after(lasts)
    BY DEF Triggers
  <2> HIDE DEF jobs, waitsAll, givenAll, wokenAll, before, after, held2, lasts
  <2> QED
    BY <2>1
<1>2. x \in jobs <=> \E j : x = <<"job", j>> /\ j \in Occurrences(jobQ[TargetOf[i[1]]], i)
  OBVIOUS
<1>3. x \in waitsAll <=> \E d \in Data : x \in waits(d)
  BY Zenon
<1>4. x \in givenAll <=> \E d \in UserData : x \in given(d)
  BY Zenon
<1>5. x \in wokenAll <=> \E t \in Target : x \in woken(t)
  BY Zenon
<1>6. \A d : x \in waits(d) <=> \E j : x = <<"waiting", d, j>> /\ j \in Occurrences(waiting[d], i)
  OBVIOUS
<1>7. \A d : x \in given(d) <=> \E j : x = <<"call", d, j>> /\ j \in Occurrences(retrigger[d], i)
  OBVIOUS
<1>8. \A t : x \in woken(t) <=> \E j : x = <<"wake", t, j>> /\ j \in Occurrences(task[t].wake, i)
  OBVIOUS
<1>9. x \in before(held2) <=> \E k \in Inst : x = <<"behind", k>> /\ behind[k] = i
  OBVIOUS
<1>10. x \in after(lasts) <=> \E t \in Target : x = <<"after", t>> /\ task[t].after = i
  OBVIOUS
<1> HIDE DEF jobs, waits, given, woken, waitsAll, givenAll, wokenAll, before, after, held2, lasts
<1> QED
  BY <1>1, <1>2, <1>3, <1>4, <1>5, <1>6, <1>7, <1>8, <1>9, <1>10

\* Where a node descriptor will be triggered from is a position in a place ...
LEMMA Positions ==
  ASSUME GraphParameters, NEW i \in Inst
  PROVE  /\ \A x \in Triggers(i) : \E w \in Place : PositionIn(i, x, w)
         /\ \A x, w : PositionIn(i, x, w) => x \in Triggers(i)
<1>t. TargetOf[i[1]] \in Target
  BY DEF GraphParameters, Inst
<1>1. ASSUME NEW x \in Triggers(i) PROVE \E w \in Place : PositionIn(i, x, w)
  <2>1. CASE \E j : x = <<"job", j>> /\ j \in Occurrences(jobQ[TargetOf[i[1]]], i)
    <3>1. PositionIn(i, x, <<"job", TargetOf[i[1]]>>)
      BY <1>t, <2>1 DEF PositionIn
    <3> QED
      BY <1>t, <3>1, Places
  <2>2. ASSUME NEW d \in Data, NEW j, x = <<"waiting", d, j>>, j \in Occurrences(waiting[d], i)
        PROVE  \E w \in Place : PositionIn(i, x, w)
    <3>1. PositionIn(i, x, <<"waiting", d>>)
      BY <2>2 DEF PositionIn
    <3> QED
      BY <3>1, Places
  <2>3. ASSUME NEW d \in UserData, NEW j, x = <<"call", d, j>>, j \in Occurrences(retrigger[d], i)
        PROVE  \E w \in Place : PositionIn(i, x, w)
    <3>1. PositionIn(i, x, <<"call", d>>)
      BY <2>3 DEF PositionIn
    <3> QED
      BY <3>1, Places
  <2>4. ASSUME NEW t \in Target, NEW j, x = <<"wake", t, j>>, j \in Occurrences(task[t].wake, i)
        PROVE  \E w \in Place : PositionIn(i, x, w)
    <3>1. PositionIn(i, x, <<"wake", t>>)
      BY <2>4 DEF PositionIn
    <3> QED
      BY <3>1, Places
  <2>5. ASSUME NEW k \in Inst, x = <<"behind", k>>, behind[k] = i
        PROVE  \E w \in Place : PositionIn(i, x, w)
    <3>1. PositionIn(i, x, <<"behind", k>>)
      BY <2>5 DEF PositionIn
    <3> QED
      BY <3>1, Places
  <2>6. ASSUME NEW t \in Target, x = <<"after", t>>, task[t].after = i
        PROVE  \E w \in Place : PositionIn(i, x, w)
    <3>1. PositionIn(i, x, <<"after", t>>)
      BY <2>6 DEF PositionIn
    <3> QED
      BY <3>1, Places
  <2>7. \/ \E j : x = <<"job", j>> /\ j \in Occurrences(jobQ[TargetOf[i[1]]], i)
        \/ \E d \in Data : \E j : x = <<"waiting", d, j>> /\ j \in Occurrences(waiting[d], i)
        \/ \E d \in UserData : \E j : x = <<"call", d, j>> /\ j \in Occurrences(retrigger[d], i)
        \/ \E t \in Target : \E j : x = <<"wake", t, j>> /\ j \in Occurrences(task[t].wake, i)
        \/ \E k \in Inst : x = <<"behind", k>> /\ behind[k] = i
        \/ \E t \in Target : x = <<"after", t>> /\ task[t].after = i
    BY TriggersAre
  <2> QED
    BY <2>1, <2>2, <2>3, <2>4, <2>5, <2>6, <2>7
<1>2. ASSUME NEW x, NEW w, PositionIn(i, x, w) PROVE x \in Triggers(i)
  BY <1>2, TriggersAre DEF PositionIn
<1> QED
  BY <1>1, <1>2

\* A position in a place says that the place has the instance, and there is one.
LEMMA PositionInPlace ==
  ASSUME Detail, GraphParameters, NEW i \in Inst, NEW w \in Place
  PROVE  /\ \A x : PositionIn(i, x, w) => i \in Tokens(w)
         /\ \A x, y : PositionIn(i, x, w) /\ PositionIn(i, y, w) => x = y
         /\ i \in Tokens(w) /\ w # <<"acquire", TargetOf[i[1]]>> => \E x : PositionIn(i, x, w)
<1>t. TargetOf[i[1]] \in Target /\ i # NoActor
  BY DEF GraphParameters, Inst
<1>l. ListsInv /\ TaskShape
  BY DEF Detail
<1>1. ASSUME NEW x, PositionIn(i, x, w) PROVE i \in Tokens(w)
  <2>1. \A s, j : j \in Occurrences(s, i) => i \in Range(s)
    BY DEF Occurrences, Range
  <2> QED
    BY <1>1, <1>t, <2>1, TokensOf DEF PositionIn
<1>2. ASSUME NEW x, NEW y, PositionIn(i, x, w), PositionIn(i, y, w) PROVE x = y
  <2>1. \A s, j, k : IsInjective(s) /\ j \in Occurrences(s, i) /\ k \in Occurrences(s, i) => j = k
    BY DEF Occurrences, IsInjective
  <2>2. CASE \E t \in Target : w = <<"job", t>>
    BY <1>2, <1>l, <2>1, <2>2 DEF PositionIn, ListsInv
  <2>3. CASE \E d \in Data : w = <<"waiting", d>>
    BY <1>2, <1>l, <2>1, <2>3 DEF PositionIn, ListsInv
  <2>4. CASE \E d \in UserData : w = <<"call", d>>
    BY <1>2, <1>l, <2>1, <2>4 DEF PositionIn, ListsInv
  <2>5. CASE \E t \in Target : w = <<"wake", t>>
    BY <1>2, <1>l, <2>1, <2>5 DEF PositionIn, ListsInv
  <2>6. CASE w[1] \notin {"job", "waiting", "call", "wake"}
    BY <1>2, <2>6 DEF PositionIn
  <2> QED
    BY <2>2, <2>3, <2>4, <2>5, <2>6, Places
<1>3. ASSUME i \in Tokens(w), w # <<"acquire", TargetOf[i[1]]>> PROVE \E x : PositionIn(i, x, w)
  <2>1. \A s : i \in Range(s) => \E j : j \in Occurrences(s, i)
    BY DEF Occurrences, Range
  <2>2. ASSUME NEW t \in Target, w = <<"job", t>> PROVE \E x : PositionIn(i, x, w)
    <3>1. i \in Range(jobQ[t]) /\ t = TargetOf[i[1]]
      BY <1>3, <1>l, <2>2, TokensOf DEF ListsInv
    <3>2. PICK j : j \in Occurrences(jobQ[t], i)
      BY <2>1, <3>1
    <3>3. PositionIn(i, <<"job", j>>, w)
      BY <2>2, <3>1, <3>2 DEF PositionIn
    <3> QED
      BY <3>3
  <2>3. ASSUME NEW d \in Data, w = <<"waiting", d>> PROVE \E x : PositionIn(i, x, w)
    <3>1. PICK j : j \in Occurrences(waiting[d], i)
      BY <1>3, <2>1, <2>3, TokensOf
    <3>2. PositionIn(i, <<"waiting", d, j>>, w)
      BY <2>3, <3>1 DEF PositionIn
    <3> QED
      BY <3>2
  <2>4. ASSUME NEW d \in UserData, w = <<"call", d>> PROVE \E x : PositionIn(i, x, w)
    <3>1. PICK j : j \in Occurrences(retrigger[d], i)
      BY <1>3, <2>1, <2>4, TokensOf
    <3>2. PositionIn(i, <<"call", d, j>>, w)
      BY <2>4, <3>1 DEF PositionIn
    <3> QED
      BY <3>2
  <2>5. ASSUME NEW t \in Target, w = <<"wake", t>> PROVE \E x : PositionIn(i, x, w)
    <3>1. PICK j : j \in Occurrences(task[t].wake, i)
      BY <1>3, <2>1, <2>5, TokensOf
    <3>2. PositionIn(i, <<"wake", t, j>>, w)
      BY <2>5, <3>1 DEF PositionIn
    <3> QED
      BY <3>2
  <2>6. ASSUME NEW t \in Target, w = <<"after", t>> PROVE \E x : PositionIn(i, x, w)
    <3>1. PositionIn(i, <<"after", t>>, w)
      BY <1>3, <2>6, TokensOf DEF PositionIn
    <3> QED
      BY <3>1
  <2>7. ASSUME NEW k \in Inst, w = <<"behind", k>> PROVE \E x : PositionIn(i, x, w)
    <3>1. PositionIn(i, <<"behind", k>>, w)
      BY <1>3, <2>7, TokensOf DEF PositionIn
    <3> QED
      BY <3>1
  <2>8. ASSUME NEW t \in Target, w = <<"acquire", t>> PROVE FALSE
    <3>1. task[t].at = "acquire" /\ task[t].inst = i
      BY <1>3, <2>8, TokensOf
    <3>2. Shape(t)
      BY <1>l DEF TaskShape
    <3>3. TargetOf[i[1]] = t
      BY <3>1, <3>2 DEF Shape
    <3> QED
      BY <1>3, <2>8, <3>3
  <2> QED
    BY <2>2, <2>3, <2>4, <2>5, <2>6, <2>7, <2>8, Places
<1> QED
  BY <1>1, <1>2, <1>3

\* A blocked node is triggered again, and no node twice.
LEMMA TriggeredOnceHolds == ASSUME Detail, GraphParameters PROVE TriggeredOnce
<1> SUFFICES ASSUME NEW i \in Inst
             PROVE  /\ Cardinality(Triggers(i)) <= 1
                    /\ i \in blocked => Triggers(i) # {}
  BY DEF TriggeredOnce
<1>1. \A x, y \in Triggers(i) : x = y
  <2> SUFFICES ASSUME NEW x \in Triggers(i), NEW y \in Triggers(i) PROVE x = y
    OBVIOUS
  <2>1. PICK v \in Place : PositionIn(i, x, v)
    BY Positions
  <2>2. PICK w \in Place : PositionIn(i, y, w)
    BY Positions
  <2>3. i \in Tokens(v) /\ i \in Tokens(w)
    BY <2>1, <2>2, PositionInPlace
  <2>4. v = w
    BY <2>3 DEF Detail, OnePlace
  <2> QED
    BY <2>1, <2>2, <2>4, PositionInPlace
<1>2. Cardinality(Triggers(i)) <= 1
  <2>1. CASE Triggers(i) = {}
    <3>1. Cardinality(Triggers(i)) = 0
      BY <2>1, FS_EmptySet
    <3> QED
      BY <3>1
  <2>2. ASSUME NEW x \in Triggers(i) PROVE Cardinality(Triggers(i)) <= 1
    <3>1. Triggers(i) = {x}
      BY <1>1, <2>2
    <3>2. Cardinality(Triggers(i)) = 1
      BY <3>1, FS_Singleton
    <3> QED
      BY <3>2
  <2> QED
    BY <2>1, <2>2
<1>3. ASSUME i \in blocked PROVE Triggers(i) # {}
  <2>1. Due(i) /\ i \notin Tokens(<<"acquire", TargetOf[i[1]]>>)
    BY <1>3 DEF Detail, BlockedInv
  <2>2. PICK w \in Place : i \in Tokens(w)
    BY <2>1 DEF Detail, DueInv, Somewhere
  <2>3. w # <<"acquire", TargetOf[i[1]]>>
    BY <2>1, <2>2
  <2>4. PICK x : PositionIn(i, x, w)
    BY <2>2, <2>3, PositionInPlace
  <2>5. x \in Triggers(i)
    BY <2>4, Positions
  <2> QED
    BY <2>5
<1> QED
  BY <1>2, <1>3

\* A reference that was given is in one queue, once, or in one descriptor.
LEMMA RefsConservedHolds == ASSUME Detail, GraphParameters PROVE RefsConserved
<1> DEFINE ready(d, r) == {<<"ready", j>> : j \in {k \in DOMAIN readyQ[d] : readyQ[d][k] = r}}
           taking(d, r) == {<<"held", p>> : p \in {q \in Pipe : held[<<d, q>>] = r}}
           ended(d, r) == IF d \notin UserData THEN {}
                          ELSE {<<"done", j>> : j \in {k \in DOMAIN doneQ[d] : doneQ[d][k] = r}}
           places(d, r) == ready(d, r) \cup taking(d, r) \cup ended(d, r)
<1> SUFFICES ASSUME verified > 0, NEW d \in Data, NEW r \in Range(Refs[d])
             PROVE  Cardinality(places(d, r)) = IF d \in UserData /\ r \notin enq THEN 0 ELSE 1
  BY DEF RefsConserved
<1>1. RefOf(d)
  BY DEF Detail, RefInv
<1>2. r # NoRef
  <2>1. Refs[d] \in Seq(Ref) /\ NoRef \notin Ref
    BY DEF GraphParameters
  <2> QED
    BY <2>1, ListOf
<1>3. \A x \in ready(d, r) : r \in Range(readyQ[d])
  BY DEF Range
<1>4. \A x \in taking(d, r) : r \in HeldRefs(d)
  BY <1>2 DEF HeldRefs
<1>5. \A x \in ended(d, r) : r \in DoneRefs(d)
  BY DEF Range, DoneRefs
<1>6. /\ r \notin Range(readyQ[d]) \/ r \notin HeldRefs(d)
      /\ r \notin Range(readyQ[d]) \/ r \notin DoneRefs(d)
      /\ r \notin HeldRefs(d) \/ r \notin DoneRefs(d)
      /\ r \in Range(readyQ[d]) \cup HeldRefs(d) \cup DoneRefs(d) <=> r \in GivenRefs(d)
  BY <1>1 DEF RefOf
<1>7. \A x, y \in ready(d, r) : x = y
  BY <1>1 DEF RefOf, IsInjective
<1>8. \A x, y \in taking(d, r) : x = y
  BY <1>1, <1>2 DEF RefOf
<1>9. \A x, y \in ended(d, r) : x = y
  BY <1>1 DEF RefOf, IsInjective
<1>10. \A x, y \in places(d, r) : x = y
  <2> HIDE DEF ready, taking, ended
  <2> QED
    BY <1>3, <1>4, <1>5, <1>6, <1>7, <1>8, <1>9
<1>11. /\ r \in Range(readyQ[d]) => ready(d, r) # {}
       /\ r \in HeldRefs(d) => taking(d, r) # {}
       /\ r \in DoneRefs(d) => ended(d, r) # {}
  <2>1. ASSUME r \in Range(readyQ[d]) PROVE ready(d, r) # {}
    <3>1. PICK j \in DOMAIN readyQ[d] : readyQ[d][j] = r
      BY <2>1 DEF Range
    <3>2. <<"ready", j>> \in ready(d, r)
      BY <3>1
    <3> QED
      BY <3>2
  <2>2. ASSUME r \in HeldRefs(d) PROVE taking(d, r) # {}
    <3>1. PICK p \in Pipe : held[<<d, p>>] = r
      BY <2>2 DEF HeldRefs
    <3>2. <<"held", p>> \in taking(d, r)
      BY <3>1
    <3> QED
      BY <3>2
  <2>3. ASSUME r \in DoneRefs(d) PROVE ended(d, r) # {}
    <3>1. d \in UserData /\ r \in Range(doneQ[d])
      BY <2>3 DEF DoneRefs
    <3>2. PICK j \in DOMAIN doneQ[d] : doneQ[d][j] = r
      BY <3>1 DEF Range
    <3>3. <<"done", j>> \in ended(d, r)
      BY <3>1, <3>2
    <3> QED
      BY <3>3
  <2> QED
    BY <2>1, <2>2, <2>3
<1>12. r \in GivenRefs(d) <=> ~(d \in UserData /\ r \notin enq)
  BY DEF GivenRefs
<1>13. places(d, r) # {} <=> r \in GivenRefs(d)
  <2> HIDE DEF ready, taking, ended
  <2> QED
    BY <1>3, <1>4, <1>5, <1>6, <1>11
<1> HIDE DEF places
<1>14. CASE r \in GivenRefs(d)
  <2>1. PICK x : x \in places(d, r)
    BY <1>13, <1>14
  <2>2. places(d, r) = {x}
    BY <1>10, <2>1
  <2>3. Cardinality(places(d, r)) = 1
    BY <2>2, FS_Singleton
  <2> QED
    BY <1>12, <1>14, <2>3
<1>15. CASE r \notin GivenRefs(d)
  <2>1. Cardinality(places(d, r)) = 0
    BY <1>13, <1>15, FS_EmptySet
  <2> QED
    BY <1>12, <1>15, <2>1
<1> QED
  BY <1>14, <1>15

\* Every step keeps the order of the nodes.
LEMMA PrecedenceKept == ASSUME Inv, GraphParameters, [Next]_vars PROVE StepPrecedence
<1>d. Detail
  BY DEF Inv
<1>1. ASSUME NEW t \in Target, ExecuteNode(t) PROVE StepPrecedence
  BY <1>d, <1>1, ExecutePrecedence
<1>2. ASSUME executed' \subseteq executed PROVE StepPrecedence
  BY <1>2 DEF StepPrecedence
<1>3. CASE VerifyGraph
  BY <1>2, <1>3 DEF VerifyGraph, nodeVars
<1>4. ASSUME NEW a \in App, EnqueueInput(a) \/ CallStep(a) PROVE StepPrecedence
  BY <1>2, <1>4 DEF EnqueueInput, EnqueueReady, CallStep, nodeVars, detailVars
<1>5. ASSUME NEW d \in UserData, EnqueueOutput(d) \/ Retrigger(d) PROVE StepPrecedence
  BY <1>2, <1>5 DEF EnqueueOutput, EnqueueReady, Retrigger, nodeVars
<1>6. ASSUME NEW x \in Dequeuer, Dequeue(x) PROVE StepPrecedence
  BY <1>2, <1>6 DEF Dequeue, DequeueRef, DequeueNothing, DequeueWait, DequeueWoken, nodeVars
<1>7. ASSUME NEW p \in Pipe, SubmitRun(p) PROVE StepPrecedence
  BY <1>2, <1>7 DEF SubmitRun, ClearState
<1>8. ASSUME NEW t \in Target, TargetStep(t), ~ExecuteNode(t) PROVE StepPrecedence
  BY <1>2, <1>8
     DEF TargetStep, TakeJob, AcquireHeld, AcquireRef, AcquireBlocks, KeepParam, ReleaseParam,
         ReleaseDone, SendRefConsumed, WakeBlocked, SendComplete, TriggerNext, FinishNode,
         nodeVars
<1>9. CASE HostStep
  BY <1>2, <1>9 DEF HostStep, RefConsumed, NodeCompletes, HostTakes, nodeVars, detailVars
<1>10. CASE UNCHANGED vars
  BY <1>2, <1>10 DEF vars, detailVars, nodeVars
<1> QED
  BY <1>1, <1>3, <1>4, <1>5, <1>6, <1>7, <1>8, <1>9, <1>10 DEF Next

\* Descriptors, queues and tasks hold what they are meant to hold.
LEMMA RangesHold == ASSUME Detail, GraphParameters PROVE Ranges
<1>t. Typed /\ ListsInv /\ HeldInv /\ RefInv
  BY DEF Detail
<1>1. ASSUME NEW t \in Target PROVE Range(jobQ[t]) \subseteq {i \in Inst : TargetOf[i[1]] = t}
  <2>1. jobQ[t] \in Seq(Inst)
    BY <1>t DEF Typed, JobsTyped
  <2> QED
    BY <1>t, <2>1, ListOf DEF ListsInv
<1>2. \A t \in Target : task[t].at \in {"idle", "acquire", "release", "consumed", "trigger"}
  BY <1>t DEF Typed, TasksTyped, TaskRecord
<1>3. /\ executed \subseteq Inst /\ blocked \subseteq Inst
      /\ behind \in [Inst -> Inst \cup {NoActor}] /\ held \in [Data \X Pipe -> Ref \cup {NoRef}]
  BY <1>t DEF Typed, NodesTyped, QueuesTyped
<1>4. ASSUME NEW d \in Data, NEW p \in Pipe PROVE doneCnt[<<d, p>>] \in 0 .. Cardinality(Consumers(d))
  <2>1. IsFiniteSet(Consumers(d))
    BY FS_Subset DEF Consumers, GraphParameters
  <2>2. Cardinality(Consumers(d)) \in Nat
    BY <2>1, FS_CardinalityType
  <2>3. doneCnt[<<d, p>>] \in Nat
    BY <1>t DEF Typed, QueuesTyped
  <2>4. doneCnt[<<d, p>>] <= Cardinality(Consumers(d))
    BY <1>t DEF HeldInv, HeldOf
  <2> QED
    BY <2>2, <2>3, <2>4
<1>5. \A d \in Data : GivenRefs(d) \subseteq Range(Refs[d])
  BY DEF GivenRefs
<1>6. \A d \in Data : Range(readyQ[d]) \subseteq Range(Refs[d])
  BY <1>t, <1>5 DEF RefInv, RefOf
<1>7. \A d \in UserData : Range(doneQ[d]) \subseteq Range(Refs[d])
  <2>1. ASSUME NEW d \in UserData PROVE Range(doneQ[d]) \subseteq GivenRefs(d)
    <3>1. d \in Data
      BY DEF GraphParameters
    <3>2. DoneRefs(d) \subseteq GivenRefs(d)
      BY <1>t, <3>1 DEF RefInv, RefOf
    <3> QED
      BY <3>2 DEF DoneRefs
  <2> QED
    BY <1>5, <2>1 DEF GraphParameters
<1> QED
  BY <1>1, <1>2, <1>3, <1>4, <1>6, <1>7 DEF Ranges

\* A leaf node is incomplete for GraphSchedule when it is for the invariant.
LEMMA LeavesAre == ASSUME Detail, GraphParameters PROVE LeavesLeft = LeafTodo
<1>1. ASSUME NEW n \in Leaf, NEW p \in Pipe PROVE LeafIncomplete(n, p) <=> Incomplete(n, p)
  <2>1. n \in Node /\ TaskShape /\ TargetOf[n] \in Target
    BY GraphAssumption DEF Detail, GraphParameters
  <2>2. ASSUME NEW t \in Target, InstOf(t) = <<n, p>>, task[t].at \in {"release", "consumed"}
        PROVE  Releasing(n, p)
    <3>1. Shape(t)
      BY <2>1 DEF TaskShape
    <3>2. TargetOf[n] = t
      BY <2>2, <3>1 DEF Shape, InstOf
    <3> QED
      BY <2>2, <3>2 DEF Releasing, OnTask, InstOf
  <2>3. ASSUME Releasing(n, p), TargetOf[n] \in Target
        PROVE  \E t \in Target : InstOf(t) = <<n, p>> /\ task[t].at \in {"release", "consumed"}
    BY <2>3 DEF Releasing, OnTask, InstOf
  <2> QED
    BY <2>1, <2>2, <2>3 DEF LeafIncomplete, Incomplete
<1> QED
  BY <1>1 DEF LeavesLeft, LeafTodo

\* GraphSchedule with the one or with the other leaf nodes starts and goes on alike.
LEMMA ScheduleSame ==
  ASSUME LeavesLeft = LeafTodo
  PROVE  /\ GSP!Init => GS!Init
         /\ LeavesLeft' = LeafTodo' /\ Implements => [GS!Next]_GS!vars
<1>c. /\ GS!Pipe = GSP!Pipe /\ GS!Actor = GSP!Actor /\ GS!Host = GSP!Host
      /\ GS!Queueing = GSP!Queueing
  BY DEF GS!Pipe, GSP!Pipe, GS!Actor, GSP!Actor, GS!Host, GSP!Host, GS!Queueing, GSP!Queueing
<1>v. LeavesLeft' = LeafTodo' =>
         /\ UNCHANGED GSP!runVars <=> UNCHANGED GS!runVars
         /\ UNCHANGED GSP!controlVars <=> UNCHANGED GS!controlVars
         /\ UNCHANGED GSP!vars <=> UNCHANGED GS!vars
  BY DEF GSP!runVars, GS!runVars, GSP!vars, GS!vars, GSP!controlVars, GS!controlVars,
     GSP!descVars, GS!descVars, GSP!hostVars, GS!hostVars, GSP!callVars, GS!callVars,
     GSP!countVars, GS!countVars, GSP!abandonVars, GS!abandonVars, GSP!waitVars, GS!waitVars
<1>1. GSP!Init => GS!Init
  BY <1>c DEF GSP!Init, GS!Init, GSP!InitControl, GS!InitControl
<1> USE DEF GSP!descVars, GS!descVars, GSP!hostVars, GS!hostVars, GSP!callVars, GS!callVars,
           GSP!countVars, GS!countVars, GSP!abandonVars, GS!abandonVars, GSP!waitVars, GS!waitVars
<1>2. GSP!VerifyControl <=> GS!VerifyControl
  BY <1>c DEF GSP!VerifyControl, GS!VerifyControl, GSP!PutAll, GS!PutAll
<1>3. \A a : GSP!EnqueueControl(a) <=> GS!EnqueueControl(a)
  BY <1>c DEF GSP!EnqueueControl, GS!EnqueueControl
<1>4. \A a : GSP!EnqueueEnd(a) <=> GS!EnqueueEnd(a)
  BY <1>c DEF GSP!EnqueueEnd, GS!EnqueueEnd
<1>5. \A a : GSP!EnqueueFail(a) <=> GS!EnqueueFail(a)
  BY <1>c DEF GSP!EnqueueFail, GS!EnqueueFail
<1>6. \A a : GSP!ScheduleCheck(a) <=> GS!ScheduleCheck(a)
  BY <1>c DEF GSP!ScheduleCheck, GS!ScheduleCheck
<1>7. \A a, n : GSP!ScheduleCount(a, n) <=> GS!ScheduleCount(a, n)
  BY <1>c DEF GSP!ScheduleCount, GS!ScheduleCount
<1>8. \A a : GSP!ScheduleLock(a) <=> GS!ScheduleLock(a)
  BY <1>c DEF GSP!ScheduleLock, GS!ScheduleLock, GSP!TotalNumSchedule, GS!TotalNumSchedule
<1>9. \A a : GSP!WaitCheck(a) <=> GS!WaitCheck(a)
  BY <1>c DEF GSP!WaitCheck, GS!WaitCheck
<1>10. \A a : GSP!WaitReturn(a) <=> GS!WaitReturn(a)
  BY <1>c DEF GSP!WaitReturn, GS!WaitReturn
<1>11. \A p : GSP!SubmitControl(p) <=> GS!SubmitControl(p)
  BY <1>c DEF GSP!SubmitControl, GS!SubmitControl, GSP!ClearEvent, GS!ClearEvent
<1>12. \A p : GSP!AbandonControl(p) <=> GS!AbandonControl(p)
  BY <1>c DEF GSP!AbandonControl, GS!AbandonControl, GSP!HostIdle, GS!HostIdle
<1>13. \A p : GSP!LeafControl(p) <=> GS!LeafControl(p)
  BY <1>c DEF GSP!LeafControl, GS!LeafControl, GSP!HostIdle, GS!HostIdle, GSP!Cardinality, GS!Cardinality
<1>14. \A p, b : GSP!CompleteControl(p, b) <=> GS!CompleteControl(p, b)
  BY <1>c DEF GSP!CompleteControl, GS!CompleteControl, GSP!HostIdle, GS!HostIdle, GSP!Cardinality, GS!Cardinality, GSP!CompletedState, GS!CompletedState, GSP!TakenPending, GS!TakenPending, GSP!PostEvent, GS!PostEvent, GSP!EnqueueFreeObjDesc, GS!EnqueueFreeObjDesc, GSP!LeafDoneReset, GS!LeafDoneReset
<1>15. GSP!RescheduleLock <=> GS!RescheduleLock
  BY <1>c DEF GSP!RescheduleLock, GS!RescheduleLock, GSP!TotalNumSchedule, GS!TotalNumSchedule
<1>16. GSP!ScheduleUnlock <=> GS!ScheduleUnlock
  BY <1>c DEF GSP!ScheduleUnlock, GS!ScheduleUnlock
<1>17. GSP!HostAbandons <=> GS!HostAbandons
  BY <1>c DEF GSP!HostAbandons, GS!HostAbandons, GSP!HostIdle, GS!HostIdle
<1>18. ASSUME LeavesLeft' = LeafTodo', GSP!Next PROVE GS!Next
  <2> USE <1>c, <1>18
  <2>1. GSP!VerifyGraph => GS!VerifyGraph
    BY <1>v, <1>2 DEF GSP!VerifyGraph, GS!VerifyGraph
  <2>2. \A a \in App : GSP!EnqueueRef(a) => GS!EnqueueRef(a)
    BY <1>3 DEF GSP!EnqueueRef, GS!EnqueueRef
  <2>3. \A a \in App : GSP!CallStep(a) => GS!CallStep(a)
    BY <1>v, <1>4, <1>5, <1>6, <1>7, <1>8, <1>9, <1>10 DEF GSP!CallStep, GS!CallStep
  <2>4. \A p \in Pipe : GSP!SubmitRun(p) => GS!SubmitRun(p)
    BY <1>11 DEF GSP!SubmitRun, GS!SubmitRun
  <2>5. \A p \in Pipe : GSP!TakeRefs(p) => GS!TakeRefs(p)
    BY <1>v DEF GSP!TakeRefs, GS!TakeRefs
  <2>6. \A p \in Pipe : GSP!NodeAbandons(p) => GS!NodeAbandons(p)
    BY <1>v, <1>12 DEF GSP!NodeAbandons, GS!NodeAbandons
  <2>7. \A p \in Pipe, l \in Leaf : GSP!LeafCompletes(l, p) => GS!LeafCompletes(l, p)
    BY <1>13 DEF GSP!LeafCompletes, GS!LeafCompletes
  <2>8. \A p \in Pipe, l \in Leaf, b \in BOOLEAN :
           GSP!RunCompletes(l, p, b) => GS!RunCompletes(l, p, b)
    BY <1>14 DEF GSP!RunCompletes, GS!RunCompletes
  <2>9. GSP!HostStep => GS!HostStep
    BY <1>v, <1>15, <1>16, <1>17 DEF GSP!HostStep, GS!HostStep
  <2>10. ASSUME NEW p \in Pipe, GSP!RunStep(p) PROVE GS!RunStep(p)
    <3>1. ASSUME NEW l \in Leaf, NEW b \in {FALSE, CallbackAtLeaf}, GSP!RunCompletes(l, p, b)
          PROVE  GS!RunStep(p)
      <4>1. b \in BOOLEAN
        BY BoundAssumption
      <4>2. GS!RunCompletes(l, p, b)
        BY <2>8, <3>1, <4>1
      <4> QED
        BY <4>2 DEF GS!RunStep
    <3> QED
      BY <2>4, <2>5, <2>6, <2>7, <2>10, <3>1 DEF GSP!RunStep, GS!RunStep
  <2>11. GSP!Pipe = Pipe
    BY DEF GSP!Pipe, Pipe
  <2> QED
    BY <2>1, <2>2, <2>3, <2>9, <2>10, <2>11 DEF GSP!Next, GS!Next
<1> QED
  BY <1>1, <1>v, <1>18 DEF Implements

\* The same of any state of a behaviour, and of the next one.
LEMMA LeavesBefore == GraphParameters /\ Inv => LeavesLeft = LeafTodo
BY LeavesAre DEF Inv

\* ... and after a step of it.
LEMMA LeavesAfter == GraphParameters => (Inv' => LeavesLeft' = LeafTodo')
<1> SUFFICES ASSUME GraphParameters PROVE Inv' => LeavesLeft' = LeafTodo'
  OBVIOUS
<1>1. Inv => LeavesLeft = LeafTodo
  BY LeavesBefore
<1>2. (LeavesLeft = LeafTodo)' <=> LeavesLeft' = LeafTodo'
  OBVIOUS
<1> QED
  BY <1>1, <1>2, PTL

\* A graph that was not verified yet is one of GraphSchedule ...
LEMMA InitImplements == GraphParameters /\ Init => GS!Init
<1> SUFFICES ASSUME GraphParameters, Init PROVE GS!Init
  OBVIOUS
<1>1. LeavesLeft = LeafTodo
  BY InitInv, LeavesAre DEF Inv
<1> QED
  BY <1>1, InitDetail, ScheduleSame

\* ... and whatever nodes, targets, queues and the host do is a step of it.
LEMMA StepImplements ==
  ASSUME Inv, GraphParameters, [Next]_vars
  PROVE  GS!Next \/ UNCHANGED GS!vars
<1>1. Inv' /\ Implements
  BY NextInv
<1>2. LeavesLeft = LeafTodo /\ LeavesLeft' = LeafTodo'
  BY <1>1, LeavesBefore, LeavesAfter
<1> QED
  BY <1>1, <1>2, ScheduleSame

-----------------------------------------------------------------------------

\* The arrays, queues and descriptors of the graph hold what they are meant to hold.
THEOREM RangesCorrect == GraphParameters => (Spec => []Ranges)
<1> SUFFICES ASSUME GraphParameters PROVE Spec => []Ranges
  OBVIOUS
<1>1. Inv => Ranges
  BY RangesHold DEF Inv
<1> QED
  BY <1>1, Invariance, PTL

\* ownObjDescQueueExtractBlockedNodes, blocked_node_id and the job queues: no blocked node
\* is forgotten, and no node descriptor is going to be triggered from two places.
THEOREM TriggeredOnceAlways == GraphParameters => (Spec => []TriggeredOnce)
<1> SUFFICES ASSUME GraphParameters PROVE Spec => []TriggeredOnce
  OBVIOUS
<1>1. Inv => TriggeredOnce
  BY TriggeredOnceHolds DEF Inv
<1> QED
  BY <1>1, Invariance, PTL

\* ownTargetNodeDescAcquireParameter, ownTargetNodeDescReleaseParameter: references are
\* neither lost nor used for two runs.
THEOREM RefsConservation == GraphParameters => (Spec => []RefsConserved)
<1> SUFFICES ASSUME GraphParameters PROVE Spec => []RefsConserved
  OBVIOUS
<1>1. Inv => RefsConserved
  BY RefsConservedHolds DEF Inv
<1> QED
  BY <1>1, Invariance, PTL

\* ownObjDescQueueAddBlockedNode: a node waits in the list of an empty queue only.
THEOREM WaitersHaveNothing == GraphParameters => (Spec => []WaitsForNothingReady)
<1> SUFFICES ASSUME GraphParameters PROVE Spec => []WaitsForNothingReady
  OBVIOUS
<1>1. Inv => WaitsForNothingReady
  BY DEF Inv, Detail
<1> QED
  BY <1>1, Invariance, PTL

\* ownTargetNodeDescCanNodeExecute: nodes are executed after those they depend on.
THEOREM PrecedenceAlways == GraphParameters => (Spec => Precedence)
<1> SUFFICES ASSUME GraphParameters PROVE Spec => Precedence
  OBVIOUS
<1>1. Inv /\ [Next]_vars => StepPrecedence
  BY PrecedenceKept
<1> QED
  BY <1>1, Invariance, PTL DEF Spec, Precedence

\* Nodes, targets and queues together run the graph as GraphSchedule says: whatever is
\* proved of GraphSchedule holds of the runs of the nodes.
THEOREM Refinement == GraphParameters => (Spec => ImplementsGraphSchedule)
<1> SUFFICES ASSUME GraphParameters PROVE Spec => ImplementsGraphSchedule
  OBVIOUS
<1>1. Init => GS!Init
  BY InitImplements
<1>2. Inv /\ [Next]_vars => [GS!Next]_GS!vars
  BY StepImplements
<1> QED
  BY <1>1, <1>2, Invariance, PTL DEF Spec, ImplementsGraphSchedule, GS!Spec
=============================================================================
