---------------------------- MODULE RunOrder_proofs ----------------------------
(* Runs of PipelinedGraph overlap, their nodes are blocked and triggered      *)
(* again, and still no node gets the data of two runs, and the application    *)
(* dequeues results one for one and in the order of its inputs. The lists of  *)
(* blocked nodes, one entry for a node and a run, never overflow.             *)
EXTENDS PipelinedGraph_proofs

-----------------------------------------------------------------------------
(* The invariant                                                            *)

\* The runs are numbered as they are submitted, and complete in that order: the
\* instance First has the oldest run, or will have it, the next instance the next.
First == done % Depth
RunOf(p) == IF p >= First THEN done + 1 + (p - First) ELSE done + 1 + Depth + (p - First)
Before(p, q) == p \in InRun /\ q \in InRun /\ RunOf(p) < RunOf(q)

RunsNumbered == \A p \in Pipe : p \in InRun <=> RunOf(p) <= done + submitted
FreeInOrder ==
    /\ verified = 0 => done = 0
    /\ \A j \in DOMAIN freeQ : RunOf(freeQ[j]) = done + submitted + j

\* A node is executed in one run after the other; its target is through with one
\* before it acquires for the next.
Acquiring(n, p) == OnTask(n, p, "acquire")
Over(n, p) == Releasing(n, p) \/ OnTask(n, p, "trigger")
ExecutedInOrder ==
    \A n \in Node, p, q \in Pipe :
       Before(p, q) /\ <<n, q>> \in executed => <<n, p>> \in executed
OverInOrder ==
    \A n \in Node, p, q \in Pipe : Before(p, q) /\ Over(n, p) => <<n, q>> \notin executed
AcquireInOrder ==
    \A n \in Node, p, q \in Pipe : Before(p, q) /\ Acquiring(n, q) => <<n, p>> \in executed

\* Whatever is to be triggered and is in no job queue yet is blocked.
Parked(i) ==
    \/ \E d \in Data : i \in Range(waiting[d])
    \/ \E d \in UserData : i \in Range(retrigger[d])
    \/ \E t \in Target : i \in Range(task[t].wake) \/ i = task[t].after
    \/ \E j \in Inst : behind[j] = i
ParkedBlocked == \A i \in Inst : Parked(i) => i \in blocked

\* In a job queue a node of one run stands behind that of an earlier run that is still
\* to be executed, unless that one is blocked; and if it is, so will be this one, in
\* blocked_node_id and in no list of a queue.
Ahead(t, j, i) == \E h \in DOMAIN jobQ[t] : h < j /\ jobQ[t][h] = i
JobInOrder(n, p, j) ==
    \/ <<n, p>> \in executed \/ <<n, p>> \in blocked \/ Acquiring(n, p)
    \/ Ahead(TargetOf[n], j, <<n, p>>)
JobsInOrder ==
    \A n \in Node, p, q \in Pipe : \A j \in DOMAIN jobQ[TargetOf[n]] :
       Before(p, q) /\ jobQ[TargetOf[n]][j] = <<n, q>> => JobInOrder(n, p, j)
BlockedInOrder ==
    \A n \in Node, p, q \in Pipe :
       Before(p, q) /\ <<n, q>> \in blocked /\ <<n, p>> \notin executed =>
          /\ <<n, p>> \in blocked \/ Acquiring(n, p)
          /\ behind[Prev(<<n, q>>)] = <<n, q>>

TurnInv ==
    /\ ExecutedInOrder /\ OverInOrder /\ AcquireInOrder
    /\ ParkedBlocked /\ JobsInOrder /\ BlockedInOrder

\* The host hears of a leaf node in one run after the other.
ReportedAfter(h, n, q) == \E j \in DOMAIN jobQ[Host] : h < j /\ Reported(j, n, q)
ReportsInOrder ==
    \A n \in Leaf, p, q \in Pipe : \A h \in DOMAIN jobQ[Host] :
       Before(p, q) /\ Reported(h, n, p) /\ <<n, q>> \in executed =>
          Releasing(n, q) \/ ReportedAfter(h, n, q)

\* The data of a run: no node has acquired it, or all are through with it.
Fresh(d, p) == held[<<d, p>>] = NoRef /\ Untouched(d, p)
Gone(d, p) == held[<<d, p>>] = NoRef /\ ~Untouched(d, p)

\* The runs take what the application enqueued one after the other, and give back
\* what it dequeues one after the other.
Fed == enqueued - Len(readyQ[Param0])
FedInv ==
    /\ done <= Fed /\ Fed <= done + submitted
    /\ \A p \in Pipe : p \in InRun => (Fresh(Param0, p) <=> RunOf(p) > Fed)
Given(d) == taken[d] + Len(doneQ[d])
GivenOf(d) ==
    /\ taken[d] \in Nat /\ done <= Given(d) /\ Given(d) <= done + submitted
    /\ \A p \in Pipe : p \in InRun => (Gone(d, p) <=> RunOf(p) <= Given(d))
GivenInv == \A d \in UserData : GivenOf(d)

\* A reference is of the run that holds it, once its data is written.
Written(d, p) == Producer[d] = NoActor \/ <<Producer[d], p>> \in executed
ReadyFrames == \A j \in DOMAIN readyQ[Param0] : frame[readyQ[Param0][j]] = Fed + j
HeldFrames ==
    \A d \in Data, p \in Pipe :
       held[<<d, p>>] # NoRef /\ Written(d, p) => frame[held[<<d, p>>]] = RunOf(p)
DataInv ==
    /\ frame \in [Ref -> Nat] /\ taken \in [UserData -> Nat]
    /\ FedInv /\ GivenInv /\ ReadyFrames /\ HeldFrames /\ FramesInOrder

OrderInv == RunsNumbered /\ FreeInOrder /\ TurnInv /\ ReportsInOrder /\ DataInv

-----------------------------------------------------------------------------
(* The numbers of the runs                                                  *)

\* What is counted and numbered.
LEMMA Counts ==
  ASSUME Inv
  PROVE  /\ done \in Nat /\ submitted \in Nat /\ Depth \in Nat \ {0} /\ freeQ \in Seq(Pipe)
         /\ enqueued \in Nat /\ verified \in Nat
         /\ verified > 0 => Len(freeQ) + submitted = Depth
         /\ verified = 0 => submitted = 0 /\ freeQ = <<>>
         /\ \A i, j \in DOMAIN freeQ : freeQ[i] = freeQ[j] => i = j
         /\ \A p \in Pipe : p \in InRun <=> LeafTodo[p] # {}
<1>1. /\ GSP!TypeOK /\ GSP!DescriptorsConserved /\ GSP!FreshInv
  BY DEF Inv, GSP!IInv
<1>2. /\ done \in Nat /\ submitted \in Nat /\ freeQ \in Seq(Pipe)
      /\ enqueued \in Nat /\ verified \in Nat
  BY <1>1 DEF GSP!TypeOK, GSP!Pipe, Pipe
<1>3. /\ verified > 0 => Len(freeQ) + submitted = Depth
      /\ \A i, j \in DOMAIN freeQ : freeQ[i] = freeQ[j] => i = j
  BY <1>1 DEF GSP!DescriptorsConserved
<1>4. verified = 0 => submitted = 0 /\ freeQ = <<>>
  BY <1>1 DEF GSP!FreshInv
<1>5. ASSUME NEW p \in Pipe PROVE p \in InRun <=> LeafTodo[p] # {}
  <2>1. CASE verified = 0
    BY <2>1, NothingRuns
  <2>2. CASE verified > 0
    <3>1. (LeafTodo[p] = {}) <=> (\E i \in DOMAIN freeQ : freeQ[i] = p)
      BY <1>1, <2>2 DEF GSP!DescriptorsConserved, GSP!Pipe, Pipe
    <3>2. p \in Range(freeQ) <=> \E i \in DOMAIN freeQ : freeQ[i] = p
      BY DEF Range
    <3> QED
      BY <2>2, <3>1, <3>2 DEF InRun
  <2> QED
    BY <1>2, <2>1, <2>2
<1> QED
  BY <1>2, <1>3, <1>4, <1>5, DepthAssumption

\* Every instance has a number of its own, and every number an instance.
LEMMA Numbers ==
  ASSUME done \in Nat
  PROVE  /\ First \in Pipe
         /\ \A p \in Pipe : RunOf(p) \in done + 1 .. done + Depth
         /\ \A p, q \in Pipe : RunOf(p) = RunOf(q) => p = q
         /\ \A k \in done + 1 .. done + Depth : \E p \in Pipe : RunOf(p) = k
<1>1. Depth \in Nat \ {0} /\ Pipe = 0 .. Depth - 1
  BY DepthAssumption DEF Pipe
<1>2. First \in Pipe
  BY <1>1 DEF First
<1>3. \A p \in Pipe : RunOf(p) \in done + 1 .. done + Depth
  BY <1>1, <1>2 DEF RunOf
<1>4. \A p, q \in Pipe : RunOf(p) = RunOf(q) => p = q
  BY <1>1, <1>2 DEF RunOf
<1>5. ASSUME NEW k \in done + 1 .. done + Depth PROVE \E p \in Pipe : RunOf(p) = k
  <2> DEFINE a == First + (k - done - 1)
  <2>1. a \in Nat /\ a < First + Depth
    BY <1>1, <1>2
  <2>2. CASE a < Depth
    <3>1. a \in Pipe /\ RunOf(a) = k
      BY <1>1, <1>2, <2>1, <2>2 DEF RunOf
    <3> QED
      BY <3>1
  <2>3. CASE a >= Depth
    <3>1. a - Depth \in Pipe /\ RunOf(a - Depth) = k
      BY <1>1, <1>2, <2>1, <2>3 DEF RunOf
    <3> QED
      BY <3>1
  <2> QED
    BY <1>1, <1>2, <2>2, <2>3
<1> QED
  BY <1>2, <1>3, <1>4, <1>5

\* The instance before that of a run has the run before, unless the run is the oldest.
LEMMA PreviousRun ==
  ASSUME done \in Nat, NEW n \in Node, NEW p \in Pipe, RunOf(p) # done + 1
  PROVE  \E q \in Pipe : Prev(<<n, p>>) = <<n, q>> /\ RunOf(q) = RunOf(p) - 1
<1>1. Depth \in Nat \ {0} /\ Pipe = 0 .. Depth - 1 /\ First \in Pipe
  BY DepthAssumption, Numbers DEF Pipe
<1>2. (p + Depth - 1) % Depth = IF p = 0 THEN Depth - 1 ELSE p - 1
  <2>1. CASE p = 0
    BY <1>1, <2>1
  <2>2. CASE p # 0
    <3>1. (p - 1) % Depth = p - 1
      BY <1>1, <2>2
    <3>2. (p - 1 + Depth) % Depth = (p - 1) % Depth
      BY <1>1
    <3>3. p + Depth - 1 = p - 1 + Depth
      BY <1>1
    <3> QED
      BY <2>2, <3>1, <3>2, <3>3
  <2> QED
    BY <2>1, <2>2
<1>3. Prev(<<n, p>>) = <<n, IF p = 0 THEN Depth - 1 ELSE p - 1>>
  BY <1>2 DEF Prev
<1>4. (IF p = 0 THEN Depth - 1 ELSE p - 1) \in Pipe
  BY <1>1
<1>5. RunOf(IF p = 0 THEN Depth - 1 ELSE p - 1) = RunOf(p) - 1
  <2>1. p # First
    BY <1>1 DEF RunOf
  <2> QED
    BY <1>1, <2>1 DEF RunOf
<1> QED
  BY <1>3, <1>4, <1>5

\* The remainder of a number that is written with it.
LEMMA Modulo ==
  ASSUME NEW D \in Nat \ {0}, NEW a \in Int, NEW b \in 0 .. D - 1, NEW k \in Int, k = D * a + b
  PROVE  k % D = b
OBVIOUS

\* The remainder of the next number.
LEMMA NextModulo ==
  ASSUME NEW D \in Nat \ {0}, NEW k \in Nat
  PROVE  (k + 1) % D = IF (k % D) + 1 < D THEN (k % D) + 1 ELSE 0
<1> DEFINE q == k \div D
           r == k % D
<1>1. q \in Int /\ r \in 0 .. D - 1 /\ k = D * q + r
  OBVIOUS
<1> HIDE DEF q, r
<1>2. CASE r + 1 < D
  <2>1. k + 1 = D * q + (r + 1)
    BY <1>1
  <2>2. r + 1 \in 0 .. D - 1
    BY <1>1, <1>2
  <2>3. (k + 1) % D = r + 1
    BY <1>1, <2>1, <2>2, Modulo
  <2> QED
    BY <1>2, <2>3 DEF r
<1>3. CASE ~(r + 1 < D)
  <2>1. k + 1 = D * (q + 1) + 0
    BY <1>1, <1>3
  <2>2. (k + 1) % D = 0
    BY <1>1, <2>1, Modulo
  <2> QED
    BY <1>3, <2>2 DEF r
<1> QED
  BY <1>2, <1>3

\* When the oldest run completes, its instance is the last in turn.
LEMMA NextNumbers ==
  ASSUME done \in Nat, done' = done + 1, NEW p \in Pipe
  PROVE  /\ p = First <=> RunOf(p) = done + 1
         /\ RunOf(p)' = IF RunOf(p) = done + 1 THEN done + 1 + Depth ELSE RunOf(p)
<1>1. Depth \in Nat \ {0} /\ Pipe = 0 .. Depth - 1 /\ First \in Pipe
  BY DepthAssumption, Numbers DEF Pipe
<1>2. First' = IF First = Depth - 1 THEN 0 ELSE First + 1
  <2>1. (done + 1) % Depth = IF (done % Depth) + 1 < Depth THEN (done % Depth) + 1 ELSE 0
    BY <1>1, NextModulo
  <2> QED
    BY <1>1, <2>1 DEF First
<1>3. RunOf(p)' = IF p >= First' THEN done + 2 + (p - First') ELSE done + 2 + Depth + (p - First')
  BY DEF RunOf
<1> HIDE DEF First
<1>4. p = First <=> RunOf(p) = done + 1
  BY <1>1 DEF RunOf
<1>5. RunOf(p)' = IF RunOf(p) = done + 1 THEN done + 1 + Depth ELSE RunOf(p)
  BY <1>1, <1>2, <1>3 DEF RunOf
<1> QED
  BY <1>4, <1>5

\* The runs and their numbers are the same unless one is submitted or completes.
SameRuns == UNCHANGED <<done, submitted, freeQ, verified>>

\* A step of neither kind keeps what is known of the numbers.
LEMMA RunsSame ==
  ASSUME SameRuns
  PROVE  /\ SameRun /\ \A p \in Pipe : RunOf(p)' = RunOf(p)
         /\ \A p, q \in Pipe : Before(p, q)' <=> Before(p, q)
         /\ RunsNumbered => RunsNumbered'
         /\ FreeInOrder => FreeInOrder'
<1>1. SameRun
  BY RunSame DEF SameRuns
<1>2. First' = First
  BY DEF SameRuns, First
<1>3. \A p \in Pipe : RunOf(p)' = RunOf(p)
  BY <1>2 DEF SameRuns, RunOf
<1>4. \A p, q \in Pipe : Before(p, q)' <=> Before(p, q)
  BY <1>1, <1>3 DEF SameRun, Before
<1>5. RunsNumbered => RunsNumbered'
  BY <1>1, <1>3 DEF SameRuns, SameRun, RunsNumbered
<1>6. FreeInOrder => FreeInOrder'
  BY <1>2 DEF SameRuns, FreeInOrder, RunOf
<1> QED
  BY <1>1, <1>3, <1>4, <1>5, <1>6

\* The instances that are free are those that come next.
LEMMA NumberedRuns == Inv /\ FreeInOrder => RunsNumbered
<1> SUFFICES ASSUME Inv, FreeInOrder, NEW p \in Pipe
             PROVE  p \in InRun <=> RunOf(p) <= done + submitted
  BY DEF RunsNumbered
<1>1. /\ done \in Nat /\ submitted \in Nat /\ Depth \in Nat \ {0} /\ verified \in Nat
      /\ RunOf(p) \in done + 1 .. done + Depth
      /\ verified > 0 => Len(freeQ) + submitted = Depth
      /\ verified = 0 => submitted = 0
      /\ freeQ \in Seq(Pipe)
  BY Counts, Numbers
<1>2. CASE verified = 0
  BY <1>1, <1>2 DEF InRun
<1>3. CASE verified > 0 /\ RunOf(p) <= done + submitted
  <2>1. ASSUME NEW j \in DOMAIN freeQ PROVE freeQ[j] # p
    <3>1. j \in Nat \ {0}
      BY <1>1
    <3>2. RunOf(freeQ[j]) = done + submitted + j
      BY DEF FreeInOrder
    <3> QED
      BY <1>1, <1>3, <3>1, <3>2
  <2> QED
    BY <1>3, <2>1 DEF InRun, Range
<1>4. CASE verified > 0 /\ RunOf(p) > done + submitted
  <2> DEFINE j == RunOf(p) - (done + submitted)
  <2>1. j \in DOMAIN freeQ /\ done + submitted + j = RunOf(p)
    BY <1>1, <1>4
  <2>2. freeQ[j] \in Pipe /\ RunOf(freeQ[j]) = RunOf(p)
    BY <1>1, <2>1 DEF FreeInOrder
  <2>3. freeQ[j] = p
    BY <1>1, <2>2, Numbers
  <2> QED
    BY <1>1, <1>4, <2>1, <2>3 DEF InRun, Range
<1> QED
  BY <1>1, <1>2, <1>3, <1>4

\* After a step, the numbers follow from the order of freeQ.
LEMMA NumberedAfter == Inv' /\ FreeInOrder' => RunsNumbered'
<1>1. Inv /\ FreeInOrder => RunsNumbered
  BY NumberedRuns
<1> QED
  BY <1>1, PTL

\* No run is before itself.
LEMMA NotBeforeItself ==
  ASSUME Inv, NEW p \in Pipe, NEW q \in Pipe, Before(p, q)
  PROVE  p # q /\ ~Before(q, p)
BY Counts, Numbers DEF Before

\* Behind an earlier run there is the one before, which is that earlier run or a later one.
LEMMA JustBefore ==
  ASSUME Inv, RunsNumbered, NEW n \in Node, NEW p \in Pipe, NEW q \in Pipe, Before(p, q)
  PROVE  \E r \in Pipe : /\ Prev(<<n, q>>) = <<n, r>> /\ Before(r, q) /\ RunOf(r) = RunOf(q) - 1
                         /\ r = p \/ Before(p, r)
<1>1. /\ done \in Nat /\ submitted \in Nat /\ RunOf(p) \in Int /\ RunOf(q) \in Int
      /\ RunOf(p) >= done + 1 /\ RunOf(p) < RunOf(q) /\ p \in InRun /\ q \in InRun
      /\ RunOf(q) <= done + submitted
  BY Counts, Numbers DEF Before, RunsNumbered
<1>2. PICK r \in Pipe : Prev(<<n, q>>) = <<n, r>> /\ RunOf(r) = RunOf(q) - 1
  BY <1>1, PreviousRun
<1>3. r \in InRun /\ Before(r, q)
  BY <1>1, <1>2 DEF Before, RunsNumbered
<1>4. r = p \/ Before(p, r)
  <2>1. CASE RunOf(p) = RunOf(r)
    BY <1>1, <2>1, Numbers
  <2>2. CASE RunOf(p) # RunOf(r)
    BY <1>1, <1>2, <1>3, <2>2 DEF Before
  <2> QED
    BY <2>1, <2>2
<1> QED
  BY <1>2, <1>3, <1>4

\* A node that is due in one run is due in the earlier ones, or was executed.
DueInOrder ==
    \A n \in Node, p, q \in Pipe :
       Before(p, q) /\ Due(<<n, q>>) /\ <<n, p>> \notin executed => Due(<<n, p>>)

\* A node is due in one run after the other: so are its in-nodes executed.
LEMMA DueOrdered ==
  ASSUME ExecutedInOrder, OverInOrder
  PROVE  DueInOrder
<1> SUFFICES ASSUME NEW n \in Node, NEW p \in Pipe, NEW q \in Pipe, Before(p, q),
                    Due(<<n, q>>), <<n, p>> \notin executed
             PROVE  Due(<<n, p>>)
  BY DEF DueInOrder
<1>1. ASSUME NEW m \in InNodes(n) PROVE <<m, p>> \in executed /\ ~Pending(m, n, p)
  <2>1. m \in Node /\ <<m, q>> \in executed
    BY DEF InNodes, Due, Enabled
  <2>2. <<m, p>> \in executed
    BY <2>1 DEF ExecutedInOrder
  <2>3. ~Over(m, p)
    BY <2>1 DEF OverInOrder
  <2> QED
    BY <2>2, <2>3 DEF Pending, Over
<1>2. Enabled(<<n, p>>)
  BY <1>1 DEF Enabled
<1> QED
  BY <1>2 DEF Due, Before

\* A node that is due, and not blocked, is in the job queue or its target acquires for it.
WhereDue ==
    \A n \in Node, p \in Pipe :
       Due(<<n, p>>) /\ <<n, p>> \notin blocked =>
          Acquiring(n, p) \/ <<n, p>> \in Range(jobQ[TargetOf[n]])

\* It is, by where the lists of the queues are known to have their nodes from.
LEMMA DueIsSomewhere ==
  ASSUME Detail, GraphParameters, ParkedBlocked
  PROVE  WhereDue
<1> SUFFICES ASSUME NEW n \in Node, NEW p \in Pipe, Due(<<n, p>>), <<n, p>> \notin blocked
             PROVE  Acquiring(n, p) \/ <<n, p>> \in Range(jobQ[TargetOf[n]])
  BY DEF WhereDue
<1> DEFINE i == <<n, p>>
<1>1. i \in Inst /\ NoActor # i
  BY DEF Inst, GraphParameters
<1>2. PICK x \in Place : i \in Tokens(x)
  BY <1>1 DEF Detail, DueInv, Somewhere
<1>3. ~Parked(i)
  BY <1>1 DEF ParkedBlocked
<1>4. ASSUME NEW t \in Target, x = <<"job", t>> PROVE i \in Range(jobQ[TargetOf[n]])
  <2>1. i \in Range(jobQ[t])
    BY <1>2, <1>4, TokensOf
  <2>2. TargetOf[i[1]] = t
    BY <2>1 DEF Detail, ListsInv
  <2> QED
    BY <2>1, <2>2
<1>5. ASSUME NEW t \in Target, x = <<"wake", t>> \/ x = <<"after", t>> PROVE FALSE
  BY <1>2, <1>3, <1>5, TokensOf DEF Parked
<1>6. ASSUME NEW t \in Target, x = <<"acquire", t>> PROVE Acquiring(n, p)
  <2>1. task[t].at = "acquire" /\ task[t].inst = i
    BY <1>2, <1>6, TokensOf
  <2>2. TargetOf[n] = t
    BY <2>1 DEF Detail, TaskShape, Shape
  <2> QED
    BY <2>1, <2>2 DEF Acquiring, OnTask
<1>7. ASSUME NEW d \in Data, x = <<"waiting", d>> PROVE FALSE
  BY <1>2, <1>3, <1>7, TokensOf DEF Parked
<1>8. ASSUME NEW d \in UserData, x = <<"call", d>> PROVE FALSE
  BY <1>2, <1>3, <1>8, TokensOf DEF Parked
<1>9. ASSUME NEW j \in Inst, x = <<"behind", j>> PROVE FALSE
  BY <1>2, <1>3, <1>9, TokensOf DEF Parked
<1> QED
  BY <1>4, <1>5, <1>6, <1>7, <1>8, <1>9, Places

\* Both hold after a step when what they rest on does.
LEMMA DueAfter ==
  ASSUME GraphParameters
  PROVE  /\ ExecutedInOrder' /\ OverInOrder' => DueInOrder'
         /\ Inv' /\ ParkedBlocked' => WhereDue'
<1>1. ExecutedInOrder /\ OverInOrder => DueInOrder
  BY DueOrdered
<1>2. Inv /\ ParkedBlocked => WhereDue
  BY DueIsSomewhere DEF Inv
<1>3. ExecutedInOrder' /\ OverInOrder' => DueInOrder'
  BY <1>1, PTL
<1>4. Inv' /\ ParkedBlocked' => WhereDue'
  BY <1>2, PTL
<1> QED
  BY <1>3, <1>4

-----------------------------------------------------------------------------
(* The order of the nodes                                                   *)

\* A job whose node is due in an earlier run, too: that one is in the same queue, it is
\* blocked, or the target has taken it.
LEMMA JobBehind ==
  ASSUME Inv', GraphParameters, DueInOrder', WhereDue', NEW n \in Node, NEW p \in Pipe,
         NEW q \in Pipe, Before(p, q)', <<n, q>> \in Range(jobQ'[TargetOf[n]])
  PROVE  \/ <<n, p>> \in executed' \/ <<n, p>> \in blocked' \/ Acquiring(n, p)'
         \/ <<n, p>> \in Range(jobQ'[TargetOf[n]])
<1>1. TargetOf[n] \in Target /\ <<n, q>> \in Inst
  BY DEF GraphParameters, Inst
<1>2. Due(<<n, q>>)'
  <2>1. /\ <<n, q>> \in Tokens(<<"job", TargetOf[n]>>)' /\ <<"job", TargetOf[n]>> \in Place
    BY <1>1, TokensPrimed, Places
  <2>2. Somewhere(<<n, q>>)'
    BY <2>1 DEF Somewhere
  <2> QED
    BY <1>1, <2>2 DEF Inv, Detail, DueInv
<1>3. <<n, p>> \notin executed' => Due(<<n, p>>)'
  BY <1>2 DEF DueInOrder
<1> QED
  BY <1>3 DEF WhereDue

\* The order is kept by steps that execute and block no node, and trigger nodes at the end
\* of a job queue.
Triggering(t) == jobQ'[t] = jobQ[t] \/ \E i \in Inst : jobQ'[t] = Append(jobQ[t], i)
\* Nothing is executed or blocked, and no run overtakes another ...
SameTurns ==
    /\ \A p, q \in Pipe : Before(p, q)' => Before(p, q)
    /\ executed' = executed /\ blocked' = blocked /\ behind' = behind
\* ... and no target turns to acquiring, or is through with a node.
SameTasks ==
    \A n \in Node, p \in Pipe : /\ Over(n, p)' => Over(n, p)
                                /\ Acquiring(n, p)' <=> Acquiring(n, p)

\* Such a step keeps the order of the nodes.
LEMMA TurnKept ==
  ASSUME Inv, Inv', GraphParameters, TurnInv, SameTurns, SameTasks,
         \A i \in Inst : Parked(i)' => Parked(i),
         \A t \in Target : Triggering(t)
  PROVE  TurnInv'
<1>1. ExecutedInOrder'
  BY DEF ExecutedInOrder, TurnInv, SameTurns
<1>2. OverInOrder'
  BY DEF OverInOrder, TurnInv, SameTurns, SameTasks
<1>3. AcquireInOrder'
  BY DEF AcquireInOrder, TurnInv, SameTurns, SameTasks
<1>4. ParkedBlocked'
  BY DEF ParkedBlocked, TurnInv, SameTurns
<1>5. BlockedInOrder'
  BY DEF BlockedInOrder, TurnInv, SameTurns, SameTasks
<1>6. DueInOrder' /\ WhereDue'
  BY <1>1, <1>2, <1>4, DueAfter
<1>7. JobsInOrder'
  <2> SUFFICES ASSUME NEW n \in Node, NEW p \in Pipe, NEW q \in Pipe,
                      NEW j \in DOMAIN jobQ'[TargetOf[n]],
                      Before(p, q)', jobQ'[TargetOf[n]][j] = <<n, q>>
               PROVE  JobInOrder(n, p, j)'
    BY DEF JobsInOrder
  <2> DEFINE t == TargetOf[n]
  <2>1. t \in Target /\ jobQ[t] \in Seq(Inst) /\ jobQ'[t] \in Seq(Inst)
    BY DEF GraphParameters, Inv, Detail, Typed, JobsTyped
  <2>t. \/ jobQ'[t] = jobQ[t]
        \/ /\ DOMAIN jobQ'[t] = 1 .. Len(jobQ[t]) + 1 /\ Len(jobQ[t]) \in Nat
           /\ DOMAIN jobQ[t] = 1 .. Len(jobQ[t])
           /\ \A h \in DOMAIN jobQ[t] : jobQ'[t][h] = jobQ[t][h]
    <3>1. CASE jobQ'[t] # jobQ[t]
      <4>1. PICK i \in Inst : jobQ'[t] = Append(jobQ[t], i)
        BY <2>1, <3>1 DEF Triggering
      <4> QED
        BY <2>1, <4>1
    <3> QED
      BY <3>1
  <2>2. CASE j \in DOMAIN jobQ[t] /\ jobQ[t][j] = jobQ'[t][j]
    <3>1. JobInOrder(n, p, j)
      BY <2>2 DEF TurnInv, JobsInOrder, SameTurns
    <3>2. \A h \in DOMAIN jobQ[t] : h \in DOMAIN jobQ'[t] /\ jobQ'[t][h] = jobQ[t][h]
      BY <2>t
    <3>3. Ahead(t, j, <<n, p>>) => Ahead(t, j, <<n, p>>)'
      BY <3>2 DEF Ahead
    <3> QED
      BY <3>1, <3>3 DEF JobInOrder, SameTurns, SameTasks
  <2>3. CASE ~(j \in DOMAIN jobQ[t] /\ jobQ[t][j] = jobQ'[t][j])
    <3>1. \A h \in DOMAIN jobQ'[t] : h = j \/ h < j
      BY <2>t, <2>3
    <3>2. p # q
      BY NotBeforeItself DEF SameTurns
    <3>3. <<n, q>> \in Range(jobQ'[t])
      BY DEF Range
    <3>4. \/ <<n, p>> \in executed' \/ <<n, p>> \in blocked' \/ Acquiring(n, p)'
          \/ <<n, p>> \in Range(jobQ'[t])
      BY <1>6, <3>3, JobBehind
    <3>5. <<n, p>> \in Range(jobQ'[t]) => Ahead(t, j, <<n, p>>)'
      BY <3>1, <3>2 DEF Ahead, Range
    <3> QED
      BY <3>4, <3>5 DEF JobInOrder
  <2> QED
    BY <2>2, <2>3
<1> QED
  BY <1>1, <1>2, <1>3, <1>4, <1>5, <1>7 DEF TurnInv

\* A target goes on with its node, is through with it, or lets it go.
Through == {"release", "consumed", "trigger"}
\* What becomes of its task then, ...
Quiet(t) ==
    \/ task'[t].at = task[t].at /\ task'[t].inst = task[t].inst
    \/ task[t].at \in Through /\ task'[t].at \in Through /\ task'[t].inst = task[t].inst
    \/ task[t].at \in Through /\ task'[t].at = "idle"
\* ... with the runs and the nodes as they were, and nothing else put in a list.
QuietTurn ==
    /\ SameRuns /\ UNCHANGED nodeVars
    /\ \A t \in Target : Quiet(t) /\ Triggering(t)
    /\ \A i \in Inst : Parked(i)' => Parked(i)

\* The host hears nothing, and no node begins or ends to release its parameters.
Silent == SameReleasing /\ jobQ'[Host] = jobQ[Host]

\* So it keeps the order of the nodes.
LEMMA QuietKept ==
  ASSUME Inv, Inv', GraphParameters, TurnInv, QuietTurn
  PROVE  TurnInv'
<1>1. SameTurns
  BY RunsSame DEF QuietTurn, SameTurns, nodeVars
<1>2. SameTasks
  <2> SUFFICES ASSUME NEW n \in Node, NEW p \in Pipe
               PROVE  /\ Over(n, p)' => Over(n, p)
                      /\ Acquiring(n, p)' <=> Acquiring(n, p)
    BY DEF SameTasks
  <2>1. Quiet(TargetOf[n])
    BY DEF QuietTurn, GraphParameters
  <2> QED
    BY <2>1 DEF Quiet, Through, Over, Releasing, Acquiring, OnTask
<1> QED
  BY <1>1, <1>2, TurnKept DEF QuietTurn

\* What is parked after a step was parked before.
LEMMA ParkedFewer ==
  ASSUME UNCHANGED behind, NEW i,
         \A d \in Data : i \in Range(waiting'[d]) => Parked(i),
         \A d \in UserData : i \in Range(retrigger'[d]) => Parked(i),
         \A t \in Target : i \in Range(task'[t].wake) \/ i = task'[t].after => Parked(i)
  PROVE  Parked(i)' => Parked(i)
BY DEF Parked

\* The step of a target that leaves the waiting nodes alone, or takes some of them over.
LEMMA QuietTarget ==
  ASSUME NEW t \in Target, Others(t), Quiet(t), SameRuns, UNCHANGED <<nodeVars, retrigger>>,
         \A u \in Target : Triggering(u),
         \A i \in Inst : i \in Range(task'[t].wake) => Parked(i),
         \A i \in Inst : i = task'[t].after => Parked(i),
         \A d \in Data : Range(waiting'[d]) \subseteq Range(waiting[d])
  PROVE  QuietTurn
<1>1. ASSUME NEW i \in Inst PROVE Parked(i)' => Parked(i)
  <2>1. \A d \in Data : i \in Range(waiting'[d]) => Parked(i)
    BY DEF Parked
  <2>2. \A d \in UserData : i \in Range(retrigger'[d]) => Parked(i)
    BY DEF Parked
  <2>3. ASSUME NEW u \in Target, i \in Range(task'[u].wake) \/ i = task'[u].after
        PROVE  Parked(i)
    BY <2>3 DEF Parked, Others
  <2>4. UNCHANGED behind
    BY DEF nodeVars
  <2> QED
    BY <2>1, <2>2, <2>3, <2>4, ParkedFewer
<1>2. \A u \in Target : Quiet(u)
  BY DEF Others, Quiet
<1> QED
  BY <1>1, <1>2 DEF QuietTurn

\* ... as it is when none joins its own ...
LEMMA QuietAlone ==
  ASSUME NEW t \in Target, Others(t), Quiet(t), SameRuns,
         UNCHANGED <<nodeVars, retrigger, waiting>>, \A u \in Target : Triggering(u),
         Range(task'[t].wake) \subseteq Range(task[t].wake),
         task'[t].after = task[t].after \/ task'[t].after = NoActor, NoActor \notin Inst
  PROVE  QuietTurn
<1>1. \A i \in Inst : i \in Range(task'[t].wake) => Parked(i)
  BY DEF Parked
<1>2. \A i \in Inst : i = task'[t].after => Parked(i)
  BY DEF Parked
<1> QED
  BY <1>1, <1>2, QuietTarget

\* A step that no target takes.
LEMMA QuietElsewhere ==
  ASSUME SameRuns, UNCHANGED <<nodeVars, task>>, \A u \in Target : Triggering(u),
         \A i \in Inst : \A d \in Data : i \in Range(waiting'[d]) => Parked(i),
         \A i \in Inst : \A d \in UserData : i \in Range(retrigger'[d]) => Parked(i)
  PROVE  QuietTurn
<1>1. ASSUME NEW i \in Inst PROVE Parked(i)' => Parked(i)
  <2>1. /\ \A d \in Data : i \in Range(waiting'[d]) => Parked(i)
        /\ \A d \in UserData : i \in Range(retrigger'[d]) => Parked(i)
    OBVIOUS
  <2>2. \A u \in Target : i \in Range(task'[u].wake) \/ i = task'[u].after => Parked(i)
    BY DEF Parked
  <2>3. UNCHANGED behind
    BY DEF nodeVars
  <2> QED
    BY <2>1, <2>2, <2>3, ParkedFewer
<1>2. \A u \in Target : Quiet(u)
  BY DEF Quiet
<1> QED
  BY <1>1, <1>2 DEF QuietTurn

\* The waiting nodes of one queue go to the call that enqueued a reference, ...
LEMMA EnqueueQuiet ==
  ASSUME NEW d \in UserData, GraphParameters, Detail, SameRuns,
         \E r : EnqueueReady(d, r)
  PROVE  QuietTurn
<1>1. PICK r : EnqueueReady(d, r)
  OBVIOUS
<1>2. /\ UNCHANGED <<nodeVars, task>> /\ \A u \in Target : Triggering(u)
  BY <1>1 DEF EnqueueReady, Triggering
<1>3. /\ waiting' = [waiting EXCEPT ![d] = <<>>] /\ waiting \in [Data -> Seq(Inst)]
      /\ retrigger' = [retrigger EXCEPT ![d] = waiting[d]]
      /\ retrigger \in [UserData -> Seq(Inst)] /\ d \in Data
  BY <1>1 DEF EnqueueReady, BlockedAfterExtract, ExtractBlockedNodes, Detail, Typed,
              QueuesTyped, GraphParameters
<1>4. ASSUME NEW i \in Inst, NEW e \in Data, i \in Range(waiting'[e]) PROVE Parked(i)
  <2>1. Range(<<>>) = {}
    BY Empty
  <2>2. e # d /\ waiting'[e] = waiting[e]
    BY <1>3, <1>4, <2>1
  <2> QED
    BY <1>4, <2>2 DEF Parked
<1>5. ASSUME NEW i \in Inst, NEW e \in UserData, i \in Range(retrigger'[e]) PROVE Parked(i)
  <2>1. retrigger'[e] = IF e = d THEN waiting[d] ELSE retrigger[e]
    BY <1>3
  <2> QED
    BY <1>3, <1>5, <2>1 DEF Parked
<1> QED
  BY <1>2, <1>4, <1>5, QuietElsewhere

\* ... which triggers them one by one.
LEMMA RetriggerQuiet ==
  ASSUME NEW d \in UserData, GraphParameters, Detail, Retrigger(d)
  PROVE  QuietTurn /\ Silent
<1>1. /\ retrigger[d] \in Seq(Inst) /\ retrigger[d] # <<>>
      /\ retrigger' = [retrigger EXCEPT ![d] = Tail(@)]
      /\ retrigger \in [UserData -> Seq(Inst)] /\ JobsTyped
  BY DEF Retrigger, Detail, Typed, QueuesTyped
<1>2. /\ Head(retrigger[d]) \in Inst
      /\ Range(Tail(retrigger[d])) \subseteq Range(retrigger[d])
  BY <1>1, Taken
<1>3. TargetOf[Head(retrigger[d])[1]] \in Target
  BY <1>2 DEF GraphParameters, Inst
<1>4. jobQ'[Host] = jobQ[Host] /\ \A u \in Target : Triggering(u)
  BY <1>1, <1>2, <1>3, SendsTo DEF Retrigger, Trigger, Triggering
<1>5. SameRuns /\ UNCHANGED <<nodeVars, task, waiting>>
  BY DEF Retrigger, SameRuns, controlVars, countVars, descVars, queueVars
<1>6. \A i \in Inst : \A e \in UserData : i \in Range(retrigger'[e]) => Parked(i)
  BY <1>1, <1>2 DEF Parked
<1>7. \A i \in Inst : \A e \in Data : i \in Range(waiting'[e]) => Parked(i)
  BY <1>5 DEF Parked
<1>8. SameReleasing
  BY <1>5, TaskSame
<1> QED
  BY <1>4, <1>5, <1>6, <1>7, <1>8, QuietElsewhere DEF Silent

\* A target that goes on with its node.
LEMMA GoesOn ==
  ASSUME GraphParameters, NEW t \in Target, Others(t),
         \/ /\ task'[t].inst = task[t].inst
            /\ task'[t].at \in {"release", "consumed"} <=> task[t].at \in {"release", "consumed"}
         \/ /\ task[t].at \notin {"release", "consumed"}
            /\ task'[t].at \notin {"release", "consumed"}
  PROVE  SameReleasing
<1> SUFFICES ASSUME NEW n \in Node, NEW p \in Pipe PROVE Releasing(n, p)' <=> Releasing(n, p)
  BY DEF SameReleasing
<1>1. TargetOf[n] \in Target
  BY DEF GraphParameters
<1>2. CASE TargetOf[n] = t
  BY <1>2 DEF Releasing, OnTask
<1>3. CASE TargetOf[n] # t
  BY <1>1, <1>3 DEF Releasing, OnTask, Others
<1> QED
  BY <1>2, <1>3

\* A target acquires a parameter, keeps or releases it: no node joins a list.
LEMMA ParamQuiet ==
  ASSUME Detail, GraphParameters, NEW t \in Target,
         AcquireHeld(t) \/ AcquireRef(t) \/ KeepParam(t) \/ ReleaseDone(t)
  PROVE  QuietTurn /\ Silent
<1>0. /\ TasksTyped /\ JobsTyped /\ NoActor \notin Inst /\ QueuesTyped
      /\ InstOf(t) = task[t].inst
  BY DEF Detail, Typed, GraphParameters, InstOf
<1>1. CASE AcquireHeld(t) \/ AcquireRef(t)
  <2>1. PICK r \in Ref : HasParam(t, r)
    <3>1. task[t].at = "acquire" /\ task[t].k \in DOMAIN Params[InstOf(t)[1]]
      BY <1>1 DEF AcquireHeld, AcquireRef, AtParam
    <3>2. PICK n \in Node, p \in Pipe : task[t].inst = <<n, p>> /\ Params[n] \in Seq(Data)
      BY <3>1, AcquiresFor
    <3>3. Param(t) \in Data /\ InstOf(t)[2] = p
      BY <3>1, <3>2 DEF Param, InstOf
    <3>4. CASE AcquireHeld(t)
      <4>1. held[<<Param(t), p>>] \in Ref
        BY <1>0, <3>3, <3>4 DEF AcquireHeld, QueuesTyped
      <4> QED
        BY <3>3, <3>4, <4>1 DEF AcquireHeld
    <3>5. CASE AcquireRef(t)
      <4>1. Head(readyQ[Param(t)]) \in Ref
        BY <1>0, <3>3, <3>5, Taken DEF AcquireRef, QueuesTyped
      <4> QED
        BY <3>5, <4>1 DEF AcquireRef
    <3> QED
      BY <1>1, <3>4, <3>5
  <2>2. TaskIs(t, task[t].at, task[t].inst, task[t].k + 1, Append(task[t].prm, r), task[t].wake,
               task[t].after)
    BY <1>0, <2>1, TaskSteps
  <2>3. /\ SameRuns /\ UNCHANGED <<jobQ, nodeVars, retrigger, waiting>>
    BY <1>1 DEF AcquireHeld, AcquireRef, SameRuns, controlVars, countVars, descVars, queueVars,
                userVars
  <2> QED
    BY <1>0, <2>2, <2>3, QuietAlone, GoesOn DEF TaskIs, Others, Quiet, Triggering, Silent
<1>2. CASE KeepParam(t)
  <2>1. TaskIs(t, task[t].at, task[t].inst, task[t].k + 1, task[t].prm, task[t].wake,
               task[t].after)
    BY <1>0, <1>2, TaskSteps DEF KeepParam
  <2>2. /\ SameRuns /\ UNCHANGED <<jobQ, nodeVars, retrigger, waiting>>
    BY <1>2 DEF KeepParam, SameRuns, controlVars, countVars, descVars, userVars
  <2> QED
    BY <1>0, <2>1, <2>2, QuietAlone, GoesOn DEF TaskIs, Others, Quiet, Triggering, Silent
<1>3. CASE ReleaseDone(t)
  <2>1. TaskIs(t, "consumed", task[t].inst, task[t].k, task[t].prm, task[t].wake, task[t].after)
    BY <1>0, <1>3, TaskSteps DEF ReleaseDone
  <2>2. /\ SameRuns /\ UNCHANGED <<jobQ, nodeVars, retrigger, waiting>>
        /\ task[t].at = "release"
    BY <1>3 DEF ReleaseDone, AtParam, Through, SameRuns, controlVars, countVars, descVars,
                userVars
  <2> QED
    BY <1>0, <2>1, <2>2, QuietAlone, GoesOn DEF TaskIs, Others, Quiet, Triggering, Silent, Through
<1> QED
  BY <1>1, <1>2, <1>3

\* A target reports to the host: that a reference was consumed, or that its node is
\* complete, with which it stops releasing.
LEMMA ReportQuiet ==
  ASSUME Detail, GraphParameters, NEW t \in Target, NEW n \in Node, NEW p \in Pipe,
         task[t].inst = <<n, p>>, SendRefConsumed(t) \/ SendComplete(t)
  PROVE  /\ QuietTurn
         /\ \A m \in Node, q \in Pipe : Releasing(m, q) => Releasing(m, q)' \/ <<m, q>> = <<n, p>>
         /\ SendRefConsumed(t) => SameReleasing
<1>0. /\ TasksTyped /\ JobsTyped /\ NoActor \notin Inst /\ InstOf(t) = task[t].inst
  BY DEF Detail, Typed, GraphParameters, InstOf
<1>1. CASE SendRefConsumed(t)
  <2>1. TaskIs(t, "release", task[t].inst, task[t].k + 1, task[t].prm, task[t].wake, task[t].after)
    BY <1>0, <1>1, TaskSteps DEF SendRefConsumed
  <2>2. /\ SameRuns /\ UNCHANGED <<nodeVars, retrigger, waiting>> /\ task[t].at \in Through
        /\ jobQ' = [jobQ EXCEPT ![Host] = Append(@, <<"consumed", Param(t)>>)]
    BY <1>1 DEF SendRefConsumed, Send, Through, SameRuns, controlVars, countVars, descVars,
                queueVars, userVars
  <2>3. \A u \in Target : Triggering(u)
    BY <2>2, <1>0, GraphAssumption DEF Triggering, JobsTyped
  <2>4. SameReleasing
    BY <1>1, <2>1, GoesOn DEF TaskIs, Others, SendRefConsumed
  <2> QED
    BY <1>0, <2>1, <2>2, <2>3, <2>4, QuietAlone DEF TaskIs, Others, Quiet, Through, SameReleasing
<1>2. CASE SendComplete(t)
  <2>1. TaskIs(t, "trigger", task[t].inst, 1, task[t].prm, task[t].wake, task[t].after)
    BY <1>0, <1>2, TaskSteps DEF SendComplete
  <2>2. /\ SameRuns /\ UNCHANGED <<nodeVars, retrigger, waiting>> /\ task[t].at \in Through
        /\ \/ jobQ' = jobQ
           \/ jobQ' = [jobQ EXCEPT ![Host] = Append(@, <<"complete", InstOf(t)>>)]
    BY <1>2 DEF SendComplete, Send, PastParams, Through, SameRuns, controlVars, countVars,
                descVars, queueVars, userVars
  <2>3. \A u \in Target : Triggering(u)
    BY <2>2, <1>0, GraphAssumption DEF Triggering, JobsTyped
  <2>4. ASSUME NEW m \in Node, NEW q \in Pipe, Releasing(m, q)
        PROVE  Releasing(m, q)' \/ <<m, q>> = <<n, p>>
    <3>1. TargetOf[m] \in Target
      BY DEF GraphParameters
    <3>2. CASE TargetOf[m] = t
      BY <2>4, <3>2 DEF Releasing, OnTask
    <3>3. CASE TargetOf[m] # t
      BY <2>1, <2>4, <3>1, <3>3 DEF TaskIs, Releasing, OnTask
    <3> QED
      BY <3>2, <3>3
  <2>5. ~SendRefConsumed(t)
    BY <1>2 DEF SendRefConsumed, SendComplete, PastParams
  <2> QED
    BY <1>0, <2>1, <2>2, <2>3, <2>4, <2>5, QuietAlone DEF TaskIs, Others, Quiet, Through
<1> QED
  BY <1>1, <1>2

\* A target that releases a reference takes over the nodes that wait for it, ...
LEMMA ReleaseQuiet ==
  ASSUME Detail, GraphParameters, NEW t \in Target, ReleaseParam(t), NEW n \in Node,
         NEW p \in Pipe, task[t].inst = <<n, p>>, NEW d \in Data, Param(t) = d
  PROVE  QuietTurn /\ Silent
<1>1. /\ waiting \in [Data -> Seq(Inst)] /\ TasksTyped /\ NoActor \notin Inst
      /\ waiting' = [waiting EXCEPT ![d] = <<>>]
      /\ task' = [task EXCEPT ![t].k = @ + 1, ![t].wake = waiting[d]]
  BY DEF Detail, Typed, QueuesTyped, GraphParameters, ReleaseParam, ExtractBlockedNodes,
         BlockedAfterExtract
<1>2. TaskIs(t, task[t].at, task[t].inst, task[t].k + 1, task[t].prm, waiting[d], task[t].after)
  <2>1. waiting[d] \in Seq(Inst)
    BY <1>1
  <2> QED
    BY <1>1, <2>1, TaskSteps
<1>3. SameRuns /\ UNCHANGED <<nodeVars, retrigger, jobQ>>
  BY DEF ReleaseParam, SameRuns, controlVars, countVars, descVars, userVars
<1>4. \A e \in Data : Range(waiting'[e]) \subseteq Range(waiting[e])
  <2> TAKE e \in Data
  <2>1. waiting'[e] = IF e = d THEN <<>> ELSE waiting[e]
    BY <1>1
  <2> QED
    BY <2>1, Empty
<1>5. \A i \in Inst : i \in Range(task'[t].wake) => Parked(i)
  BY <1>2 DEF TaskIs, Parked
<1>6. \A i \in Inst : i = task'[t].after => Parked(i)
  BY <1>2 DEF TaskIs, Parked
<1>7. \A u \in Target : Triggering(u)
  BY <1>3 DEF Triggering
<1> QED
  BY <1>2, <1>3, <1>4, <1>5, <1>6, <1>7, QuietTarget, GoesOn DEF TaskIs, Others, Quiet, Silent

\* ... triggers them one by one, ...
LEMMA WakeQuiet ==
  ASSUME Detail, GraphParameters, NEW t \in Target, WakeBlocked(t)
  PROVE  QuietTurn /\ Silent
<1>1. /\ TasksTyped /\ JobsTyped /\ NoActor \notin Inst /\ task[t].wake # <<>>
      /\ task[t].wake \in Seq(Inst) /\ task' = [task EXCEPT ![t].wake = Tail(@)]
  BY DEF Detail, Typed, TasksTyped, TaskRecord, GraphParameters, WakeBlocked
<1>2. /\ Head(task[t].wake) \in Inst /\ Tail(task[t].wake) \in Seq(Inst)
      /\ Range(Tail(task[t].wake)) \subseteq Range(task[t].wake)
  BY <1>1, Taken
<1>3. TaskIs(t, task[t].at, task[t].inst, task[t].k, task[t].prm, Tail(task[t].wake), task[t].after)
  <2>1. task' = [task EXCEPT ![t].wake = Tail(task[t].wake)]
    BY <1>1
  <2> QED
    BY <1>1, <1>2, <2>1, TaskSteps
<1>4. TargetOf[Head(task[t].wake)[1]] \in Target
  BY <1>2 DEF GraphParameters, Inst
<1>5. jobQ'[Host] = jobQ[Host] /\ \A u \in Target : Triggering(u)
  BY <1>1, <1>2, <1>4, SendsTo DEF WakeBlocked, Trigger, Triggering
<1>6. SameRuns /\ UNCHANGED <<nodeVars, retrigger, waiting>>
  BY DEF WakeBlocked, SameRuns, controlVars, countVars, descVars, queueVars, userVars
<1> QED
  BY <1>1, <1>2, <1>3, <1>5, <1>6, QuietAlone, GoesOn DEF TaskIs, Others, Quiet, Silent

\* ... and the nodes that follow, at last the one that was waiting for its own.
LEMMA NextQuiet ==
  ASSUME Detail, GraphParameters, NEW t \in Target, TriggerNext(t) \/ FinishNode(t)
  PROVE  QuietTurn /\ Silent
<1>1. /\ TasksTyped /\ JobsTyped /\ NoActor \notin Inst /\ task[t].at = "trigger"
      /\ task[t].after \in Inst \cup {NoActor}
  BY DEF Detail, Typed, TasksTyped, TaskRecord, GraphParameters, TriggerNext, FinishNode
<1>2. PICK n \in Node, p \in Pipe : task[t].inst = <<n, p>> /\ OutNodes[n] \in Seq(Node)
  <2>1. Typed /\ TaskShape
    BY DEF Detail
  <2> QED
    BY <1>1, <2>1, ShapeOf
<1>3. \A i \in Inst : TargetOf[i[1]] \in Target
  BY DEF GraphParameters, Inst
<1>4. SameRuns /\ UNCHANGED <<nodeVars, retrigger, waiting>>
  BY DEF TriggerNext, FinishNode, SameRuns, controlVars, countVars, descVars, queueVars, userVars
<1>5. CASE TriggerNext(t)
  <2> DEFINE m == OutNodes[n][task[t].k]
  <2>1. <<m, p>> \in Inst
    BY <1>2, <1>5 DEF TriggerNext, InstOf, Inst
  <2>2. jobQ' = jobQ \/ Trigger(<<m, p>>)
    BY <1>2, <1>5 DEF TriggerNext, InstOf
  <2>3. jobQ'[Host] = jobQ[Host] /\ \A u \in Target : Triggering(u)
    <3>1. TargetOf[<<m, p>>[1]] \in Target
      BY <1>3, <2>1
    <3> QED
      BY <1>1, <2>1, <2>2, <3>1, SendsTo DEF Trigger, Triggering
  <2>4. TaskIs(t, task[t].at, task[t].inst, task[t].k + 1, task[t].prm, task[t].wake,
               task[t].after)
    <3>1. NextParam(t)
      BY <1>5 DEF TriggerNext, NextParam
    <3> QED
      BY <1>1, <3>1, TaskSteps
  <2> QED
    BY <1>1, <1>4, <2>3, <2>4, QuietAlone, GoesOn DEF TaskIs, Others, Quiet, Silent
<1>6. CASE FinishNode(t)
  <2>1. TaskIs(t, "idle", NoActor, 0, <<>>, <<>>, NoActor)
    BY <1>1, <1>6, TaskSteps DEF FinishNode
  <2>2. jobQ'[Host] = jobQ[Host] /\ \A u \in Target : Triggering(u)
    <3>1. CASE task[t].after # NoActor
      <4>1. task[t].after \in Inst /\ TargetOf[task[t].after[1]] \in Target
        BY <1>1, <1>3, <3>1
      <4> QED
        BY <1>1, <1>6, <3>1, <4>1, SendsTo DEF FinishNode, Trigger, Triggering
    <3>2. CASE task[t].after = NoActor
      BY <1>6, <3>2 DEF FinishNode, Triggering
    <3> QED
      BY <3>1, <3>2
  <2>3. Range(task'[t].wake) \subseteq Range(task[t].wake)
    BY <2>1, Empty DEF TaskIs
  <2> QED
    BY <1>1, <1>4, <2>1, <2>2, <2>3, QuietAlone, GoesOn DEF TaskIs, Others, Quiet, Silent, Through
<1> QED
  BY <1>5, <1>6

\* The steps that only count, lock and schedule.
LEMMA ControlQuiet ==
  ASSUME \/ \E a \in App : CallStep(a)
         \/ (RescheduleLock \/ ScheduleUnlock \/ HostAbandons) /\ UNCHANGED detailVars
         \/ UNCHANGED vars
  PROVE  QuietTurn /\ UNCHANGED detailVars /\ UNCHANGED enqueued
<1>1. UNCHANGED detailVars
  BY DEF CallStep, vars
<1>2. SameRuns /\ UNCHANGED enqueued
  <2>1. CASE \E a \in App : CallStep(a)
    <3>1. PICK a \in App : \/ EnqueueEnd(a) \/ EnqueueFail(a)
                           \/ ScheduleLock(a) \/ WaitCheck(a) \/ WaitReturn(a)
      BY <2>1 DEF CallStep
    <3> QED
      BY <3>1 DEF SameRuns, EnqueueEnd, EnqueueFail, ScheduleLock, WaitCheck, WaitReturn,
                  descVars, countVars
  <2>2. CASE RescheduleLock \/ ScheduleUnlock \/ HostAbandons
    BY <2>2 DEF SameRuns, RescheduleLock, ScheduleUnlock, HostAbandons, descVars, countVars
  <2>3. CASE UNCHANGED vars
    BY <2>3 DEF SameRuns, vars, controlVars, descVars, countVars
  <2> QED
    BY <2>1, <2>2, <2>3
<1>3. /\ UNCHANGED <<nodeVars, task, waiting, retrigger>>
      /\ \A u \in Target : Triggering(u)
  BY <1>1 DEF detailVars, queueVars, userVars, Triggering
<1>4. /\ \A i \in Inst : \A d \in Data : i \in Range(waiting'[d]) => Parked(i)
      /\ \A i \in Inst : \A d \in UserData : i \in Range(retrigger'[d]) => Parked(i)
  BY <1>3 DEF Parked
<1> QED
  BY <1>1, <1>2, <1>3, <1>4, QuietElsewhere

\* The steps of the threads that dequeue, and of the host that hears of something but
\* does not find a run complete.
LEMMA OutsideQuiet ==
  ASSUME \/ \E x \in Dequeuer : Dequeue(x)
         \/ \E cmd : /\ HostTakes(cmd)
                     /\ \/ UNCHANGED controlVars
                        \/ \E p \in Pipe : LeafControl(p) \/ AbandonControl(p),
         Host \notin Target, JobsTyped
  PROVE  QuietTurn
<1>1. SameRuns
  <2>1. CASE \E x \in Dequeuer : Dequeue(x)
    <3>1. UNCHANGED controlVars
      BY <2>1 DEF Dequeue, DequeueRef, DequeueNothing, DequeueWait, DequeueWoken
    <3> QED
      BY <3>1 DEF SameRuns, controlVars, descVars, countVars
  <2>2. CASE UNCHANGED controlVars
    BY <2>2 DEF SameRuns, controlVars, descVars, countVars
  <2>3. CASE \E p \in Pipe : LeafControl(p) \/ AbandonControl(p)
    BY <2>3 DEF SameRuns, LeafControl, AbandonControl, countVars
  <2> QED
    BY <2>1, <2>2, <2>3
<1>2. UNCHANGED <<nodeVars, task, waiting, retrigger>>
  <2>1. CASE \E x \in Dequeuer : Dequeue(x)
    BY <2>1 DEF Dequeue, DequeueRef, DequeueNothing, DequeueWait, DequeueWoken, queueVars,
                nodeVars
  <2>2. CASE \E cmd : HostTakes(cmd)
    BY <2>2 DEF HostTakes, queueVars, nodeVars
  <2> QED
    BY <2>1, <2>2
<1>3. \A u \in Target : Triggering(u)
  <2>1. CASE \E x \in Dequeuer : Dequeue(x)
    BY <2>1 DEF Dequeue, DequeueRef, DequeueNothing, DequeueWait, DequeueWoken, Triggering
  <2>2. CASE \E cmd : HostTakes(cmd)
    BY <2>2 DEF HostTakes, Triggering, JobsTyped
  <2> QED
    BY <2>1, <2>2
<1>4. /\ \A i \in Inst : \A d \in Data : i \in Range(waiting'[d]) => Parked(i)
      /\ \A i \in Inst : \A d \in UserData : i \in Range(retrigger'[d]) => Parked(i)
  BY <1>2 DEF Parked
<1> QED
  BY <1>1, <1>2, <1>3, <1>4, QuietElsewhere

\* What is parked has its one place there.
LEMMA ParkedPlace ==
  ASSUME Detail, NoActor \notin Inst, NEW i \in Inst, Parked(i), NEW t \in Target
  PROVE  i \notin Tokens(<<"job", t>>) /\ i \notin Tokens(<<"acquire", t>>)
<1>1. PICK x \in Place : i \in Tokens(x) /\ x # <<"job", t>> /\ x # <<"acquire", t>>
  <2>1. CASE \E d \in Data : i \in Range(waiting[d])
    <3>1. PICK d \in Data : i \in Range(waiting[d])
      BY <2>1
    <3>2. <<"waiting", d>> \in Place /\ i \in Tokens(<<"waiting", d>>)
      BY <3>1, Places, TokensOf
    <3> QED
      BY <3>2
  <2>2. CASE \E d \in UserData : i \in Range(retrigger[d])
    <3>1. PICK d \in UserData : i \in Range(retrigger[d])
      BY <2>2
    <3>2. <<"call", d>> \in Place /\ i \in Tokens(<<"call", d>>)
      BY <3>1, Places, TokensOf
    <3> QED
      BY <3>2
  <2>3. CASE \E u \in Target : i \in Range(task[u].wake) \/ i = task[u].after
    <3>1. PICK u \in Target : i \in Range(task[u].wake) \/ i = task[u].after
      BY <2>3
    <3>2. /\ <<"wake", u>> \in Place /\ <<"after", u>> \in Place
          /\ i \in Tokens(<<"wake", u>>) \/ i \in Tokens(<<"after", u>>)
      BY <3>1, Places, TokensOf
    <3> QED
      BY <3>2
  <2>4. CASE \E j \in Inst : behind[j] = i
    <3>1. PICK j \in Inst : behind[j] = i
      BY <2>4
    <3>2. <<"behind", j>> \in Place /\ i \in Tokens(<<"behind", j>>)
      BY <3>1, Places, TokensOf
    <3> QED
      BY <3>2
  <2> QED
    BY <2>1, <2>2, <2>3, <2>4 DEF Parked
<1>2. <<"job", t>> \in Place /\ <<"acquire", t>> \in Place /\ OnePlace
  BY Places DEF Detail
<1> QED
  BY <1>1, <1>2 DEF OnePlace

\* The head of a job queue is taken: the others move up, and are still behind it as long
\* as it is blocked or its target acquires for it.
LEMMA JobsMoveUp ==
  ASSUME GraphParameters, JobsTyped, JobsInOrder, NEW t \in Target, jobQ[t] # <<>>,
         jobQ'[t] = Tail(jobQ[t]), \A u \in Target \ {t} : jobQ'[u] = jobQ[u],
         \A p, q \in Pipe : Before(p, q)' => Before(p, q), executed' = executed,
         \A n \in Node, p \in Pipe :
            <<n, p>> \in blocked \/ Acquiring(n, p) \/ <<n, p>> = Head(jobQ[t]) =>
               <<n, p>> \in blocked' \/ Acquiring(n, p)'
  PROVE  JobsInOrder'
<1> SUFFICES ASSUME NEW n \in Node, NEW p \in Pipe, NEW q \in Pipe,
                    NEW j \in DOMAIN jobQ'[TargetOf[n]],
                    Before(p, q)', jobQ'[TargetOf[n]][j] = <<n, q>>
             PROVE  JobInOrder(n, p, j)'
  BY DEF JobsInOrder
<1>1. TargetOf[n] \in Target /\ Before(p, q)
  BY DEF GraphParameters
<1>2. CASE TargetOf[n] # t
  <2>1. jobQ'[TargetOf[n]] = jobQ[TargetOf[n]]
    BY <1>1, <1>2
  <2>2. JobInOrder(n, p, j)
    BY <1>1, <2>1 DEF JobsInOrder
  <2>3. Ahead(TargetOf[n], j, <<n, p>>)' <=> Ahead(TargetOf[n], j, <<n, p>>)
    BY <2>1 DEF Ahead
  <2> QED
    BY <2>2, <2>3 DEF JobInOrder
<1>3. CASE TargetOf[n] = t
  <2>1. /\ j + 1 \in DOMAIN jobQ[t] /\ jobQ[t][j + 1] = <<n, q>> /\ j \in Nat
        /\ \A h \in DOMAIN jobQ[t] : \/ h = 1 /\ jobQ[t][h] = Head(jobQ[t])
                                     \/ /\ h - 1 \in DOMAIN jobQ'[t]
                                        /\ jobQ'[t][h - 1] = jobQ[t][h]
        /\ DOMAIN jobQ[t] \subseteq Nat
    <3>1. jobQ[t] \in Seq(Inst)
      BY DEF JobsTyped
    <3>2. /\ Tail(jobQ[t]) \in Seq(Inst) /\ Head(jobQ[t]) = jobQ[t][1]
          /\ Len(Tail(jobQ[t])) = Len(jobQ[t]) - 1
          /\ \A h \in 1 .. Len(jobQ[t]) - 1 : Tail(jobQ[t])[h] = jobQ[t][h + 1]
      BY <3>1, Taken
    <3>3. /\ DOMAIN jobQ[t] = 1 .. Len(jobQ[t]) /\ Len(jobQ[t]) \in Nat
          /\ DOMAIN jobQ'[t] = 1 .. Len(jobQ[t]) - 1
      BY <3>1, <3>2
    <3>4. j \in 1 .. Len(jobQ[t]) - 1 /\ jobQ'[t][j] = <<n, q>>
      BY <1>3, <3>3
    <3>5. jobQ[t][j + 1] = <<n, q>> /\ j + 1 \in DOMAIN jobQ[t] /\ j \in Nat
      BY <3>2, <3>3, <3>4
    <3>6. ASSUME NEW h \in DOMAIN jobQ[t]
          PROVE  \/ h = 1 /\ jobQ[t][h] = Head(jobQ[t])
                 \/ h - 1 \in DOMAIN jobQ'[t] /\ jobQ'[t][h - 1] = jobQ[t][h]
      <4>1. h = 1 \/ h - 1 \in 1 .. Len(jobQ[t]) - 1
        BY <3>3
      <4>2. ASSUME h - 1 \in 1 .. Len(jobQ[t]) - 1 PROVE Tail(jobQ[t])[h - 1] = jobQ[t][h]
        <5>1. Tail(jobQ[t])[h - 1] = jobQ[t][(h - 1) + 1] /\ (h - 1) + 1 = h
          BY <3>2, <3>3, <4>2
        <5> QED
          BY <5>1
      <4> QED
        BY <3>2, <3>3, <4>1, <4>2
    <3>7. DOMAIN jobQ[t] \subseteq Nat
      BY <3>3
    <3> QED
      BY <3>5, <3>6, <3>7
  <2>2. JobInOrder(n, p, j + 1)
    BY <1>1, <1>3, <2>1 DEF JobsInOrder
  <2>3. ASSUME Ahead(t, j + 1, <<n, p>>)
        PROVE  Ahead(t, j, <<n, p>>)' \/ <<n, p>> = Head(jobQ[t])
    <3>1. PICK h \in DOMAIN jobQ[t] : h < j + 1 /\ jobQ[t][h] = <<n, p>>
      BY <2>3 DEF Ahead
    <3>2. CASE h = 1 /\ jobQ[t][h] = Head(jobQ[t])
      BY <3>1, <3>2
    <3>3. CASE h - 1 \in DOMAIN jobQ'[t] /\ jobQ'[t][h - 1] = jobQ[t][h]
      <4>1. h - 1 < j
        BY <2>1, <3>1
      <4> QED
        BY <3>1, <3>3, <4>1 DEF Ahead
    <3> QED
      BY <2>1, <3>2, <3>3
  <2>4. \/ <<n, p>> \in executed' \/ <<n, p>> \in blocked' \/ Acquiring(n, p)'
        \/ Ahead(t, j, <<n, p>>)'
    BY <1>3, <2>2, <2>3 DEF JobInOrder
  <2> QED
    BY <1>3, <2>4 DEF JobInOrder
<1> QED
  BY <1>2, <1>3

\* The node at the head of a job queue finds those of the earlier runs executed or blocked.
LEMMA HeadInOrder ==
  ASSUME Inv, TurnInv, NEW t \in Target, task[t].at = "idle", jobQ[t] # <<>>,
         NEW n \in Node, NEW p \in Pipe, NEW q \in Pipe, Head(jobQ[t]) = <<n, q>>,
         TargetOf[n] = t, Before(p, q)
  PROVE  <<n, p>> \in executed \/ <<n, p>> \in blocked
<1>1. jobQ[t] \in Seq(Inst)
  BY DEF Inv, Detail, Typed, JobsTyped
<1>2. 1 \in DOMAIN jobQ[t] /\ jobQ[t][1] = <<n, q>> /\ DOMAIN jobQ[t] \subseteq Nat \ {0}
  BY <1>1, Taken, ListOf
<1>3. JobInOrder(n, p, 1)
  BY <1>2 DEF TurnInv, JobsInOrder
<1>4. ~Ahead(t, 1, <<n, p>>)
  BY <1>2 DEF Ahead
<1> QED
  BY <1>3, <1>4 DEF JobInOrder, Acquiring, OnTask

\* It is left blocked behind the one before ...
LEMMA BehindTurn ==
  ASSUME Inv, Inv', GraphParameters, TurnInv, NEW t \in Target, TakeJob(t), NEW n \in Node,
         NEW q \in Pipe, Head(jobQ[t]) = <<n, q>>, TargetOf[n] = t, <<n, q>> \notin blocked,
         blocked' = blocked \cup {<<n, q>>}, behind' = [behind EXCEPT ![Prev(<<n, q>>)] = <<n, q>>],
         task' = task, \A u \in Target \ {t} : jobQ'[u] = jobQ[u]
  PROVE  TurnInv'
<1> DEFINE i == <<n, q>>
<1>1. /\ i \in Inst /\ Prev(i) \in Inst /\ behind \in [Inst -> Inst \cup {NoActor}]
      /\ JobsTyped /\ NoActor \notin Inst
  BY Instances DEF Inst, Inv, Detail, Typed, NodesTyped, GraphParameters
<1>2. SameRuns /\ UNCHANGED <<executed, waiting, retrigger>>
  BY DEF TakeJob, SameRuns, controlVars, descVars, countVars, queueVars, userVars
<1>3. \A a, b \in Pipe : Before(a, b)' <=> Before(a, b)
  BY <1>2, RunsSame
<1>4. \A m \in Node, a \in Pipe : /\ Over(m, a)' <=> Over(m, a)
                                  /\ Acquiring(m, a)' <=> Acquiring(m, a)
  BY DEF Over, Releasing, Acquiring, OnTask
<1>5. ExecutedInOrder' /\ OverInOrder' /\ AcquireInOrder'
  BY <1>2, <1>3, <1>4 DEF TurnInv, ExecutedInOrder, OverInOrder, AcquireInOrder
<1>6. ParkedBlocked'
  <2> SUFFICES ASSUME NEW x \in Inst, Parked(x)', x # i PROVE x \in blocked
    BY DEF ParkedBlocked
  <2>1. \A j \in Inst : behind'[j] = x => behind[j] = x
    BY <1>1
  <2>2. Parked(x)
    BY <1>2, <2>1 DEF Parked
  <2> QED
    BY <2>2 DEF TurnInv, ParkedBlocked
<1>7. BlockedInOrder'
  <2> SUFFICES ASSUME NEW m \in Node, NEW a \in Pipe, NEW b \in Pipe, Before(a, b),
                      <<m, b>> \in blocked', <<m, a>> \notin executed
               PROVE  /\ <<m, a>> \in blocked' \/ Acquiring(m, a)'
                      /\ behind'[Prev(<<m, b>>)] = <<m, b>>
    BY <1>2, <1>3 DEF BlockedInOrder
  <2>1. CASE <<m, b>> = i
    <3>1. <<m, a>> \in blocked
      BY <2>1, HeadInOrder DEF TakeJob
    <3> QED
      BY <1>1, <2>1, <3>1
  <2>2. CASE <<m, b>> # i
    <3>1. <<m, b>> \in blocked /\ <<m, b>> \in Inst
      BY <2>2 DEF Inst
    <3>2. /\ <<m, a>> \in blocked \/ Acquiring(m, a)
          /\ behind[Prev(<<m, b>>)] = <<m, b>>
      BY <3>1 DEF TurnInv, BlockedInOrder
    <3>3. Prev(<<m, b>>) # Prev(i) /\ Prev(<<m, b>>) \in Inst
      BY <1>1, <2>2, <3>1, Instances
    <3> QED
      BY <1>1, <1>4, <3>2, <3>3
  <2> QED
    BY <2>1, <2>2
<1>8. JobsInOrder'
  <2>1. jobQ'[t] = Tail(jobQ[t]) /\ jobQ[t] # <<>>
    BY <1>1 DEF TakeJob, JobsTyped
  <2>2. \A m \in Node, a \in Pipe :
           <<m, a>> \in blocked \/ Acquiring(m, a) \/ <<m, a>> = Head(jobQ[t]) =>
              <<m, a>> \in blocked' \/ Acquiring(m, a)'
    BY <1>4
  <2>3. JobsInOrder
    BY DEF TurnInv
  <2> QED
    BY <1>1, <1>2, <1>3, <2>1, <2>2, <2>3, JobsMoveUp
<1> QED
  BY <1>5, <1>6, <1>7, <1>8 DEF TurnInv

\* ... or it is the first of its node that is not executed.
LEMMA AcquiresInOrder ==
  ASSUME Inv, GraphParameters, RunsNumbered, TurnInv, NEW t \in Target, task[t].at = "idle",
         jobQ[t] # <<>>, NEW n \in Node, NEW p \in Pipe, NEW q \in Pipe,
         Head(jobQ[t]) = <<n, q>>, TargetOf[n] = t, Before(p, q),
         ~IsPrevPipeNodeBlocked(<<n, q>>), <<n, q>> \in Tokens(<<"job", t>>)
  PROVE  <<n, p>> \in executed
<1> DEFINE i == <<n, q>>
<1>1. i \in Inst /\ Prev(i) \in Inst /\ NoActor \notin Inst
  BY Instances DEF Inst, GraphParameters
<1>2. CASE i \in blocked
  <2> SUFFICES ASSUME <<n, p>> \notin executed PROVE FALSE
    OBVIOUS
  <2>1. behind[Prev(i)] = i
    BY <1>2 DEF TurnInv, BlockedInOrder
  <2>2. Parked(i)
    BY <1>1, <2>1 DEF Parked
  <2> QED
    BY <1>1, <2>2, ParkedPlace DEF Inv
<1>3. CASE i \notin blocked
  <2>2. PICK s \in Pipe : Prev(i) = <<n, s>> /\ Before(s, q) /\ (s = p \/ Before(p, s))
    BY JustBefore
  <2>3. <<n, s>> \in executed
    <3>1. <<n, s>> \notin blocked
      BY <1>3, <2>2 DEF IsPrevPipeNodeBlocked
    <3> QED
      BY <2>2, <3>1, HeadInOrder
  <2> QED
    BY <2>2, <2>3 DEF TurnInv, ExecutedInOrder
<1> QED
  BY <1>2, <1>3

\* A target begins to acquire for a node, whose earlier runs are executed.
LEMMA AcquireTurn ==
  ASSUME Inv, Inv', GraphParameters, RunsNumbered, TurnInv, NEW t \in Target, TakeJob(t),
         NEW n \in Node, NEW q \in Pipe, Head(jobQ[t]) = <<n, q>>, TargetOf[n] = t,
         <<n, q>> \in Tokens(<<"job", t>>), ~IsPrevPipeNodeBlocked(<<n, q>>),
         blocked' = blocked \ {<<n, q>>}, behind' = behind,
         TaskIs(t, "acquire", <<n, q>>, 1, <<>>, <<>>, NoActor),
         \A u \in Target \ {t} : jobQ'[u] = jobQ[u]
  PROVE  TurnInv'
<1> DEFINE i == <<n, q>>
<1>1. i \in Inst /\ JobsTyped /\ NoActor \notin Inst /\ task[t].at = "idle" /\ jobQ[t] # <<>>
  BY DEF Inst, Inv, Detail, Typed, GraphParameters, TakeJob
<1>2. SameRuns /\ UNCHANGED <<executed, waiting, retrigger>>
  BY DEF TakeJob, SameRuns, controlVars, descVars, countVars, queueVars, userVars
<1>3. \A a, b \in Pipe : Before(a, b)' <=> Before(a, b)
  BY <1>2, RunsSame
<1>4. \A m \in Node : TargetOf[m] \in Target
  BY DEF GraphParameters
<1>5. ASSUME NEW m \in Node, NEW a \in Pipe
      PROVE  /\ Over(m, a)' <=> Over(m, a)
             /\ Acquiring(m, a)' <=> Acquiring(m, a) \/ <<m, a>> = i
  <2>1. CASE TargetOf[m] = t
    BY <1>1, <2>1 DEF TaskIs, Over, Releasing, Acquiring, OnTask
  <2>2. CASE TargetOf[m] # t
    BY <1>4, <2>2 DEF TaskIs, Over, Releasing, Acquiring, OnTask
  <2> QED
    BY <2>1, <2>2
<1>6. ExecutedInOrder' /\ OverInOrder'
  BY <1>2, <1>3, <1>5 DEF TurnInv, ExecutedInOrder, OverInOrder
<1>7. AcquireInOrder'
  <2> SUFFICES ASSUME NEW m \in Node, NEW a \in Pipe, NEW b \in Pipe, Before(a, b),
                      Acquiring(m, b)'
               PROVE  <<m, a>> \in executed
    BY <1>2, <1>3 DEF AcquireInOrder
  <2>1. CASE <<m, b>> = i
    BY <1>1, <2>1, AcquiresInOrder
  <2>2. CASE <<m, b>> # i
    BY <1>5, <2>2 DEF TurnInv, AcquireInOrder
  <2> QED
    BY <2>1, <2>2
<1>8. ParkedBlocked'
  <2> SUFFICES ASSUME NEW x \in Inst, Parked(x)' PROVE x \in blocked /\ x # i
    BY DEF ParkedBlocked
  <2>1. ASSUME NEW u \in Target, x \in Range(task'[u].wake) \/ x = task'[u].after
        PROVE  x \in Range(task[u].wake) \/ x = task[u].after
    BY <1>1, <2>1, Empty DEF TaskIs
  <2>2. Parked(x)
    BY <1>2, <2>1 DEF Parked
  <2>3. x # i
    BY <1>1, <2>2, ParkedPlace DEF Inv
  <2> QED
    BY <2>2, <2>3 DEF TurnInv, ParkedBlocked
<1>9. BlockedInOrder'
  BY <1>2, <1>3, <1>5 DEF TurnInv, BlockedInOrder
<1>10. JobsInOrder'
  <2>1. jobQ'[t] = Tail(jobQ[t]) /\ JobsInOrder
    BY <1>1 DEF TakeJob, JobsTyped, TurnInv
  <2>2. \A m \in Node, a \in Pipe :
           <<m, a>> \in blocked \/ Acquiring(m, a) \/ <<m, a>> = Head(jobQ[t]) =>
              <<m, a>> \in blocked' \/ Acquiring(m, a)'
    BY <1>5
  <2> QED
    BY <1>1, <1>2, <1>3, <2>1, <2>2, JobsMoveUp
<1> QED
  BY <1>6, <1>7, <1>8, <1>9, <1>10 DEF TurnInv

\* A target takes a job: it blocks the node or begins with it.
LEMMA TakeTurn ==
  ASSUME Inv, Inv', GraphParameters, RunsNumbered, TurnInv, NEW t \in Target, TakeJob(t)
  PROVE  TurnInv' /\ SameRuns /\ jobQ'[Host] = jobQ[Host] /\ SameReleasing
<1>1. PICK i \in Inst :
            /\ i = Head(jobQ[t]) /\ TargetOf[i[1]] = t /\ Due(i)
            /\ i \in Tokens(<<"job", t>>) /\ jobQ'[Host] = jobQ[Host]
            /\ \A u \in Target \ {t} : jobQ'[u] = jobQ[u]
  <2>1. Detail /\ jobQ[t] # <<>> /\ jobQ' = [jobQ EXCEPT ![t] = Tail(@)]
    BY DEF TakeJob, Inv
  <2> QED
    BY <2>1, JobTaken
<1>2. PICK n \in Node, q \in Pipe : i = <<n, q>>
  BY DEF Inst
<1>3. i \notin executed /\ TargetOf[n] = t
  BY <1>1, <1>2 DEF Due
<1>4. SameRuns
  BY DEF TakeJob, SameRuns, controlVars, descVars, countVars
<1>5. CASE IsPrevPipeNodeBlocked(i)
  <2>1. /\ i \notin blocked /\ blocked' = blocked \cup {i} /\ task' = task
        /\ behind' = [behind EXCEPT ![Prev(i)] = i]
    BY <1>1, <1>3, <1>5 DEF TakeJob, IsPrevPipeNodeBlocked
  <2>2. TurnInv'
    BY <1>1, <1>2, <1>3, <2>1, BehindTurn
  <2> QED
    BY <1>1, <1>4, <2>1, <2>2, TaskSame
<1>6. CASE ~IsPrevPipeNodeBlocked(i)
  <2>1. /\ blocked' = blocked \ {i} /\ behind' = behind /\ task[t].at = "idle"
        /\ task' = [task EXCEPT ![t] = [Idle EXCEPT !.at = "acquire", !.inst = i, !.k = 1]]
    BY <1>1, <1>3, <1>6 DEF TakeJob
  <2>2. TaskIs(t, "acquire", i, 1, <<>>, <<>>, NoActor)
    <3>1. TasksTyped
      BY DEF Inv, Detail, Typed
    <3> QED
      BY <1>1, <2>1, <3>1, TaskSteps
  <2>3. TurnInv'
    BY <1>1, <1>2, <1>3, <1>6, <2>1, <2>2, AcquireTurn
  <2>4. SameReleasing
    BY <2>1, <2>2, WorkSame DEF TaskIs, Others, Early
  <2> QED
    BY <1>1, <1>4, <2>3, <2>4
<1> QED
  BY <1>5, <1>6

\* A node is blocked in its turn: those of earlier runs were executed.
LEMMA BlocksTurn ==
  ASSUME Inv, Inv', GraphParameters, TurnInv, NEW t \in Target, AcquireBlocks(t)
  PROVE  TurnInv' /\ SameRuns /\ jobQ'[Host] = jobQ[Host] /\ SameReleasing
<1>0. Detail /\ task[t].at = "acquire" /\ TasksTyped /\ NoActor \notin Inst
  BY DEF Inv, Detail, Typed, AcquireBlocks, AtParam, GraphParameters
<1>1. PICK n \in Node, q \in Pipe :
            /\ task[t].inst = <<n, q>> /\ TargetOf[n] = t /\ Params[n] \in Seq(Data)
            /\ task[t].k \in DOMAIN Params[n] /\ Param(t) = Params[n][task[t].k]
  <2>1. PICK n \in Node, q \in Pipe :
            task[t].inst = <<n, q>> /\ TargetOf[n] = t /\ Params[n] \in Seq(Data)
    BY <1>0, AcquiresFor
  <2> QED
    BY <2>1 DEF AcquireBlocks, AtParam, InstOf, Param
<1> DEFINE i == <<n, q>>
           d == Param(t)
<1>2. i \in Inst /\ d \in Data /\ waiting \in [Data -> Seq(Inst)]
  BY <1>0, <1>1 DEF Inst, Detail, Typed, QueuesTyped
<1>3. /\ waiting' = [waiting EXCEPT ![d] = Append(@, i)] /\ blocked' = blocked \cup {i}
      /\ task' = [task EXCEPT ![t] = Idle]
      /\ UNCHANGED <<executed, behind, retrigger, jobQ>> /\ SameRuns
  BY <1>1 DEF AcquireBlocks, InstOf, SameRuns, controlVars, descVars, countVars, userVars
<1> HIDE DEF d
<1>4. TaskIs(t, "idle", NoActor, 0, <<>>, <<>>, NoActor)
  BY <1>0, <1>3, TaskSteps
<1>5. \A a, b \in Pipe : Before(a, b)' <=> Before(a, b)
  BY <1>3, RunsSame
<1>6. ASSUME NEW m \in Node, NEW a \in Pipe
      PROVE  /\ Over(m, a)' <=> Over(m, a)
             /\ Acquiring(m, a) <=> Acquiring(m, a)' \/ <<m, a>> = i
  <2>0. TargetOf[m] \in Target
    BY DEF GraphParameters
  <2>1. CASE TargetOf[m] = t
    BY <1>0, <1>1, <1>4, <2>1 DEF TaskIs, Over, Releasing, Acquiring, OnTask
  <2>2. CASE TargetOf[m] # t
    BY <1>1, <1>4, <2>0, <2>2 DEF TaskIs, Over, Releasing, Acquiring, OnTask
  <2> QED
    BY <2>1, <2>2
<1>7. ExecutedInOrder' /\ OverInOrder' /\ AcquireInOrder'
  BY <1>3, <1>5, <1>6 DEF TurnInv, ExecutedInOrder, OverInOrder, AcquireInOrder
<1>8. ParkedBlocked'
  <2> SUFFICES ASSUME NEW x \in Inst, Parked(x)', x # i PROVE x \in blocked
    BY <1>3 DEF ParkedBlocked
  <2>1. ASSUME NEW u \in Target, x \in Range(task'[u].wake) \/ x = task'[u].after
        PROVE  x \in Range(task[u].wake) \/ x = task[u].after
    BY <1>0, <1>4, <2>1, Empty DEF TaskIs
  <2>2. ASSUME NEW e \in Data, x \in Range(waiting'[e]) PROVE x \in Range(waiting[e])
    <3>1. CASE e = d
      <4>1. waiting'[d] = Append(waiting[d], i) /\ waiting[d] \in Seq(Inst)
        BY <1>2, <1>3
      <4>2. Range(Append(waiting[d], i)) = Range(waiting[d]) \cup {i}
        <5>1. i \in Inst /\ waiting[d] \in Seq(Inst)
          BY <1>2, <4>1
        <5> QED
          BY ONLY <5>1, Appended
      <4> QED
        BY <2>2, <3>1, <4>1, <4>2
    <3>2. CASE e # d
      <4>1. waiting'[e] = waiting[e]
        BY <1>2, <1>3, <3>2
      <4> QED
        BY <2>2, <4>1
    <3> QED
      BY <3>1, <3>2
  <2>3. Parked(x)
    BY <1>3, <2>1, <2>2 DEF Parked
  <2> QED
    BY <2>3 DEF TurnInv, ParkedBlocked
<1>9. BlockedInOrder'
  <2> SUFFICES ASSUME NEW m \in Node, NEW a \in Pipe, NEW b \in Pipe, Before(a, b),
                      <<m, b>> \in blocked', <<m, a>> \notin executed
               PROVE  /\ <<m, a>> \in blocked' \/ Acquiring(m, a)'
                      /\ behind[Prev(<<m, b>>)] = <<m, b>>
    BY <1>3, <1>5 DEF BlockedInOrder
  <2>1. <<m, b>> # i
    BY <1>6 DEF TurnInv, AcquireInOrder
  <2>2. <<m, b>> \in blocked
    BY <1>3, <2>1
  <2> QED
    BY <1>3, <1>6, <2>2 DEF TurnInv, BlockedInOrder
<1>10. JobsInOrder'
  <2>1. ASSUME NEW m \in Node, NEW a \in Pipe, NEW j, JobInOrder(m, a, j)
        PROVE  JobInOrder(m, a, j)'
    BY <1>3, <1>6, <2>1 DEF JobInOrder, Ahead
  <2> QED
    BY <1>3, <1>5, <2>1 DEF TurnInv, JobsInOrder
<1>11. SameReleasing
  BY <1>0, <1>4, WorkSame DEF TaskIs, Others, Early
<1> QED
  BY <1>3, <1>7, <1>8, <1>9, <1>10, <1>11 DEF TurnInv

\* A node is executed in its turn.
LEMMA ExecuteTurn ==
  ASSUME Inv, Inv', GraphParameters, RunsNumbered, TurnInv, NEW t \in Target, NEW n \in Node,
         NEW q \in Pipe, NEW b0 \in Inst \cup {NoActor}, task[t].at = "acquire",
         task[t].inst = <<n, q>>, TargetOf[n] = t, task[t].wake = <<>>,
         <<n, q>> \notin executed, <<n, q>> \in Tokens(<<"acquire", t>>), b0 = behind[<<n, q>>],
         executed' = executed \cup {<<n, q>>}, blocked' = blocked \ {<<n, q>>},
         behind' = [behind EXCEPT ![<<n, q>>] = NoActor],
         TaskIs(t, "release", <<n, q>>, 1, task[t].prm, <<>>, b0),
         SameRuns, UNCHANGED <<jobQ, waiting, retrigger>>
  PROVE  TurnInv'
<1> DEFINE i == <<n, q>>
<1>1. i \in Inst /\ NoActor \notin Inst /\ behind \in [Inst -> Inst \cup {NoActor}] /\ Detail
  BY DEF Inst, GraphParameters, Inv, Detail, Typed, NodesTyped
<1>2. \A a, b \in Pipe : Before(a, b)' <=> Before(a, b)
  BY RunsSame
<1>3. ASSUME NEW m \in Node, NEW a \in Pipe
      PROVE  /\ Over(m, a)' <=> Over(m, a) \/ <<m, a>> = i
             /\ Acquiring(m, a) <=> Acquiring(m, a)' \/ <<m, a>> = i
             /\ Over(m, a) => m # n
  <2>0. TargetOf[m] \in Target
    BY DEF GraphParameters
  <2>1. CASE TargetOf[m] = t
    BY <2>1 DEF TaskIs, Over, Releasing, Acquiring, OnTask
  <2>2. CASE TargetOf[m] # t
    BY <2>0, <2>2 DEF TaskIs, Over, Releasing, Acquiring, OnTask
  <2> QED
    BY <2>1, <2>2
<1>4. \A a \in Pipe : Before(a, q) => <<n, a>> \in executed
  BY <1>3 DEF TurnInv, AcquireInOrder
<1>5. ExecutedInOrder' /\ AcquireInOrder'
  BY <1>2, <1>3, <1>4 DEF TurnInv, ExecutedInOrder, AcquireInOrder
<1>6. OverInOrder'
  <2> SUFFICES ASSUME NEW m \in Node, NEW a \in Pipe, NEW b \in Pipe, Before(a, b),
                      Over(m, a)', <<m, b>> \in executed'
               PROVE  FALSE
    BY <1>2 DEF OverInOrder
  <2>1. CASE <<m, a>> = i
    <3>1. <<n, b>> \in executed
      BY <2>1, NotBeforeItself
    <3> QED
      BY <2>1, <3>1 DEF TurnInv, ExecutedInOrder
  <2>2. CASE <<m, a>> # i
    <3>1. Over(m, a) /\ m # n
      BY <1>3, <2>2
    <3>2. <<m, b>> \in executed
      BY <3>1
    <3> QED
      BY <3>1, <3>2 DEF TurnInv, OverInOrder
  <2> QED
    BY <2>1, <2>2
<1>7. ParkedBlocked'
  <2> SUFFICES ASSUME NEW x \in Inst, Parked(x)' PROVE x \in blocked /\ x # i
    BY DEF ParkedBlocked
  <2>1. ASSUME NEW u \in Target, x \in Range(task'[u].wake) \/ x = task'[u].after
        PROVE  Parked(x)
    <3>1. CASE u = t
      <4>1. x = behind[i]
        BY <2>1, <3>1, Empty DEF TaskIs
      <4> QED
        BY <1>1, <4>1 DEF Parked
    <3>2. CASE u # t
      BY <2>1, <3>2 DEF TaskIs, Parked
    <3> QED
      BY <3>1, <3>2
  <2>2. ASSUME NEW j \in Inst, behind'[j] = x PROVE behind[j] = x
    BY <1>1, <2>2
  <2>3. Parked(x)
    BY <2>1, <2>2 DEF Parked
  <2>4. x # i
    BY <1>1, <2>3, ParkedPlace
  <2> QED
    BY <2>3, <2>4 DEF TurnInv, ParkedBlocked
<1>8. BlockedInOrder'
  <2> SUFFICES ASSUME NEW m \in Node, NEW a \in Pipe, NEW b \in Pipe, Before(a, b),
                      <<m, b>> \in blocked', <<m, a>> \notin executed'
               PROVE  /\ <<m, a>> \in blocked' \/ Acquiring(m, a)'
                      /\ behind'[Prev(<<m, b>>)] = <<m, b>>
    BY <1>2 DEF BlockedInOrder
  <2>1. <<m, a>> # i /\ <<m, a>> \notin executed /\ <<m, b>> \in Inst
    BY DEF Inst
  <2>2. /\ <<m, a>> \in blocked \/ Acquiring(m, a)
        /\ behind[Prev(<<m, b>>)] = <<m, b>>
    BY <2>1 DEF TurnInv, BlockedInOrder
  <2>3. Prev(<<m, b>>) # i
    <3> SUFFICES ASSUME Prev(<<m, b>>) = i PROVE FALSE
      OBVIOUS
    <3>1. PICK r \in Pipe : Prev(<<m, b>>) = <<m, r>> /\ (r = a \/ Before(a, r))
      BY JustBefore
    <3>2. m = n /\ r = q
      BY <3>1
    <3>3. Before(a, q)
      BY <2>1, <3>1, <3>2
    <3> QED
      BY <1>4, <2>1, <3>2, <3>3
  <2>4. Prev(<<m, b>>) \in Inst
    BY <2>1, Instances
  <2>5. behind'[Prev(<<m, b>>)] = <<m, b>>
    BY <1>1, <2>2, <2>3, <2>4
  <2> QED
    BY <1>3, <2>1, <2>2, <2>5
<1>9. JobsInOrder'
  <2>1. ASSUME NEW m \in Node, NEW a \in Pipe, NEW j, JobInOrder(m, a, j)
        PROVE  JobInOrder(m, a, j)'
    <3>1. CASE <<m, a>> = i
      BY <3>1 DEF JobInOrder
    <3>2. CASE <<m, a>> # i
      BY <1>3, <2>1, <3>2 DEF JobInOrder, Ahead
    <3> QED
      BY <3>1, <3>2
  <2> QED
    BY <1>2, <2>1 DEF TurnInv, JobsInOrder
<1> QED
  BY <1>5, <1>6, <1>7, <1>8, <1>9 DEF TurnInv

-----------------------------------------------------------------------------
(* Runs begin and complete                                                  *)

\* A run that is submitted is the last.
LEMMA RunSubmitted ==
  ASSUME Inv, GraphParameters, FreeInOrder, NEW p, SubmitRun(p)
  PROVE  /\ p \in Pipe /\ p \notin InRun /\ InRun' = InRun \cup {p} /\ done' = done
         /\ submitted' = submitted + 1 /\ RunOf(p) = done + submitted + 1
         /\ \A q \in Pipe : RunOf(q)' = RunOf(q)
         /\ \A a, b \in Pipe : Before(a, b)' => a \in InRun /\ a # p /\ (b = p \/ Before(a, b))
         /\ FreeInOrder' /\ verified' = verified
<1>1. SubmitControl(p)
  BY DEF SubmitRun
<1>2. p \in Pipe /\ p \notin InRun /\ InRun' = InRun \cup {p} /\ verified # 0 /\ verified' = verified
  BY <1>1, RunBegins
<1>3. /\ freeQ # <<>> /\ p = Head(freeQ) /\ freeQ' = Tail(freeQ) /\ done' = done
      /\ submitted' = submitted + 1
  BY <1>1 DEF SubmitControl, countVars
<1>4. done \in Nat /\ submitted \in Nat /\ freeQ \in Seq(Pipe)
  BY Counts
<1>5. \A q \in Pipe : RunOf(q)' = RunOf(q)
  BY <1>3 DEF RunOf, First
<1>6. /\ 1 \in DOMAIN freeQ /\ freeQ[1] = p /\ Tail(freeQ) \in Seq(Pipe)
      /\ Len(Tail(freeQ)) = Len(freeQ) - 1 /\ Len(freeQ) \in Nat
      /\ \A j \in 1 .. Len(freeQ) - 1 : Tail(freeQ)[j] = freeQ[j + 1]
  BY <1>3, <1>4, Taken, ListOf
<1>7. RunOf(p) = done + submitted + 1
  BY <1>6 DEF FreeInOrder
<1>8. RunsNumbered /\ \A q \in Pipe : RunOf(q) \in Int
  BY <1>4, NumberedRuns, Numbers
<1>9. ASSUME NEW a \in Pipe, NEW b \in Pipe, Before(a, b)'
      PROVE  a \in InRun /\ a # p /\ (b = p \/ Before(a, b))
  <2>1. RunOf(a) < RunOf(b) /\ a \in InRun' /\ b \in InRun'
    BY <1>5, <1>9 DEF Before
  <2>2. b \in InRun => RunOf(b) <= done + submitted
    BY <1>8 DEF RunsNumbered
  <2>3. a # p
    BY <1>2, <1>4, <1>7, <1>8, <2>1, <2>2
  <2> QED
    BY <1>2, <2>1, <2>3 DEF Before
<1>10. FreeInOrder'
  <2>2. ASSUME NEW j \in DOMAIN freeQ' PROVE RunOf(freeQ[j])' = done' + submitted' + j
    <3>1. j \in 1 .. Len(freeQ) - 1 /\ j + 1 \in DOMAIN freeQ /\ j \in Nat
      BY <1>3, <1>4, <1>6
    <3>2. PICK q \in Pipe : q = freeQ'[j] /\ q = freeQ[j + 1]
      BY <1>3, <1>4, <1>6, <3>1
    <3>3. RunOf(q) = done + submitted + (j + 1)
      BY <3>1, <3>2 DEF FreeInOrder
    <3>4. RunOf(freeQ[j])' = RunOf(q)'
      BY <3>2 DEF RunOf
    <3> QED
      BY <1>3, <1>4, <1>5, <3>1, <3>3, <3>4
  <2>3. verified' = 0 => done' = 0
    BY <1>2
  <2> QED
    BY <2>2, <2>3 DEF FreeInOrder
<1> QED
  BY <1>2, <1>3, <1>5, <1>7, <1>9, <1>10

\* The nodes of a new run are behind those of the others in the job queues.
LEMMA SubmitTurn ==
  ASSUME Inv, Inv', GraphParameters, FreeInOrder, TurnInv, NEW p, SubmitRun(p)
  PROVE  TurnInv'
<1>0. Detail /\ JobsTyped
  BY DEF Inv, Detail, Typed
<1>1. /\ p \in Pipe /\ p \notin InRun /\ InRun' = InRun \cup {p}
      /\ \A a, b \in Pipe : Before(a, b)' => a \in InRun /\ a # p /\ (b = p \/ Before(a, b))
  BY RunSubmitted
<1>2. UNCHANGED <<task, blocked, behind, waiting, retrigger>> /\ executed' = ClearState(p)
  BY DEF SubmitRun, queueVars, userVars
<1>3. \A n \in Node, q \in Pipe : <<n, q>> \in executed' <=> <<n, q>> \in executed /\ q # p
  BY <1>0, <1>1, <1>2, HeadsDue
<1>4. \A n \in Node, q \in Pipe : /\ Over(n, q)' <=> Over(n, q)
                                  /\ Acquiring(n, q)' <=> Acquiring(n, q)
  BY <1>2 DEF Over, Releasing, Acquiring, OnTask
<1>5. ASSUME NEW n \in Node PROVE <<n, p>> \notin blocked /\ ~Acquiring(n, p)
  <2>1. ~Due(<<n, p>>)
    BY <1>1 DEF Due
  <2>2. TargetOf[n] \in Target
    BY DEF GraphParameters
  <2>3. ASSUME Acquiring(n, p) PROVE FALSE
    <3>1. task[TargetOf[n]].at = "acquire" /\ task[TargetOf[n]].inst = <<n, p>>
      BY <2>3 DEF Acquiring, OnTask
    <3>2. PICK m \in Node, q \in Pipe : task[TargetOf[n]].inst = <<m, q>> /\ Due(<<m, q>>)
      BY <1>0, <2>2, <3>1, AcquiresFor
    <3> QED
      BY <2>1, <3>1, <3>2
  <2> QED
    BY <1>0, <2>1, <2>3 DEF Detail, BlockedInv
<1>6. ExecutedInOrder' /\ OverInOrder'
  BY <1>1, <1>3, <1>4 DEF TurnInv, ExecutedInOrder, OverInOrder
<1>7. AcquireInOrder' /\ BlockedInOrder'
  BY <1>1, <1>2, <1>3, <1>4, <1>5 DEF TurnInv, AcquireInOrder, BlockedInOrder
<1>8. ParkedBlocked'
  BY <1>2 DEF TurnInv, ParkedBlocked, Parked
<1>9. DueInOrder' /\ WhereDue'
  BY <1>6, <1>8, DueAfter
<1>10. JobsInOrder'
  <2> SUFFICES ASSUME NEW n \in Node, NEW a \in Pipe, NEW b \in Pipe,
                      NEW j \in DOMAIN jobQ'[TargetOf[n]],
                      Before(a, b)', jobQ'[TargetOf[n]][j] = <<n, b>>
               PROVE  JobInOrder(n, a, j)'
    BY DEF JobsInOrder
  <2> DEFINE t == TargetOf[n]
             s == [h \in DOMAIN HeadNodes[t] |-> <<HeadNodes[t][h], p>>]
  <2>1. /\ t \in Target /\ t # Host /\ jobQ[t] \in Seq(Inst) /\ HeadNodes[t] \in Seq(Node)
        /\ DOMAIN jobQ = Target \cup {Host}
    BY <1>0, GraphAssumption DEF GraphParameters, JobsTyped
  <2>2. jobQ'[t] = jobQ[t] \o s
    BY <2>1 DEF SubmitRun
  <2>3. s \in Seq(Inst) /\ \A h \in DOMAIN s : s[h][2] = p
    BY <1>1, <2>1 DEF Inst
  <2> HIDE DEF s
  <2>4. /\ DOMAIN jobQ[t] \subseteq DOMAIN jobQ'[t] /\ DOMAIN jobQ[t] = 1 .. Len(jobQ[t])
        /\ \A h \in DOMAIN jobQ[t] : jobQ'[t][h] = jobQ[t][h]
        /\ DOMAIN jobQ'[t] \subseteq Nat \ {0} /\ Len(jobQ[t]) \in Nat
    BY <2>1, <2>2, <2>3
  <2>5. ASSUME NEW h \in DOMAIN jobQ'[t], h \notin DOMAIN jobQ[t] PROVE jobQ'[t][h][2] = p
    <3>1. h - Len(jobQ[t]) \in DOMAIN s /\ jobQ'[t][h] = s[h - Len(jobQ[t])]
      BY <2>1, <2>2, <2>3, <2>5
    <3> QED
      BY <2>3, <3>1
  <2>6. ASSUME NEW h \in DOMAIN jobQ[t] PROVE jobQ[t][h][2] # p
    <3>1. jobQ[t][h] \in Tokens(<<"job", t>>) /\ <<"job", t>> \in Place /\ jobQ[t][h] \in Inst
      <4>1. jobQ[t][h] \in Range(jobQ[t])
        BY <2>6 DEF Range
      <4> QED
        BY <2>1, <4>1, TokensOf, Places, ListOf
    <3>2. Due(jobQ[t][h])
      BY <1>0, <3>1 DEF Detail, DueInv, Somewhere
    <3> QED
      BY <1>1, <3>2 DEF Due
  <2>7. CASE j \in DOMAIN jobQ[t]
    <3>1. jobQ[t][j] = <<n, b>> /\ b # p
      BY <2>4, <2>6, <2>7
    <3>2. JobInOrder(n, a, j)
      BY <1>1, <2>7, <3>1 DEF TurnInv, JobsInOrder
    <3>3. Ahead(t, j, <<n, a>>) => Ahead(t, j, <<n, a>>)'
      BY <2>4 DEF Ahead
    <3> QED
      BY <1>1, <1>2, <1>3, <1>4, <3>2, <3>3 DEF JobInOrder
  <2>8. CASE j \notin DOMAIN jobQ[t]
    <3>1. <<n, b>> \in Range(jobQ'[t]) /\ a # p
      BY <1>1 DEF Range
    <3>2. \/ <<n, a>> \in executed' \/ <<n, a>> \in blocked' \/ Acquiring(n, a)'
          \/ <<n, a>> \in Range(jobQ'[t])
      BY <1>9, <3>1, JobBehind
    <3>3. ASSUME <<n, a>> \in Range(jobQ'[t]) PROVE Ahead(t, j, <<n, a>>)'
      <4>1. PICK h \in DOMAIN jobQ'[t] : jobQ'[t][h] = <<n, a>>
        BY <3>3 DEF Range
      <4>2. h \in DOMAIN jobQ[t]
        BY <2>5, <3>1, <4>1
      <4>3. h < j
        BY <2>4, <2>8, <4>2
      <4> QED
        BY <4>1, <4>3 DEF Ahead
    <3> QED
      BY <3>2, <3>3 DEF JobInOrder
  <2> QED
    BY <2>7, <2>8
<1> QED
  BY <1>6, <1>7, <1>8, <1>10 DEF TurnInv

\* The run that is found complete has no other leaf node left, and no data.
LEMMA LastLeaf ==
  ASSUME Inv, GraphParameters, NEW n \in Leaf, NEW p \in Pipe, NEW ab,
         Head(jobQ[Host]) = <<"complete", <<n, p>>>>, HostTakes("complete"),
         CompleteControl(p, ab)
  PROVE  /\ LeafTodo[p] = {n} /\ p \in InRun /\ 1 \in DOMAIN jobQ[Host] /\ Reported(1, n, p)
         /\ \A x \in Node : <<x, p>> \in executed /\ ~Releasing(x, p)
         /\ \A d \in Data : held[<<d, p>>] = NoRef
<1>1. /\ jobQ[Host] # <<>> /\ jobQ' = [jobQ EXCEPT ![Host] = Tail(@)]
      /\ Head(jobQ[Host])[1] = "complete" /\ Detail
  BY DEF HostTakes, Inv
<1>2. /\ p \in InRun /\ <<n, p>> \in executed /\ ~Releasing(n, p) /\ n \in LeafTodo[p]
  <2>1. PICK l \in Node, q \in Pipe :
            /\ Head(jobQ[Host]) = <<"complete", <<l, q>>>>
            /\ q \in InRun /\ <<l, q>> \in executed /\ ~Releasing(l, q)
            /\ l \in Leaf => l \in LeafTodo[q]
    BY <1>1, ReportTaken
  <2>2. l = n /\ q = p
    BY <2>1
  <2> QED
    BY <2>1, <2>2
<1>3. LeafTodo[p] = {n}
  <2>1. leafDone[p] = Cardinality(Leaf \ LeafTodo[p])
    <3>1. p \in GSP!Pipe
      BY DEF Pipe, GSP!Pipe
    <3> QED
      BY <1>2, <3>1, CountedAlike DEF Inv, GSP!IInv, GSP!LeavesCounted
  <2>2. leafDone[p] + 1 = Cardinality(Leaf)
    BY DEF CompleteControl
  <2>3. LeafTodo[p] \subseteq Leaf
    BY DEF LeafTodo
  <2> DEFINE R == Leaf \ LeafTodo[p]
  <2>4. IsFiniteSet(R) /\ IsFiniteSet(R \cup {n}) /\ IsFiniteSet(Leaf)
    BY LeafAssumption, FS_Subset, FS_AddElement
  <2>5. Cardinality(R \cup {n}) = Cardinality(R) + 1
    BY <1>2, <2>4, FS_AddElement
  <2>6. R \cup {n} \subseteq Leaf /\ Cardinality(R \cup {n}) = Cardinality(Leaf)
    BY <2>1, <2>2, <2>5
  <2>7. R \cup {n} = Leaf
    BY <2>4, <2>6, FS_Subset
  <2> QED
    BY <1>2, <2>3, <2>7
<1>4. 1 \in DOMAIN jobQ[Host] /\ Reported(1, n, p)
  BY <1>1, MessagesOf DEF Detail, Typed, Reported
<1> QED
  BY <1>2, <1>3, <1>4, RunOver

\* Runs complete in the order in which they were submitted: when the last leaf node of one
\* is reported, those of the runs before it were.
LEMMA CompletesInOrder ==
  ASSUME Inv, GraphParameters, RunsNumbered, TurnInv, ReportsInOrder, NEW n \in Leaf,
         NEW p \in Pipe, LeafTodo[p] = {n}, p \in InRun, 1 \in DOMAIN jobQ[Host],
         Reported(1, n, p), \A x \in Node : <<x, p>> \in executed /\ ~Releasing(x, p)
  PROVE  RunOf(p) = done + 1
<1> SUFFICES ASSUME RunOf(p) # done + 1 PROVE FALSE
  OBVIOUS
<1>1. /\ done \in Nat /\ submitted \in Nat /\ RunOf(p) \in done + 1 .. done + Depth
      /\ RunOf(p) <= done + submitted
  BY Counts, Numbers DEF RunsNumbered
<1>2. PICK q \in Pipe : RunOf(q) = done + 1
  <2>1. done + 1 \in done + 1 .. done + Depth
    BY <1>1, DepthAssumption
  <2> QED
    BY <1>1, <2>1, Numbers
<1>3. q \in InRun /\ Before(q, p)
  BY <1>1, <1>2 DEF RunsNumbered, Before
<1>4. PICK l \in Leaf : Incomplete(l, q)
  BY <1>3, Counts DEF LeafTodo
<1>5. l \in Node /\ <<l, p>> \in executed /\ ~Releasing(l, p)
  BY GraphAssumption
<1>6. <<l, q>> \in executed
  BY <1>3, <1>5 DEF TurnInv, ExecutedInOrder
<1>7. ~Releasing(l, q)
  BY <1>3, <1>5 DEF TurnInv, OverInOrder, Over
<1>8. <<"complete", <<l, q>>>> \in Range(jobQ[Host])
  BY <1>4, <1>6, <1>7 DEF Incomplete
<1>9. PICK h \in DOMAIN jobQ[Host] : Reported(h, l, q)
  BY <1>8 DEF Range, Reported
<1>10. ReportedAfter(h, l, p)
  BY <1>3, <1>5, <1>9 DEF ReportsInOrder
<1>11. PICK j \in DOMAIN jobQ[Host] : h < j /\ Reported(j, l, p)
  BY <1>10 DEF ReportedAfter
<1>12. l = n
  <2>1. <<"complete", <<l, p>>>> \in Range(jobQ[Host])
    BY <1>11 DEF Reported, Range
  <2>2. l \in LeafTodo[p]
    BY <2>1 DEF LeafTodo, Incomplete
  <2> QED
    BY <2>2
<1>13. j = 1
  BY <1>5, <1>11, <1>12 DEF Inv, Detail, HostInv
<1>14. DOMAIN jobQ[Host] \subseteq Nat \ {0}
  <2>1. jobQ[Host] \in Seq(HostJob)
    BY DEF Inv, Detail, Typed, JobsTyped
  <2> QED
    BY <2>1, ListOf
<1> QED
  BY <1>11, <1>13, <1>14

\* Its instance is free again, behind the others.
LEMMA RunCompleted ==
  ASSUME Inv, FreeInOrder, NEW p \in Pipe, NEW ab, CompleteControl(p, ab), p \in InRun,
         RunOf(p) = done + 1
  PROVE  /\ InRun' = InRun \ {p} /\ done' = done + 1 /\ submitted' = submitted - 1
         /\ submitted >= 1 /\ enqueued' = enqueued
         /\ \A q \in InRun' : RunOf(q)' = RunOf(q)
         /\ \A a, b \in Pipe : Before(a, b)' => Before(a, b)
         /\ FreeInOrder'
<1>1. /\ done \in Nat /\ submitted \in Nat /\ Depth \in Nat \ {0} /\ freeQ \in Seq(Pipe)
      /\ verified # 0 /\ Len(freeQ) + submitted = Depth /\ Len(freeQ) \in Nat
  <2>1. verified # 0
    BY DEF InRun
  <2> QED
    BY <2>1, Counts
<1>2. RunsNumbered /\ \A q \in Pipe : RunOf(q) \in Int
  BY <1>1, NumberedRuns, Numbers
<1>3. submitted >= 1
  BY <1>1, <1>2 DEF RunsNumbered
<1>4. /\ done' = done + 1 /\ submitted' = submitted - 1 /\ verified' = verified
      /\ enqueued' = enqueued
  BY DEF CompleteControl
<1>5. freeQ' = Append(freeQ, p)
  BY <1>1, DepthAssumption DEF CompleteControl, EnqueueFreeObjDesc
<1>6. InRun' = InRun \ {p}
  <2>1. Range(freeQ') = Range(freeQ) \cup {p}
    BY <1>1, <1>5, Appended
  <2> QED
    BY <1>1, <1>4, <2>1 DEF InRun
<1>7. \A q \in Pipe : RunOf(q)' = IF RunOf(q) = done + 1 THEN done + 1 + Depth ELSE RunOf(q)
  BY <1>1, <1>4, NextNumbers
<1>8. \A q \in Pipe : RunOf(q) = done + 1 <=> q = p
  BY <1>1, Numbers
<1>9. InRun \subseteq Pipe
  BY DEF InRun
<1>10. \A q \in InRun' : RunOf(q)' = RunOf(q)
  BY <1>6, <1>7, <1>8, <1>9
<1>11. \A a, b \in Pipe : Before(a, b)' => Before(a, b)
  BY <1>6, <1>10 DEF Before
<1>12. FreeInOrder'
  <2>1. ASSUME NEW j \in DOMAIN freeQ' PROVE RunOf(freeQ[j])' = done' + submitted' + j
    <3>1. j \in 1 .. Len(freeQ) + 1
      BY <1>1, <1>5
    <3>2. CASE j = Len(freeQ) + 1
      <4>1. freeQ'[j] = p
        BY <1>1, <1>5, <3>2
      <4>2. RunOf(freeQ[j])' = RunOf(p)'
        BY <4>1 DEF RunOf
      <4>3. RunOf(p)' = done + 1 + Depth
        BY <1>7
      <4> QED
        BY <1>1, <1>4, <3>2, <4>2, <4>3
    <3>3. CASE j # Len(freeQ) + 1
      <4>1. j \in DOMAIN freeQ
        BY <1>1, <3>1, <3>3
      <4>2. PICK q \in Pipe : q = freeQ'[j] /\ q = freeQ[j]
        BY <1>1, <1>5, <3>1, <3>3, <4>1
      <4>3. RunOf(q) = done + submitted + j
        BY <4>1, <4>2 DEF FreeInOrder
      <4>4. RunOf(q)' = RunOf(q)
        BY <1>1, <1>3, <1>7, <3>1, <4>3
      <4>5. RunOf(freeQ[j])' = RunOf(q)'
        BY <4>2 DEF RunOf
      <4> QED
        BY <1>1, <1>3, <1>4, <3>1, <4>3, <4>4, <4>5
    <3> QED
      BY <3>2, <3>3
  <2> QED
    BY <1>1, <1>4, <2>1 DEF FreeInOrder
<1> QED
  BY <1>3, <1>4, <1>6, <1>10, <1>11, <1>12

\* The graph is verified: the instances are in turn.
LEMMA RunsVerified ==
  ASSUME Inv, FreeInOrder, VerifyGraph
  PROVE  /\ InRun = {} /\ InRun' = {} /\ FreeInOrder' /\ done' = done
         /\ \A a, b \in Pipe : ~Before(a, b)'
         /\ done = 0 /\ submitted = 0 /\ submitted' = submitted /\ enqueued' = enqueued
<1>1. /\ verified = 0 /\ freeQ = <<>> /\ freeQ' = PutAll(freeQ) /\ submitted = 0
      /\ submitted' = submitted /\ done' = done /\ verified' = 1 /\ enqueued' = enqueued
  BY GraphAssumption DEF VerifyGraph, VerifyControl, Inv, GSP!IInv, GSP!TypeOK, GSP!FreshInv, countVars
<1>2. done = 0
  BY <1>1 DEF FreeInOrder
<1> DEFINE ids == [i \in 1 .. Depth |-> i - 1]
<1>3. ids \in Seq(Pipe) /\ Len(ids) = Depth /\ <<>> \o ids = ids
  BY DepthAssumption DEF Pipe
<1>4. SubSeq(ids, 1, Depth) = ids
  BY <1>3, DepthAssumption
<1>5. freeQ' = ids
  BY <1>1, <1>3, <1>4, DepthAssumption DEF PutAll
<1>6. /\ \A p \in Pipe : p + 1 \in 1 .. Depth /\ ids[p + 1] = p
      /\ \A j \in 1 .. Depth : ids[j] = j - 1 /\ j - 1 \in Pipe
  BY DepthAssumption DEF Pipe
<1>7. DOMAIN ids = 1 .. Depth
  OBVIOUS
<1> HIDE DEF ids
<1>8. InRun = {} /\ InRun' = {}
  <2>1. Pipe \subseteq Range(ids)
    BY <1>6, <1>7 DEF Range
  <2> QED
    BY <1>1, <1>5, <2>1 DEF InRun
<1>9. \A a, b \in Pipe : ~Before(a, b)'
  BY <1>8 DEF Before
<1>10. FreeInOrder'
  <2>0. First' = 0
    <3>1. 0 % Depth = 0
      BY DepthAssumption
    <3> QED
      BY <1>1, <1>2, <3>1 DEF First
  <2>1. ASSUME NEW j \in DOMAIN freeQ' PROVE RunOf(freeQ[j])' = done' + submitted' + j
    <3>1. j \in 1 .. Depth /\ freeQ'[j] = j - 1 /\ j - 1 >= 0
      BY <1>5, <1>6, <1>7, DepthAssumption
    <3> QED
      BY <1>1, <1>2, <2>0, <3>1 DEF RunOf
  <2> QED
    BY <1>1, <2>1 DEF FreeInOrder
<1> QED
  BY <1>1, <1>2, <1>8, <1>9, <1>10

\* Both leave the nodes as they are.
LEMMA HostTurn ==
  ASSUME Inv, Inv', GraphParameters, TurnInv, \A a, b \in Pipe : Before(a, b)' => Before(a, b),
         UNCHANGED <<task, nodeVars, waiting, retrigger>>, \A t \in Target : jobQ'[t] = jobQ[t]
  PROVE  TurnInv'
<1>1. SameTurns /\ SameTasks /\ \A t \in Target : Triggering(t)
  BY DEF SameTurns, SameTasks, Over, Releasing, Acquiring, OnTask, Triggering, nodeVars
<1>2. \A i \in Inst : Parked(i)' => Parked(i)
  BY DEF Parked, nodeVars
<1> QED
  BY <1>1, <1>2, TurnKept

-----------------------------------------------------------------------------
(* The order of the reports                                                 *)

\* Nothing is reported, and nothing executed that is not releasing.
LEMMA ReportsKept ==
  ASSUME ReportsInOrder, \A a, b \in Pipe : Before(a, b)' => Before(a, b),
         jobQ'[Host] = jobQ[Host],
         \A n \in Node, p \in Pipe : Releasing(n, p) => Releasing(n, p)',
         \A n \in Node, p \in Pipe :
            <<n, p>> \in executed' => <<n, p>> \in executed \/ Releasing(n, p)'
  PROVE  ReportsInOrder'
<1> SUFFICES ASSUME NEW n \in Leaf, NEW p \in Pipe, NEW q \in Pipe,
                    NEW h \in DOMAIN jobQ[Host], Before(p, q)', Reported(h, n, p),
                    <<n, q>> \in executed'
             PROVE  Releasing(n, q)' \/ ReportedAfter(h, n, q)
  BY DEF ReportsInOrder, ReportedAfter, Reported
<1>1. n \in Node
  BY GraphAssumption
<1>2. CASE <<n, q>> \in executed
  BY <1>1, <1>2 DEF ReportsInOrder
<1>3. CASE <<n, q>> \notin executed
  BY <1>1, <1>3
<1> QED
  BY <1>2, <1>3

\* A run begins: none of its nodes is executed.
LEMMA ReportsBefore ==
  ASSUME ReportsInOrder, NEW p \in Pipe, jobQ'[Host] = jobQ[Host], task' = task,
         \A a, b \in Pipe : Before(a, b)' => b = p \/ Before(a, b),
         \A n \in Node, q \in Pipe : <<n, q>> \in executed' => <<n, q>> \in executed /\ q # p
  PROVE  ReportsInOrder'
<1>1. \A n \in Node, q \in Pipe : Releasing(n, q)' <=> Releasing(n, q)
  BY DEF Releasing, OnTask
<1> SUFFICES ASSUME NEW n \in Leaf, NEW a \in Pipe, NEW b \in Pipe,
                    NEW h \in DOMAIN jobQ'[Host], Before(a, b)', Reported(h, n, a)',
                    <<n, b>> \in executed'
             PROVE  Releasing(n, b)' \/ ReportedAfter(h, n, b)'
  BY DEF ReportsInOrder
<1>2. n \in Node /\ h \in DOMAIN jobQ[Host] /\ Reported(h, n, a)
  BY GraphAssumption DEF Reported
<1>3. <<n, b>> \in executed /\ Before(a, b)
  BY <1>2
<1>4. Releasing(n, b) \/ ReportedAfter(h, n, b)
  BY <1>2, <1>3 DEF ReportsInOrder
<1>5. ReportedAfter(h, n, b) => ReportedAfter(h, n, b)'
  BY DEF ReportedAfter, Reported
<1> QED
  BY <1>1, <1>2, <1>4, <1>5

\* The host takes a message.
LEMMA ReportsTaken ==
  ASSUME ReportsInOrder, JobsTyped, jobQ[Host] # <<>>, jobQ' = [jobQ EXCEPT ![Host] = Tail(@)],
         \A a, b \in Pipe : Before(a, b)' => Before(a, b), UNCHANGED <<task, executed>>
  PROVE  ReportsInOrder'
<1>1. /\ jobQ'[Host] = Tail(jobQ[Host]) /\ jobQ[Host] \in Seq(HostJob)
  BY DEF JobsTyped
<1>2. /\ DOMAIN jobQ'[Host] = 1 .. Len(jobQ[Host]) - 1 /\ Len(jobQ[Host]) \in Nat
      /\ DOMAIN jobQ[Host] = 1 .. Len(jobQ[Host])
      /\ \A h \in 1 .. Len(jobQ[Host]) - 1 : jobQ'[Host][h] = jobQ[Host][h + 1]
  <2>1. /\ Tail(jobQ[Host]) \in Seq(HostJob) /\ Len(Tail(jobQ[Host])) = Len(jobQ[Host]) - 1
        /\ \A h \in 1 .. Len(jobQ[Host]) - 1 : Tail(jobQ[Host])[h] = jobQ[Host][h + 1]
    BY ONLY <1>1, jobQ[Host] # <<>>, Taken
  <2>2. /\ DOMAIN Tail(jobQ[Host]) = 1 .. Len(jobQ[Host]) - 1 /\ Len(jobQ[Host]) \in Nat
        /\ DOMAIN jobQ[Host] = 1 .. Len(jobQ[Host])
    BY ONLY <1>1, <2>1, ListOf
  <2> QED
    BY ONLY <1>1, <2>1, <2>2
<1>3. \A n \in Node, q \in Pipe : Releasing(n, q)' <=> Releasing(n, q)
  BY DEF Releasing, OnTask
<1> SUFFICES ASSUME NEW n \in Leaf, NEW a \in Pipe, NEW b \in Pipe,
                    NEW h \in DOMAIN jobQ'[Host], Before(a, b), Reported(h, n, a)',
                    <<n, b>> \in executed
             PROVE  Releasing(n, b) \/ ReportedAfter(h, n, b)'
  BY <1>3, GraphAssumption DEF ReportsInOrder
<1>4. h + 1 \in DOMAIN jobQ[Host] /\ h \in Nat /\ Reported(h + 1, n, a)
  BY <1>2 DEF Reported
<1>5. CASE ReportedAfter(h + 1, n, b)
  <2>1. PICK j \in DOMAIN jobQ[Host] : h + 1 < j /\ Reported(j, n, b)
    BY <1>5 DEF ReportedAfter
  <2>2. PICK k \in DOMAIN jobQ'[Host] : k + 1 = j /\ h < k
    <3>1. j - 1 \in DOMAIN jobQ'[Host] /\ (j - 1) + 1 = j /\ h < j - 1
      BY <1>2, <1>4, <2>1
    <3> QED
      BY <3>1
  <2>3. Reported(k, n, b)'
    BY <1>2, <2>1, <2>2 DEF Reported
  <2> QED
    BY <2>2, <2>3 DEF ReportedAfter
<1> QED
  BY <1>4, <1>5 DEF ReportsInOrder

\* A target reports to the host: its node is not executed in a later run.
LEMMA ReportsSent ==
  ASSUME ReportsInOrder, OverInOrder, JobsTyped, NEW x \in HostJob, NEW n \in Node,
         NEW p \in Pipe, jobQ'[Host] = Append(jobQ[Host], x),
         \A a, b \in Pipe : Before(a, b)' => Before(a, b), executed' = executed, Releasing(n, p),
         \A m \in Node, q \in Pipe : Releasing(m, q) => Releasing(m, q)' \/ <<m, q>> = <<n, p>>,
         \/ x = <<"complete", <<n, p>>>>
         \/ x[1] = "consumed" /\ Releasing(n, p)'
  PROVE  ReportsInOrder'
<1>1. jobQ[Host] \in Seq(HostJob)
  BY DEF JobsTyped
<1>2. /\ DOMAIN jobQ'[Host] = 1 .. Len(jobQ[Host]) + 1 /\ Len(jobQ[Host]) \in Nat
      /\ DOMAIN jobQ[Host] = 1 .. Len(jobQ[Host])
      /\ \A h \in DOMAIN jobQ[Host] : jobQ'[Host][h] = jobQ[Host][h]
      /\ jobQ'[Host][Len(jobQ[Host]) + 1] = x
  BY <1>1
<1> SUFFICES ASSUME NEW m \in Leaf, NEW a \in Pipe, NEW b \in Pipe,
                    NEW h \in DOMAIN jobQ'[Host], Before(a, b), Reported(h, m, a)',
                    <<m, b>> \in executed
             PROVE  Releasing(m, b)' \/ ReportedAfter(h, m, b)'
  BY DEF ReportsInOrder
<1>3. m \in Node
  BY GraphAssumption
<1>4. CASE h \in DOMAIN jobQ[Host]
  <2>1. Reported(h, m, a)
    BY <1>2, <1>4 DEF Reported
  <2>2. Releasing(m, b) \/ ReportedAfter(h, m, b)
    BY <1>4, <2>1 DEF ReportsInOrder
  <2>3. CASE ReportedAfter(h, m, b)
    <3>1. PICK j \in DOMAIN jobQ[Host] : h < j /\ Reported(j, m, b)
      BY <2>3 DEF ReportedAfter
    <3>2. j \in DOMAIN jobQ'[Host] /\ Reported(j, m, b)'
      BY <1>2, <3>1 DEF Reported
    <3> QED
      BY <3>1, <3>2 DEF ReportedAfter
  <2>4. CASE Releasing(m, b) /\ ~Releasing(m, b)'
    <3>1. <<m, b>> = <<n, p>> /\ x = <<"complete", <<m, b>>>>
      BY <1>3, <2>4
    <3>2. PICK j \in DOMAIN jobQ'[Host] : h < j /\ jobQ'[Host][j] = x
      BY <1>2, <1>4
    <3> QED
      BY <3>1, <3>2 DEF ReportedAfter, Reported
  <2> QED
    BY <2>2, <2>3, <2>4
<1>5. CASE h \notin DOMAIN jobQ[Host]
  <2>1. x = <<"complete", <<m, a>>>>
    BY <1>2, <1>5 DEF Reported
  <2>2. m = n /\ a = p
    BY <2>1
  <2> QED
    BY <2>2 DEF OverInOrder, Over
<1> QED
  BY <1>4, <1>5

-----------------------------------------------------------------------------
(* The data of the runs                                                     *)

\* Param0 is the data of a graph parameter.
LEMMA FirstParam == GraphParameters => Param0 \in Data /\ Param0 \in UserData
BY GraphAssumption DEF GraphParameters

\* No run takes, and none gives back, a reference of a graph parameter.
LEMMA FedKept ==
  ASSUME FedInv, SameRuns, Fed' = Fed,
         \A p \in Pipe : p \in InRun => (Fresh(Param0, p)' <=> Fresh(Param0, p))
  PROVE  FedInv'
<1>1. InRun' = InRun /\ \A p \in Pipe : RunOf(p)' = RunOf(p)
  BY RunsSame DEF SameRun
<1> QED
  BY <1>1 DEF FedInv, SameRuns

\* ... and none is given back.
LEMMA GivenKept ==
  ASSUME GivenInv, SameRuns, \A d \in UserData : taken'[d] \in Nat /\ Given(d)' = Given(d),
         \A d \in UserData, p \in Pipe : p \in InRun => (Gone(d, p)' <=> Gone(d, p))
  PROVE  GivenInv'
<1>1. InRun' = InRun /\ \A p \in Pipe : RunOf(p)' = RunOf(p)
  BY RunsSame DEF SameRun
<1> QED
  BY <1>1 DEF GivenInv, GivenOf, SameRuns

\* A descriptor keeps its reference or gives it back, to a queue between nodes.
LEMMA DataKept ==
  ASSUME GraphParameters, DataInv, SameRuns,
         UNCHANGED <<executed, frame, enqueued, doneQ, taken>>,
         readyQ'[Param0] = readyQ[Param0],
         \A d \in UserData, p \in Pipe : held'[<<d, p>>] = held[<<d, p>>],
         \A d \in Data, p \in Pipe : held'[<<d, p>>] = held[<<d, p>>] \/ held'[<<d, p>>] = NoRef
  PROVE  DataInv'
<1>1. InRun' = InRun /\ \A p \in Pipe : RunOf(p)' = RunOf(p)
  BY RunsSame DEF SameRun
<1>2. Fed' = Fed
  BY DEF Fed
<1>3. \A d \in UserData, p \in Pipe : /\ Fresh(d, p)' <=> Fresh(d, p)
                                      /\ Gone(d, p)' <=> Gone(d, p)
  BY DEF Fresh, Gone, Untouched
<1>4. FedInv'
  BY <1>2, <1>3, FirstParam, FedKept DEF DataInv
<1>5. GivenInv'
  <2>1. \A d \in UserData : taken'[d] \in Nat /\ Given(d)' = Given(d)
    BY DEF DataInv, Given
  <2> QED
    BY <1>3, <2>1, GivenKept DEF DataInv
<1>6. ReadyFrames'
  BY <1>2 DEF DataInv, ReadyFrames
<1>7. HeldFrames'
  <2>1. \A d, p : Written(d, p)' <=> Written(d, p)
    BY DEF Written
  <2> QED
    BY <1>1, <2>1 DEF DataInv, HeldFrames
<1>8. FramesInOrder'
  BY DEF DataInv, FramesInOrder
<1> QED
  BY <1>4, <1>5, <1>6, <1>7, <1>8 DEF DataInv

\* Where references are, they belong to the data.
LEMMA RefsOf ==
  ASSUME Detail, NEW d \in Data
  PROVE  /\ Range(readyQ[d]) \subseteq Range(Refs[d]) /\ HeldRefs(d) \subseteq Range(Refs[d])
         /\ DoneRefs(d) \subseteq Range(Refs[d])
<1>1. RefOf(d)
  BY DEF Detail, RefInv
<1>2. GivenRefs(d) \subseteq Range(Refs[d])
  BY DEF GivenRefs
<1> QED
  BY <1>1, <1>2 DEF RefOf

\* A reference that the application has is in no queue and held by no descriptor.
LEMMA RefAway ==
  ASSUME Detail, GraphParameters, NEW d \in UserData, NEW r \in Range(Refs[d]), r \notin enq
  PROVE  \A e \in Data : /\ r \notin Range(readyQ[e])
                         /\ \A p \in Pipe : held[<<e, p>>] # r
                         /\ e \in UserData => r \notin Range(doneQ[e])
<1>1. d \in Data /\ r # NoRef
  <2>1. d \in Data /\ Refs[d] \in Seq(Ref) /\ NoRef \notin Ref
    BY DEF GraphParameters
  <2>2. r \in Ref
    BY <2>1, ListOf
  <2> QED
    BY <2>1, <2>2
<1>2. ASSUME NEW e \in Data
      PROVE  r \notin Range(readyQ[e]) /\ r \notin HeldRefs(e) /\ r \notin DoneRefs(e)
  <2>1. CASE e = d
    <3>1. r \notin GivenRefs(d) /\ RefOf(d)
      BY <1>1 DEF GivenRefs, Detail, RefInv
    <3> QED
      BY <2>1, <3>1 DEF RefOf
  <2>2. CASE e # d
    <3>1. Range(Refs[d]) \cap Range(Refs[e]) = {}
      BY <1>1, <2>2 DEF GraphParameters
    <3> QED
      BY <1>2, <3>1, RefsOf
  <2> QED
    BY <2>1, <2>2
<1>3. ASSUME NEW e \in Data, NEW p \in Pipe PROVE held[<<e, p>>] # r
  <2>1. held[<<e, p>>] \in {held[<<e, q>>] : q \in Pipe}
    OBVIOUS
  <2> QED
    BY <1>1, <1>2, <2>1 DEF HeldRefs
<1>4. ASSUME NEW e \in Data, e \in UserData PROVE r \notin Range(doneQ[e])
  BY <1>2, <1>4 DEF DoneRefs
<1> QED
  BY <1>2, <1>3, <1>4

\* A reference that a descriptor holds is in no queue, and no other one holds it.
LEMMA RefHeld ==
  ASSUME Detail, GraphParameters, NEW d \in Data, NEW p \in Pipe, held[<<d, p>>] # NoRef
  PROVE  /\ held[<<d, p>>] \in Ref
         /\ \A e \in Data : /\ held[<<d, p>>] \notin Range(readyQ[e])
                            /\ e \in UserData => held[<<d, p>>] \notin Range(doneQ[e])
                            /\ \A q \in Pipe : held[<<e, q>>] = held[<<d, p>>] => e = d /\ q = p
<1> DEFINE r == held[<<d, p>>]
<1>1. r \in Ref /\ r \in HeldRefs(d) /\ r \in Range(Refs[d])
  <2>1. r \in HeldRefs(d)
    BY DEF HeldRefs
  <2>2. r \in Ref
    BY DEF Detail, Typed, QueuesTyped
  <2> QED
    BY <2>1, <2>2, RefsOf
<1>2. ASSUME NEW e \in Data, e # d
      PROVE  r \notin Range(readyQ[e]) /\ r \notin DoneRefs(e) /\ r \notin HeldRefs(e)
  <2>1. Range(Refs[d]) \cap Range(Refs[e]) = {}
    BY <1>2 DEF GraphParameters
  <2> QED
    BY <1>1, <2>1, RefsOf
<1>3. /\ r \notin Range(readyQ[d]) /\ r \notin DoneRefs(d)
      /\ \A q \in Pipe : held[<<d, q>>] = r => q = p
  <2>1. RefOf(d)
    BY DEF Detail, RefInv
  <2> QED
    BY <1>1, <2>1 DEF RefOf
<1>4. ASSUME NEW e \in Data, NEW q \in Pipe, held[<<e, q>>] = r PROVE e = d /\ q = p
  <2>1. r \in HeldRefs(e)
    BY <1>4 DEF HeldRefs
  <2> QED
    BY <1>2, <1>3, <1>4, <2>1
<1> QED
  BY <1>1, <1>2, <1>3, <1>4 DEF DoneRefs

\* The application enqueues the data of the next run ...
LEMMA InputData ==
  ASSUME Inv, GraphParameters, DataInv, NEW a \in App, EnqueueInput(a)
  PROVE  DataInv' /\ SameRuns /\ UNCHANGED <<executed, task, jobQ>>
<1>1. PICK r \in Range(Refs[Param0]) :
         EnqueueReady(Param0, r) /\ frame' = [frame EXCEPT ![r] = enqueued']
  BY DEF EnqueueInput
<1>2. /\ enqueued' = enqueued + 1 /\ SameRuns
      /\ UNCHANGED <<executed, held, doneQ, taken, task, jobQ>> /\ r \notin enq
      /\ readyQ' = [readyQ EXCEPT ![Param0] = Append(@, r)]
  BY <1>1 DEF EnqueueInput, EnqueueControl, EnqueueReady, SameRuns, nodeVars, descVars
<1>3. /\ Param0 \in Data /\ Param0 \in UserData /\ Detail /\ enqueued \in Nat
      /\ readyQ \in [Data -> Seq(Ref)] /\ frame \in [Ref -> Nat]
      /\ Refs[Param0] \in Seq(Ref)
  <2>1. Param0 \in Data /\ Param0 \in UserData
    BY FirstParam
  <2>2. Detail
    BY DEF Inv
  <2>3. enqueued \in Nat
    BY Counts
  <2>4. readyQ \in [Data -> Seq(Ref)]
    BY <2>2 DEF Detail, Typed, QueuesTyped
  <2>5. frame \in [Ref -> Nat]
    BY DEF DataInv
  <2>6. Refs[Param0] \in Seq(Ref)
    BY <2>1 DEF GraphParameters
  <2> QED
    BY <2>1, <2>2, <2>3, <2>4, <2>5, <2>6
<1>4. \A e \in Data : /\ r \notin Range(readyQ[e])
                      /\ \A p \in Pipe : held[<<e, p>>] # r
                      /\ e \in UserData => r \notin Range(doneQ[e])
  BY <1>2, <1>3, RefAway
<1>5. r \in Ref /\ frame' = [frame EXCEPT ![r] = enqueued + 1]
  BY <1>1, <1>2, <1>3, ListOf
<1>6. \A s : s # r => frame'[s] = frame[s]
  BY <1>3, <1>5
<1>7. InRun' = InRun /\ \A p \in Pipe : RunOf(p)' = RunOf(p)
  BY <1>2, RunsSame DEF SameRun
<1> DEFINE q == readyQ[Param0]
<1>8. /\ q \in Seq(Ref) /\ readyQ'[Param0] = Append(q, r) /\ Len(q) \in Nat
      /\ Len(readyQ'[Param0]) = Len(q) + 1
  BY <1>3, <1>5, <1>2
<1>9. Fed' = Fed /\ Fed = enqueued - Len(q)
  BY <1>2, <1>3, <1>8 DEF Fed
<1>10. \A d \in UserData, p \in Pipe : /\ Fresh(d, p)' <=> Fresh(d, p)
                                       /\ Gone(d, p)' <=> Gone(d, p)
  BY <1>2 DEF Fresh, Gone, Untouched
<1>11. FedInv' /\ GivenInv'
  <2>1. \A d \in UserData : taken'[d] \in Nat /\ Given(d)' = Given(d)
    BY <1>2 DEF DataInv, Given
  <2> QED
    BY <1>2, <1>3, <1>9, <1>10, <2>1, FedKept, GivenKept DEF DataInv
<1>12. ReadyFrames'
  <2> SUFFICES ASSUME NEW j \in DOMAIN readyQ'[Param0]
               PROVE  frame'[readyQ'[Param0][j]] = Fed + j
    BY <1>9 DEF ReadyFrames
  <2>1. CASE j \in DOMAIN q
    <3>1. readyQ'[Param0][j] = q[j]
      BY <1>8, <2>1
    <3>2. q[j] # r
      BY <1>3, <1>4, <2>1 DEF Range
    <3> QED
      BY <1>6, <2>1, <3>1, <3>2 DEF DataInv, ReadyFrames
  <2>2. CASE j \notin DOMAIN q
    <3>1. j = Len(q) + 1 /\ readyQ'[Param0][j] = r
      BY <1>8, <2>2
    <3>2. frame'[r] = enqueued + 1
      BY <1>3, <1>5
    <3> QED
      BY <1>3, <1>8, <1>9, <3>1, <3>2
  <2> QED
    BY <2>1, <2>2
<1>13. HeldFrames'
  <2>1. \A d, p : Written(d, p)' <=> Written(d, p)
    BY <1>2 DEF Written
  <2>2. \A d \in Data, p \in Pipe : frame'[held[<<d, p>>]] = frame[held[<<d, p>>]]
    BY <1>4, <1>6
  <2> QED
    BY <1>2, <1>7, <2>1, <2>2 DEF DataInv, HeldFrames
<1>14. FramesInOrder'
  <2> SUFFICES ASSUME NEW d \in UserData, NEW j \in DOMAIN doneQ[d]
               PROVE  frame'[doneQ[d][j]] = taken[d] + j
    BY <1>2 DEF FramesInOrder
  <2>1. d \in Data /\ doneQ[d][j] # r
    BY <1>4 DEF GraphParameters, Range
  <2> QED
    BY <1>6, <2>1 DEF DataInv, FramesInOrder
<1>15. frame' \in [Ref -> Nat] /\ taken' \in [UserData -> Nat]
  BY <1>2, <1>3, <1>5 DEF DataInv
<1> QED
  BY <1>2, <1>11, <1>12, <1>13, <1>14, <1>15 DEF DataInv

\* ... or an output reference, that holds no data.
LEMMA OutputData ==
  ASSUME Inv, GraphParameters, DataInv, NEW d0 \in UserData, EnqueueOutput(d0)
  PROVE  DataInv' /\ SameRuns /\ UNCHANGED <<executed, task, jobQ>>
<1>1. PICK r \in Range(Refs[d0]) :
         EnqueueReady(d0, r) /\ frame' = [frame EXCEPT ![r] = 0]
  BY DEF EnqueueOutput
<1>2. /\ d0 # Param0 /\ SameRuns /\ enqueued' = enqueued
      /\ UNCHANGED <<executed, held, doneQ, taken, task, jobQ>> /\ r \notin enq
      /\ readyQ' = [readyQ EXCEPT ![d0] = Append(@, r)]
  BY <1>1 DEF EnqueueOutput, EnqueueReady, SameRuns, nodeVars, controlVars, descVars, countVars
<1>3. /\ d0 \in Data /\ Param0 \in Data /\ Detail /\ Refs[d0] \in Seq(Ref)
      /\ readyQ \in [Data -> Seq(Ref)] /\ frame \in [Ref -> Nat]
  <2>1. Param0 \in Data
    BY FirstParam
  <2>2. Detail
    BY DEF Inv
  <2>3. readyQ \in [Data -> Seq(Ref)]
    BY <2>2 DEF Detail, Typed, QueuesTyped
  <2>4. frame \in [Ref -> Nat]
    BY DEF DataInv
  <2>5. d0 \in Data /\ Refs[d0] \in Seq(Ref)
    BY DEF GraphParameters
  <2> QED
    BY <2>1, <2>2, <2>3, <2>4, <2>5
<1>4. \A e \in Data : /\ r \notin Range(readyQ[e])
                      /\ \A p \in Pipe : held[<<e, p>>] # r
                      /\ e \in UserData => r \notin Range(doneQ[e])
  BY <1>2, <1>3, RefAway
<1>5. r \in Ref
  BY <1>3, ListOf
<1>6. frame' \in [Ref -> Nat] /\ \A s : s # r => frame'[s] = frame[s]
  BY <1>1, <1>3, <1>5
<1>7. InRun' = InRun /\ \A p \in Pipe : RunOf(p)' = RunOf(p)
  BY <1>2, RunsSame DEF SameRun
<1>8. readyQ'[Param0] = readyQ[Param0]
  BY <1>2, <1>3
<1>9. Fed' = Fed
  BY <1>2, <1>8 DEF Fed
<1>10. \A d \in UserData, p \in Pipe : /\ Fresh(d, p)' <=> Fresh(d, p)
                                       /\ Gone(d, p)' <=> Gone(d, p)
  BY <1>2 DEF Fresh, Gone, Untouched
<1>11. FedInv' /\ GivenInv'
  <2>1. \A d \in UserData : taken'[d] \in Nat /\ Given(d)' = Given(d)
    BY <1>2 DEF DataInv, Given
  <2>2. Param0 \in UserData
    BY FirstParam
  <2> QED
    BY <1>2, <1>9, <1>10, <2>1, <2>2, FedKept, GivenKept DEF DataInv
<1>12. ReadyFrames'
  <2> SUFFICES ASSUME NEW j \in DOMAIN readyQ[Param0]
               PROVE  frame'[readyQ[Param0][j]] = Fed + j
    BY <1>8, <1>9 DEF ReadyFrames
  <2>1. readyQ[Param0][j] # r
    BY <1>3, <1>4 DEF Range
  <2> QED
    BY <1>6, <2>1 DEF DataInv, ReadyFrames
<1>13. HeldFrames'
  <2>1. \A d, p : Written(d, p)' <=> Written(d, p)
    BY <1>2 DEF Written
  <2>2. \A d \in Data, p \in Pipe : frame'[held[<<d, p>>]] = frame[held[<<d, p>>]]
    BY <1>4, <1>6
  <2> QED
    BY <1>2, <1>7, <2>1, <2>2 DEF DataInv, HeldFrames
<1>14. FramesInOrder'
  <2> SUFFICES ASSUME NEW d \in UserData, NEW j \in DOMAIN doneQ[d]
               PROVE  frame'[doneQ[d][j]] = taken[d] + j
    BY <1>2 DEF FramesInOrder
  <2>1. d \in Data /\ doneQ[d][j] # r
    BY <1>4 DEF GraphParameters, Range
  <2> QED
    BY <1>6, <2>1 DEF DataInv, FramesInOrder
<1>15. taken' \in [UserData -> Nat]
  BY <1>2 DEF DataInv
<1> QED
  BY <1>2, <1>6, <1>11, <1>12, <1>13, <1>14, <1>15 DEF DataInv

\* The application takes back the data of the run after the last one it took.
LEMMA DequeueData ==
  ASSUME Inv, GraphParameters, DataInv, NEW x \in Dequeuer, DequeueRef(x)
  PROVE  DataInv'
<1> DEFINE d0 == Dequeues[x]
           q == doneQ[d0]
<1>1. /\ q # <<>> /\ doneQ' = [doneQ EXCEPT ![d0] = Tail(@)]
      /\ taken' = [taken EXCEPT ![d0] = @ + 1] /\ SameRuns
      /\ UNCHANGED <<executed, held, readyQ, enqueued, frame>>
  BY DEF DequeueRef, SameRuns, nodeVars, controlVars, descVars, countVars
<1>2. d0 \in UserData /\ doneQ \in [UserData -> Seq(Ref)] /\ taken \in [UserData -> Nat]
  <2>1. d0 \in UserData
    BY DEF GraphParameters
  <2>2. doneQ \in [UserData -> Seq(Ref)]
    BY DEF Inv, Detail, Typed, QueuesTyped
  <2> QED
    BY <2>1, <2>2 DEF DataInv
<1>3. q \in Seq(Ref) /\ doneQ'[d0] = Tail(q) /\ taken'[d0] = taken[d0] + 1 /\ taken[d0] \in Nat
  BY <1>1, <1>2
<1> HIDE DEF d0
<1>4. /\ Tail(q) \in Seq(Ref) /\ Len(Tail(q)) = Len(q) - 1
      /\ \A j \in 1 .. Len(q) - 1 : Tail(q)[j] = q[j + 1]
  BY <1>1, <1>3, Taken
<1>5. /\ \A d \in UserData \ {d0} : doneQ'[d] = doneQ[d] /\ taken'[d] = taken[d]
      /\ taken' \in [UserData -> Nat]
  BY <1>1, <1>2
<1>6. InRun' = InRun /\ \A p \in Pipe : RunOf(p)' = RunOf(p)
  BY <1>1, RunsSame DEF SameRun
<1>7. \A d \in UserData : taken'[d] \in Nat /\ Given(d)' = Given(d)
  <2> SUFFICES ASSUME NEW d \in UserData PROVE taken'[d] \in Nat /\ Given(d)' = Given(d)
    OBVIOUS
  <2>1. CASE d = d0
    <3>1. Len(q) \in Nat
      BY <1>3, ListOf
    <3>2. Given(d0)' = taken'[d0] + Len(doneQ'[d0]) /\ Given(d0) = taken[d0] + Len(q)
      BY DEF Given
    <3>3. Given(d0)' = Given(d0) /\ taken'[d0] \in Nat
      BY <1>3, <1>4, <3>1, <3>2
    <3>4. Given(d)' = taken'[d] + Len(doneQ'[d]) /\ Given(d) = taken[d] + Len(doneQ[d])
      BY DEF Given
    <3> QED
      BY <2>1, <3>2, <3>3, <3>4
  <2>2. CASE d # d0
    BY <1>5, <2>2 DEF Given
  <2> QED
    BY <2>1, <2>2
<1>8. FedInv' /\ GivenInv'
  <2>1. \A d \in UserData, p \in Pipe : /\ Fresh(d, p)' <=> Fresh(d, p)
                                        /\ Gone(d, p)' <=> Gone(d, p)
    BY <1>1 DEF Fresh, Gone, Untouched
  <2>2. Fed' = Fed
    BY <1>1 DEF Fed
  <2> QED
    BY <1>1, <1>7, <2>1, <2>2, FirstParam, FedKept, GivenKept DEF DataInv
<1>9. ReadyFrames'
  <2>1. Fed' = Fed
    BY <1>1 DEF Fed
  <2> QED
    BY <1>1, <2>1 DEF DataInv, ReadyFrames
<1>10. HeldFrames'
  <2>1. \A d, p : Written(d, p)' <=> Written(d, p)
    BY <1>1 DEF Written
  <2> QED
    BY <1>1, <1>6, <2>1 DEF DataInv, HeldFrames
<1>11. FramesInOrder'
  <2> SUFFICES ASSUME NEW d \in UserData, NEW j \in DOMAIN doneQ'[d]
               PROVE  frame[doneQ'[d][j]] = taken'[d] + j
    BY <1>1 DEF FramesInOrder
  <2>1. CASE d = d0
    <3>1. j \in 1 .. Len(q) - 1 /\ Len(q) \in Nat
      BY <1>3, <1>4, <2>1, ListOf
    <3>2. j + 1 \in DOMAIN q /\ doneQ'[d][j] = q[j + 1]
      <4>1. doneQ'[d][j] = q[j + 1]
        BY <1>3, <1>4, <2>1, <3>1
      <4>2. j + 1 \in 1 .. Len(q) /\ DOMAIN q = 1 .. Len(q)
        BY <1>3, <3>1
      <4> QED
        BY <4>1, <4>2
    <3>3. frame[q[j + 1]] = taken[d0] + (j + 1)
      BY <1>2, <3>2 DEF DataInv, FramesInOrder
    <3> QED
      BY <1>3, <2>1, <3>1, <3>2, <3>3
  <2>2. CASE d # d0
    BY <1>5, <2>2 DEF DataInv, FramesInOrder
  <2> QED
    BY <2>1, <2>2
<1> QED
  BY <1>1, <1>5, <1>8, <1>9, <1>10, <1>11 DEF DataInv

\* The counts are numbers.
LEMMA FedCounts ==
  ASSUME Inv, GraphParameters
  PROVE  Fed \in Int /\ \A d \in UserData : taken[d] \in Nat => Given(d) \in Nat
<1>1. readyQ \in [Data -> Seq(Ref)] /\ doneQ \in [UserData -> Seq(Ref)]
  BY DEF Inv, Detail, Typed, QueuesTyped
<1>2. enqueued \in Nat
  BY Counts
<1>3. Len(readyQ[Param0]) \in Nat
  BY <1>1, FirstParam, ListOf
<1>4. \A d \in UserData : Len(doneQ[d]) \in Nat
  BY <1>1, ListOf
<1> QED
  BY <1>2, <1>3, <1>4 DEF Fed, Given

\* Only a run in progress holds data.
LEMMA HoldersRun ==
  ASSUME Inv, GraphParameters
  PROVE  \A d \in Data, p \in Pipe : held[<<d, p>>] # NoRef => p \in InRun
BY DEF Inv, Detail, HeldInv, HeldOf

\* A run that is submitted has no data yet.
LEMMA SubmitData ==
  ASSUME Inv, GraphParameters, FreeInOrder, DataInv, NEW p, SubmitRun(p)
  PROVE  DataInv'
<1>1. /\ p \in Pipe /\ p \notin InRun /\ InRun' = InRun \cup {p} /\ done' = done
      /\ submitted' = submitted + 1 /\ RunOf(p) = done + submitted + 1
      /\ \A q \in Pipe : RunOf(q)' = RunOf(q)
  BY RunSubmitted
<1>2. /\ UNCHANGED <<held, readyQ, doneQ, taken, frame, enqueued>>
      /\ executed' = executed \ {<<n, p>> : n \in Node}
  BY DEF SubmitRun, SubmitControl, ClearState, queueVars, userVars, countVars
<1>3. \A d \in Data : held[<<d, p>>] = NoRef
  BY <1>1, HoldersRun
<1>4. done \in Nat /\ submitted \in Nat /\ Fed \in Int /\ \A d \in UserData : Given(d) \in Nat
  BY Counts, FedCounts DEF DataInv, GivenInv, GivenOf
<1>5. \A n \in Node, q \in Pipe : <<n, q>> \in executed' <=> <<n, q>> \in executed /\ q # p
  BY <1>2
<1>6. \A d \in Data, q \in Pipe : q # p => /\ Fresh(d, q)' <=> Fresh(d, q)
                                           /\ Gone(d, q)' <=> Gone(d, q)
  BY <1>2, <1>5 DEF Fresh, Gone, Untouched
<1>7. \A d \in Data : Fresh(d, p)' /\ ~Gone(d, p)'
  BY <1>1, <1>2, <1>3, <1>5 DEF Fresh, Gone, Untouched
<1>8. Fed' = Fed /\ \A d \in UserData : Given(d)' = Given(d)
  BY <1>2 DEF Fed, Given
<1>9. Param0 \in Data /\ UserData \subseteq Data
  BY FirstParam DEF GraphParameters
<1>10. FedInv'
  <2>1. done <= Fed /\ Fed <= done + submitted
    BY DEF DataInv, FedInv
  <2>2. ASSUME NEW q \in Pipe, q \in InRun' PROVE Fresh(Param0, q)' <=> RunOf(q) > Fed
    <3>1. CASE q = p
      BY <1>1, <1>4, <1>7, <1>9, <2>1, <3>1
    <3>2. CASE q # p
      BY <1>1, <1>6, <1>9, <2>2, <3>2 DEF DataInv, FedInv
    <3> QED
      BY <3>1, <3>2
  <2> QED
    BY <1>1, <1>4, <1>8, <2>1, <2>2 DEF FedInv
<1>11. GivenInv'
  <2> SUFFICES ASSUME NEW d \in UserData PROVE GivenOf(d)'
    BY DEF GivenInv
  <2>1. taken[d] \in Nat /\ done <= Given(d) /\ Given(d) <= done + submitted
    BY DEF DataInv, GivenInv, GivenOf
  <2>2. ASSUME NEW q \in Pipe, q \in InRun' PROVE Gone(d, q)' <=> RunOf(q) <= Given(d)
    <3>1. CASE q = p
      BY <1>1, <1>4, <1>7, <1>9, <2>1, <3>1
    <3>2. CASE q # p
      BY <1>1, <1>6, <1>9, <2>2, <3>2 DEF DataInv, GivenInv, GivenOf
    <3> QED
      BY <3>1, <3>2
  <2> QED
    BY <1>1, <1>2, <1>4, <1>8, <2>1, <2>2 DEF GivenOf
<1>12. ReadyFrames' /\ FramesInOrder'
  BY <1>2, <1>8 DEF DataInv, ReadyFrames, FramesInOrder
<1>13. HeldFrames'
  <2> SUFFICES ASSUME NEW d \in Data, NEW q \in Pipe, held[<<d, q>>] # NoRef, Written(d, q)'
               PROVE  frame[held[<<d, q>>]] = RunOf(q)
    BY <1>1, <1>2 DEF HeldFrames
  <2>1. Written(d, q)
    BY <1>2 DEF Written
  <2> QED
    BY <2>1 DEF DataInv, HeldFrames
<1> QED
  BY <1>2, <1>10, <1>11, <1>12, <1>13 DEF DataInv

\* A node takes the data of its run: no earlier run is still without it.
LEMMA AcquireData ==
  ASSUME Inv, GraphParameters, RunsNumbered, TurnInv, DataInv, NEW t \in Target, AcquireRef(t),
         SameRuns
  PROVE  DataInv'
<1>1. PICK n \in Node, p \in Pipe :
            /\ task[t].inst = <<n, p>> /\ TargetOf[n] = t /\ task[t].k \in Nat \ {0}
            /\ Params[n] \in Seq(Data) /\ <<n, p>> \notin executed /\ p \in InRun
  BY AcquiresFor DEF Inv, AcquireRef, AtParam
<1>0. PICK d \in Data : d = Param(t) /\ d \in Range(Params[n])
  <2>1. task[t].k \in DOMAIN Params[n] /\ Param(t) = Params[n][task[t].k]
    BY <1>1 DEF AcquireRef, AtParam, Param, InstOf
  <2> QED
    BY <1>1, <2>1, ListOf DEF Range
<1> DEFINE q == readyQ[d]
           r == Head(q)
<1>2. /\ task[t].at = "acquire" /\ d \in Range(Params[n]) /\ held[<<d, p>>] = NoRef /\ q # <<>>
      /\ held' = [held EXCEPT ![<<d, p>>] = r] /\ readyQ' = [readyQ EXCEPT ![d] = Tail(@)]
      /\ UNCHANGED <<executed, doneQ, taken, frame, enqueued>>
  BY <1>0, <1>1 DEF AcquireRef, AtParam, InstOf, nodeVars, userVars, controlVars, countVars
<1>3. d \in Data /\ Untouched(d, p)
  BY <1>1, <1>2, NotFull DEF Inv
<1>4. /\ q \in Seq(Ref) /\ held \in [Data \X Pipe -> Ref \cup {NoRef}]
      /\ readyQ \in [Data -> Seq(Ref)] /\ NoRef \notin Ref
  BY <1>3 DEF Inv, Detail, Typed, QueuesTyped, GraphParameters
<1>5. /\ r \in Ref /\ r = q[1] /\ Len(Tail(q)) = Len(q) - 1 /\ Len(q) \in Nat
      /\ \A j \in 1 .. Len(q) - 1 : Tail(q)[j] = q[j + 1]
      /\ Tail(q) \in Seq(Ref)
  BY <1>2, <1>4, Taken, ListOf
<1>6. /\ held'[<<d, p>>] = r /\ r # NoRef
      /\ \A e \in Data, b \in Pipe : <<e, b>> # <<d, p>> => held'[<<e, b>>] = held[<<e, b>>]
      /\ readyQ'[d] = Tail(q) /\ \A e \in Data : e # d => readyQ'[e] = readyQ[e]
  BY <1>2, <1>3, <1>4, <1>5
<1>7. InRun' = InRun /\ \A b \in Pipe : RunOf(b)' = RunOf(b)
  BY RunsSame DEF SameRun
<1>8. /\ Fresh(d, p) /\ ~Fresh(d, p)' /\ ~Gone(d, p) /\ ~Gone(d, p)'
      /\ \A e \in Data, b \in Pipe : <<e, b>> # <<d, p>> => /\ Fresh(e, b)' <=> Fresh(e, b)
                                                            /\ Gone(e, b)' <=> Gone(e, b)
  <2>1. \A e, b : Untouched(e, b)' <=> Untouched(e, b)
    BY <1>2 DEF Untouched
  <2> QED
    BY <1>2, <1>3, <1>6, <2>1 DEF Fresh, Gone
<1>9. GivenInv'
  <2>1. \A e \in UserData : taken'[e] \in Nat /\ Given(e)' = Given(e)
    BY <1>2 DEF DataInv, Given
  <2>2. \A e \in UserData, b \in Pipe : Gone(e, b)' <=> Gone(e, b)
    BY <1>8 DEF GraphParameters
  <2> QED
    BY <2>1, <2>2, GivenKept DEF DataInv
<1>10. d = Param0 => RunOf(p) = Fed + 1
  <2> SUFFICES ASSUME d = Param0, RunOf(p) # Fed + 1 PROVE FALSE
    OBVIOUS
  <2>1. /\ done \in Nat /\ submitted \in Nat /\ Fed \in Int /\ done <= Fed
        /\ RunOf(p) \in done + 1 .. done + Depth /\ Depth \in Nat
    BY Counts, FedCounts, Numbers DEF DataInv, FedInv
  <2>2. RunOf(p) > Fed /\ RunOf(p) <= done + submitted
    BY <1>1, <1>8 DEF DataInv, FedInv, RunsNumbered
  <2>3. Fed + 1 < RunOf(p) /\ Fed + 1 \in done + 1 .. done + Depth
    BY <2>1, <2>2
  <2>4. PICK b \in Pipe : RunOf(b) = Fed + 1
    BY <2>1, <2>3, Numbers
  <2>5. b \in InRun /\ Before(b, p)
    <3>1. RunOf(b) <= done + submitted
      BY <2>1, <2>2, <2>3, <2>4
    <3> QED
      BY <1>1, <2>3, <2>4, <3>1 DEF RunsNumbered, Before
  <2>6. Fresh(Param0, b)
    <3>1. RunOf(b) > Fed
      BY <2>1, <2>4
    <3> QED
      BY <2>5, <3>1 DEF DataInv, FedInv
  <2>7. <<n, b>> \notin executed
    BY <1>2, <2>6 DEF Fresh, Untouched
  <2>8. Acquiring(n, p)
    BY <1>1, <1>2 DEF Acquiring, OnTask
  <2> QED
    BY <2>5, <2>7, <2>8 DEF TurnInv, AcquireInOrder
<1>11. d = Param0 => Fed' = Fed + 1
  <2> SUFFICES ASSUME d = Param0 PROVE Fed' = Fed + 1
    OBVIOUS
  <2>1. enqueued \in Nat /\ enqueued' = enqueued
    BY <1>2, Counts
  <2>2. Fed' = enqueued' - Len(readyQ'[Param0]) /\ Fed = enqueued - Len(q)
    BY DEF Fed
  <2>3. Len(readyQ'[Param0]) = Len(q) - 1
    BY <1>5, <1>6
  <2> QED
    BY <1>5, <2>1, <2>2, <2>3
<1>12. d # Param0 => Fed' = Fed /\ readyQ'[Param0] = readyQ[Param0]
  BY <1>2, <1>6, FirstParam DEF Fed
<1>13. FedInv'
  <2>1. CASE d = Param0
    <3>1. /\ done \in Nat /\ submitted \in Nat /\ Fed \in Int /\ done <= Fed
          /\ Fed + 1 <= done + submitted
      <4>1. RunOf(p) <= done + submitted
        BY <1>1 DEF RunsNumbered
      <4> QED
        BY <1>10, <2>1, <4>1, Counts, FedCounts DEF DataInv, FedInv
    <3>2. ASSUME NEW b \in Pipe, b \in InRun
          PROVE  Fresh(Param0, b)' <=> RunOf(b) > Fed + 1
      <4>1. CASE b = p
        BY <1>8, <1>10, <2>1, <3>1, <4>1
      <4>2. CASE b # p
        <5>1. Fresh(Param0, b)' <=> RunOf(b) > Fed
          BY <1>3, <1>8, <2>1, <3>2, <4>2 DEF DataInv, FedInv
        <5>2. RunOf(b) # Fed + 1 /\ RunOf(b) \in Int
          BY <1>10, <2>1, <3>1, <4>2, Numbers
        <5> QED
          BY <3>1, <5>1, <5>2
      <4> QED
        BY <4>1, <4>2
    <3>3. done' = done /\ submitted' = submitted
      BY DEF SameRuns
    <3> QED
      BY <1>7, <1>11, <2>1, <3>1, <3>2, <3>3 DEF FedInv
  <2>2. CASE d # Param0
    <3>1. \A b \in Pipe : Fresh(Param0, b)' <=> Fresh(Param0, b)
      BY <1>8, <2>2, FirstParam
    <3> QED
      BY <1>12, <2>2, <3>1, FedKept DEF DataInv
  <2> QED
    BY <2>1, <2>2
<1>14. ReadyFrames'
  <2>1. CASE d = Param0
    <3>0. readyQ'[Param0] = Tail(q) /\ Fed' = Fed + 1 /\ frame' = frame
      BY <1>2, <1>6, <1>11, <2>1
    <3> SUFFICES ASSUME NEW j \in DOMAIN Tail(q)
                 PROVE  frame[Tail(q)[j]] = (Fed + 1) + j
      BY <3>0 DEF ReadyFrames
    <3>1. j \in 1 .. Len(q) - 1
      BY <1>5
    <3>2. j + 1 \in DOMAIN q
      BY <1>4, <1>5, <3>1
    <3>3. frame[q[j + 1]] = Fed + (j + 1)
      BY <2>1, <3>2 DEF DataInv, ReadyFrames
    <3>4. Fed \in Int
      BY FedCounts
    <3> QED
      BY <1>5, <3>1, <3>3, <3>4
  <2>2. CASE d # Param0
    BY <1>2, <1>12, <2>2 DEF DataInv, ReadyFrames
  <2> QED
    BY <2>1, <2>2
<1>15. HeldFrames'
  <2> SUFFICES ASSUME NEW e \in Data, NEW b \in Pipe, held'[<<e, b>>] # NoRef, Written(e, b)
               PROVE  frame[held'[<<e, b>>]] = RunOf(b)
    <3>1. \A e, b : Written(e, b)' <=> Written(e, b)
      BY <1>2 DEF Written
    <3> QED
      BY <1>2, <1>7, <3>1 DEF HeldFrames
  <2>1. CASE e = d /\ b = p
    <3>1. Producer[d] = NoActor
      <4> SUFFICES ASSUME Producer[d] # NoActor PROVE FALSE
        OBVIOUS
      <4>1. Producer[d] \in Node /\ d \in Range(Params[Producer[d]])
        BY <1>3 DEF GraphParameters
      <4> QED
        BY <1>3, <2>1, <4>1 DEF Written, Untouched
    <3>2. d = Param0
      BY <1>3, <3>1, GraphAssumption
    <3>3. 1 \in DOMAIN q
      BY <1>2, <1>4, ListOf
    <3>4. frame[r] = Fed + 1
      BY <1>5, <3>2, <3>3 DEF DataInv, ReadyFrames
    <3> QED
      BY <1>6, <1>10, <2>1, <3>2, <3>4
  <2>2. CASE ~(e = d /\ b = p)
    BY <1>6, <2>2 DEF DataInv, HeldFrames
  <2> QED
    BY <2>1, <2>2
<1>16. FramesInOrder'
  BY <1>2 DEF DataInv, FramesInOrder
<1> QED
  BY <1>2, <1>9, <1>13, <1>14, <1>15, <1>16 DEF DataInv

\* What a node that is executed works on: the data of its run.
LEMMA WorksOn ==
  ASSUME Inv, GraphParameters, NodesRead, DataInv, NEW t \in Target, NEW n \in Node, NEW p \in Pipe,
         task[t].at = "acquire", task[t].inst = <<n, p>>, Due(<<n, p>>),
         Params[n] \in Seq(Data), Len(task[t].prm) = Len(Params[n]), task[t].prm \in Seq(Ref)
  PROVE  /\ \A k \in DOMAIN Params[n] : /\ Params[n][k] \in Data
                                        /\ task[t].prm[k] = held[<<Params[n][k], p>>]
                                        /\ held[<<Params[n][k], p>>] # NoRef
         /\ \A k \in DOMAIN Params[n] :
               Producer[Params[n][k]] # n => frame[task[t].prm[k]] = RunOf(p)
         /\ \E k \in DOMAIN Params[n] : Producer[Params[n][k]] # n
<1>1. ASSUME NEW k \in DOMAIN Params[n]
      PROVE  /\ Params[n][k] \in Data /\ task[t].prm[k] = held[<<Params[n][k], p>>]
             /\ held[<<Params[n][k], p>>] # NoRef
  <2>1. DOMAIN task[t].prm = DOMAIN Params[n] /\ Params[n][k] \in Data
    OBVIOUS
  <2>2. PrmOf(t) /\ Has(t, k)
    BY DEF Inv, Detail, PrmInv, Has
  <2> QED
    BY <2>1, <2>2 DEF PrmOf
<1>2. ASSUME NEW k \in DOMAIN Params[n], Producer[Params[n][k]] # n
      PROVE  frame[task[t].prm[k]] = RunOf(p)
  <2> DEFINE d == Params[n][k]
  <2>1. d \in Data /\ d \in Range(Params[n])
    BY <1>1 DEF Range
  <2>2. Written(d, p)
    <3> SUFFICES ASSUME Producer[d] # NoActor PROVE <<Producer[d], p>> \in executed
      BY DEF Written
    <3>1. Producer[d] \in Node /\ Consumers(d) \subseteq Range(OutNodes[Producer[d]])
      BY <2>1 DEF GraphParameters
    <3>2. n \in Consumers(d)
      BY <1>2, <2>1 DEF Consumers
    <3>3. Producer[d] \in InNodes(n)
      BY <3>1, <3>2 DEF InNodes
    <3> QED
      BY <3>3 DEF Due, Enabled
  <2> QED
    BY <1>1, <2>1, <2>2 DEF DataInv, HeldFrames
<1>3. \E k \in DOMAIN Params[n] : Producer[Params[n][k]] # n
  BY DEF NodesRead, Range
<1> QED
  BY <1>1, <1>2, <1>3

\* All input data of a node is of one run: so is its output data.
LEMMA ExecuteData ==
  ASSUME Inv, GraphParameters, NodesRead, DataInv, NEW t \in Target, ExecuteNode(t), SameRuns
  PROVE  DataInv'
<1>0. Detail
  BY DEF Inv
<1>1. PICK n \in Node, p \in Pipe, b0 \in Inst \cup {NoActor} :
            /\ task[t].at = "acquire" /\ task[t].inst = <<n, p>> /\ TargetOf[n] = t
            /\ Params[n] \in Seq(Data) /\ Len(task[t].prm) = Len(Params[n])
            /\ task[t].prm \in Seq(Ref)
            /\ task[t].wake = <<>> /\ task[t].after = NoActor
            /\ Due(<<n, p>>) /\ <<n, p>> \notin executed /\ p \in InRun
            /\ <<n, p>> \in Tokens(<<"acquire", t>>) /\ b0 = behind[<<n, p>>]
            /\ executed' = executed \cup {<<n, p>>} /\ blocked' = blocked \ {<<n, p>>}
            /\ behind' = [behind EXCEPT ![<<n, p>>] = NoActor]
            /\ TaskIs(t, "release", <<n, p>>, 1, task[t].prm, <<>>, b0)
            /\ \A d \in Range(Params[n]) : held[<<d, p>>] # NoRef
  BY <1>0, Executes
<1> DEFINE ks == DOMAIN Params[n]
           outs == {k \in ks : Producer[Params[n][k]] = n}
           from == {frame[task[t].prm[k]] : k \in ks \ outs}
           into == {task[t].prm[k] : k \in outs}
<1>2. /\ \A k \in ks : /\ Params[n][k] \in Data /\ task[t].prm[k] = held[<<Params[n][k], p>>]
                       /\ held[<<Params[n][k], p>>] # NoRef
      /\ \A k \in ks : Producer[Params[n][k]] # n => frame[task[t].prm[k]] = RunOf(p)
      /\ \E k \in ks : Producer[Params[n][k]] # n
  BY <1>1, WorksOn
<1>3. UNCHANGED <<held, readyQ, doneQ, taken, enqueued>>
  BY DEF ExecuteNode, queueVars, userVars, controlVars, countVars
<1>4. frame' = [r \in Ref |->
                  IF r \in into THEN IF Cardinality(from) = 1 THEN CHOOSE f \in from : TRUE ELSE 0
                                ELSE frame[r]]
  BY <1>1 DEF ExecuteNode, InstOf
<1>5. from = {RunOf(p)}
  BY <1>2
<1>6. Cardinality(from) = 1 /\ (CHOOSE f \in from : TRUE) = RunOf(p)
  <2>1. Cardinality({RunOf(p)}) = 1
    BY FS_Singleton
  <2> QED
    BY <1>5, <2>1
<1> HIDE DEF from
<1>7. \A r \in Ref : frame'[r] = IF r \in into THEN RunOf(p) ELSE frame[r]
  BY <1>4, <1>6
<1>8. frame \in [Ref -> Nat] /\ frame' \in [Ref -> Nat]
  <2>1. RunOf(p) \in Nat /\ frame \in [Ref -> Nat]
    BY Counts, Numbers DEF DataInv
  <2> QED
    BY <1>4, <1>6, <2>1
<1>9. ASSUME NEW r \in into
      PROVE  /\ r \in Ref /\ \A e \in Data : /\ r \notin Range(readyQ[e])
                                             /\ e \in UserData => r \notin Range(doneQ[e])
             /\ \A e \in Data, b \in Pipe : held[<<e, b>>] = r => e \in Range(Params[n]) /\ b = p
  <2>1. PICK k \in outs : r = task[t].prm[k]
    BY <1>9
  <2>2. Params[n][k] \in Data /\ r = held[<<Params[n][k], p>>] /\ held[<<Params[n][k], p>>] # NoRef
    BY <1>2, <2>1
  <2>3. Params[n][k] \in Range(Params[n])
    BY <2>1 DEF Range
  <2>4. /\ r \in Ref
        /\ \A e \in Data : /\ r \notin Range(readyQ[e])
                           /\ e \in UserData => r \notin Range(doneQ[e])
                           /\ \A b \in Pipe : held[<<e, b>>] = r => e = Params[n][k] /\ b = p
    <3>1. Detail
      BY DEF Inv
    <3> HIDE DEF ks, outs
    <3> QED
      BY <2>2, <3>1, RefHeld
  <2> QED
    BY <2>3, <2>4
<1>10. ASSUME NEW e \in Data, e \in Range(Params[n]), Producer[e] = n
       PROVE  held[<<e, p>>] \in into
  <2>1. PICK k \in ks : e = Params[n][k]
    BY <1>10 DEF Range
  <2> QED
    BY <1>2, <1>10, <2>1
<1> HIDE DEF into
<1>11. InRun' = InRun /\ \A b \in Pipe : RunOf(b)' = RunOf(b)
  BY RunsSame DEF SameRun
<1>12. \A e \in Data, b \in Pipe : /\ Fresh(e, b)' <=> Fresh(e, b)
                                   /\ Gone(e, b)' <=> Gone(e, b)
  <2> SUFFICES ASSUME NEW e \in Data, NEW b \in Pipe, held[<<e, b>>] = NoRef
               PROVE  Untouched(e, b)' <=> Untouched(e, b)
    BY <1>3 DEF Fresh, Gone
  <2>1. ASSUME NEW m \in Node, e \in Range(Params[m])
        PROVE  <<m, b>> \in executed' <=> <<m, b>> \in executed
    BY <1>1, <2>1
  <2> QED
    BY <2>1 DEF Untouched
<1>13. FedInv' /\ GivenInv'
  <2>1. Fed' = Fed /\ \A e \in UserData : taken'[e] \in Nat /\ Given(e)' = Given(e)
    BY <1>3 DEF Fed, Given, DataInv
  <2>2. UserData \subseteq Data
    BY DEF GraphParameters
  <2> QED
    BY <1>12, <2>1, <2>2, FirstParam, FedKept, GivenKept DEF DataInv
<1>14. ReadyFrames'
  <2> SUFFICES ASSUME NEW j \in DOMAIN readyQ[Param0]
               PROVE  frame'[readyQ[Param0][j]] = Fed + j
    BY <1>3 DEF ReadyFrames, Fed
  <2>1. readyQ[Param0][j] \in Ref
    BY FirstParam DEF Inv, Detail, Typed, QueuesTyped
  <2>2. readyQ[Param0][j] \notin into
    BY <1>9, FirstParam DEF Range
  <2> QED
    BY <1>7, <2>1, <2>2 DEF DataInv, ReadyFrames
<1>15. HeldFrames'
  <2> SUFFICES ASSUME NEW e \in Data, NEW b \in Pipe, held[<<e, b>>] # NoRef, Written(e, b)'
               PROVE  frame'[held[<<e, b>>]] = RunOf(b)
    BY <1>3, <1>11 DEF HeldFrames
  <2>1. held[<<e, b>>] \in Ref
    BY RefHeld DEF Inv
  <2>2. CASE held[<<e, b>>] \in into
    <3>1. b = p
      BY <1>9, <2>2
    <3> QED
      BY <1>7, <2>1, <2>2, <3>1
  <2>3. CASE held[<<e, b>>] \notin into
    <3>1. Written(e, b)
      <4> SUFFICES ASSUME Producer[e] # NoActor PROVE <<Producer[e], b>> \in executed
        BY DEF Written
      <4>1. Producer[e] \in Node /\ e \in Range(Params[Producer[e]])
        BY DEF GraphParameters
      <4>2. <<Producer[e], b>> \in executed'
        BY DEF Written
      <4>3. <<Producer[e], b>> # <<n, p>>
        BY <1>10, <2>3, <4>1
      <4> QED
        BY <1>1, <4>2, <4>3
    <3> QED
      BY <1>7, <2>1, <2>3, <3>1 DEF DataInv, HeldFrames
  <2> QED
    BY <2>2, <2>3
<1>16. FramesInOrder'
  <2> SUFFICES ASSUME NEW d \in UserData, NEW j \in DOMAIN doneQ[d]
               PROVE  frame'[doneQ[d][j]] = taken[d] + j
    BY <1>3 DEF FramesInOrder
  <2>1. doneQ[d][j] \in Ref
    BY DEF Inv, Detail, Typed, QueuesTyped
  <2>2. doneQ[d][j] \notin into
    BY <1>9 DEF Range, GraphParameters
  <2> QED
    BY <1>7, <2>1, <2>2 DEF DataInv, FramesInOrder
<1>17. taken' \in [UserData -> Nat]
  BY <1>3 DEF DataInv
<1> QED
  BY <1>8, <1>13, <1>14, <1>15, <1>16, <1>17 DEF DataInv

\* A run gives back data when all runs before it have.
LEMMA DoneData ==
  ASSUME Inv, GraphParameters, RunsNumbered, TurnInv, DataInv, NEW t \in Target, ReleaseDone(t),
         SameRuns
  PROVE  DataInv'
<1>0. Detail
  BY DEF Inv
<1>1. AtParam(t, "release")
  BY DEF ReleaseDone
<1>2. PICK n \in Node, p \in Pipe, k \in Nat \ {0}, d \in Data :
            /\ ReleasesFor(t, n, p, k, d) /\ d = Param(t) /\ InstOf(t) = <<n, p>>
            /\ task[t].prm[k] = held[<<d, p>>] /\ held[<<d, p>>] # NoRef
            /\ doneCnt[<<d, p>>] = Cardinality(Readers(d, p)) /\ ~Full(d, p)
  BY <1>0, <1>1, ReleasesParam
<1> DEFINE r == held[<<d, p>>]
           cnt == Cardinality(Readers(d, p)) + (IF Producer[d] = n THEN 0 ELSE 1)
<1>3. /\ d \in UserData /\ held' = [held EXCEPT ![<<d, p>>] = NoRef]
      /\ doneQ' = [doneQ EXCEPT ![d] = Append(@, r)] /\ cnt = Cardinality(Consumers(d))
      /\ UNCHANGED <<executed, readyQ, taken, frame, enqueued>>
  BY <1>0, <1>1, <1>2, LastReleases DEF ReleaseDone, ReleasesFor, DoneCount, IsLastConsumer,
     Released, nodeVars, userVars, controlVars, countVars
<1>4. SameNodes /\ Drops(t)
  <2>1. task' = [task EXCEPT ![t].at = "consumed"]
    BY DEF ReleaseDone
  <2>2. TasksTyped
    BY <1>0 DEF Detail, Typed
  <2>3. TaskIs(t, "consumed", task[t].inst, task[t].k, task[t].prm, task[t].wake, task[t].after)
    BY <2>1, <2>2, TaskSteps
  <2> QED
    BY <1>3, <2>3 DEF TaskIs, Drops, Others, SameNodes
<1>5. Full(d, p)'
  <2>1. /\ Cardinality(Readers(d, p)') = cnt
        /\ (cnt = Cardinality(Consumers(d))) <=> Full(d, p)'
    BY <1>0, <1>2, <1>4, LastConsumer
  <2> QED
    BY <1>3, <2>1
<1>6. <<n, p>> \in executed /\ d \in Range(Params[n]) /\ p \in InRun
  BY <1>2 DEF ReleasesFor, Range
<1>7. \A b \in Pipe : Before(b, p) => \A m \in Node : <<m, p>> \in executed =>
         <<m, b>> \in executed /\ ~Releasing(m, b)
  BY DEF TurnInv, ExecutedInOrder, OverInOrder, Over
\* everybody who uses the data in the run was executed
<1>8. \A m \in Node : d \in Range(Params[m]) => <<m, p>> \in executed
  <2>1. \A m \in Consumers(d) : <<m, p>> \in executed
    <3>1. CASE Consumers(d) = {}
      BY <3>1
    <3>2. CASE Consumers(d) # {}
      <4>1. Readers(d, p)' = Consumers(d)
        BY <1>5, <3>2 DEF Full
      <4>2. \A m \in Consumers(d) : ReleasedBy(m, d, p)'
        BY <4>1 DEF Readers
      <4> QED
        BY <1>3, <4>2 DEF ReleasedBy
    <3> QED
      BY <3>1, <3>2
  <2> SUFFICES ASSUME NEW m \in Node, d \in Range(Params[m]), Producer[d] = m
               PROVE  <<m, p>> \in executed
    BY <2>1 DEF Consumers
  <2>2. CASE Consumers(d) = {}
    BY <1>6, <2>2 DEF Consumers
  <2>3. CASE Consumers(d) # {}
    <3>1. PICK l \in Consumers(d) : TRUE
      BY <2>3
    <3>2. m \in InNodes(l) /\ l \in Node
      <4>1. m # NoActor
        BY DEF GraphParameters
      <4>2. Consumers(d) \subseteq Range(OutNodes[m])
        BY <4>1, <2>2 DEF GraphParameters
      <4> QED
        BY <3>1, <4>2 DEF Consumers, InNodes
    <3>3. Enabled(<<l, p>>)
      BY <1>0, <2>1, <3>1 DEF Detail, ExecInv
    <3> QED
      BY <3>2, <3>3 DEF Enabled
  <2> QED
    BY <2>2, <2>3
<1>9. ASSUME NEW b \in Pipe, Before(b, p) PROVE Gone(d, b)
  <2>1. \A m \in Node : d \in Range(Params[m]) => ReleasedBy(m, d, b)
    <3> SUFFICES ASSUME NEW m \in Node, d \in Range(Params[m]) PROVE ReleasedBy(m, d, b)
      OBVIOUS
    <3>1. <<m, b>> \in executed /\ ~Releasing(m, b)
      BY <1>7, <1>8, <1>9
    <3>2. ~StillHas(m, d, b)
      BY <3>1 DEF StillHas, Releasing
    <3> QED
      BY <3>1, <3>2 DEF ReleasedBy
  <2>2. Full(d, b)
    <3>1. CASE Consumers(d) = {}
      <4>1. Producer[d] = n
        BY <1>6, <3>1 DEF Consumers
      <4> QED
        BY <1>6, <2>1, <3>1, <4>1 DEF Full
    <3>2. CASE Consumers(d) # {}
      <4>1. \A m \in Consumers(d) : ReleasedBy(m, d, b)
        BY <2>1 DEF Consumers
      <4>2. Readers(d, b) = Consumers(d)
        BY <4>1 DEF Readers
      <4> QED
        BY <3>2, <4>2 DEF Full
    <3> QED
      BY <3>1, <3>2
  <2>3. held[<<d, b>>] = NoRef
    BY <1>0, <2>2 DEF Detail, HeldInv, HeldOf
  <2>4. ~Untouched(d, b)
    BY <1>6, <1>7, <1>9 DEF Untouched
  <2> QED
    BY <2>3, <2>4 DEF Gone
<1>10. /\ done \in Nat /\ submitted \in Nat /\ Given(d) \in Nat /\ taken[d] \in Nat
       /\ done <= Given(d) /\ Given(d) <= done + submitted /\ Depth \in Nat
  <2>1. GivenOf(d)
    BY <1>3 DEF DataInv, GivenInv
  <2> QED
    BY <1>3, <2>1, Counts, FedCounts DEF GivenOf
<1>11. RunOf(p) = Given(d) + 1
  <2> SUFFICES ASSUME RunOf(p) # Given(d) + 1 PROVE FALSE
    OBVIOUS
  <2>1. RunOf(p) \in done + 1 .. done + Depth /\ RunOf(p) <= done + submitted
    BY <1>6, <1>10, Numbers DEF RunsNumbered
  <2>2. RunOf(p) > Given(d)
    <3>1. ~Gone(d, p) /\ GivenOf(d)
      BY <1>2, <1>3 DEF Gone, DataInv, GivenInv
    <3>2. ~(RunOf(p) <= Given(d))
      BY <1>6, <3>1 DEF GivenOf
    <3> QED
      BY <1>10, <2>1, <3>2
  <2>3. Given(d) + 1 < RunOf(p) /\ Given(d) + 1 \in done + 1 .. done + Depth
    BY <1>10, <2>1, <2>2
  <2>4. PICK b \in Pipe : RunOf(b) = Given(d) + 1
    BY <1>10, <2>3, Numbers
  <2>5. b \in InRun /\ Before(b, p)
    <3>1. RunOf(b) <= done + submitted
      BY <1>10, <2>1, <2>3, <2>4
    <3> QED
      BY <1>6, <2>3, <2>4, <3>1 DEF RunsNumbered, Before
  <2>6. Gone(d, b)
    BY <1>9, <2>5
  <2>7. RunOf(b) <= Given(d)
    BY <1>3, <2>5, <2>6 DEF DataInv, GivenInv, GivenOf
  <2> QED
    BY <1>10, <2>4, <2>7
<1>12. /\ doneQ[d] \in Seq(Ref) /\ r \in Ref /\ doneQ \in [UserData -> Seq(Ref)]
       /\ held \in [Data \X Pipe -> Ref \cup {NoRef}]
  BY <1>0, <1>2, <1>3 DEF Detail, Typed, QueuesTyped
<1>13. /\ held'[<<d, p>>] = NoRef
       /\ \A e \in Data, b \in Pipe : <<e, b>> # <<d, p>> => held'[<<e, b>>] = held[<<e, b>>]
       /\ doneQ'[d] = Append(doneQ[d], r) /\ \A e \in UserData \ {d} : doneQ'[e] = doneQ[e]
  BY <1>3, <1>12
<1>14. InRun' = InRun /\ \A b \in Pipe : RunOf(b)' = RunOf(b)
  BY RunsSame DEF SameRun
<1>15. /\ ~Fresh(d, p) /\ ~Fresh(d, p)' /\ Gone(d, p)'
       /\ \A e \in Data, b \in Pipe : <<e, b>> # <<d, p>> => /\ Fresh(e, b)' <=> Fresh(e, b)
                                                             /\ Gone(e, b)' <=> Gone(e, b)
  <2>1. \A e, b : Untouched(e, b)' <=> Untouched(e, b)
    BY <1>3 DEF Untouched
  <2>2. ~Untouched(d, p)
    BY <1>6 DEF Untouched
  <2> QED
    BY <1>2, <1>13, <2>1, <2>2 DEF Fresh, Gone
<1>16. FedInv'
  <2>1. Fed' = Fed
    BY <1>3 DEF Fed
  <2>2. \A b \in Pipe : Fresh(Param0, b)' <=> Fresh(Param0, b)
    BY <1>15, FirstParam
  <2> QED
    BY <2>1, <2>2, FedKept DEF DataInv
<1>17. Len(doneQ'[d]) = Len(doneQ[d]) + 1 /\ Len(doneQ[d]) \in Nat
  BY <1>12, <1>13, Appended, ListOf
<1>18. Given(d)' = Given(d) + 1 /\ \A e \in UserData \ {d} : Given(e)' = Given(e)
  <2>1. /\ Given(d)' = taken'[d] + Len(doneQ'[d]) /\ Given(d) = taken[d] + Len(doneQ[d])
        /\ taken'[d] = taken[d]
    BY <1>3 DEF Given
  <2>2. Given(d)' = Given(d) + 1
    BY <1>10, <1>17, <2>1
  <2> QED
    BY <1>3, <1>13, <2>2 DEF Given
<1>19. GivenInv'
  <2> SUFFICES ASSUME NEW e \in UserData PROVE GivenOf(e)'
    BY DEF GivenInv
  <2>1. GivenOf(e) /\ e \in Data
    BY DEF DataInv, GivenInv, GraphParameters
  <2>2. done' = done /\ submitted' = submitted /\ taken' = taken
    BY <1>3 DEF SameRuns
  <2>3. CASE e # d
    BY <1>14, <1>15, <1>18, <2>1, <2>2, <2>3 DEF GivenOf
  <2>4. CASE e = d
    <3>1. RunOf(p) <= done + submitted
      BY <1>6 DEF RunsNumbered
    <3>2. ASSUME NEW b \in Pipe, b \in InRun PROVE Gone(d, b)' <=> RunOf(b) <= Given(d) + 1
      <4>1. CASE b = p
        BY <1>10, <1>11, <1>15, <4>1
      <4>2. CASE b # p
        <5>1. Gone(d, b)' <=> RunOf(b) <= Given(d)
          BY <1>15, <2>1, <2>4, <3>2, <4>2 DEF GivenOf
        <5>2. RunOf(b) # Given(d) + 1 /\ RunOf(b) \in Int
          BY <1>10, <1>11, <4>2, Numbers
        <5> QED
          BY <1>10, <5>1, <5>2
      <4> QED
        BY <4>1, <4>2
    <3>3. done <= Given(d) + 1 /\ Given(d) + 1 <= done + submitted
      BY <1>10, <1>11, <3>1
    <3> QED
      BY <1>10, <1>14, <1>18, <2>2, <2>4, <3>2, <3>3 DEF GivenOf
  <2> QED
    BY <2>3, <2>4
<1>20. ReadyFrames'
  BY <1>3 DEF DataInv, ReadyFrames, Fed
<1>21. HeldFrames'
  <2>1. \A e, b : Written(e, b)' <=> Written(e, b)
    BY <1>3 DEF Written
  <2>2. \A e \in Data, b \in Pipe : held'[<<e, b>>] # NoRef => held'[<<e, b>>] = held[<<e, b>>]
    BY <1>13
  <2> QED
    BY <1>3, <1>14, <2>1, <2>2 DEF DataInv, HeldFrames
<1>22. frame[r] = RunOf(p)
  <2>1. Written(d, p)
    <3> SUFFICES ASSUME Producer[d] # NoActor PROVE <<Producer[d], p>> \in executed
      BY DEF Written
    <3>1. Producer[d] \in Node /\ d \in Range(Params[Producer[d]])
      BY DEF GraphParameters
    <3> QED
      BY <1>8, <3>1
  <2> QED
    BY <1>2, <2>1 DEF DataInv, HeldFrames
<1>23. FramesInOrder'
  <2> SUFFICES ASSUME NEW e \in UserData, NEW j \in DOMAIN doneQ'[e]
               PROVE  frame[doneQ'[e][j]] = taken[e] + j
    BY <1>3 DEF FramesInOrder
  <2>1. CASE e # d
    BY <1>13, <2>1 DEF DataInv, FramesInOrder
  <2>2. CASE e = d
    <3> DEFINE s == doneQ[d]
    <3>1. s \in Seq(Ref) /\ doneQ'[d] = Append(s, r) /\ Len(s) \in Nat
      BY <1>12, <1>13, <1>17
    <3>2. j \in 1 .. Len(s) + 1
      BY <1>12, <2>2, <3>1
    <3>3. CASE j \in 1 .. Len(s)
      <4>1. doneQ'[d][j] = s[j] /\ j \in DOMAIN s
        BY <1>12, <3>1, <3>3
      <4> QED
        BY <1>3, <2>2, <4>1 DEF DataInv, FramesInOrder
    <3>4. CASE j = Len(s) + 1
      <4>1. doneQ'[d][j] = r
        BY <1>12, <3>1, <3>4
      <4>2. Given(d) = taken[d] + Len(s)
        BY DEF Given
      <4> QED
        BY <1>10, <1>11, <1>22, <2>2, <3>1, <3>4, <4>1, <4>2
    <3> QED
      BY <3>1, <3>2, <3>3, <3>4
  <2> QED
    BY <2>1, <2>2
<1> QED
  BY <1>3, <1>16, <1>19, <1>20, <1>21, <1>23 DEF DataInv

\* All data of a run that is complete was given back, and it was the oldest run.
LEMMA CompleteData ==
  ASSUME Inv, GraphParameters, FreeInOrder, DataInv, NEW p \in Pipe, NEW ab, CompleteControl(p, ab),
         p \in InRun, RunOf(p) = done + 1, \A x \in Node : <<x, p>> \in executed,
         \A d \in Data : held[<<d, p>>] = NoRef,
         UNCHANGED <<executed, held, readyQ, doneQ, taken, frame>>
  PROVE  DataInv'
<1>1. /\ InRun' = InRun \ {p} /\ done' = done + 1 /\ submitted' = submitted - 1
      /\ enqueued' = enqueued /\ \A q \in InRun' : RunOf(q)' = RunOf(q)
  BY RunCompleted
<1>2. done \in Nat /\ submitted \in Nat /\ Fed \in Int /\ \A d \in UserData : Given(d) \in Nat
  BY Counts, FedCounts DEF DataInv, GivenInv, GivenOf
<1>3. \A d \in Data, q \in Pipe : Fresh(d, q)' <=> Fresh(d, q)
  BY DEF Fresh, Untouched
<1>4. \A d \in Data, q \in Pipe : Gone(d, q)' <=> Gone(d, q)
  BY DEF Gone, Untouched
<1>5. \A d \in Data : ~Untouched(d, p)
  <2> SUFFICES ASSUME NEW d \in Data PROVE \E n \in Node : d \in Range(Params[n])
    BY DEF Untouched
  <2>1. CASE Producer[d] = NoActor
    <3>1. d = Param0
      BY <2>1, GraphAssumption
    <3>2. Consumers(d) # {}
      BY <3>1 DEF GraphParameters
    <3> QED
      BY <3>2 DEF Consumers
  <2>2. CASE Producer[d] # NoActor
    BY <2>2 DEF GraphParameters
  <2> QED
    BY <2>1, <2>2
<1>6. Fed' = Fed /\ \A d \in UserData : Given(d)' = Given(d)
  BY <1>1 DEF Fed, Given
<1>7. UserData \subseteq Data /\ Param0 \in Data
  BY FirstParam DEF GraphParameters
<1>8. FedInv'
  <2>1. done <= Fed /\ Fed <= done + submitted
    BY DEF DataInv, FedInv
  <2>2. ~Fresh(Param0, p)
    BY <1>5, <1>7 DEF Fresh
  <2>3. ~(RunOf(p) > Fed)
    BY <2>2 DEF DataInv, FedInv
  <2>4. done' <= Fed /\ Fed <= done' + submitted'
    BY <1>1, <1>2, <2>1, <2>3
  <2>5. \A q \in Pipe : q \in InRun' => (Fresh(Param0, q)' <=> RunOf(q)' > Fed)
    BY <1>1, <1>3, <1>7 DEF DataInv, FedInv
  <2> QED
    BY <1>6, <2>4, <2>5 DEF FedInv
<1>9. GivenInv'
  <2> SUFFICES ASSUME NEW d \in UserData PROVE GivenOf(d)'
    BY DEF GivenInv
  <2>1. GivenOf(d) /\ d \in Data
    BY <1>7 DEF DataInv, GivenInv
  <2>2. Gone(d, p)
    BY <1>5, <2>1 DEF Gone
  <2>3. RunOf(p) <= Given(d)
    BY <2>1, <2>2 DEF GivenOf
  <2>4. done' <= Given(d) /\ Given(d) <= done' + submitted'
    BY <1>1, <1>2, <2>1, <2>3 DEF GivenOf
  <2>5. \A q \in Pipe : q \in InRun' => (Gone(d, q)' <=> RunOf(q)' <= Given(d))
    BY <1>1, <1>4, <2>1 DEF GivenOf
  <2> QED
    BY <1>6, <2>1, <2>4, <2>5 DEF GivenOf
<1>10. ReadyFrames' /\ FramesInOrder'
  BY <1>6 DEF DataInv, ReadyFrames, FramesInOrder
<1>11. HeldFrames'
  <2> SUFFICES ASSUME NEW d \in Data, NEW q \in Pipe, held[<<d, q>>] # NoRef, Written(d, q)'
               PROVE  frame[held[<<d, q>>]] = RunOf(q)'
    BY DEF HeldFrames
  <2>1. q \in InRun'
    BY <1>1, HoldersRun
  <2>2. Written(d, q)
    BY DEF Written
  <2> QED
    BY <1>1, <2>1, <2>2 DEF DataInv, HeldFrames
<1> QED
  BY <1>8, <1>9, <1>10, <1>11 DEF DataInv

\* Before the graph is verified there is no run and no data.
LEMMA VerifyData ==
  ASSUME Inv, GraphParameters, FreeInOrder, DataInv, VerifyGraph
  PROVE  DataInv'
<1>1. /\ InRun = {} /\ InRun' = {} /\ done' = done /\ submitted' = submitted
      /\ enqueued' = enqueued
  BY RunsVerified
<1>2. UNCHANGED <<executed, held, doneQ, taken, frame>>
  BY DEF VerifyGraph, nodeVars, userVars
<1>3. readyQ[Param0] = <<>> /\ readyQ'[Param0] = <<>>
  <2>1. verified = 0
    <3>1. verified \in Nat /\ verified < 1
      BY Counts, GraphAssumption DEF VerifyGraph, VerifyControl
    <3> QED
      BY <3>1
  <2>2. Unverified
    BY DEF Inv, Detail
  <2> QED
    BY <2>1, <2>2, FirstParam DEF Unverified, VerifyGraph
<1>4. Fed' = Fed /\ \A d \in UserData : Given(d)' = Given(d)
  BY <1>1, <1>2, <1>3 DEF Fed, Given
<1>5. FedInv'
  BY <1>1, <1>4 DEF DataInv, FedInv
<1>6. GivenInv'
  <2>1. \A d \in UserData : GivenOf(d)'
    BY <1>1, <1>2, <1>4 DEF DataInv, GivenInv, GivenOf
  <2> QED
    BY <2>1 DEF GivenInv
<1>7. ReadyFrames'
  <2>1. DOMAIN readyQ'[Param0] = {}
    BY <1>3
  <2> QED
    BY <2>1 DEF ReadyFrames
<1>8. HeldFrames'
  <2>1. \A d \in Data, p \in Pipe : held'[<<d, p>>] = NoRef
    BY <1>1, <1>2, HoldersRun
  <2> QED
    BY <2>1 DEF HeldFrames
<1>9. FramesInOrder'
  BY <1>2 DEF DataInv, FramesInOrder
<1> QED
  BY <1>2, <1>5, <1>6, <1>7, <1>8, <1>9 DEF DataInv

\* A reference between nodes is given back to its queue.
LEMMA ReleaseData ==
  ASSUME GraphParameters, Detail, DataInv, NEW t \in Target, ReleaseParam(t), SameRuns
  PROVE  DataInv'
<1>1. AtParam(t, "release")
  BY DEF ReleaseParam
<1>2. PICK n \in Node, p \in Pipe, k \in Nat \ {0}, d \in Data :
            /\ ReleasesFor(t, n, p, k, d) /\ d = Param(t) /\ InstOf(t) = <<n, p>>
            /\ task[t].prm[k] = held[<<d, p>>] /\ held[<<d, p>>] # NoRef
            /\ doneCnt[<<d, p>>] = Cardinality(Readers(d, p)) /\ ~Full(d, p)
  BY <1>1, ReleasesParam
<1>3. /\ d \notin UserData /\ held' = [held EXCEPT ![<<d, p>>] = NoRef]
      /\ readyQ' = [readyQ EXCEPT ![d] = Append(@, Released(t))]
      /\ UNCHANGED <<executed, frame, enqueued, doneQ, taken>>
  BY <1>2 DEF ReleaseParam, nodeVars, userVars, controlVars, countVars
<1>4. held \in [Data \X Pipe -> Ref \cup {NoRef}] /\ readyQ \in [Data -> Seq(Ref)]
  BY DEF Detail, Typed, QueuesTyped
<1>5. \A e \in Data, q \in Pipe :
         held'[<<e, q>>] = IF <<e, q>> = <<d, p>> THEN NoRef ELSE held[<<e, q>>]
  BY <1>3, <1>4
<1>6. readyQ'[Param0] = readyQ[Param0]
  BY <1>3, <1>4, FirstParam
<1>7. \A e \in UserData, q \in Pipe : held'[<<e, q>>] = held[<<e, q>>]
  <2>1. UserData \subseteq Data
    BY DEF GraphParameters
  <2> QED
    BY <1>3, <1>5, <2>1
<1>8. \A e \in Data, q \in Pipe : held'[<<e, q>>] = held[<<e, q>>] \/ held'[<<e, q>>] = NoRef
  BY <1>5
<1> QED
  BY <1>3, <1>6, <1>7, <1>8, DataKept

\* Nothing happens to the data.
LEMMA DataLeft ==
  ASSUME GraphParameters, DataInv, SameRuns,
         UNCHANGED <<executed, frame, enqueued, doneQ, taken, held, readyQ>>
  PROVE  DataInv'
BY DataKept

-----------------------------------------------------------------------------
(* The invariant is kept                                                    *)

\* It is enough that the runs keep their numbers, the nodes and reports their order,
\* and the data its run.
LEMMA OrderKept ==
  ASSUME Inv', OrderInv, SameRuns, TurnInv', ReportsInOrder', DataInv'
  PROVE  OrderInv'
<1>1. FreeInOrder'
  BY RunsSame DEF OrderInv
<1>2. RunsNumbered'
  BY <1>1, NumberedAfter
<1> QED
  BY <1>1, <1>2 DEF OrderInv

\* A step that the host hears nothing of, and that does nothing to the data ...
LEMMA SilentOrder ==
  ASSUME Inv, Inv', GraphParameters, OrderInv, QuietTurn, Silent, DataInv'
  PROVE  OrderInv'
<1>1. SameRuns /\ executed' = executed
  BY DEF QuietTurn, nodeVars
<1>2. TurnInv'
  BY QuietKept DEF OrderInv
<1>3. \A a, b \in Pipe : Before(a, b)' => Before(a, b)
  BY <1>1, RunsSame
<1>4. ReportsInOrder'
  BY <1>1, <1>3, ReportsKept DEF OrderInv, Silent, SameReleasing
<1> QED
  BY <1>1, <1>2, <1>4, OrderKept

\* ... the application enqueues ...
LEMMA EnqueueOrder ==
  ASSUME Inv, Inv', GraphParameters, OrderInv,
         \/ \E a \in App : EnqueueInput(a)
         \/ \E d \in UserData : EnqueueOutput(d)
  PROVE  OrderInv'
<1>1. DataInv /\ Detail
  BY DEF OrderInv, Inv
<1>2. DataInv' /\ SameRuns /\ UNCHANGED <<task, jobQ>>
  BY <1>1, InputData, OutputData
<1>3. \E d \in UserData : \E r : EnqueueReady(d, r)
  BY FirstParam DEF EnqueueInput, EnqueueOutput
<1>4. QuietTurn
  BY <1>1, <1>2, <1>3, EnqueueQuiet
<1>5. Silent
  BY <1>2, TaskSame DEF Silent
<1> QED
  BY <1>2, <1>4, <1>5, SilentOrder

\* ... triggers the nodes it found blocked, or dequeues ...
LEMMA CallOrder ==
  ASSUME Inv, Inv', GraphParameters, OrderInv,
         \/ \E d \in UserData : Retrigger(d)
         \/ \E x \in Dequeuer : Dequeue(x)
  PROVE  OrderInv'
<1>1. DataInv /\ Detail /\ JobsTyped /\ Host \notin Target
  BY GraphAssumption DEF OrderInv, Inv, Detail, Typed
<1>2. ASSUME NEW d \in UserData, Retrigger(d) PROVE OrderInv'
  <2>1. QuietTurn /\ Silent
    BY <1>1, <1>2, RetriggerQuiet
  <2>2. /\ SameRuns
        /\ UNCHANGED <<executed, frame, enqueued, doneQ, taken, held, readyQ>>
    BY <1>2, <2>1 DEF QuietTurn, Retrigger, nodeVars, queueVars, controlVars, countVars
  <2>3. DataInv'
    BY <1>1, <2>2, DataLeft
  <2> QED
    BY <2>1, <2>3, SilentOrder
<1>3. ASSUME NEW x \in Dequeuer, Dequeue(x) PROVE OrderInv'
  <2>1. QuietTurn
    BY <1>1, <1>3, OutsideQuiet
  <2>2. task' = task /\ jobQ' = jobQ
    BY <1>3 DEF Dequeue, DequeueRef, DequeueNothing, DequeueWait, DequeueWoken
  <2>3. DataInv'
    <3>1. CASE DequeueRef(x)
      BY <1>1, <3>1, DequeueData
    <3>2. CASE DequeueNothing(x) \/ DequeueWait(x) \/ DequeueWoken(x)
      <4>1. /\ SameRuns
            /\ UNCHANGED <<executed, frame, enqueued, doneQ, taken, held, readyQ>>
        BY <2>1, <3>2 DEF QuietTurn, DequeueNothing, DequeueWait, DequeueWoken, nodeVars, queueVars,
                          controlVars, countVars
      <4> QED
        BY <1>1, <4>1, DataLeft
    <3> QED
      BY <1>3, <3>1, <3>2 DEF Dequeue
  <2>4. Silent
    BY <2>2, TaskSame DEF Silent
  <2> QED
    BY <2>1, <2>3, <2>4, SilentOrder
<1> QED
  BY <1>2, <1>3

\* ... or a thread counts, locks and schedules.
LEMMA ControlOrder ==
  ASSUME Inv, Inv', GraphParameters, OrderInv,
         \/ \E a \in App : CallStep(a)
         \/ (RescheduleLock \/ ScheduleUnlock \/ HostAbandons) /\ UNCHANGED detailVars
         \/ UNCHANGED vars
  PROVE  OrderInv'
<1>1. QuietTurn /\ UNCHANGED detailVars /\ UNCHANGED enqueued
  BY ControlQuiet
<1>2. /\ SameRuns /\ UNCHANGED <<task, jobQ>>
      /\ UNCHANGED <<executed, frame, enqueued, doneQ, taken, held, readyQ>>
  BY <1>1 DEF QuietTurn, detailVars, nodeVars, queueVars, userVars
<1>3. DataInv'
  BY <1>2, DataLeft DEF OrderInv
<1>4. Silent
  BY <1>2, TaskSame DEF Silent
<1> QED
  BY <1>1, <1>3, <1>4, SilentOrder

\* The graph is verified, or a run is submitted.
LEMMA BeginOrder ==
  ASSUME Inv, Inv', GraphParameters, OrderInv, VerifyGraph \/ \E p \in Pipe : SubmitRun(p)
  PROVE  OrderInv'
<1>0. FreeInOrder /\ TurnInv /\ ReportsInOrder /\ DataInv
  BY DEF OrderInv
<1>1. CASE VerifyGraph
  <2>1. FreeInOrder' /\ \A a, b \in Pipe : ~Before(a, b)'
    BY <1>0, <1>1, RunsVerified
  <2>2. UNCHANGED <<jobQ, task, nodeVars, waiting, retrigger, executed>>
    BY <1>1 DEF VerifyGraph, userVars, nodeVars
  <2>3. TurnInv'
    BY <1>0, <2>1, <2>2, HostTurn
  <2>4. ReportsInOrder'
    BY <2>1 DEF ReportsInOrder
  <2>5. DataInv'
    BY <1>0, <1>1, VerifyData
  <2> QED
    BY <2>1, <2>3, <2>4, <2>5, NumberedAfter DEF OrderInv
<1>2. ASSUME NEW p \in Pipe, SubmitRun(p) PROVE OrderInv'
  <2>1. FreeInOrder' /\ \A a, b \in Pipe : Before(a, b)' => b = p \/ Before(a, b)
    BY <1>0, <1>2, RunSubmitted
  <2>2. TurnInv'
    BY <1>0, <1>2, SubmitTurn
  <2>3. /\ task' = task
        /\ \A n \in Node, q \in Pipe : <<n, q>> \in executed' => <<n, q>> \in executed /\ q # p
    BY <1>2 DEF SubmitRun, ClearState
  <2>4. jobQ'[Host] = jobQ[Host]
    <3>1. Host \in DOMAIN jobQ
      BY DEF Inv, Detail, Typed, JobsTyped
    <3> QED
      BY <1>2, <3>1 DEF SubmitRun
  <2>5. ReportsInOrder'
    BY <1>0, <2>1, <2>3, <2>4, ReportsBefore
  <2>6. DataInv'
    BY <1>0, <1>2, SubmitData
  <2> QED
    BY <2>1, <2>2, <2>5, <2>6, NumberedAfter DEF OrderInv
<1> QED
  BY <1>1, <1>2

\* A target takes a node to execute it, or leaves it blocked ...
LEMMA TakeOrder ==
  ASSUME Inv, Inv', GraphParameters, OrderInv, NEW t \in Target, TakeJob(t) \/ AcquireBlocks(t)
  PROVE  OrderInv'
<1>1. TurnInv' /\ SameRuns /\ jobQ'[Host] = jobQ[Host] /\ SameReleasing
  BY TakeTurn, BlocksTurn DEF OrderInv
<1>2. UNCHANGED <<executed, frame, enqueued, doneQ, taken, held, readyQ>>
  BY DEF TakeJob, AcquireBlocks, queueVars, userVars, controlVars, countVars
<1>3. DataInv'
  BY <1>1, <1>2, DataLeft DEF OrderInv
<1>4. ReportsInOrder'
  <2>1. \A a, b \in Pipe : Before(a, b)' => Before(a, b)
    BY <1>1, RunsSame
  <2> QED
    BY <1>1, <1>2, <2>1, ReportsKept DEF OrderInv, SameReleasing
<1> QED
  BY <1>1, <1>3, <1>4, OrderKept

\* ... acquires or releases a parameter ...
LEMMA ParamOrder ==
  ASSUME Inv, Inv', GraphParameters, OrderInv, NEW t \in Target,
         \/ AcquireHeld(t) \/ AcquireRef(t) \/ KeepParam(t) \/ ReleaseDone(t)
         \/ ReleaseParam(t)
  PROVE  OrderInv'
<1>1. Detail /\ RunsNumbered /\ TurnInv /\ DataInv
  BY DEF Inv, OrderInv
<1>2. CASE ReleaseParam(t)
  <2>1. PICK n \in Node, p \in Pipe, k \in Nat \ {0}, d \in Data :
            /\ ReleasesFor(t, n, p, k, d) /\ d = Param(t) /\ InstOf(t) = <<n, p>>
            /\ task[t].prm[k] = held[<<d, p>>] /\ held[<<d, p>>] # NoRef
            /\ doneCnt[<<d, p>>] = Cardinality(Readers(d, p)) /\ ~Full(d, p)
    <3>1. AtParam(t, "release")
      BY <1>2 DEF ReleaseParam
    <3> QED
      BY <1>1, <3>1, ReleasesParam
  <2>2. QuietTurn /\ Silent
    BY <1>1, <1>2, <2>1, ReleaseQuiet DEF InstOf
  <2>3. DataInv'
    BY <1>1, <1>2, <2>2, ReleaseData DEF QuietTurn
  <2> QED
    BY <2>2, <2>3, SilentOrder
<1>3. CASE AcquireHeld(t) \/ AcquireRef(t) \/ KeepParam(t) \/ ReleaseDone(t)
  <2>1. QuietTurn /\ Silent
    BY <1>1, <1>3, ParamQuiet
  <2>2. SameRuns /\ UNCHANGED executed
    BY <2>1 DEF QuietTurn, nodeVars
  <2>3. CASE AcquireRef(t)
    BY <1>1, <2>1, <2>2, <2>3, AcquireData, SilentOrder
  <2>4. CASE ReleaseDone(t)
    BY <1>1, <2>1, <2>2, <2>4, DoneData, SilentOrder
  <2>5. CASE AcquireHeld(t) \/ KeepParam(t)
    <3>1. UNCHANGED <<frame, enqueued, doneQ, taken, held, readyQ>>
      BY <2>5 DEF AcquireHeld, KeepParam, queueVars, userVars, controlVars, countVars
    <3>2. DataInv'
      BY <1>1, <2>2, <3>1, DataLeft
    <3> QED
      BY <2>1, <3>2, SilentOrder
  <2> QED
    BY <1>3, <2>3, <2>4, <2>5
<1> QED
  BY <1>2, <1>3

\* ... executes the node ...
LEMMA ExecuteOrder ==
  ASSUME Inv, Inv', GraphParameters, NodesRead, OrderInv, NEW t \in Target, ExecuteNode(t)
  PROVE  OrderInv'
<1>0. Detail /\ RunsNumbered /\ TurnInv /\ DataInv
  BY DEF Inv, OrderInv
<1>1. PICK n \in Node, p \in Pipe, b0 \in Inst \cup {NoActor} :
            /\ task[t].at = "acquire" /\ task[t].inst = <<n, p>> /\ TargetOf[n] = t
            /\ Params[n] \in Seq(Data) /\ Len(task[t].prm) = Len(Params[n])
            /\ task[t].prm \in Seq(Ref)
            /\ task[t].wake = <<>> /\ task[t].after = NoActor
            /\ Due(<<n, p>>) /\ <<n, p>> \notin executed /\ p \in InRun
            /\ <<n, p>> \in Tokens(<<"acquire", t>>) /\ b0 = behind[<<n, p>>]
            /\ executed' = executed \cup {<<n, p>>} /\ blocked' = blocked \ {<<n, p>>}
            /\ behind' = [behind EXCEPT ![<<n, p>>] = NoActor]
            /\ TaskIs(t, "release", <<n, p>>, 1, task[t].prm, <<>>, b0)
            /\ \A d \in Range(Params[n]) : held[<<d, p>>] # NoRef
  BY <1>0, Executes
<1>2. SameRuns /\ UNCHANGED <<jobQ, waiting, retrigger>>
  BY DEF ExecuteNode, SameRuns, queueVars, userVars, controlVars, countVars, descVars
<1>3. TurnInv'
  BY <1>0, <1>1, <1>2, ExecuteTurn
<1>4. DataInv'
  BY <1>0, <1>2, ExecuteData
<1>5. ASSUME NEW m \in Node, NEW q \in Pipe
      PROVE  Releasing(m, q)' <=> Releasing(m, q) \/ <<m, q>> = <<n, p>>
  <2>1. TargetOf[m] \in Target
    BY DEF GraphParameters
  <2>2. CASE TargetOf[m] = t
    BY <1>1, <2>2 DEF TaskIs, Releasing, OnTask
  <2>3. CASE TargetOf[m] # t
    BY <1>1, <2>1, <2>3 DEF TaskIs, Releasing, OnTask
  <2> QED
    BY <2>2, <2>3
<1>6. ReportsInOrder'
  <2>1. \A a, b \in Pipe : Before(a, b)' => Before(a, b)
    BY <1>2, RunsSame
  <2>2. \A m \in Node, q \in Pipe :
           <<m, q>> \in executed' => <<m, q>> \in executed \/ Releasing(m, q)'
    BY <1>1, <1>5
  <2>3. \A m \in Node, q \in Pipe : Releasing(m, q) => Releasing(m, q)'
    BY <1>5
  <2>4. jobQ'[Host] = jobQ[Host] /\ ReportsInOrder
    BY <1>2 DEF OrderInv
  <2> QED
    BY <2>1, <2>2, <2>3, <2>4, ReportsKept
<1> QED
  BY <1>2, <1>3, <1>4, <1>6, OrderKept

\* ... reports to the host ...
LEMMA ReportOrder ==
  ASSUME Inv, Inv', GraphParameters, OrderInv, NEW t \in Target,
         SendRefConsumed(t) \/ SendComplete(t)
  PROVE  OrderInv'
<1>0. Detail /\ Typed /\ TaskShape /\ TurnInv /\ DataInv /\ ReportsInOrder /\ JobsTyped
  BY DEF Inv, Detail, Typed, OrderInv
<1>1. task[t].at \in {"release", "consumed"}
  BY DEF SendRefConsumed, SendComplete, PastParams
<1>2. PICK n \in Node, p \in Pipe : task[t].inst = <<n, p>> /\ TargetOf[n] = t
  BY <1>0, <1>1, ShapeOf
<1>3. /\ QuietTurn
      /\ \A m \in Node, q \in Pipe : Releasing(m, q) => Releasing(m, q)' \/ <<m, q>> = <<n, p>>
      /\ SendRefConsumed(t) => SameReleasing
  BY <1>0, <1>2, ReportQuiet
<1>4. Releasing(n, p) /\ <<n, p>> \in Inst
  BY <1>1, <1>2 DEF Releasing, OnTask, Inst
<1>5. SameRuns /\ UNCHANGED <<executed, frame, enqueued, doneQ, taken, held, readyQ>>
  BY <1>3 DEF QuietTurn, SendRefConsumed, SendComplete, nodeVars, queueVars, userVars, controlVars,
              countVars
<1>6. DataInv'
  BY <1>0, <1>5, DataLeft
<1>7. TurnInv'
  BY <1>0, <1>3, QuietKept
<1>8. \A a, b \in Pipe : Before(a, b)' => Before(a, b)
  BY <1>5, RunsSame
<1>9. ReportsInOrder'
  <2>1. OverInOrder
    BY <1>0 DEF TurnInv
  <2>2. CASE SendRefConsumed(t)
    <3>1. <<"consumed", Param(t)>> \in HostJob
      <4>1. Shape(t) /\ task[t].at = "consumed"
        BY <1>0, <2>2 DEF TaskShape, SendRefConsumed
      <4>2. Param(t) \in UserData
        BY <1>2, <4>1 DEF Shape, Param, InstOf
      <4> QED
        BY <4>2 DEF HostJob
    <3>2. jobQ'[Host] = Append(jobQ[Host], <<"consumed", Param(t)>>)
      BY <1>0, <2>2, <3>1, SendsToHost DEF SendRefConsumed
    <3>3. Releasing(n, p)'
      BY <1>3, <1>4, <2>2 DEF SameReleasing
    <3> QED
      BY <1>0, <1>3, <1>4, <1>5, <1>8, <2>1, <3>1, <3>2, <3>3, ReportsSent
  <2>3. CASE SendComplete(t)
    <3>1. CASE SendsComplete(n)
      <4>1. <<"complete", <<n, p>>>> \in HostJob
        BY <1>4 DEF HostJob
      <4>2. Send(Host, <<"complete", <<n, p>>>>)
        BY <1>2, <2>3, <3>1 DEF SendComplete, InstOf
      <4>3. jobQ'[Host] = Append(jobQ[Host], <<"complete", <<n, p>>>>)
        BY <1>0, <4>1, <4>2, SendsToHost
      <4> QED
        BY <1>0, <1>3, <1>4, <1>5, <1>8, <2>1, <4>1, <4>3, ReportsSent
    <3>2. CASE ~SendsComplete(n)
      <4>1. jobQ' = jobQ
        BY <1>2, <2>3, <3>2 DEF SendComplete, InstOf
      <4>2. n \notin Leaf
        BY <3>2, GraphAssumption DEF SendsComplete
      <4> SUFFICES ASSUME NEW l \in Leaf, NEW a \in Pipe, NEW b \in Pipe,
                          NEW h \in DOMAIN jobQ[Host], Before(a, b)', Reported(h, l, a)',
                          <<l, b>> \in executed'
                   PROVE  Releasing(l, b)' \/ ReportedAfter(h, l, b)'
        BY <4>1 DEF ReportsInOrder
      <4>3. l \in Node /\ l # n
        BY <4>2, GraphAssumption
      <4>4. Reported(h, l, a) /\ (ReportedAfter(h, l, b) => ReportedAfter(h, l, b)')
        BY <4>1 DEF Reported, ReportedAfter
      <4>5. Releasing(l, b) \/ ReportedAfter(h, l, b)
        BY <1>0, <1>5, <1>8, <4>4 DEF ReportsInOrder
      <4> QED
        BY <1>3, <4>3, <4>4, <4>5
    <3> QED
      BY <3>1, <3>2
  <2> QED
    BY <2>2, <2>3
<1> QED
  BY <1>5, <1>6, <1>7, <1>9, OrderKept

\* ... and triggers the nodes that wait.
LEMMA TriggerOrder ==
  ASSUME Inv, Inv', GraphParameters, OrderInv, NEW t \in Target,
         WakeBlocked(t) \/ TriggerNext(t) \/ FinishNode(t)
  PROVE  OrderInv'
<1>1. Detail /\ DataInv
  BY DEF Inv, OrderInv
<1>2. QuietTurn /\ Silent
  BY <1>1, WakeQuiet, NextQuiet
<1>3. SameRuns /\ UNCHANGED <<executed, frame, enqueued, doneQ, taken, held, readyQ>>
  BY <1>2 DEF QuietTurn, WakeBlocked, TriggerNext, FinishNode, nodeVars, queueVars, userVars,
              controlVars, countVars
<1>4. DataInv'
  BY <1>1, <1>3, DataLeft
<1> QED
  BY <1>2, <1>4, SilentOrder

\* The host hears of a reference, or of a node that is not the last of its run ...
LEMMA HeardOrder ==
  ASSUME Inv, Inv', GraphParameters, OrderInv, NEW cmd, HostTakes(cmd),
         UNCHANGED controlVars \/ \E p \in Pipe : LeafControl(p) \/ AbandonControl(p)
  PROVE  OrderInv'
<1>0. JobsTyped /\ DataInv /\ TurnInv /\ ReportsInOrder /\ Host \notin Target
  BY GraphAssumption DEF Inv, Detail, Typed, OrderInv
<1>1. QuietTurn
  BY <1>0, OutsideQuiet
<1>2. /\ SameRuns /\ jobQ[Host] # <<>> /\ jobQ' = [jobQ EXCEPT ![Host] = Tail(@)]
      /\ UNCHANGED <<task, executed, frame, doneQ, taken, held, readyQ>>
  BY <1>1 DEF QuietTurn, HostTakes, nodeVars, queueVars
<1>3. enqueued' = enqueued
  BY DEF LeafControl, AbandonControl, controlVars, countVars
<1>4. DataInv'
  BY <1>0, <1>2, <1>3, DataLeft
<1>5. TurnInv'
  BY <1>0, <1>1, QuietKept
<1>6. ReportsInOrder'
  <2>1. \A a, b \in Pipe : Before(a, b)' => Before(a, b)
    BY <1>2, RunsSame
  <2> QED
    BY <1>0, <1>2, <2>1, ReportsTaken
<1> QED
  BY <1>2, <1>4, <1>5, <1>6, OrderKept

\* ... or of the last: the oldest run is complete.
LEMMA CompleteOrder ==
  ASSUME Inv, Inv', GraphParameters, OrderInv, NEW n \in Leaf, NEW p \in Pipe, NEW ab,
         Head(jobQ[Host]) = <<"complete", <<n, p>>>>, HostTakes("complete"),
         CompleteControl(p, ab)
  PROVE  OrderInv'
<1>0. /\ JobsTyped /\ RunsNumbered /\ FreeInOrder /\ DataInv /\ TurnInv /\ ReportsInOrder
      /\ Host \notin Target
  BY GraphAssumption DEF Inv, Detail, Typed, OrderInv
<1>1. /\ LeafTodo[p] = {n} /\ p \in InRun /\ 1 \in DOMAIN jobQ[Host] /\ Reported(1, n, p)
      /\ \A x \in Node : <<x, p>> \in executed /\ ~Releasing(x, p)
      /\ \A d \in Data : held[<<d, p>>] = NoRef
  BY LastLeaf
<1>2. RunOf(p) = done + 1
  BY <1>0, <1>1, CompletesInOrder
<1>3. FreeInOrder' /\ \A a, b \in Pipe : Before(a, b)' => Before(a, b)
  BY <1>0, <1>1, <1>2, RunCompleted
<1>4. /\ jobQ[Host] # <<>> /\ jobQ' = [jobQ EXCEPT ![Host] = Tail(@)]
      /\ UNCHANGED <<task, executed, nodeVars, waiting, retrigger, frame, doneQ, taken, held, readyQ>>
  BY DEF HostTakes, nodeVars, queueVars
<1>5. TurnInv'
  <2>1. \A t \in Target : jobQ'[t] = jobQ[t]
    BY <1>0, <1>4 DEF JobsTyped
  <2> QED
    BY <1>0, <1>3, <1>4, <2>1, HostTurn
<1>6. ReportsInOrder'
  BY <1>0, <1>3, <1>4, ReportsTaken
<1>7. DataInv'
  BY <1>0, <1>1, <1>2, <1>4, CompleteData
<1> QED
  BY <1>3, <1>5, <1>6, <1>7, NumberedAfter DEF OrderInv

\* What the host does.
LEMMA HostOrder ==
  ASSUME Inv, Inv', GraphParameters, OrderInv, HostStep
  PROVE  OrderInv'
<1>1. CASE RefConsumed
  BY <1>1, HeardOrder DEF RefConsumed
<1>2. CASE NodeCompletes
  <2>1. HostTakes("complete") /\ Head(jobQ[Host])[1] = "complete" /\ jobQ[Host] # <<>>
    BY <1>2 DEF NodeCompletes, HostTakes
  <2>2. PICK n \in Node, p \in Pipe : Head(jobQ[Host]) = <<"complete", <<n, p>>>>
    <3>1. JobsTyped
      BY DEF Inv, Detail, Typed
    <3> QED
      BY <2>1, <3>1, MessagesOf DEF HostJob, Inst
  <2>3. Head(jobQ[Host])[2][1] = n /\ Head(jobQ[Host])[2][2] = p
    BY <2>2
  <2>4. CASE \/ n \notin Leaf /\ (AbandonControl(p) \/ UNCHANGED controlVars)
             \/ n \in Leaf /\ LeafControl(p)
    BY <2>1, <2>4, HeardOrder
  <2>5. ASSUME n \in Leaf, NEW ab, CompleteControl(p, ab) PROVE OrderInv'
    BY <2>1, <2>2, <2>5, CompleteOrder
  <2>6. \/ Head(jobQ[Host])[2][1] \notin Leaf
             /\ (AbandonControl(Head(jobQ[Host])[2][2]) \/ UNCHANGED controlVars)
        \/ Head(jobQ[Host])[2][1] \in Leaf /\ LeafControl(Head(jobQ[Host])[2][2])
        \/ /\ Head(jobQ[Host])[2][1] \in Leaf
           /\ \E abandon \in {FALSE, (Head(jobQ[Host])[2][1] \in CallbackNode)} :
                 CompleteControl(Head(jobQ[Host])[2][2], abandon)
    BY <1>2 DEF NodeCompletes
  <2>7. CASE /\ Head(jobQ[Host])[2][1] \in Leaf
             /\ \E abandon \in {FALSE, (Head(jobQ[Host])[2][1] \in CallbackNode)} :
                   CompleteControl(Head(jobQ[Host])[2][2], abandon)
    <3>1. PICK abandon : CompleteControl(Head(jobQ[Host])[2][2], abandon)
      BY <2>7
    <3>2. n \in Leaf /\ CompleteControl(p, abandon)
      BY <2>3, <2>7, <3>1
    <3> QED
      BY <2>5, <3>2
  <2> QED
    BY <2>3, <2>4, <2>6, <2>7
<1>3. CASE (RescheduleLock \/ ScheduleUnlock \/ HostAbandons) /\ UNCHANGED detailVars
  BY <1>3, ControlOrder
<1> QED
  BY <1>1, <1>2, <1>3 DEF HostStep

\* Initially there is no run, no job and no data.
LEMMA InitOrder == GraphParameters /\ Init => OrderInv
<1> SUFFICES ASSUME GraphParameters, Init PROVE OrderInv
  OBVIOUS
<1>1. Inv
  BY InitInv
<1>2. /\ verified = 0 /\ done = 0 /\ submitted = 0 /\ freeQ = <<>> /\ enqueued = 0
      /\ executed = {} /\ blocked = {} /\ behind = [i \in Inst |-> NoActor]
      /\ jobQ = [t \in Target \cup {Host} |-> <<>>] /\ task = [t \in Target |-> Idle]
      /\ waiting = [d \in Data |-> <<>>] /\ retrigger = [d \in UserData |-> <<>>]
      /\ readyQ = [d \in Data |-> <<>>] /\ doneQ = [d \in UserData |-> <<>>]
      /\ held = [x \in Data \X Pipe |-> NoRef]
      /\ frame = [r \in Ref |-> 0] /\ taken = [d \in UserData |-> 0]
  BY DEF Init, InitControl
<1>3. InRun = {} /\ \A p, q \in Pipe : ~Before(p, q)
  BY <1>2 DEF InRun, Before
<1>4. FreeInOrder
  BY <1>2 DEF FreeInOrder
<1>5. TurnInv
  <2>1. ExecutedInOrder /\ OverInOrder /\ AcquireInOrder /\ JobsInOrder /\ BlockedInOrder
    BY <1>3 DEF ExecutedInOrder, OverInOrder, AcquireInOrder, JobsInOrder, BlockedInOrder
  <2>2. ASSUME NEW i \in Inst, Parked(i) PROVE FALSE
    <3>1. NoActor \notin Inst
      BY DEF GraphParameters
    <3>2. \A d \in Data : waiting[d] = <<>>
      BY <1>2
    <3>3. \A d \in UserData : retrigger[d] = <<>>
      BY <1>2
    <3>4. \A t \in Target : task[t].wake = <<>> /\ task[t].after = NoActor
      BY <1>2 DEF Idle
    <3>5. \A j \in Inst : behind[j] = NoActor
      BY <1>2
    <3> QED
      BY <2>2, <3>1, <3>2, <3>3, <3>4, <3>5, Empty DEF Parked
  <2> QED
    BY <2>1, <2>2 DEF TurnInv, ParkedBlocked
<1>6. ReportsInOrder
  BY <1>3 DEF ReportsInOrder
<1>7. DataInv
  <2>1. readyQ[Param0] = <<>> /\ \A d \in UserData : doneQ[d] = <<>> /\ taken[d] = 0
    BY <1>2, FirstParam
  <2>2. Fed = 0 /\ \A d \in UserData : Given(d) = 0
    <3>1. Len(<<>>) = 0
      OBVIOUS
    <3>2. Len(readyQ[Param0]) = 0 /\ \A d \in UserData : Len(doneQ[d]) = 0
      BY <2>1, <3>1
    <3>3. Fed = 0
      <4>1. Fed = enqueued - Len(readyQ[Param0])
        BY DEF Fed
      <4>2. enqueued = 0
        BY <1>2
      <4>3. Len(readyQ[Param0]) = 0
        BY <3>2
      <4> QED
        BY ONLY <4>1, <4>2, <4>3
    <3>4. ASSUME NEW d \in UserData PROVE Given(d) = 0
      <4>1. Given(d) = taken[d] + Len(doneQ[d])
        BY DEF Given
      <4> QED
        BY <2>1, <3>2, <4>1
    <3> QED
      BY <3>3, <3>4
  <2>3. FedInv
    BY <1>2, <1>3, <2>2 DEF FedInv
  <2>4. GivenInv
    BY <1>2, <1>3, <2>1, <2>2 DEF GivenInv, GivenOf
  <2>5. ReadyFrames /\ FramesInOrder
    <3>1. DOMAIN <<>> = {}
      OBVIOUS
    <3> QED
      BY <2>1, <3>1 DEF ReadyFrames, FramesInOrder
  <2>6. HeldFrames
    BY <1>2 DEF HeldFrames
  <2>7. frame \in [Ref -> Nat] /\ taken \in [UserData -> Nat]
    BY <1>2
  <2> QED
    BY <2>3, <2>4, <2>5, <2>6, <2>7 DEF DataInv
<1> QED
  BY <1>1, <1>4, <1>5, <1>6, <1>7, NumberedRuns DEF OrderInv

\* Every step keeps the order.
LEMMA NextOrder ==
  ASSUME Inv, Inv', GraphParameters, NodesRead, OrderInv, [Next]_vars
  PROVE  OrderInv'
<1>1. ASSUME NEW t \in Target, TargetStep(t) PROVE OrderInv'
  <2>1. CASE TakeJob(t) \/ AcquireBlocks(t)
    BY <2>1, TakeOrder
  <2>2. CASE AcquireHeld(t) \/ AcquireRef(t) \/ KeepParam(t) \/ ReleaseDone(t) \/ ReleaseParam(t)
    BY <2>2, ParamOrder
  <2>3. CASE ExecuteNode(t)
    BY <2>3, ExecuteOrder
  <2>4. CASE SendRefConsumed(t) \/ SendComplete(t)
    BY <2>4, ReportOrder
  <2>5. CASE WakeBlocked(t) \/ TriggerNext(t) \/ FinishNode(t)
    BY <2>5, TriggerOrder
  <2> QED
    BY <1>1, <2>1, <2>2, <2>3, <2>4, <2>5 DEF TargetStep
<1>2. ASSUME NEW a \in App, EnqueueInput(a) \/ CallStep(a) PROVE OrderInv'
  BY <1>2, EnqueueOrder, ControlOrder
<1>3. ASSUME NEW d \in UserData, EnqueueOutput(d) \/ Retrigger(d) PROVE OrderInv'
  BY <1>3, EnqueueOrder, CallOrder
<1>4. ASSUME NEW x \in Dequeuer, Dequeue(x) PROVE OrderInv'
  BY <1>4, CallOrder
<1>5. CASE VerifyGraph \/ \E p \in Pipe : SubmitRun(p)
  BY <1>5, BeginOrder
<1>6. CASE HostStep
  BY <1>6, HostOrder
<1>7. CASE UNCHANGED vars
  BY <1>7, ControlOrder
<1> QED
  BY <1>1, <1>2, <1>3, <1>4, <1>5, <1>6, <1>7 DEF Next

\* The runs keep their order, wherever their nodes wait.
THEOREM OrderInvariance == GraphParameters /\ NodesRead => (Spec => []OrderInv)
<1> SUFFICES ASSUME GraphParameters, NodesRead PROVE Spec => []OrderInv
  OBVIOUS
<1>1. Init => OrderInv
  BY InitOrder
<1>2. Inv /\ Inv' /\ OrderInv /\ [Next]_vars => OrderInv'
  BY NextOrder
<1>3. Spec => []Inv
  BY Invariance
<1> QED
  BY <1>1, <1>2, <1>3, PTL DEF Spec

\* A node never gets the data of two runs, and what the application dequeues is the
\* result of its inputs, one for one and in their order.
THEOREM FramesOrdered == GraphParameters /\ NodesRead => (Spec => []FramesInOrder)
<1> SUFFICES ASSUME GraphParameters, NodesRead PROVE Spec => []FramesInOrder
  OBVIOUS
<1>1. OrderInv => FramesInOrder
  BY DEF OrderInv, DataInv
<1>2. Spec => []OrderInv
  BY OrderInvariance
<1> QED
  BY <1>1, <1>2, PTL

-----------------------------------------------------------------------------
(* The lists of blocked nodes                                               *)

\* A node waits for a parameter of its own.
WaitsForOwn == \A d \in Data : \A i \in Range(waiting[d]) : d \in Range(Params[i[1]])

\* A list of blocked nodes is as it was, or was extracted, unless a node is blocked.
ListsShrink == \A d \in Data : waiting'[d] = waiting[d] \/ waiting'[d] = <<>>

LEMMA WaitingLeft ==
  ASSUME Inv, GraphParameters, [Next]_vars
  PROVE  ListsShrink \/ \E t \in Target : AcquireBlocks(t)
<1> USE DEF ListsShrink
<1>0. waiting \in [Data -> Seq(Inst)]
  BY DEF Inv, Detail, Typed, QueuesTyped
<1>1. ASSUME NEW d \in Data, waiting' = [waiting EXCEPT ![d] = <<>>] PROVE ListsShrink
  BY <1>0, <1>1
<1>2. ASSUME NEW d \in UserData, NEW r, EnqueueReady(d, r) PROVE ListsShrink
  <2>1. d \in Data
    BY DEF GraphParameters
  <2>2. waiting' = [waiting EXCEPT ![d] = <<>>]
    BY <1>2 DEF EnqueueReady, BlockedAfterExtract
  <2> QED
    BY <1>1, <2>1, <2>2
<1>3. ASSUME NEW t \in Target, TargetStep(t), ~AcquireBlocks(t) PROVE ListsShrink
  <2>1. CASE ReleaseParam(t)
    <3>1. task[t].at = "release" /\ task[t].k \in DOMAIN Params[InstOf(t)[1]]
          /\ waiting' = [waiting EXCEPT ![Param(t)] = <<>>]
      BY <2>1 DEF ReleaseParam, AtParam, BlockedAfterExtract
    <3>2. waiting' = waiting \/ Param(t) \in Data
      BY <1>0, <3>1
    <3> QED
      BY <1>0, <1>1, <3>1, <3>2
  <2>2. CASE \/ TakeJob(t) \/ AcquireHeld(t) \/ AcquireRef(t) \/ ExecuteNode(t) \/ KeepParam(t)
             \/ ReleaseDone(t) \/ SendRefConsumed(t) \/ WakeBlocked(t) \/ SendComplete(t)
             \/ TriggerNext(t) \/ FinishNode(t)
    <3>1. waiting' = waiting
      BY <2>2 DEF TakeJob, AcquireHeld, AcquireRef, ExecuteNode, KeepParam, ReleaseDone,
                  SendRefConsumed, WakeBlocked, SendComplete, TriggerNext, FinishNode, queueVars
    <3> QED
      BY <3>1
  <2> QED
    BY <1>3, <2>1, <2>2 DEF TargetStep
<1>4. ASSUME NEW d \in UserData, EnqueueOutput(d) \/ Retrigger(d) PROVE ListsShrink
  <2>1. CASE EnqueueOutput(d)
    BY <1>2, <2>1 DEF EnqueueOutput
  <2>2. CASE Retrigger(d)
    BY <2>2 DEF Retrigger, queueVars
  <2> QED
    BY <1>4, <2>1, <2>2
<1>5. ASSUME NEW a \in App, EnqueueInput(a) \/ CallStep(a) PROVE ListsShrink
  <2>1. CASE EnqueueInput(a)
    BY <1>2, <2>1, FirstParam DEF EnqueueInput
  <2>2. CASE CallStep(a)
    BY <2>2 DEF CallStep, detailVars, queueVars
  <2> QED
    BY <1>5, <2>1, <2>2
<1>6. ASSUME NEW x \in Dequeuer, Dequeue(x) PROVE ListsShrink
  BY <1>6 DEF Dequeue, DequeueRef, DequeueNothing, DequeueWait, DequeueWoken, queueVars
<1>7. CASE VerifyGraph \/ \E p \in Pipe : SubmitRun(p)
  BY <1>7 DEF VerifyGraph, SubmitRun, queueVars
<1>8. CASE HostStep
  BY <1>8 DEF HostStep, RefConsumed, NodeCompletes, HostTakes, detailVars, queueVars
<1>9. CASE UNCHANGED vars
  BY <1>9 DEF vars, detailVars, queueVars
<1> QED
  BY <1>3, <1>4, <1>5, <1>6, <1>7, <1>8, <1>9 DEF Next

\* The node that is blocked joins the list of the parameter it is at.
LEMMA WaitsStep ==
  ASSUME Inv, GraphParameters, WaitsForOwn, [Next]_vars
  PROVE  WaitsForOwn'
<1>0. waiting \in [Data -> Seq(Inst)]
  BY DEF Inv, Detail, Typed, QueuesTyped
<1>1. CASE ListsShrink
  <2> SUFFICES ASSUME NEW d \in Data, NEW i \in Range(waiting'[d]) PROVE d \in Range(Params[i[1]])
    BY DEF WaitsForOwn
  <2>1. waiting'[d] # <<>>
    BY Empty
  <2>2. waiting'[d] = waiting[d]
    BY <1>1, <2>1 DEF ListsShrink
  <2> QED
    BY <2>2 DEF WaitsForOwn
<1>2. ASSUME NEW t \in Target, AcquireBlocks(t) PROVE WaitsForOwn'
  <2>1. task[t].at = "acquire" /\ task[t].k \in DOMAIN Params[InstOf(t)[1]]
    BY <1>2 DEF AcquireBlocks, AtParam
  <2>2. PICK n \in Node, p \in Pipe : task[t].inst = <<n, p>> /\ Params[n] \in Seq(Data)
    BY <2>1, AcquiresFor DEF Inv
  <2>3. InstOf(t) = <<n, p>> /\ <<n, p>> \in Inst
    BY <2>2 DEF InstOf, Inst
  <2> DEFINE e == Param(t)
  <2>4. e \in Data /\ e \in Range(Params[n])
    BY <2>1, <2>2, <2>3 DEF Param, Range
  <2>5. waiting' = [waiting EXCEPT ![e] = Append(@, <<n, p>>)]
    BY <1>2, <2>3 DEF AcquireBlocks
  <2> HIDE DEF e
  <2> SUFFICES ASSUME NEW d \in Data, NEW i \in Range(waiting'[d]) PROVE d \in Range(Params[i[1]])
    BY DEF WaitsForOwn
  <2>6. CASE d # e
    BY <1>0, <2>4, <2>5, <2>6 DEF WaitsForOwn
  <2>7. CASE d = e
    <3>1. waiting'[d] = Append(waiting[d], <<n, p>>) /\ waiting[d] \in Seq(Inst)
      BY <1>0, <2>5, <2>7
    <3>2. Range(Append(waiting[d], <<n, p>>)) = Range(waiting[d]) \cup {<<n, p>>}
      BY ONLY <2>3, <3>1, Appended
    <3>3. i \in Range(waiting[d]) \/ i = <<n, p>>
      BY <3>1, <3>2
    <3> QED
      BY <2>4, <2>7, <3>3 DEF WaitsForOwn
  <2> QED
    BY <2>6, <2>7
<1> QED
  BY <1>1, <1>2, WaitingLeft

\* A node waits in a list in one run only: in a later run it is kept by blocked_node_id.
LEMMA WaitsOnce ==
  ASSUME Inv, GraphParameters, OrderInv, NEW d \in Data, NEW n \in Node, NEW p \in Pipe,
         NEW q \in Pipe, <<n, p>> \in Range(waiting[d]), <<n, q>> \in Range(waiting[d])
  PROVE  p = q
<1>0. Detail /\ TurnInv /\ ParkedBlocked /\ BlockedInOrder /\ OnePlace /\ BlockedInv
  BY DEF Inv, Detail, OrderInv, TurnInv
<1>1. ASSUME NEW a \in Pipe, <<n, a>> \in Range(waiting[d])
      PROVE  <<n, a>> \in blocked /\ <<n, a>> \notin executed /\ a \in InRun
  <2>1. <<n, a>> \in Inst /\ Parked(<<n, a>>)
    BY <1>1 DEF Inst, Parked
  <2>2. <<n, a>> \in blocked
    BY <1>0, <2>1 DEF ParkedBlocked
  <2>3. Due(<<n, a>>)
    BY <1>0, <2>2 DEF BlockedInv
  <2> QED
    BY <2>2, <2>3 DEF Due
<1>2. ASSUME NEW a \in Pipe, NEW b \in Pipe, <<n, a>> \in Range(waiting[d]),
             <<n, b>> \in Range(waiting[d]), Before(a, b)
      PROVE  FALSE
  <2>1. behind[Prev(<<n, b>>)] = <<n, b>>
    BY <1>0, <1>1, <1>2 DEF BlockedInOrder
  <2>2. <<n, b>> \in Inst /\ Prev(<<n, b>>) \in Inst
    BY Instances DEF Inst
  <2> DEFINE j == Prev(<<n, b>>)
  <2>3. j \in Inst /\ behind[j] = <<n, b>>
    BY <2>1, <2>2
  <2>n. NoActor # <<n, b>>
    BY DEF Inst, GraphParameters
  <2> HIDE DEF j
  <2>4. /\ <<"behind", j>> \in Place /\ <<"waiting", d>> \in Place
        /\ <<n, b>> \in Tokens(<<"waiting", d>>) /\ <<n, b>> \in Tokens(<<"behind", j>>)
    BY <1>2, <2>3, <2>n, Places, TokensOf
  <2>5. <<"behind", j>> # <<"waiting", d>>
    OBVIOUS
  <2> QED
    BY <1>0, <2>4, <2>5 DEF OnePlace
<1>3. done \in Nat
  BY Counts
<1>4. RunOf(p) \in done + 1 .. done + Depth /\ RunOf(q) \in done + 1 .. done + Depth
  BY <1>3, Numbers
<1>5. CASE RunOf(p) < RunOf(q)
  BY <1>1, <1>2, <1>5 DEF Before
<1>6. CASE RunOf(q) < RunOf(p)
  BY <1>1, <1>2, <1>6 DEF Before
<1>7. CASE RunOf(p) = RunOf(q)
  BY <1>3, <1>7, Numbers
<1> QED
  BY <1>3, <1>4, <1>5, <1>6, <1>7, DepthAssumption

\* So no list is longer than the data has readers and a writer.
LEMMA ListsFit ==
  ASSUME Inv, GraphParameters, OrderInv, WaitsForOwn
  PROVE  BlockedFit
<1> SUFFICES ASSUME NEW d \in Data PROVE Len(waiting[d]) <= MaxBlocked
  BY DEF BlockedFit
<1> DEFINE w == waiting[d]
           W == Consumers(d) \cup {Producer[d]}
           f == [j \in 1 .. Len(w) |-> w[j][1]]
<1>1. w \in Seq(Inst) /\ IsInjective(w) /\ Len(w) \in Nat
  BY DEF Inv, Detail, Typed, QueuesTyped, ListsInv
<1>2. IsFiniteSet(Consumers(d))
  BY FS_Subset DEF Consumers, GraphParameters
<1>3. IsFiniteSet(W) /\ Cardinality(W) <= Cardinality(Consumers(d)) + 1
      /\ Cardinality(Consumers(d)) \in Nat
  BY <1>2, FS_AddElement, FS_CardinalityType
<1>4. ASSUME NEW j \in 1 .. Len(w) PROVE w[j] \in Range(w) /\ w[j] \in Inst
  BY <1>1 DEF Range
<1>5. ASSUME NEW j \in 1 .. Len(w) PROVE w[j][1] \in W
  <2>1. w[j][1] \in Node /\ d \in Range(Params[w[j][1]])
    BY <1>4 DEF WaitsForOwn, Inst
  <2> QED
    BY <2>1 DEF Consumers
<1>6. ASSUME NEW j \in 1 .. Len(w), NEW k \in 1 .. Len(w), w[j][1] = w[k][1] PROVE j = k
  <2>1. PICK n \in Node, p \in Pipe : w[j] = <<n, p>>
    BY <1>4 DEF Inst
  <2>2. PICK m \in Node, q \in Pipe : w[k] = <<m, q>>
    BY <1>4 DEF Inst
  <2>3. m = n
    BY <1>6, <2>1, <2>2
  <2>4. p = q
    BY <1>4, <2>1, <2>2, <2>3, WaitsOnce
  <2>5. DOMAIN w = 1 .. Len(w)
    BY <1>1
  <2> QED
    BY <1>1, <2>1, <2>2, <2>3, <2>4, <2>5 DEF IsInjective
<1>7. f \in Injection(1 .. Len(w), W)
  BY <1>5, <1>6 DEF Injection, IsInjective
<1> HIDE DEF f, W
<1>8. Cardinality(1 .. Len(w)) <= Cardinality(W)
  BY <1>3, <1>7, FS_Injection
<1>9. Cardinality(1 .. Len(w)) = Len(w)
  BY <1>1, FS_Interval
<1>10. Cardinality(W) \in Nat /\ MaxBlocked \in Nat /\ Cardinality(Consumers(d)) < MaxBlocked
  BY <1>3, FS_CardinalityType, GraphAssumption
<1> QED
  BY <1>1, <1>3, <1>8, <1>9, <1>10

\* All that is said of runs, from the first state on.
RunInv == OrderInv /\ WaitsForOwn

LEMMA InitRuns == GraphParameters /\ Init => RunInv
<1>1. Init => WaitsForOwn
  BY Empty DEF Init, WaitsForOwn
<1> QED
  BY <1>1, InitOrder DEF RunInv

LEMMA NextRuns ==
  ASSUME Inv, Inv', GraphParameters, NodesRead, RunInv, [Next]_vars
  PROVE  RunInv'
BY NextOrder, WaitsStep DEF RunInv

LEMMA RunsOrdered ==
  ASSUME Inv, GraphParameters, RunInv
  PROVE  TypeOK /\ FramesInOrder
<1>1. Ranges /\ BlockedFit
  BY ListsFit, RangesHold DEF RunInv, Inv
<1>2. FramesInOrder
  BY DEF RunInv, OrderInv, DataInv
<1> QED
  BY <1>1, <1>2 DEF TypeOK

\* The array of TIVX_OBJ_DESC_QUEUE_MAX_BLOCKED_NODES holds every list of blocked nodes,
\* although every node may be blocked in every run: a node waits in a list in one run.
THEOREM TypeCorrect == GraphParameters /\ NodesRead => (Spec => []TypeOK)
<1> SUFFICES ASSUME GraphParameters, NodesRead PROVE Spec => []TypeOK
  OBVIOUS
<1>1. Init => RunInv
  BY InitRuns
<1>2. Inv /\ Inv' /\ RunInv /\ [Next]_vars => RunInv'
  BY NextRuns
<1>3. Inv /\ RunInv => TypeOK
  BY RunsOrdered
<1>4. Spec => []Inv
  BY Invariance
<1> QED
  BY <1>1, <1>2, <1>3, <1>4, PTL DEF Spec

================================================================================
