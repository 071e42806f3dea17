---------------------------- MODULE GraphSchedule ----------------------------
(***************************************************************************)
(* How a verified graph turns requests of the application into runs.        *)
(*                                                                          *)
(* GraphControl with the runs in the abstract: in the queueing modes a run  *)
(* that was submitted takes one set of enqueued references, and then each   *)
(* leaf node of the graph completes once.  PipelinedGraph models the runs   *)
(* themselves and is shown to implement this module.                        *)
(***************************************************************************)
EXTENDS GraphControl

VARIABLES
    ready,          \* sets of references enqueued and not taken by a run
    unfed,          \* instances submitted that have not taken their references
    leafTodo        \* leaf nodes of a submitted run that are not complete

runVars == <<ready, unfed, leafTodo>>
vars == <<controlVars, runVars>>

Init ==
    /\ InitControl
    /\ ready = 0 /\ unfed = {}
    /\ leafTodo = [p \in Pipe |-> {}]

VerifyGraph == VerifyControl /\ ready = 0 /\ UNCHANGED runVars

EnqueueRef(a) ==
    EnqueueControl(a) /\ ready' = ready + 1 /\ UNCHANGED <<unfed, leafTodo>>

\* The calls of the application that leave the references alone.
CallStep(a) ==
    /\ \/ EnqueueEnd(a) \/ EnqueueFail(a)
       \/ ScheduleCheck(a) \/ ScheduleCount(a, ready) \/ ScheduleLock(a)
       \/ WaitCheck(a) \/ WaitReturn(a)
    /\ UNCHANGED runVars

\* The nodes of the run lose their executed flag, the head nodes are sent to
\* their targets.
SubmitRun(p) ==
    /\ SubmitControl(p)
    /\ leafTodo' = [leafTodo EXCEPT ![p] = Leaf]
    /\ unfed' = IF Queueing THEN unfed \cup {p} ELSE unfed
    /\ UNCHANGED ready

\* A submitted run takes one set of references from the ready queues.
TakeRefs(p) ==
    /\ p \in unfed /\ ready > 0
    /\ unfed' = unfed \ {p}
    /\ ready' = ready - 1
    /\ UNCHANGED <<leafTodo, controlVars>>

\* A node that is not a leaf has a callback that abandons the graph.
NodeAbandons(p) ==
    /\ leafTodo[p] # {}
    /\ AbandonControl(p)
    /\ UNCHANGED runVars

\* Leaf nodes need not depend on the references that started the run; the run
\* as a whole does.
LeafCompletes(l, p) ==
    /\ l \in leafTodo[p]
    /\ LeafControl(p)
    /\ leafTodo' = [leafTodo EXCEPT ![p] = @ \ {l}]
    /\ UNCHANGED <<ready, unfed>>

RunCompletes(l, p, abandon) ==
    /\ p \notin unfed /\ l \in leafTodo[p]
    /\ CompleteControl(p, abandon)
    /\ leafTodo' = [leafTodo EXCEPT ![p] = @ \ {l}]
    /\ UNCHANGED <<ready, unfed>>

HostStep == (RescheduleLock \/ ScheduleUnlock \/ HostAbandons) /\ UNCHANGED runVars

RunStep(p) ==
    \/ SubmitRun(p) \/ TakeRefs(p) \/ NodeAbandons(p)
    \/ \E l \in Leaf : LeafCompletes(l, p)
    \/ \E l \in Leaf, abandon \in {FALSE, CallbackAtLeaf} : RunCompletes(l, p, abandon)

Next ==
    \/ VerifyGraph
    \/ \E a \in App : EnqueueRef(a) \/ CallStep(a)
    \/ \E p \in Pipe : RunStep(p)
    \/ HostStep

Spec == Init /\ [][Next]_vars

\* The tasks keep running: the host target handles what its queue holds, the
\* targets run the nodes, a call of the application that began goes on.  Nobody
\* has to make a call, refuse a reference or abandon a graph.
Fairness ==
    /\ WF_vars(HostStep)
    /\ \A p \in Pipe :
          /\ WF_vars(SubmitRun(p)) /\ WF_vars(TakeRefs(p))
          /\ WF_vars(\E l \in Leaf : LeafCompletes(l, p) \/ RunCompletes(l, p, FALSE))
    /\ \A a \in App :
          WF_vars((EnqueueEnd(a) \/ ScheduleCount(a, ready) \/ ScheduleLock(a)
                      \/ WaitReturn(a)) /\ UNCHANGED runVars)

FairSpec == Spec /\ Fairness

-----------------------------------------------------------------------------
(* Properties                                                               *)

RunState == {"VERIFIED", "RUNNING", "COMPLETED", "ABANDONED"}

\* The values of the fields of vx_graph and of its descriptors.
TypeOK ==
    /\ graphState \in RunState \cup {"UNVERIFIED"}
    /\ descState \in [Pipe -> RunState]
    /\ freeQ \in Seq(Pipe)
    /\ submitted \in Nat /\ pending \in Nat
    /\ leafDone \in [Pipe -> Nat]
    /\ allDone \in BOOLEAN
    /\ lock \in Actor \cup {NoActor} /\ remaining \in Nat /\ hostSched \in Nat
    /\ hostAbandon \in Pipe \cup {NoActor}
    /\ ready \in Nat /\ unfed \in SUBSET Pipe
    /\ leafTodo \in [Pipe -> SUBSET Leaf]
    /\ pc \in [App -> {"idle", "enqueue", "checked", "schedule", "wait"}]
    /\ num \in [App -> Nat]
    /\ verified \in Nat /\ accepted \in Nat /\ returned \in Nat /\ done \in Nat
    /\ inCall \in Int /\ stranded \in Nat
    /\ abandonReq \in [Pipe -> BOOLEAN] /\ lastAbandon \in BOOLEAN
    /\ waitFor \in [Waiter -> Nat] /\ mayWait \in [Waiter -> BOOLEAN]
    /\ enqueued \in Nat

\* Runs that were asked for and not submitted yet, wherever the count is kept:
\* pending is a stale copy of part of remaining while the lock is held.
Owed == hostSched + (IF lock = NoActor THEN pending ELSE remaining)

\* No run that was asked for is forgotten and none is invented while its count
\* wanders between schedule_pending_count, the locals of the host and of the
\* callers, and submitted_count.
RunsConserved == accepted = done + submitted + Owed

\* A pipeline instance is either free, once, or in use: free_q can neither hand
\* out an instance that is running nor lose one (ownGraphDequeueFreeObjDesc).
DescriptorsConserved ==
    /\ \A i, j \in DOMAIN freeQ : freeQ[i] = freeQ[j] => i = j
    /\ verified > 0 => \A p \in Pipe :
          (leafTodo[p] = {}) <=> (\E i \in DOMAIN freeQ : freeQ[i] = p)
    /\ verified > 0 => Len(freeQ) + submitted = Depth

\* complete_leaf_nodes counts the leaf nodes of the present run only.
LeavesCounted ==
    \A p \in Pipe :
       leafDone[p] = IF leafTodo[p] = {} THEN 0 ELSE Cardinality(Leaf \ leafTodo[p])

\* all_graph_completed_event is set only when every run that was asked for is
\* complete, although it is posted before pending requests are scheduled.
EventMeansIdle == allDone => submitted = 0 /\ hostSched = 0 /\ returned = done

\* Requests are kept pending only while no descriptor is free: the request that
\* found none will be found by the completion that frees one.
PendingOnlyWhenFull == lock = NoActor /\ pending > 0 => freeQ = <<>>

\* ownGraphDoScheduleGraphAfterEnqueue schedules one run for each reference: in
\* AUTO mode what is ready is what runs, owed runs and unfinished calls will take,
\* and what failed calls left behind.
RunsMatchReferences ==
    Mode = "AUTO" => ready = Cardinality(unfed) + Owed + inCall + stranded

\* graph->state is RUNNING while runs are submitted, then it is the state of the
\* run that completed last, ABANDONED if a callback of that run said so.
StateReported ==
    /\ (graphState = "RUNNING") <=> (submitted > 0)
    /\ graphState \in {"COMPLETED", "ABANDONED"} =>
          ((graphState = "ABANDONED") <=> lastAbandon)

\* vxWaitGraph returns only when the runs that had been scheduled are complete.
WaitSound ==
    [][\A a \in Waiter : pc[a] = "wait" /\ pc'[a] = "idle" => done >= waitFor[a]]_vars

\* Every run that a call asked for, and was not refused, completes.
EveryRunCompletes == \A k \in 1 .. MaxRequest : (returned >= k) ~> (done >= k)

\* vxWaitGraph returns.
WaitReturns == \A a \in Waiter : (pc[a] = "wait") ~> (pc[a] # "wait")

-----------------------------------------------------------------------------
(* The inductive invariant of a graph that is verified once                 *)

InFlight == {p \in Pipe : leafTodo[p] # {}}

\* Nothing happens before the graph is verified.
FreshInv ==
    verified = 0 =>
       /\ graphState = "UNVERIFIED" /\ freeQ = <<>> /\ submitted = 0
       /\ pending = 0 /\ hostSched = 0 /\ lock = NoActor
       /\ \A a \in App : pc[a] = "idle"

FlightInv == submitted = Cardinality(InFlight) /\ unfed \subseteq InFlight

LockInv ==
    /\ lock = NoActor => remaining = 0 /\ returned = accepted
    /\ returned <= accepted
    /\ Mode = "NORMAL" =>
          /\ pending = 0 /\ hostSched = 0
          /\ lock # NoActor => returned + remaining <= accepted

CallInv ==
    /\ \A a \in Waiter : waitFor[a] <= returned
    /\ \A a \in App :
          /\ Mode = "AUTO" => pc[a] # "checked"
          /\ lock = a => pc[a] = "schedule"
          /\ pc[a] = "wait" => a \in Waiter

IInv ==
    /\ TypeOK /\ FreshInv /\ FlightInv /\ LockInv /\ CallInv
    /\ DescriptorsConserved /\ LeavesCounted /\ RunsConserved
    /\ EventMeansIdle /\ PendingOnlyWhenFull /\ RunsMatchReferences

-----------------------------------------------------------------------------
(* What the documentation says and the code does not do                     *)

\* vx_graph.h: free_q holds descriptors that are ready for scheduling.
FreeIsReady == \A i \in DOMAIN freeQ : leafTodo[freeQ[i]] = {}

\* vx_khr_pipelining.h: the references of a MANUAL graph are enqueued before it
\* is scheduled, so that a run finds references.
RunsHaveReferences == Queueing => Cardinality(unfed) + Owed <= ready

\* vx_types.h: a graph that a callback abandoned is reported as abandoned, once
\* the host target has dealt with the callback.
AbandonReported ==
    graphState \in {"COMPLETED", "ABANDONED"} /\ hostAbandon = NoActor /\ lastAbandon
       => graphState = "ABANDONED"

=============================================================================
