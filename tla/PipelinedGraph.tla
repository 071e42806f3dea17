---------------------------- MODULE PipelinedGraph ----------------------------
(***************************************************************************)
(* The runs of a graph: nodes on targets, buffers in queues.                *)
(*                                                                          *)
(* Every node has an object descriptor for each pipeline instance.  A       *)
(* target is a task that takes node descriptors from its job queue, one     *)
(* after the other: it acquires a buffer for each parameter, or leaves the  *)
(* descriptor in the list of blocked nodes of the queue it found empty,     *)
(* calls the kernel, releases the parameters, and triggers the nodes that   *)
(* depend on it and those it was holding up.  The host target learns of     *)
(* completed leaf nodes and of consumed buffers through its own job queue.  *)
(*                                                                          *)
(* The data reference queues are protected by one system lock; the flags    *)
(* and the state of the node descriptors by none.  Each action is what      *)
(* happens between two operations that another task can observe.            *)
(*                                                                          *)
(* Graphs in AUTO mode.  One graph parameter is an input, the others are    *)
(* outputs, and the application gives no reference twice at the same time.  *)
(* Delays, replicated nodes and pipe-up of source nodes are left out.       *)
(***************************************************************************)
EXTENDS GraphControl, Functions

CONSTANTS
    Node, Target, Data, Ref,
    HeadNodes,      \* graph->head_nodes, those on each target in their order
    OutNodes,       \* out_node_id of a node
    TargetOf,       \* target_id of a node
    Params,         \* the parameters of a node, all of them in data ref queues
    Producer,       \* the node that writes the data, or NoActor
    Refs,           \* the references that may be used for the data
    UserData,       \* the data that graph parameters with queueing stand for
    Param0,         \* the one that starts runs
    CallbackNode,   \* nodes with a user callback
    Dequeuer,       \* threads that call vxGraphParameterDequeueDoneRef
    Dequeues,       \* and the data they dequeue
    MaxBlocked,     \* TIVX_OBJ_DESC_QUEUE_MAX_BLOCKED_NODES
    NoRef

Inst == Node \X Pipe
InNodes(n) == {m \in Node : n \in Range(OutNodes[m])}
Prev(i) == <<i[1], (i[2] + Depth - 1) % Depth>>     \* prev_pipe_node_id
Consumers(d) == {n \in Node : d \in Range(Params[n]) /\ Producer[d] # n}
Idle == [at |-> "idle", inst |-> NoActor, k |-> 0, prm |-> <<>>, wake |-> <<>>,
         after |-> NoActor]

ASSUME GraphAssumption ==
    /\ Mode = "AUTO" /\ MaxVerify = 1 /\ Host \notin Target
    /\ Leaf = {n \in Node : OutNodes[n] = <<>>}
    /\ \A t \in Target :
          Range(HeadNodes[t]) = {n \in Node : InNodes(n) = {} /\ TargetOf[n] = t}
    /\ CallbackAtLeaf = (CallbackNode \cap Leaf # {})
    /\ Param0 \in UserData /\ Producer[Param0] = NoActor
    /\ \A d \in Data : Producer[d] = NoActor => d = Param0
    \* else a node would neither be blocked nor have its buffer
    /\ MaxBlocked \in Nat /\ \A d \in Data : Cardinality(Consumers(d)) < MaxBlocked

\* Lists of nodes, parameters and references have no duplicates, what is written is a
\* parameter of its writer, and the readers come after it; every reference belongs to
\* one data; the run starts with a parameter that is read; the nodes that another one
\* waits for are on one target; and whatever is not a leaf is followed by one.
GraphParameters ==
    /\ IsFiniteSet(Node)
    /\ OutNodes \in [Node -> Seq(Node)] /\ Params \in [Node -> Seq(Data)]
    /\ TargetOf \in [Node -> Target] /\ HeadNodes \in [Target -> Seq(Node)]
    /\ Producer \in [Data -> Node \cup {NoActor}] /\ Refs \in [Data -> Seq(Ref)]
    /\ UserData \subseteq Data /\ Dequeues \in [Dequeuer -> UserData]
    /\ NoRef \notin Ref /\ NoActor \notin Node \cup Inst
    /\ \A n \in Node : IsInjective(OutNodes[n]) /\ IsInjective(Params[n])
    /\ \A t \in Target : IsInjective(HeadNodes[t])
    /\ \A d \in Data : IsInjective(Refs[d])
    /\ \A d, e \in Data : d # e => Range(Refs[d]) \cap Range(Refs[e]) = {}
    /\ \A d \in Data : Producer[d] # NoActor =>
          /\ d \in Range(Params[Producer[d]])
          /\ Consumers(d) \subseteq Range(OutNodes[Producer[d]])
    /\ Consumers(Param0) # {}
    /\ \A n \in Node : \A l, m \in InNodes(n) : TargetOf[l] = TargetOf[m]
    /\ \A S \in SUBSET Node : Leaf \subseteq S /\ (\A n \in S : InNodes(n) \subseteq S) => S = Node

\* Where the order of the data is concerned, every node reads something: what a source
\* node writes is of no input.
NodesRead == \A n \in Node : \E d \in Range(Params[n]) : Producer[d] # n

VARIABLES
    jobQ,           \* job_queue_handle of each target
    task,           \* what the task of the target is doing
    executed,       \* node descriptors with TIVX_NODE_FLAG_IS_EXECUTED
    blocked,        \* node descriptors in state BLOCKED
    behind,         \* blocked_node_id: who waits for this descriptor to complete
    held,           \* the reference of a data ref queue descriptor, if acquired
    doneCnt,        \* in_node_done_cnt of the descriptor
    readyQ,         \* acquire queue of the data
    doneQ,          \* release queue of the data of a graph parameter
    waiting,        \* blocked_nodes of the acquire queue
    retrigger,      \* nodes that the call that enqueued a reference will trigger
    doneEvent,      \* wait_done_ref_available_event
    deq,            \* a dequeue call is about to look, found nothing, or waits
    enq,            \* references with num_enqueues > 0
    frame,          \* history: the run whose data the reference holds, 0 if none
    taken           \* history: references dequeued

queueVars == <<held, doneCnt, readyQ, doneQ, waiting>>
nodeVars == <<executed, blocked, behind>>
userVars == <<retrigger, doneEvent, deq, enq, taken>>
detailVars == <<jobQ, task, nodeVars, queueVars, userVars, frame>>
vars == <<controlVars, detailVars>>

-----------------------------------------------------------------------------
(* Faulty variants of the definitions below: the properties tell them apart *)

IsPrevPipeNodeBlocked_Never(i) == FALSE
CanNodeExecute_Always(m, p) == TRUE
IsLastConsumer_Any(d, cnt) == TRUE
ExtractBlockedNodes_None(d) == <<>>
BlockedAfterExtract_Kept(d) == waiting[d]
ClearState_Missing(p) == executed
AcquireDoneCnt_Kept(d, p) == doneCnt[<<d, p>>]
EventBeforeWait_Cleared(d) == FALSE
Released_First(t) == task[t].prm[1]

-----------------------------------------------------------------------------

Init ==
    /\ InitControl
    /\ jobQ = [t \in Target \cup {Host} |-> <<>>]
    /\ task = [t \in Target |-> Idle]
    /\ executed = {} /\ blocked = {} /\ behind = [i \in Inst |-> NoActor]
    /\ held = [x \in Data \X Pipe |-> NoRef]
    /\ doneCnt = [x \in Data \X Pipe |-> 0]
    /\ readyQ = [d \in Data |-> <<>>] /\ doneQ = [d \in UserData |-> <<>>]
    /\ waiting = [d \in Data |-> <<>>]
    /\ retrigger = [d \in UserData |-> <<>>]
    /\ doneEvent = [d \in UserData |-> FALSE]
    /\ deq = [x \in Dequeuer |-> "look"]
    /\ enq = {}
    /\ frame = [r \in Ref |-> 0] /\ taken = [d \in UserData |-> 0]

\* ownObjDescSend, to the target of a node descriptor or to the host target.
Send(t, job) == jobQ' = [jobQ EXCEPT ![t] = Append(@, job)]
Trigger(i) == Send(TargetOf[i[1]], i)

\* ownGraphPrimeDataReferenceQueues: the references between nodes are ready.
VerifyGraph ==
    /\ VerifyControl
    /\ readyQ' = [d \in Data |-> IF d \in UserData THEN <<>> ELSE Refs[d]]
    /\ UNCHANGED <<jobQ, task, nodeVars, held, doneCnt, doneQ, waiting, userVars, frame>>

-----------------------------------------------------------------------------
(* The application                                                          *)

\* ownObjDescQueueExtractBlockedNodes: what it returns, and what it leaves.
ExtractBlockedNodes(d) == waiting[d]
BlockedAfterExtract(d) == <<>>

\* A reference joins the ready queue, under the lock of the data ref queues, and
\* the nodes blocked on it are taken from the list, to be triggered afterwards.
EnqueueReady(d, r) ==
    /\ retrigger[d] = <<>>
    /\ r \in Range(Refs[d]) \ enq
    /\ enq' = enq \cup {r}
    /\ readyQ' = [readyQ EXCEPT ![d] = Append(@, r)]
    /\ retrigger' = [retrigger EXCEPT ![d] = ExtractBlockedNodes(d)]
    /\ waiting' = [waiting EXCEPT ![d] = BlockedAfterExtract(d)]
    /\ UNCHANGED <<jobQ, task, nodeVars, held, doneCnt, doneQ, doneEvent, deq, taken>>

\* The application put the data of the next run into the reference.
EnqueueInput(a) ==
    /\ EnqueueControl(a)
    /\ \E r \in Range(Refs[Param0]) :
          EnqueueReady(Param0, r) /\ frame' = [frame EXCEPT ![r] = enqueued']

EnqueueOutput(d) ==
    /\ d # Param0 /\ verified > 0
    /\ \E r \in Range(Refs[d]) :
          EnqueueReady(d, r) /\ frame' = [frame EXCEPT ![r] = 0]
    /\ UNCHANGED controlVars

Retrigger(d) ==
    /\ retrigger[d] # <<>>
    /\ Trigger(Head(retrigger[d]))
    /\ retrigger' = [retrigger EXCEPT ![d] = Tail(@)]
    /\ UNCHANGED <<controlVars, task, nodeVars, queueVars, doneEvent, deq, enq, taken,
                   frame>>

CallStep(a) ==
    /\ \/ (EnqueueEnd(a) \/ EnqueueFail(a)) /\ retrigger[Param0] = <<>>
       \/ ScheduleLock(a) \/ WaitCheck(a) \/ WaitReturn(a)
    /\ UNCHANGED detailVars

\* vxGraphParameterDequeueDoneRef, for one reference.
DequeueRef(x) ==
    LET d == Dequeues[x] IN
    /\ deq[x] = "look" /\ doneQ[d] # <<>>
    /\ doneQ' = [doneQ EXCEPT ![d] = Tail(@)]
    /\ enq' = enq \ {Head(doneQ[d])}
    /\ taken' = [taken EXCEPT ![d] = @ + 1]
    /\ UNCHANGED <<controlVars, jobQ, task, nodeVars, held, doneCnt, readyQ, waiting,
                   retrigger, doneEvent, deq, frame>>

DequeueNothing(x) ==
    /\ deq[x] = "look" /\ doneQ[Dequeues[x]] = <<>>
    /\ deq' = [deq EXCEPT ![x] = "nothing"]
    /\ UNCHANGED <<controlVars, jobQ, task, nodeVars, queueVars, retrigger, doneEvent, enq,
                   taken, frame>>

\* The call that found nothing begins to wait for the event, as it is.
EventBeforeWait(d) == doneEvent[d]

DequeueWait(x) ==
    LET d == Dequeues[x] IN
    /\ deq[x] = "nothing"
    /\ deq' = [deq EXCEPT ![x] = "wait"]
    /\ doneEvent' = [doneEvent EXCEPT ![d] = EventBeforeWait(d)]
    /\ UNCHANGED <<controlVars, jobQ, task, nodeVars, queueVars, retrigger, enq, taken,
                   frame>>

DequeueWoken(x) ==
    LET d == Dequeues[x] IN
    /\ deq[x] = "wait" /\ doneEvent[d]
    /\ deq' = [deq EXCEPT ![x] = "look"]
    /\ doneEvent' = [doneEvent EXCEPT ![d] = FALSE]
    /\ UNCHANGED <<controlVars, jobQ, task, nodeVars, queueVars, retrigger, enq, taken,
                   frame>>

Dequeue(x) == DequeueRef(x) \/ DequeueNothing(x) \/ DequeueWait(x) \/ DequeueWoken(x)

\* ownGraphClearState
ClearState(p) == executed \ {<<n, p>> : n \in Node}

\* ownGraphScheduleGraph submits a run: its head nodes are sent to their targets.
SubmitRun(p) ==
    /\ SubmitControl(p)
    /\ executed' = ClearState(p)
    /\ jobQ' = [t \in DOMAIN jobQ |->
          IF t = Host THEN jobQ[t]
          ELSE jobQ[t] \o [h \in DOMAIN HeadNodes[t] |-> <<HeadNodes[t][h], p>>]]
    /\ UNCHANGED <<task, blocked, behind, queueVars, userVars, frame>>

-----------------------------------------------------------------------------
(* A target: ownTargetNodeDescNodeExecute                                   *)

InstOf(t) == task[t].inst
Param(t) == Params[InstOf(t)[1]][task[t].k]
AtParam(t, step) ==
    task[t].at = step /\ task[t].k \in DOMAIN Params[InstOf(t)[1]] /\ task[t].wake = <<>>
PastParams(t, step) ==
    task[t].at = step /\ task[t].k > Len(Params[InstOf(t)[1]]) /\ task[t].wake = <<>>
NextParam(t) == task' = [task EXCEPT ![t].k = @ + 1]
\* prm_obj_desc_id, where the task keeps the references it works on
HasParam(t, r) == task' = [task EXCEPT ![t].k = @ + 1, ![t].prm = Append(@, r)]
Released(t) == task[t].prm[task[t].k]

\* The node of the previous instance is blocked and this one is not the node
\* that was blocked and is now triggered.  With one instance there is no other.
IsPrevPipeNodeBlocked(i) == i \notin blocked /\ Prev(i) \in blocked

\* A node descriptor is taken from the job queue.
TakeJob(t) ==
    /\ task[t].at = "idle" /\ jobQ[t] # <<>>
    /\ jobQ' = [jobQ EXCEPT ![t] = Tail(@)]
    /\ LET i == Head(jobQ[t]) IN
       \/ i \in executed /\ UNCHANGED <<task, blocked, behind>>
       \/ /\ i \notin executed /\ IsPrevPipeNodeBlocked(i)
          /\ blocked' = blocked \cup {i}
          /\ behind' = [behind EXCEPT ![Prev(i)] = i]
          /\ UNCHANGED task
       \/ /\ i \notin executed /\ ~IsPrevPipeNodeBlocked(i)
          /\ blocked' = blocked \ {i}
          /\ task' = [task EXCEPT ![t] = [Idle EXCEPT !.at = "acquire", !.inst = i, !.k = 1]]
          /\ UNCHANGED behind
    /\ UNCHANGED <<controlVars, executed, queueVars, userVars, frame>>

\* in_node_done_cnt of a descriptor that has just acquired a reference
AcquireDoneCnt(d, p) == 0

\* ownTargetNodeDescAcquireParameter: another node of the run acquired it before ...
AcquireHeld(t) ==
    /\ AtParam(t, "acquire") /\ held[<<Param(t), InstOf(t)[2]>>] # NoRef
    /\ HasParam(t, held[<<Param(t), InstOf(t)[2]>>])
    /\ UNCHANGED <<controlVars, jobQ, nodeVars, queueVars, userVars, frame>>

\* ... or a reference is taken from the acquire queue ...
AcquireRef(t) ==
    LET d == Param(t)
        p == InstOf(t)[2]
    IN  /\ AtParam(t, "acquire") /\ held[<<d, p>>] = NoRef /\ readyQ[d] # <<>>
        /\ held' = [held EXCEPT ![<<d, p>>] = Head(readyQ[d])]
        /\ doneCnt' = [doneCnt EXCEPT ![<<d, p>>] = AcquireDoneCnt(d, p)]
        /\ readyQ' = [readyQ EXCEPT ![d] = Tail(@)]
        /\ HasParam(t, Head(readyQ[d]))
        /\ UNCHANGED <<controlVars, jobQ, nodeVars, doneQ, waiting, userVars, frame>>

\* ... or the node is blocked, keeping what it has acquired.
AcquireBlocks(t) ==
    LET d == Param(t)
    IN  /\ AtParam(t, "acquire") /\ held[<<d, InstOf(t)[2]>>] = NoRef /\ readyQ[d] = <<>>
        /\ waiting' = [waiting EXCEPT ![d] = Append(@, InstOf(t))]
        /\ blocked' = blocked \cup {InstOf(t)}
        /\ task' = [task EXCEPT ![t] = Idle]
        /\ UNCHANGED <<controlVars, jobQ, executed, behind, held, doneCnt, readyQ, doneQ,
                       userVars, frame>>

\* The kernel runs, then ownTargetNodeDescNodeMarkComplete.  Output data is of the
\* run that all input data is of.
ExecuteNode(t) ==
    /\ PastParams(t, "acquire")
    /\ LET i == InstOf(t)
           ks == DOMAIN Params[i[1]]
           outs == {k \in ks : Producer[Params[i[1]][k]] = i[1]}
           from == {frame[task[t].prm[k]] : k \in ks \ outs}
           into == {task[t].prm[k] : k \in outs}
       IN  /\ frame' = [r \in Ref |->
                 IF r \in into THEN IF Cardinality(from) = 1 THEN CHOOSE f \in from : TRUE
                                                             ELSE 0
                               ELSE frame[r]]
           /\ executed' = executed \cup {i} /\ blocked' = blocked \ {i}
           /\ behind' = [behind EXCEPT ![i] = NoActor]
           /\ task' = [task EXCEPT ![t].at = "release", ![t].k = 1, ![t].after = behind[i]]
    /\ UNCHANGED <<controlVars, jobQ, queueVars, userVars>>

\* ownTargetNodeDescReleaseParameter
DoneCount(t) ==
    doneCnt[<<Param(t), InstOf(t)[2]>>] + (IF Producer[Param(t)] = InstOf(t)[1] THEN 0 ELSE 1)

IsLastConsumer(d, cnt) == cnt = Cardinality(Consumers(d))
\* A consumer gives up the reference if it is the last, the producer if there is no
\* consumer.
LastToRelease(t) ==
    IF Producer[Param(t)] = InstOf(t)[1] THEN Consumers(Param(t)) = {}
                                         ELSE IsLastConsumer(Param(t), DoneCount(t))

\* Another node is still to read the data ...
KeepParam(t) ==
    /\ AtParam(t, "release") /\ ~LastToRelease(t)
    /\ doneCnt' = [doneCnt EXCEPT ![<<Param(t), InstOf(t)[2]>>] = DoneCount(t)]
    /\ NextParam(t)
    /\ UNCHANGED <<controlVars, jobQ, nodeVars, held, readyQ, doneQ, waiting, userVars,
                   frame>>

\* ... or none is: between nodes, the reference is ready again and the nodes blocked
\* on it are to be triggered ...
ReleaseParam(t) ==
    LET d == Param(t)
        p == InstOf(t)[2]
    IN  /\ AtParam(t, "release") /\ LastToRelease(t) /\ d \notin UserData
        /\ doneCnt' = [doneCnt EXCEPT ![<<d, p>>] = DoneCount(t)]
        /\ held' = [held EXCEPT ![<<d, p>>] = NoRef]
        /\ readyQ' = [readyQ EXCEPT ![d] = Append(@, Released(t))]
        /\ waiting' = [waiting EXCEPT ![d] = BlockedAfterExtract(d)]
        /\ task' = [task EXCEPT ![t].k = @ + 1, ![t].wake = ExtractBlockedNodes(d)]
        /\ UNCHANGED <<controlVars, jobQ, nodeVars, doneQ, userVars, frame>>

\* ... and the reference of a graph parameter is done.
ReleaseDone(t) ==
    LET d == Param(t)
        p == InstOf(t)[2]
    IN  /\ AtParam(t, "release") /\ LastToRelease(t) /\ d \in UserData
        /\ doneCnt' = [doneCnt EXCEPT ![<<d, p>>] = DoneCount(t)]
        /\ held' = [held EXCEPT ![<<d, p>>] = NoRef]
        /\ doneQ' = [doneQ EXCEPT ![d] = Append(@, Released(t))]
        /\ task' = [task EXCEPT ![t].at = "consumed"]
        /\ UNCHANGED <<controlVars, jobQ, nodeVars, readyQ, waiting, userVars, frame>>

\* ownTargetObjDescSendRefConsumed
SendRefConsumed(t) ==
    /\ task[t].at = "consumed"
    /\ Send(Host, <<"consumed", Param(t)>>)
    /\ task' = [task EXCEPT ![t].at = "release", ![t].k = @ + 1]
    /\ UNCHANGED <<controlVars, nodeVars, queueVars, userVars, frame>>

WakeBlocked(t) ==
    /\ task[t].wake # <<>>
    /\ Trigger(Head(task[t].wake))
    /\ task' = [task EXCEPT ![t].wake = Tail(@)]
    /\ UNCHANGED <<controlVars, nodeVars, queueVars, userVars, frame>>

\* ownTargetNodeDescSendComplete
SendsComplete(n) == n \in CallbackNode \/ OutNodes[n] = <<>>

SendComplete(t) ==
    /\ PastParams(t, "release")
    /\ IF SendsComplete(InstOf(t)[1]) THEN Send(Host, <<"complete", InstOf(t)>>)
                                     ELSE UNCHANGED jobQ
    /\ task' = [task EXCEPT ![t].at = "trigger", ![t].k = 1]
    /\ UNCHANGED <<controlVars, nodeVars, queueVars, userVars, frame>>

\* ownTargetNodeDescCanNodeExecute
CanNodeExecute(m, p) == \A n \in InNodes(m) : <<n, p>> \in executed

\* ownTargetNodeDescTriggerNextNodes
TriggerNext(t) ==
    /\ task[t].at = "trigger" /\ task[t].k \in DOMAIN OutNodes[InstOf(t)[1]]
    /\ LET m == OutNodes[InstOf(t)[1]][task[t].k]
           p == InstOf(t)[2]
       IN  IF CanNodeExecute(m, p) THEN Trigger(<<m, p>>) ELSE UNCHANGED jobQ
    /\ task' = [task EXCEPT ![t].k = @ + 1]
    /\ UNCHANGED <<controlVars, nodeVars, queueVars, userVars, frame>>

\* The node of the next instance that waited for this one is triggered last.
FinishNode(t) ==
    /\ task[t].at = "trigger" /\ task[t].k > Len(OutNodes[InstOf(t)[1]])
    /\ IF task[t].after # NoActor THEN Trigger(task[t].after) ELSE UNCHANGED jobQ
    /\ task' = [task EXCEPT ![t] = Idle]
    /\ UNCHANGED <<controlVars, nodeVars, queueVars, userVars, frame>>

TargetStep(t) ==
    \/ TakeJob(t) \/ AcquireHeld(t) \/ AcquireRef(t) \/ AcquireBlocks(t) \/ ExecuteNode(t)
    \/ KeepParam(t) \/ ReleaseParam(t) \/ ReleaseDone(t) \/ SendRefConsumed(t)
    \/ WakeBlocked(t) \/ SendComplete(t) \/ TriggerNext(t) \/ FinishNode(t)

-----------------------------------------------------------------------------
(* The host target: ownTargetCmdDescHandlerHost                             *)

HostTakes(cmd) ==
    /\ HostIdle /\ jobQ[Host] # <<>> /\ Head(jobQ[Host])[1] = cmd
    /\ jobQ' = [jobQ EXCEPT ![Host] = Tail(@)]
    /\ UNCHANGED <<task, nodeVars, queueVars, retrigger, deq, enq, taken, frame>>

\* TIVX_CMD_DATA_REF_CONSUMED
RefConsumed ==
    /\ HostTakes("consumed")
    /\ doneEvent' = [doneEvent EXCEPT ![Head(jobQ[Host])[2]] = TRUE]
    /\ UNCHANGED controlVars

\* TIVX_CMD_NODE_USER_CALLBACK: a callback may abandon the graph.
NodeCompletes ==
    /\ HostTakes("complete") /\ UNCHANGED doneEvent
    /\ LET n == Head(jobQ[Host])[2][1]
           p == Head(jobQ[Host])[2][2]
       IN  \/ n \notin Leaf /\ (AbandonControl(p) \/ UNCHANGED controlVars)
           \/ n \in Leaf /\ LeafControl(p)
           \/ /\ n \in Leaf
              /\ \E abandon \in {FALSE, (n \in CallbackNode)} : CompleteControl(p, abandon)

HostStep ==
    \/ RefConsumed \/ NodeCompletes
    \/ (RescheduleLock \/ ScheduleUnlock \/ HostAbandons) /\ UNCHANGED detailVars

-----------------------------------------------------------------------------

Next ==
    \/ VerifyGraph
    \/ \E a \in App : EnqueueInput(a) \/ CallStep(a)
    \/ \E d \in UserData : EnqueueOutput(d) \/ Retrigger(d)
    \/ \E x \in Dequeuer : Dequeue(x)
    \/ \E p \in Pipe : SubmitRun(p)
    \/ \E t \in Target : TargetStep(t)
    \/ HostStep

Spec == Init /\ [][Next]_vars

\* The tasks keep running; an application that begins a call goes on with it, and
\* this one keeps giving output references and taking what is done.
Fairness ==
    /\ WF_vars(HostStep)
    /\ \A t \in Target : WF_vars(TargetStep(t))
    /\ \A p \in Pipe : WF_vars(SubmitRun(p))
    /\ \A d \in UserData : WF_vars(Retrigger(d)) /\ WF_vars(EnqueueOutput(d))
    /\ \A x \in Dequeuer : WF_vars(Dequeue(x))
    /\ \A a \in App : WF_vars(CallStep(a))

FairSpec == Spec /\ Fairness

-----------------------------------------------------------------------------
(* Properties                                                               *)

\* What the variables range over: no reference in the queue of other data, no node in
\* the queue of another target, no count above the number of consumers.
Ranges ==
    /\ \A t \in Target : Range(jobQ[t]) \subseteq {i \in Inst : TargetOf[i[1]] = t}
    /\ \A t \in Target :
          task[t].at \in {"idle", "acquire", "release", "consumed", "trigger"}
    /\ executed \subseteq Inst /\ blocked \subseteq Inst
    /\ behind \in [Inst -> Inst \cup {NoActor}]
    /\ held \in [Data \X Pipe -> Ref \cup {NoRef}]
    /\ \A d \in Data, p \in Pipe : doneCnt[<<d, p>>] \in 0 .. Cardinality(Consumers(d))
    /\ \A d \in Data : Range(readyQ[d]) \subseteq Range(Refs[d])
    /\ \A d \in UserData : Range(doneQ[d]) \subseteq Range(Refs[d])

\* The list of blocked nodes is never longer than the array that holds it.
BlockedFit == \A d \in Data : Len(waiting[d]) <= MaxBlocked
TypeOK == Ranges /\ BlockedFit

\* A node is executed in a run only after all nodes it depends on were.
StepPrecedence ==
    \A i \in executed' \ executed : \A m \in InNodes(i[1]) : <<m, i[2]>> \in executed
Precedence == [][StepPrecedence]_vars

\* A node never gets the data of two different runs, and what the application
\* dequeues at an output is the result of its inputs, one for one and in their
\* order, although runs overlap and their nodes are blocked and overtaken.
FramesInOrder ==
    \A d \in UserData : \A j \in DOMAIN doneQ[d] : frame[doneQ[d][j]] = taken[d] + j

\* A reference that the application gave, or that belongs to data between nodes, is
\* in exactly one place: a queue, once, or one descriptor.
RefsConserved ==
    verified > 0 => \A d \in Data : \A r \in Range(Refs[d]) :
       LET places == {<<"ready", j>> : j \in {k \in DOMAIN readyQ[d] : readyQ[d][k] = r}}
                \cup {<<"held", p>> : p \in {q \in Pipe : held[<<d, q>>] = r}}
                \cup (IF d \notin UserData THEN {}
                      ELSE {<<"done", j>> : j \in {k \in DOMAIN doneQ[d] : doneQ[d][k] = r}})
       IN  Cardinality(places) = IF d \in UserData /\ r \notin enq THEN 0 ELSE 1

\* The places from where a node descriptor is going to be triggered.
Occurrences(s, i) == {j \in DOMAIN s : s[j] = i}
Triggers(i) ==
    {<<"job", j>> : j \in Occurrences(jobQ[TargetOf[i[1]]], i)}
      \cup (UNION {{<<"waiting", d, j>> : j \in Occurrences(waiting[d], i)} : d \in Data})
      \cup (UNION {{<<"call", d, j>> : j \in Occurrences(retrigger[d], i)} : d \in UserData})
      \cup (UNION {{<<"wake", t, j>> : j \in Occurrences(task[t].wake, i)} : t \in Target})
      \cup {<<"behind", j>> : j \in {k \in Inst : behind[k] = i}}
      \cup {<<"after", t>> : t \in {u \in Target : task[u].after = i}}

\* A node that is blocked will be triggered again, from one place, and no node is
\* triggered twice: neither the lists of blocked nodes nor blocked_node_id lose or
\* duplicate a node when buffers and completions race with it.
TriggeredOnce ==
    \A i \in Inst : /\ Cardinality(Triggers(i)) <= 1
                    /\ i \in blocked => Triggers(i) # {}

\* A node waits in the list of an empty queue only.
WaitsForNothingReady == \A d \in Data : waiting[d] # <<>> => readyQ[d] = <<>>

\* A dequeue call that waits returns when there is something to dequeue.
DequeueReturns ==
    \A x \in Dequeuer :
       (deq[x] = "wait" /\ doneQ[Dequeues[x]] # <<>>) ~> (deq[x] = "look")

\* Every run that a call asked for, and was not refused, completes.
EveryRunCompletes == \A k \in 1 .. MaxRequest : (returned >= k) ~> (done >= k)

\* The runs of GraphSchedule: a run has taken its references once a node acquired
\* the reference of Param0, a leaf node is complete when the host has handled that.
InRun == IF verified = 0 THEN {} ELSE Pipe \ Range(freeQ)
Unfed == {p \in InRun : held[<<Param0, p>>] = NoRef
                          /\ \E n \in Consumers(Param0) : <<n, p>> \notin executed}
LeafIncomplete(n, p) ==
    \/ <<n, p>> \notin executed
    \/ \E t \in Target : InstOf(t) = <<n, p>> /\ task[t].at \in {"release", "consumed"}
    \/ <<"complete", <<n, p>>>> \in Range(jobQ[Host])

LeavesLeft ==
    [p \in Pipe |-> IF p \in InRun THEN {n \in Leaf : LeafIncomplete(n, p)} ELSE {}]

GS == INSTANCE GraphSchedule WITH
        ready <- Len(readyQ[Param0]),
        unfed <- Unfed,
        leafTodo <- LeavesLeft

\* The nodes, targets and queues together run the graph as GraphSchedule says.
ImplementsGraphSchedule == GS!Spec

=============================================================================
