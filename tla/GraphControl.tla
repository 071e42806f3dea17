----------------------------- MODULE GraphControl -----------------------------
(***************************************************************************)
(* The bookkeeping of a graph: how requests of the application are counted, *)
(* turned into runs and reported complete.                                  *)
(*                                                                          *)
(* A graph owns Depth graph descriptors, one per pipeline instance.  They   *)
(* wait in graph->free_q; ownGraphScheduleGraph takes one for each run it   *)
(* submits, and ownCheckGraphCompleted, called by the host target for every *)
(* leaf node that completes, gives it back and schedules the requests that  *)
(* found no descriptor.  Both work under the lock of the graph, but the     *)
(* pending count is rescheduled after the lock was released, and            *)
(* vxScheduleGraph and vxWaitGraph read graph->state without it.            *)
(*                                                                          *)
(* The module has the state that the lock protects and one action for each  *)
(* step of the functions that use it.  What a run does in between is added  *)
(* by GraphSchedule, in the abstract, and by PipelinedGraph, in detail.     *)
(***************************************************************************)
EXTENDS Integers, Sequences, FiniteSets

CONSTANTS
    App,            \* threads of the application that use the graph
    Waiter,         \* those of them that may call vxWaitGraph
    Leaf,           \* leaf nodes of the graph
    Depth,          \* graph->pipeline_depth
    MaxDepth,       \* TIVX_GRAPH_MAX_PIPELINE_DEPTH, the size of free_q
    Mode,           \* graph->schedule_mode
    MaxRequest,     \* bound: references enqueued, and runs asked for
    MaxBatch,       \* bound: references given in one enqueue call
    MaxVerify,      \* bound: calls of vxVerifyGraph
    CallbackAtLeaf, \* a leaf node has a user callback that may abandon
    Rewait,         \* vxWaitGraph may be called when nothing was scheduled
    NoActor         \* nobody, or no pipeline instance

Pipe == 0 .. Depth - 1
Host == "host"      \* the task of the host target
Actor == App \cup {Host}
Queueing == Mode \in {"AUTO", "MANUAL"}

\* tivxSetGraphPipelineDepth refuses a depth the free queue could not hold
ASSUME DepthAssumption ==
    Depth \in Nat /\ MaxDepth \in Nat /\ 1 <= Depth /\ Depth < MaxDepth
ASSUME LeafAssumption == IsFiniteSet(Leaf) /\ Leaf # {}
ASSUME ModeAssumption == Mode \in {"NORMAL", "AUTO", "MANUAL"}
ASSUME ActorAssumption ==
    Waiter \subseteq App /\ Host \notin App /\ NoActor \notin Actor /\ NoActor \notin Pipe
ASSUME BoundAssumption ==
    /\ MaxRequest \in Nat /\ MaxBatch \in Nat \ {0} /\ MaxVerify \in Nat \ {0}
    /\ CallbackAtLeaf \in BOOLEAN /\ Rewait \in BOOLEAN

VARIABLES
    graphState,     \* graph->state
    descState,      \* obj_desc[p]->state
    freeQ,          \* graph->free_q
    submitted,      \* graph->submitted_count
    pending,        \* graph->schedule_pending_count
    leafDone,       \* obj_desc[p]->complete_leaf_nodes
    allDone,        \* graph->all_graph_completed_event
    lock,           \* the holder of the lock of the graph, or NoActor
    remaining,      \* total_num_schedule - schedule_id of the lock holder
    hostSched,      \* the local schedule_count of ownCheckGraphCompleted
    hostAbandon,    \* the instance ownTargetSetGraphStateAbandon is still to mark
    pc, num         \* per application thread: the call it is in, its num_schedule

\* History: what was asked for and what came of it
VARIABLES
    verified,       \* calls of vxVerifyGraph
    enqueued,       \* references enqueued at the parameter that starts runs
    accepted,       \* runs asked for, counted when the lock is taken
    returned,       \* the value of accepted when the lock was last released
    done,           \* runs completed
    inCall,         \* references enqueued by calls that have not scheduled yet
    stranded,       \* references left behind by enqueue calls that failed half way
    abandonReq,     \* a callback of the current run of p returned ABANDON
    lastAbandon,    \* the same, for the run that completed last
    waitFor,        \* runs that had been asked for when the thread began to wait
    mayWait         \* since it last waited, the thread scheduled or saw a run

descVars == <<descState, freeQ, submitted, leafDone>>
hostVars == <<hostSched, hostAbandon>>
callVars == <<pc, num>>
countVars == <<accepted, returned, done, inCall, stranded, enqueued>>
abandonVars == <<abandonReq, lastAbandon>>
waitVars == <<waitFor, mayWait>>
controlVars == <<graphState, descVars, pending, allDone, lock, remaining, hostVars,
                 callVars, verified, countVars, abandonVars, waitVars>>

-----------------------------------------------------------------------------
(* Faulty variants of the definitions below: the properties tell them apart *)

PutAll_FromOne(q) == q \o [i \in 1 .. Depth |-> i]
TotalNumSchedule_Forgets(n) == n
TakenPending_Last == IF submitted = 1 THEN pending ELSE 0
ClearEvent_Missing == allDone
PostEvent_OffByOne(submittedCount, scheduleCount) ==
    submittedCount = 1 /\ scheduleCount = 0
CompletedState_Overwrites(state) == "COMPLETED"
LeafDoneReset_Missing(p) == leafDone[p] + 1
EnqueueFreeObjDesc_OffByOne(p) ==
    IF Len(freeQ) < Depth - 1 THEN Append(freeQ, p) ELSE freeQ

-----------------------------------------------------------------------------

InitControl ==
    /\ graphState = "UNVERIFIED"
    /\ descState = [p \in Pipe |-> "VERIFIED"]
    /\ freeQ = <<>>
    /\ submitted = 0 /\ pending = 0
    /\ leafDone = [p \in Pipe |-> 0]
    /\ allDone = FALSE
    /\ lock = NoActor /\ remaining = 0 /\ hostSched = 0 /\ hostAbandon = NoActor
    /\ pc = [a \in App |-> "idle"] /\ num = [a \in App |-> 0]
    /\ verified = 0 /\ enqueued = 0 /\ accepted = 0 /\ returned = 0 /\ done = 0
    /\ inCall = 0 /\ stranded = 0
    /\ abandonReq = [p \in Pipe |-> FALSE] /\ lastAbandon = FALSE
    /\ waitFor = [a \in Waiter |-> 0] /\ mayWait = [a \in Waiter |-> FALSE]

\* tivxQueuePut on free_q of the ids 0 .. Depth-1; a full queue drops the rest.
PutAll(q) ==
    LET all == q \o [i \in 1 .. Depth |-> i - 1]
    IN  SubSeq(all, 1, IF Len(all) < MaxDepth THEN Len(all) ELSE MaxDepth)

\* vxVerifyGraph, as far as it concerns the descriptors.  It does not look at
\* what free_q already holds.  An application verifies a graph it is not running.
VerifyControl ==
    /\ verified < MaxVerify /\ lock = NoActor /\ submitted = 0 /\ hostSched = 0
    /\ \A a \in App : pc[a] = "idle"
    /\ freeQ' = PutAll(freeQ)
    /\ descState' = [p \in Pipe |-> "VERIFIED"]
    /\ leafDone' = [p \in Pipe |-> 0]
    /\ graphState' = "VERIFIED"
    /\ verified' = verified + 1
    /\ UNCHANGED <<submitted, pending, allDone, lock, remaining, hostVars, callVars,
                   countVars, abandonVars, waitVars>>

-----------------------------------------------------------------------------
(* The application                                                          *)

\* One turn of the loop of ownGraphParameterEnqueueReadyRef, for the parameter
\* that starts runs: a reference joins its ready queue.
EnqueueControl(a) ==
    /\ Queueing /\ verified > 0
    /\ pc[a] \in {"idle", "enqueue"}
    /\ num[a] < MaxBatch /\ enqueued < MaxRequest
    /\ enqueued' = enqueued + 1
    /\ num' = [num EXCEPT ![a] = @ + 1]
    /\ inCall' = inCall + 1
    /\ pc' = [pc EXCEPT ![a] = "enqueue"]
    /\ UNCHANGED <<graphState, descVars, pending, allDone, lock, remaining, hostVars,
                   verified, accepted, returned, done, stranded, abandonVars, waitVars>>

\* All of them were enqueued.  ownGraphDoScheduleGraphAfterEnqueue: only AUTO
\* mode goes on to ownGraphScheduleGraph.
EnqueueEnd(a) ==
    /\ pc[a] = "enqueue"
    /\ IF Mode = "AUTO"
       THEN pc' = [pc EXCEPT ![a] = "schedule"] /\ UNCHANGED <<num, inCall>>
       ELSE /\ pc' = [pc EXCEPT ![a] = "idle"]
            /\ num' = [num EXCEPT ![a] = 0]
            /\ inCall' = inCall - num[a]
    /\ UNCHANGED <<graphState, descVars, pending, allDone, lock, remaining, hostVars,
                   verified, enqueued, accepted, returned, done, stranded, abandonVars,
                   waitVars>>

\* A later reference of the same call was refused: the call returns the error
\* and schedules nothing, also not for the references it did enqueue.
EnqueueFail(a) ==
    /\ pc[a] = "enqueue"
    /\ pc' = [pc EXCEPT ![a] = "idle"]
    /\ num' = [num EXCEPT ![a] = 0]
    /\ inCall' = inCall - num[a]
    /\ stranded' = stranded + num[a]
    /\ UNCHANGED <<graphState, descVars, pending, allDone, lock, remaining, hostVars,
                   verified, enqueued, accepted, returned, done, abandonVars, waitVars>>

\* vxScheduleGraph of a graph in NORMAL or MANUAL mode: the state is read
\* without the lock; a graph that runs is left alone and the call succeeds.
ScheduleCheck(a) ==
    /\ Mode # "AUTO" /\ verified > 0 /\ pc[a] = "idle"
    /\ accepted + inCall < MaxRequest
    /\ IF graphState \in {"VERIFIED", "COMPLETED", "ABANDONED"}
       THEN pc' = [pc EXCEPT ![a] = "checked"] /\ UNCHANGED mayWait
       ELSE mayWait' = [b \in Waiter |-> b = a \/ mayWait[b]] /\ UNCHANGED pc
    /\ UNCHANGED <<graphState, descVars, pending, allDone, lock, remaining, hostVars, num,
                   verified, countVars, abandonVars, waitFor>>

\* One run in NORMAL mode; in MANUAL mode the count of ownGraphGetNumSchedule,
\* where nothing ready means nothing scheduled, and success.
ScheduleCount(a, numReady) ==
    /\ pc[a] = "checked"
    /\ LET n == IF Mode = "NORMAL" THEN 1 ELSE numReady
       IN  /\ pc' = [pc EXCEPT ![a] = IF n > 0 THEN "schedule" ELSE "idle"]
           /\ num' = [num EXCEPT ![a] = n]
           /\ inCall' = inCall + n
    /\ UNCHANGED <<graphState, descVars, pending, allDone, lock, remaining, hostVars,
                   verified, enqueued, accepted, returned, done, stranded, abandonVars,
                   waitVars>>

\* vxWaitGraph: the state is read, then the thread waits for the event.
WaitCheck(a) ==
    /\ a \in Waiter /\ pc[a] = "idle"
    /\ mayWait[a] \/ Rewait
    /\ graphState \in {"RUNNING", "COMPLETED", "ABANDONED"}
    /\ pc' = [pc EXCEPT ![a] = "wait"]
    /\ waitFor' = [waitFor EXCEPT ![a] = returned]
    /\ mayWait' = [mayWait EXCEPT ![a] = FALSE]
    /\ UNCHANGED <<graphState, descVars, pending, allDone, lock, remaining, hostVars, num,
                   verified, countVars, abandonVars>>

\* tivxEventWait takes the event and clears it.
WaitReturn(a) ==
    /\ pc[a] = "wait" /\ allDone
    /\ allDone' = FALSE
    /\ pc' = [pc EXCEPT ![a] = "idle"]
    /\ UNCHANGED <<graphState, descVars, pending, lock, remaining, hostVars, num, verified,
                   countVars, abandonVars, waitVars>>

-----------------------------------------------------------------------------
(* ownGraphScheduleGraph, by a thread of the application or the host target *)

\* What was pending is scheduled with what is asked for.
TotalNumSchedule(n) == n + pending

\* The lock is taken.
ScheduleLock(a) ==
    /\ pc[a] = "schedule" /\ lock = NoActor
    /\ lock' = a
    /\ remaining' = TotalNumSchedule(num[a])
    /\ accepted' = accepted + num[a]
    /\ inCall' = inCall - num[a]
    /\ UNCHANGED <<graphState, descVars, pending, allDone, hostVars, callVars, verified,
                   enqueued, returned, done, stranded, abandonVars, waitVars>>

\* The same by ownCheckGraphCompleted, for the requests it found pending.
RescheduleLock ==
    /\ hostSched > 0 /\ lock = NoActor
    /\ lock' = Host
    /\ remaining' = TotalNumSchedule(hostSched)
    /\ hostSched' = 0
    /\ UNCHANGED <<graphState, descVars, pending, allDone, hostAbandon, callVars, verified,
                   countVars, abandonVars, waitVars>>

\* tivxEventClear(all_graph_completed_event) at every submission.
ClearEvent == FALSE

\* One turn of the loop: a free descriptor is taken and its run is submitted.
SubmitControl(p) ==
    /\ lock # NoActor /\ remaining > 0 /\ freeQ # <<>> /\ p = Head(freeQ)
    /\ descState' = [descState EXCEPT ![p] = "RUNNING"]
    /\ abandonReq' = [abandonReq EXCEPT ![p] = FALSE]
    /\ freeQ' = Tail(freeQ)
    /\ graphState' = "RUNNING"
    /\ allDone' = ClearEvent
    /\ submitted' = submitted + 1
    /\ remaining' = remaining - 1
    /\ UNCHANGED <<pending, leafDone, lock, hostVars, callVars, verified, countVars,
                   lastAbandon, waitVars>>

\* The loop ended.  What is left is kept pending in the queueing modes, and
\* is an error in NORMAL mode.
ScheduleUnlock ==
    /\ lock # NoActor /\ (remaining = 0 \/ freeQ = <<>>)
    /\ lock' = NoActor /\ remaining' = 0
    /\ IF Queueing THEN pending' = remaining /\ UNCHANGED accepted
                   ELSE UNCHANGED pending /\ accepted' = accepted - remaining
    /\ returned' = accepted'
    /\ IF lock = Host
       THEN UNCHANGED callVars
       ELSE pc' = [pc EXCEPT ![lock] = "idle"] /\ num' = [num EXCEPT ![lock] = 0]
    /\ mayWait' = [a \in Waiter |-> a = lock \/ mayWait[a]]
    /\ UNCHANGED <<graphState, descVars, allDone, hostVars, verified, enqueued, done,
                   inCall, stranded, abandonVars, waitFor>>

-----------------------------------------------------------------------------
(* ownTargetCmdDescHandleUserCallback: a node is complete                   *)

\* The host target handles one command after the other.
HostIdle == hostSched = 0 /\ lock # Host /\ hostAbandon = NoActor

\* The callback of a node that is not a leaf abandoned the graph: the descriptor
\* of the run is marked.
AbandonControl(p) ==
    /\ HostIdle
    /\ descState' = [descState EXCEPT ![p] = "ABANDONED"]
    /\ abandonReq' = [abandonReq EXCEPT ![p] = TRUE]
    /\ UNCHANGED <<graphState, freeQ, submitted, leafDone, pending, allDone, lock,
                   remaining, hostVars, callVars, verified, countVars, lastAbandon,
                   waitVars>>

\* ownCheckGraphCompleted, the part under the lock, when other leaf nodes of the
\* run are still to complete ...
LeafControl(p) ==
    /\ HostIdle /\ lock = NoActor
    /\ leafDone[p] + 1 # Cardinality(Leaf)
    /\ leafDone' = [leafDone EXCEPT ![p] = @ + 1]
    /\ UNCHANGED <<graphState, descState, freeQ, submitted, pending, allDone, lock,
                   remaining, hostVars, callVars, verified, countVars, abandonVars,
                   waitVars>>

\* The state the descriptor of a completed run is left in.
CompletedState(state) == IF state = "RUNNING" THEN "COMPLETED" ELSE state

\* The pending requests that are moved to the local schedule_count.
TakenPending == pending

\* The graph is idle: the event that vxWaitGraph waits for is posted.
PostEvent(submittedCount, scheduleCount) == submittedCount = 0 /\ scheduleCount = 0

\* ownGraphEnqueueFreeObjDesc: the result of tivxQueuePut is ignored.
EnqueueFreeObjDesc(p) == IF Len(freeQ) < MaxDepth THEN Append(freeQ, p) ELSE freeQ

\* complete_leaf_nodes once the last leaf node was counted.
LeafDoneReset(p) == 0

\* ... and when it is the last one: the run is complete, its descriptor is free
\* again, and the pending requests are about to be scheduled.  A callback of the
\* leaf node ran before, but what it returned is acted on afterwards.
CompleteControl(p, abandon) ==
    /\ HostIdle /\ lock = NoActor
    /\ leafDone[p] + 1 = Cardinality(Leaf)
    /\ leafDone' = [leafDone EXCEPT ![p] = LeafDoneReset(p)]
    /\ submitted' = submitted - 1
    /\ descState' = [descState EXCEPT ![p] = CompletedState(@)]
    /\ graphState' = IF submitted' = 0 THEN descState'[p] ELSE graphState
    /\ freeQ' = EnqueueFreeObjDesc(p)
    /\ hostSched' = TakenPending /\ pending' = pending - TakenPending
    /\ allDone' = (allDone \/ PostEvent(submitted', hostSched'))
    /\ hostAbandon' = IF abandon THEN p ELSE NoActor
    /\ done' = done + 1
    /\ lastAbandon' = (abandonReq[p] \/ abandon)
    /\ UNCHANGED <<lock, remaining, callVars, verified, enqueued, accepted, returned,
                   inCall, stranded, abandonReq, waitVars>>

\* ownTargetSetGraphStateAbandon, after the completion check and the rescheduling.
HostAbandons ==
    /\ hostAbandon # NoActor /\ hostSched = 0 /\ lock # Host
    /\ descState' = [descState EXCEPT ![hostAbandon] = "ABANDONED"]
    /\ hostAbandon' = NoActor
    /\ UNCHANGED <<graphState, freeQ, submitted, leafDone, pending, allDone, lock,
                   remaining, hostSched, callVars, verified, countVars, abandonVars,
                   waitVars>>

=============================================================================
