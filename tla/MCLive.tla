-------------------------------- MODULE MCLive --------------------------------
(* What must eventually happen, in one state space: a chain of two nodes with *)
(* few references (PipelinedGraph, the constants of the configuration), and a *)
(* graph whose callbacks may abandon it and that two threads use, one of which *)
(* waits (GraphSchedule).  The initial state chooses the part that runs.      *)
EXTENDS MCPipelinedGraph

CONSTANTS a1, a2, l1
VARIABLES ready, unfed, leafTodo, part
runVars == <<ready, unfed, leafTodo>>
liveVars == <<vars, runVars, part>>

Schedule == INSTANCE GraphSchedule WITH
    App <- {a1, a2}, Waiter <- {a1}, Leaf <- {l1},
    MaxRequest <- 4, MaxBatch <- 2, CallbackAtLeaf <- TRUE

LiveInit ==
    \/ part = "pipeline" /\ Init /\ ready = 0 /\ unfed = {} /\ leafTodo = <<>>
    \/ /\ part = "schedule" /\ Schedule!Init
       /\ jobQ = <<>> /\ task = <<>> /\ executed = {} /\ blocked = {} /\ behind = <<>>
       /\ held = <<>> /\ doneCnt = <<>> /\ readyQ = <<>> /\ doneQ = <<>> /\ waiting = <<>>
       /\ retrigger = <<>> /\ doneEvent = <<>> /\ deq = <<>> /\ enq = {} /\ frame = <<>>
       /\ taken = <<>>

InPipeline == part = "pipeline" /\ UNCHANGED <<runVars, part>>
InSchedule == part = "schedule" /\ UNCHANGED <<detailVars, part>>

LiveNext ==
    \/ InPipeline /\ Next
    \/ InSchedule /\ Schedule!Next

\* The fairness of PipelinedGraph and that of GraphSchedule.
LiveFairness ==
    /\ WF_liveVars(InPipeline /\ HostStep)
    /\ \A t \in Target : WF_liveVars(InPipeline /\ TargetStep(t))
    /\ \A p \in Pipe : WF_liveVars(InPipeline /\ SubmitRun(p))
    /\ \A d \in UserData : /\ WF_liveVars(InPipeline /\ Retrigger(d))
                           /\ WF_liveVars(InPipeline /\ EnqueueOutput(d))
    /\ \A u \in Dequeuer : WF_liveVars(InPipeline /\ Dequeue(u))
    /\ \A b \in App : WF_liveVars(InPipeline /\ CallStep(b))
    /\ WF_liveVars(InSchedule /\ Schedule!HostStep)
    /\ \A p \in Pipe :
          /\ WF_liveVars(InSchedule /\ Schedule!SubmitRun(p))
          /\ WF_liveVars(InSchedule /\ Schedule!TakeRefs(p))
          /\ WF_liveVars(InSchedule /\ (\/ Schedule!LeafCompletes(l1, p)
                                        \/ Schedule!RunCompletes(l1, p, FALSE)))
    /\ \A b \in {a1, a2} :
          WF_liveVars(/\ InSchedule /\ UNCHANGED runVars
                      /\ \/ Schedule!EnqueueEnd(b) \/ Schedule!ScheduleCount(b, ready)
                         \/ Schedule!ScheduleLock(b) \/ Schedule!WaitReturn(b))

LiveSpec == LiveInit /\ [][LiveNext]_liveVars /\ LiveFairness

-----------------------------------------------------------------------------

\* EveryRunCompletes of both: a run that was asked for completes.
EachRunCompletes == \A k \in 1 .. 4 : (returned >= k) ~> (done >= k)

\* The threads that wait are woken: WaitReturns of GraphSchedule, vxWaitGraph
\* returns, and DequeueReturns of PipelinedGraph, vxGraphParameterDequeueDoneRef
\* returns when there is something to dequeue.
WaitingThreadsReturn ==
    /\ (part = "schedule" /\ pc[a1] = "wait") ~> (part = "schedule" => pc[a1] # "wait")
    /\ \A u \in Dequeuer :
          (part = "pipeline" /\ deq[u] = "wait" /\ doneQ[Dequeues[u]] # <<>>)
             ~> (part = "pipeline" => deq[u] = "look")
===============================================================================
