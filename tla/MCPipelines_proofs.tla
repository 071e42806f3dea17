--------------------------- MODULE MCPipelines_proofs ---------------------------
(* What the run of MCPipelines checks, of the chain, the fork and the join, by *)
(* the theorems about PipelinedGraph: for any number of pipeline instances,    *)
(* references between nodes and requests, and whichever target a node of the   *)
(* chain is on.  The proofs are those of PipelinedGraph_proofs and of          *)
(* RunOrder_proofs: an instance of them speaks of the fork, another of the     *)
(* join, and lemmas here say that their definitions are those of the instances *)
(* MCPipelines itself declares.                                                *)
EXTENDS MCPipelines, RunOrder_proofs

ForkP == INSTANCE RunOrder_proofs WITH
    Node <- {A, B, C}, Leaf <- {B, C}, Data <- {in, x, out},
    Ref <- {i1, i2, x1, o1},
    OutNodes <- ForkOut, TargetOf <- ForkTargets, Params <- ForkParams,
    Producer <- ForkProducer, Refs <- ForkRefs, MaxRequest <- 2

JoinP == INSTANCE RunOrder_proofs WITH
    Node <- {A, B, C, J}, Leaf <- {J}, Data <- {in, x, y, z, out},
    Ref <- {i1, i2, x1, y1, y2, z1, o1},
    OutNodes <- JoinOut, TargetOf <- JoinOnOneTarget, Params <- JoinParams,
    Producer <- JoinProducer, Refs <- JoinFewRefs, Waiter <- {a}, MaxRequest <- 2,
    CallbackNode <- {J}, CallbackAtLeaf <- TRUE

\* The invariants of the graph that was chosen.
EachInv == /\ graph = "chain" => Inv /\ RunInv
           /\ graph = "fork" => ForkP!Inv /\ ForkP!RunInv
           /\ graph = "join" => JoinP!Inv /\ JoinP!RunInv

-----------------------------------------------------------------------------
(* The fork                                                                  *)

\* The two instances are one: their constants ...
LEMMA ForkParameters ==
  /\ Fork!GraphParameters <=> ForkP!GraphParameters
  /\ Fork!NodesRead <=> ForkP!NodesRead
BY DEF Fork!NodesRead, ForkP!NodesRead, Fork!Consumers, ForkP!Consumers, Fork!GraphParameters, ForkP!GraphParameters,
       Fork!InNodes, ForkP!InNodes, Fork!Inst, ForkP!Inst, Fork!IsFiniteSet,
       ForkP!IsFiniteSet, Fork!IsInjective, ForkP!IsInjective, Fork!Pipe, ForkP!Pipe,
       Fork!Range, ForkP!Range

\* ... its initial state ...
LEMMA ForkInit == Fork!Init => ForkP!Init
BY DEF Fork!Host, ForkP!Host, Fork!Idle, ForkP!Idle, Fork!Init, ForkP!Init,
       Fork!InitControl, ForkP!InitControl, Fork!Inst, ForkP!Inst, Fork!Pipe, ForkP!Pipe

\* ... its steps ...
LEMMA ForkNext == Fork!Next => ForkP!Next
<1>1. Fork!VerifyGraph => ForkP!VerifyGraph
  BY ZenonT(60) DEF Fork!abandonVars, ForkP!abandonVars, Fork!callVars, ForkP!callVars,
         Fork!countVars, ForkP!countVars, Fork!hostVars, ForkP!hostVars, Fork!nodeVars,
         ForkP!nodeVars, Fork!Pipe, ForkP!Pipe, Fork!PutAll, ForkP!PutAll,
         Fork!userVars, ForkP!userVars, Fork!VerifyControl, ForkP!VerifyControl,
         Fork!VerifyGraph, ForkP!VerifyGraph, Fork!waitVars, ForkP!waitVars
<1>2. ASSUME NEW u \in App
      PROVE  (Fork!EnqueueInput(u) \/ Fork!CallStep(u))
             => (ForkP!EnqueueInput(u) \/ ForkP!CallStep(u))
  BY ZenonT(60) DEF Fork!abandonVars, ForkP!abandonVars, Fork!BlockedAfterExtract,
         ForkP!BlockedAfterExtract, Fork!CallStep, ForkP!CallStep, Fork!callVars,
         ForkP!callVars, Fork!countVars, ForkP!countVars, Fork!descVars, ForkP!descVars,
         Fork!detailVars, ForkP!detailVars, Fork!EnqueueControl, ForkP!EnqueueControl,
         Fork!EnqueueEnd, ForkP!EnqueueEnd, Fork!EnqueueFail, ForkP!EnqueueFail,
         Fork!EnqueueInput, ForkP!EnqueueInput, Fork!EnqueueReady, ForkP!EnqueueReady,
         Fork!ExtractBlockedNodes, ForkP!ExtractBlockedNodes, Fork!hostVars,
         ForkP!hostVars, Fork!nodeVars, ForkP!nodeVars, Fork!Queueing, ForkP!Queueing,
         Fork!queueVars, ForkP!queueVars, Fork!Range, ForkP!Range, Fork!ScheduleLock,
         ForkP!ScheduleLock, Fork!TotalNumSchedule, ForkP!TotalNumSchedule,
         Fork!userVars, ForkP!userVars, Fork!WaitCheck, ForkP!WaitCheck,
         Fork!WaitReturn, ForkP!WaitReturn, Fork!waitVars, ForkP!waitVars
<1>3. ASSUME NEW d \in UserData
      PROVE  (Fork!EnqueueOutput(d) \/ Fork!Retrigger(d))
             => (ForkP!EnqueueOutput(d) \/ ForkP!Retrigger(d))
  BY ZenonT(60) DEF Fork!abandonVars, ForkP!abandonVars, Fork!BlockedAfterExtract,
         ForkP!BlockedAfterExtract, Fork!callVars, ForkP!callVars, Fork!controlVars,
         ForkP!controlVars, Fork!countVars, ForkP!countVars, Fork!descVars,
         ForkP!descVars, Fork!EnqueueOutput, ForkP!EnqueueOutput, Fork!EnqueueReady,
         ForkP!EnqueueReady, Fork!ExtractBlockedNodes, ForkP!ExtractBlockedNodes,
         Fork!hostVars, ForkP!hostVars, Fork!nodeVars, ForkP!nodeVars, Fork!queueVars,
         ForkP!queueVars, Fork!Range, ForkP!Range, Fork!Retrigger, ForkP!Retrigger,
         Fork!Send, ForkP!Send, Fork!Trigger, ForkP!Trigger, Fork!waitVars,
         ForkP!waitVars
<1>4. ASSUME NEW w \in Dequeuer PROVE Fork!Dequeue(w) => ForkP!Dequeue(w)
  BY ZenonT(60) DEF Fork!abandonVars, ForkP!abandonVars, Fork!callVars, ForkP!callVars,
         Fork!controlVars, ForkP!controlVars, Fork!countVars, ForkP!countVars,
         Fork!Dequeue, ForkP!Dequeue, Fork!DequeueNothing, ForkP!DequeueNothing,
         Fork!DequeueRef, ForkP!DequeueRef, Fork!DequeueWait, ForkP!DequeueWait,
         Fork!DequeueWoken, ForkP!DequeueWoken, Fork!descVars, ForkP!descVars,
         Fork!EventBeforeWait, ForkP!EventBeforeWait, Fork!hostVars, ForkP!hostVars,
         Fork!nodeVars, ForkP!nodeVars, Fork!queueVars, ForkP!queueVars, Fork!waitVars,
         ForkP!waitVars
<1>5. ASSUME NEW p \in Pipe PROVE Fork!SubmitRun(p) => ForkP!SubmitRun(p)
  BY ZenonT(60) DEF Fork!callVars, ForkP!callVars, Fork!ClearEvent, ForkP!ClearEvent,
         Fork!ClearState, ForkP!ClearState, Fork!countVars, ForkP!countVars, Fork!Host,
         ForkP!Host, Fork!hostVars, ForkP!hostVars, Fork!queueVars, ForkP!queueVars,
         Fork!SubmitControl, ForkP!SubmitControl, Fork!SubmitRun, ForkP!SubmitRun,
         Fork!userVars, ForkP!userVars, Fork!waitVars, ForkP!waitVars
<1>6. ASSUME NEW t \in Target PROVE Fork!TargetStep(t) => ForkP!TargetStep(t)
  BY ZenonT(60) DEF Fork!abandonVars, ForkP!abandonVars, Fork!AcquireBlocks, ForkP!AcquireBlocks,
         Fork!AcquireDoneCnt, ForkP!AcquireDoneCnt, Fork!AcquireHeld, ForkP!AcquireHeld,
         Fork!AcquireRef, ForkP!AcquireRef, Fork!AtParam, ForkP!AtParam,
         Fork!BlockedAfterExtract, ForkP!BlockedAfterExtract, Fork!callVars,
         ForkP!callVars, Fork!CanNodeExecute, ForkP!CanNodeExecute, Fork!Cardinality,
         ForkP!Cardinality, Fork!Consumers, ForkP!Consumers, Fork!controlVars,
         ForkP!controlVars, Fork!countVars, ForkP!countVars, Fork!descVars,
         ForkP!descVars, Fork!DoneCount, ForkP!DoneCount, Fork!ExecuteNode,
         ForkP!ExecuteNode, Fork!ExtractBlockedNodes, ForkP!ExtractBlockedNodes,
         Fork!FinishNode, ForkP!FinishNode, Fork!HasParam, ForkP!HasParam, Fork!Host,
         ForkP!Host, Fork!hostVars, ForkP!hostVars, Fork!Idle, ForkP!Idle, Fork!InNodes,
         ForkP!InNodes, Fork!InstOf, ForkP!InstOf, Fork!IsLastConsumer,
         ForkP!IsLastConsumer, Fork!IsPrevPipeNodeBlocked, ForkP!IsPrevPipeNodeBlocked,
         Fork!KeepParam, ForkP!KeepParam, Fork!LastToRelease,
         ForkP!LastToRelease, Fork!NextParam, ForkP!NextParam,
         Fork!nodeVars, ForkP!nodeVars, Fork!Param, ForkP!Param, Fork!PastParams,
         ForkP!PastParams, Fork!Prev, ForkP!Prev, Fork!queueVars, ForkP!queueVars,
         Fork!Range, ForkP!Range, Fork!Released, ForkP!Released, Fork!ReleaseDone,
         ForkP!ReleaseDone, Fork!ReleaseParam, ForkP!ReleaseParam, Fork!Send,
         ForkP!Send, Fork!SendComplete, ForkP!SendComplete, Fork!SendRefConsumed,
         ForkP!SendRefConsumed, Fork!SendsComplete, ForkP!SendsComplete, Fork!TakeJob,
         ForkP!TakeJob, Fork!TargetStep, ForkP!TargetStep, Fork!Trigger, ForkP!Trigger,
         Fork!TriggerNext, ForkP!TriggerNext, Fork!userVars, ForkP!userVars,
         Fork!waitVars, ForkP!waitVars, Fork!WakeBlocked, ForkP!WakeBlocked
<1>7. Fork!HostStep => ForkP!HostStep
  BY ZenonT(60) DEF Fork!AbandonControl, ForkP!AbandonControl, Fork!abandonVars, ForkP!abandonVars,
         Fork!callVars, ForkP!callVars, Fork!Cardinality, ForkP!Cardinality,
         Fork!CompleteControl, ForkP!CompleteControl, Fork!CompletedState,
         ForkP!CompletedState, Fork!controlVars, ForkP!controlVars, Fork!countVars,
         ForkP!countVars, Fork!descVars, ForkP!descVars, Fork!detailVars,
         ForkP!detailVars, Fork!EnqueueFreeObjDesc, ForkP!EnqueueFreeObjDesc, Fork!Host,
         ForkP!Host, Fork!HostAbandons, ForkP!HostAbandons, Fork!HostIdle,
         ForkP!HostIdle, Fork!HostStep, ForkP!HostStep, Fork!HostTakes, ForkP!HostTakes,
         Fork!hostVars, ForkP!hostVars, Fork!LeafControl, ForkP!LeafControl,
         Fork!LeafDoneReset, ForkP!LeafDoneReset, Fork!NodeCompletes,
         ForkP!NodeCompletes, Fork!nodeVars, ForkP!nodeVars, Fork!PostEvent,
         ForkP!PostEvent, Fork!Queueing, ForkP!Queueing, Fork!queueVars,
         ForkP!queueVars, Fork!RefConsumed, ForkP!RefConsumed, Fork!RescheduleLock,
         ForkP!RescheduleLock, Fork!ScheduleUnlock, ForkP!ScheduleUnlock,
         Fork!TakenPending, ForkP!TakenPending, Fork!TotalNumSchedule,
         ForkP!TotalNumSchedule, Fork!userVars, ForkP!userVars, Fork!waitVars,
         ForkP!waitVars
<1> QED
  BY <1>1, <1>2, <1>3, <1>4, <1>5, <1>6, <1>7
     DEF Fork!Next, ForkP!Next, Fork!Pipe, ForkP!Pipe, Pipe

\* ... its properties ...
LEMMA ForkProperties ==
  /\ ForkP!TriggeredOnce => Fork!TriggeredOnce
  /\ ForkP!RefsConserved => Fork!RefsConserved
  /\ ForkP!WaitsForNothingReady => Fork!WaitsForNothingReady
  /\ ForkP!StepPrecedence => Fork!StepPrecedence
  /\ ForkP!FramesInOrder => Fork!FramesInOrder
BY DEF Fork!FramesInOrder, ForkP!FramesInOrder, Fork!Cardinality, ForkP!Cardinality, Fork!InNodes, ForkP!InNodes, Fork!Inst,
       ForkP!Inst, Fork!Occurrences, ForkP!Occurrences, Fork!Pipe, ForkP!Pipe, Fork!Range,
       ForkP!Range, Fork!RefsConserved, ForkP!RefsConserved, Fork!StepPrecedence,
       ForkP!StepPrecedence, Fork!TriggeredOnce, ForkP!TriggeredOnce, Fork!Triggers,
       ForkP!Triggers, Fork!WaitsForNothingReady, ForkP!WaitsForNothingReady

\* ... the steps of the schedule it implements, ...
LEMMA ForkScheduleNext == ForkP!GS!Next => Fork!GS!Next
<1>1. ForkP!GS!VerifyGraph => Fork!GS!VerifyGraph
  BY ZenonT(60) DEF ForkP!GS!abandonVars, Fork!GS!abandonVars, ForkP!GS!callVars, Fork!GS!callVars,
         ForkP!GS!countVars, Fork!GS!countVars, ForkP!GS!hostVars, Fork!GS!hostVars,
         ForkP!GS!Pipe, Fork!GS!Pipe, ForkP!GS!PutAll, Fork!GS!PutAll, ForkP!GS!runVars,
         Fork!GS!runVars, ForkP!GS!VerifyControl, Fork!GS!VerifyControl,
         ForkP!GS!VerifyGraph, Fork!GS!VerifyGraph, ForkP!GS!waitVars, Fork!GS!waitVars,
         Fork!Consumers, ForkP!Consumers, Fork!Host, ForkP!Host, Fork!InRun,
         ForkP!InRun, Fork!InstOf, ForkP!InstOf, Fork!LeafIncomplete,
         ForkP!LeafIncomplete, Fork!LeavesLeft, ForkP!LeavesLeft, Fork!Pipe, ForkP!Pipe,
         Fork!Range, ForkP!Range, Fork!Unfed, ForkP!Unfed
<1>2. ASSUME NEW u \in App
      PROVE  (ForkP!GS!EnqueueRef(u) \/ ForkP!GS!CallStep(u))
             => (Fork!GS!EnqueueRef(u) \/ Fork!GS!CallStep(u))
  BY ZenonT(60) DEF ForkP!GS!abandonVars, Fork!GS!abandonVars, ForkP!GS!CallStep, Fork!GS!CallStep,
         ForkP!GS!callVars, Fork!GS!callVars, ForkP!GS!countVars, Fork!GS!countVars,
         ForkP!GS!descVars, Fork!GS!descVars, ForkP!GS!EnqueueControl,
         Fork!GS!EnqueueControl, ForkP!GS!EnqueueEnd, Fork!GS!EnqueueEnd,
         ForkP!GS!EnqueueFail, Fork!GS!EnqueueFail, ForkP!GS!EnqueueRef,
         Fork!GS!EnqueueRef, ForkP!GS!hostVars, Fork!GS!hostVars, ForkP!GS!Queueing,
         Fork!GS!Queueing, ForkP!GS!runVars, Fork!GS!runVars, ForkP!GS!ScheduleCheck,
         Fork!GS!ScheduleCheck, ForkP!GS!ScheduleCount, Fork!GS!ScheduleCount,
         ForkP!GS!ScheduleLock, Fork!GS!ScheduleLock, ForkP!GS!TotalNumSchedule,
         Fork!GS!TotalNumSchedule, ForkP!GS!WaitCheck, Fork!GS!WaitCheck,
         ForkP!GS!WaitReturn, Fork!GS!WaitReturn, ForkP!GS!waitVars, Fork!GS!waitVars,
         Fork!Consumers, ForkP!Consumers, Fork!Host, ForkP!Host, Fork!InRun,
         ForkP!InRun, Fork!InstOf, ForkP!InstOf, Fork!LeafIncomplete,
         ForkP!LeafIncomplete, Fork!LeavesLeft, ForkP!LeavesLeft, Fork!Pipe, ForkP!Pipe,
         Fork!Range, ForkP!Range, Fork!Unfed, ForkP!Unfed
<1>3. ASSUME NEW p \in Pipe PROVE ForkP!GS!RunStep(p) => Fork!GS!RunStep(p)
  BY ZenonT(60) DEF ForkP!GS!AbandonControl, Fork!GS!AbandonControl, ForkP!GS!abandonVars,
         Fork!GS!abandonVars, ForkP!GS!callVars, Fork!GS!callVars, ForkP!GS!Cardinality,
         Fork!GS!Cardinality, ForkP!GS!ClearEvent, Fork!GS!ClearEvent,
         ForkP!GS!CompleteControl, Fork!GS!CompleteControl, ForkP!GS!CompletedState,
         Fork!GS!CompletedState, ForkP!GS!controlVars, Fork!GS!controlVars,
         ForkP!GS!countVars, Fork!GS!countVars, ForkP!GS!descVars, Fork!GS!descVars,
         ForkP!GS!EnqueueFreeObjDesc, Fork!GS!EnqueueFreeObjDesc, ForkP!GS!Host,
         Fork!GS!Host, ForkP!GS!HostIdle, Fork!GS!HostIdle, ForkP!GS!hostVars,
         Fork!GS!hostVars, ForkP!GS!LeafCompletes, Fork!GS!LeafCompletes,
         ForkP!GS!LeafControl, Fork!GS!LeafControl, ForkP!GS!LeafDoneReset,
         Fork!GS!LeafDoneReset, ForkP!GS!NodeAbandons, Fork!GS!NodeAbandons,
         ForkP!GS!PostEvent, Fork!GS!PostEvent, ForkP!GS!Queueing, Fork!GS!Queueing,
         ForkP!GS!RunCompletes, Fork!GS!RunCompletes, ForkP!GS!RunStep, Fork!GS!RunStep,
         ForkP!GS!runVars, Fork!GS!runVars, ForkP!GS!SubmitControl,
         Fork!GS!SubmitControl, ForkP!GS!SubmitRun, Fork!GS!SubmitRun,
         ForkP!GS!TakenPending, Fork!GS!TakenPending, ForkP!GS!TakeRefs,
         Fork!GS!TakeRefs, ForkP!GS!waitVars, Fork!GS!waitVars, Fork!Consumers,
         ForkP!Consumers, Fork!Host, ForkP!Host, Fork!InRun, ForkP!InRun, Fork!InstOf,
         ForkP!InstOf, Fork!LeafIncomplete, ForkP!LeafIncomplete, Fork!LeavesLeft,
         ForkP!LeavesLeft, Fork!Pipe, ForkP!Pipe, Fork!Range, ForkP!Range, Fork!Unfed,
         ForkP!Unfed
<1>4. ForkP!GS!HostStep => Fork!GS!HostStep
  BY ZenonT(60) DEF ForkP!GS!abandonVars, Fork!GS!abandonVars, ForkP!GS!callVars, Fork!GS!callVars,
         ForkP!GS!countVars, Fork!GS!countVars, ForkP!GS!descVars, Fork!GS!descVars,
         ForkP!GS!Host, Fork!GS!Host, ForkP!GS!HostAbandons, Fork!GS!HostAbandons,
         ForkP!GS!HostStep, Fork!GS!HostStep, ForkP!GS!hostVars, Fork!GS!hostVars,
         ForkP!GS!Queueing, Fork!GS!Queueing, ForkP!GS!RescheduleLock,
         Fork!GS!RescheduleLock, ForkP!GS!runVars, Fork!GS!runVars,
         ForkP!GS!ScheduleUnlock, Fork!GS!ScheduleUnlock, ForkP!GS!TotalNumSchedule,
         Fork!GS!TotalNumSchedule, ForkP!GS!waitVars, Fork!GS!waitVars, Fork!Consumers,
         ForkP!Consumers, Fork!Host, ForkP!Host, Fork!InRun, ForkP!InRun, Fork!InstOf,
         ForkP!InstOf, Fork!LeafIncomplete, ForkP!LeafIncomplete, Fork!LeavesLeft,
         ForkP!LeavesLeft, Fork!Pipe, ForkP!Pipe, Fork!Range, ForkP!Range, Fork!Unfed,
         ForkP!Unfed
<1> QED
  BY <1>1, <1>2, <1>3, <1>4
     DEF Fork!GS!Next, ForkP!GS!Next, Fork!GS!Pipe, ForkP!GS!Pipe, Pipe

\* ... the initial state of the schedule ...
LEMMA ForkScheduleInit == ForkP!GS!Init => Fork!GS!Init
BY DEF Fork!GS!Init, ForkP!GS!Init, Fork!GS!InitControl, ForkP!GS!InitControl, Fork!GS!Pipe,
       ForkP!GS!Pipe, Fork!Unfed, ForkP!Unfed, Fork!LeavesLeft, ForkP!LeavesLeft, Fork!Pipe, ForkP!Pipe,
       Fork!InRun, ForkP!InRun, Fork!Range, ForkP!Range, Fork!Consumers, ForkP!Consumers,
       Fork!LeafIncomplete, ForkP!LeafIncomplete, Fork!InstOf, ForkP!InstOf, Fork!Host, ForkP!Host

\* ... and its variables.
LEMMA ForkScheduleVars == UNCHANGED ForkP!GS!vars => UNCHANGED Fork!GS!vars
BY DEF Fork!GS!vars, ForkP!GS!vars, Fork!GS!runVars, ForkP!GS!runVars,
       Fork!GS!controlVars, ForkP!GS!controlVars, Fork!GS!descVars, ForkP!GS!descVars,
       Fork!GS!hostVars, ForkP!GS!hostVars, Fork!GS!callVars, ForkP!GS!callVars,
       Fork!GS!countVars, ForkP!GS!countVars, Fork!GS!abandonVars, ForkP!GS!abandonVars,
       Fork!GS!waitVars, ForkP!GS!waitVars, Fork!Unfed, ForkP!Unfed, Fork!LeavesLeft,
       ForkP!LeavesLeft, Fork!Pipe, ForkP!Pipe, Fork!InRun, ForkP!InRun, Fork!Range, ForkP!Range,
       Fork!Consumers, ForkP!Consumers, Fork!LeafIncomplete, ForkP!LeafIncomplete,
       Fork!InstOf, ForkP!InstOf, Fork!Host, ForkP!Host

\* All of it.
LEMMA ForkSchedule ==
  /\ ForkP!GS!Init => Fork!GS!Init
  /\ ForkP!GS!Next => Fork!GS!Next
  /\ UNCHANGED ForkP!GS!vars => UNCHANGED Fork!GS!vars
BY ForkScheduleInit, ForkScheduleNext, ForkScheduleVars

\* The assumptions of GraphControl and PipelinedGraph hold of the fork.
LEMMA ForkAssumed ==
  /\ ForkP!DepthAssumption /\ ForkP!LeafAssumption /\ ForkP!ModeAssumption
  /\ ForkP!ActorAssumption /\ ForkP!BoundAssumption /\ ForkP!GraphAssumption
  /\ ForkP!GraphParameters /\ ForkP!NodesRead
BY ForkParameters, GraphsAssumption, DepthAssumption, ModeAssumption, ActorAssumption, BoundAssumption
   DEF Fork!Pipe, ForkP!Pipe, Fork!Actor, ForkP!Actor, Fork!Host, ForkP!Host,
       Fork!IsFiniteSet, ForkP!IsFiniteSet, Fork!Cardinality, ForkP!Cardinality, Fork!Range,
       ForkP!Range, Fork!InNodes, ForkP!InNodes, Fork!Consumers, ForkP!Consumers, Pipe,
       Actor, Host, IsFiniteSet, Cardinality, Range, InNodes, Consumers

\* GraphControl and PipelinedGraph assume of the fork what GraphsAssumption says.
LEMMA ForkStarts == Fork!Init => ForkP!Inv /\ ForkP!RunInv /\ Fork!GS!Init
<1>2. ForkP!Init => ForkP!Inv
  BY ForkP!InitInv, ForkAssumed
<1>3. ForkP!Init => ForkP!GS!Init
  BY ForkP!InitImplements, ForkAssumed
<1>4. ForkP!Init => ForkP!RunInv
  BY ForkP!InitRuns, ForkAssumed
<1> QED
  BY <1>2, <1>3, <1>4, ForkInit, ForkSchedule

\* A step keeps the invariants, and is one of the schedule or none.
LEMMA ForkSteps ==
  ASSUME ForkP!Inv, ForkP!RunInv, Fork!Next \/ UNCHANGED vars
  PROVE  /\ ForkP!Inv' /\ ForkP!RunInv'
         /\ Fork!StepPrecedence /\ (Fork!GS!Next \/ UNCHANGED Fork!GS!vars)
<1>2. [ForkP!Next]_ForkP!vars
  BY ForkNext DEF ForkP!abandonVars, ForkP!callVars, ForkP!controlVars, ForkP!countVars,
       ForkP!descVars, ForkP!detailVars, ForkP!hostVars, ForkP!nodeVars, ForkP!queueVars,
       ForkP!userVars, ForkP!vars, ForkP!waitVars, abandonVars, callVars, controlVars,
       countVars, descVars, detailVars, hostVars, nodeVars, queueVars, userVars, vars,
       waitVars
<1>3. ForkP!Inv'
  BY <1>2, ForkP!NextInv, ForkAssumed
<1>4. ForkP!StepPrecedence
  BY <1>2, ForkP!PrecedenceKept, ForkAssumed
<1>5. ForkP!GS!Next \/ UNCHANGED ForkP!GS!vars
  BY <1>2, ForkP!StepImplements, ForkAssumed
<1>6. ForkP!RunInv'
  BY <1>2, <1>3, ForkP!NextRuns, ForkAssumed
<1> QED
  BY <1>3, <1>4, <1>5, <1>6, ForkProperties, ForkSchedule

\* What the invariant says.
LEMMA ForkSafe ==
  ForkP!Inv => Fork!TriggeredOnce /\ Fork!RefsConserved /\ Fork!WaitsForNothingReady
<1> SUFFICES ASSUME ForkP!Inv
             PROVE  ForkP!TriggeredOnce /\ ForkP!RefsConserved /\ ForkP!WaitsForNothingReady
  BY ForkProperties
<1>2. ForkP!Detail /\ ForkP!WaitsForNothingReady
  BY DEF ForkP!Inv, ForkP!Detail
<1>3. ForkP!TriggeredOnce
  BY <1>2, ForkP!TriggeredOnceHolds, ForkAssumed
<1>4. ForkP!RefsConserved
  BY <1>2, ForkP!RefsConservedHolds, ForkAssumed
<1> QED
  BY <1>2, <1>3, <1>4

\* Its lists of nodes, and the order of its data.
LEMMA ForkTypes == ForkP!TypeOK => Fork!TypeOK
BY DEF Fork!TypeOK, ForkP!TypeOK, Fork!Ranges, ForkP!Ranges, Fork!BlockedFit,
       ForkP!BlockedFit, Fork!Inst, ForkP!Inst, Fork!Pipe, ForkP!Pipe, Fork!Range,
       ForkP!Range, Fork!Cardinality, ForkP!Cardinality, Fork!Consumers, ForkP!Consumers

LEMMA ForkOrdered == ForkP!Inv /\ ForkP!RunInv => Fork!TypeOK /\ Fork!FramesInOrder
<1>1. ForkP!Inv /\ ForkP!RunInv => ForkP!TypeOK /\ ForkP!FramesInOrder
  BY ForkP!RunsOrdered, ForkAssumed
<1> QED
  BY <1>1, ForkTypes, ForkProperties

-----------------------------------------------------------------------------
(* The join                                                                  *)

\* The two instances are one: their constants ...
LEMMA JoinParameters ==
  /\ Join!GraphParameters <=> JoinP!GraphParameters
  /\ Join!NodesRead <=> JoinP!NodesRead
BY DEF Join!NodesRead, JoinP!NodesRead, Join!Consumers, JoinP!Consumers, Join!GraphParameters, JoinP!GraphParameters,
       Join!InNodes, JoinP!InNodes, Join!Inst, JoinP!Inst, Join!IsFiniteSet,
       JoinP!IsFiniteSet, Join!IsInjective, JoinP!IsInjective, Join!Pipe, JoinP!Pipe,
       Join!Range, JoinP!Range

\* ... its initial state ...
LEMMA JoinInit == Join!Init => JoinP!Init
BY DEF Join!Host, JoinP!Host, Join!Idle, JoinP!Idle, Join!Init, JoinP!Init,
       Join!InitControl, JoinP!InitControl, Join!Inst, JoinP!Inst, Join!Pipe, JoinP!Pipe

\* ... its steps ...
LEMMA JoinNext == Join!Next => JoinP!Next
<1>1. Join!VerifyGraph => JoinP!VerifyGraph
  BY ZenonT(60) DEF Join!abandonVars, JoinP!abandonVars, Join!callVars, JoinP!callVars,
         Join!countVars, JoinP!countVars, Join!hostVars, JoinP!hostVars, Join!nodeVars,
         JoinP!nodeVars, Join!Pipe, JoinP!Pipe, Join!PutAll, JoinP!PutAll,
         Join!userVars, JoinP!userVars, Join!VerifyControl, JoinP!VerifyControl,
         Join!VerifyGraph, JoinP!VerifyGraph, Join!waitVars, JoinP!waitVars
<1>2. ASSUME NEW u \in App
      PROVE  (Join!EnqueueInput(u) \/ Join!CallStep(u))
             => (JoinP!EnqueueInput(u) \/ JoinP!CallStep(u))
  BY ZenonT(60) DEF Join!abandonVars, JoinP!abandonVars, Join!BlockedAfterExtract,
         JoinP!BlockedAfterExtract, Join!CallStep, JoinP!CallStep, Join!callVars,
         JoinP!callVars, Join!countVars, JoinP!countVars, Join!descVars, JoinP!descVars,
         Join!detailVars, JoinP!detailVars, Join!EnqueueControl, JoinP!EnqueueControl,
         Join!EnqueueEnd, JoinP!EnqueueEnd, Join!EnqueueFail, JoinP!EnqueueFail,
         Join!EnqueueInput, JoinP!EnqueueInput, Join!EnqueueReady, JoinP!EnqueueReady,
         Join!ExtractBlockedNodes, JoinP!ExtractBlockedNodes, Join!hostVars,
         JoinP!hostVars, Join!nodeVars, JoinP!nodeVars, Join!Queueing, JoinP!Queueing,
         Join!queueVars, JoinP!queueVars, Join!Range, JoinP!Range, Join!ScheduleLock,
         JoinP!ScheduleLock, Join!TotalNumSchedule, JoinP!TotalNumSchedule,
         Join!userVars, JoinP!userVars, Join!WaitCheck, JoinP!WaitCheck,
         Join!WaitReturn, JoinP!WaitReturn, Join!waitVars, JoinP!waitVars
<1>3. ASSUME NEW d \in UserData
      PROVE  (Join!EnqueueOutput(d) \/ Join!Retrigger(d))
             => (JoinP!EnqueueOutput(d) \/ JoinP!Retrigger(d))
  BY ZenonT(60) DEF Join!abandonVars, JoinP!abandonVars, Join!BlockedAfterExtract,
         JoinP!BlockedAfterExtract, Join!callVars, JoinP!callVars, Join!controlVars,
         JoinP!controlVars, Join!countVars, JoinP!countVars, Join!descVars,
         JoinP!descVars, Join!EnqueueOutput, JoinP!EnqueueOutput, Join!EnqueueReady,
         JoinP!EnqueueReady, Join!ExtractBlockedNodes, JoinP!ExtractBlockedNodes,
         Join!hostVars, JoinP!hostVars, Join!nodeVars, JoinP!nodeVars, Join!queueVars,
         JoinP!queueVars, Join!Range, JoinP!Range, Join!Retrigger, JoinP!Retrigger,
         Join!Send, JoinP!Send, Join!Trigger, JoinP!Trigger, Join!waitVars,
         JoinP!waitVars
<1>4. ASSUME NEW w \in Dequeuer PROVE Join!Dequeue(w) => JoinP!Dequeue(w)
  BY ZenonT(60) DEF Join!abandonVars, JoinP!abandonVars, Join!callVars, JoinP!callVars,
         Join!controlVars, JoinP!controlVars, Join!countVars, JoinP!countVars,
         Join!Dequeue, JoinP!Dequeue, Join!DequeueNothing, JoinP!DequeueNothing,
         Join!DequeueRef, JoinP!DequeueRef, Join!DequeueWait, JoinP!DequeueWait,
         Join!DequeueWoken, JoinP!DequeueWoken, Join!descVars, JoinP!descVars,
         Join!EventBeforeWait, JoinP!EventBeforeWait, Join!hostVars, JoinP!hostVars,
         Join!nodeVars, JoinP!nodeVars, Join!queueVars, JoinP!queueVars, Join!waitVars,
         JoinP!waitVars
<1>5. ASSUME NEW p \in Pipe PROVE Join!SubmitRun(p) => JoinP!SubmitRun(p)
  BY ZenonT(60) DEF Join!callVars, JoinP!callVars, Join!ClearEvent, JoinP!ClearEvent,
         Join!ClearState, JoinP!ClearState, Join!countVars, JoinP!countVars, Join!Host,
         JoinP!Host, Join!hostVars, JoinP!hostVars, Join!queueVars, JoinP!queueVars,
         Join!SubmitControl, JoinP!SubmitControl, Join!SubmitRun, JoinP!SubmitRun,
         Join!userVars, JoinP!userVars, Join!waitVars, JoinP!waitVars
<1>6. ASSUME NEW t \in Target PROVE Join!TargetStep(t) => JoinP!TargetStep(t)
  BY ZenonT(60) DEF Join!abandonVars, JoinP!abandonVars, Join!AcquireBlocks, JoinP!AcquireBlocks,
         Join!AcquireDoneCnt, JoinP!AcquireDoneCnt, Join!AcquireHeld, JoinP!AcquireHeld,
         Join!AcquireRef, JoinP!AcquireRef, Join!AtParam, JoinP!AtParam,
         Join!BlockedAfterExtract, JoinP!BlockedAfterExtract, Join!callVars,
         JoinP!callVars, Join!CanNodeExecute, JoinP!CanNodeExecute, Join!Cardinality,
         JoinP!Cardinality, Join!Consumers, JoinP!Consumers, Join!controlVars,
         JoinP!controlVars, Join!countVars, JoinP!countVars, Join!descVars,
         JoinP!descVars, Join!DoneCount, JoinP!DoneCount, Join!ExecuteNode,
         JoinP!ExecuteNode, Join!ExtractBlockedNodes, JoinP!ExtractBlockedNodes,
         Join!FinishNode, JoinP!FinishNode, Join!HasParam, JoinP!HasParam, Join!Host,
         JoinP!Host, Join!hostVars, JoinP!hostVars, Join!Idle, JoinP!Idle, Join!InNodes,
         JoinP!InNodes, Join!InstOf, JoinP!InstOf, Join!IsLastConsumer,
         JoinP!IsLastConsumer, Join!IsPrevPipeNodeBlocked, JoinP!IsPrevPipeNodeBlocked,
         Join!KeepParam, JoinP!KeepParam, Join!LastToRelease,
         JoinP!LastToRelease, Join!NextParam, JoinP!NextParam,
         Join!nodeVars, JoinP!nodeVars, Join!Param, JoinP!Param, Join!PastParams,
         JoinP!PastParams, Join!Prev, JoinP!Prev, Join!queueVars, JoinP!queueVars,
         Join!Range, JoinP!Range, Join!Released, JoinP!Released, Join!ReleaseDone,
         JoinP!ReleaseDone, Join!ReleaseParam, JoinP!ReleaseParam, Join!Send,
         JoinP!Send, Join!SendComplete, JoinP!SendComplete, Join!SendRefConsumed,
         JoinP!SendRefConsumed, Join!SendsComplete, JoinP!SendsComplete, Join!TakeJob,
         JoinP!TakeJob, Join!TargetStep, JoinP!TargetStep, Join!Trigger, JoinP!Trigger,
         Join!TriggerNext, JoinP!TriggerNext, Join!userVars, JoinP!userVars,
         Join!waitVars, JoinP!waitVars, Join!WakeBlocked, JoinP!WakeBlocked
<1>7. Join!HostStep => JoinP!HostStep
  BY ZenonT(60) DEF Join!AbandonControl, JoinP!AbandonControl, Join!abandonVars, JoinP!abandonVars,
         Join!callVars, JoinP!callVars, Join!Cardinality, JoinP!Cardinality,
         Join!CompleteControl, JoinP!CompleteControl, Join!CompletedState,
         JoinP!CompletedState, Join!controlVars, JoinP!controlVars, Join!countVars,
         JoinP!countVars, Join!descVars, JoinP!descVars, Join!detailVars,
         JoinP!detailVars, Join!EnqueueFreeObjDesc, JoinP!EnqueueFreeObjDesc, Join!Host,
         JoinP!Host, Join!HostAbandons, JoinP!HostAbandons, Join!HostIdle,
         JoinP!HostIdle, Join!HostStep, JoinP!HostStep, Join!HostTakes, JoinP!HostTakes,
         Join!hostVars, JoinP!hostVars, Join!LeafControl, JoinP!LeafControl,
         Join!LeafDoneReset, JoinP!LeafDoneReset, Join!NodeCompletes,
         JoinP!NodeCompletes, Join!nodeVars, JoinP!nodeVars, Join!PostEvent,
         JoinP!PostEvent, Join!Queueing, JoinP!Queueing, Join!queueVars,
         JoinP!queueVars, Join!RefConsumed, JoinP!RefConsumed, Join!RescheduleLock,
         JoinP!RescheduleLock, Join!ScheduleUnlock, JoinP!ScheduleUnlock,
         Join!TakenPending, JoinP!TakenPending, Join!TotalNumSchedule,
         JoinP!TotalNumSchedule, Join!userVars, JoinP!userVars, Join!waitVars,
         JoinP!waitVars
<1> QED
  BY <1>1, <1>2, <1>3, <1>4, <1>5, <1>6, <1>7
     DEF Join!Next, JoinP!Next, Join!Pipe, JoinP!Pipe, Pipe

\* ... its properties ...
LEMMA JoinProperties ==
  /\ JoinP!TriggeredOnce => Join!TriggeredOnce
  /\ JoinP!RefsConserved => Join!RefsConserved
  /\ JoinP!WaitsForNothingReady => Join!WaitsForNothingReady
  /\ JoinP!StepPrecedence => Join!StepPrecedence
  /\ JoinP!FramesInOrder => Join!FramesInOrder
BY DEF Join!FramesInOrder, JoinP!FramesInOrder, Join!Cardinality, JoinP!Cardinality, Join!InNodes, JoinP!InNodes, Join!Inst,
       JoinP!Inst, Join!Occurrences, JoinP!Occurrences, Join!Pipe, JoinP!Pipe, Join!Range,
       JoinP!Range, Join!RefsConserved, JoinP!RefsConserved, Join!StepPrecedence,
       JoinP!StepPrecedence, Join!TriggeredOnce, JoinP!TriggeredOnce, Join!Triggers,
       JoinP!Triggers, Join!WaitsForNothingReady, JoinP!WaitsForNothingReady

\* ... the steps of the schedule it implements, ...
LEMMA JoinScheduleNext == JoinP!GS!Next => Join!GS!Next
<1>1. JoinP!GS!VerifyGraph => Join!GS!VerifyGraph
  BY ZenonT(60) DEF JoinP!GS!abandonVars, Join!GS!abandonVars, JoinP!GS!callVars, Join!GS!callVars,
         JoinP!GS!countVars, Join!GS!countVars, JoinP!GS!hostVars, Join!GS!hostVars,
         JoinP!GS!Pipe, Join!GS!Pipe, JoinP!GS!PutAll, Join!GS!PutAll, JoinP!GS!runVars,
         Join!GS!runVars, JoinP!GS!VerifyControl, Join!GS!VerifyControl,
         JoinP!GS!VerifyGraph, Join!GS!VerifyGraph, JoinP!GS!waitVars, Join!GS!waitVars,
         Join!Consumers, JoinP!Consumers, Join!Host, JoinP!Host, Join!InRun,
         JoinP!InRun, Join!InstOf, JoinP!InstOf, Join!LeafIncomplete,
         JoinP!LeafIncomplete, Join!LeavesLeft, JoinP!LeavesLeft, Join!Pipe, JoinP!Pipe,
         Join!Range, JoinP!Range, Join!Unfed, JoinP!Unfed
<1>2. ASSUME NEW u \in App
      PROVE  (JoinP!GS!EnqueueRef(u) \/ JoinP!GS!CallStep(u))
             => (Join!GS!EnqueueRef(u) \/ Join!GS!CallStep(u))
  BY ZenonT(60) DEF JoinP!GS!abandonVars, Join!GS!abandonVars, JoinP!GS!CallStep, Join!GS!CallStep,
         JoinP!GS!callVars, Join!GS!callVars, JoinP!GS!countVars, Join!GS!countVars,
         JoinP!GS!descVars, Join!GS!descVars, JoinP!GS!EnqueueControl,
         Join!GS!EnqueueControl, JoinP!GS!EnqueueEnd, Join!GS!EnqueueEnd,
         JoinP!GS!EnqueueFail, Join!GS!EnqueueFail, JoinP!GS!EnqueueRef,
         Join!GS!EnqueueRef, JoinP!GS!hostVars, Join!GS!hostVars, JoinP!GS!Queueing,
         Join!GS!Queueing, JoinP!GS!runVars, Join!GS!runVars, JoinP!GS!ScheduleCheck,
         Join!GS!ScheduleCheck, JoinP!GS!ScheduleCount, Join!GS!ScheduleCount,
         JoinP!GS!ScheduleLock, Join!GS!ScheduleLock, JoinP!GS!TotalNumSchedule,
         Join!GS!TotalNumSchedule, JoinP!GS!WaitCheck, Join!GS!WaitCheck,
         JoinP!GS!WaitReturn, Join!GS!WaitReturn, JoinP!GS!waitVars, Join!GS!waitVars,
         Join!Consumers, JoinP!Consumers, Join!Host, JoinP!Host, Join!InRun,
         JoinP!InRun, Join!InstOf, JoinP!InstOf, Join!LeafIncomplete,
         JoinP!LeafIncomplete, Join!LeavesLeft, JoinP!LeavesLeft, Join!Pipe, JoinP!Pipe,
         Join!Range, JoinP!Range, Join!Unfed, JoinP!Unfed
<1>3. ASSUME NEW p \in Pipe PROVE JoinP!GS!RunStep(p) => Join!GS!RunStep(p)
  BY ZenonT(60) DEF JoinP!GS!AbandonControl, Join!GS!AbandonControl, JoinP!GS!abandonVars,
         Join!GS!abandonVars, JoinP!GS!callVars, Join!GS!callVars, JoinP!GS!Cardinality,
         Join!GS!Cardinality, JoinP!GS!ClearEvent, Join!GS!ClearEvent,
         JoinP!GS!CompleteControl, Join!GS!CompleteControl, JoinP!GS!CompletedState,
         Join!GS!CompletedState, JoinP!GS!controlVars, Join!GS!controlVars,
         JoinP!GS!countVars, Join!GS!countVars, JoinP!GS!descVars, Join!GS!descVars,
         JoinP!GS!EnqueueFreeObjDesc, Join!GS!EnqueueFreeObjDesc, JoinP!GS!Host,
         Join!GS!Host, JoinP!GS!HostIdle, Join!GS!HostIdle, JoinP!GS!hostVars,
         Join!GS!hostVars, JoinP!GS!LeafCompletes, Join!GS!LeafCompletes,
         JoinP!GS!LeafControl, Join!GS!LeafControl, JoinP!GS!LeafDoneReset,
         Join!GS!LeafDoneReset, JoinP!GS!NodeAbandons, Join!GS!NodeAbandons,
         JoinP!GS!PostEvent, Join!GS!PostEvent, JoinP!GS!Queueing, Join!GS!Queueing,
         JoinP!GS!RunCompletes, Join!GS!RunCompletes, JoinP!GS!RunStep, Join!GS!RunStep,
         JoinP!GS!runVars, Join!GS!runVars, JoinP!GS!SubmitControl,
         Join!GS!SubmitControl, JoinP!GS!SubmitRun, Join!GS!SubmitRun,
         JoinP!GS!TakenPending, Join!GS!TakenPending, JoinP!GS!TakeRefs,
         Join!GS!TakeRefs, JoinP!GS!waitVars, Join!GS!waitVars, Join!Consumers,
         JoinP!Consumers, Join!Host, JoinP!Host, Join!InRun, JoinP!InRun, Join!InstOf,
         JoinP!InstOf, Join!LeafIncomplete, JoinP!LeafIncomplete, Join!LeavesLeft,
         JoinP!LeavesLeft, Join!Pipe, JoinP!Pipe, Join!Range, JoinP!Range, Join!Unfed,
         JoinP!Unfed
<1>4. JoinP!GS!HostStep => Join!GS!HostStep
  BY ZenonT(60) DEF JoinP!GS!abandonVars, Join!GS!abandonVars, JoinP!GS!callVars, Join!GS!callVars,
         JoinP!GS!countVars, Join!GS!countVars, JoinP!GS!descVars, Join!GS!descVars,
         JoinP!GS!Host, Join!GS!Host, JoinP!GS!HostAbandons, Join!GS!HostAbandons,
         JoinP!GS!HostStep, Join!GS!HostStep, JoinP!GS!hostVars, Join!GS!hostVars,
         JoinP!GS!Queueing, Join!GS!Queueing, JoinP!GS!RescheduleLock,
         Join!GS!RescheduleLock, JoinP!GS!runVars, Join!GS!runVars,
         JoinP!GS!ScheduleUnlock, Join!GS!ScheduleUnlock, JoinP!GS!TotalNumSchedule,
         Join!GS!TotalNumSchedule, JoinP!GS!waitVars, Join!GS!waitVars, Join!Consumers,
         JoinP!Consumers, Join!Host, JoinP!Host, Join!InRun, JoinP!InRun, Join!InstOf,
         JoinP!InstOf, Join!LeafIncomplete, JoinP!LeafIncomplete, Join!LeavesLeft,
         JoinP!LeavesLeft, Join!Pipe, JoinP!Pipe, Join!Range, JoinP!Range, Join!Unfed,
         JoinP!Unfed
<1> QED
  BY <1>1, <1>2, <1>3, <1>4
     DEF Join!GS!Next, JoinP!GS!Next, Join!GS!Pipe, JoinP!GS!Pipe, Pipe

\* ... the initial state of the schedule ...
LEMMA JoinScheduleInit == JoinP!GS!Init => Join!GS!Init
BY DEF Join!GS!Init, JoinP!GS!Init, Join!GS!InitControl, JoinP!GS!InitControl, Join!GS!Pipe,
       JoinP!GS!Pipe, Join!Unfed, JoinP!Unfed, Join!LeavesLeft, JoinP!LeavesLeft, Join!Pipe, JoinP!Pipe,
       Join!InRun, JoinP!InRun, Join!Range, JoinP!Range, Join!Consumers, JoinP!Consumers,
       Join!LeafIncomplete, JoinP!LeafIncomplete, Join!InstOf, JoinP!InstOf, Join!Host, JoinP!Host

\* ... and its variables.
LEMMA JoinScheduleVars == UNCHANGED JoinP!GS!vars => UNCHANGED Join!GS!vars
BY DEF Join!GS!vars, JoinP!GS!vars, Join!GS!runVars, JoinP!GS!runVars,
       Join!GS!controlVars, JoinP!GS!controlVars, Join!GS!descVars, JoinP!GS!descVars,
       Join!GS!hostVars, JoinP!GS!hostVars, Join!GS!callVars, JoinP!GS!callVars,
       Join!GS!countVars, JoinP!GS!countVars, Join!GS!abandonVars, JoinP!GS!abandonVars,
       Join!GS!waitVars, JoinP!GS!waitVars, Join!Unfed, JoinP!Unfed, Join!LeavesLeft,
       JoinP!LeavesLeft, Join!Pipe, JoinP!Pipe, Join!InRun, JoinP!InRun, Join!Range, JoinP!Range,
       Join!Consumers, JoinP!Consumers, Join!LeafIncomplete, JoinP!LeafIncomplete,
       Join!InstOf, JoinP!InstOf, Join!Host, JoinP!Host

\* All of it.
LEMMA JoinSchedule ==
  /\ JoinP!GS!Init => Join!GS!Init
  /\ JoinP!GS!Next => Join!GS!Next
  /\ UNCHANGED JoinP!GS!vars => UNCHANGED Join!GS!vars
BY JoinScheduleInit, JoinScheduleNext, JoinScheduleVars

\* The assumptions of GraphControl and PipelinedGraph hold of the join.
LEMMA JoinAssumed ==
  /\ JoinP!DepthAssumption /\ JoinP!LeafAssumption /\ JoinP!ModeAssumption
  /\ JoinP!ActorAssumption /\ JoinP!BoundAssumption /\ JoinP!GraphAssumption
  /\ JoinP!GraphParameters /\ JoinP!NodesRead
BY JoinParameters, GraphsAssumption, DepthAssumption, ModeAssumption, ActorAssumption, BoundAssumption
   DEF Join!Pipe, JoinP!Pipe, Join!Actor, JoinP!Actor, Join!Host, JoinP!Host,
       Join!IsFiniteSet, JoinP!IsFiniteSet, Join!Cardinality, JoinP!Cardinality, Join!Range,
       JoinP!Range, Join!InNodes, JoinP!InNodes, Join!Consumers, JoinP!Consumers, Pipe,
       Actor, Host, IsFiniteSet, Cardinality, Range, InNodes, Consumers

\* GraphControl and PipelinedGraph assume of the join what GraphsAssumption says.
LEMMA JoinStarts == Join!Init => JoinP!Inv /\ JoinP!RunInv /\ Join!GS!Init
<1>2. JoinP!Init => JoinP!Inv
  BY JoinP!InitInv, JoinAssumed
<1>3. JoinP!Init => JoinP!GS!Init
  BY JoinP!InitImplements, JoinAssumed
<1>4. JoinP!Init => JoinP!RunInv
  BY JoinP!InitRuns, JoinAssumed
<1> QED
  BY <1>2, <1>3, <1>4, JoinInit, JoinSchedule

\* A step keeps the invariants, and is one of the schedule or none.
LEMMA JoinSteps ==
  ASSUME JoinP!Inv, JoinP!RunInv, Join!Next \/ UNCHANGED vars
  PROVE  /\ JoinP!Inv' /\ JoinP!RunInv'
         /\ Join!StepPrecedence /\ (Join!GS!Next \/ UNCHANGED Join!GS!vars)
<1>2. [JoinP!Next]_JoinP!vars
  BY JoinNext DEF JoinP!abandonVars, JoinP!callVars, JoinP!controlVars, JoinP!countVars,
       JoinP!descVars, JoinP!detailVars, JoinP!hostVars, JoinP!nodeVars, JoinP!queueVars,
       JoinP!userVars, JoinP!vars, JoinP!waitVars, abandonVars, callVars, controlVars,
       countVars, descVars, detailVars, hostVars, nodeVars, queueVars, userVars, vars,
       waitVars
<1>3. JoinP!Inv'
  BY <1>2, JoinP!NextInv, JoinAssumed
<1>4. JoinP!StepPrecedence
  BY <1>2, JoinP!PrecedenceKept, JoinAssumed
<1>5. JoinP!GS!Next \/ UNCHANGED JoinP!GS!vars
  BY <1>2, JoinP!StepImplements, JoinAssumed
<1>6. JoinP!RunInv'
  BY <1>2, <1>3, JoinP!NextRuns, JoinAssumed
<1> QED
  BY <1>3, <1>4, <1>5, <1>6, JoinProperties, JoinSchedule

\* What the invariant says.
LEMMA JoinSafe ==
  JoinP!Inv => Join!TriggeredOnce /\ Join!RefsConserved /\ Join!WaitsForNothingReady
<1> SUFFICES ASSUME JoinP!Inv
             PROVE  JoinP!TriggeredOnce /\ JoinP!RefsConserved /\ JoinP!WaitsForNothingReady
  BY JoinProperties
<1>2. JoinP!Detail /\ JoinP!WaitsForNothingReady
  BY DEF JoinP!Inv, JoinP!Detail
<1>3. JoinP!TriggeredOnce
  BY <1>2, JoinP!TriggeredOnceHolds, JoinAssumed
<1>4. JoinP!RefsConserved
  BY <1>2, JoinP!RefsConservedHolds, JoinAssumed
<1> QED
  BY <1>2, <1>3, <1>4

\* Its lists of nodes, and the order of its data.
LEMMA JoinTypes == JoinP!TypeOK => Join!TypeOK
BY DEF Join!TypeOK, JoinP!TypeOK, Join!Ranges, JoinP!Ranges, Join!BlockedFit,
       JoinP!BlockedFit, Join!Inst, JoinP!Inst, Join!Pipe, JoinP!Pipe, Join!Range,
       JoinP!Range, Join!Cardinality, JoinP!Cardinality, Join!Consumers, JoinP!Consumers

LEMMA JoinOrdered == JoinP!Inv /\ JoinP!RunInv => Join!TypeOK /\ Join!FramesInOrder
<1>1. JoinP!Inv /\ JoinP!RunInv => JoinP!TypeOK /\ JoinP!FramesInOrder
  BY JoinP!RunsOrdered, JoinAssumed
<1> QED
  BY <1>1, JoinTypes, JoinProperties

-----------------------------------------------------------------------------
(* The graph that was chosen                                                 *)

\* A step of the chosen graph, or one that leaves everything as it is.
LEMMA ChosenSteps ==
  ASSUME [GraphsNext]_graphVars
  PROVE  /\ graph' = graph
         /\ graph = "chain" => [Next]_vars
         /\ graph = "fork" => Fork!Next \/ UNCHANGED vars
         /\ graph = "join" => Join!Next \/ UNCHANGED vars
<1>1. CASE GraphsNext
  <2>1. graph' = graph
    BY <1>1 DEF GraphsNext
  <2>2. \/ graph = "chain" /\ Next
        \/ graph = "fork" /\ Fork!Next
        \/ graph = "join" /\ Join!Next
    BY <1>1 DEF GraphsNext
  <2> QED
    BY <2>1, <2>2
<1>2. CASE UNCHANGED graphVars
  <2>1. graph' = graph /\ UNCHANGED vars
    BY <1>2 DEF graphVars
  <2> QED
    BY <2>1
<1> QED
  BY <1>1, <1>2

\* The invariant of PipelinedGraph holds of the graph chosen at first ...
LEMMA EachStarts == GraphsInit => EachInv
<1> SUFFICES ASSUME GraphsInit PROVE EachInv
  OBVIOUS
<1>1. \/ graph = "chain" /\ Init
      \/ graph = "fork" /\ Fork!Init
      \/ graph = "join" /\ Join!Init
  BY DEF GraphsInit
<1>2. Init => Inv /\ RunInv
  BY InitInv, InitRuns, GraphsAssumption
<1>3. Fork!Init => ForkP!Inv /\ ForkP!RunInv
  BY ForkStarts
<1>4. Join!Init => JoinP!Inv /\ JoinP!RunInv
  BY JoinStarts
<1> QED
  BY <1>1, <1>2, <1>3, <1>4 DEF EachInv

\* ... and after any step of it.
LEMMA EachSteps == ASSUME EachInv, [GraphsNext]_graphVars PROVE EachInv'
<1>1. /\ graph' = graph
      /\ graph = "chain" => [Next]_vars
      /\ graph = "fork" => Fork!Next \/ UNCHANGED vars
      /\ graph = "join" => Join!Next \/ UNCHANGED vars
  BY ChosenSteps
<1>2. graph = "chain" => Inv' /\ RunInv'
  BY <1>1, NextInv, NextRuns, GraphsAssumption DEF EachInv
<1>3. graph = "fork" => ForkP!Inv' /\ ForkP!RunInv'
  BY <1>1, ForkSteps DEF EachInv
<1>4. graph = "join" => JoinP!Inv' /\ JoinP!RunInv'
  BY <1>1, JoinSteps DEF EachInv
<1> QED
  BY <1>1, <1>2, <1>3, <1>4 DEF EachInv

\* Every part of EachInv is inductive, and the graph does not change.
LEMMA GraphsInvariance == GraphsSpec => []EachInv
<1>1. EachInv /\ [GraphsNext]_graphVars => EachInv'
  BY EachSteps
<1> QED
  BY EachStarts, <1>1, PTL DEF GraphsSpec

\* What the invariants say of the lists of blocked nodes and of the data.
LEMMA EachOrdered == EachInv => TypesOK /\ EachInOrder
<1> SUFFICES ASSUME EachInv PROVE TypesOK /\ EachInOrder
  OBVIOUS
<1>1. Inv /\ RunInv => TypeOK /\ FramesInOrder
  BY RunsOrdered, GraphsAssumption
<1> QED
  BY <1>1, ForkOrdered, JoinOrdered DEF EachInv, TypesOK, EachInOrder

\* ownTargetNodeDescAcquireParameter and ownObjDescQueueAddBlockedNode: the array of
\* blocked nodes of a queue holds all that are blocked on it, in the chain, the fork and
\* the join, however many runs wait there; and no job is in the queue of another target.
THEOREM EachTypesHold == GraphsSpec => []TypesOK
<1>1. EachInv => TypesOK
  BY EachOrdered
<1> QED
  BY <1>1, GraphsInvariance, PTL

\* ownTargetNodeDescNodeExecute and the queues of parameters: no node of the chain, the
\* fork or the join gets the data of two runs, and what the application dequeues is the
\* results of its inputs, one for one and in their order, although runs overlap.
THEOREM EachInOrderHolds == GraphsSpec => []EachInOrder
<1>1. EachInv => EachInOrder
  BY EachOrdered
<1> QED
  BY <1>1, GraphsInvariance, PTL

\* ownObjDescQueueExtractBlockedNodes, blocked_node_id and the job queues: no blocked node
\* of the chain, the fork or the join is forgotten, and none is going to be triggered from
\* two places, however many pipeline instances and requests there are.
THEOREM EachTriggeredOnceHolds == GraphsSpec => []EachTriggeredOnce
<1>1. EachInv => EachTriggeredOnce
  <2> SUFFICES ASSUME EachInv PROVE EachTriggeredOnce
    OBVIOUS
  <2>1. Inv => TriggeredOnce
    BY TriggeredOnceHolds, GraphsAssumption DEF Inv
  <2> QED
    BY <2>1, ForkSafe, JoinSafe DEF EachInv, EachTriggeredOnce
<1> QED
  BY <1>1, GraphsInvariance, PTL

\* ownTargetNodeDescAcquireParameter, ownTargetNodeDescReleaseParameter: the references of
\* the chain, the fork and the join are neither lost nor used for two runs.
THEOREM EachRefConservedHolds == GraphsSpec => []EachRefConserved
<1>1. EachInv => EachRefConserved
  <2> SUFFICES ASSUME EachInv PROVE EachRefConserved
    OBVIOUS
  <2>1. Inv => RefsConserved
    BY RefsConservedHolds, GraphsAssumption DEF Inv
  <2> QED
    BY <2>1, ForkSafe, JoinSafe DEF EachInv, EachRefConserved
<1> QED
  BY <1>1, GraphsInvariance, PTL

\* ownObjDescQueueAddBlockedNode: a node of the chain, the fork or the join waits in the
\* list of an empty queue only.
THEOREM EachWaitsHolds == GraphsSpec => []EachWaitsForNothingReady
<1>1. EachInv => EachWaitsForNothingReady
  <2> SUFFICES ASSUME EachInv PROVE EachWaitsForNothingReady
    OBVIOUS
  <2>1. Inv => WaitsForNothingReady
    BY DEF Inv, Detail
  <2> QED
    BY <2>1, ForkSafe, JoinSafe DEF EachInv, EachWaitsForNothingReady
<1> QED
  BY <1>1, GraphsInvariance, PTL

\* ownTargetNodeDescCanNodeExecute: the nodes of the chain, the fork and the join are
\* executed after those they depend on.
THEOREM EachPrecedenceHolds == GraphsSpec => EachPrecedence
<1>1. EachInv /\ [GraphsNext]_graphVars =>
        /\ graph = "chain" => StepPrecedence
        /\ graph = "fork" => Fork!StepPrecedence
        /\ graph = "join" => Join!StepPrecedence
  <2> SUFFICES ASSUME EachInv, [GraphsNext]_graphVars
               PROVE  /\ graph = "chain" => StepPrecedence
                      /\ graph = "fork" => Fork!StepPrecedence
                      /\ graph = "join" => Join!StepPrecedence
    OBVIOUS
  <2>1. /\ graph = "chain" => [Next]_vars
        /\ graph = "fork" => Fork!Next \/ UNCHANGED vars
        /\ graph = "join" => Join!Next \/ UNCHANGED vars
    BY ChosenSteps
  <2> QED
    BY <2>1, PrecedenceKept, ForkSteps, JoinSteps, GraphsAssumption DEF EachInv
<1> QED
  BY <1>1, GraphsInvariance, PTL DEF GraphsSpec, EachPrecedence

\* Nodes, targets, queues and host run the chain, the fork and the join as GraphSchedule
\* says: every state of GraphSchedule follows from the one before it by one of its steps.
THEOREM EachImplementsHolds == GraphsSpec => EachImplements
<1>1. GraphsInit => /\ graph = "chain" => GS!Init
                    /\ graph = "fork" => Fork!GS!Init
                    /\ graph = "join" => Join!GS!Init
  <2> SUFFICES ASSUME GraphsInit
               PROVE  /\ graph = "chain" => GS!Init
                      /\ graph = "fork" => Fork!GS!Init
                      /\ graph = "join" => Join!GS!Init
    OBVIOUS
  <2>1. \/ graph = "chain" /\ Init
        \/ graph = "fork" /\ Fork!Init
        \/ graph = "join" /\ Join!Init
    BY DEF GraphsInit
  <2>2. Init => GS!Init
    BY InitImplements, GraphsAssumption
  <2>3. Fork!Init => Fork!GS!Init
    BY ForkStarts
  <2>4. Join!Init => Join!GS!Init
    BY JoinStarts
  <2> QED
    BY <2>1, <2>2, <2>3, <2>4
<1>2. EachInv /\ [GraphsNext]_graphVars =>
        /\ graph = "chain" => UNCHANGED GS!vars \/ GS!Next
        /\ graph = "fork" => UNCHANGED Fork!GS!vars \/ Fork!GS!Next
        /\ graph = "join" => UNCHANGED Join!GS!vars \/ Join!GS!Next
  <2> SUFFICES ASSUME EachInv, [GraphsNext]_graphVars
               PROVE  /\ graph = "chain" => UNCHANGED GS!vars \/ GS!Next
                      /\ graph = "fork" => UNCHANGED Fork!GS!vars \/ Fork!GS!Next
                      /\ graph = "join" => UNCHANGED Join!GS!vars \/ Join!GS!Next
    OBVIOUS
  <2>1. /\ graph = "chain" => [Next]_vars
        /\ graph = "fork" => Fork!Next \/ UNCHANGED vars
        /\ graph = "join" => Join!Next \/ UNCHANGED vars
    BY ChosenSteps
  <2>2. graph = "chain" => UNCHANGED GS!vars \/ GS!Next
    BY <2>1, StepImplements, GraphsAssumption DEF EachInv
  <2>3. graph = "fork" => UNCHANGED Fork!GS!vars \/ Fork!GS!Next
    BY <2>1, ForkSteps DEF EachInv
  <2>4. graph = "join" => UNCHANGED Join!GS!vars \/ Join!GS!Next
    BY <2>1, JoinSteps DEF EachInv
  <2> QED
    BY <2>2, <2>3, <2>4
<1> QED
  BY <1>1, <1>2, GraphsInvariance, PTL DEF GraphsSpec, EachImplements
=============================================================================
