------------------------ MODULE MCGraphSchedule_proofs ------------------------
(* What the run of the queueing modes checks on a small instance, for any      *)
(* number of threads, leaf nodes, pipeline instances and requests.  The mode   *)
(* stays what the initial state chose; AUTO, and any other mode the constants  *)
(* give, is the graph of GraphSchedule_proofs, and an instance of that module  *)
(* speaks of MANUAL.                                                           *)
EXTENDS MCGraphSchedule, GraphSchedule_proofs

ManualP == INSTANCE GraphSchedule_proofs WITH
    Mode <- "MANUAL", MaxRequest <- 3, CallbackAtLeaf <- TRUE

\* The instance that MCGraphSchedule declares and the one the proofs are about have the
\* same steps ...
LEMMA ManualNext == Manual!Next => ManualP!Next
BY DEF Manual!AbandonControl, ManualP!AbandonControl, Manual!CallStep, ManualP!CallStep,
       Manual!Cardinality, ManualP!Cardinality,
       Manual!ClearEvent, ManualP!ClearEvent, Manual!CompleteControl,
       ManualP!CompleteControl, Manual!CompletedState, ManualP!CompletedState,
       Manual!EnqueueControl, ManualP!EnqueueControl, Manual!EnqueueEnd,
       ManualP!EnqueueEnd, Manual!EnqueueFail, ManualP!EnqueueFail,
       Manual!EnqueueFreeObjDesc, ManualP!EnqueueFreeObjDesc, Manual!EnqueueRef,
       ManualP!EnqueueRef, Manual!Host, ManualP!Host, Manual!HostAbandons,
       ManualP!HostAbandons, Manual!HostIdle, ManualP!HostIdle, Manual!HostStep,
       ManualP!HostStep, Manual!LeafCompletes, ManualP!LeafCompletes, Manual!LeafControl,
       ManualP!LeafControl, Manual!LeafDoneReset, ManualP!LeafDoneReset, Manual!Next,
       ManualP!Next, Manual!NodeAbandons, ManualP!NodeAbandons, Manual!Pipe, ManualP!Pipe,
       Manual!PostEvent, ManualP!PostEvent, Manual!PutAll, ManualP!PutAll, Manual!Queueing,
       ManualP!Queueing, Manual!RescheduleLock, ManualP!RescheduleLock,
       Manual!RunCompletes, ManualP!RunCompletes, Manual!RunStep, ManualP!RunStep,
       Manual!ScheduleCheck, ManualP!ScheduleCheck, Manual!ScheduleCount,
       ManualP!ScheduleCount, Manual!ScheduleLock, ManualP!ScheduleLock,
       Manual!ScheduleUnlock, ManualP!ScheduleUnlock, Manual!SubmitControl,
       ManualP!SubmitControl, Manual!SubmitRun, ManualP!SubmitRun, Manual!TakeRefs,
       ManualP!TakeRefs, Manual!TakenPending, ManualP!TakenPending,
       Manual!TotalNumSchedule, ManualP!TotalNumSchedule, Manual!VerifyControl,
       ManualP!VerifyControl, Manual!VerifyGraph, ManualP!VerifyGraph, Manual!WaitCheck,
       ManualP!WaitCheck, Manual!WaitReturn, ManualP!WaitReturn, Manual!abandonVars,
       ManualP!abandonVars, Manual!callVars, ManualP!callVars, Manual!controlVars,
       ManualP!controlVars, Manual!countVars, ManualP!countVars, Manual!descVars,
       ManualP!descVars, Manual!hostVars, ManualP!hostVars, Manual!runVars,
       ManualP!runVars, Manual!vars, ManualP!vars, Manual!waitVars, ManualP!waitVars

\* (or none) ...
LEMMA ManualStep == [Manual!Next]_vars => [ManualP!Next]_ManualP!vars
<1>1. UNCHANGED vars => UNCHANGED ManualP!vars
  BY DEF vars, controlVars, descVars, hostVars, callVars, countVars, abandonVars, waitVars,
         runVars, ManualP!vars, ManualP!controlVars, ManualP!descVars,
         ManualP!hostVars, ManualP!callVars, ManualP!countVars, ManualP!abandonVars,
         ManualP!waitVars, ManualP!runVars
<1> QED
  BY <1>1, ManualNext

\* ... the same initial states, which are those of any mode, ...
LEMMA ManualInit == Init => ManualP!Init
BY DEF Init, InitControl, Pipe, ManualP!Init, ManualP!InitControl, ManualP!Pipe

\* ... and the same invariant.
LEMMA ManualIInv == Manual!IInv <=> ManualP!IInv
BY DEF Manual!Actor, ManualP!Actor, Manual!CallInv, ManualP!CallInv, Manual!Cardinality,
       ManualP!Cardinality, Manual!DescriptorsConserved, ManualP!DescriptorsConserved,
       Manual!EventMeansIdle, ManualP!EventMeansIdle, Manual!FlightInv, ManualP!FlightInv,
       Manual!FreshInv, ManualP!FreshInv, Manual!Host, ManualP!Host, Manual!IInv,
       ManualP!IInv, Manual!InFlight, ManualP!InFlight, Manual!LeavesCounted,
       ManualP!LeavesCounted, Manual!LockInv, ManualP!LockInv, Manual!Owed, ManualP!Owed,
       Manual!PendingOnlyWhenFull, ManualP!PendingOnlyWhenFull, Manual!Pipe, ManualP!Pipe,
       Manual!RunState, ManualP!RunState, Manual!RunsConserved, ManualP!RunsConserved,
       Manual!RunsMatchReferences, ManualP!RunsMatchReferences, Manual!TypeOK,
       ManualP!TypeOK

\* So it is after a step.
LEMMA ManualAfter == (Manual!IInv)' <=> (ManualP!IInv)'
BY ManualIInv, PTL

\* The constants of the instance are those of a graph, and its sets are ours.
LEMMA ManualAssumed ==
  /\ ManualP!DepthAssumption /\ ManualP!LeafAssumption /\ ManualP!ModeAssumption
  /\ ManualP!ActorAssumption /\ ManualP!BoundAssumption
BY DepthAssumption, LeafAssumption, ActorAssumption, BoundAssumption
   DEF ManualP!DepthAssumption, ManualP!LeafAssumption, ManualP!ModeAssumption,
       ManualP!ActorAssumption, ManualP!BoundAssumption, ManualP!IsFiniteSet, IsFiniteSet,
       ManualP!Actor, Actor, ManualP!Host, Host, ManualP!Pipe, Pipe

\* In either mode a step keeps the invariant.
LEMMA ModesInductive ==
  ASSUME MaxVerify = 1, InductiveInEachMode, [ModesNext]_modesVars
  PROVE  InductiveInEachMode'
<1>1. mode' = mode
  BY DEF ModesNext, modesVars
<1>2. CASE mode = "AUTO"
  <2>1. [Next]_vars
    BY <1>2 DEF ModesNext, modesVars
  <2>2. IInv
    BY <1>2 DEF InductiveInEachMode
  <2>3. IInv'
    BY ONLY <2>1, <2>2, MaxVerify = 1, NextIInv
  <2> QED
    BY <1>1, <1>2, <2>3 DEF InductiveInEachMode
<1>3. CASE mode # "AUTO"
  <2>1. [Manual!Next]_vars
    BY <1>3 DEF ModesNext, modesVars
  <2>2. ManualP!IInv
    BY <1>3, ManualIInv DEF InductiveInEachMode
  <2>3. [ManualP!Next]_ManualP!vars
    BY ONLY <2>1, ManualStep
  <2>4. ManualP!IInv'
    BY ONLY <2>2, <2>3, MaxVerify = 1, ManualAssumed, ManualP!NextIInv
  <2>5. Manual!IInv'
    BY ONLY <2>4, ManualAfter
  <2> QED
    BY <1>1, <1>3, <2>5 DEF InductiveInEachMode
<1> QED
  BY <1>2, <1>3

-----------------------------------------------------------------------------
(* Theorems                                                                  *)

\* The functions that count requests, descriptors and runs keep the inductive invariant of
\* the mode the graph was given with vxSetGraphScheduleConfig: in AUTO mode one run for
\* each reference, in MANUAL mode as many as were scheduled, with or without references.
THEOREM InductiveAlways == MaxVerify = 1 => (ModesSpec => []InductiveInEachMode)
<1> SUFFICES ASSUME MaxVerify = 1 PROVE ModesSpec => []InductiveInEachMode
  OBVIOUS
<1>1. ModesInit => InductiveInEachMode
  BY InitIInv, ManualInit, ManualIInv, ManualAssumed, ManualP!InitIInv
     DEF ModesInit, InductiveInEachMode
<1>2. InductiveInEachMode /\ [ModesNext]_modesVars => InductiveInEachMode'
  BY ModesInductive
<1> QED
  BY <1>1, <1>2, PTL DEF ModesSpec

\* What the invariant says of the fields of vx_graph is the same in either mode.
LEMMA ModesSame ==
  ASSUME InductiveInEachMode
  PROVE  /\ TypeOK /\ RunsConserved /\ DescriptorsConserved
         /\ EventMeansIdle /\ PendingOnlyWhenFull
<1>1. CASE mode = "AUTO"
  BY <1>1 DEF InductiveInEachMode, IInv
<1>2. CASE mode # "AUTO"
  <2>1. ManualP!IInv
    BY <1>2, ManualIInv DEF InductiveInEachMode
  <2> QED
    BY <2>1 DEF ManualP!IInv, ManualP!TypeOK, TypeOK, ManualP!RunState, RunState,
       ManualP!Pipe, Pipe, ManualP!Actor, Actor, ManualP!Host, Host,
       ManualP!RunsConserved, RunsConserved, ManualP!Owed, Owed,
       ManualP!DescriptorsConserved, DescriptorsConserved,
       ManualP!EventMeansIdle, EventMeansIdle,
       ManualP!PendingOnlyWhenFull, PendingOnlyWhenFull
<1> QED
  BY <1>1, <1>2

\* In either mode no run is forgotten or invented, no descriptor is lost or has two runs,
\* the event means that nothing is owed, and a request is kept pending only while no
\* descriptor is free.
THEOREM ModesSafe ==
  MaxVerify = 1 =>
     (ModesSpec => [](/\ TypeOK /\ RunsConserved /\ DescriptorsConserved
                      /\ EventMeansIdle /\ PendingOnlyWhenFull))
BY InductiveAlways, ModesSame, PTL

\* In either mode vxWaitGraph returns only when the runs that had been scheduled are
\* complete.
THEOREM ModesWait == MaxVerify = 1 => (ModesSpec => WaitSound)
<1> SUFFICES ASSUME MaxVerify = 1 PROVE ModesSpec => WaitSound
  OBVIOUS
<1>1. InductiveInEachMode /\ [ModesNext]_modesVars
      => [\A a \in Waiter : pc[a] = "wait" /\ pc'[a] = "idle" => done >= waitFor[a]]_vars
  <2> SUFFICES ASSUME InductiveInEachMode, [ModesNext]_modesVars,
                      NEW a \in Waiter, pc[a] = "wait", pc'[a] = "idle"
               PROVE  done >= waitFor[a]
    OBVIOUS
  <2>1. CASE mode = "AUTO"
    <3>1. IInv /\ [Next]_vars
      BY <2>1 DEF ModesNext, modesVars, InductiveInEachMode
    <3> QED
      BY <3>1, WaitStep
  <2>2. CASE mode # "AUTO"
    <3>1. [Manual!Next]_vars
      BY <2>2 DEF ModesNext, modesVars
    <3>2. ManualP!IInv
      BY <2>2, ManualIInv DEF InductiveInEachMode
    <3>3. [ManualP!Next]_ManualP!vars
      BY ONLY <3>1, ManualStep
    <3>4. pc[a] = "wait" /\ pc'[a] = "idle"
      OBVIOUS
    <3> QED
      BY ONLY <3>2, <3>3, <3>4, a \in Waiter, ManualAssumed, ManualP!WaitStep
  <2> QED
    BY <2>1, <2>2
<1> QED
  BY <1>1, InductiveAlways, PTL DEF ModesSpec, WaitSound

\* In AUTO mode vxQueryGraph reports a graph as RUNNING exactly while runs are submitted,
\* and as ABANDONED exactly if a callback of the run that completed last said so.
THEOREM StateInAuto ==
  MaxVerify = 1 /\ ~CallbackAtLeaf => (ModesSpec => []StateReportedInAuto)
<1> SUFFICES ASSUME MaxVerify = 1, ~CallbackAtLeaf PROVE ModesSpec => []StateReportedInAuto
  OBVIOUS
<1> DEFINE AutoInv == mode = "AUTO" => StateInv
<1>1. ModesInit => AutoInv
  BY DEF ModesInit, Init, InitControl, StateInv, StateReported, InFlight
<1>2. InductiveInEachMode /\ AutoInv /\ [ModesNext]_modesVars => AutoInv'
  <2> SUFFICES ASSUME InductiveInEachMode, AutoInv, [ModesNext]_modesVars, mode' = "AUTO"
               PROVE  StateInv'
    OBVIOUS
  <2>1. mode = "AUTO" /\ [Next]_vars
    BY DEF ModesNext, modesVars
  <2>2. IInv /\ StateInv
    BY <2>1 DEF InductiveInEachMode
  <2> QED
    BY ONLY <2>1, <2>2, MaxVerify = 1, ~CallbackAtLeaf, NextStateInv
<1>3. AutoInv => StateReportedInAuto
  BY DEF StateInv, StateReportedInAuto
<1> QED
  BY <1>1, <1>2, <1>3, InductiveAlways, PTL DEF ModesSpec
==============================================================================
