------------------------- MODULE GraphSchedule_proofs -------------------------
(* The invariants of GraphSchedule hold in every graph, for any number of    *)
(* threads, leaf nodes and pipeline instances and any number of requests.    *)
(* The graph is verified once: GraphScheduleReverify shows what a second     *)
(* vxVerifyGraph does.                                                       *)
EXTENDS GraphSchedule, FiniteSetTheorems, TLAPS

USE DEF descVars, hostVars, callVars, countVars, abandonVars, waitVars, runVars

\* The sets of instances that are counted are finite.
LEMMA PipeFinite ==
  /\ IsFiniteSet(Pipe) /\ Cardinality(Pipe) = Depth
  /\ \A S \in SUBSET Pipe : IsFiniteSet(S) /\ Cardinality(S) \in Nat
<1>1. IsFiniteSet(Pipe) /\ Cardinality(Pipe) = Depth
  BY FS_Interval, DepthAssumption DEF Pipe
<1>2. ASSUME NEW S \in SUBSET Pipe PROVE IsFiniteSet(S) /\ Cardinality(S) \in Nat
  BY <1>1, FS_Subset, FS_CardinalityType
<1> QED
  BY <1>1, <1>2

\* A step that leaves the descriptors alone leaves what is said of them alone.
LEMMA SameDescriptors ==
  ASSUME DescriptorsConserved, LeavesCounted, FlightInv,
         UNCHANGED <<freeQ, leafTodo, leafDone, submitted, verified, unfed>>
  PROVE  (DescriptorsConserved /\ LeavesCounted /\ FlightInv)'
BY DEF DescriptorsConserved, LeavesCounted, FlightInv, InFlight

\* At the start nothing was asked for.
LEMMA InitIInv == Init => IInv
<1> SUFFICES ASSUME Init PROVE IInv
  OBVIOUS
<1> USE DEF Init, InitControl
<1>0. freeQ \in Seq(Pipe)
  OBVIOUS
<1>1. TypeOK
  <2>1. graphState \in RunState \cup {"UNVERIFIED"} /\ descState \in [Pipe -> RunState]
    BY DEF RunState
  <2>2. leafDone \in [Pipe -> Nat] /\ leafTodo \in [Pipe -> SUBSET Leaf]
        /\ abandonReq \in [Pipe -> BOOLEAN]
    OBVIOUS
  <2>3. /\ pc \in [App -> {"idle", "enqueue", "checked", "schedule", "wait"}]
        /\ num \in [App -> Nat] /\ waitFor \in [Waiter -> Nat]
        /\ mayWait \in [Waiter -> BOOLEAN]
    OBVIOUS
  <2>4. /\ lock \in Actor \cup {NoActor} /\ hostAbandon \in Pipe \cup {NoActor}
        /\ unfed \in SUBSET Pipe /\ allDone \in BOOLEAN /\ lastAbandon \in BOOLEAN
    OBVIOUS
  <2>5. /\ submitted \in Nat /\ pending \in Nat /\ remaining \in Nat /\ hostSched \in Nat
        /\ ready \in Nat /\ verified \in Nat /\ accepted \in Nat /\ returned \in Nat
        /\ done \in Nat /\ inCall \in Int /\ stranded \in Nat /\ enqueued \in Nat
    OBVIOUS
  <2> HIDE DEF Init, InitControl
  <2> QED
    BY <1>0, <2>1, <2>2, <2>3, <2>4, <2>5 DEF TypeOK
<1>2. DescriptorsConserved /\ LeavesCounted
  BY DEF DescriptorsConserved, LeavesCounted
<1>3. FreshInv /\ LockInv /\ CallInv /\ EventMeansIdle /\ PendingOnlyWhenFull
  BY ActorAssumption DEF Actor, FreshInv, LockInv, CallInv, EventMeansIdle, PendingOnlyWhenFull
<1>4. InFlight = {} /\ unfed = {}
  BY DEF InFlight
<1>5. FlightInv /\ RunsMatchReferences /\ RunsConserved
  BY <1>4, FS_EmptySet DEF FlightInv, RunsMatchReferences, RunsConserved, Owed
<1> QED
  BY <1>1, <1>2, <1>3, <1>5 DEF IInv

\* A reference is enqueued.
LEMMA EnqueueRefStep == ASSUME IInv, NEW a \in App, EnqueueRef(a) PROVE IInv'
<1> USE DEF EnqueueRef, EnqueueControl
<1>1. TypeOK'
  BY DEF IInv, TypeOK, Actor, RunState
<1>2. (DescriptorsConserved /\ LeavesCounted /\ FlightInv)'
  BY SameDescriptors DEF IInv
<1>3. (FreshInv /\ LockInv /\ CallInv)'
  BY DEF IInv, TypeOK, FreshInv, LockInv, CallInv, Actor
<1>4. Cardinality(unfed) \in Nat /\ Owed \in Nat
  BY PipeFinite DEF IInv, TypeOK, Owed
<1>5. Owed' = Owed
  BY DEF IInv, TypeOK, LockInv, Owed, Actor
<1>7. RunsConserved'
  BY <1>4, <1>5 DEF IInv, TypeOK, RunsConserved
<1>8. RunsMatchReferences'
  BY <1>4, <1>5 DEF IInv, TypeOK, RunsMatchReferences
<1>6. (EventMeansIdle /\ PendingOnlyWhenFull)'
  BY DEF IInv, TypeOK, FreshInv, LockInv, EventMeansIdle, PendingOnlyWhenFull, Actor
<1> QED
  BY <1>1, <1>2, <1>3, <1>7, <1>8, <1>6 DEF IInv

\* An enqueue call goes on to schedule, or returns.
LEMMA EnqueueEndStep ==
  ASSUME IInv, NEW a \in App, EnqueueEnd(a), UNCHANGED runVars
  PROVE  IInv'
<1> USE DEF EnqueueEnd
<1>1. TypeOK'
  <2>1. CASE Mode = "AUTO"
    BY <2>1 DEF IInv, TypeOK
  <2>2. CASE Mode # "AUTO"
    <3>1. num[a] \in Nat /\ inCall \in Int
      BY DEF IInv, TypeOK
    <3>2. num' \in [App -> Nat]
      <4>1. num' = [num EXCEPT ![a] = 0] /\ num \in [App -> Nat]
        BY <2>2 DEF IInv, TypeOK
      <4> QED
        BY <4>1
    <3>3. inCall' \in Int
      BY <2>2, <3>1
    <3> QED
      BY <2>2, <3>2, <3>3 DEF IInv, TypeOK
  <2> QED
    BY <2>1, <2>2
<1>2. (DescriptorsConserved /\ LeavesCounted /\ FlightInv)'
  BY SameDescriptors DEF IInv
<1>3. (FreshInv /\ LockInv /\ CallInv)'
  BY DEF IInv, TypeOK, FreshInv, LockInv, CallInv, Actor
<1>4. Cardinality(unfed) \in Nat /\ Owed \in Nat
  BY PipeFinite DEF IInv, TypeOK, Owed
<1>5. Owed' = Owed
  BY DEF IInv, TypeOK, LockInv, Owed, Actor
<1>7. RunsConserved'
  BY <1>4, <1>5 DEF IInv, TypeOK, RunsConserved
<1>8. RunsMatchReferences'
  BY <1>4, <1>5 DEF IInv, TypeOK, RunsMatchReferences
<1>6. (EventMeansIdle /\ PendingOnlyWhenFull)'
  BY DEF IInv, TypeOK, FreshInv, LockInv, EventMeansIdle, PendingOnlyWhenFull, Actor
<1> QED
  BY <1>1, <1>2, <1>3, <1>7, <1>8, <1>6 DEF IInv

\* An enqueue call gives up.
LEMMA EnqueueFailStep ==
  ASSUME IInv, NEW a \in App, EnqueueFail(a), UNCHANGED runVars
  PROVE  IInv'
<1> USE DEF EnqueueFail
<1>1. TypeOK'
  BY DEF IInv, TypeOK, Actor, RunState
<1>2. (DescriptorsConserved /\ LeavesCounted /\ FlightInv)'
  BY SameDescriptors DEF IInv
<1>3. (FreshInv /\ LockInv /\ CallInv)'
  BY DEF IInv, TypeOK, FreshInv, LockInv, CallInv, Actor
<1>4. Cardinality(unfed) \in Nat /\ Owed \in Nat
  BY PipeFinite DEF IInv, TypeOK, Owed
<1>5. Owed' = Owed
  BY DEF IInv, TypeOK, LockInv, Owed, Actor
<1>7. RunsConserved'
  BY <1>4, <1>5 DEF IInv, TypeOK, RunsConserved
<1>8. RunsMatchReferences'
  BY <1>4, <1>5 DEF IInv, TypeOK, RunsMatchReferences
<1>6. (EventMeansIdle /\ PendingOnlyWhenFull)'
  BY DEF IInv, TypeOK, FreshInv, LockInv, EventMeansIdle, PendingOnlyWhenFull, Actor
<1> QED
  BY <1>1, <1>2, <1>3, <1>7, <1>8, <1>6 DEF IInv

\* vxScheduleGraph reads the state.
LEMMA ScheduleCheckStep ==
  ASSUME IInv, NEW a \in App, ScheduleCheck(a), UNCHANGED runVars
  PROVE  IInv'
<1> USE DEF ScheduleCheck
<1>1. TypeOK'
  BY DEF IInv, TypeOK, Actor, RunState
<1>2. (DescriptorsConserved /\ LeavesCounted /\ FlightInv)'
  BY SameDescriptors DEF IInv
<1>3. (FreshInv /\ LockInv /\ CallInv)'
  BY DEF IInv, TypeOK, FreshInv, LockInv, CallInv, Actor
<1>4. Cardinality(unfed) \in Nat /\ Owed \in Nat
  BY PipeFinite DEF IInv, TypeOK, Owed
<1>5. Owed' = Owed
  BY DEF IInv, TypeOK, LockInv, Owed, Actor
<1>7. RunsConserved'
  BY <1>4, <1>5 DEF IInv, TypeOK, RunsConserved
<1>8. RunsMatchReferences'
  BY <1>4, <1>5 DEF IInv, TypeOK, RunsMatchReferences
<1>6. (EventMeansIdle /\ PendingOnlyWhenFull)'
  BY DEF IInv, TypeOK, FreshInv, LockInv, EventMeansIdle, PendingOnlyWhenFull, Actor
<1> QED
  BY <1>1, <1>2, <1>3, <1>7, <1>8, <1>6 DEF IInv

\* vxScheduleGraph counts the references.
LEMMA ScheduleCountStep ==
  ASSUME IInv, NEW a \in App, ScheduleCount(a, ready), UNCHANGED runVars
  PROVE  IInv'
<1> USE DEF ScheduleCount
<1>1. TypeOK'
  BY DEF IInv, TypeOK, Actor, RunState
<1>2. (DescriptorsConserved /\ LeavesCounted /\ FlightInv)'
  BY SameDescriptors DEF IInv
<1>3. (FreshInv /\ LockInv /\ CallInv)'
  BY DEF IInv, TypeOK, FreshInv, LockInv, CallInv, Actor
<1>4. Cardinality(unfed) \in Nat /\ Owed \in Nat
  BY PipeFinite DEF IInv, TypeOK, Owed
<1>5. Owed' = Owed
  BY DEF IInv, TypeOK, LockInv, Owed, Actor
<1>7. RunsConserved'
  BY <1>4, <1>5 DEF IInv, TypeOK, RunsConserved
<1>8. RunsMatchReferences'
  BY <1>4, <1>5 DEF IInv, TypeOK, CallInv, RunsMatchReferences
<1>6. (EventMeansIdle /\ PendingOnlyWhenFull)'
  BY DEF IInv, TypeOK, FreshInv, LockInv, EventMeansIdle, PendingOnlyWhenFull, Actor
<1> QED
  BY <1>1, <1>2, <1>3, <1>7, <1>8, <1>6 DEF IInv

\* vxWaitGraph begins to wait.
LEMMA WaitCheckStep ==
  ASSUME IInv, NEW a \in App, WaitCheck(a), UNCHANGED runVars
  PROVE  IInv'
<1> USE DEF WaitCheck
<1>1. TypeOK'
  BY DEF IInv, TypeOK, Actor, RunState
<1>2. (DescriptorsConserved /\ LeavesCounted /\ FlightInv)'
  BY SameDescriptors DEF IInv
<1>3. (FreshInv /\ LockInv)'
  BY DEF IInv, TypeOK, FreshInv, LockInv
<1>9. CallInv'
  BY DEF IInv, TypeOK, CallInv
<1>4. Cardinality(unfed) \in Nat /\ Owed \in Nat
  BY PipeFinite DEF IInv, TypeOK, Owed
<1>5. Owed' = Owed
  BY DEF IInv, TypeOK, LockInv, Owed, Actor
<1>7. RunsConserved'
  BY <1>4, <1>5 DEF IInv, TypeOK, RunsConserved
<1>8. RunsMatchReferences'
  BY <1>4, <1>5 DEF IInv, TypeOK, RunsMatchReferences
<1>6. (EventMeansIdle /\ PendingOnlyWhenFull)'
  BY DEF IInv, TypeOK, FreshInv, LockInv, EventMeansIdle, PendingOnlyWhenFull, Actor
<1> QED
  BY <1>1, <1>2, <1>3, <1>9, <1>7, <1>8, <1>6 DEF IInv

\* vxWaitGraph takes the event.
LEMMA WaitReturnStep ==
  ASSUME IInv, NEW a \in App, WaitReturn(a), UNCHANGED runVars
  PROVE  IInv'
<1> USE DEF WaitReturn
<1>1. TypeOK'
  BY DEF IInv, TypeOK, Actor, RunState
<1>2. (DescriptorsConserved /\ LeavesCounted /\ FlightInv)'
  BY SameDescriptors DEF IInv
<1>3. (FreshInv /\ LockInv /\ CallInv)'
  BY DEF IInv, TypeOK, FreshInv, LockInv, CallInv, Actor
<1>4. Cardinality(unfed) \in Nat /\ Owed \in Nat
  BY PipeFinite DEF IInv, TypeOK, Owed
<1>5. Owed' = Owed
  BY DEF IInv, TypeOK, LockInv, Owed, Actor
<1>7. RunsConserved'
  BY <1>4, <1>5 DEF IInv, TypeOK, RunsConserved
<1>8. RunsMatchReferences'
  BY <1>4, <1>5 DEF IInv, TypeOK, RunsMatchReferences
<1>6. (EventMeansIdle /\ PendingOnlyWhenFull)'
  BY DEF IInv, TypeOK, FreshInv, LockInv, EventMeansIdle, PendingOnlyWhenFull, Actor
<1> QED
  BY <1>1, <1>2, <1>3, <1>7, <1>8, <1>6 DEF IInv

\* A thread takes the lock: what it asked for is accepted.
LEMMA ScheduleLockStep ==
  ASSUME IInv, NEW a \in App, ScheduleLock(a), UNCHANGED runVars
  PROVE  IInv'
<1> USE DEF ScheduleLock, TotalNumSchedule
<1>0. num[a] \in Nat /\ lock' \in Actor
  BY DEF IInv, TypeOK, Actor
<1>1. TypeOK'
  <2>1. remaining' \in Nat /\ accepted' \in Nat /\ inCall' \in Int
    BY <1>0 DEF IInv, TypeOK
  <2> QED
    BY <1>0, <2>1 DEF IInv, TypeOK
<1>2. (DescriptorsConserved /\ LeavesCounted /\ FlightInv)'
  BY SameDescriptors DEF IInv
<1>3. (FreshInv /\ LockInv /\ CallInv)'
  BY ActorAssumption DEF IInv, TypeOK, FreshInv, LockInv, CallInv, Actor
<1>4. Cardinality(unfed) \in Nat /\ Owed \in Nat
  BY PipeFinite DEF IInv, TypeOK, Owed
<1>5. Owed' = Owed + num[a]
  BY ActorAssumption DEF IInv, TypeOK, LockInv, Owed, Actor
<1>7. RunsConserved'
  BY <1>4, <1>5 DEF IInv, TypeOK, RunsConserved
<1>9. num[a] \in Nat /\ ready \in Nat /\ stranded \in Nat /\ inCall \in Int
  BY DEF IInv, TypeOK
<1>8. RunsMatchReferences'
  BY <1>4, <1>5, <1>9 DEF IInv, RunsMatchReferences
<1>6. (EventMeansIdle /\ PendingOnlyWhenFull)'
  BY ActorAssumption DEF IInv, TypeOK, FreshInv, LockInv, EventMeansIdle, PendingOnlyWhenFull, Actor
<1> QED
  BY <1>1, <1>2, <1>3, <1>7, <1>8, <1>6 DEF IInv

\* The host target takes the lock.
LEMMA RescheduleLockStep == ASSUME IInv, RescheduleLock, UNCHANGED runVars PROVE IInv'
<1> USE DEF RescheduleLock, TotalNumSchedule
<1>1. TypeOK'
  BY ActorAssumption DEF IInv, TypeOK, Actor, RunState
<1>2. (DescriptorsConserved /\ LeavesCounted /\ FlightInv)'
  BY SameDescriptors DEF IInv
<1>3. (FreshInv /\ LockInv /\ CallInv)'
  BY ActorAssumption DEF IInv, TypeOK, FreshInv, LockInv, CallInv, Actor
<1>4. Cardinality(unfed) \in Nat /\ Owed \in Nat
  BY PipeFinite DEF IInv, TypeOK, Owed
<1>5. Owed' = Owed
  BY ActorAssumption DEF IInv, TypeOK, LockInv, Owed, Actor
<1>7. RunsConserved'
  BY <1>4, <1>5 DEF IInv, TypeOK, RunsConserved
<1>8. RunsMatchReferences'
  BY <1>4, <1>5 DEF IInv, TypeOK, RunsMatchReferences
<1>6. (EventMeansIdle /\ PendingOnlyWhenFull)'
  BY ActorAssumption DEF IInv, TypeOK, FreshInv, LockInv, EventMeansIdle, PendingOnlyWhenFull, Actor
<1> QED
  BY <1>1, <1>2, <1>3, <1>7, <1>8, <1>6 DEF IInv

\* A callback's result is recorded late.
LEMMA HostAbandonsStep == ASSUME IInv, HostAbandons, UNCHANGED runVars PROVE IInv'
<1> USE DEF HostAbandons
<1>1. TypeOK'
  BY DEF IInv, TypeOK, Actor, RunState
<1>2. (DescriptorsConserved /\ LeavesCounted /\ FlightInv)'
  BY SameDescriptors DEF IInv
<1>3. (FreshInv /\ LockInv /\ CallInv)'
  BY DEF IInv, TypeOK, FreshInv, LockInv, CallInv, Actor
<1>4. Cardinality(unfed) \in Nat /\ Owed \in Nat
  BY PipeFinite DEF IInv, TypeOK, Owed
<1>5. Owed' = Owed
  BY DEF IInv, TypeOK, LockInv, Owed, Actor
<1>7. RunsConserved'
  BY <1>4, <1>5 DEF IInv, TypeOK, RunsConserved
<1>8. RunsMatchReferences'
  BY <1>4, <1>5 DEF IInv, TypeOK, RunsMatchReferences
<1>6. (EventMeansIdle /\ PendingOnlyWhenFull)'
  BY DEF IInv, TypeOK, FreshInv, LockInv, EventMeansIdle, PendingOnlyWhenFull, Actor
<1> QED
  BY <1>1, <1>2, <1>3, <1>7, <1>8, <1>6 DEF IInv

\* A callback's result is recorded.
LEMMA NodeAbandonsStep == ASSUME IInv, NEW p \in Pipe, NodeAbandons(p) PROVE IInv'
<1> USE DEF NodeAbandons, AbandonControl
<1>1. TypeOK'
  BY DEF IInv, TypeOK, Actor, RunState
<1>2. (DescriptorsConserved /\ LeavesCounted /\ FlightInv)'
  BY SameDescriptors DEF IInv
<1>3. (FreshInv /\ LockInv /\ CallInv)'
  BY DEF IInv, TypeOK, FreshInv, LockInv, CallInv, Actor
<1>4. Cardinality(unfed) \in Nat /\ Owed \in Nat
  BY PipeFinite DEF IInv, TypeOK, Owed
<1>5. Owed' = Owed
  BY DEF IInv, TypeOK, LockInv, Owed, Actor
<1>7. RunsConserved'
  BY <1>4, <1>5 DEF IInv, TypeOK, RunsConserved
<1>8. RunsMatchReferences'
  BY <1>4, <1>5 DEF IInv, TypeOK, RunsMatchReferences
<1>6. (EventMeansIdle /\ PendingOnlyWhenFull)'
  BY DEF IInv, TypeOK, FreshInv, LockInv, EventMeansIdle, PendingOnlyWhenFull, Actor
<1> QED
  BY <1>1, <1>2, <1>3, <1>7, <1>8, <1>6 DEF IInv

\* vxVerifyGraph makes every instance free, once.
LEMMA VerifyGraphStep == ASSUME IInv, MaxVerify = 1, VerifyGraph PROVE IInv'
<1> USE DEF VerifyGraph, VerifyControl
<1>1. /\ verified = 0 /\ verified' = 1 /\ freeQ = <<>> /\ submitted = 0 /\ pending = 0
      /\ hostSched = 0 /\ lock = NoActor
  BY DEF IInv, TypeOK, FreshInv
<1>2. freeQ' = [i \in 1 .. Depth |-> i - 1]
  <2> DEFINE ids == [i \in 1 .. Depth |-> i - 1]
  <2>1. ids \in Seq(Pipe) /\ Len(ids) = Depth /\ <<>> \o ids = ids
    BY DepthAssumption DEF Pipe
  <2>2. SubSeq(ids, 1, Depth) = ids
    BY <2>1, DepthAssumption
  <2> QED
    BY <1>1, <2>1, <2>2, DepthAssumption DEF PutAll
<1>3. freeQ' \in Seq(Pipe) /\ Len(freeQ') = Depth /\ DOMAIN freeQ' = 1 .. Depth
  BY <1>2, DepthAssumption DEF Pipe
<1>4. InFlight = {}
  BY <1>1, PipeFinite, FS_EmptySet DEF IInv, FlightInv, InFlight
<1>5. TypeOK'
  BY <1>1, <1>3 DEF IInv, TypeOK, RunState
<1>6. FlightInv'
  BY DEF IInv, FlightInv, InFlight
<1>7. DescriptorsConserved'
  <2>1. \A p \in Pipe : \E i \in 1 .. Depth : i - 1 = p
    BY DepthAssumption DEF Pipe
  <2>2. \A p \in Pipe : leafTodo'[p] = {}
    BY <1>4 DEF InFlight
  <2>3. \A i \in 1 .. Depth : freeQ'[i] = i - 1
    BY <1>2
  <2>4. submitted' = 0
    BY <1>1
  <2>5. \A i, j \in DOMAIN freeQ' : freeQ'[i] = freeQ'[j] => i = j
    BY <1>3, <2>3, DepthAssumption
  <2>6. \A p \in Pipe : \E i \in DOMAIN freeQ' : freeQ'[i] = p
    BY <1>3, <2>1, <2>3
  <2>7. Len(freeQ') + submitted' = Depth
    BY <1>3, <2>4, DepthAssumption
  <2> HIDE DEF VerifyGraph, VerifyControl
  <2> QED
    BY <2>2, <2>5, <2>6, <2>7 DEF DescriptorsConserved
<1>8. LeavesCounted'
  BY <1>4 DEF LeavesCounted, InFlight
<1>9. (FreshInv /\ LockInv /\ CallInv /\ EventMeansIdle /\ PendingOnlyWhenFull)'
  BY <1>1 DEF IInv, FreshInv, LockInv, CallInv, EventMeansIdle, PendingOnlyWhenFull
<1>10. (RunsConserved /\ RunsMatchReferences)'
  BY DEF IInv, RunsConserved, RunsMatchReferences, Owed
<1> QED
  BY <1>5, <1>6, <1>7, <1>8, <1>9, <1>10 DEF IInv

\* A free instance becomes a run.
LEMMA SubmitRunStep == ASSUME IInv, NEW p \in Pipe, SubmitRun(p) PROVE IInv'
<1> USE DEF SubmitRun, SubmitControl, ClearEvent
<1>1. /\ freeQ \in Seq(Pipe) /\ freeQ # <<>> /\ p \in Pipe /\ Len(freeQ) \in Nat \ {0}
      /\ Tail(freeQ) \in Seq(Pipe) /\ Len(Tail(freeQ)) = Len(freeQ) - 1
      /\ DOMAIN freeQ = 1 .. Len(freeQ) /\ DOMAIN Tail(freeQ) = 1 .. Len(freeQ) - 1
      /\ \A i \in 1 .. Len(freeQ) - 1 : Tail(freeQ)[i] = freeQ[i + 1]
      /\ p = freeQ[1]
  BY DEF IInv, TypeOK
<1>2. verified > 0 /\ lock # NoActor
  BY DEF IInv, FreshInv, TypeOK
<1>3. leafTodo[p] = {} /\ p \notin InFlight /\ p \notin unfed
  BY <1>1, <1>2 DEF IInv, DescriptorsConserved, FlightInv, InFlight
<1>4. leafTodo' \in [Pipe -> SUBSET Leaf] /\ InFlight' = InFlight \cup {p}
  BY <1>1, LeafAssumption DEF IInv, TypeOK, InFlight
<1>5. TypeOK'
  <2>1. descState' \in [Pipe -> RunState] /\ abandonReq' \in [Pipe -> BOOLEAN]
    BY <1>1 DEF IInv, TypeOK, RunState
  <2>2. graphState' \in RunState /\ submitted' \in Nat /\ remaining' \in Nat
    BY DEF IInv, TypeOK, RunState
  <2>3. unfed' \in SUBSET Pipe /\ freeQ' \in Seq(Pipe)
    BY <1>1 DEF IInv, TypeOK
  <2> QED
    BY <1>4, <2>1, <2>2, <2>3 DEF IInv, TypeOK
<1>6. FlightInv'
  <2>1. Cardinality(InFlight') = Cardinality(InFlight) + 1
    BY <1>3, <1>4, PipeFinite, FS_AddElement DEF InFlight
  <2> QED
    BY <1>4, <2>1 DEF IInv, FlightInv
<1>7. DescriptorsConserved'
  <2>1. \A i, j \in DOMAIN freeQ' : freeQ'[i] = freeQ'[j] => i = j
    BY <1>1 DEF IInv, DescriptorsConserved
  <2>2. ASSUME NEW q \in Pipe
        PROVE  (leafTodo'[q] = {}) <=> (\E i \in DOMAIN freeQ' : freeQ'[i] = q)
    <3>1. CASE q = p
      <4>1. leafTodo'[q] # {}
        BY <1>1, <3>1, LeafAssumption DEF IInv, TypeOK
      <4>2. ~ \E i \in DOMAIN freeQ' : freeQ'[i] = q
        BY <1>1, <3>1 DEF IInv, DescriptorsConserved
      <4> QED
        BY <4>1, <4>2
    <3>2. CASE q # p
      <4>1. leafTodo'[q] = leafTodo[q]
        BY <3>2 DEF IInv, TypeOK
      <4>2. (\E i \in DOMAIN freeQ' : freeQ'[i] = q) <=> (\E i \in DOMAIN freeQ : freeQ[i] = q)
        <5>1. ASSUME NEW i \in DOMAIN freeQ, freeQ[i] = q
              PROVE  i - 1 \in DOMAIN freeQ' /\ freeQ'[i - 1] = q
          BY <1>1, <3>2, <5>1
        <5>2. ASSUME NEW i \in DOMAIN freeQ', freeQ'[i] = q
              PROVE  i + 1 \in DOMAIN freeQ /\ freeQ[i + 1] = q
          BY <1>1, <5>2
        <5> QED
          BY <5>1, <5>2
      <4> QED
        BY <1>2, <4>1, <4>2 DEF IInv, DescriptorsConserved
    <3> QED
      BY <3>1, <3>2
  <2>3. Len(freeQ') + submitted' = Depth
    <3>1. Len(freeQ) + submitted = Depth /\ submitted \in Nat
      BY <1>2 DEF IInv, TypeOK, DescriptorsConserved
    <3> QED
      BY <1>1, <3>1
  <2> QED
    BY <2>1, <2>2, <2>3 DEF DescriptorsConserved
<1>8. LeavesCounted'
  <2>1. Cardinality(Leaf \ Leaf) = 0
    BY FS_EmptySet
  <2> QED
    BY <1>1, <1>3, <2>1, LeafAssumption DEF IInv, TypeOK, LeavesCounted
<1>9. (FreshInv /\ LockInv /\ CallInv /\ EventMeansIdle /\ PendingOnlyWhenFull)'
  BY <1>2 DEF IInv, TypeOK, FreshInv, LockInv, CallInv, EventMeansIdle, PendingOnlyWhenFull
<1>10. Owed' = Owed - 1 /\ Owed \in Nat
  BY <1>2 DEF IInv, TypeOK, Owed
<1>11. RunsConserved'
  BY <1>10 DEF IInv, TypeOK, RunsConserved
<1>12. RunsMatchReferences'
  <2>1. SUFFICES ASSUME Mode = "AUTO" PROVE RunsMatchReferences'
    BY DEF RunsMatchReferences
  <2>2. Cardinality(unfed') = Cardinality(unfed) + 1 /\ Cardinality(unfed) \in Nat
    BY <1>3, <2>1, PipeFinite, FS_AddElement DEF IInv, TypeOK, Queueing
  <2>3. ready \in Nat /\ inCall \in Int /\ stranded \in Nat
    BY DEF IInv, TypeOK
  <2> QED
    BY <1>10, <2>1, <2>2, <2>3 DEF IInv, RunsMatchReferences
<1> QED
  BY <1>5, <1>6, <1>7, <1>8, <1>9, <1>11, <1>12 DEF IInv

\* The lock is released: what found no instance stays pending.
LEMMA ScheduleUnlockStep == ASSUME IInv, ScheduleUnlock, UNCHANGED runVars PROVE IInv'
<1> USE DEF ScheduleUnlock
<1>1. verified > 0 /\ lock # NoActor /\ lock' = NoActor
  BY DEF IInv, FreshInv, TypeOK
<1>2. accepted' \in Nat /\ pending' \in Nat /\ returned' = accepted'
  <2>1. CASE Queueing
    BY <2>1 DEF IInv, TypeOK
  <2>2. CASE ~Queueing
    BY <1>1, <2>2, ModeAssumption DEF IInv, TypeOK, LockInv, Queueing
  <2> QED
    BY <2>1, <2>2
<1>3. TypeOK'
  <2>1. CASE lock = Host
    BY <1>2, <2>1 DEF IInv, TypeOK
  <2>2. CASE lock # Host
    <3>1. lock \in App
      BY <1>1, <2>2 DEF IInv, TypeOK, Actor
    <3>2. /\ pc' = [pc EXCEPT ![lock] = "idle"] /\ num' = [num EXCEPT ![lock] = 0]
      BY <2>2
    <3>3. /\ pc' \in [App -> {"idle", "enqueue", "checked", "schedule", "wait"}]
          /\ num' \in [App -> Nat] /\ mayWait' \in [Waiter -> BOOLEAN]
      BY <3>1, <3>2 DEF IInv, TypeOK
    <3> QED
      BY <1>2, <3>3 DEF IInv, TypeOK
  <2> QED
    BY <2>1, <2>2
<1>4. (DescriptorsConserved /\ LeavesCounted /\ FlightInv)'
  BY SameDescriptors DEF IInv
<1>5. returned <= returned'
  <2>1. CASE Queueing
    BY <2>1 DEF IInv, TypeOK, LockInv
  <2>2. CASE ~Queueing
    BY <1>1, <2>2, ModeAssumption DEF IInv, TypeOK, LockInv, Queueing
  <2> QED
    BY <2>1, <2>2
<1>6. (FreshInv /\ LockInv)'
  BY <1>1, <1>2 DEF IInv, TypeOK, FreshInv, LockInv, Queueing
<1>7. CallInv'
  <2>1. ASSUME NEW a \in Waiter PROVE waitFor'[a] <= returned'
    BY <1>2, <1>5 DEF IInv, TypeOK, CallInv
  <2>2. ASSUME NEW a \in App
        PROVE  /\ Mode = "AUTO" => pc'[a] # "checked"
               /\ lock' # a /\ (pc'[a] = "wait" => a \in Waiter)
    BY <1>1, ActorAssumption DEF IInv, TypeOK, CallInv, Actor
  <2> QED
    BY <2>1, <2>2 DEF CallInv
<1>8. (RunsConserved /\ EventMeansIdle)'
  <2>1. hostSched' = hostSched /\ done' = done /\ submitted' = submitted
    OBVIOUS
  <2>2. accepted' = done' + submitted' + Owed'
    <3>1. CASE Queueing
      BY <1>1, <3>1 DEF IInv, TypeOK, RunsConserved, Owed
    <3>2. CASE ~Queueing
      BY <1>1, <3>2, ModeAssumption DEF IInv, TypeOK, RunsConserved, Owed, LockInv, Queueing
    <3> QED
      BY <3>1, <3>2
  <2>3. ASSUME allDone' PROVE submitted' = 0 /\ hostSched' = 0 /\ returned' = done'
    <3>1. submitted = 0 /\ hostSched = 0 /\ remaining = 0
      BY <1>1, <2>3, DepthAssumption DEF IInv, TypeOK, EventMeansIdle, DescriptorsConserved
    <3>2. accepted = done
      BY <1>1, <3>1 DEF IInv, TypeOK, RunsConserved, Owed
    <3>3. accepted' = accepted
      BY <3>1 DEF IInv, TypeOK
    <3> QED
      BY <1>2, <3>1, <3>2, <3>3
  <2> QED
    BY <2>2, <2>3 DEF RunsConserved, EventMeansIdle
<1>9. PendingOnlyWhenFull'
  BY ModeAssumption DEF IInv, TypeOK, LockInv, PendingOnlyWhenFull, Queueing
<1>10. RunsMatchReferences'
  <2>1. ASSUME Mode = "AUTO" PROVE Owed' = Owed
    BY <1>1, <2>1 DEF IInv, TypeOK, Owed, Queueing
  <2> QED
    BY <2>1 DEF IInv, RunsMatchReferences
<1> QED
  BY <1>3, <1>4, <1>6, <1>7, <1>8, <1>9, <1>10 DEF IInv

\* A run takes its references.
LEMMA TakeRefsStep == ASSUME IInv, NEW p \in Pipe, TakeRefs(p) PROVE IInv'
<1> USE DEF TakeRefs, controlVars
<1>1. TypeOK'
  BY DEF IInv, TypeOK
<1>2. (DescriptorsConserved /\ LeavesCounted)'
  BY DEF IInv, DescriptorsConserved, LeavesCounted
<1>3. FlightInv'
  BY DEF IInv, FlightInv, InFlight
<1>4. (FreshInv /\ LockInv /\ CallInv /\ EventMeansIdle /\ PendingOnlyWhenFull)'
  BY DEF IInv, FreshInv, LockInv, CallInv, EventMeansIdle, PendingOnlyWhenFull
<1>5. RunsConserved'
  BY DEF IInv, RunsConserved, Owed
<1>6. RunsMatchReferences'
  <2>1. /\ Cardinality(unfed) \in Nat /\ Cardinality(unfed') = Cardinality(unfed) - 1
    BY PipeFinite, FS_RemoveElement DEF IInv, TypeOK
  <2>3. Owed' = Owed /\ Owed \in Nat
    BY DEF IInv, TypeOK, Owed
  <2>2. ready \in Nat /\ inCall \in Int /\ stranded \in Nat
    BY DEF IInv, TypeOK
  <2> QED
    BY <2>1, <2>2, <2>3 DEF IInv, RunsMatchReferences
<1> QED
  BY <1>1, <1>2, <1>3, <1>4, <1>5, <1>6 DEF IInv

\* Instance p runs and its leaf node l is not complete: what the counters say.
LEMMA InFlightFacts ==
  ASSUME IInv, NEW p \in Pipe, NEW l \in leafTodo[p]
  PROVE  /\ l \in Leaf /\ p \in InFlight /\ verified > 0 /\ submitted \in Nat \ {0}
         /\ leafDone[p] = Cardinality(Leaf) - Cardinality(leafTodo[p])
         /\ IsFiniteSet(leafTodo[p]) /\ Cardinality(leafTodo[p]) \in Nat \ {0}
         /\ Cardinality(leafTodo[p] \ {l}) = Cardinality(leafTodo[p]) - 1
         /\ Cardinality(Leaf) \in Nat
<1>1. l \in Leaf /\ p \in InFlight
  BY DEF IInv, TypeOK, InFlight
<1>2. submitted \in Nat \ {0}
  BY <1>1, PipeFinite, FS_EmptySet DEF IInv, TypeOK, FlightInv, InFlight
<1>3. verified > 0
  BY <1>2 DEF IInv, TypeOK, FreshInv
<1>4. leafTodo[p] \subseteq Leaf /\ IsFiniteSet(leafTodo[p]) /\ IsFiniteSet(Leaf)
  BY LeafAssumption, FS_Subset DEF IInv, TypeOK
<1>5. Cardinality(leafTodo[p]) \in Nat /\ Cardinality(Leaf) \in Nat
  BY <1>4, FS_CardinalityType
<1>6. Cardinality(leafTodo[p] \ {l}) = Cardinality(leafTodo[p]) - 1
  BY <1>4, FS_RemoveElement
<1>7. Cardinality(leafTodo[p]) # 0
  BY <1>4, FS_EmptySet
<1>8. Cardinality(Leaf \ leafTodo[p]) = Cardinality(Leaf) - Cardinality(leafTodo[p])
  <2>1. Leaf \cap leafTodo[p] = leafTodo[p]
    BY <1>4
  <2> QED
    BY <1>4, <2>1, FS_Difference
<1>9. leafDone[p] = Cardinality(Leaf \ leafTodo[p])
  BY DEF IInv, LeavesCounted
<1> QED
  BY <1>1, <1>2, <1>3, <1>4, <1>5, <1>6, <1>7, <1>8, <1>9

\* A leaf node completes and others remain.
LEMMA LeafCompletesStep ==
  ASSUME IInv, NEW p \in Pipe, NEW l \in Leaf, LeafCompletes(l, p) PROVE IInv'
<1> USE DEF LeafCompletes, LeafControl
<1> DEFINE rest == leafTodo[p] \ {l}
<1>1. /\ l \in leafTodo[p] /\ p \in InFlight /\ IsFiniteSet(leafTodo[p])
      /\ leafDone[p] = Cardinality(Leaf) - Cardinality(leafTodo[p])
      /\ Cardinality(leafTodo[p]) \in Nat \ {0} /\ Cardinality(Leaf) \in Nat
      /\ Cardinality(rest) = Cardinality(leafTodo[p]) - 1
  BY InFlightFacts
<1>2. leafTodo' = [leafTodo EXCEPT ![p] = rest] /\ rest \in SUBSET Leaf
      /\ leafTodo' \in [Pipe -> SUBSET Leaf]
  BY DEF IInv, TypeOK
<1>3. rest # {}
  <2>1. Cardinality(rest) # 0
    BY <1>1
  <2> QED
    BY <2>1, FS_EmptySet
<1>4. InFlight' = InFlight
  <2>1. \A q \in Pipe : (leafTodo'[q] # {}) <=> (leafTodo[q] # {})
    BY <1>1, <1>2, <1>3 DEF IInv, TypeOK, InFlight
  <2> QED
    BY <2>1 DEF InFlight
<1>5. TypeOK'
  <2>1. leafDone' \in [Pipe -> Nat]
    BY <1>1 DEF IInv, TypeOK
  <2> QED
    BY <1>2, <2>1 DEF IInv, TypeOK
<1>6. FlightInv'
  BY <1>4 DEF IInv, FlightInv
<1>7. DescriptorsConserved'
  <2>1. \A q \in Pipe : (leafTodo'[q] = {}) <=> (leafTodo[q] = {})
    BY <1>4 DEF InFlight
  <2> QED
    BY <2>1 DEF IInv, DescriptorsConserved
<1>8. LeavesCounted'
  <2>1. Cardinality(Leaf \ rest) = Cardinality(Leaf) - Cardinality(rest)
    <3>1. Leaf \cap rest = rest
      BY <1>2
    <3> QED
      BY <3>1, LeafAssumption, FS_Difference
  <2>2. leafDone'[p] = Cardinality(Leaf \ leafTodo'[p]) /\ leafTodo'[p] # {}
    BY <1>1, <1>2, <1>3, <2>1 DEF IInv, TypeOK
  <2>3. ASSUME NEW q \in Pipe, q # p
        PROVE  leafDone'[q] = leafDone[q] /\ leafTodo'[q] = leafTodo[q]
    BY <1>2, <2>3 DEF IInv, TypeOK
  <2> QED
    BY <2>2, <2>3 DEF IInv, LeavesCounted
<1>9. (FreshInv /\ LockInv /\ CallInv /\ EventMeansIdle /\ PendingOnlyWhenFull)'
  BY DEF IInv, FreshInv, LockInv, CallInv, EventMeansIdle, PendingOnlyWhenFull
<1>10. (RunsConserved /\ RunsMatchReferences)'
  BY DEF IInv, RunsConserved, RunsMatchReferences, Owed
<1> QED
  BY <1>5, <1>6, <1>7, <1>8, <1>9, <1>10 DEF IInv

\* The leaf node that complete_leaf_nodes finds to be the last one is the last one.
LEMMA LastLeaf ==
  ASSUME IInv, NEW p \in Pipe, NEW l \in Leaf, NEW abandon \in BOOLEAN,
         RunCompletes(l, p, abandon)
  PROVE  leafTodo[p] \ {l} = {} /\ InFlight' = InFlight \ {p}
<1> USE DEF RunCompletes, CompleteControl
<1>1. /\ l \in leafTodo[p] /\ IsFiniteSet(leafTodo[p])
      /\ leafDone[p] = Cardinality(Leaf) - Cardinality(leafTodo[p])
      /\ Cardinality(leafTodo[p]) \in Nat \ {0} /\ Cardinality(Leaf) \in Nat
      /\ Cardinality(leafTodo[p] \ {l}) = Cardinality(leafTodo[p]) - 1
  BY InFlightFacts
<1>2. leafTodo[p] \ {l} = {}
  <2>1. Cardinality(leafTodo[p] \ {l}) = 0 /\ IsFiniteSet(leafTodo[p] \ {l})
    BY <1>1, FS_Subset
  <2> QED
    BY <2>1, FS_EmptySet
<1>3. leafTodo' = [leafTodo EXCEPT ![p] = {}]
  BY <1>2
<1>4. InFlight' = InFlight \ {p}
  BY <1>3 DEF IInv, TypeOK, InFlight
<1> QED
  BY <1>2, <1>4

\* The last leaf node completes: the instance is free again.
LEMMA RunCompletesStep ==
  ASSUME IInv, NEW p \in Pipe, NEW l \in Leaf, NEW abandon \in BOOLEAN,
         RunCompletes(l, p, abandon)
  PROVE  IInv'
<1> USE DEF RunCompletes, CompleteControl
<1>1. /\ l \in leafTodo[p] /\ p \in InFlight /\ IsFiniteSet(leafTodo[p]) /\ verified > 0
      /\ submitted \in Nat \ {0}
      /\ leafDone[p] = Cardinality(Leaf) - Cardinality(leafTodo[p])
      /\ Cardinality(leafTodo[p]) \in Nat \ {0} /\ Cardinality(Leaf) \in Nat
      /\ Cardinality(leafTodo[p] \ {l}) = Cardinality(leafTodo[p]) - 1
  BY InFlightFacts
<1>2. leafTodo[p] \ {l} = {} /\ InFlight' = InFlight \ {p}
  BY LastLeaf
<1>3. /\ leafTodo' = [leafTodo EXCEPT ![p] = {}] /\ leafTodo' \in [Pipe -> SUBSET Leaf]
      /\ leafDone' = [leafDone EXCEPT ![p] = 0] /\ leafDone' \in [Pipe -> Nat]
  BY <1>2 DEF IInv, TypeOK, LeafDoneReset
<1>4. InFlight' = InFlight \ {p}
  BY <1>2
<1>5. /\ freeQ \in Seq(Pipe) /\ Len(freeQ) + submitted = Depth /\ Len(freeQ) \in Nat
      /\ freeQ' = Append(freeQ, p)
  BY <1>1, DepthAssumption DEF IInv, TypeOK, DescriptorsConserved, EnqueueFreeObjDesc
<1>6. /\ freeQ' \in Seq(Pipe) /\ Len(freeQ') = Len(freeQ) + 1
      /\ DOMAIN freeQ = 1 .. Len(freeQ) /\ DOMAIN freeQ' = 1 .. Len(freeQ) + 1
      /\ \A i \in 1 .. Len(freeQ) : freeQ'[i] = freeQ[i]
      /\ freeQ'[Len(freeQ) + 1] = p
  BY <1>5
<1>7. /\ lock = NoActor /\ lock' = NoActor /\ hostSched = 0 /\ remaining = 0
      /\ hostSched' = pending /\ pending' = 0 /\ returned = accepted /\ pending \in Nat
  BY DEF IInv, TypeOK, LockInv, HostIdle, TakenPending
<1>8. ~allDone
  BY <1>1 DEF IInv, EventMeansIdle
<1>9. TypeOK'
  <2>1. descState' \in [Pipe -> RunState] /\ graphState' \in RunState \cup {"UNVERIFIED"}
    <3>1. CompletedState(descState[p]) \in RunState
      BY DEF IInv, TypeOK, CompletedState, RunState
    <3>2. descState' \in [Pipe -> RunState]
      BY <3>1 DEF IInv, TypeOK
    <3> QED
      BY <3>2 DEF IInv, TypeOK
  <2>2. submitted' \in Nat /\ done' \in Nat
    BY <1>1 DEF IInv, TypeOK
  <2>3. allDone' \in BOOLEAN /\ lastAbandon' \in BOOLEAN /\ hostAbandon' \in Pipe \cup {NoActor}
    BY DEF IInv, TypeOK, PostEvent
  <2> QED
    BY <1>3, <1>6, <1>7, <2>1, <2>2, <2>3 DEF IInv, TypeOK
<1>10. FlightInv'
  <2>1. Cardinality(InFlight') = Cardinality(InFlight) - 1
    BY <1>1, <1>4, PipeFinite, FS_RemoveElement DEF InFlight
  <2> QED
    BY <1>1, <1>4, <2>1 DEF IInv, FlightInv
<1>11. DescriptorsConserved'
  <2>1. \A i \in DOMAIN freeQ : freeQ[i] # p
    BY <1>1 DEF IInv, DescriptorsConserved, InFlight
  <2>2. \A i, j \in DOMAIN freeQ' : freeQ'[i] = freeQ'[j] => i = j
    BY <1>6, <2>1 DEF IInv, DescriptorsConserved
  <2>3. ASSUME NEW q \in Pipe
        PROVE  (leafTodo'[q] = {}) <=> (\E i \in DOMAIN freeQ' : freeQ'[i] = q)
    <3>1. CASE q = p
      BY <1>3, <1>5, <1>6, <3>1 DEF IInv, TypeOK
    <3>2. CASE q # p
      <4>1. leafTodo'[q] = leafTodo[q]
        BY <1>3, <3>2 DEF IInv, TypeOK
      <4>2. (\E i \in DOMAIN freeQ' : freeQ'[i] = q) <=> (\E i \in DOMAIN freeQ : freeQ[i] = q)
        BY <1>5, <1>6, <3>2
      <4> QED
        BY <1>1, <4>1, <4>2 DEF IInv, DescriptorsConserved
    <3> QED
      BY <3>1, <3>2
  <2>4. Len(freeQ') + submitted' = Depth
    <3>1. submitted' = submitted - 1
      OBVIOUS
    <3> HIDE DEF RunCompletes, CompleteControl
    <3> QED
      BY <1>1, <1>5, <1>6, <3>1, DepthAssumption
  <2> QED
    BY <2>2, <2>3, <2>4 DEF DescriptorsConserved
<1>12. LeavesCounted'
  BY <1>3 DEF IInv, TypeOK, LeavesCounted
<1>13. (FreshInv /\ LockInv /\ CallInv /\ PendingOnlyWhenFull)'
  BY <1>1, <1>7 DEF IInv, FreshInv, LockInv, CallInv, PendingOnlyWhenFull
<1>14. Owed' = Owed /\ Owed = pending
  BY <1>7 DEF Owed
<1>15. RunsConserved'
  BY <1>1, <1>14 DEF IInv, TypeOK, RunsConserved
<1>16. EventMeansIdle'
  BY <1>1, <1>7, <1>8, <1>14 DEF IInv, TypeOK, RunsConserved, EventMeansIdle, PostEvent
<1>17. RunsMatchReferences'
  BY <1>14 DEF IInv, RunsMatchReferences
<1> QED
  BY <1>9, <1>10, <1>11, <1>12, <1>13, <1>15, <1>16, <1>17 DEF IInv

\* A step outside the system changes nothing.
LEMMA StutterStep == ASSUME IInv, UNCHANGED vars PROVE IInv'
<1> USE DEF vars, controlVars
<1>1. TypeOK'
  BY DEF IInv, TypeOK
<1>2. (DescriptorsConserved /\ LeavesCounted /\ FlightInv)'
  BY SameDescriptors DEF IInv
<1>3. (FreshInv /\ LockInv /\ CallInv /\ EventMeansIdle)'
  BY DEF IInv, FreshInv, LockInv, CallInv, EventMeansIdle
<1>4. Owed' = Owed /\ PendingOnlyWhenFull'
  BY DEF IInv, Owed, PendingOnlyWhenFull
<1>5. RunsConserved' /\ RunsMatchReferences'
  BY <1>4 DEF IInv, RunsConserved, RunsMatchReferences
<1> QED
  BY <1>1, <1>2, <1>3, <1>4, <1>5 DEF IInv

LEMMA NextIInv == ASSUME IInv, MaxVerify = 1, [Next]_vars PROVE IInv'
<1>1. CASE VerifyGraph
  BY <1>1, VerifyGraphStep
<1>2. ASSUME NEW a \in App, EnqueueRef(a) \/ CallStep(a) PROVE IInv'
  BY <1>2, EnqueueRefStep, EnqueueEndStep, EnqueueFailStep, ScheduleCheckStep,
     ScheduleCountStep, ScheduleLockStep, WaitCheckStep, WaitReturnStep DEF CallStep
<1>3. ASSUME NEW p \in Pipe, RunStep(p) PROVE IInv'
  <2>1. CASE \E l \in Leaf, abandon \in {FALSE, CallbackAtLeaf} : RunCompletes(l, p, abandon)
    BY <2>1, BoundAssumption, RunCompletesStep
  <2> QED
    BY <1>3, <2>1, SubmitRunStep, TakeRefsStep, NodeAbandonsStep, LeafCompletesStep
       DEF RunStep
<1>4. CASE HostStep
  BY <1>4, RescheduleLockStep, ScheduleUnlockStep, HostAbandonsStep DEF HostStep
<1>5. CASE UNCHANGED vars
  BY <1>5, StutterStep
<1> QED
  BY <1>1, <1>2, <1>3, <1>4, <1>5 DEF Next

\* The invariant of a graph that is verified once.
THEOREM Invariance == MaxVerify = 1 => (Spec => []IInv)
<1> SUFFICES ASSUME MaxVerify = 1 PROVE Spec => []IInv
  OBVIOUS
<1>1. Init => IInv
  BY InitIInv
<1>2. IInv /\ [Next]_vars => IInv'
  BY NextIInv
<1> QED
  BY <1>1, <1>2, PTL DEF Spec

\* The fields of vx_graph keep their ranges: no count wraps below zero.
THEOREM TypeCorrect == MaxVerify = 1 => (Spec => []TypeOK)
BY Invariance, PTL DEF IInv

\* ownCheckGraphCompleted and ownGraphScheduleGraph together forget no run that
\* was asked for and invent none.
THEOREM RunsConservation == MaxVerify = 1 => (Spec => []RunsConserved)
BY Invariance, PTL DEF IInv

\* No pipeline instance is free twice, free while it runs, or lost from free_q.
THEOREM DescriptorsConservation == MaxVerify = 1 => (Spec => []DescriptorsConserved)
BY Invariance, PTL DEF IInv

\* all_graph_completed_event is never set while a run is owed or under way.
THEOREM EventSoundness == MaxVerify = 1 => (Spec => []EventMeansIdle)
BY Invariance, PTL DEF IInv

\* A request is kept pending only while no instance is free.
THEOREM PendingSoundness == MaxVerify = 1 => (Spec => []PendingOnlyWhenFull)
BY Invariance, PTL DEF IInv

\* AUTO mode schedules exactly one run for each reference of parameter 0.
THEOREM ReferenceAccounting == MaxVerify = 1 => (Spec => []RunsMatchReferences)
BY Invariance, PTL DEF IInv

\* A thread leaves vxWaitGraph when the event is posted, and then what it waits for is done.
LEMMA WaitStep ==
  ASSUME IInv, [Next]_vars, NEW a \in Waiter, pc[a] = "wait", pc'[a] = "idle"
  PROVE  done >= waitFor[a]
<1>0. a \in App
  BY ActorAssumption
<1>1. CASE WaitReturn(a)
  BY <1>0, <1>1 DEF IInv, TypeOK, EventMeansIdle, CallInv, WaitReturn
<1>2. ASSUME NEW b \in App, EnqueueRef(b) \/ CallStep(b), ~WaitReturn(a) PROVE FALSE
  BY <1>0, <1>2 DEF EnqueueRef, CallStep, EnqueueControl, EnqueueEnd, EnqueueFail,
     ScheduleCheck, ScheduleCount, ScheduleLock, WaitCheck, WaitReturn, IInv, TypeOK
<1>3. ASSUME NEW p \in Pipe, RunStep(p) PROVE FALSE
  BY <1>3 DEF RunStep, SubmitRun, TakeRefs, NodeAbandons, LeafCompletes,
     RunCompletes, SubmitControl, AbandonControl, LeafControl, CompleteControl,
     controlVars
<1>4. ASSUME HostStep PROVE FALSE
  BY <1>0, <1>4 DEF HostStep, RescheduleLock, ScheduleUnlock, HostAbandons, IInv,
     TypeOK, CallInv
<1>5. ASSUME VerifyGraph PROVE FALSE
  BY <1>5 DEF VerifyGraph, VerifyControl
<1>6. ASSUME UNCHANGED vars PROVE FALSE
  BY <1>6 DEF vars, controlVars
<1> QED
  BY <1>1, <1>2, <1>3, <1>4, <1>5, <1>6 DEF Next

\* vxWaitGraph returns only when the runs that had been scheduled are complete.
THEOREM WaitSoundness == MaxVerify = 1 => (Spec => WaitSound)
<1> SUFFICES ASSUME MaxVerify = 1 PROVE Spec => WaitSound
  OBVIOUS
<1>1. IInv /\ [Next]_vars
      => [\A a \in Waiter : pc[a] = "wait" /\ pc'[a] = "idle" => done >= waitFor[a]]_vars
  BY WaitStep
<1> QED
  BY <1>1, Invariance, PTL DEF Spec, WaitSound

-----------------------------------------------------------------------------
(* The state that is reported                                               *)

\* While a run is under way its descriptor says whether a callback abandoned it.
StateInv ==
    /\ hostAbandon = NoActor
    /\ \A p \in InFlight : descState[p] = IF abandonReq[p] THEN "ABANDONED" ELSE "RUNNING"
    /\ StateReported

\* A step that completes or submits no run, and abandons none.
LEMMA StateStays ==
  ASSUME StateInv, UNCHANGED <<graphState, descState, submitted, leafTodo, hostAbandon,
                               abandonReq, lastAbandon>>
  PROVE  StateInv'
BY DEF StateInv, InFlight, StateReported

\* Every step keeps it, if no leaf node has a callback that may abandon.
LEMMA NextStateInv ==
  ASSUME IInv, ~CallbackAtLeaf, StateInv, [Next]_vars PROVE StateInv'
<1>t. /\ descState \in [Pipe -> RunState] /\ abandonReq \in [Pipe -> BOOLEAN]
      /\ leafTodo \in [Pipe -> SUBSET Leaf] /\ submitted \in Nat
      /\ lastAbandon \in BOOLEAN
  BY DEF IInv, TypeOK
<1>1. CASE VerifyGraph
  <2>1. graphState' = "VERIFIED" /\ submitted' = 0 /\ hostAbandon' = NoActor
    BY <1>1 DEF VerifyGraph, VerifyControl, StateInv
  <2>2. InFlight' = {}
    <3>1. submitted = 0 /\ leafTodo' = leafTodo
      BY <1>1 DEF VerifyGraph, VerifyControl
    <3>2. InFlight = {}
      BY <3>1, PipeFinite, FS_EmptySet DEF IInv, FlightInv, InFlight
    <3> QED
      BY <3>1, <3>2 DEF InFlight
  <2> QED
    BY <2>1, <2>2 DEF StateInv, StateReported
<1>2. ASSUME NEW a \in App, EnqueueRef(a) \/ CallStep(a) PROVE StateInv'
  BY <1>2, StateStays
     DEF EnqueueRef, CallStep, EnqueueControl, EnqueueEnd, EnqueueFail, ScheduleCheck,
         ScheduleCount, ScheduleLock, WaitCheck, WaitReturn
<1>3. ASSUME NEW p \in Pipe, SubmitRun(p) PROVE StateInv'
  <2>1. /\ graphState' = "RUNNING" /\ submitted' > 0 /\ hostAbandon' = NoActor
        /\ lastAbandon' = lastAbandon
    BY <1>t, <1>3 DEF SubmitRun, SubmitControl, StateInv
  <2>2. /\ descState' = [descState EXCEPT ![p] = "RUNNING"]
        /\ abandonReq' = [abandonReq EXCEPT ![p] = FALSE]
        /\ leafTodo' = [leafTodo EXCEPT ![p] = Leaf]
    BY <1>3 DEF SubmitRun, SubmitControl
  <2>3. \A q \in Pipe \ {p} : /\ descState'[q] = descState[q] /\ leafTodo'[q] = leafTodo[q]
                              /\ abandonReq'[q] = abandonReq[q]
    BY <1>t, <2>2
  <2>4. descState'[p] = "RUNNING" /\ ~abandonReq'[p]
    BY <1>t, <2>2
  <2>5. \A q \in InFlight' :
           descState'[q] = IF abandonReq'[q] THEN "ABANDONED" ELSE "RUNNING"
    BY <2>3, <2>4 DEF StateInv, InFlight
  <2> QED
    BY <2>1, <2>5 DEF StateInv, StateReported
<1>4. ASSUME NEW p \in Pipe, TakeRefs(p) \/ \E l \in Leaf : LeafCompletes(l, p)
      PROVE  StateInv'
  <2>1. CASE TakeRefs(p)
    BY <2>1, StateStays DEF TakeRefs, controlVars
  <2>2. ASSUME NEW l \in Leaf, LeafCompletes(l, p) PROVE StateInv'
    <3>1. UNCHANGED <<graphState, descState, submitted, hostAbandon, abandonReq, lastAbandon>>
      BY <2>2 DEF LeafCompletes, LeafControl
    <3>2. InFlight' \subseteq InFlight
      BY <1>t, <2>2 DEF LeafCompletes, InFlight
    <3> QED
      BY <3>1, <3>2 DEF StateInv, StateReported
  <2> QED
    BY <1>4, <2>1, <2>2
<1>5. ASSUME NEW p \in Pipe, NodeAbandons(p) PROVE StateInv'
  <2>1. /\ descState' = [descState EXCEPT ![p] = "ABANDONED"]
        /\ abandonReq' = [abandonReq EXCEPT ![p] = TRUE]
        /\ UNCHANGED <<graphState, submitted, leafTodo, hostAbandon, lastAbandon>>
    BY <1>5 DEF NodeAbandons, AbandonControl
  <2>2. \A q \in Pipe \ {p} : descState'[q] = descState[q] /\ abandonReq'[q] = abandonReq[q]
    BY <1>t, <2>1
  <2>3. descState'[p] = "ABANDONED" /\ abandonReq'[p]
    BY <1>t, <2>1
  <2>4. \A q \in InFlight' :
           descState'[q] = IF abandonReq'[q] THEN "ABANDONED" ELSE "RUNNING"
    BY <2>1, <2>2, <2>3 DEF StateInv, InFlight
  <2> QED
    BY <2>1, <2>4 DEF StateInv, StateReported
<1>6. ASSUME NEW p \in Pipe, NEW l \in Leaf, RunCompletes(l, p, FALSE) PROVE StateInv'
  <2>1. /\ descState' = [descState EXCEPT ![p] = CompletedState(@)]
        /\ submitted' = submitted - 1 /\ hostAbandon' = NoActor
        /\ graphState' = (IF submitted' = 0 THEN descState'[p] ELSE graphState)
        /\ lastAbandon' = (abandonReq[p] \/ FALSE) /\ abandonReq' = abandonReq
    BY <1>6 DEF RunCompletes, CompleteControl
  <2>2. InFlight' = InFlight \ {p}
    BY <1>6, LastLeaf
  <2>3. p \in InFlight /\ submitted \in Nat \ {0} /\ graphState = "RUNNING"
    <3>1. l \in leafTodo[p]
      BY <1>6 DEF RunCompletes
    <3>2. p \in InFlight /\ submitted \in Nat \ {0}
      BY <3>1, InFlightFacts
    <3>3. submitted > 0
      BY <3>2
    <3> QED
      BY <3>2, <3>3 DEF StateInv, StateReported
  <2>4. descState'[p] = IF abandonReq[p] THEN "ABANDONED" ELSE "COMPLETED"
    BY <1>t, <2>1, <2>3 DEF StateInv, CompletedState
  <2>5. \A q \in Pipe \ {p} : descState'[q] = descState[q]
    BY <1>t, <2>1
  <2>6. \A q \in InFlight' :
           descState'[q] = IF abandonReq'[q] THEN "ABANDONED" ELSE "RUNNING"
    BY <2>1, <2>2, <2>5 DEF StateInv, InFlight
  <2>7. StateReported'
    <3>1. CASE submitted' = 0
      <4>1. graphState' = IF abandonReq[p] THEN "ABANDONED" ELSE "COMPLETED"
        BY <2>1, <2>4, <3>1
      <4>2. ~(submitted' > 0)
        BY <3>1
      <4>3. abandonReq[p] \in BOOLEAN /\ lastAbandon' = abandonReq[p]
        BY <1>t, <2>1
      <4> QED
        BY <4>1, <4>2, <4>3 DEF StateReported
    <3>2. CASE submitted' # 0
      <4>1. submitted' > 0
        BY <2>1, <2>3, <3>2
      <4> QED
        BY <2>1, <2>3, <3>2, <4>1 DEF StateReported
    <3> QED
      BY <3>1, <3>2
  <2> QED
    BY <2>1, <2>6, <2>7 DEF StateInv
<1>7. CASE HostStep
  <2>1. ~HostAbandons
    BY DEF HostAbandons, StateInv
  <2> QED
    BY <1>7, <2>1, StateStays DEF HostStep, RescheduleLock, ScheduleUnlock
<1>8. CASE UNCHANGED vars
  BY <1>8, StateStays DEF vars, controlVars
<1>9. ASSUME NEW p \in Pipe, RunStep(p) PROVE StateInv'
  <2>1. CallbackAtLeaf = FALSE
    BY BoundAssumption
  <2> QED
    BY <1>3, <1>4, <1>5, <1>6, <1>9, <2>1 DEF RunStep
<1> QED
  BY <1>1, <1>2, <1>7, <1>8, <1>9 DEF Next

\* ownCheckGraphCompleted: as long as no leaf node has a callback that abandons the
\* graph, vx_graph's state is RUNNING exactly while runs are submitted, and afterwards
\* ABANDONED exactly if a callback of the run that completed last abandoned it, in
\* every mode.  With such leaf nodes AbandonReported fails.
THEOREM StateSoundness == MaxVerify = 1 /\ ~CallbackAtLeaf => (Spec => []StateReported)
<1> SUFFICES ASSUME MaxVerify = 1, ~CallbackAtLeaf PROVE Spec => []StateReported
  OBVIOUS
<1>1. Init => StateInv
  BY DEF Init, InitControl, StateInv, StateReported, InFlight
<1>2. IInv /\ StateInv /\ [Next]_vars => StateInv'
  BY NextStateInv
<1>3. StateInv => StateReported
  BY DEF StateInv
<1> QED
  BY <1>1, <1>2, <1>3, Invariance, PTL DEF Spec
=============================================================================
