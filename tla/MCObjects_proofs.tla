---------------------------- MODULE MCObjects_proofs ----------------------------
(* Two of the parts that the run of the objects checks on a small instance, for *)
(* every value of the constants: the references to objects, whose proof is that *)
(* of References_proofs, and delays with the parameters bound to them, which    *)
(* are proved here.  A step of ObjectsSpec is a step of one part.               *)
EXTENDS MCObjects, FiniteSetTheorems, TLAPS

CountsP == INSTANCE References_proofs WITH
    Object <- {graph, node, data}, Used <- UsedObjects

-----------------------------------------------------------------------------
(* References to objects                                                     *)

\* The graph, the node, the data object and the absence of one are different.
LEMMA ObjectsDiffer ==
  /\ graph # node /\ graph # data /\ node # data
  /\ NoObject \notin {graph, node, data}
  /\ IsFiniteSet({graph, node, data})
<1> DEFINE S == {graph, node, data, NoObject}
<1>1. Cardinality(S) = 4
  BY ObjectsAssumption
<1>2. ASSUME NEW a, NEW b, NEW c PROVE IsFiniteSet({a, b, c}) /\ Cardinality({a, b, c}) <= 3
  <2>1. IsFiniteSet({a}) /\ Cardinality({a}) = 1
    BY FS_Singleton
  <2>2. IsFiniteSet({a} \cup {b}) /\ Cardinality({a} \cup {b}) <= 2
    BY <2>1, FS_AddElement
  <2>3. IsFiniteSet(({a} \cup {b}) \cup {c}) /\ Cardinality(({a} \cup {b}) \cup {c}) <= 3
    <3>1. IsFiniteSet(({a} \cup {b}) \cup {c})
      BY <2>2, FS_AddElement
    <3>2. Cardinality(({a} \cup {b}) \cup {c}) =
            IF c \in {a} \cup {b} THEN Cardinality({a} \cup {b}) ELSE Cardinality({a} \cup {b}) + 1
      BY <2>2, FS_AddElement
    <3>3. Cardinality({a} \cup {b}) \in Nat
      BY <2>2, FS_CardinalityType
    <3> QED
      BY <2>2, <3>1, <3>2, <3>3
  <2>4. ({a} \cup {b}) \cup {c} = {a, b, c}
    OBVIOUS
  <2> QED
    BY <2>3, <2>4
<1>3. ASSUME NEW a, NEW b, NEW c PROVE S # {a, b, c}
  <2>1. Cardinality({a, b, c}) <= 3
    BY <1>2
  <2>2. Cardinality({a, b, c}) # 4
    BY <2>1
  <2> QED
    BY <1>1, <2>2
<1>4. IsFiniteSet({graph, node, data})
  BY <1>2
<1>5. /\ graph = node => S = {node, data, NoObject}
      /\ graph = data => S = {node, data, NoObject}
      /\ node = data => S = {graph, data, NoObject}
      /\ NoObject \in {graph, node, data} => S = {graph, node, data}
  OBVIOUS
<1> HIDE DEF S
<1> QED
  BY <1>3, <1>4, <1>5

\* Which of them uses which.
LEMMA UseOfObjects ==
  UsedObjects[graph] = {node} /\ UsedObjects[node] = {data} /\ UsedObjects[data] = {}
BY ObjectsDiffer DEF UsedObjects

\* What References_proofs assumes of its parameters holds of this instance: there are
\* finitely many objects, and their use has no cycle.
LEMMA ReferencesParameters == CountsP!ReferenceParameters
<1>1. ASSUME NEW S \in SUBSET {graph, node, data}, S # {}
      PROVE  \E o \in S : \A n \in S : o \notin UsedObjects[n]
  <2>1. CASE graph \in S
    BY <2>1, UseOfObjects, ObjectsDiffer
  <2>2. CASE graph \notin S /\ node \in S
    BY <2>2, UseOfObjects, ObjectsDiffer
  <2>3. CASE graph \notin S /\ node \notin S
    BY <1>1, <2>3, UseOfObjects, ObjectsDiffer
  <2> QED
    BY <2>1, <2>2, <2>3
<1> QED
  BY <1>1, ObjectsDiffer, ObjectsAssumption DEF CountsP!ReferenceParameters, CountsP!IsFiniteSet, IsFiniteSet

\* The references of MCObjects and those References_proofs speaks of are one: the same
\* initial state and steps ...
LEMMA ReferencesSame ==
  /\ Counts!Init <=> CountsP!Init
  /\ [Counts!Next]_Counts!vars <=> [CountsP!Next]_CountsP!vars
<1>1. Counts!Init <=> CountsP!Init
  BY DEF Counts!Init, CountsP!Init, Counts!Index, CountsP!Index
<1>2. \A t : /\ Counts!Call(t) = CountsP!Call(t) /\ Counts!Outer(t) = CountsP!Outer(t)
             /\ Counts!May(t) <=> CountsP!May(t)
             /\ \A at : Counts!In(t, at) <=> CountsP!In(t, at)
             /\ \A o : Counts!Has(t, o) <=> CountsP!Has(t, o)
             /\ Counts!IsLast(t) <=> CountsP!IsLast(t)
  BY DEF Counts!Call, CountsP!Call, Counts!Outer, CountsP!Outer, Counts!May, CountsP!May,
         Counts!In, CountsP!In, Counts!Has, CountsP!Has, Counts!IsLast, CountsP!IsLast
<1>3. \A o, k : Counts!Release(o, k) = CountsP!Release(o, k)
  BY DEF Counts!Release, CountsP!Release
<1>4. \A o, v : Counts!SetValue(o, v) = CountsP!SetValue(o, v)
  BY DEF Counts!SetValue, CountsP!SetValue
<1>5. \A o : Counts!ToRelease(o) = CountsP!ToRelease(o)
  BY <1>3 DEF Counts!ToRelease, CountsP!ToRelease
<1>6. \A t, o : Counts!Create(t, o) <=> CountsP!Create(t, o)
  BY <1>2 DEF Counts!Create, CountsP!Create, Counts!Index, CountsP!Index, Counts!Min, CountsP!Min
<1>7. \A t, u, o : Counts!Retain(t, u, o) <=> CountsP!Retain(t, u, o)
  BY <1>2 DEF Counts!Retain, CountsP!Retain
<1>8. \A t, o, v : Counts!SetParameter(t, o, v) <=> CountsP!SetParameter(t, o, v)
  BY <1>2, <1>4, <1>5 DEF Counts!SetParameter, CountsP!SetParameter
<1>9. \A t : Counts!TakeValue(t) <=> CountsP!TakeValue(t)
  BY <1>2 DEF Counts!TakeValue, CountsP!TakeValue
<1>10. \A t, o : Counts!ReleaseReference(t, o) <=> CountsP!ReleaseReference(t, o)
  BY <1>2, <1>3 DEF Counts!ReleaseReference, CountsP!ReleaseReference
<1>11. \A t : Counts!Decrement(t) <=> CountsP!Decrement(t)
  <2>1. \A f, o : Counts!Less(f, o) = CountsP!Less(f, o)
    BY DEF Counts!Less, CountsP!Less
  <2>2. \A i, e : Counts!Remaining(i, e) = CountsP!Remaining(i, e)
    BY DEF Counts!Remaining, CountsP!Remaining
  <2> QED
    BY <1>2, <2>1, <2>2 DEF Counts!Decrement, CountsP!Decrement
<1>12. \A t : Counts!NotLast(t) <=> CountsP!NotLast(t)
  BY <1>2 DEF Counts!NotLast, CountsP!NotLast
<1>13. \A t : Counts!RemoveFromTable(t) <=> CountsP!RemoveFromTable(t)
  BY <1>2 DEF Counts!RemoveFromTable, CountsP!RemoveFromTable, Counts!Index, CountsP!Index
<1>14. \A t : Counts!Destruct(t) <=> CountsP!Destruct(t)
  BY <1>2, <1>5 DEF Counts!Destruct, CountsP!Destruct
<1>15. \A t : Counts!Free(t) <=> CountsP!Free(t)
  BY <1>2, <1>5 DEF Counts!Free, CountsP!Free
<1>16. \A t : /\ Counts!CreateContext(t) <=> CountsP!CreateContext(t)
              /\ Counts!ReleaseContext(t) <=> CountsP!ReleaseContext(t)
  BY <1>2 DEF Counts!CreateContext, CountsP!CreateContext, Counts!ReleaseContext,
     CountsP!ReleaseContext, Counts!Index, CountsP!Index
<1>17. \A t : Counts!Collect(t) <=> CountsP!Collect(t)
  <2>1. \A o : Counts!CountToCollect(o) = CountsP!CountToCollect(o)
    BY DEF Counts!CountToCollect, CountsP!CountToCollect
  <2> QED
    BY <1>3, <2>1 DEF Counts!Collect, CountsP!Collect, Counts!Index, CountsP!Index
<1>18. \A t : Counts!EndContext(t) <=> CountsP!EndContext(t)
  BY DEF Counts!EndContext, CountsP!EndContext, Counts!Collected, CountsP!Collected
<1>19. \A t : Counts!ThreadNext(t) <=> CountsP!ThreadNext(t)
  BY <1>6, <1>7, <1>8, <1>9, <1>10, <1>11, <1>12, <1>13, <1>14, <1>15, <1>16, <1>17, <1>18
     DEF Counts!ThreadNext, CountsP!ThreadNext
<1>20. Counts!Next <=> CountsP!Next
  BY <1>19 DEF Counts!Next, CountsP!Next
<1> QED
  BY <1>1, <1>20 DEF Counts!vars, CountsP!vars

\* ... and the same properties.
LEMMA ReferencePropertiesSame ==
  /\ Counts!TypeOK <=> CountsP!TypeOK
  /\ Counts!LiveWhileUsed <=> CountsP!LiveWhileUsed
  /\ Counts!OneReleaser <=> CountsP!OneReleaser
  /\ Counts!CountsMatchOwners <=> CountsP!CountsMatchOwners
  /\ Counts!AllCollected <=> CountsP!AllCollected
<1>1. Counts!TypeOK <=> CountsP!TypeOK
  BY DEF Counts!TypeOK, CountsP!TypeOK, Counts!CallRecord, CountsP!CallRecord,
     Counts!Index, CountsP!Index, Counts!Cardinality, CountsP!Cardinality
<1>2. /\ Counts!Places = CountsP!Places
      /\ \A c : Counts!At(c) = CountsP!At(c)
      /\ \A o : /\ Counts!Users(o) = CountsP!Users(o) /\ Counts!Refs(o) = CountsP!Refs(o)
                /\ Counts!InTable(o) <=> CountsP!InTable(o)
                /\ \A t : Counts!Has(t, o) <=> CountsP!Has(t, o)
  BY DEF Counts!Places, CountsP!Places, Counts!At, CountsP!At, Counts!Users, CountsP!Users,
     Counts!Refs, CountsP!Refs, Counts!InTable, CountsP!InTable, Counts!Index, CountsP!Index,
     Counts!Has, CountsP!Has
<1>3. /\ \A s, o : Counts!CallsAt(s, o) = CountsP!CallsAt(s, o)
  BY <1>2 DEF Counts!CallsAt, CountsP!CallsAt
<1>4. /\ \A o : Counts!Final(o) = CountsP!Final(o)
      /\ \A k, o : Counts!Pending(k, o) = CountsP!Pending(k, o)
  BY <1>2, <1>3 DEF Counts!Final, CountsP!Final, Counts!Pending, CountsP!Pending
<1>5. Counts!LiveWhileUsed <=> CountsP!LiveWhileUsed
  BY <1>2 DEF Counts!LiveWhileUsed, CountsP!LiveWhileUsed
<1>6. Counts!OneReleaser <=> CountsP!OneReleaser
  BY <1>4 DEF Counts!OneReleaser, CountsP!OneReleaser, Counts!Cardinality, CountsP!Cardinality
<1>7. Counts!CountsMatchOwners <=> CountsP!CountsMatchOwners
  BY <1>2, <1>4 DEF Counts!CountsMatchOwners, CountsP!CountsMatchOwners,
     Counts!Cardinality, CountsP!Cardinality
<1>8. Counts!AllCollected <=> CountsP!AllCollected
  BY DEF Counts!AllCollected, CountsP!AllCollected, Counts!Collected, CountsP!Collected
<1> QED
  BY <1>1, <1>5, <1>6, <1>7, <1>8

\* The type invariant of the references, with the number of entries of the table.
THEOREM ReferenceTypes == ObjectsSpec => []Counts!TypeOK
<1>1. ObjectsInit => Counts!Init
  BY DEF ObjectsInit
<1>2. [ObjectsNext]_objectsVars => [Counts!Next]_Counts!vars
  BY DEF ObjectsNext, objectsVars, referenceVars, Counts!vars
<1>3. CountsP!Spec => []CountsP!TypeOK
  BY ReferencesParameters, CountsP!TypeCorrect
<1> QED
  BY <1>1, <1>2, <1>3, ReferencesSame, ReferencePropertiesSame, PTL
     DEF ObjectsSpec, CountsP!Spec

\* ownReleaseReferenceInt: whatever is referred to is valid and in the table, and one call
\* at most frees an object.
THEOREM ReferenceSoundness == ObjectsSpec => []ReleasedOnceUnused
<1>1. ObjectsInit => Counts!Init
  BY DEF ObjectsInit
<1>2. [ObjectsNext]_objectsVars => [Counts!Next]_Counts!vars
  BY DEF ObjectsNext, objectsVars, referenceVars, Counts!vars
<1>3. CountsP!Spec => []CountsP!LiveWhileUsed
  BY ReferencesParameters, CountsP!LiveSoundness
<1>4. CountsP!Spec => []CountsP!OneReleaser
  BY ReferencesParameters, CountsP!ReleaserSoundness
<1> QED
  BY <1>1, <1>2, <1>3, <1>4, ReferencesSame, ReferencePropertiesSame, PTL
     DEF ObjectsSpec, CountsP!Spec, ReleasedOnceUnused

\* ownIncrementReference, ownDecrementReference, vxReleaseContext: the counts of an object
\* are its references, and the end of the context leaves none.
THEOREM CountSoundness == ObjectsSpec => []CountsMatchOwners
<1>1. ObjectsInit => Counts!Init
  BY DEF ObjectsInit
<1>2. [ObjectsNext]_objectsVars => [Counts!Next]_Counts!vars
  BY DEF ObjectsNext, objectsVars, referenceVars, Counts!vars
<1>3. CountsP!Spec => []CountsP!CountsMatchOwners
  BY ReferencesParameters, CountsP!CountSoundness
<1>4. CountsP!Spec => []CountsP!AllCollected
  BY ReferencesParameters, CountsP!CollectSoundness
<1> QED
  BY <1>1, <1>2, <1>3, <1>4, ReferencesSame, ReferencePropertiesSame, PTL
     DEF ObjectsSpec, CountsP!Spec, CountsMatchOwners

-----------------------------------------------------------------------------
(* Delays                                                                    *)

\* What a list of parameters, as ownAddAssociationToDelay and ownRemoveAssociationToDelay
\* leave it, says of a slot.
Listed(sets, s) == (IF sets[s].head = NoParam THEN {} ELSE {sets[s].head}) \cup sets[s].next

\* In every state: no parameter is listed twice, and one that is listed holds an
\* object of the delay.
Lists ==
    /\ \A p \in Param : \A s, r \in Slot : p \in Bound(s) /\ p \in Bound(r) => s = r
    /\ \A s \in Slot : \A p \in Bound(s) : parameters[p] # Plain
\* Before the first ageing the objects are in the slots of their own numbers.
Unaged == ~aged => index = 0 /\ \A v \in Slot : delay_slot_index[v] = v
\* While no parameter is bound after an ageing: a listed parameter holds the object that is
\* in its slot, that object knows its slot, and whatever was bound is listed.
InStep ==
    ~late =>
        /\ \A s \in Slot : \A p \in Bound(s) :
              parameters[p] = At(s) /\ slot[p] = s /\ p \notin lost
        /\ \A s \in Slot : Bound(s) # {} => delay_slot_index[At(s)] = s
        /\ \A p \in Param \ lost : IF slot[p] = Plain THEN parameters[p] = Plain
                                                      ELSE p \in Bound(slot[p])
        /\ \A p \in lost : parameters[p] # Plain

DelayInv == TypeOK /\ Lists /\ Unaged /\ InStep

\* An index that is k places behind a, in a ring of N.
LEMMA RingIndex ==
  ASSUME NEW N \in Nat \ {0}, NEW a \in 0 .. N - 1, NEW k \in 0 .. N
  PROVE  /\ (a + k) % N = IF a + k < N THEN a + k ELSE a + k - N
         /\ (a + k) % N \in 0 .. N - 1
<1>1. CASE a + k < N
  BY <1>1
<1>2. CASE a + k >= N
  <2>1. (a + k - N) % N = a + k - N
    BY <1>2
  <2>2. (a + k) % N = (a + k - N) % N
    OBVIOUS
  <2> QED
    BY <1>2, <2>1, <2>2
<1> QED
  BY <1>1, <1>2

\* An index and a slot, modulo the number of slots.
LEMMA Turns ==
  /\ Count \in Nat \ {0}
  /\ \A i, s \in Slot : /\ (i + s) % Count = IF i + s < Count THEN i + s ELSE i + s - Count
                        /\ (i + s) % Count \in Slot
<1>1. Count \in Nat \ {0}
  BY DelayAssumption
<1>2. ASSUME NEW i \in Slot, NEW s \in Slot
      PROVE  /\ (i + s) % Count = IF i + s < Count THEN i + s ELSE i + s - Count
             /\ (i + s) % Count \in Slot
  <2>1. i \in 0 .. Count - 1 /\ s \in 0 .. Count
    BY <1>1 DEF Slot
  <2> QED
    BY <1>1, <2>1, RingIndex DEF Slot
<1> QED
  BY <1>1, <1>2

\* Whatever the index, a slot holds one object, and an object is in one slot.
LEMMA OneSlotEach ==
  ASSUME NEW i \in Slot
  PROVE  /\ \A s, r \in Slot : (i + s) % Count = (i + r) % Count => s = r
         /\ \A v \in Slot : \E s \in Slot : (i + s) % Count = v
<1>1. ASSUME NEW s \in Slot, NEW r \in Slot, (i + s) % Count = (i + r) % Count
      PROVE  s = r
  <2>1. /\ (i + s) % Count = IF i + s < Count THEN i + s ELSE i + s - Count
        /\ (i + r) % Count = IF i + r < Count THEN i + r ELSE i + r - Count
    BY Turns
  <2>2. i \in Int /\ s \in 0 .. Count - 1 /\ r \in 0 .. Count - 1 /\ Count \in Nat
    BY Turns DEF Slot
  <2> QED
    BY <1>1, <2>1, <2>2
<1>2. ASSUME NEW v \in Slot
      PROVE  \E s \in Slot : (i + s) % Count = v
  <2>1. /\ Count \in Nat /\ i \in 0 .. Count - 1 /\ v \in 0 .. Count - 1
    BY Turns DEF Slot
  <2>2. CASE v >= i
    <3>1. v - i \in Slot /\ i + (v - i) = v /\ v < Count
      BY <2>1, <2>2 DEF Slot
    <3>2. (i + (v - i)) % Count = v
      BY <3>1, Turns
    <3> QED
      BY <3>1, <3>2
  <2>3. CASE v < i
    <3>1. PICK w \in Slot : i + w = v + Count /\ ~(i + w < Count)
      <4>1. v - i + Count \in Slot /\ i + (v - i + Count) = v + Count /\ ~(v + Count < Count)
        BY <2>1, <2>3 DEF Slot
      <4> QED
        BY <4>1
    <3>2. (i + w) % Count = i + w - Count
      BY <3>1, Turns
    <3>3. i + w - Count = v
      BY <2>1, <3>1
    <3> QED
      BY <3>2, <3>3
  <2> QED
    BY <2>1, <2>2, <2>3
<1> QED
  BY <1>1, <1>2

\* The object in a slot, and the slot of an object.
LEMMA AtIs ==
  ASSUME TypeOK
  PROVE  /\ \A s \in Slot : At(s) \in Slot
         /\ \A v \in Slot : SlotOf(v) \in Slot /\ At(SlotOf(v)) = v
         /\ Plain \notin Slot
<1>1. index \in Slot
  BY DEF TypeOK
<1>2. \A s \in Slot : At(s) \in Slot
  BY <1>1, Turns DEF At
<1>3. \A v \in Slot : \E s \in Slot : At(s) = v
  BY <1>1, OneSlotEach DEF At
<1>4. \A v \in Slot : SlotOf(v) \in Slot /\ At(SlotOf(v)) = v
  BY <1>3 DEF SlotOf
<1>5. Plain \notin Slot
  BY Turns DEF Plain, Slot
<1> QED
  BY <1>2, <1>4, <1>5

\* vxCreateDelay: nothing is bound yet.
LEMMA DelayInit == Init => DelayInv
<1> SUFFICES ASSUME Init PROVE DelayInv
  OBVIOUS
<1>1. Count \in Nat \ {0} /\ 0 \in Slot /\ Plain \in Object /\ Slot \subseteq Object
  BY Turns DEF Slot, Object, Plain
<1>2. \A s \in Slot : Bound(s) = {}
  BY DEF Init, Bound
<1>3. TypeOK
  BY <1>1 DEF Init, TypeOK
<1> QED
  BY <1>1, <1>2, <1>3 DEF Init, DelayInv, Lists, Unaged, InStep

\* ownRemoveAssociationToDelay, when it finds the parameter: it is in no list any more.
LEMMA RemovedLists ==
  ASSUME DelayInv, NEW p \in Param, Removable(p)
  PROVE  /\ Removed(p) \in [Slot -> [head : Param \cup {NoParam}, next : SUBSET Param]]
         /\ \A s \in Slot : Listed(Removed(p), s) = Bound(s) \ {p}
         /\ ~late => p \notin lost
<1>0. /\ NoParam \notin Param
      /\ set \in [Slot -> [head : Param \cup {NoParam}, next : SUBSET Param]]
      /\ parameters[p] \in Slot \cup {Plain}
  <2>1. Object = Slot \cup {Plain}
    BY Turns DEF Object, Slot, Plain
  <2> QED
    BY <2>1, DelayAssumption DEF DelayInv, TypeOK
<1>1. CASE parameters[p] = Plain
  <2>1. \A s \in Slot : p \notin Bound(s)
    BY <1>1 DEF DelayInv, Lists
  <2> QED
    BY <1>0, <1>1, <2>1 DEF Removed, Listed, Bound, DelayInv, InStep
<1>2. CASE parameters[p] # Plain
  <2>1. PICK r \in Slot : r = delay_slot_index[parameters[p]]
    BY <1>0, <1>2 DEF DelayInv, TypeOK
  <2>2. p \in Bound(r)
    BY <1>2, <2>1 DEF Removable
  <2>3. \A s \in Slot : s # r => p \notin Bound(s)
    BY <2>2 DEF DelayInv, Lists
  <2>4. Removed(p) = [set EXCEPT ![r] = [head |-> IF @.head = p THEN NoParam ELSE @.head,
                                         next |-> @.next \ {p}]]
    BY <1>2, <2>1 DEF Removed, Disassociated
  <2>5. Removed(p) \in [Slot -> [head : Param \cup {NoParam}, next : SUBSET Param]]
    BY <1>0, <2>4
  <2>6. /\ Removed(p)[r].head = IF set[r].head = p THEN NoParam ELSE set[r].head
        /\ Removed(p)[r].next = set[r].next \ {p}
        /\ \A s \in Slot \ {r} : Removed(p)[s] = set[s]
    BY <1>0, <2>4
  <2>7. ASSUME NEW s \in Slot, s # r PROVE Listed(Removed(p), s) = Bound(s) \ {p}
    BY <2>3, <2>6, <2>7 DEF Listed, Bound
  <2>8. Listed(Removed(p), r) = Bound(r) \ {p}
    BY <1>0, <2>6 DEF Listed, Bound
  <2>9. ~late => p \notin lost
    BY <2>2 DEF DelayInv, InStep
  <2> QED
    BY <2>5, <2>7, <2>8, <2>9
<1> QED
  BY <1>1, <1>2

\* ownAddAssociationToDelay
LEMMA AssociatedLists ==
  ASSUME NEW p \in Param, NEW r \in Slot,
         NEW sets \in [Slot -> [head : Param \cup {NoParam}, next : SUBSET Param]]
  PROVE  /\ Associated(sets, r, p) \in [Slot -> [head : Param \cup {NoParam}, next : SUBSET Param]]
         /\ Listed(Associated(sets, r, p), r) = Listed(sets, r) \cup {p}
         /\ \A s \in Slot \ {r} : Listed(Associated(sets, r, p), s) = Listed(sets, s)
<1>0. NoParam \notin Param
  BY DelayAssumption
<1>1. CASE sets[r].head = NoParam
  <2>1. Associated(sets, r, p) = [sets EXCEPT ![r].head = p]
    BY <1>1 DEF Associated
  <2>2. /\ Associated(sets, r, p)[r].head = p /\ Associated(sets, r, p)[r].next = sets[r].next
        /\ \A s \in Slot \ {r} : Associated(sets, r, p)[s] = sets[s]
    BY <2>1
  <2>3. Associated(sets, r, p) \in [Slot -> [head : Param \cup {NoParam}, next : SUBSET Param]]
    BY <2>1
  <2> QED
    BY <1>0, <1>1, <2>2, <2>3 DEF Listed
<1>2. CASE sets[r].head # NoParam
  <2>1. Associated(sets, r, p) = [sets EXCEPT ![r].next = @ \cup {p}]
    BY <1>2 DEF Associated
  <2>2. /\ Associated(sets, r, p)[r].head = sets[r].head
        /\ Associated(sets, r, p)[r].next = sets[r].next \cup {p}
        /\ \A s \in Slot \ {r} : Associated(sets, r, p)[s] = sets[s]
    BY <2>1
  <2>3. Associated(sets, r, p) \in [Slot -> [head : Param \cup {NoParam}, next : SUBSET Param]]
    BY <2>1
  <2> QED
    BY <1>0, <1>2, <2>2, <2>3 DEF Listed
<1> QED
  BY <1>1, <1>2

\* The objects that a parameter may hold.
LEMMA ObjectsAre == Object = Slot \cup {Plain} /\ Plain \notin Slot
BY Turns DEF Object, Slot, Plain

\* Parameters are listed, and nothing else.
LEMMA BoundTyped ==
  ASSUME TypeOK
  PROVE  \A s \in Slot : Bound(s) \subseteq Param
BY DEF TypeOK, Bound

\* The parameters bound to a slot are the ones its list names.
LEMMA BoundIsListed == \A s : Bound(s) = Listed(set, s) /\ Bound(s)' = Listed(set', s)
BY DEF Bound, Listed

\* vxSetParameterByIndex with an object that is not of the delay.
LEMMA UnbindKeeps ==
  ASSUME DelayInv, NEW p \in Param, Unbind(p)
  PROVE  DelayInv'
<1>1. /\ Removable(p) /\ set' = Removed(p)
      /\ parameters' = [parameters EXCEPT ![p] = Plain] /\ slot' = [slot EXCEPT ![p] = Plain]
      /\ UNCHANGED <<index, delay_slot_index, aged, late, lost>>
  BY DEF Unbind
<1>2. \A s \in Slot : Bound(s)' = Bound(s) \ {p}
  BY <1>1, RemovedLists, BoundIsListed
<1>3. Plain \in Object
  BY Turns DEF Plain, Object
<1>4. TypeOK'
  BY <1>1, <1>3, RemovedLists DEF DelayInv, TypeOK
<1>5. /\ parameters'[p] = Plain /\ slot'[p] = Plain
      /\ \A q \in Param \ {p} : parameters'[q] = parameters[q] /\ slot'[q] = slot[q]
  BY <1>1 DEF DelayInv, TypeOK
<1>6. \A s \in Slot : Bound(s) \subseteq Param
  BY BoundTyped DEF DelayInv
<1>7. Lists'
  BY <1>2, <1>5, <1>6 DEF DelayInv, Lists
<1>8. Unaged'
  BY <1>1 DEF DelayInv, Unaged
<1>9. InStep'
  <2>1. SUFFICES ASSUME ~late PROVE InStep'
    BY <1>1 DEF InStep
  <2>2. /\ \A s \in Slot : \A q \in Bound(s) :
             parameters[q] = At(s) /\ slot[q] = s /\ q \notin lost
        /\ \A s \in Slot : Bound(s) # {} => delay_slot_index[At(s)] = s
        /\ \A q \in Param \ lost : IF slot[q] = Plain THEN parameters[q] = Plain
                                                      ELSE q \in Bound(slot[q])
        /\ \A q \in lost : parameters[q] # Plain
    BY <2>1 DEF DelayInv, InStep
  <2>3. p \notin lost
    BY <1>1, <2>1, RemovedLists
  <2>4. \A s : At(s)' = At(s)
    BY <1>1 DEF At
  <2>5. \A q \in Param : slot[q] # Plain => slot[q] \in Slot
    BY ObjectsAre DEF DelayInv, TypeOK
  <2>6. lost \subseteq Param
    BY DEF DelayInv, TypeOK
  <2>7. \A s \in Slot : \A q \in Bound(s)' :
             parameters'[q] = At(s)' /\ slot'[q] = s /\ q \notin lost
    BY <1>2, <1>5, <1>6, <2>2, <2>4
  <2>8. \A s \in Slot : Bound(s)' # {} => delay_slot_index[At(s)'] = s
    BY <1>2, <2>2, <2>4
  <2>9. \A q \in Param \ lost : slot'[q] = Plain => parameters'[q] = Plain
    BY <1>5, <2>2
  <2>10. ASSUME NEW q \in Param \ lost, slot'[q] # Plain
         PROVE  \A s : s = slot'[q] => q \in Bound(s)'
    BY <1>2, <1>5, <2>2, <2>5, <2>10
  <2>11. \A q \in lost : parameters'[q] # Plain
    BY <1>5, <2>2, <2>3, <2>6
  <2> QED
    BY <1>1, <1>5, <2>7, <2>8, <2>9, <2>10, <2>11 DEF InStep
<1> QED
  BY <1>4, <1>7, <1>8, <1>9 DEF DelayInv

\* vxSetParameterByIndex with an object of the delay: before the first ageing the slot
\* that the object names is the one it is in.
LEMMA BindKeeps ==
  ASSUME DelayInv, NEW p \in Param, NEW v \in Slot, Bind(p, v)
  PROVE  DelayInv'
<1>r. PICK r : r = SlotToBind(v)
  OBVIOUS
<1>1. /\ Removable(p) /\ set' = Associated(Removed(p), r, p)
      /\ parameters' = [parameters EXCEPT ![p] = v] /\ slot' = [slot EXCEPT ![p] = SlotOf(v)]
      /\ late' = (late \/ aged)
      /\ UNCHANGED <<index, delay_slot_index, aged, lost>>
  BY <1>r DEF Bind
<1>2. r \in Slot
  BY <1>r, Turns DEF SlotToBind, DelayInv, TypeOK
<1>3. /\ Removed(p) \in [Slot -> [head : Param \cup {NoParam}, next : SUBSET Param]]
      /\ \A s \in Slot : Listed(Removed(p), s) = Bound(s) \ {p}
  BY <1>1, RemovedLists
<1>4. /\ set' \in [Slot -> [head : Param \cup {NoParam}, next : SUBSET Param]]
      /\ Bound(r)' = (Bound(r) \ {p}) \cup {p}
      /\ \A s \in Slot \ {r} : Bound(s)' = Bound(s) \ {p}
  BY <1>1, <1>2, <1>3, AssociatedLists, BoundIsListed
<1>5. /\ v \in Object /\ SlotOf(v) \in Object /\ v # Plain
  BY ObjectsAre, AtIs DEF DelayInv
<1>6. late' \in BOOLEAN
  BY <1>1 DEF DelayInv, TypeOK
<1>7. TypeOK'
  BY <1>1, <1>4, <1>5, <1>6 DEF DelayInv, TypeOK
<1>8. /\ parameters'[p] = v /\ slot'[p] = SlotOf(v)
      /\ \A q \in Param \ {p} : parameters'[q] = parameters[q] /\ slot'[q] = slot[q]
  BY <1>1 DEF DelayInv, TypeOK
<1>9. \A s \in Slot : Bound(s) \subseteq Param
  BY BoundTyped DEF DelayInv
<1>10. Lists'
  <2>1. \A q \in Param, s \in Slot :
           q \in Bound(s)' => (q = p /\ s = r) \/ (q # p /\ q \in Bound(s))
    BY <1>4
  <2>2. \A q \in Param : \A s, u \in Slot : q \in Bound(s)' /\ q \in Bound(u)' => s = u
    BY <2>1 DEF DelayInv, Lists
  <2>3. ASSUME NEW s \in Slot, NEW q \in Bound(s)' PROVE parameters'[q] # Plain
    <3>1. q \in Param
      BY <1>4, <1>9
    <3>2. CASE q = p
      BY <1>5, <1>8, <3>2
    <3>3. CASE q # p
      BY <1>8, <2>1, <3>1, <3>3 DEF DelayInv, Lists
    <3> QED
      BY <3>2, <3>3
  <2> QED
    BY <2>2, <2>3 DEF Lists
<1>11. Unaged'
  BY <1>1 DEF DelayInv, Unaged
<1>12. InStep'
  <2>1. SUFFICES ASSUME ~late, ~aged PROVE InStep'
    <3>1. late \in BOOLEAN /\ aged \in BOOLEAN
      BY DEF DelayInv, TypeOK
    <3>2. ~late' => ~late /\ ~aged
      BY ONLY <1>1, <3>1
    <3> QED
      BY <3>2 DEF InStep
  <2>2. /\ \A s \in Slot : \A q \in Bound(s) :
             parameters[q] = At(s) /\ slot[q] = s /\ q \notin lost
        /\ \A s \in Slot : Bound(s) # {} => delay_slot_index[At(s)] = s
        /\ \A q \in Param \ lost : IF slot[q] = Plain THEN parameters[q] = Plain
                                                      ELSE q \in Bound(slot[q])
        /\ \A q \in lost : parameters[q] # Plain
    BY <2>1 DEF DelayInv, InStep
  <2>3. p \notin lost
    BY <1>1, <2>1, RemovedLists
  <2>4. index = 0 /\ \A s \in Slot : delay_slot_index[s] = s
    BY <2>1 DEF DelayInv, Unaged
  <2>5. 0 \in Slot
    BY Turns DEF Slot
  <2>6. \A s \in Slot : At(s) = s /\ (index + s) % Count = s
    <3>1. ASSUME NEW s \in Slot PROVE (0 + s) % Count = s
      <4>1. 0 + s < Count /\ 0 + s = s
        BY Turns DEF Slot
      <4> QED
        BY <2>5, <4>1, Turns
    <3> QED
      BY <2>4, <3>1 DEF At
  <2>7. r = v /\ SlotOf(v) = v
    <3>1. SlotOf(v) \in Slot /\ At(SlotOf(v)) = v
      BY AtIs DEF DelayInv
    <3> QED
      BY <1>r, <2>4, <2>6, <3>1 DEF SlotToBind
  <2>8. \A s : At(s)' = At(s)
    BY <1>1 DEF At
  <2>9. \A q \in Param : slot[q] # Plain => slot[q] \in Slot
    BY ObjectsAre DEF DelayInv, TypeOK
  <2>10. ASSUME NEW s \in Slot, NEW q \in Bound(s)'
         PROVE  parameters'[q] = At(s) /\ slot'[q] = s /\ q \notin lost
    <3>1. q \in Param
      BY <1>4, <1>9
    <3>2. CASE q = p
      <4>1. s = r
        BY <1>4, <3>2
      <4> QED
        BY <1>8, <2>3, <2>6, <2>7, <3>2, <4>1
    <3>3. CASE q # p
      <4>1. q \in Bound(s)
        BY <1>4, <3>3
      <4> QED
        BY <1>8, <2>2, <3>1, <3>3, <4>1
    <3> QED
      BY <3>2, <3>3
  <2>11. \A s \in Slot : delay_slot_index[At(s)] = s
    BY <2>4, <2>6
  <2>12. ASSUME NEW q \in Param \ lost, slot'[q] = Plain PROVE parameters'[q] = Plain
    <3>1. q # p
      BY <1>8, <2>7, <2>12, ObjectsAre
    <3> QED
      BY <1>8, <2>2, <2>12, <3>1
  <2>13. ASSUME NEW q \in Param \ lost, slot'[q] # Plain
         PROVE  \A s : s = slot'[q] => q \in Bound(s)'
    <3>1. CASE q = p
      BY <1>2, <1>4, <1>8, <2>7, <3>1
    <3>2. CASE q # p
      <4>1. slot'[q] = slot[q] /\ slot[q] \in Slot /\ q \in Bound(slot[q])
        BY <1>8, <2>2, <2>9, <2>13, <3>2
      <4> QED
        BY <1>4, <3>2, <4>1
    <3> QED
      BY <3>1, <3>2
  <2>14. \A q \in lost : parameters'[q] # Plain
    <3>1. lost \subseteq Param
      BY DEF DelayInv, TypeOK
    <3> QED
      BY <1>8, <2>2, <2>3, <3>1
  <2> QED
    BY <1>1, <2>8, <2>10, <2>11, <2>12, <2>13, <2>14 DEF InStep
<1> QED
  BY <1>7, <1>10, <1>11, <1>12 DEF DelayInv

\* The same when the pool is empty: the association is gone and the object stays.
LEMMA BindFailsKeeps ==
  ASSUME DelayInv, NEW p \in Param, NEW v \in Slot, BindFails(p, v)
  PROVE  DelayInv'
<1>1. /\ Removable(p) /\ set' = Removed(p)
      /\ lost' = (IF parameters[p] = Plain THEN lost ELSE lost \cup {p})
      /\ UNCHANGED <<index, delay_slot_index, parameters, slot, aged, late>>
  BY DEF BindFails
<1>2. \A s \in Slot : Bound(s)' = Bound(s) \ {p}
  BY <1>1, RemovedLists, BoundIsListed
<1>3. TypeOK'
  BY <1>1, RemovedLists DEF DelayInv, TypeOK
<1>4. Lists'
  BY <1>1, <1>2 DEF DelayInv, Lists
<1>5. Unaged'
  BY <1>1 DEF DelayInv, Unaged
<1>6. InStep'
  <2>1. SUFFICES ASSUME ~late PROVE InStep'
    BY <1>1 DEF InStep
  <2>2. /\ \A s \in Slot : \A q \in Bound(s) :
             parameters[q] = At(s) /\ slot[q] = s /\ q \notin lost
        /\ \A s \in Slot : Bound(s) # {} => delay_slot_index[At(s)] = s
        /\ \A q \in Param \ lost : IF slot[q] = Plain THEN parameters[q] = Plain
                                                      ELSE q \in Bound(slot[q])
        /\ \A q \in lost : parameters[q] # Plain
    BY <2>1 DEF DelayInv, InStep
  <2>3. p \notin lost
    BY <1>1, <2>1, RemovedLists
  <2>4. \A s : At(s)' = At(s)
    BY <1>1 DEF At
  <2>5. \A q \in Param : slot[q] # Plain => slot[q] \in Slot
    BY ObjectsAre DEF DelayInv, TypeOK
  <2>6. \A s \in Slot : \A q \in Bound(s)' :
             parameters[q] = At(s)' /\ slot[q] = s /\ q \notin lost'
    BY <1>1, <1>2, <2>2, <2>4
  <2>7. \A s \in Slot : Bound(s)' # {} => delay_slot_index[At(s)'] = s
    BY <1>2, <2>2, <2>4
  <2>8. \A q \in Param \ lost' : slot[q] = Plain => parameters[q] = Plain
    BY <1>1, <2>2
  <2>9. ASSUME NEW q \in Param \ lost', slot[q] # Plain
        PROVE  \A s : s = slot[q] => q \in Bound(s)'
    <3>1. q \in Param \ lost /\ slot[q] \in Slot /\ q \in Bound(slot[q])
      BY <1>1, <2>2, <2>5, <2>9
    <3>2. q # p
      <4>1. ASSUME q = p PROVE parameters[p] # Plain
        BY <3>1, <4>1 DEF DelayInv, Lists
      <4> QED
        BY <1>1, <4>1
    <3> QED
      BY <1>2, <3>1, <3>2
  <2>10. \A q \in lost' : parameters[q] # Plain
    BY <1>1, <2>2
  <2> QED
    BY <1>1, <2>6, <2>7, <2>8, <2>9, <2>10 DEF InStep
<1> QED
  BY <1>3, <1>4, <1>5, <1>6 DEF DelayInv

\* ownAgeDelay
LEMMA AgeKeeps ==
  ASSUME DelayInv, Age
  PROVE  DelayInv'
<1>t. PICK t : t = (index + 1) % Count
  OBVIOUS
<1> DEFINE Its(p) == {i \in Slot : p \in Bound(i)}
<1>1. /\ index' = t
      /\ parameters' = [p \in Param |-> IF Its(p) = {} THEN parameters[p]
                                        ELSE (t + (CHOOSE i \in Its(p) : TRUE)) % Count]
      /\ delay_slot_index' = SlotsAfter(t)
      /\ aged' = TRUE
      /\ UNCHANGED <<set, slot, late, lost>>
  BY <1>t DEF Age, Reassigned
<1>2. t \in Slot
  <2>1. Count \in Nat \ {0} /\ index \in 0 .. Count - 1
    BY Turns DEF DelayInv, TypeOK, Slot
  <2>2. CASE Count = 1
    <3>1. (index + 1) % Count \in 0 .. Count - 1
      BY <2>1
    <3> QED
      BY <1>t, <3>1 DEF Slot
  <2>3. CASE Count # 1
    <3>1. 1 \in Slot
      BY <2>1, <2>3 DEF Slot
    <3> QED
      BY <1>t, <3>1, Turns DEF DelayInv, TypeOK
  <2> QED
    BY <2>2, <2>3
<1>3. \A s : Bound(s)' = Bound(s)
  BY <1>1 DEF Bound
<1>4. \A s \in Slot : \A p \in Bound(s) : p \in Param /\ parameters'[p] = (t + s) % Count
  <2>1. ASSUME NEW s \in Slot, NEW p \in Bound(s)
        PROVE  p \in Param /\ parameters'[p] = (t + s) % Count
    <3>1. p \in Param
      BY BoundTyped DEF DelayInv
    <3>2. Its(p) = {s}
      BY <3>1 DEF DelayInv, Lists
    <3> QED
      BY <1>1, <3>1, <3>2
  <2> QED
    BY <2>1
<1>5. \A p \in Param : (\A s \in Slot : p \notin Bound(s)) => parameters'[p] = parameters[p]
  BY <1>1
<1>6. \A s \in Slot : (t + s) % Count \in Slot
  BY <1>2, Turns
<1>7. /\ delay_slot_index' \in [Slot -> Slot]
      /\ \A s \in Slot : Bound(s) # {} => delay_slot_index'[(t + s) % Count] = s
  <2>1. ASSUME NEW v \in Slot
        PROVE  \E s \in Slot : /\ (t + s) % Count = v
                               /\ s = CHOOSE u \in Slot : (t + u) % Count = v
                               /\ delay_slot_index'[v] =
                                    IF Bound(s) = {} THEN delay_slot_index[v] ELSE s
    <3>1. \E u \in Slot : (t + u) % Count = v
      BY <1>2, OneSlotEach
    <3>2. PICK s : s = CHOOSE u \in Slot : (t + u) % Count = v
      OBVIOUS
    <3>3. s \in Slot /\ (t + s) % Count = v
      BY <3>1, <3>2
    <3> QED
      BY <1>1, <3>2, <3>3 DEF SlotsAfter
  <2>2. \A v \in Slot : delay_slot_index'[v] \in Slot
    BY <2>1 DEF DelayInv, TypeOK
  <2>3. delay_slot_index' \in [Slot -> Slot]
    BY <1>1, <2>2 DEF SlotsAfter
  <2>4. ASSUME NEW s \in Slot, Bound(s) # {}
        PROVE  delay_slot_index'[(t + s) % Count] = s
    <3>1. PICK v \in Slot : v = (t + s) % Count
      BY <1>6
    <3>2. PICK u \in Slot : /\ (t + u) % Count = v
                            /\ delay_slot_index'[v] = IF Bound(u) = {} THEN delay_slot_index[v] ELSE u
      BY <2>1
    <3>3. u = s
      BY <1>2, <3>1, <3>2, OneSlotEach
    <3> QED
      BY <2>4, <3>1, <3>2, <3>3
  <2> QED
    BY <2>3, <2>4
<1> HIDE DEF Its
<1>8. parameters' \in [Param -> Object]
  <2>1. ASSUME NEW p \in Param PROVE parameters'[p] \in Object
    <3>1. CASE \E s \in Slot : p \in Bound(s)
      BY <1>4, <1>6, <3>1, ObjectsAre
    <3>2. CASE ~\E s \in Slot : p \in Bound(s)
      BY <1>5, <3>2 DEF DelayInv, TypeOK
    <3> QED
      BY <3>1, <3>2
  <2> QED
    BY <1>1, <2>1
<1>9. TypeOK'
  BY <1>1, <1>2, <1>7, <1>8 DEF DelayInv, TypeOK
<1>10. Lists'
  <2>1. \A s \in Slot : \A p \in Bound(s) : parameters'[p] # Plain
    BY <1>4, <1>6, ObjectsAre
  <2> QED
    BY <1>3, <2>1 DEF DelayInv, Lists
<1>11. Unaged'
  BY <1>1 DEF Unaged
<1>12. InStep'
  <2>1. SUFFICES ASSUME ~late PROVE InStep'
    BY <1>1 DEF InStep
  <2>2. /\ \A s \in Slot : \A q \in Bound(s) : slot[q] = s /\ q \notin lost
        /\ \A q \in Param \ lost : IF slot[q] = Plain THEN parameters[q] = Plain
                                                      ELSE q \in Bound(slot[q])
        /\ \A q \in lost : parameters[q] # Plain
    BY <2>1 DEF DelayInv, InStep
  <2>3. \A s : At(s)' = (t + s) % Count
    BY <1>1 DEF At
  <2>4. \A s \in Slot : \A q \in Bound(s) :
           parameters'[q] = At(s)' /\ slot[q] = s /\ q \notin lost
    BY <1>4, <2>2, <2>3
  <2>5. \A s \in Slot : Bound(s) # {} => delay_slot_index'[At(s)'] = s
    BY <1>7, <2>3
  <2>6. ASSUME NEW q \in Param \ lost, slot[q] = Plain PROVE parameters'[q] = Plain
    <3>1. \A s \in Slot : q \notin Bound(s)
      BY <2>2, <2>6, ObjectsAre
    <3> QED
      BY <1>5, <2>2, <2>6, <3>1
  <2>7. \A q \in Param \ lost : slot[q] # Plain => q \in Bound(slot[q])
    BY <2>2
  <2>8. ASSUME NEW q \in lost PROVE parameters'[q] # Plain
    <3>1. q \in Param /\ \A s \in Slot : q \notin Bound(s)
      BY <2>2 DEF DelayInv, TypeOK
    <3> QED
      BY <1>5, <2>2, <3>1
  <2>9. \A q \in Param \ lost : slot'[q] # Plain => q \in Bound(slot[q])'
    BY <1>1, <1>3, <2>7
  <2> QED
    BY <1>1, <1>3, <2>4, <2>5, <2>6, <2>8, <2>9 DEF InStep
<1> QED
  BY <1>9, <1>10, <1>11, <1>12 DEF DelayInv

\* Every call on a delay or a parameter bound to it keeps the invariant.
LEMMA DelayKeeps ==
  ASSUME DelayInv, [Next]_vars
  PROVE  DelayInv'
<1>1. CASE BindAny
  BY <1>1, BindKeeps DEF BindAny
<1>2. CASE BindAnyFails
  BY <1>2, BindFailsKeeps DEF BindAnyFails
<1>3. CASE UnbindAny
  BY <1>3, UnbindKeeps DEF UnbindAny
<1>4. CASE Age
  BY <1>4, AgeKeeps
<1>5. CASE UNCHANGED vars
  <2>1. /\ UNCHANGED <<index, set, delay_slot_index, parameters, slot, aged, late, lost>>
    BY <1>5 DEF vars
  <2>2. \A s : Bound(s)' = Bound(s) /\ At(s)' = At(s)
    BY <2>1 DEF Bound, At
  <2>3. TypeOK' /\ Lists' /\ Unaged'
    BY <2>1, <2>2 DEF DelayInv, TypeOK, Lists, Unaged
  <2>4. InStep'
    BY <2>1, <2>2 DEF DelayInv, InStep
  <2> QED
    BY <2>3, <2>4 DEF DelayInv
<1> QED
  BY <1>1, <1>2, <1>3, <1>4, <1>5 DEF Next

\* What the invariant says of the properties that are checked.
LEMMA DelaySays ==
  ASSUME DelayInv
  PROVE  TypeOK /\ AssociationsFindable /\ FollowsSlot
<1>1. OneAssociation
  <2>1. ASSUME NEW p \in Param PROVE Cardinality({s \in Slot : p \in Bound(s)}) <= 1
    <3>1. CASE \A s \in Slot : p \notin Bound(s)
      <4>1. {s \in Slot : p \in Bound(s)} = {}
        BY <3>1
      <4> QED
        BY <4>1, FS_EmptySet
    <3>2. CASE \E s \in Slot : p \in Bound(s)
      <4>1. PICK r \in Slot : p \in Bound(r)
        BY <3>2
      <4>2. {s \in Slot : p \in Bound(s)} = {r}
        BY <4>1 DEF DelayInv, Lists
      <4>3. Cardinality({r}) = 1
        BY FS_Singleton
      <4> QED
        BY <4>2, <4>3
    <3> QED
      BY <3>1, <3>2
  <2> QED
    BY <2>1 DEF OneAssociation
<1>2. FollowsSlot
  <2>1. ASSUME ~late, NEW p \in Param \ lost, slot[p] # Plain
        PROVE  parameters[p] = At(slot[p])
    <3>1. slot[p] \in Slot /\ p \in Bound(slot[p])
      BY <2>1, ObjectsAre DEF DelayInv, InStep, TypeOK
    <3> QED
      BY <2>1, <3>1 DEF DelayInv, InStep
  <2> QED
    BY <2>1 DEF FollowsSlot
<1>3. RemovalFindsParameter
  <2>1. ASSUME ~late, NEW p \in Param \ lost, parameters[p] # Plain
        PROVE  p \in Bound(delay_slot_index[parameters[p]])
    <3>1. slot[p] # Plain
      BY <2>1 DEF DelayInv, InStep
    <3>2. slot[p] \in Slot /\ p \in Bound(slot[p])
      BY <2>1, <3>1, ObjectsAre DEF DelayInv, InStep, TypeOK
    <3>3. parameters[p] = At(slot[p]) /\ delay_slot_index[At(slot[p])] = slot[p]
      BY <2>1, <3>2 DEF DelayInv, InStep
    <3> QED
      BY <3>2, <3>3
  <2> QED
    BY <2>1 DEF RemovalFindsParameter, Removable
<1> QED
  BY <1>1, <1>2, <1>3 DEF DelayInv, AssociationsFindable

\* vxSetParameterByIndex and ownAgeDelay keep the invariant.
THEOREM DelayInvariance == ObjectsSpec => []DelayInv
<1>1. ObjectsInit => Init
  BY DEF ObjectsInit
<1>2. [ObjectsNext]_objectsVars => [Next]_vars
  BY DEF ObjectsNext, objectsVars
<1>3. DelayInv /\ [Next]_vars => DelayInv'
  BY DelayKeeps
<1> QED
  BY <1>1, <1>2, <1>3, DelayInit, PTL DEF ObjectsSpec

\* ownRemoveAssociationToDelay: a parameter is listed in one slot at most, and the object it
\* holds names that slot, if no parameter is bound after an ageing.
THEOREM AssociationSoundness == ObjectsSpec => []AssociationsFindable
<1>1. DelayInv => AssociationsFindable
  BY DelaySays
<1> QED
  BY <1>1, DelayInvariance, PTL

\* ownAgeDelay: however often the delay is aged, a bound parameter holds the object of its
\* slot, if no parameter is bound after an ageing.
THEOREM SlotSoundness == ObjectsSpec => []FollowsSlot
<1>1. DelayInv => FollowsSlot
  BY DelaySays
<1> QED
  BY <1>1, DelayInvariance, PTL
=================================================================================
