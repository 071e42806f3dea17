-------------------------------- MODULE Delay --------------------------------
(* A delay of vx_delay.c: a ring of objects, and for each slot the node        *)
(* parameters that are bound to it.  Ageing turns the ring and gives every     *)
(* bound parameter the object that is now in its slot.  A parameter is bound   *)
(* when vxSetParameterByIndex gives it an object of the delay.                 *)
EXTENDS Integers, FiniteSets

CONSTANTS Param, NoParam,
          Count,        \* slots of the delay
          PoolSize      \* TIVX_DELAY_MAX_PRM_OBJECT

ASSUME DelayAssumption == Count \in Nat \ {0} /\ PoolSize \in Nat /\ NoParam \notin Param

VARIABLES
    index,              \* index of the delay
    set,                \* per slot: the head parameter and the ones from the pool
    delay_slot_index,   \* per object of the delay: the slot it believes to be in
    parameters          \* per parameter: node->parameters[]

\* History
VARIABLES slot,         \* per parameter: the slot the application bound it to
          aged, late,   \* the delay was aged; a parameter was bound after that
          lost          \* parameters of calls that failed for want of a pool entry

vars == <<index, set, delay_slot_index, parameters, slot, aged, late, lost>>

Slot == 0 .. Count - 1      \* slot s is index -s of the interface
Plain == Count              \* an object that is not of the delay
Object == 0 .. Count

\* vxGetReferenceFromDelay: the object in slot s.
At(s) == (index + s) % Count
SlotOf(v) == CHOOSE s \in Slot : At(s) = v
Bound(s) == (IF set[s].head = NoParam THEN {} ELSE {set[s].head}) \cup set[s].next

\* Faulty variants, for the mutants of the properties.
Reassigned_HeadOnly(i) == {p \in Param : set[i].head = p}
Removable_Always(p) == TRUE
SlotsAfter_Kept(turned) == delay_slot_index
SlotsAfter_Unwrapped(turned) ==
    [v \in Slot |-> IF Bound((v - turned + Count) % Count) = {} THEN delay_slot_index[v]
                    ELSE v - turned]

-----------------------------------------------------------------------------

\* vxCreateDelay for the delay, node creation for parameters that hold a plain object.
Init ==
    /\ index = 0
    /\ set = [s \in Slot |-> [head |-> NoParam, next |-> {}]]
    /\ delay_slot_index = [v \in Slot |-> v]
    /\ parameters = [p \in Param |-> Plain]
    /\ slot = [p \in Param |-> Plain]
    /\ aged = FALSE /\ late = FALSE /\ lost = {}

\* ownRemoveAssociationToDelay looks only in the slot that the object names.
Removable(p) ==
    parameters[p] # Plain => p \in Bound(delay_slot_index[parameters[p]])
Disassociated(p) ==
    [set EXCEPT ![delay_slot_index[parameters[p]]] =
        [head |-> IF @.head = p THEN NoParam ELSE @.head, next |-> @.next \ {p}]]
Removed(p) == IF parameters[p] = Plain THEN set ELSE Disassociated(p)

\* ownAllocDelayPrm: the head of a slot is not from the pool.
PoolUsed(sets) == Cardinality({b \in Slot \X Param : b[2] \in sets[b[1]].next})
\* ownAddAssociationToDelay adds the index of the delay to what the object says.
SlotToBind(v) == (index + delay_slot_index[v]) % Count
HasRoom(sets, s) == sets[s].head = NoParam \/ PoolUsed(sets) < PoolSize
Associated(sets, s, p) ==
    IF sets[s].head = NoParam THEN [sets EXCEPT ![s].head = p]
                              ELSE [sets EXCEPT ![s].next = @ \cup {p}]

\* vxSetParameterByIndex with an object that is not of the delay.
Unbind(p) ==
    /\ Removable(p)
    /\ set' = Removed(p)
    /\ parameters' = [parameters EXCEPT ![p] = Plain]
    /\ slot' = [slot EXCEPT ![p] = Plain]
    /\ UNCHANGED <<index, delay_slot_index, aged, late, lost>>

\* vxSetParameterByIndex with an object of the delay.
Bind(p, v) ==
    /\ Removable(p)
    /\ HasRoom(Removed(p), SlotToBind(v))
    /\ set' = Associated(Removed(p), SlotToBind(v), p)
    /\ parameters' = [parameters EXCEPT ![p] = v]
    /\ slot' = [slot EXCEPT ![p] = SlotOf(v)]
    /\ late' = (late \/ aged)
    /\ UNCHANGED <<index, delay_slot_index, aged, lost>>

\* The pool is empty: the old association is gone and the old object stays.
BindFails(p, v) ==
    /\ Removable(p)
    /\ ~HasRoom(Removed(p), SlotToBind(v))
    /\ set' = Removed(p)
    /\ lost' = IF parameters[p] = Plain THEN lost ELSE lost \cup {p}
    /\ UNCHANGED <<index, delay_slot_index, parameters, slot, aged, late>>

\* ownAgeDelay: only an object that a parameter gets learns its new slot.
Reassigned(i) == Bound(i)
SlotsAfter(turned) ==
    [v \in Slot |-> LET i == CHOOSE s \in Slot : (turned + s) % Count = v
                    IN  IF Bound(i) = {} THEN delay_slot_index[v] ELSE i]
Age ==
    LET turned == (index + 1) % Count
        Its(p) == {i \in Slot : p \in Reassigned(i)}
    IN  /\ index' = turned
        /\ parameters' = [p \in Param |->
                            IF Its(p) = {} THEN parameters[p]
                            ELSE (turned + (CHOOSE i \in Its(p) : TRUE)) % Count]
        /\ delay_slot_index' = SlotsAfter(turned)
        /\ aged' = TRUE
        /\ UNCHANGED <<set, slot, late, lost>>

BindAny == \E p \in Param, v \in Slot : Bind(p, v)
BindAnyFails == \E p \in Param, v \in Slot : BindFails(p, v)
UnbindAny == \E p \in Param : Unbind(p)
Next == BindAny \/ BindAnyFails \/ UnbindAny \/ Age
Spec == Init /\ [][Next]_vars

-----------------------------------------------------------------------------

TypeOK ==
    /\ index \in Slot
    /\ set \in [Slot -> [head : Param \cup {NoParam}, next : SUBSET Param]]
    /\ delay_slot_index \in [Slot -> Slot]
    /\ parameters \in [Param -> Object] /\ slot \in [Param -> Object]
    /\ aged \in BOOLEAN /\ late \in BOOLEAN /\ lost \subseteq Param

\* Whatever the order of binding, rebinding, failed calls and ageing, no
\* parameter is in the lists of two slots: ownAgeDelay would set it twice and
\* the later slot would win.
OneAssociation ==
    \A p \in Param : Cardinality({s \in Slot : p \in Bound(s)}) <= 1

\* While parameters are bound before the first ageing only, a bound parameter
\* holds the object that vxGetReferenceFromDelay gives for its slot, however
\* often the delay is aged and parameters were rebound.
FollowsSlot ==
    ~late => \A p \in Param \ lost : slot[p] # Plain => parameters[p] = At(slot[p])

\* ... and the slot that its object names is the one that lists the parameter,
\* so that the next vxSetParameterByIndex finds the association it must remove.
RemovalFindsParameter ==
    ~late => \A p \in Param \ lost : Removable(p)

\* "Once the delay has been aged, it updates the reference in any associated
\* nodes" (vx_api.h): whenever the parameter was bound.  Checked to fail:
\* ownAddAssociationToDelay adds the index of the delay to the slot index of an
\* object, which ownAgeDelay keeps relative to that index, or not at all.
BoundWhenever ==
    \A p \in Param \ lost : slot[p] # Plain => parameters[p] = At(slot[p])
=============================================================================
