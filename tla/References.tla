------------------------------ MODULE References ------------------------------
(* Objects, the references to them and the context's table of references:      *)
(* vx_reference.c and vx_context.c.  A thread has external references; an      *)
(* object that uses another one, as a graph its nodes and a node its           *)
(* parameters, has an internal reference to it, which its destructor releases. *)
(* The last vxReleaseContext releases what the application forgot.             *)
EXTENDS Integers, Sequences, FiniteSetsExt

CONSTANTS Thread, NoThread, Object, NoObject,
          Used,             \* per object: the objects it may use
          TableSize,        \* TIVX_CONTEXT_MAX_REFERENCES
          MaxHeld           \* bound: references of a thread to an object

VARIABLES
    magic,                  \* the objects that are valid: TIVX_MAGIC
    internal_count, external_count,
    reftable, num_references,
    uses,                   \* per object: the object it has an internal reference to
    calls,                  \* per thread: the calls it is in, the innermost last
    collect                 \* the thread in vxReleaseContext, its place in the table

\* History: the references that the application has.
VARIABLES held,             \* per thread and object
          held_context      \* the threads that have a reference to the context

vars == <<magic, internal_count, external_count, reftable, num_references, uses, calls,
          collect, held, held_context>>

Index == 1 .. TableSize
InTable(o) == \E i \in Index : reftable[i] = o
\* The application makes calls with a context, and with objects it refers to.
May(t) == calls[t] = <<>> /\ t \in held_context
Has(t, o) == held[t][o] > 0
\* A call on its way: ownReleaseReferenceInt, or ownNodeSetParameter for a value.
Release(o, kind) == [at |-> "decrement", obj |-> o, kind |-> kind, value |-> NoObject, result |-> 0]
SetValue(o, v) == [at |-> "set", obj |-> o, kind |-> "internal", value |-> v, result |-> 0]
Call(t) == calls[t][Len(calls[t])]
In(t, at) == calls[t] # <<>> /\ Call(t).at = at
Outer(t) == SubSeq(calls[t], 1, Len(calls[t]) - 1)

\* Faulty variants, for the mutants of the properties.
IsLast_CountedAgain(t) == internal_count[Call(t).obj] + external_count[Call(t).obj] = 0
Remaining_External(i, e) == e
CountToCollect_All(o) == external_count[o]
ToRelease_Nothing(o) == <<>>

-----------------------------------------------------------------------------

\* No context yet, and all of the memory for objects is free.
Init ==
    /\ magic = {}
    /\ internal_count = [o \in Object |-> 0] /\ external_count = [o \in Object |-> 0]
    /\ reftable = [i \in Index |-> NoObject] /\ num_references = 0
    /\ uses = [o \in Object |-> NoObject]
    /\ calls = [t \in Thread |-> <<>>]
    /\ collect = [thread |-> NoThread, at |-> 1]
    /\ held = [t \in Thread |-> [o \in Object |-> 0]] /\ held_context = {}

\* vxCreateContext: the first one makes the context, under the system lock.
CreateContext(t) ==
    /\ collect.thread = NoThread /\ calls[t] = <<>> /\ t \notin held_context
    /\ held_context' = held_context \cup {t}
    /\ IF held_context = {}
       THEN reftable' = [i \in Index |-> NoObject] /\ num_references' = 0
       ELSE UNCHANGED <<reftable, num_references>>
    /\ UNCHANGED <<magic, internal_count, external_count, uses, calls, collect, held>>

\* ownCreateReference, with ownInitReference and ownAddReferenceToContext.
Create(t, o) ==
    /\ May(t) /\ o \notin magic
    /\ \E i \in Index : reftable[i] = NoObject
    /\ magic' = magic \cup {o}
    /\ internal_count' = [internal_count EXCEPT ![o] = 0]
    /\ external_count' = [external_count EXCEPT ![o] = 1]
    /\ reftable' = [reftable EXCEPT ![Min({i \in Index : reftable[i] = NoObject})] = o]
    /\ num_references' = num_references + 1
    /\ held' = [held EXCEPT ![t][o] = @ + 1]
    /\ UNCHANGED <<uses, calls, collect, held_context>>

\* vxRetainReference; the application may hand the reference to another thread.
Retain(t, u, o) ==
    /\ May(t) /\ Has(t, o) /\ u \in held_context /\ held[u][o] < MaxHeld
    /\ external_count' = [external_count EXCEPT ![o] = @ + 1]
    /\ held' = [held EXCEPT ![u][o] = @ + 1]
    /\ UNCHANGED <<magic, internal_count, reftable, num_references, uses, calls, collect,
                   held_context>>

ToRelease(o) == IF uses[o] = NoObject THEN <<>> ELSE <<Release(uses[o], "internal")>>

\* ownNodeSetParameter releases the old value before it takes the new one.  One
\* thread at a time sets the parameters of a node.
SetParameter(t, o, v) ==
    /\ May(t) /\ Has(t, o) /\ Has(t, v) /\ v \in Used[o]
    /\ \A u \in Thread : \A k \in DOMAIN calls[u] : calls[u][k].at = "set" => calls[u][k].obj # o
    /\ calls' = [calls EXCEPT ![t] = <<SetValue(o, v)>> \o ToRelease(o)]
    /\ uses' = [uses EXCEPT ![o] = NoObject]
    /\ UNCHANGED <<magic, internal_count, external_count, reftable, num_references, collect,
                   held, held_context>>
TakeValue(t) ==
    /\ In(t, "set")
    /\ internal_count' = [internal_count EXCEPT ![Call(t).value] = @ + 1]
    /\ uses' = [uses EXCEPT ![Call(t).obj] = Call(t).value]
    /\ calls' = [calls EXCEPT ![t] = Outer(t)]
    /\ UNCHANGED <<magic, external_count, reftable, num_references, collect, held,
                   held_context>>

\* vxReleaseReference and its like: the thread gives its reference up ...
ReleaseReference(t, o) ==
    /\ May(t) /\ Has(t, o)
    /\ held' = [held EXCEPT ![t][o] = @ - 1]
    /\ calls' = [calls EXCEPT ![t] = <<Release(o, "external")>>]
    /\ UNCHANGED <<magic, internal_count, external_count, reftable, num_references, uses,
                   collect, held_context>>

\* ... ownDecrementReference, which counts under the lock of the object ...
Remaining(i, e) == i + e
Less(counts, o) == [counts EXCEPT ![o] = IF @ = 0 THEN 0 ELSE @ - 1]
Decrement(t) ==
    LET o == Call(t).obj
    IN  /\ In(t, "decrement") /\ o \in magic
        /\ IF Call(t).kind = "internal"
           THEN internal_count' = Less(internal_count, o) /\ UNCHANGED external_count
           ELSE external_count' = Less(external_count, o) /\ UNCHANGED internal_count
        /\ calls' = [calls EXCEPT ![t] = Append(Outer(t),
                        [Call(t) EXCEPT !.at = "decremented",
                                        !.result = Remaining(internal_count'[o], external_count'[o])])]
        /\ UNCHANGED <<magic, reftable, num_references, uses, collect, held, held_context>>

\* ... and returns what is left.
IsLast(t) == Call(t).result = 0
NotLast(t) ==
    /\ In(t, "decremented") /\ ~IsLast(t)
    /\ calls' = [calls EXCEPT ![t] = Outer(t)]
    /\ UNCHANGED <<magic, internal_count, external_count, reftable, num_references, uses,
                   collect, held, held_context>>

\* ownRemoveReferenceFromContext
RemoveFromTable(t) ==
    /\ In(t, "decremented") /\ IsLast(t)
    /\ \E i \in Index : /\ reftable[i] = Call(t).obj
                        /\ reftable' = [reftable EXCEPT ![i] = NoObject]
    /\ num_references' = num_references - 1
    /\ calls' = [calls EXCEPT ![t] = Append(Outer(t), [Call(t) EXCEPT !.at = "removed"])]
    /\ UNCHANGED <<magic, internal_count, external_count, uses, collect, held, held_context>>

\* The destructor releases what the object uses, and the object is freed.
Destruct(t) ==
    /\ In(t, "removed") /\ ToRelease(Call(t).obj) # <<>>
    /\ calls' = [calls EXCEPT ![t] = @ \o ToRelease(Call(t).obj)]
    /\ uses' = [uses EXCEPT ![Call(t).obj] = NoObject]
    /\ UNCHANGED <<magic, internal_count, external_count, reftable, num_references, collect,
                   held, held_context>>
Free(t) ==
    /\ In(t, "removed") /\ ToRelease(Call(t).obj) = <<>>
    /\ magic' = magic \ {Call(t).obj}
    /\ calls' = [calls EXCEPT ![t] = Outer(t)]
    /\ UNCHANGED <<internal_count, external_count, reftable, num_references, uses, collect,
                   held, held_context>>

\* vxReleaseContext; the last reference to the context starts the collection,
\* with the system lock held to its end.
ReleaseContext(t) ==
    /\ May(t) /\ collect.thread = NoThread
    /\ held_context' = held_context \ {t}
    /\ collect' = [collect EXCEPT !.thread = IF held_context = {t} THEN t ELSE NoThread]
    /\ UNCHANGED <<magic, internal_count, external_count, reftable, num_references, uses,
                   calls, held>>

\* One entry: its external references are released, the last of them by
\* ownReleaseReferenceInt.
CountToCollect(o) == 1
Collect(t) ==
    LET o == reftable[collect.at]
    IN  /\ collect.thread = t /\ calls[t] = <<>> /\ collect.at \in Index
        /\ collect' = [collect EXCEPT !.at = @ + 1]
        /\ IF o # NoObject /\ external_count[o] > 0
           THEN /\ external_count' = [external_count EXCEPT ![o] = CountToCollect(o)]
                /\ calls' = [calls EXCEPT ![t] = <<Release(o, "external")>>]
                /\ held' = [u \in Thread |-> [held[u] EXCEPT ![o] = 0]]
           ELSE UNCHANGED <<external_count, calls, held>>
        /\ UNCHANGED <<magic, internal_count, reftable, num_references, uses, held_context>>
Collected(t) == collect.thread = t /\ calls[t] = <<>> /\ collect.at = TableSize + 1
EndContext(t) ==
    /\ Collected(t)
    /\ collect' = [thread |-> NoThread, at |-> 1]
    /\ UNCHANGED <<magic, internal_count, external_count, reftable, num_references, uses,
                   calls, held, held_context>>

ThreadNext(t) ==
    \/ CreateContext(t) \/ ReleaseContext(t) \/ Collect(t) \/ EndContext(t)
    \/ \E o \in Object : \/ Create(t, o) \/ ReleaseReference(t, o)
                         \/ \E u \in Thread : Retain(t, u, o)
                         \/ \E v \in Object : SetParameter(t, o, v)
    \/ TakeValue(t) \/ Decrement(t) \/ NotLast(t) \/ RemoveFromTable(t) \/ Destruct(t)
    \/ Free(t)
Next == \E t \in Thread : ThreadNext(t)
Spec == Init /\ [][Next]_vars

-----------------------------------------------------------------------------

CallRecord ==
    [at : {"set", "decrement", "decremented", "removed"}, obj : Object,
     kind : {"internal", "external"}, value : Object \cup {NoObject}, result : Nat]
TypeOK ==
    /\ magic \subseteq Object
    /\ internal_count \in [Object -> Nat] /\ external_count \in [Object -> Nat]
    /\ reftable \in [Index -> Object \cup {NoObject}]
    /\ num_references = Cardinality({i \in Index : reftable[i] # NoObject})
    /\ uses \in [Object -> Object \cup {NoObject}]
    /\ calls \in [Thread -> Seq(CallRecord)]
    /\ collect \in [thread : Thread \cup {NoThread}, at : 1 .. TableSize + 1]
    /\ held \in [Thread -> [Object -> 0 .. MaxHeld]] /\ held_context \subseteq Thread

\* The calls, of all threads, that are at one of the steps for an object.
Places == UNION {{t} \X DOMAIN calls[t] : t \in Thread}
At(c) == calls[c[1]][c[2]]
CallsAt(steps, o) == {c \in Places : At(c).at \in steps /\ At(c).obj = o}
\* Those that go on to free it, and those that are yet to count a reference less.
Final(o) ==
    {c \in CallsAt({"decremented", "removed"}, o) : At(c).at = "removed" \/ At(c).result = 0}
Pending(kind, o) == {c \in CallsAt({"decrement"}, o) : At(c).kind = kind}
\* The references to an object that the application has: numbered, per thread.
Refs(o) == {r \in Thread \X (1 .. MaxHeld) : r[2] <= held[r[1]][o]}
\* The objects that have an internal reference to an object.
Users(o) == {n \in magic : uses[n] = o}

\* However the threads' calls interleave, an object that the application or
\* another object refers to is valid and in the table.
LiveWhileUsed ==
    \A o \in Object :
        Users(o) # {} \/ (\E t \in Thread : Has(t, o)) => o \in magic /\ InTable(o)

\* One call at most goes on to remove, destruct and free an object: two that
\* release the last references at the same time do not both do it.
OneReleaser == \A o \in Object : Cardinality(Final(o)) <= 1

\* The counts of an object are the references there are to it, with those that
\* a release has given up and not yet counted.
CountsMatchOwners ==
    \A o \in magic :
        /\ internal_count[o] = Cardinality(Users(o)) + Cardinality(Pending("internal", o))
        /\ external_count[o] = Cardinality(Refs(o)) + Cardinality(Pending("external", o))

\* "By now, all external and internal references should be removed"
\* (vx_context.c): whatever the application forgot to release.
AllCollected == \A t \in Thread : Collected(t) => magic = {} /\ num_references = 0
=============================================================================
