--------------------------- MODULE References_proofs ---------------------------
(* The references to objects, for every number of threads and objects, every   *)
(* size of the table and every way objects use one another without a cycle: the *)
(* counts of an object are the references there are to it, what is referred to  *)
(* is valid and in the table, one call at most frees an object, and the last    *)
(* vxReleaseContext leaves nothing.  The parameters are assumed where a theorem *)
(* is stated, in ReferenceParameters: this module is instantiated.              *)
EXTENDS References, FiniteSetTheorems, SequenceTheorems, WellFoundedInduction, TLAPS

-----------------------------------------------------------------------------
(* The calls of the threads                                                 *)

\* What a call is at, for the properties.
IsPending(r, kind, o) == r.at = "decrement" /\ r.obj = o /\ r.kind = kind
IsFinal(r, o) == r.obj = o /\ (r.at = "removed" \/ (r.at = "decremented" /\ r.result = 0))

\* A thread makes a call, returns from one, or goes on in one.
Grown(c) == c \notin Places /\ Places' = Places \cup {c} /\ \A d \in Places : At(d)' = At(d)
Shrunk(c) ==
    c \in Places /\ Places' = Places \ {c} /\ \A d \in Places \ {c} : At(d)' = At(d)
GrownTwo(c, d) ==
    /\ c # d /\ c \notin Places /\ d \notin Places /\ Places' = Places \cup {c, d}
    /\ \A e \in Places : At(e)' = At(e)
TwoGrown(t, x, y) ==
    \E c, d : c[1] = t /\ GrownTwo(c, d) /\ At(c)' = x /\ At(d)' = y
Changed(c) == c \in Places /\ Places' = Places /\ \A d \in Places \ {c} : At(d)' = At(d)

CallsTyped == calls \in [Thread -> Seq(CallRecord)]

\* What a place of a call is.
LEMMA PlacesAre ==
  /\ \A c : c \in Places <=> c[1] \in Thread /\ c[2] \in DOMAIN calls[c[1]] /\ c = <<c[1], c[2]>>
  /\ \A c : c \in Places' <=> c[1] \in Thread /\ c[2] \in DOMAIN calls'[c[1]] /\ c = <<c[1], c[2]>>
BY DEF Places

\* A call on its way is a well-formed one, of a thread of the application.
LEMMA CallTyped ==
  ASSUME CallsTyped
  PROVE  /\ \A c \in Places : c[1] \in Thread /\ At(c) \in CallRecord /\ calls[c[1]] # <<>>
         /\ \A t \in Thread : calls[t] # <<>> => Call(t) \in CallRecord
BY DEF CallsTyped, Places, At, Call

\* A thread makes a call within its calls.
LEMMA PushCall ==
  ASSUME CallsTyped, NEW t \in Thread, NEW x \in CallRecord,
         calls' = [calls EXCEPT ![t] = Append(calls[t], x)]
  PROVE  CallsTyped' /\ \E c : c[1] = t /\ Grown(c) /\ At(c)' = x
<1> DEFINE c == <<t, Len(calls[t]) + 1>>
<1>1. /\ calls[t] \in Seq(CallRecord) /\ Len(calls[t]) \in Nat
      /\ DOMAIN calls[t] = 1 .. Len(calls[t])
  BY DEF CallsTyped
<1>2. CallsTyped'
  BY <1>1 DEF CallsTyped
<1>3. /\ calls'[t] = Append(calls[t], x)
      /\ DOMAIN calls'[t] = 1 .. Len(calls[t]) + 1
      /\ calls'[t][Len(calls[t]) + 1] = x
      /\ \A k \in 1 .. Len(calls[t]) : calls'[t][k] = calls[t][k]
      /\ \A u \in Thread \ {t} : calls'[u] = calls[u]
  BY <1>1 DEF CallsTyped
<1>4. PICK d : d = c
  OBVIOUS
<1>5. d[1] = t /\ d[2] = Len(calls[t]) + 1 /\ d = <<d[1], d[2]>>
  BY <1>4
<1> HIDE DEF c
<1>6. d \notin Places
  BY <1>1, <1>5, PlacesAre
<1>7. Places' = Places \cup {d}
  <2>1. ASSUME NEW e
        PROVE  e \in Places' <=> e \in Places \cup {d}
    <3>1. CASE e[1] = t
      BY <1>1, <1>3, <1>5, <3>1, PlacesAre
    <3>2. CASE e[1] # t
      BY <1>3, <1>5, <3>2, PlacesAre
    <3> QED
      BY <3>1, <3>2
  <2> QED
    BY <2>1
<1>8. ASSUME NEW e \in Places PROVE At(e)' = At(e)
  BY <1>1, <1>3, PlacesAre DEF At
<1>9. At(d)' = x
  BY <1>3, <1>5 DEF At
<1> QED
  BY <1>2, <1>5, <1>6, <1>7, <1>8, <1>9 DEF Grown

\* The calls around the innermost one.
LEMMA OuterIs ==
  ASSUME CallsTyped, NEW t \in Thread, calls[t] # <<>>
  PROVE  /\ Len(calls[t]) \in Nat \ {0} /\ Outer(t) \in Seq(CallRecord)
         /\ Len(Outer(t)) = Len(calls[t]) - 1
         /\ DOMAIN calls[t] = 1 .. Len(calls[t]) /\ DOMAIN Outer(t) = 1 .. Len(calls[t]) - 1
         /\ \A k \in 1 .. Len(calls[t]) - 1 : Outer(t)[k] = calls[t][k]
<1>1. calls[t] \in Seq(CallRecord) /\ Len(calls[t]) \in Nat \ {0}
  BY DEF CallsTyped
<1> DEFINE s == calls[t]
<1> HIDE DEF s
<1>2. s \in Seq(CallRecord) /\ Len(s) \in Nat \ {0}
  BY <1>1 DEF s
<1>3. /\ SubSeq(s, 1, Len(s) - 1) \in Seq(CallRecord)
      /\ Len(SubSeq(s, 1, Len(s) - 1)) = Len(s) - 1
      /\ \A k \in 1 .. Len(s) - 1 : SubSeq(s, 1, Len(s) - 1)[k] = s[k]
  <2>1. \A i \in 1 .. Len(s) - 1 : s[i] \in CallRecord
    BY <1>2
  <2> DEFINE n == Len(s) - 1
             q == SubSeq(s, 1, n)
  <2>2. n \in Int /\ 1 \in Int
    BY <1>2
  <2> HIDE DEF n
  <2>3. /\ q \in Seq(CallRecord) /\ Len(q) = IF 1 <= n THEN n - 1 + 1 ELSE 0
        /\ \A i \in 1 .. n - 1 + 1 : q[i] = s[1 + i - 1]
    BY <2>1, <2>2, SubSeqProperties DEF n
  <2> HIDE DEF q
  <2>4. Len(q) = n /\ \A i \in 1 .. n : q[i] = s[i]
    <3>1. n \in Nat /\ n - 1 + 1 = n
      BY <1>2 DEF n
    <3>2. Len(q) = n
      BY <2>3, <3>1
    <3>3. ASSUME NEW i \in 1 .. n PROVE q[i] = s[i]
      <4>1. 1 + i - 1 = i /\ i \in 1 .. n - 1 + 1
        BY <3>1
      <4>2. q[i] = s[1 + i - 1]
        BY <2>3, <4>1
      <4> QED
        BY <4>1, <4>2
    <3> QED
      BY <3>2, <3>3
  <2> QED
    BY <2>3, <2>4 DEF n, q
<1>4. Outer(t) = SubSeq(s, 1, Len(s) - 1)
  BY DEF Outer, s
<1> QED
  BY <1>2, <1>3, <1>4 DEF s

\* A thread returns from its innermost call.
LEMMA PopCall ==
  ASSUME CallsTyped, NEW t \in Thread, calls[t] # <<>>,
         calls' = [calls EXCEPT ![t] = Outer(t)]
  PROVE  CallsTyped' /\ \E c : c[1] = t /\ Shrunk(c) /\ At(c) = Call(t)
<1>1. CallsTyped'
  BY OuterIs DEF CallsTyped
<1>3. /\ calls'[t] = Outer(t) /\ \A u \in Thread \ {t} : calls'[u] = calls[u]
  BY DEF CallsTyped
<1>4. PICK d : d = <<t, Len(calls[t])>>
  OBVIOUS
<1>5. d[1] = t /\ d[2] = Len(calls[t]) /\ d = <<d[1], d[2]>>
  BY <1>4
<1>6. d \in Places /\ At(d) = Call(t)
  BY <1>5, OuterIs, PlacesAre DEF At, Call
<1>7. Places' = Places \ {d}
  <2>1. ASSUME NEW e
        PROVE  e \in Places' <=> e \in Places \ {d}
    <3>1. CASE e[1] = t
      BY <1>3, <1>5, <3>1, OuterIs, PlacesAre
    <3>2. CASE e[1] # t
      BY <1>3, <1>5, <3>2, PlacesAre
    <3> QED
      BY <3>1, <3>2
  <2> QED
    BY <2>1
<1>8. ASSUME NEW e \in Places \ {d} PROVE At(e)' = At(e)
  BY <1>3, <1>5, OuterIs, PlacesAre DEF At
<1> QED
  BY <1>1, <1>5, <1>6, <1>7, <1>8 DEF Shrunk

\* The innermost call of a thread goes on to its next step.
LEMMA ChangeCall ==
  ASSUME CallsTyped, NEW t \in Thread, calls[t] # <<>>, NEW x \in CallRecord,
         calls' = [calls EXCEPT ![t] = Append(Outer(t), x)]
  PROVE  CallsTyped' /\ \E c : c[1] = t /\ Changed(c) /\ At(c) = Call(t) /\ At(c)' = x
<1> DEFINE q == Append(Outer(t), x)
<1>1. /\ q \in Seq(CallRecord) /\ Len(q) = Len(calls[t]) /\ DOMAIN q = 1 .. Len(calls[t])
      /\ q[Len(calls[t])] = x
      /\ \A k \in 1 .. Len(calls[t]) - 1 : q[k] = calls[t][k]
  BY OuterIs
<1>2. CallsTyped'
  BY <1>1 DEF CallsTyped
<1>3. /\ calls'[t] = q /\ \A u \in Thread \ {t} : calls'[u] = calls[u]
  BY DEF CallsTyped
<1> HIDE DEF q
<1>4. PICK d : d = <<t, Len(calls[t])>>
  OBVIOUS
<1>5. d[1] = t /\ d[2] = Len(calls[t]) /\ d = <<d[1], d[2]>>
  BY <1>4
<1>6. d \in Places /\ At(d) = Call(t) /\ At(d)' = x
  BY <1>1, <1>3, <1>5, OuterIs, PlacesAre DEF At, Call
<1>7. Places' = Places
  <2>1. ASSUME NEW e
        PROVE  e \in Places' <=> e \in Places
    <3>1. CASE e[1] = t
      BY <1>1, <1>3, <1>5, <3>1, OuterIs, PlacesAre
    <3>2. CASE e[1] # t
      BY <1>3, <1>5, <3>2, PlacesAre
    <3> QED
      BY <3>1, <3>2
  <2> QED
    BY <2>1
<1>8. ASSUME NEW e \in Places \ {d} PROVE At(e)' = At(e)
  BY <1>1, <1>3, <1>5, OuterIs, PlacesAre DEF At
<1> QED
  BY <1>2, <1>5, <1>6, <1>7, <1>8 DEF Changed

\* A thread outside of the framework makes a call and another one within it, as
\* ownNodeSetParameter and the release of the old value.
LEMMA PushTwo ==
  ASSUME NEW t \in Thread, NEW x \in CallRecord, NEW y \in CallRecord,
         CallsTyped, calls[t] = <<>>,
         calls' = [calls EXCEPT ![t] = Append(Append(calls[t], x), y)]
  PROVE  /\ CallsTyped'
         /\ TwoGrown(t, x, y)
<1> DEFINE q == Append(Append(calls[t], x), y)
<1>0. /\ q \in Seq(CallRecord) /\ Len(q) = 2 /\ DOMAIN q = {1, 2} /\ q[1] = x /\ q[2] = y
      /\ DOMAIN calls[t] = {}
  <2>1. Append(calls[t], x) \in Seq(CallRecord) /\ Len(Append(calls[t], x)) = 1
        /\ Append(calls[t], x)[1] = x
    BY DEF CallsTyped
  <2>2. q \in Seq(CallRecord) /\ Len(q) = 2 /\ q[1] = x /\ q[2] = y
    BY <2>1
  <2>3. DOMAIN q = {1, 2}
    BY <2>2
  <2> QED
    BY <2>2, <2>3
<1> HIDE DEF q
<1>2. calls' = [calls EXCEPT ![t] = q]
  BY DEF q
<1>1. CallsTyped'
  BY <1>0, <1>2 DEF CallsTyped
<1>3. /\ calls'[t] = q /\ \A u \in Thread \ {t} : calls'[u] = calls[u]
      /\ DOMAIN calls[t] = {} /\ DOMAIN q = {1, 2}
  BY <1>0, <1>2 DEF CallsTyped
<1> DEFINE c == <<t, 1>>
           d == <<t, 2>>
<1>4. c \notin Places /\ d \notin Places /\ c # d
  BY <1>3, PlacesAre
<1>5. Places' = Places \cup {c, d}
  <2>1. ASSUME NEW e
        PROVE  e \in Places' <=> e \in Places \cup {c, d}
    <3>1. CASE e[1] = t
      BY <1>3, <3>1, PlacesAre
    <3>2. CASE e[1] # t
      BY <1>3, <3>2, PlacesAre
    <3> QED
      BY <3>1, <3>2
  <2> QED
    BY <2>1
<1>6. ASSUME NEW e \in Places PROVE At(e)' = At(e)
  BY <1>3, PlacesAre DEF At
<1>7. At(c)' = x /\ At(d)' = y
  BY <1>0, <1>3 DEF At
<1> QED
  BY <1>1, <1>4, <1>5, <1>6, <1>7 DEF GrownTwo, TwoGrown

Awaited(kind, o) == Cardinality(Pending(kind, o))

\* The releases that are yet to count, and the calls that go on to free an object, by
\* what their calls are at.
LEMMA PendingAre ==
  /\ \A kind, o : /\ Pending(kind, o) = {c \in Places : IsPending(At(c), kind, o)}
                  /\ Pending(kind, o)' = {c \in Places' : IsPending(At(c)', kind, o)}
  /\ \A o : /\ Final(o) = {c \in Places : IsFinal(At(c), o)}
            /\ Final(o)' = {c \in Places' : IsFinal(At(c)', o)}
BY DEF Pending, CallsAt, IsPending, Final, IsFinal

\* ... when a call is made,
LEMMA AfterGrown ==
  ASSUME NEW c, Grown(c)
  PROVE  /\ \A kind, o : Pending(kind, o)' = IF IsPending(At(c)', kind, o)
                                             THEN Pending(kind, o) \cup {c} ELSE Pending(kind, o)
         /\ \A o : Final(o)' = IF IsFinal(At(c)', o) THEN Final(o) \cup {c} ELSE Final(o)
BY PendingAre DEF Grown

\* ... when one returns,
LEMMA AfterShrunk ==
  ASSUME NEW c, Shrunk(c)
  PROVE  /\ \A kind, o : Pending(kind, o)' = Pending(kind, o) \ {c}
         /\ \A o : Final(o)' = Final(o) \ {c}
BY PendingAre DEF Shrunk

\* ... and when one goes on.
LEMMA AfterChanged ==
  ASSUME NEW c, Changed(c)
  PROVE  /\ \A kind, o : Pending(kind, o)' = (Pending(kind, o) \ {c}) \cup
                                  (IF IsPending(At(c)', kind, o) THEN {c} ELSE {})
         /\ \A o : Final(o)' = (Final(o) \ {c}) \cup (IF IsFinal(At(c)', o) THEN {c} ELSE {})
BY PendingAre DEF Changed

\* There are finitely many releases that are yet to count.
LEMMA PendingFinite ==
  ASSUME IsFiniteSet(Places)
  PROVE  \A kind, o : /\ IsFiniteSet(Pending(kind, o)) /\ Awaited(kind, o) \in Nat
                      /\ Awaited(kind, o) = 0 <=> Pending(kind, o) = {}
<1> SUFFICES ASSUME NEW kind, NEW o
             PROVE  /\ IsFiniteSet(Pending(kind, o)) /\ Awaited(kind, o) \in Nat
                    /\ Awaited(kind, o) = 0 <=> Pending(kind, o) = {}
  OBVIOUS
<1>1. Pending(kind, o) \in SUBSET Places
  BY PendingAre
<1>2. IsFiniteSet(Pending(kind, o))
  BY <1>1, FS_Subset
<1> QED
  BY <1>2, FS_CardinalityType, FS_EmptySet DEF Awaited

\* Their number, when a call is made: a call of ownReleaseReferenceInt is one more.
LEMMA CountGrown ==
  ASSUME IsFiniteSet(Places), NEW c, Grown(c)
  PROVE  /\ IsFiniteSet(Places')
         /\ \A kind, o : /\ ~IsPending(At(c)', kind, o) => Awaited(kind, o)' = Awaited(kind, o)
                         /\ IsPending(At(c)', kind, o) => Awaited(kind, o)' = Awaited(kind, o) + 1
<1>1. IsFiniteSet(Places')
  BY FS_AddElement DEF Grown
<1>2. ASSUME NEW kind, NEW o, ~IsPending(At(c)', kind, o)
      PROVE  Awaited(kind, o)' = Awaited(kind, o)
  BY <1>2, AfterGrown DEF Awaited
<1>3. ASSUME NEW kind, NEW o, IsPending(At(c)', kind, o)
      PROVE  Awaited(kind, o)' = Awaited(kind, o) + 1
  <2>1. Pending(kind, o)' = Pending(kind, o) \cup {c}
    BY <1>3, AfterGrown
  <2>2. c \notin Pending(kind, o)
    BY PendingAre DEF Grown
  <2>3. IsFiniteSet(Pending(kind, o))
    BY PendingFinite
  <2>4. Cardinality(Pending(kind, o) \cup {c}) = Cardinality(Pending(kind, o)) + 1
    BY <2>2, <2>3, FS_AddElement
  <2> QED
    BY <2>1, <2>4 DEF Awaited
<1> QED
  BY <1>1, <1>2, <1>3

\* Their number, when a call that has counted returns.
LEMMA CountShrunk ==
  ASSUME IsFiniteSet(Places), NEW c, Shrunk(c), At(c).at # "decrement"
  PROVE  /\ IsFiniteSet(Places')
         /\ \A kind, o : Awaited(kind, o)' = Awaited(kind, o)
<1>1. IsFiniteSet(Places')
  BY FS_RemoveElement DEF Shrunk
<1>2. \A kind, o : c \notin Pending(kind, o)
  BY PendingAre DEF IsPending
<1>3. \A kind, o : Pending(kind, o)' = Pending(kind, o)
  BY <1>2, AfterShrunk
<1> QED
  BY <1>1, <1>3 DEF Awaited

\* Their number, when a call goes on: ownDecrementReference is one less.
LEMMA CountChanged ==
  ASSUME IsFiniteSet(Places), NEW c, Changed(c), At(c)'.at # "decrement"
  PROVE  /\ IsFiniteSet(Places')
         /\ \A kind, o : /\ ~IsPending(At(c), kind, o) => Awaited(kind, o)' = Awaited(kind, o)
                         /\ IsPending(At(c), kind, o) =>
                              /\ Awaited(kind, o)' = Awaited(kind, o) - 1
                              /\ Awaited(kind, o) # 0
<1>1. IsFiniteSet(Places')
  BY DEF Changed
<1>2. ASSUME NEW kind, NEW o
      PROVE  Pending(kind, o)' = Pending(kind, o) \ {c}
  BY AfterChanged DEF IsPending
<1>3. ASSUME NEW kind, NEW o, ~IsPending(At(c), kind, o)
      PROVE  Awaited(kind, o)' = Awaited(kind, o)
  <2>1. c \notin Pending(kind, o)
    BY <1>3, PendingAre
  <2>2. Pending(kind, o)' = Pending(kind, o)
    BY <1>2, <2>1
  <2> QED
    BY <2>2 DEF Awaited
<1>4. ASSUME NEW kind, NEW o, IsPending(At(c), kind, o)
      PROVE  Awaited(kind, o)' = Awaited(kind, o) - 1 /\ Awaited(kind, o) # 0
  <2>1. c \in Pending(kind, o)
    BY <1>4, PendingAre DEF Changed
  <2>2. IsFiniteSet(Pending(kind, o))
    BY PendingFinite
  <2>3. Cardinality(Pending(kind, o) \ {c}) = Cardinality(Pending(kind, o)) - 1
    BY <2>1, <2>2, FS_RemoveElement
  <2>4. Pending(kind, o)' = Pending(kind, o) \ {c}
    BY <1>2
  <2>5. Awaited(kind, o) # 0
    BY <2>1, PendingFinite
  <2> QED
    BY <2>3, <2>4, <2>5 DEF Awaited
<1> QED
  BY <1>1, <1>3, <1>4

-----------------------------------------------------------------------------
(* The references to an object                                              *)

ReferenceParameters ==
    /\ IsFiniteSet(Thread) /\ IsFiniteSet(Object)
    /\ NoThread \notin Thread /\ NoObject \notin Object
    /\ TableSize \in Nat /\ MaxHeld \in Nat \ {0}
    /\ \A S \in SUBSET Object : S # {} => \E o \in S : \A n \in S : o \notin Used[n]

HeldTyped == held \in [Thread -> [Object -> 0 .. MaxHeld]]

\* The application has finitely many references to an object.
LEMMA RefsFinite ==
  ASSUME ReferenceParameters, HeldTyped
  PROVE  \A o \in Object : /\ IsFiniteSet(Refs(o)) /\ Cardinality(Refs(o)) \in Nat
                           /\ Cardinality(Refs(o)) = 0 <=> \A t \in Thread : held[t][o] = 0
<1>0. IsFiniteSet(Thread) /\ MaxHeld \in Nat
  BY DEF ReferenceParameters
<1>i. IsFiniteSet(1 .. MaxHeld)
  BY <1>0, FS_Interval
<1>1. IsFiniteSet(Thread \X (1 .. MaxHeld))
  BY <1>0, <1>i, FS_Product
<1> SUFFICES ASSUME NEW o \in Object
             PROVE  /\ IsFiniteSet(Refs(o)) /\ Cardinality(Refs(o)) \in Nat
                    /\ Cardinality(Refs(o)) = 0 <=> \A t \in Thread : held[t][o] = 0
  OBVIOUS
<1>2. Refs(o) \in SUBSET (Thread \X (1 .. MaxHeld))
  BY DEF Refs
<1>3. IsFiniteSet(Refs(o))
  BY <1>1, <1>2, FS_Subset
<1>4. Refs(o) = {} <=> \A t \in Thread : held[t][o] = 0
  <2>1. ASSUME NEW t \in Thread, held[t][o] # 0 PROVE <<t, 1>> \in Refs(o)
    BY <2>1 DEF HeldTyped, Refs, ReferenceParameters
  <2>2. ASSUME \A t \in Thread : held[t][o] = 0 PROVE Refs(o) = {}
    BY <2>2 DEF Refs, ReferenceParameters
  <2> QED
    BY <2>1, <2>2
<1> QED
  BY <1>3, <1>4, FS_CardinalityType, FS_EmptySet

\* A thread gets a reference or gives one up.
LEMMA RefsMore ==
  ASSUME ReferenceParameters, HeldTyped, NEW t \in Thread, NEW o \in Object,
         held[t][o] < MaxHeld, held' = [held EXCEPT ![t][o] = @ + 1]
  PROVE  /\ HeldTyped' /\ Cardinality(Refs(o))' = Cardinality(Refs(o)) + 1
         /\ \A p \in Object \ {o} : Refs(p)' = Refs(p)
         /\ \A u \in Thread, p \in Object : held[u][p] > 0 => held'[u][p] > 0
         /\ \A u \in Thread, p \in Object : p # o => held'[u][p] = held[u][p]
<1>0. /\ MaxHeld \in Nat \ {0} /\ held[t][o] \in 0 .. MaxHeld
      /\ \A u \in Thread : held[u] \in [Object -> 0 .. MaxHeld]
      /\ \A u \in Thread, p \in Object : held[u][p] \in 0 .. MaxHeld
  BY DEF HeldTyped, ReferenceParameters
<1>1. /\ held'[t][o] = held[t][o] + 1
      /\ \A u \in Thread, p \in Object : u # t \/ p # o => held'[u][p] = held[u][p]
  BY <1>0 DEF HeldTyped
<1>2. HeldTyped'
  BY <1>0 DEF HeldTyped
<1> DEFINE r == <<t, held[t][o] + 1>>
<1>3. Refs(o)' = Refs(o) \cup {r} /\ r \notin Refs(o)
  BY <1>0, <1>1 DEF Refs
<1>4. Cardinality(Refs(o) \cup {r}) = Cardinality(Refs(o)) + 1
  BY <1>3, RefsFinite, FS_AddElement
<1>5. \A p \in Object \ {o} : Refs(p)' = Refs(p)
  BY <1>1 DEF Refs
<1> QED
  BY <1>0, <1>1, <1>2, <1>3, <1>4, <1>5

\* A thread gives a reference up, as in vxReleaseReference.
LEMMA RefsLess ==
  ASSUME ReferenceParameters, HeldTyped, NEW t \in Thread, NEW o \in Object,
         held[t][o] > 0, held' = [held EXCEPT ![t][o] = @ - 1]
  PROVE  /\ HeldTyped' /\ Cardinality(Refs(o))' = Cardinality(Refs(o)) - 1
         /\ \A p \in Object \ {o} : Refs(p)' = Refs(p)
         /\ \A u \in Thread \ {t}, p \in Object : held'[u][p] = held[u][p]
         /\ \A u \in Thread, p \in Object : held[u][p] = 0 => held'[u][p] = 0
<1>0. /\ MaxHeld \in Nat \ {0} /\ held[t][o] \in 0 .. MaxHeld
      /\ \A u \in Thread : held[u] \in [Object -> 0 .. MaxHeld]
      /\ \A u \in Thread, p \in Object : held[u][p] \in 0 .. MaxHeld
  BY DEF HeldTyped, ReferenceParameters
<1>1. /\ held'[t][o] = held[t][o] - 1
      /\ \A u \in Thread, p \in Object : u # t \/ p # o => held'[u][p] = held[u][p]
  BY <1>0 DEF HeldTyped
<1>2. HeldTyped'
  BY <1>0 DEF HeldTyped
<1> DEFINE r == <<t, held[t][o]>>
<1>3. Refs(o)' = Refs(o) \ {r} /\ r \in Refs(o)
  BY <1>0, <1>1 DEF Refs
<1> HIDE DEF r
<1>f. IsFiniteSet(Refs(o))
  BY RefsFinite
<1>4. Cardinality(Refs(o) \ {r}) = Cardinality(Refs(o)) - 1
  BY <1>3, <1>f, FS_RemoveElement
<1>5. \A p \in Object \ {o} : Refs(p)' = Refs(p)
  BY <1>1 DEF Refs
<1> QED
  BY <1>0, <1>1, <1>2, <1>3, <1>4, <1>5

-----------------------------------------------------------------------------
(* The invariant                                                             *)

UserCount(o) == Cardinality(Users(o))
RefCount(o) == Cardinality(Refs(o))
BeingRemoved(o) == \E c \in Places : At(c).at = "removed" /\ At(c).obj = o

\* The parts of the type invariant.
Typed ==
    /\ magic \subseteq Object
    /\ internal_count \in [Object -> Nat] /\ external_count \in [Object -> Nat]
    /\ reftable \in [Index -> Object \cup {NoObject}]
    /\ uses \in [Object -> Object \cup {NoObject}]
    /\ collect \in [thread : Thread \cup {NoThread}, at : 1 .. TableSize + 1]
    /\ held_context \subseteq Thread
Numbers == num_references = Cardinality({i \in Index : reftable[i] # NoObject})

\* Whatever is referred to is valid.
UsesInv ==
    /\ \A n \in Object : uses[n] # NoObject => /\ uses[n] \in Used[n]
                                               /\ n \in magic /\ uses[n] \in magic
    /\ \A t \in Thread, o \in Object : held[t][o] > 0 => o \in magic
    /\ \A c \in Places : At(c).at = "decrement" => At(c).obj \in magic

\* A thread that sets a parameter keeps its references to the node and to the
\* value, and no other thread sets a parameter of that node.
SetInv ==
    \A c \in Places : At(c).at = "set" =>
        /\ At(c).value \in Used[At(c).obj] /\ At(c).value # NoObject
        /\ held[c[1]][At(c).value] > 0 /\ held[c[1]][At(c).obj] > 0
        /\ uses[At(c).obj] = NoObject
        /\ \A d \in Places : At(d).at = "set" /\ At(d).obj = At(c).obj => d = c

\* The table lists the valid objects, once each, but for those that are on their
\* way to be freed.
TableInv ==
    /\ \A i \in Index : reftable[i] # NoObject => reftable[i] \in magic
    /\ \A i, j \in Index : reftable[i] # NoObject /\ reftable[i] = reftable[j] => i = j
    /\ \A o \in magic : InTable(o) <=> ~BeingRemoved(o)

\* The call that saw the counts of an object at zero is the only one, and they stay at
\* zero; an object without such a call has a reference to it.
FinalInv ==
    \A o \in Object :
        /\ \A c \in Final(o) : /\ o \in magic /\ internal_count[o] = 0 /\ external_count[o] = 0
                               /\ \A d \in Final(o) : d = c
        /\ o \in magic /\ Final(o) = {} => internal_count[o] # 0 \/ external_count[o] # 0

CountsInv ==
    \A o \in magic : /\ internal_count[o] = UserCount(o) + Awaited("internal", o)
                     /\ external_count[o] = RefCount(o) + Awaited("external", o)

\* Only threads with a context make calls, and the one that collects; what it has
\* passed in the table has no references of the application; and no object outlives
\* the context.
ContextInv ==
    /\ \A t \in Thread : calls[t] # <<>> => t \in held_context \/ collect.thread = t
    /\ collect.thread # NoThread => held_context = {}
    /\ collect.thread = NoThread => collect.at = 1 /\ (held_context = {} => magic = {})
    /\ \A i \in Index : i < collect.at /\ reftable[i] # NoObject =>
          \A t \in Thread : held[t][reftable[i]] = 0

IInv == /\ Typed /\ CallsTyped /\ HeldTyped /\ Numbers /\ IsFiniteSet(Places)
        /\ UsesInv /\ SetInv /\ TableInv /\ FinalInv /\ CountsInv /\ ContextInv

\* Finitely many objects refer to an object.
LEMMA UsersFinite ==
  ASSUME ReferenceParameters, Typed
  PROVE  \A o \in Object : /\ IsFiniteSet(Users(o)) /\ UserCount(o) \in Nat
                           /\ UserCount(o) = 0 <=> Users(o) = {}
<1> SUFFICES ASSUME NEW o \in Object
             PROVE  /\ IsFiniteSet(Users(o)) /\ UserCount(o) \in Nat
                    /\ UserCount(o) = 0 <=> Users(o) = {}
  OBVIOUS
<1>1. Users(o) \in SUBSET Object /\ IsFiniteSet(Object)
  BY DEF Users, Typed, ReferenceParameters
<1>2. IsFiniteSet(Users(o))
  BY <1>1, FS_Subset
<1> QED
  BY <1>2, FS_CardinalityType, FS_EmptySet DEF UserCount

\* What the counts of an object say of it.
LEMMA CountsSay ==
  ASSUME ReferenceParameters, IInv, NEW o \in magic
  PROVE  /\ UserCount(o) \in Nat /\ RefCount(o) \in Nat
         /\ \A kind : Awaited(kind, o) \in Nat
         /\ internal_count[o] = UserCount(o) + Awaited("internal", o)
         /\ external_count[o] = RefCount(o) + Awaited("external", o)
         /\ internal_count[o] = 0 => Users(o) = {} /\ Pending("internal", o) = {}
         /\ external_count[o] = 0 =>
               (\A t \in Thread : held[t][o] = 0) /\ Pending("external", o) = {}
<1>1. o \in Object
  BY DEF IInv, Typed
<1>2. /\ UserCount(o) \in Nat /\ (UserCount(o) = 0 <=> Users(o) = {})
  BY <1>1, UsersFinite DEF IInv
<1>3. /\ RefCount(o) \in Nat /\ (RefCount(o) = 0 <=> \A t \in Thread : held[t][o] = 0)
  BY <1>1, RefsFinite DEF IInv, RefCount
<1>4. \A kind : Awaited(kind, o) \in Nat /\ (Awaited(kind, o) = 0 <=> Pending(kind, o) = {})
  BY PendingFinite DEF IInv
<1>5. /\ internal_count[o] = UserCount(o) + Awaited("internal", o)
      /\ external_count[o] = RefCount(o) + Awaited("external", o)
  BY DEF IInv, CountsInv
<1>6. ASSUME internal_count[o] = 0
      PROVE  Users(o) = {} /\ Pending("internal", o) = {}
  <2>1. UserCount(o) = 0 /\ Awaited("internal", o) = 0
    BY <1>2, <1>4, <1>5, <1>6
  <2> QED
    BY <1>2, <1>4, <2>1
<1>7. ASSUME external_count[o] = 0
      PROVE  (\A t \in Thread : held[t][o] = 0) /\ Pending("external", o) = {}
  <2>1. RefCount(o) = 0 /\ Awaited("external", o) = 0
    BY <1>3, <1>4, <1>5, <1>7
  <2> QED
    BY <1>3, <1>4, <2>1
<1> QED
  BY <1>2, <1>3, <1>4, <1>5, <1>6, <1>7

\* An object that a call goes on to free is not referred to.
LEMMA Unused ==
  ASSUME ReferenceParameters, IInv, NEW o \in Object, NEW c \in Final(o)
  PROVE  /\ o \in magic /\ internal_count[o] = 0 /\ external_count[o] = 0
         /\ \A d \in Final(o) : d = c
         /\ \A t \in Thread : held[t][o] = 0
         /\ \A n \in Object : uses[n] # o
         /\ \A d \in Places : At(d).obj = o => At(d).at # "decrement" /\ At(d).at # "set"
<1>1. /\ o \in magic /\ internal_count[o] = 0 /\ external_count[o] = 0
      /\ \A d \in Final(o) : d = c
  BY DEF IInv, FinalInv
<1>2. /\ Users(o) = {} /\ Pending("internal", o) = {} /\ Pending("external", o) = {}
      /\ \A t \in Thread : held[t][o] = 0
  BY <1>1, CountsSay
<1>3. \A n \in Object : uses[n] # o
  BY <1>1, <1>2 DEF IInv, UsesInv, Users, ReferenceParameters
<1>4. ASSUME NEW d \in Places, At(d).obj = o
      PROVE  At(d).at # "decrement" /\ At(d).at # "set"
  <2>1. At(d) \in CallRecord /\ d[1] \in Thread
    BY CallTyped DEF IInv
  <2>2. At(d).kind \in {"internal", "external"}
    BY <2>1 DEF CallRecord
  <2>3. d \notin Pending("internal", o) /\ d \notin Pending("external", o)
    BY <1>2
  <2>4. At(d).at # "decrement"
    BY <1>4, <2>2, <2>3, PendingAre DEF IsPending
  <2>5. At(d).at # "set"
    BY <1>2, <1>4, <2>1 DEF IInv, SetInv
  <2> QED
    BY <2>4, <2>5
<1> QED
  BY <1>1, <1>2, <1>3, <1>4

\* An object that the application refers to is not freed.
LEMMA InUse ==
  ASSUME ReferenceParameters, IInv, NEW t \in Thread, NEW o \in Object, held[t][o] > 0
  PROVE  /\ o \in magic /\ external_count[o] # 0 /\ Final(o) = {}
<1>1. o \in magic
  BY DEF IInv, UsesInv
<1>2. held[t][o] # 0
  BY DEF IInv, HeldTyped, ReferenceParameters
<1>3. external_count[o] # 0
  BY <1>1, <1>2, CountsSay
<1>4. Final(o) = {}
  BY <1>3, Unused
<1> QED
  BY <1>1, <1>3, <1>4

\* The calls at a step, after one.
Old(step) == \A d \in Places' : At(d)'.at = step => d \in Places /\ At(d)' = At(d)

\* A call of ownReleaseReferenceInt is made: no call is nearer to freeing an object.
LEMMA GrownCalls ==
  ASSUME NEW c, Grown(c), At(c)'.at = "decrement"
  PROVE  /\ Old("set") /\ Old("removed")
         /\ \A d \in Places' : At(d)'.at = "decrement" => d = c \/ (d \in Places /\ At(d)' = At(d))
         /\ \A o : Final(o)' = Final(o) /\ (BeingRemoved(o)' <=> BeingRemoved(o))
<1>1. \A o : Final(o)' = Final(o)
  BY AfterGrown DEF IsFinal
<1>2. \A o : BeingRemoved(o)' <=> BeingRemoved(o)
  BY DEF Grown, BeingRemoved
<1> QED
  BY <1>1, <1>2 DEF Grown, Old

\* A call returns: the others are where they were.
LEMMA ShrunkCalls ==
  ASSUME NEW c, Shrunk(c)
  PROVE  /\ Old("set") /\ Old("removed") /\ Old("decrement")
         /\ \A o : Final(o)' = Final(o) \ {c}
         /\ \A o : (At(c).at = "removed" => At(c).obj # o) => (BeingRemoved(o)' <=> BeingRemoved(o))
<1>1. \A o : Final(o)' = Final(o) \ {c}
  BY AfterShrunk
<1>2. \A o : (At(c).at = "removed" => At(c).obj # o) => (BeingRemoved(o)' <=> BeingRemoved(o))
  BY DEF Shrunk, BeingRemoved
<1> QED
  BY <1>1, <1>2 DEF Shrunk, Old

\* A call of ownReleaseReferenceInt goes on: the others are where they were.
LEMMA ChangedCalls ==
  ASSUME NEW c, Changed(c), At(c)'.at \in {"decremented", "removed"}, At(c).at # "removed",
         At(c)'.obj = At(c).obj
  PROVE  /\ Old("set") /\ Old("decrement")
         /\ \A o : At(c)'.at = "decremented" \/ At(c).obj # o => (BeingRemoved(o)' <=> BeingRemoved(o))
         /\ At(c)'.at = "removed" => BeingRemoved(At(c).obj)'
<1>1. \A o : At(c)'.at = "decremented" \/ At(c).obj # o => (BeingRemoved(o)' <=> BeingRemoved(o))
  BY DEF Changed, BeingRemoved
<1>2. ASSUME At(c)'.at = "removed" PROVE BeingRemoved(At(c).obj)'
  BY <1>2 DEF Changed, BeingRemoved
<1> QED
  BY <1>1, <1>2 DEF Changed, Old

-----------------------------------------------------------------------------
(* The steps of a release                                                    *)

\* ownReleaseReferenceInt, when references are left.
LEMMA NotLastKeeps ==
  ASSUME ReferenceParameters, IInv, NEW t \in Thread, NotLast(t)
  PROVE  IInv'
<1>1. /\ calls[t] # <<>> /\ calls' = [calls EXCEPT ![t] = Outer(t)]
      /\ Call(t).at = "decremented" /\ Call(t).result # 0
  BY DEF NotLast, In, IsLast
<1>2. PICK c : c[1] = t /\ Shrunk(c) /\ At(c) = Call(t)
  BY <1>1, PopCall DEF IInv
<1>3. CallsTyped'
  BY <1>1, PopCall DEF IInv
<1> USE DEF NotLast
<1>4. /\ Old("set") /\ Old("removed") /\ Old("decrement")
      /\ \A o : Final(o)' = Final(o) /\ (BeingRemoved(o)' <=> BeingRemoved(o))
  <2>1. At(c).at # "removed" /\ \A o : c \notin Final(o)
    BY <1>1, <1>2, PendingAre DEF IsFinal
  <2>2. /\ Old("set") /\ Old("removed") /\ Old("decrement")
        /\ \A o : BeingRemoved(o)' <=> BeingRemoved(o)
    BY <1>2, <2>1, ShrunkCalls
  <2>3. \A o : Final(o)' = Final(o) \ {c}
    BY <1>2, ShrunkCalls
  <2> QED
    BY <2>1, <2>2, <2>3
<1>5. IsFiniteSet(Places') /\ \A kind, o : Awaited(kind, o)' = Awaited(kind, o)
  BY <1>1, <1>2, CountShrunk DEF IInv
<1>6. Places' \subseteq Places /\ Typed' /\ HeldTyped' /\ Numbers'
  BY <1>2 DEF IInv, Typed, HeldTyped, Numbers, Shrunk
<1>7. UsesInv' /\ SetInv'
  BY <1>4 DEF IInv, UsesInv, SetInv, Old
<1>8. TableInv'
  BY <1>4 DEF IInv, TableInv, InTable
<1>9. FinalInv'
  BY <1>4 DEF IInv, FinalInv
<1>10. CountsInv'
  BY <1>5 DEF IInv, CountsInv, UserCount, Users, RefCount, Refs
<1>11. ContextInv'
  <2>1. \A u \in Thread : calls'[u] # <<>> => calls[u] # <<>>
    BY <1>1 DEF IInv, CallsTyped
  <2> QED
    BY <2>1 DEF IInv, ContextInv
<1> QED
  BY <1>3, <1>5, <1>6, <1>7, <1>8, <1>9, <1>10, <1>11 DEF IInv

\* ownRemoveReferenceFromContext
LEMMA RemoveKeeps ==
  ASSUME ReferenceParameters, IInv, NEW t \in Thread, RemoveFromTable(t)
  PROVE  IInv'
<1> DEFINE x == [Call(t) EXCEPT !.at = "removed"]
<1>1. /\ calls[t] # <<>> /\ calls' = [calls EXCEPT ![t] = Append(Outer(t), x)]
      /\ Call(t).at = "decremented" /\ Call(t).result = 0
      /\ num_references' = num_references - 1
      /\ UNCHANGED <<magic, internal_count, external_count, uses, collect, held, held_context>>
  BY DEF RemoveFromTable, In, IsLast
<1>2. Call(t) \in CallRecord
  BY <1>1, CallTyped DEF IInv
<1>3. x \in CallRecord /\ x.at = "removed" /\ x.obj = Call(t).obj
  BY <1>2 DEF CallRecord
<1> HIDE DEF x
<1>4. PICK c : c[1] = t /\ Changed(c) /\ At(c) = Call(t) /\ At(c)' = x
  BY <1>1, <1>3, ChangeCall DEF IInv
<1>5. CallsTyped'
  BY <1>1, <1>3, ChangeCall DEF IInv
<1>o. PICK o \in Object : o = Call(t).obj
  BY <1>2 DEF CallRecord
<1>n. o # NoObject
  BY DEF ReferenceParameters
<1>6. PICK i \in Index : reftable[i] = o /\ reftable' = [reftable EXCEPT ![i] = NoObject]
  BY <1>o DEF RemoveFromTable
<1>c. /\ At(c)'.at = "removed" /\ At(c)'.obj = o
      /\ At(c).at = "decremented" /\ At(c).obj = o /\ At(c).result = 0
  BY <1>1, <1>3, <1>4, <1>o
<1>7. \A p : Final(p)' = Final(p)
  <2>1. \A p : IsFinal(At(c), p) <=> p = o
    BY <1>c DEF IsFinal
  <2>2. \A p : IsFinal(At(c)', p) <=> p = o
    BY <1>c DEF IsFinal
  <2>3. \A p : c \in Final(p) <=> p = o
    BY <1>4, <2>1, PendingAre DEF Changed
  <2> QED
    BY <1>4, <2>2, <2>3, AfterChanged
<1>8. /\ Old("set") /\ Old("decrement") /\ BeingRemoved(o)'
      /\ \A p : p # o => (BeingRemoved(p)' <=> BeingRemoved(p))
  BY <1>c, <1>4, ChangedCalls
<1>9. IsFiniteSet(Places') /\ \A kind, p : Awaited(kind, p)' = Awaited(kind, p)
  BY <1>1, <1>3, <1>4, CountChanged DEF IInv, IsPending
<1>10. Typed' /\ HeldTyped'
  BY <1>1, <1>6 DEF IInv, Typed, HeldTyped
<1>11. /\ reftable'[i] = NoObject /\ \A j \in Index \ {i} : reftable'[j] = reftable[j]
  BY <1>6 DEF IInv, Typed
<1>12. Numbers'
  <2> DEFINE full == {j \in Index : reftable[j] # NoObject}
  <2>1. {j \in Index : reftable'[j] # NoObject} = full \ {i} /\ i \in full
    BY <1>6, <1>11, <1>n
  <2>2. IsFiniteSet(Index)
    BY FS_Interval DEF Index, ReferenceParameters
  <2>3. IsFiniteSet(full)
    BY <2>2, FS_Subset
  <2> HIDE DEF full
  <2>4. Cardinality(full \ {i}) = Cardinality(full) - 1
    BY <2>1, <2>3, FS_RemoveElement
  <2> QED
    BY <1>1, <2>1, <2>4 DEF IInv, Numbers, full
<1>13. UsesInv' /\ SetInv'
  BY <1>1, <1>8 DEF IInv, UsesInv, SetInv, Old
<1>14. TableInv'
  <2>1. ~InTable(o)'
    BY <1>6, <1>11, <1>o, <1>n DEF InTable, IInv, TableInv
  <2>2. ASSUME NEW p \in magic, p # o PROVE InTable(p)' <=> InTable(p)
    BY <1>6, <1>11, <2>2, <1>n DEF InTable, IInv, Typed, ReferenceParameters
  <2>3. \A p \in magic' : InTable(p)' <=> ~BeingRemoved(p)'
    BY <1>1, <1>8, <2>1, <2>2 DEF IInv, TableInv
  <2> QED
    BY <1>1, <1>11, <2>3 DEF IInv, TableInv
<1>15. FinalInv'
  BY <1>1, <1>7 DEF IInv, FinalInv
<1>16. CountsInv'
  BY <1>1, <1>9 DEF IInv, CountsInv, UserCount, Users, RefCount, Refs
<1>17. ContextInv'
  <2>1. \A u \in Thread : calls'[u] # <<>> => calls[u] # <<>>
    BY <1>1 DEF IInv, CallsTyped
  <2> QED
    BY <1>1, <1>11, <2>1 DEF IInv, ContextInv
<1> QED
  BY <1>5, <1>9, <1>10, <1>12, <1>13, <1>14, <1>15, <1>16, <1>17 DEF IInv

\* The end of ownReleaseReferenceInt: the memory of the object is free.
LEMMA FreeKeeps ==
  ASSUME ReferenceParameters, IInv, NEW t \in Thread, Free(t)
  PROVE  IInv'
<1>0. calls[t] # <<>>
  BY DEF Free, In
<1>o. PICK o \in Object : o = Call(t).obj
  BY <1>0, CallTyped DEF IInv, CallRecord
<1>1. /\ calls[t] # <<>> /\ calls' = [calls EXCEPT ![t] = Outer(t)]
      /\ Call(t).at = "removed" /\ uses[o] = NoObject /\ magic' = magic \ {o}
      /\ UNCHANGED <<internal_count, external_count, reftable, num_references, uses, collect,
                   held, held_context>>
  BY <1>o DEF Free, In, ToRelease
<1>2. PICK c : c[1] = t /\ Shrunk(c) /\ At(c) = Call(t)
  BY <1>1, PopCall DEF IInv
<1>3. CallsTyped'
  BY <1>1, PopCall DEF IInv
<1>4. c \in Final(o) /\ BeingRemoved(o)
  BY <1>1, <1>2, <1>o, PendingAre DEF IsFinal, Shrunk, BeingRemoved
<1>5. /\ o \in magic /\ \A d \in Final(o) : d = c
      /\ \A u \in Thread : held[u][o] = 0
      /\ \A n \in Object : uses[n] # o
      /\ \A d \in Places : At(d).obj = o => At(d).at # "decrement" /\ At(d).at # "set"
  BY <1>4, <1>o, Unused
<1>6. /\ Old("set") /\ Old("removed") /\ Old("decrement")
      /\ \A p : Final(p)' = Final(p) \ {c}
      /\ \A p : p # o => (BeingRemoved(p)' <=> BeingRemoved(p))
  BY <1>1, <1>2, <1>o, ShrunkCalls
<1>7. IsFiniteSet(Places') /\ \A kind, p : Awaited(kind, p)' = Awaited(kind, p)
  BY <1>1, <1>2, CountShrunk DEF IInv
<1>8. Typed' /\ HeldTyped' /\ Numbers'
  BY <1>1 DEF IInv, Typed, HeldTyped, Numbers
<1>9. UsesInv'
  <2>1. \A u \in Thread, p \in Object : held'[u][p] > 0 => p \in magic'
    BY <1>1, <1>5 DEF IInv, UsesInv
  <2>2. \A d \in Places' : At(d)'.at = "decrement" => At(d)'.obj \in magic'
    BY <1>1, <1>5, <1>6 DEF IInv, UsesInv, Old
  <2> QED
    BY <1>1, <1>5, <2>1, <2>2 DEF IInv, UsesInv
<1>10. SetInv'
  BY <1>1, <1>6 DEF IInv, SetInv, Old
<1>11. TableInv'
  <2>1. \A i \in Index : reftable[i] # o
    BY <1>4, <1>5 DEF IInv, TableInv, InTable
  <2> QED
    BY <1>1, <1>6, <2>1 DEF IInv, TableInv, InTable
<1>12. FinalInv'
  <2>1. \A p \in Object : p # o => Final(p)' = Final(p)
    BY <1>1, <1>2, <1>o, <1>6, PendingAre DEF IsFinal
  <2>2. Final(o)' = {}
    BY <1>5, <1>6
  <2> QED
    BY <1>1, <2>1, <2>2 DEF IInv, FinalInv
<1>13. CountsInv'
  <2>1. \A p \in Object : Users(p)' = Users(p) /\ Refs(p)' = Refs(p)
    BY <1>1, <1>o DEF Users, Refs, ReferenceParameters
  <2> QED
    BY <1>1, <1>7, <2>1 DEF IInv, CountsInv, UserCount, RefCount, Typed
<1>14. ContextInv'
  <2>1. \A u \in Thread : calls'[u] # <<>> => calls[u] # <<>>
    BY <1>1 DEF IInv, CallsTyped
  <2> QED
    BY <1>1, <2>1 DEF IInv, ContextInv
<1> QED
  BY <1>3, <1>7, <1>8, <1>9, <1>10, <1>11, <1>12, <1>13, <1>14 DEF IInv

\* ownDecrementReference: of two calls that count the last references of an object,
\* only the second sees that nothing is left.
LEMMA DecrementKeeps ==
  ASSUME ReferenceParameters, IInv, NEW t \in Thread, Decrement(t)
  PROVE  IInv'
<1>0. calls[t] # <<>> /\ Call(t).at = "decrement"
  BY DEF Decrement, In
<1>1. Call(t) \in CallRecord
  BY <1>0, CallTyped DEF IInv
<1>o. PICK o \in Object : o = Call(t).obj
  BY <1>1 DEF CallRecord
<1>k. PICK kind \in {"internal", "external"} : kind = Call(t).kind
  BY <1>1 DEF CallRecord
<1>2. PICK left : left = internal_count'[o] + external_count'[o]
  OBVIOUS
<1> DEFINE x == [Call(t) EXCEPT !.at = "decremented", !.result = left]
<1>3. /\ o \in magic
      /\ kind = "internal" => /\ internal_count' = Less(internal_count, o)
                              /\ external_count' = external_count
      /\ kind = "external" => /\ external_count' = Less(external_count, o)
                              /\ internal_count' = internal_count
      /\ calls' = [calls EXCEPT ![t] = Append(Outer(t), x)]
      /\ UNCHANGED <<magic, reftable, num_references, uses, collect, held, held_context>>
  BY <1>o, <1>k, <1>2 DEF Decrement, Remaining
<1>4. /\ internal_count' \in [Object -> Nat] /\ external_count' \in [Object -> Nat]
      /\ \A p \in Object \ {o} : /\ internal_count'[p] = internal_count[p]
                                 /\ external_count'[p] = external_count[p]
      /\ kind = "internal" => internal_count'[o] = IF internal_count[o] = 0 THEN 0
                                                   ELSE internal_count[o] - 1
      /\ kind = "external" => external_count'[o] = IF external_count[o] = 0 THEN 0
                                                   ELSE external_count[o] - 1
  BY <1>3 DEF Less, IInv, Typed
<1>5. left \in Nat /\ (left = 0 <=> internal_count'[o] = 0 /\ external_count'[o] = 0)
  BY <1>2, <1>4
<1>6. x \in CallRecord /\ x.at = "decremented" /\ x.obj = o /\ x.result = left
  BY <1>1, <1>5, <1>o DEF CallRecord
<1> HIDE DEF x
<1>7. PICK c : c[1] = t /\ Changed(c) /\ At(c) = Call(t) /\ At(c)' = x
  BY <1>0, <1>3, <1>6, ChangeCall DEF IInv
<1>8. CallsTyped'
  BY <1>0, <1>3, <1>6, ChangeCall DEF IInv
<1>c. /\ At(c)'.at = "decremented" /\ At(c)'.obj = o /\ At(c)'.result = left
      /\ At(c).at = "decrement" /\ At(c).obj = o /\ At(c).kind = kind
  BY <1>0, <1>6, <1>7, <1>o, <1>k
<1>9. /\ IsFiniteSet(Places')
      /\ \A k, p : k # kind \/ p # o => Awaited(k, p)' = Awaited(k, p)
      /\ Awaited(kind, o)' = Awaited(kind, o) - 1 /\ Awaited(kind, o) # 0
  <2>1. \A k, p : IsPending(At(c), k, p) <=> k = kind /\ p = o
    BY <1>c DEF IsPending
  <2>2. /\ IsFiniteSet(Places')
        /\ \A k, p : /\ ~IsPending(At(c), k, p) => Awaited(k, p)' = Awaited(k, p)
                     /\ IsPending(At(c), k, p) => /\ Awaited(k, p)' = Awaited(k, p) - 1
                                                  /\ Awaited(k, p) # 0
    BY <1>7, <1>c, CountChanged DEF IInv
  <2> QED
    BY <2>1, <2>2
<1>10. /\ Old("set") /\ Old("decrement") /\ \A p : BeingRemoved(p)' <=> BeingRemoved(p)
  BY <1>7, <1>c, ChangedCalls
<1>11. Final(o) = {}
  BY <1>7, <1>c, Unused DEF Changed
<1>12. /\ Final(o)' = IF left = 0 THEN {c} ELSE {}
       /\ \A p \in Object \ {o} : Final(p)' = Final(p)
  <2>1. \A p : IsFinal(At(c)', p) <=> p = o /\ left = 0
    BY <1>c DEF IsFinal
  <2>2. \A p : c \notin Final(p)
    BY <1>c, PendingAre DEF IsFinal
  <2>3. \A p : Final(p)' = (Final(p) \ {c}) \cup (IF IsFinal(At(c)', p) THEN {c} ELSE {})
    BY <1>7, AfterChanged
  <2> QED
    BY <1>11, <2>1, <2>2, <2>3
<1>13. Typed' /\ HeldTyped' /\ Numbers'
  BY <1>3, <1>4 DEF IInv, Typed, HeldTyped, Numbers
<1>14. UsesInv' /\ SetInv'
  BY <1>3, <1>10 DEF IInv, UsesInv, SetInv, Old
<1>15. TableInv'
  BY <1>3, <1>10 DEF IInv, TableInv, InTable
<1>16. FinalInv'
  <2>1. ASSUME NEW p \in Object \ {o}
        PROVE  /\ \A d \in Final(p)' : /\ p \in magic' /\ internal_count'[p] = 0
                                       /\ external_count'[p] = 0 /\ \A e \in Final(p)' : e = d
               /\ p \in magic' /\ Final(p)' = {} => internal_count'[p] # 0 \/ external_count'[p] # 0
    BY <1>3, <1>4, <1>12 DEF IInv, FinalInv
  <2>2. /\ \A d \in Final(o)' : /\ o \in magic' /\ internal_count'[o] = 0
                                /\ external_count'[o] = 0 /\ \A e \in Final(o)' : e = d
        /\ o \in magic' /\ Final(o)' = {} => internal_count'[o] # 0 \/ external_count'[o] # 0
    BY <1>3, <1>5, <1>12
  <2> QED
    BY <2>1, <2>2 DEF FinalInv
<1>17. CountsInv'
  <2>1. \A p : UserCount(p)' = UserCount(p) /\ RefCount(p)' = RefCount(p)
    BY <1>3 DEF UserCount, Users, RefCount, Refs
  <2>2. /\ UserCount(o) \in Nat /\ RefCount(o) \in Nat /\ Awaited(kind, o) \in Nat
        /\ internal_count[o] = UserCount(o) + Awaited("internal", o)
        /\ external_count[o] = RefCount(o) + Awaited("external", o)
    BY <1>3, CountsSay
  <2>3. /\ internal_count'[o] = UserCount(o)' + Awaited("internal", o)'
        /\ external_count'[o] = RefCount(o)' + Awaited("external", o)'
    <3>1. CASE kind = "internal"
      <4>1. /\ Awaited("external", o)' = Awaited("external", o)
            /\ Awaited("internal", o)' = Awaited("internal", o) - 1
            /\ Awaited("internal", o) # 0 /\ Awaited("internal", o) \in Nat
        BY <1>9, <2>2, <3>1
      <4>2. internal_count[o] # 0 /\ internal_count'[o] = internal_count[o] - 1
        BY <1>4, <2>2, <3>1, <4>1
      <4>3. external_count'[o] = external_count[o]
        BY <1>3, <3>1
      <4>4. internal_count'[o] = UserCount(o) + (Awaited("internal", o) - 1)
        BY <2>2, <4>1, <4>2
      <4> QED
        BY <2>1, <2>2, <4>1, <4>3, <4>4
    <3>2. CASE kind = "external"
      <4>1. /\ Awaited("internal", o)' = Awaited("internal", o)
            /\ Awaited("external", o)' = Awaited("external", o) - 1
            /\ Awaited("external", o) # 0 /\ Awaited("external", o) \in Nat
        BY <1>9, <2>2, <3>2
      <4>2. external_count[o] # 0 /\ external_count'[o] = external_count[o] - 1
        BY <1>4, <2>2, <3>2, <4>1
      <4>3. internal_count'[o] = internal_count[o]
        BY <1>3, <3>2
      <4>4. external_count'[o] = RefCount(o) + (Awaited("external", o) - 1)
        BY <2>2, <4>1, <4>2
      <4> QED
        BY <2>1, <2>2, <4>1, <4>3, <4>4
    <3> QED
      BY <3>1, <3>2
  <2>4. \A p \in magic \ {o} : /\ internal_count'[p] = UserCount(p)' + Awaited("internal", p)'
                               /\ external_count'[p] = RefCount(p)' + Awaited("external", p)'
    BY <1>4, <1>9, <2>1 DEF IInv, CountsInv, Typed
  <2> QED
    BY <1>3, <2>3, <2>4 DEF CountsInv
<1>18. ContextInv'
  <2>1. \A u \in Thread : calls'[u] # <<>> => calls[u] # <<>>
    BY <1>0, <1>3 DEF IInv, CallsTyped
  <2> QED
    BY <1>3, <2>1 DEF IInv, ContextInv
<1> QED
  BY <1>8, <1>9, <1>13, <1>14, <1>15, <1>16, <1>17, <1>18 DEF IInv

\* The end of ownNodeSetParameter: the reference of the caller to the value keeps it
\* until the node has its own.
LEMMA TakeValueKeeps ==
  ASSUME ReferenceParameters, IInv, NEW t \in Thread, TakeValue(t)
  PROVE  IInv'
<1>0. calls[t] # <<>> /\ Call(t).at = "set"
  BY DEF TakeValue, In
<1>1. Call(t) \in CallRecord
  BY <1>0, CallTyped DEF IInv
<1>o. PICK o \in Object : o = Call(t).obj
  BY <1>1 DEF CallRecord
<1>2. calls' = [calls EXCEPT ![t] = Outer(t)]
  BY DEF TakeValue
<1>3. PICK c : c[1] = t /\ Shrunk(c) /\ At(c) = Call(t)
  BY <1>0, <1>2, PopCall DEF IInv
<1>4. CallsTyped'
  BY <1>0, <1>2, PopCall DEF IInv
<1>v. PICK v : v = Call(t).value
  OBVIOUS
<1>c. At(c).at = "set" /\ At(c).obj = o /\ At(c).value = v /\ c \in Places
  BY <1>0, <1>o, <1>v, <1>3 DEF Shrunk
<1>5. /\ v \in Used[o] /\ v \in Object /\ held[t][v] > 0 /\ held[t][o] > 0 /\ uses[o] = NoObject
      /\ \A d \in Places : At(d).at = "set" /\ At(d).obj = o => d = c
  BY <1>1, <1>3, <1>c, <1>v DEF IInv, SetInv, CallRecord
<1>6. /\ internal_count' = [internal_count EXCEPT ![v] = @ + 1]
      /\ uses' = [uses EXCEPT ![o] = v]
      /\ UNCHANGED <<magic, external_count, reftable, num_references, collect, held,
                     held_context>>
  BY <1>o, <1>v DEF TakeValue
<1>7. /\ internal_count'[v] = internal_count[v] + 1 /\ internal_count' \in [Object -> Nat]
      /\ \A p \in Object \ {v} : internal_count'[p] = internal_count[p]
      /\ uses'[o] = v /\ uses' \in [Object -> Object \cup {NoObject}]
      /\ \A n \in Object \ {o} : uses'[n] = uses[n]
  BY <1>5, <1>6 DEF IInv, Typed
<1>8. v \in magic /\ o \in magic /\ Final(v) = {}
  BY <1>5, InUse
<1>9. /\ Old("set") /\ Old("removed") /\ Old("decrement")
      /\ \A p : Final(p)' = Final(p) /\ (BeingRemoved(p)' <=> BeingRemoved(p))
  <2>1. At(c).at # "removed" /\ \A p : c \notin Final(p)
    BY <1>c, PendingAre DEF IsFinal
  <2>2. /\ Old("set") /\ Old("removed") /\ Old("decrement")
        /\ \A p : BeingRemoved(p)' <=> BeingRemoved(p)
    BY <1>3, <2>1, ShrunkCalls
  <2>3. \A p : Final(p)' = Final(p) \ {c}
    BY <1>3, ShrunkCalls
  <2> QED
    BY <2>1, <2>2, <2>3
<1>10. IsFiniteSet(Places') /\ \A kind, p : Awaited(kind, p)' = Awaited(kind, p)
  BY <1>c, <1>3, CountShrunk DEF IInv
<1>11. Typed' /\ HeldTyped' /\ Numbers'
  BY <1>6, <1>7 DEF IInv, Typed, HeldTyped, Numbers
<1>12. UsesInv'
  <2>1. \A n \in Object : uses'[n] # NoObject => /\ uses'[n] \in Used[n]
                                                 /\ n \in magic' /\ uses'[n] \in magic'
    BY <1>5, <1>6, <1>7, <1>8 DEF IInv, UsesInv
  <2> QED
    BY <1>6, <1>9, <2>1 DEF IInv, UsesInv, Old
<1>13. SetInv'
  <2>1. ASSUME NEW d \in Places', At(d)'.at = "set"
        PROVE  d \in Places /\ At(d)' = At(d) /\ At(d).obj \in Object \ {o}
    <3>1. d \in Places /\ At(d)' = At(d) /\ d # c
      BY <1>3, <1>9, <2>1 DEF Old, Shrunk
    <3>2. At(d).obj # o
      BY <1>5, <2>1, <3>1
    <3> QED
      BY <3>1, <3>2, CallTyped DEF IInv, CallRecord
  <2> QED
    BY <1>6, <1>7, <2>1 DEF IInv, SetInv
<1>14. TableInv'
  BY <1>6, <1>9 DEF IInv, TableInv, InTable
<1>15. FinalInv'
  <2>1. internal_count'[v] # 0
    BY <1>5, <1>7 DEF IInv, Typed
  <2> QED
    BY <1>6, <1>7, <1>8, <1>9, <2>1 DEF IInv, FinalInv
<1>16. CountsInv'
  <2>1. \A p : RefCount(p)' = RefCount(p)
    BY <1>6 DEF RefCount, Refs
  <2>2. \A p \in Object \ {v} : UserCount(p)' = UserCount(p)
    <3>1. \A p \in Object \ {v} : Users(p)' = Users(p)
      BY <1>5, <1>6, <1>7 DEF Users, IInv, Typed, ReferenceParameters
    <3> QED
      BY <3>1 DEF UserCount
  <2>3. UserCount(v)' = UserCount(v) + 1
    <3>1. Users(v)' = Users(v) \cup {o} /\ o \notin Users(v)
      BY <1>5, <1>6, <1>7, <1>8 DEF Users, IInv, Typed, ReferenceParameters
    <3>2. IsFiniteSet(Users(v))
      BY <1>5, UsersFinite DEF IInv
    <3>3. Cardinality(Users(v) \cup {o}) = Cardinality(Users(v)) + 1
      BY <3>1, <3>2, FS_AddElement
    <3> QED
      BY <3>1, <3>3 DEF UserCount
  <2>4. /\ UserCount(v) \in Nat /\ Awaited("internal", v) \in Nat
        /\ internal_count[v] = UserCount(v) + Awaited("internal", v)
    BY <1>8, CountsSay
  <2>5. internal_count'[v] = UserCount(v)' + Awaited("internal", v)'
    BY <1>7, <1>10, <2>3, <2>4
  <2> QED
    BY <1>6, <1>7, <1>10, <2>1, <2>2, <2>5 DEF IInv, CountsInv, Typed
<1>17. ContextInv'
  <2>1. \A u \in Thread : calls'[u] # <<>> => calls[u] # <<>>
    BY <1>0, <1>2 DEF IInv, CallsTyped
  <2> QED
    BY <1>6, <2>1 DEF IInv, ContextInv
<1> QED
  BY <1>4, <1>10, <1>11, <1>12, <1>13, <1>14, <1>15, <1>16, <1>17 DEF IInv

\* The users of an object, when one of them releases it.
LEMMA UsersLess ==
  ASSUME ReferenceParameters, IInv, NEW n \in Object, NEW o \in Object, uses[n] = o,
         uses' = [uses EXCEPT ![n] = NoObject], magic' = magic
  PROVE  /\ UserCount(o)' = UserCount(o) - 1
         /\ \A p \in Object \ {o} : UserCount(p)' = UserCount(p)
         /\ uses'[n] = NoObject /\ \A m \in Object \ {n} : uses'[m] = uses[m]
         /\ uses' \in [Object -> Object \cup {NoObject}]
<1>1. /\ uses'[n] = NoObject /\ \A m \in Object \ {n} : uses'[m] = uses[m]
      /\ uses' \in [Object -> Object \cup {NoObject}]
  BY DEF IInv, Typed
<1>2. o # NoObject /\ n \in magic
  BY DEF IInv, UsesInv, ReferenceParameters
<1>3. Users(o)' = Users(o) \ {n} /\ n \in Users(o)
  BY <1>1, <1>2 DEF Users, IInv, Typed
<1>4. IsFiniteSet(Users(o))
  BY UsersFinite DEF IInv
<1>5. Cardinality(Users(o) \ {n}) = Cardinality(Users(o)) - 1
  BY <1>3, <1>4, FS_RemoveElement
<1>6. \A p \in Object \ {o} : Users(p)' = Users(p)
  BY <1>1, <1>2 DEF Users, IInv, Typed, ReferenceParameters
<1> QED
  BY <1>1, <1>3, <1>5, <1>6 DEF UserCount

\* The destructor: the reference of the object becomes one that is being released.
LEMMA DestructKeeps ==
  ASSUME ReferenceParameters, IInv, NEW t \in Thread, Destruct(t)
  PROVE  IInv'
<1>0. calls[t] # <<>> /\ Call(t).at = "removed"
  BY DEF Destruct, In
<1>n. PICK n \in Object : n = Call(t).obj
  BY <1>0, CallTyped DEF IInv, CallRecord
<1>o. PICK o \in Object : o = uses[n] /\ o # NoObject
  BY <1>n DEF Destruct, ToRelease, IInv, Typed
<1> DEFINE x == Release(o, "internal")
<1>1. x \in CallRecord /\ x.at = "decrement" /\ x.obj = o /\ x.kind = "internal"
  BY DEF Release, CallRecord
<1>2. /\ calls' = [calls EXCEPT ![t] = Append(calls[t], x)]
      /\ uses' = [uses EXCEPT ![n] = NoObject]
      /\ UNCHANGED <<magic, internal_count, external_count, reftable, num_references, collect,
                     held, held_context>>
  <2>1. ToRelease(Call(t).obj) = <<x>>
    BY <1>n, <1>o DEF ToRelease
  <2>2. calls[t] \o <<x>> = Append(calls[t], x)
    BY <1>1 DEF IInv, CallsTyped
  <2> HIDE DEF x
  <2>3. calls' = [calls EXCEPT ![t] = calls[t] \o <<x>>]
    BY <2>1 DEF Destruct
  <2> QED
    BY <1>n, <2>2, <2>3 DEF Destruct
<1> HIDE DEF x
<1>3. PICK c : c[1] = t /\ Grown(c) /\ At(c)' = x
  BY <1>1, <1>2, PushCall DEF IInv
<1>4. CallsTyped'
  BY <1>1, <1>2, PushCall DEF IInv
<1>5. /\ UserCount(o)' = UserCount(o) - 1
      /\ \A p \in Object \ {o} : UserCount(p)' = UserCount(p)
      /\ uses'[n] = NoObject /\ \A m \in Object \ {n} : uses'[m] = uses[m]
      /\ uses' \in [Object -> Object \cup {NoObject}]
  BY <1>o, <1>2, UsersLess
<1>6. /\ IsFiniteSet(Places')
      /\ \A k, p : k # "internal" \/ p # o => Awaited(k, p)' = Awaited(k, p)
      /\ Awaited("internal", o)' = Awaited("internal", o) + 1
  <2>1. \A k, p : IsPending(At(c)', k, p) <=> k = "internal" /\ p = o
    BY <1>1, <1>3 DEF IsPending
  <2> QED
    BY <1>3, <2>1, CountGrown DEF IInv
<1>7. /\ Old("set") /\ Old("removed")
      /\ \A d \in Places' : At(d)'.at = "decrement" => d = c \/ (d \in Places /\ At(d)' = At(d))
      /\ \A p : Final(p)' = Final(p) /\ (BeingRemoved(p)' <=> BeingRemoved(p))
  BY <1>1, <1>3, GrownCalls
<1>8. o \in magic
  BY <1>o DEF IInv, UsesInv
<1>9. Typed' /\ HeldTyped' /\ Numbers'
  BY <1>2, <1>5 DEF IInv, Typed, HeldTyped, Numbers
<1>10. UsesInv'
  <2>1. \A d \in Places' : At(d)'.at = "decrement" => At(d)'.obj \in magic'
    BY <1>1, <1>2, <1>3, <1>7, <1>8 DEF IInv, UsesInv
  <2>2. \A m \in Object : uses'[m] # NoObject => uses'[m] = uses[m]
    BY <1>5
  <2> QED
    BY <1>2, <2>1, <2>2 DEF IInv, UsesInv
<1>11. SetInv'
  <2>1. \A m \in Object : uses[m] = NoObject => uses'[m] = NoObject
    BY <1>5
  <2>2. \A d \in Places : At(d).obj \in Object
    BY CallTyped DEF IInv, CallRecord
  <2> QED
    BY <1>2, <1>7, <2>1, <2>2 DEF IInv, SetInv, Old
<1>12. TableInv'
  BY <1>2, <1>7 DEF IInv, TableInv, InTable
<1>13. FinalInv'
  BY <1>2, <1>7 DEF IInv, FinalInv
<1>14. CountsInv'
  <2>1. \A p : RefCount(p)' = RefCount(p)
    BY <1>2 DEF RefCount, Refs
  <2>2. /\ UserCount(o) \in Nat /\ Awaited("internal", o) \in Nat
        /\ internal_count[o] = UserCount(o) + Awaited("internal", o)
    BY <1>8, CountsSay
  <2>3. internal_count[o] = UserCount(o)' + Awaited("internal", o)'
    BY <1>5, <1>6, <2>2
  <2>4. ASSUME NEW p \in magic
        PROVE  external_count[p] = RefCount(p)' + Awaited("external", p)'
    BY <1>6, <2>1 DEF IInv, CountsInv
  <2>5. ASSUME NEW p \in magic, p # o
        PROVE  internal_count[p] = UserCount(p)' + Awaited("internal", p)'
    <3>1. UserCount(p)' = UserCount(p) /\ Awaited("internal", p)' = Awaited("internal", p)
      BY <1>5, <1>6, <2>5 DEF IInv, Typed
    <3> QED
      BY <3>1 DEF IInv, CountsInv
  <2> QED
    BY <1>2, <2>3, <2>4, <2>5 DEF CountsInv
<1>15. ContextInv'
  <2>1. \A u \in Thread : calls'[u] # <<>> => calls[u] # <<>>
    BY <1>0, <1>2 DEF IInv, CallsTyped
  <2> QED
    BY <1>2, <2>1 DEF IInv, ContextInv
<1> QED
  BY <1>4, <1>6, <1>9, <1>10, <1>11, <1>12, <1>13, <1>14, <1>15 DEF IInv

\* vxReleaseReference: the reference of the thread becomes one that is being released.
LEMMA ReleaseReferenceKeeps ==
  ASSUME ReferenceParameters, IInv, NEW t \in Thread, NEW o \in Object, ReleaseReference(t, o)
  PROVE  IInv'
<1> DEFINE x == Release(o, "external")
<1>0. calls[t] = <<>> /\ t \in held_context /\ held[t][o] > 0
  BY DEF ReleaseReference, May, Has
<1>1. x \in CallRecord /\ x.at = "decrement" /\ x.obj = o /\ x.kind = "external"
  BY DEF Release, CallRecord
<1>2. /\ calls' = [calls EXCEPT ![t] = Append(calls[t], x)]
      /\ held' = [held EXCEPT ![t][o] = @ - 1]
      /\ UNCHANGED <<magic, internal_count, external_count, reftable, num_references, uses,
                     collect, held_context>>
  <2>1. <<x>> = Append(calls[t], x)
    BY <1>0
  <2> HIDE DEF x
  <2>2. calls' = [calls EXCEPT ![t] = <<x>>]
    BY DEF ReleaseReference, x
  <2> QED
    BY <2>1, <2>2 DEF ReleaseReference
<1> HIDE DEF x
<1>3. PICK c : c[1] = t /\ Grown(c) /\ At(c)' = x
  BY <1>1, <1>2, PushCall DEF IInv
<1>4. CallsTyped'
  BY <1>1, <1>2, PushCall DEF IInv
<1>5. /\ HeldTyped' /\ RefCount(o)' = RefCount(o) - 1
      /\ \A p \in Object \ {o} : RefCount(p)' = RefCount(p)
      /\ \A u \in Thread \ {t}, p \in Object : held'[u][p] = held[u][p]
      /\ \A u \in Thread, p \in Object : held[u][p] = 0 => held'[u][p] = 0
  BY <1>0, <1>2, RefsLess DEF IInv, RefCount
<1>6. /\ IsFiniteSet(Places')
      /\ \A k, p : k # "external" \/ p # o => Awaited(k, p)' = Awaited(k, p)
      /\ Awaited("external", o)' = Awaited("external", o) + 1
  <2>1. \A k, p : IsPending(At(c)', k, p) <=> k = "external" /\ p = o
    BY <1>1, <1>3 DEF IsPending
  <2> QED
    BY <1>3, <2>1, CountGrown DEF IInv
<1>7. /\ Old("set") /\ Old("removed")
      /\ \A d \in Places' : At(d)'.at = "decrement" => d = c \/ (d \in Places /\ At(d)' = At(d))
      /\ \A p : Final(p)' = Final(p) /\ (BeingRemoved(p)' <=> BeingRemoved(p))
  BY <1>1, <1>3, GrownCalls
<1>8. o \in magic
  BY <1>0, InUse
<1>9. Typed' /\ Numbers'
  BY <1>2 DEF IInv, Typed, Numbers
<1>10. UsesInv'
  <2>1. \A d \in Places' : At(d)'.at = "decrement" => At(d)'.obj \in magic'
    BY <1>1, <1>2, <1>3, <1>7, <1>8 DEF IInv, UsesInv
  <2>2. \A u \in Thread, p \in Object : held'[u][p] > 0 => p \in magic
    <3>1. \A u \in Thread, p \in Object : held[u][p] \in Nat
      BY DEF IInv, HeldTyped, ReferenceParameters
    <3>2. \A u \in Thread, p \in Object : held'[u][p] > 0 => held[u][p] > 0
      BY <1>5, <3>1
    <3> QED
      BY <3>2 DEF IInv, UsesInv
  <2> QED
    BY <1>2, <2>1, <2>2 DEF IInv, UsesInv
<1>11. SetInv'
  <2>1. \A d \in Places : /\ d[1] \in Thread \ {t} /\ At(d).obj \in Object
                          /\ At(d).value # NoObject => At(d).value \in Object
    BY <1>0, CallTyped DEF IInv, CallRecord
  <2> QED
    BY <1>2, <1>5, <1>7, <2>1 DEF IInv, SetInv, Old
<1>12. TableInv'
  BY <1>2, <1>7 DEF IInv, TableInv, InTable
<1>13. FinalInv'
  BY <1>2, <1>7 DEF IInv, FinalInv
<1>14. CountsInv'
  <2>1. \A p : UserCount(p)' = UserCount(p)
    BY <1>2 DEF UserCount, Users
  <2>2. /\ RefCount(o) \in Nat /\ Awaited("external", o) \in Nat
        /\ external_count[o] = RefCount(o) + Awaited("external", o)
    BY <1>8, CountsSay
  <2>3. external_count[o] = RefCount(o)' + Awaited("external", o)'
    BY <1>5, <1>6, <2>2
  <2>4. ASSUME NEW p \in magic
        PROVE  internal_count[p] = UserCount(p)' + Awaited("internal", p)'
    BY <1>6, <2>1 DEF IInv, CountsInv
  <2>5. ASSUME NEW p \in magic, p # o
        PROVE  external_count[p] = RefCount(p)' + Awaited("external", p)'
    <3>1. RefCount(p)' = RefCount(p) /\ Awaited("external", p)' = Awaited("external", p)
      BY <1>5, <1>6, <2>5 DEF IInv, Typed
    <3> QED
      BY <3>1 DEF IInv, CountsInv
  <2> QED
    BY <1>2, <2>3, <2>4, <2>5 DEF CountsInv
<1>15. ContextInv'
  <2>1. \A u \in Thread : calls'[u] # <<>> => calls[u] # <<>> \/ u = t
    BY <1>2 DEF IInv, CallsTyped
  <2>2. \A i \in Index : reftable[i] # NoObject => reftable[i] \in Object
    BY DEF IInv, Typed
  <2> QED
    BY <1>0, <1>2, <1>5, <2>1, <2>2 DEF IInv, ContextInv
<1> QED
  BY <1>4, <1>5, <1>6, <1>9, <1>10, <1>11, <1>12, <1>13, <1>14, <1>15 DEF IInv

-----------------------------------------------------------------------------
(* The parameters of nodes, new objects and new references                   *)

SetBegun(t, o, v) ==
    \E c : /\ c[1] = t /\ c \notin Places /\ c \in Places' /\ At(c)' = SetValue(o, v)
           /\ \A d \in Places' : At(d)'.at = "set" => d = c \/ (d \in Places /\ At(d)' = At(d))

\* The calls when ownNodeSetParameter begins: one that will set the new value, and within
\* it one that releases the old value, if there is one.
LEMMA SetCalls ==
  ASSUME ReferenceParameters, IInv, NEW t \in Thread, NEW o \in Object, NEW v \in Object,
         calls[t] = <<>>, calls' = [calls EXCEPT ![t] = <<SetValue(o, v)>> \o ToRelease(o)]
  PROVE  /\ CallsTyped' /\ IsFiniteSet(Places')
         /\ SetBegun(t, o, v)
         /\ Places \subseteq Places' /\ \A d \in Places : At(d)' = At(d)
         /\ \A d \in Places' : At(d)'.at = "decrement" =>
               (uses[o] # NoObject /\ At(d)'.obj = uses[o]) \/ (d \in Places /\ At(d)' = At(d))
         /\ \A p : Final(p)' = Final(p) /\ (BeingRemoved(p)' <=> BeingRemoved(p))
         /\ \A k, p : k # "internal" \/ p # uses[o] => Awaited(k, p)' = Awaited(k, p)
         /\ \A p : p = uses[o] => Awaited("internal", p)'
               = IF p = NoObject THEN Awaited("internal", p) ELSE Awaited("internal", p) + 1
<1> DEFINE x == SetValue(o, v)
<1>1. x \in CallRecord /\ x.at = "set"
  BY DEF SetValue, CallRecord
<1>2. CASE uses[o] = NoObject
  <2>1. calls' = [calls EXCEPT ![t] = Append(calls[t], x)]
    <3>1. ToRelease(o) = <<>>
      BY <1>2 DEF ToRelease
    <3>2. <<x>> \o <<>> = Append(<<>>, x)
      BY <1>1
    <3> QED
      BY <3>1, <3>2
  <2> HIDE DEF x
  <2>2. CallsTyped' /\ \E c : c[1] = t /\ Grown(c) /\ At(c)' = x
    BY <1>1, <2>1, PushCall DEF IInv
  <2>3. PICK c : c[1] = t /\ Grown(c) /\ At(c)' = x
    BY <2>2
  <2>4. IsFiniteSet(Places') /\ \A k, p : Awaited(k, p)' = Awaited(k, p)
    BY <1>1, <2>3, CountGrown DEF IInv, IsPending
  <2>5. \A p : Final(p)' = Final(p)
    BY <1>1, <2>3, AfterGrown DEF IsFinal
  <2>6. \A p : BeingRemoved(p)' <=> BeingRemoved(p)
    BY <1>1, <2>3 DEF Grown, BeingRemoved
  <2>7. Places' = Places \cup {c} /\ c \notin Places /\ \A d \in Places : At(d)' = At(d)
    BY <2>3 DEF Grown
  <2>8. \A d \in Places' : At(d)'.at = "set" => d = c \/ (d \in Places /\ At(d)' = At(d))
    BY <2>7
  <2>9. SetBegun(t, o, v)
    BY <2>3, <2>7, <2>8 DEF SetBegun, x
  <2>10. /\ Places \subseteq Places' /\ \A d \in Places : At(d)' = At(d)
         /\ \A d \in Places' : At(d)'.at = "decrement" => d \in Places /\ At(d)' = At(d)
    BY <1>1, <2>3, <2>7
  <2> QED
    BY <1>2, <2>2, <2>4, <2>5, <2>6, <2>9, <2>10
<1>3. CASE uses[o] # NoObject
  <2>0. PICK w \in Object : w = uses[o]
    BY <1>3 DEF IInv, Typed
  <2> DEFINE y == Release(w, "internal")
  <2>1. y \in CallRecord /\ y.at = "decrement" /\ y.obj = w /\ y.kind = "internal"
    BY DEF Release, CallRecord
  <2>2. calls' = [calls EXCEPT ![t] = Append(Append(calls[t], x), y)]
    <3>1. ToRelease(o) = <<y>>
      BY <1>3, <2>0 DEF ToRelease
    <3> HIDE DEF x, y
    <3>2. <<x>> \o <<y>> = Append(<<x>>, y) /\ Append(calls[t], x) = <<x>>
      BY <1>1, <2>1
    <3> QED
      BY <3>1, <3>2 DEF x
  <2> HIDE DEF x, y
  <2>3. CallsTyped'
    BY <1>1, <2>1, <2>2, PushTwo DEF IInv
  <2>p. PICK c, d : c[1] = t /\ GrownTwo(c, d) /\ At(c)' = x /\ At(d)' = y
    <3>1. CallsTyped /\ t \in Thread /\ x \in CallRecord /\ y \in CallRecord
      BY <1>1, <2>1 DEF IInv
    <3>2. TwoGrown(t, x, y)
      BY <3>1, <2>2, PushTwo
    <3> QED
      BY <3>2 DEF TwoGrown
  <2>4. /\ c[1] = t /\ c # d /\ c \notin Places /\ d \notin Places
        /\ Places' = Places \cup {c, d} /\ At(c)' = x /\ At(d)' = y
        /\ \A e \in Places : At(e)' = At(e)
    BY <2>p DEF GrownTwo
  <2>5. IsFiniteSet(Places')
    <3>1. IsFiniteSet(Places \cup {c})
      BY FS_AddElement DEF IInv
    <3>2. IsFiniteSet((Places \cup {c}) \cup {d})
      BY <3>1, FS_AddElement
    <3>3. Places' = (Places \cup {c}) \cup {d}
      BY <2>4
    <3> QED
      BY <3>2, <3>3
  <2>6. \A k, p : k # "internal" \/ p # w => Pending(k, p)' = Pending(k, p)
    BY <1>1, <2>1, <2>4, PendingAre DEF IsPending
  <2>7. Pending("internal", w)' = Pending("internal", w) \cup {d} /\ d \notin Pending("internal", w)
    BY <1>1, <2>1, <2>4, PendingAre DEF IsPending
  <2>8. Awaited("internal", w)' = Awaited("internal", w) + 1
    <3>1. IsFiniteSet(Pending("internal", w))
      BY PendingFinite DEF IInv
    <3>2. Cardinality(Pending("internal", w) \cup {d}) = Cardinality(Pending("internal", w)) + 1
      BY <2>7, <3>1, FS_AddElement
    <3> QED
      BY <2>7, <3>2 DEF Awaited
  <2>9. \A p : Final(p)' = Final(p)
    BY <1>1, <2>1, <2>4, PendingAre DEF IsFinal
  <2>10. \A p : BeingRemoved(p)' <=> BeingRemoved(p)
    BY <1>1, <2>1, <2>4 DEF BeingRemoved
  <2>11. \A k, p : k # "internal" \/ p # w => Awaited(k, p)' = Awaited(k, p)
    BY <2>6 DEF Awaited
  <2>12. \A e \in Places' : At(e)'.at = "set" => e = c \/ (e \in Places /\ At(e)' = At(e))
    BY <2>1, <2>4
  <2>13. \A e \in Places' : At(e)'.at = "decrement" =>
             At(e)'.obj = w \/ (e \in Places /\ At(e)' = At(e))
    BY <1>1, <2>1, <2>4
  <2>14. c \in Places' /\ Places \subseteq Places'
    BY <2>4
  <2>15. SetBegun(t, o, v)
    BY <2>4, <2>12, <2>14 DEF x, SetBegun
  <2>16. /\ \A k, p : k # "internal" \/ p # uses[o] => Awaited(k, p)' = Awaited(k, p)
         /\ \A e \in Places' : At(e)'.at = "decrement" =>
              At(e)'.obj = uses[o] \/ (e \in Places /\ At(e)' = At(e))
         /\ \A e \in Places : At(e)' = At(e)
    BY <2>0, <2>4, <2>11, <2>13
  <2>17. \A p : p = uses[o] => Awaited("internal", p)'
             = IF p = NoObject THEN Awaited("internal", p) ELSE Awaited("internal", p) + 1
    BY <1>3, <2>0, <2>8
  <2> QED
    BY <1>3, <2>0, <2>3, <2>5, <2>9, <2>10, <2>14, <2>15, <2>16, <2>17
<1> QED
  BY <1>2, <1>3

\* ownAddReferenceToContext takes the first free entry of the table: there is one.
LEMMA FirstFree ==
  ASSUME NEW S \in SUBSET Nat, S # {}
  PROVE  Min(S) \in S
<1> DEFINE R == {ss \in Nat \X Nat : ss[1] < ss[2]}
<1>0. OpToRel(<, Nat) = R
  BY Zenon DEF OpToRel
<1>1. IsWellFoundedOn(R, Nat)
  BY <1>0, NatLessThanWellFounded
<1>2. PICK x \in S : \A y \in S : ~ (<<y, x>> \in R)
  BY <1>1, WFMin
<1>3. ASSUME NEW y \in S PROVE x <= y
  <2>1. <<y, x>> \notin R
    BY <1>2
  <2>2. x \in Nat /\ y \in Nat /\ ~(y < x)
    BY <2>1
  <2> QED
    BY <2>2
<1> QED
  BY <1>3 DEF Min

\* The beginning of ownNodeSetParameter: the old value of the node is released, and the new
\* one is not counted yet.
LEMMA SetParameterKeeps ==
  ASSUME ReferenceParameters, IInv, NEW t \in Thread, NEW o \in Object, NEW v \in Object,
         SetParameter(t, o, v)
  PROVE  IInv'
<1>1. /\ calls[t] = <<>> /\ t \in held_context /\ held[t][o] > 0 /\ held[t][v] > 0 /\ v \in Used[o]
      /\ \A u \in Thread : \A k \in DOMAIN calls[u] : calls[u][k].at = "set" => calls[u][k].obj # o
      /\ calls' = [calls EXCEPT ![t] = <<SetValue(o, v)>> \o ToRelease(o)]
      /\ uses' = [uses EXCEPT ![o] = NoObject]
      /\ UNCHANGED <<magic, internal_count, external_count, reftable, num_references, collect,
                     held, held_context>>
  BY DEF SetParameter, May, Has
<1>2. /\ CallsTyped' /\ IsFiniteSet(Places')
      /\ Places \subseteq Places' /\ \A d \in Places : At(d)' = At(d)
      /\ \A d \in Places' : At(d)'.at = "decrement" =>
            (uses[o] # NoObject /\ At(d)'.obj = uses[o]) \/ (d \in Places /\ At(d)' = At(d))
      /\ \A p : Final(p)' = Final(p) /\ (BeingRemoved(p)' <=> BeingRemoved(p))
      /\ \A k, p : k # "internal" \/ p # uses[o] => Awaited(k, p)' = Awaited(k, p)
      /\ \A p : p = uses[o] => Awaited("internal", p)'
            = IF p = NoObject THEN Awaited("internal", p) ELSE Awaited("internal", p) + 1
  BY <1>1, SetCalls
<1>3. PICK c : /\ c[1] = t /\ c \notin Places /\ c \in Places' /\ At(c)' = SetValue(o, v)
               /\ \A d \in Places' : At(d)'.at = "set" => d = c \/ (d \in Places /\ At(d)' = At(d))
  <2>1. SetBegun(t, o, v)
    BY <1>1, SetCalls
  <2> QED
    BY <2>1 DEF SetBegun
<1>4. /\ uses'[o] = NoObject /\ \A n \in Object \ {o} : uses'[n] = uses[n]
      /\ uses' \in [Object -> Object \cup {NoObject}]
  BY <1>1 DEF IInv, Typed
<1>5. Typed' /\ HeldTyped' /\ Numbers'
  BY <1>1, <1>4 DEF IInv, Typed, HeldTyped, Numbers
<1>6. UsesInv'
  <2>1. \A d \in Places' : At(d)'.at = "decrement" => At(d)'.obj \in magic'
    BY <1>1, <1>2 DEF IInv, UsesInv
  <2>2. \A m \in Object : uses'[m] # NoObject => uses'[m] = uses[m]
    BY <1>4
  <2> QED
    BY <1>1, <2>1, <2>2 DEF IInv, UsesInv
<1>7. SetInv'
  <2>1. \A d \in Places : At(d).at = "set" => At(d).obj \in Object \ {o}
    <3>1. ASSUME NEW d \in Places, At(d).at = "set" PROVE At(d).obj # o
      BY <1>1, <3>1, PlacesAre DEF At
    <3> QED
      BY <3>1, CallTyped DEF IInv, CallRecord
  <2>2. /\ At(c)'.at = "set" /\ At(c)'.obj = o /\ At(c)'.value = v
    BY <1>3 DEF SetValue
  <2>3. v # NoObject
    BY DEF ReferenceParameters
  <2>4. ASSUME NEW d \in Places', At(d)'.at = "set", d # c
        PROVE  /\ d \in Places /\ At(d)' = At(d) /\ At(d).at = "set" /\ At(d).obj # o
               /\ uses'[At(d).obj] = uses[At(d).obj]
    BY <1>3, <1>4, <2>1, <2>4
  <2>5. ASSUME NEW d \in Places', At(d)'.at = "set", d # c
        PROVE  /\ At(d)'.value \in Used[At(d)'.obj] /\ At(d)'.value # NoObject
               /\ held'[d[1]][At(d)'.value] > 0 /\ held'[d[1]][At(d)'.obj] > 0
               /\ uses'[At(d)'.obj] = NoObject
               /\ \A e \in Places' : At(e)'.at = "set" /\ At(e)'.obj = At(d)'.obj => e = d
    BY <1>1, <2>2, <2>4, <2>5 DEF IInv, SetInv
  <2>6. \A e \in Places' : At(e)'.at = "set" /\ At(e)'.obj = o => e = c
    BY <2>4
  <2>7. /\ At(c)'.value \in Used[At(c)'.obj] /\ At(c)'.value # NoObject
        /\ held'[c[1]][At(c)'.value] > 0 /\ held'[c[1]][At(c)'.obj] > 0
        /\ uses'[At(c)'.obj] = NoObject
        /\ \A e \in Places' : At(e)'.at = "set" /\ At(e)'.obj = At(c)'.obj => e = c
    BY <1>1, <1>3, <1>4, <2>2, <2>3, <2>6
  <2> QED
    BY <2>5, <2>7 DEF SetInv
<1>8. TableInv'
  BY <1>1, <1>2 DEF IInv, TableInv, InTable
<1>9. FinalInv'
  BY <1>1, <1>2 DEF IInv, FinalInv
<1>10. CountsInv'
  <2>1. \A p : RefCount(p)' = RefCount(p)
    BY <1>1 DEF RefCount, Refs
  <2>2. ASSUME NEW p \in magic
        PROVE  external_count[p] = RefCount(p)' + Awaited("external", p)'
    BY <1>2, <2>1 DEF IInv, CountsInv
  <2>3. ASSUME NEW p \in magic
        PROVE  internal_count[p] = UserCount(p)' + Awaited("internal", p)'
    <3>0. /\ p \in Object /\ p # NoObject /\ UserCount(p) \in Nat /\ Awaited("internal", p) \in Nat
          /\ internal_count[p] = UserCount(p) + Awaited("internal", p)
      BY CountsSay DEF IInv, Typed, ReferenceParameters
    <3>1. CASE uses[o] = p
      <4>1. UserCount(p)' = UserCount(p) - 1
        BY <1>1, <3>0, <3>1, UsersLess
      <4>2. Awaited("internal", p)' = Awaited("internal", p) + 1
        BY <1>2, <3>0, <3>1
      <4> QED
        BY <3>0, <4>1, <4>2
    <3>2. CASE uses[o] # p
      <4>1. Users(p)' = Users(p)
        BY <1>1, <1>4, <3>0, <3>2 DEF Users, IInv, Typed
      <4>2. Awaited("internal", p)' = Awaited("internal", p)
        BY <1>2, <3>2
      <4> QED
        BY <3>0, <4>1, <4>2 DEF UserCount
    <3> QED
      BY <3>1, <3>2
  <2> QED
    BY <1>1, <2>2, <2>3 DEF CountsInv
<1>11. ContextInv'
  <2>1. \A u \in Thread : calls'[u] # <<>> => calls[u] # <<>> \/ u = t
    BY <1>1 DEF IInv, CallsTyped
  <2> QED
    BY <1>1, <2>1 DEF IInv, ContextInv
<1> QED
  BY <1>2, <1>5, <1>6, <1>7, <1>8, <1>9, <1>10, <1>11 DEF IInv

\* While no call moves, the calls are what they were.
LEMMA SameCalls ==
  ASSUME IInv, calls' = calls
  PROVE  /\ CallsTyped' /\ IsFiniteSet(Places') /\ Places' = Places
         /\ \A c : At(c)' = At(c)
         /\ \A p : Final(p)' = Final(p) /\ (BeingRemoved(p)' <=> BeingRemoved(p))
         /\ \A k, p : Awaited(k, p)' = Awaited(k, p)
<1>1. Places' = Places /\ \A c : At(c)' = At(c)
  BY DEF Places, At
<1>2. /\ \A p : Final(p)' = Final(p)
      /\ \A k, p : Pending(k, p)' = Pending(k, p)
  BY <1>1, PendingAre
<1>3. \A p : BeingRemoved(p)' <=> BeingRemoved(p)
  BY <1>1 DEF BeingRemoved
<1> QED
  BY <1>1, <1>2, <1>3 DEF IInv, CallsTyped, Awaited

\* vxRetainReference
LEMMA RetainKeeps ==
  ASSUME ReferenceParameters, IInv, NEW t \in Thread, NEW u \in Thread, NEW o \in Object,
         Retain(t, u, o)
  PROVE  IInv'
<1>1. /\ calls' = calls /\ held[t][o] > 0 /\ t \in held_context /\ u \in held_context
      /\ held[u][o] < MaxHeld
      /\ external_count' = [external_count EXCEPT ![o] = @ + 1]
      /\ held' = [held EXCEPT ![u][o] = @ + 1]
      /\ UNCHANGED <<magic, internal_count, reftable, num_references, uses, collect,
                     held_context>>
  BY DEF Retain, May, Has
<1>2. o \in magic /\ Final(o) = {}
  BY <1>1, InUse
<1>3. /\ HeldTyped' /\ RefCount(o)' = RefCount(o) + 1
      /\ \A p \in Object \ {o} : RefCount(p)' = RefCount(p)
      /\ \A w \in Thread, p \in Object : held[w][p] > 0 => held'[w][p] > 0
      /\ \A w \in Thread, p \in Object : p # o => held'[w][p] = held[w][p]
  BY <1>1, RefsMore DEF IInv, RefCount
<1>4. /\ external_count'[o] = external_count[o] + 1 /\ external_count[o] \in Nat
      /\ external_count' \in [Object -> Nat]
      /\ \A p \in Object \ {o} : external_count'[p] = external_count[p]
  BY <1>1 DEF IInv, Typed
<1>5. Typed' /\ Numbers'
  BY <1>1, <1>4 DEF IInv, Typed, Numbers
<1>6. UsesInv'
  <2>1. \A w \in Thread, p \in Object : held'[w][p] > 0 => p \in magic
    BY <1>2, <1>3 DEF IInv, UsesInv
  <2> QED
    BY <1>1, <2>1, SameCalls DEF IInv, UsesInv
<1>7. SetInv'
  <2>1. \A d \in Places : /\ d[1] \in Thread /\ At(d).obj \in Object
                          /\ At(d).value # NoObject => At(d).value \in Object
    BY CallTyped DEF IInv, CallRecord
  <2> QED
    BY <1>1, <1>3, <2>1, SameCalls DEF IInv, SetInv
<1>8. TableInv'
  BY <1>1, SameCalls DEF IInv, TableInv, InTable
<1>9. FinalInv'
  <2>1. external_count'[o] # 0
    BY <1>4
  <2> QED
    BY <1>1, <1>2, <1>4, <2>1, SameCalls DEF IInv, FinalInv
<1>10. CountsInv'
  <2>1. \A p : UserCount(p)' = UserCount(p) /\ \A k : Awaited(k, p)' = Awaited(k, p)
    BY <1>1, SameCalls DEF UserCount, Users
  <2>2. ASSUME NEW p \in magic
        PROVE  internal_count[p] = UserCount(p)' + Awaited("internal", p)'
    BY <2>1 DEF IInv, CountsInv
  <2>3. /\ RefCount(o) \in Nat /\ Awaited("external", o) \in Nat
        /\ external_count[o] = RefCount(o) + Awaited("external", o)
    BY <1>2, CountsSay
  <2>4. external_count'[o] = RefCount(o)' + Awaited("external", o)'
    BY <1>3, <1>4, <2>1, <2>3
  <2>5. ASSUME NEW p \in magic, p # o
        PROVE  external_count'[p] = RefCount(p)' + Awaited("external", p)'
    <3>1. /\ external_count'[p] = external_count[p] /\ RefCount(p)' = RefCount(p)
          /\ Awaited("external", p)' = Awaited("external", p)
      BY <1>3, <1>4, <2>1, <2>5 DEF IInv, Typed
    <3> QED
      BY <3>1 DEF IInv, CountsInv
  <2> QED
    BY <1>1, <2>2, <2>4, <2>5 DEF CountsInv
<1>11. ContextInv'
  <2>1. collect.thread = NoThread /\ collect.at = 1
    BY <1>1 DEF IInv, ContextInv
  <2> QED
    BY <1>1, <2>1 DEF IInv, ContextInv, Index
<1> QED
  BY <1>1, <1>3, <1>5, <1>6, <1>7, <1>8, <1>9, <1>10, <1>11, SameCalls DEF IInv

\* ownCreateReference: what is said of the counts of an earlier object in the same
\* memory is over.
LEMMA CreateKeeps ==
  ASSUME ReferenceParameters, IInv, NEW t \in Thread, NEW o \in Object, Create(t, o)
  PROVE  IInv'
<1> DEFINE free == {i \in Index : reftable[i] = NoObject}
<1>1. /\ calls' = calls /\ t \in held_context /\ o \notin magic /\ magic' = magic \cup {o}
      /\ internal_count' = [internal_count EXCEPT ![o] = 0]
      /\ external_count' = [external_count EXCEPT ![o] = 1]
      /\ num_references' = num_references + 1
      /\ held' = [held EXCEPT ![t][o] = @ + 1]
      /\ UNCHANGED <<uses, collect, held_context>>
  BY DEF Create, May
<1>2. PICK i \in Index : reftable[i] = NoObject /\ reftable' = [reftable EXCEPT ![i] = o]
  <2>1. free # {} /\ free \in SUBSET Nat
    BY DEF Create, Index
  <2> HIDE DEF free
  <2>2. Min(free) \in free
    BY <2>1, FirstFree
  <2> QED
    BY <2>2 DEF Create, free
<1> HIDE DEF free
<1>3. /\ reftable'[i] = o /\ \A j \in Index \ {i} : reftable'[j] = reftable[j]
      /\ reftable' \in [Index -> Object \cup {NoObject}]
  BY <1>2 DEF IInv, Typed
<1>4. /\ internal_count'[o] = 0 /\ external_count'[o] = 1
      /\ internal_count' \in [Object -> Nat] /\ external_count' \in [Object -> Nat]
      /\ \A p \in Object \ {o} : /\ internal_count'[p] = internal_count[p]
                                 /\ external_count'[p] = external_count[p]
  BY <1>1 DEF IInv, Typed
<1>5. /\ \A u \in Thread : held[u][o] = 0
      /\ \A n \in Object : uses[n] # o
      /\ uses[o] = NoObject
      /\ Final(o) = {} /\ ~BeingRemoved(o)
      /\ \A k : Pending(k, o) = {}
      /\ ~InTable(o)
  <2>1. \A u \in Thread : held[u][o] \in Nat
    BY DEF IInv, HeldTyped, ReferenceParameters
  <2>2. \A u \in Thread : held[u][o] = 0
    BY <1>1, <2>1 DEF IInv, UsesInv
  <2>3. \A n \in Object : uses[n] # o /\ uses[o] = NoObject
    BY <1>1 DEF IInv, UsesInv, ReferenceParameters
  <2>4. Final(o) = {}
    BY <1>1, Unused
  <2>5. ~BeingRemoved(o)
    BY <2>4, PendingAre DEF BeingRemoved, IsFinal
  <2>6. \A k : Pending(k, o) = {}
    BY <1>1, PendingAre DEF IsPending, IInv, UsesInv
  <2>7. ~InTable(o)
    BY <1>1 DEF IInv, TableInv, InTable, ReferenceParameters
  <2> QED
    BY <2>2, <2>3, <2>4, <2>5, <2>6, <2>7
<1>6. held[t][o] < MaxHeld
  BY <1>5 DEF ReferenceParameters
<1>7. /\ HeldTyped' /\ RefCount(o)' = RefCount(o) + 1
      /\ \A p \in Object \ {o} : RefCount(p)' = RefCount(p)
      /\ \A w \in Thread, p \in Object : held[w][p] > 0 => held'[w][p] > 0
      /\ \A w \in Thread, p \in Object : p # o => held'[w][p] = held[w][p]
  BY <1>1, <1>6, RefsMore DEF IInv, RefCount
<1>8. Typed'
  BY <1>1, <1>3, <1>4 DEF IInv, Typed
<1>9. Numbers'
  <2> DEFINE full == {j \in Index : reftable[j] # NoObject}
  <2>1. {j \in Index : reftable'[j] # NoObject} = full \cup {i} /\ i \notin full
    BY <1>2, <1>3 DEF ReferenceParameters
  <2>2. IsFiniteSet(Index)
    BY FS_Interval DEF Index, ReferenceParameters
  <2>3. IsFiniteSet(full)
    BY <2>2, FS_Subset
  <2> HIDE DEF full
  <2>4. Cardinality(full \cup {i}) = Cardinality(full) + 1
    BY <2>1, <2>3, FS_AddElement
  <2> QED
    BY <1>1, <2>1, <2>4 DEF IInv, Numbers, full
<1>10. UsesInv'
  <2>1. \A w \in Thread, p \in Object : held'[w][p] > 0 => p \in magic'
    BY <1>1, <1>7 DEF IInv, UsesInv
  <2> QED
    BY <1>1, <2>1, SameCalls DEF IInv, UsesInv
<1>11. SetInv'
  <2>1. \A d \in Places : /\ d[1] \in Thread /\ At(d).obj \in Object
                          /\ At(d).value # NoObject => At(d).value \in Object
    BY CallTyped DEF IInv, CallRecord
  <2> QED
    BY <1>1, <1>7, <2>1, SameCalls DEF IInv, SetInv
<1>12. TableInv'
  <2>1. \A p \in magic' : InTable(p)' <=> ~BeingRemoved(p)'
    <3>1. InTable(o)' /\ ~BeingRemoved(o)'
      BY <1>1, <1>3, <1>5, SameCalls DEF InTable
    <3>2. ASSUME NEW p \in magic PROVE InTable(p)' <=> ~BeingRemoved(p)'
      <4>1. p # o /\ p # NoObject
        BY <1>1 DEF IInv, Typed, ReferenceParameters
      <4>2. InTable(p)' <=> InTable(p)
        BY <1>2, <1>3, <4>1 DEF InTable
      <4> QED
        BY <1>1, <4>2, SameCalls DEF IInv, TableInv
    <3> QED
      BY <1>1, <3>1, <3>2
  <2>2. \A j \in Index : j # i => reftable'[j] # o
    BY <1>3, <1>5 DEF InTable
  <2>3. \A j, k \in Index : reftable'[j] # NoObject /\ reftable'[j] = reftable'[k] => j = k
    BY <1>3, <2>2 DEF IInv, TableInv
  <2>4. \A j \in Index : reftable'[j] # NoObject => reftable'[j] \in magic'
    BY <1>1, <1>3 DEF IInv, TableInv
  <2> QED
    BY <2>1, <2>3, <2>4 DEF TableInv
<1>13. FinalInv'
  BY <1>1, <1>4, <1>5, SameCalls DEF IInv, FinalInv
<1>14. CountsInv'
  <2>1. \A p \in Object : UserCount(p)' = UserCount(p)
    <3>1. \A p \in Object : Users(p)' = Users(p)
      BY <1>1, <1>5 DEF Users, ReferenceParameters
    <3> QED
      BY <3>1 DEF UserCount
  <2>2. \A k, p : Awaited(k, p)' = Awaited(k, p)
    BY <1>1, SameCalls
  <2>3. ASSUME NEW p \in magic
        PROVE  /\ internal_count'[p] = UserCount(p)' + Awaited("internal", p)'
               /\ external_count'[p] = RefCount(p)' + Awaited("external", p)'
    <3>1. p \in Object \ {o}
      BY <1>1 DEF IInv, Typed
    <3>2. /\ internal_count'[p] = internal_count[p] /\ external_count'[p] = external_count[p]
          /\ UserCount(p)' = UserCount(p) /\ RefCount(p)' = RefCount(p)
      BY <1>4, <1>7, <2>1, <3>1
    <3> QED
      BY <2>2, <3>2 DEF IInv, CountsInv
  <2>4. /\ internal_count'[o] = UserCount(o)' + Awaited("internal", o)'
        /\ external_count'[o] = RefCount(o)' + Awaited("external", o)'
    <3>1. Awaited("internal", o) = 0 /\ Awaited("external", o) = 0
      BY <1>5, FS_EmptySet DEF Awaited
    <3>2. UserCount(o) = 0
      <4>1. Users(o) = {}
        BY <1>5 DEF Users, IInv, Typed
      <4> QED
        BY <4>1, FS_EmptySet DEF UserCount
    <3>3. RefCount(o) = 0
      BY <1>5, RefsFinite DEF IInv, RefCount
    <3> QED
      BY <1>4, <1>7, <2>1, <2>2, <3>1, <3>2, <3>3
  <2> QED
    BY <1>1, <2>3, <2>4 DEF CountsInv
<1>15. ContextInv'
  <2>1. collect.thread = NoThread /\ collect.at = 1
    BY <1>1 DEF IInv, ContextInv
  <2> QED
    BY <1>1, <2>1 DEF IInv, ContextInv, Index
<1> QED
  BY <1>1, <1>7, <1>8, <1>9, <1>10, <1>11, <1>12, <1>13, <1>14, <1>15, SameCalls DEF IInv

-----------------------------------------------------------------------------
(* The context                                                               *)

\* Before the first context there is nothing that the invariant is about.
LEMMA InitIInv ==
  ASSUME ReferenceParameters, Init
  PROVE  IInv
<1>1. Places = {}
  <2>1. \A t \in Thread : DOMAIN calls[t] = {}
    BY DEF Init
  <2> QED
    BY <2>1, PlacesAre
<1>2. CallsTyped
  BY DEF Init, CallsTyped
<1>3. Typed
  BY DEF Init, Typed, ReferenceParameters
<1>4. HeldTyped
  BY DEF Init, HeldTyped, ReferenceParameters
<1>5. Numbers
  <2>1. {i \in Index : reftable[i] # NoObject} = {} /\ num_references = 0
    BY DEF Init
  <2> QED
    BY <2>1, FS_EmptySet DEF Numbers
<1>6. IsFiniteSet(Places)
  BY <1>1, FS_EmptySet
<1>7. UsesInv /\ SetInv
  BY <1>1 DEF Init, UsesInv, SetInv
<1>8. TableInv
  BY DEF Init, TableInv
<1>9. FinalInv
  BY <1>1, PendingAre DEF Init, FinalInv
<1>10. CountsInv
  BY DEF Init, CountsInv
<1>11. ContextInv
  BY DEF Init, ContextInv
<1> QED
  BY <1>2, <1>3, <1>4, <1>5, <1>6, <1>7, <1>8, <1>9, <1>10, <1>11 DEF IInv

\* While the last vxReleaseContext collects, no other thread is in a call.
LEMMA OnlyCollects ==
  ASSUME ReferenceParameters, IInv, NEW t \in Thread, collect.thread = t, calls[t] = <<>>
  PROVE  Places = {} /\ \A u \in Thread : calls[u] = <<>>
<1>1. \A u \in Thread : calls[u] = <<>>
  BY DEF IInv, ContextInv, ReferenceParameters
<1>2. Places = {}
  BY <1>1, PlacesAre
<1> QED
  BY <1>1, <1>2

\* When it has been through the table nothing is left: an object that is left has no
\* reference of the application, so another object that is left refers to it, and the use
\* of objects has no cycles.
LEMMA NothingLeft ==
  ASSUME ReferenceParameters, IInv, NEW t \in Thread, Collected(t)
  PROVE  magic = {} /\ num_references = 0
<1>1. collect.thread = t /\ calls[t] = <<>> /\ collect.at = TableSize + 1
  BY DEF Collected
<1>2. Places = {}
  BY <1>1, OnlyCollects
<1>3. ASSUME NEW o \in magic
      PROVE  \E n \in magic : o \in Used[n]
  <2>1. ~BeingRemoved(o) /\ Final(o) = {}
    BY <1>2, PendingAre DEF BeingRemoved
  <2>2. PICK i \in Index : reftable[i] = o
    BY <2>1 DEF IInv, TableInv, InTable
  <2>3. o \in Object /\ o # NoObject
    BY DEF IInv, Typed, ReferenceParameters
  <2>4. i < collect.at
    BY <1>1 DEF Index, ReferenceParameters
  <2>5. \A u \in Thread : held[u][o] = 0
    BY <2>2, <2>3, <2>4 DEF IInv, ContextInv
  <2>6. RefCount(o) = 0
    BY <2>3, <2>5, RefsFinite DEF IInv, RefCount
  <2>7. Awaited("external", o) = 0 /\ Awaited("internal", o) = 0
    <3>1. \A k : Pending(k, o) = {}
      BY <1>2, PendingAre
    <3> QED
      BY <3>1, FS_EmptySet DEF Awaited
  <2>8. external_count[o] = 0
    BY <2>6, <2>7, CountsSay
  <2>9. internal_count[o] # 0
    BY <2>1, <2>3, <2>8 DEF IInv, FinalInv
  <2>10. UserCount(o) # 0
    BY <2>7, <2>9, CountsSay
  <2>11. Users(o) # {}
    BY <2>3, <2>10, UsersFinite DEF IInv
  <2> QED
    BY <2>3, <2>11 DEF Users, IInv, UsesInv, Typed
<1>4. magic = {}
  BY <1>3 DEF IInv, Typed, ReferenceParameters
<1>5. {i \in Index : reftable[i] # NoObject} = {}
  BY <1>4 DEF IInv, TableInv
<1>6. num_references = 0
  BY <1>5, FS_EmptySet DEF IInv, Numbers
<1> QED
  BY <1>4, <1>6

\* vxCreateContext: a first context finds no object of an earlier one.
LEMMA CreateContextKeeps ==
  ASSUME ReferenceParameters, IInv, NEW t \in Thread, CreateContext(t)
  PROVE  IInv'
<1>1. /\ collect.thread = NoThread /\ held_context' = held_context \cup {t}
      /\ calls' = calls
      /\ UNCHANGED <<magic, internal_count, external_count, uses, collect, held>>
  BY DEF CreateContext
<1>2. /\ UsesInv' /\ SetInv' /\ FinalInv'
  BY <1>1, SameCalls DEF IInv, UsesInv, SetInv, FinalInv
<1>3. CountsInv'
  BY <1>1, SameCalls DEF IInv, CountsInv, UserCount, Users, RefCount, Refs
<1>4. HeldTyped'
  BY <1>1 DEF IInv, HeldTyped
<1>5. Typed' /\ Numbers' /\ TableInv'
  <2>1. CASE held_context = {}
    <3>1. magic = {}
      BY <1>1, <2>1 DEF IInv, ContextInv
    <3>2. reftable' = [i \in Index |-> NoObject] /\ num_references' = 0
      BY <2>1 DEF CreateContext
    <3>3. {i \in Index : reftable'[i] # NoObject} = {}
      BY <3>2
    <3>4. Numbers'
      BY <3>2, <3>3, FS_EmptySet DEF Numbers
    <3>5. TableInv'
      BY <1>1, <3>1, <3>2 DEF TableInv
    <3> QED
      BY <1>1, <3>2, <3>4, <3>5 DEF IInv, Typed
  <2>2. CASE held_context # {}
    <3>1. UNCHANGED <<reftable, num_references>>
      BY <2>2 DEF CreateContext
    <3> QED
      BY <1>1, <3>1, SameCalls DEF IInv, Typed, Numbers, TableInv, InTable
  <2> QED
    BY <2>1, <2>2
<1>6. ContextInv'
  <2>1. collect.at = 1
    BY <1>1 DEF IInv, ContextInv
  <2> QED
    BY <1>1, <2>1 DEF IInv, ContextInv, Index
<1> QED
  BY <1>1, <1>2, <1>3, <1>4, <1>5, <1>6, SameCalls DEF IInv

\* vxReleaseContext
LEMMA ReleaseContextKeeps ==
  ASSUME ReferenceParameters, IInv, NEW t \in Thread, ReleaseContext(t)
  PROVE  IInv'
<1>1. /\ collect.thread = NoThread /\ held_context' = held_context \ {t} /\ t \in held_context
      /\ collect' = [collect EXCEPT !.thread = IF held_context = {t} THEN t ELSE NoThread]
      /\ calls' = calls /\ calls[t] = <<>>
      /\ UNCHANGED <<magic, internal_count, external_count, reftable, num_references, uses,
                     held>>
  BY DEF ReleaseContext, May
<1>2. /\ UsesInv' /\ SetInv' /\ FinalInv'
  BY <1>1, SameCalls DEF IInv, UsesInv, SetInv, FinalInv
<1>3. CountsInv'
  BY <1>1, SameCalls DEF IInv, CountsInv, UserCount, Users, RefCount, Refs
<1>4. HeldTyped' /\ Numbers'
  BY <1>1 DEF IInv, HeldTyped, Numbers
<1>5. /\ collect' \in [thread : Thread \cup {NoThread}, at : 1 .. TableSize + 1]
      /\ collect'.thread = (IF held_context = {t} THEN t ELSE NoThread)
      /\ collect'.at = 1
  BY <1>1 DEF IInv, Typed, ContextInv
<1>6. Typed' /\ TableInv'
  BY <1>1, <1>5, SameCalls DEF IInv, Typed, TableInv, InTable
<1>7. ContextInv'
  <2>1. \A u \in Thread : calls[u] # <<>> => u \in held_context'
    BY <1>1 DEF IInv, ContextInv, ReferenceParameters
  <2>2. collect'.thread # NoThread => held_context' = {}
    BY <1>1, <1>5
  <2>3. collect'.thread = NoThread => held_context' # {}
    BY <1>1, <1>5 DEF ReferenceParameters
  <2> QED
    BY <1>1, <1>5, <2>1, <2>2, <2>3 DEF ContextInv, Index
<1> QED
  BY <1>1, <1>2, <1>3, <1>4, <1>6, <1>7, SameCalls DEF IInv

\* An entry of the table that has nothing to collect.
LEMMA CollectNothingKeeps ==
  ASSUME ReferenceParameters, IInv, NEW t \in Thread, Collect(t),
         NEW o, o = reftable[collect.at], ~(o # NoObject /\ external_count[o] > 0)
  PROVE  IInv'
<1>1. /\ collect.thread = t /\ collect.at \in Index
      /\ collect' = [collect EXCEPT !.at = @ + 1]
      /\ calls' = calls
      /\ UNCHANGED <<magic, internal_count, external_count, reftable, num_references, uses,
                     held, held_context>>
  BY DEF Collect
<1>2. /\ UsesInv' /\ SetInv' /\ FinalInv'
  BY <1>1, SameCalls DEF IInv, UsesInv, SetInv, FinalInv
<1>3. CountsInv'
  BY <1>1, SameCalls DEF IInv, CountsInv, UserCount, Users, RefCount, Refs
<1>4. HeldTyped' /\ Numbers'
  BY <1>1 DEF IInv, HeldTyped, Numbers
<1>5. /\ collect' \in [thread : Thread \cup {NoThread}, at : 1 .. TableSize + 1]
      /\ collect'.thread = t /\ collect'.at = collect.at + 1
  <2>1. collect \in [thread : Thread \cup {NoThread}, at : 1 .. TableSize + 1]
    BY DEF IInv, Typed
  <2>2. collect.at + 1 \in 1 .. TableSize + 1
    BY <1>1 DEF Index, ReferenceParameters
  <2> QED
    BY <1>1, <2>1, <2>2
<1>6. Typed' /\ TableInv'
  BY <1>1, <1>5, SameCalls DEF IInv, Typed, TableInv, InTable
<1>7. o # NoObject => \A u \in Thread : held[u][o] = 0
  <2>1. ASSUME o # NoObject PROVE \A u \in Thread : held[u][o] = 0
    <3>1. o \in magic
      BY <1>1, <2>1 DEF IInv, TableInv
    <3>2. external_count[o] \in Nat
      BY <3>1 DEF IInv, Typed
    <3>3. external_count[o] = 0
      BY <2>1, <3>2
    <3> QED
      BY <3>1, <3>3, CountsSay
  <2> QED
    BY <2>1
<1>8. ContextInv'
  <2>1. \A i \in Index : i < collect'.at => i < collect.at \/ i = collect.at
    BY <1>1, <1>5 DEF Index, ReferenceParameters
  <2>2. ASSUME NEW i \in Index, i < collect'.at, reftable[i] # NoObject
        PROVE  \A u \in Thread : held[u][reftable[i]] = 0
    BY <1>7, <2>1, <2>2 DEF IInv, ContextInv
  <2>3. t # NoThread
    BY DEF ReferenceParameters
  <2> QED
    BY <1>1, <1>5, <2>2, <2>3 DEF IInv, ContextInv
<1> QED
  BY <1>1, <1>2, <1>3, <1>4, <1>6, <1>8, SameCalls DEF IInv

\* An entry whose object has references of the application left: all of them are
\* given up for one, which is released.
LEMMA CollectObjectKeeps ==
  ASSUME ReferenceParameters, IInv, NEW t \in Thread, Collect(t),
         NEW o, o = reftable[collect.at], o # NoObject, external_count[o] > 0
  PROVE  IInv'
<1> DEFINE x == Release(o, "external")
<1>1. /\ collect.thread = t /\ collect.at \in Index /\ calls[t] = <<>>
      /\ collect' = [collect EXCEPT !.at = @ + 1]
      /\ external_count' = [external_count EXCEPT ![o] = 1]
      /\ held' = [u \in Thread |-> [held[u] EXCEPT ![o] = 0]]
      /\ UNCHANGED <<magic, internal_count, reftable, num_references, uses, held_context>>
  BY DEF Collect, CountToCollect
<1>2. o \in magic /\ o \in Object
  BY <1>1 DEF IInv, TableInv, Typed
<1>3. x \in CallRecord /\ x.at = "decrement" /\ x.obj = o /\ x.kind = "external"
  BY <1>2 DEF Release, CallRecord
<1>4. calls' = [calls EXCEPT ![t] = Append(calls[t], x)]
  <2>1. <<x>> = Append(calls[t], x)
    BY <1>1
  <2> HIDE DEF x
  <2>2. calls' = [calls EXCEPT ![t] = <<x>>]
    BY DEF Collect, x
  <2> QED
    BY <2>1, <2>2
<1> HIDE DEF x
<1>5. PICK c : c[1] = t /\ Grown(c) /\ At(c)' = x
  BY <1>3, <1>4, PushCall DEF IInv
<1>6. CallsTyped'
  BY <1>3, <1>4, PushCall DEF IInv
<1>7. Places = {} /\ \A u \in Thread : calls[u] = <<>>
  BY <1>1, OnlyCollects
<1>8. /\ IsFiniteSet(Places')
      /\ \A k, p : k # "external" \/ p # o => Awaited(k, p)' = Awaited(k, p)
      /\ Awaited("external", o)' = Awaited("external", o) + 1
  <2>1. \A k, p : IsPending(At(c)', k, p) <=> k = "external" /\ p = o
    BY <1>3, <1>5 DEF IsPending
  <2> QED
    BY <1>5, <2>1, CountGrown DEF IInv
<1>9. /\ Old("set") /\ Old("removed")
      /\ \A d \in Places' : At(d)'.at = "decrement" => d = c \/ (d \in Places /\ At(d)' = At(d))
      /\ \A p : Final(p)' = Final(p) /\ (BeingRemoved(p)' <=> BeingRemoved(p))
  BY <1>3, <1>5, GrownCalls
<1>10. /\ external_count'[o] = 1 /\ external_count' \in [Object -> Nat]
       /\ \A p \in Object \ {o} : external_count'[p] = external_count[p]
  BY <1>1, <1>2 DEF IInv, Typed
<1>11. /\ HeldTyped' /\ \A u \in Thread : held'[u][o] = 0
       /\ \A u \in Thread, p \in Object \ {o} : held'[u][p] = held[u][p]
  BY <1>1, <1>2 DEF IInv, HeldTyped, ReferenceParameters
<1>12. /\ collect' \in [thread : Thread \cup {NoThread}, at : 1 .. TableSize + 1]
       /\ collect'.thread = t /\ collect'.at = collect.at + 1
  <2>1. collect \in [thread : Thread \cup {NoThread}, at : 1 .. TableSize + 1]
    BY DEF IInv, Typed
  <2>2. collect.at + 1 \in 1 .. TableSize + 1
    BY <1>1 DEF Index, ReferenceParameters
  <2> QED
    BY <1>1, <2>1, <2>2
<1>13. Typed' /\ Numbers'
  BY <1>1, <1>10, <1>12 DEF IInv, Typed, Numbers
<1>14. UsesInv'
  <2>1. \A d \in Places' : At(d)'.at = "decrement" => At(d)'.obj \in magic'
    BY <1>1, <1>2, <1>3, <1>5, <1>7, <1>9
  <2>2. ASSUME NEW u \in Thread, NEW p \in Object, held'[u][p] > 0 PROVE p \in magic
    <3>1. CASE p = o
      BY <1>2, <3>1
    <3>2. CASE p # o
      BY <1>11, <2>2, <3>2 DEF IInv, UsesInv
    <3> QED
      BY <3>1, <3>2
  <2> QED
    BY <1>1, <2>1, <2>2 DEF IInv, UsesInv
<1>15. SetInv'
  BY <1>7, <1>9 DEF SetInv, Old
<1>16. TableInv'
  BY <1>1, <1>9 DEF IInv, TableInv, InTable
<1>17. FinalInv'
  <2>1. \A p : Final(p)' = {} /\ Final(p) = {}
    BY <1>7, <1>9, PendingAre
  <2>2. external_count'[o] # 0
    BY <1>10
  <2> QED
    BY <1>1, <1>10, <2>1, <2>2 DEF IInv, FinalInv
<1>18. CountsInv'
  <2>1. \A p : UserCount(p)' = UserCount(p)
    BY <1>1 DEF UserCount, Users
  <2>2. ASSUME NEW p \in magic
        PROVE  internal_count[p] = UserCount(p)' + Awaited("internal", p)'
    BY <1>8, <2>1 DEF IInv, CountsInv
  <2>3. RefCount(o)' = 0
    <3>1. Refs(o)' = {}
      BY <1>11 DEF Refs, ReferenceParameters
    <3> QED
      BY <3>1, FS_EmptySet DEF RefCount
  <2>4. Awaited("external", o) = 0
    <3>1. Pending("external", o) = {}
      BY <1>7, PendingAre
    <3> QED
      BY <3>1, FS_EmptySet DEF Awaited
  <2>5. external_count'[o] = RefCount(o)' + Awaited("external", o)'
    BY <1>8, <1>10, <2>3, <2>4
  <2>6. ASSUME NEW p \in magic, p # o
        PROVE  external_count'[p] = RefCount(p)' + Awaited("external", p)'
    <3>1. p \in Object \ {o}
      BY <2>6 DEF IInv, Typed
    <3>2. Refs(p)' = Refs(p)
      BY <1>11, <3>1 DEF Refs
    <3>3. /\ external_count'[p] = external_count[p] /\ RefCount(p)' = RefCount(p)
          /\ Awaited("external", p)' = Awaited("external", p)
      BY <1>8, <1>10, <3>1, <3>2 DEF RefCount
    <3> QED
      BY <3>3 DEF IInv, CountsInv
  <2> QED
    BY <1>1, <2>2, <2>5, <2>6 DEF CountsInv
<1>19. ContextInv'
  <2>1. \A i \in Index : i < collect'.at => i < collect.at \/ i = collect.at
    BY <1>1, <1>12 DEF Index, ReferenceParameters
  <2>2. ASSUME NEW i \in Index, i < collect'.at, reftable[i] # NoObject, NEW u \in Thread
        PROVE  held'[u][reftable[i]] = 0
    <3>1. CASE reftable[i] = o
      BY <1>11, <3>1
    <3>2. CASE reftable[i] # o
      <4>1. reftable[i] \in Object \ {o} /\ i < collect.at
        BY <2>1, <2>2, <3>2 DEF IInv, Typed
      <4> QED
        BY <1>11, <2>2, <4>1 DEF IInv, ContextInv
    <3> QED
      BY <3>1, <3>2
  <2>3. \A u \in Thread : calls'[u] # <<>> => u = t
    BY <1>4, <1>7 DEF IInv, CallsTyped
  <2>4. t # NoThread
    BY DEF ReferenceParameters
  <2> QED
    BY <1>1, <1>12, <2>2, <2>3, <2>4 DEF IInv, ContextInv
<1> QED
  BY <1>6, <1>8, <1>11, <1>13, <1>14, <1>15, <1>16, <1>17, <1>18, <1>19 DEF IInv

\* The loop of vxReleaseContext over the table.
LEMMA CollectKeeps ==
  ASSUME ReferenceParameters, IInv, NEW t \in Thread, Collect(t)
  PROVE  IInv'
<1>1. PICK o : o = reftable[collect.at]
  OBVIOUS
<1>2. CASE o # NoObject /\ external_count[o] > 0
  BY <1>1, <1>2, CollectObjectKeeps
<1>3. CASE ~(o # NoObject /\ external_count[o] > 0)
  BY <1>1, <1>3, CollectNothingKeeps
<1> QED
  BY <1>2, <1>3

\* The end of vxReleaseContext
LEMMA EndContextKeeps ==
  ASSUME ReferenceParameters, IInv, NEW t \in Thread, EndContext(t)
  PROVE  IInv'
<1>1. /\ Collected(t) /\ collect' = [thread |-> NoThread, at |-> 1] /\ calls' = calls
      /\ UNCHANGED <<magic, internal_count, external_count, reftable, num_references, uses,
                     held, held_context>>
  BY DEF EndContext
<1>2. magic = {}
  BY <1>1, NothingLeft
<1>3. \A u \in Thread : calls[u] = <<>>
  BY <1>1, OnlyCollects DEF Collected
<1>4. /\ UsesInv' /\ SetInv' /\ FinalInv'
  BY <1>1, SameCalls DEF IInv, UsesInv, SetInv, FinalInv
<1>5. CountsInv'
  BY <1>1, SameCalls DEF IInv, CountsInv, UserCount, Users, RefCount, Refs
<1>6. HeldTyped' /\ Numbers'
  BY <1>1 DEF IInv, HeldTyped, Numbers
<1>7. Typed' /\ TableInv'
  BY <1>1, SameCalls DEF IInv, Typed, TableInv, InTable, ReferenceParameters
<1>8. ContextInv'
  BY <1>1, <1>2, <1>3 DEF ContextInv, Index
<1> QED
  BY <1>1, <1>4, <1>5, <1>6, <1>7, <1>8, SameCalls DEF IInv

-----------------------------------------------------------------------------
(* The specification                                                         *)

\* Every step of a thread keeps the invariant.
LEMMA NextKeeps ==
  ASSUME ReferenceParameters, IInv, [Next]_vars
  PROVE  IInv'
<1>1. ASSUME NEW t \in Thread, ThreadNext(t)
      PROVE  IInv'
  <2>1. CASE CreateContext(t)
    BY <2>1, CreateContextKeeps
  <2>2. CASE ReleaseContext(t)
    BY <2>2, ReleaseContextKeeps
  <2>3. CASE Collect(t)
    BY <2>3, CollectKeeps
  <2>4. CASE EndContext(t)
    BY <2>4, EndContextKeeps
  <2>5. ASSUME NEW o \in Object, Create(t, o) PROVE IInv'
    BY <2>5, CreateKeeps
  <2>6. ASSUME NEW o \in Object, ReleaseReference(t, o) PROVE IInv'
    BY <2>6, ReleaseReferenceKeeps
  <2>7. ASSUME NEW o \in Object, NEW u \in Thread, Retain(t, u, o) PROVE IInv'
    BY <2>7, RetainKeeps
  <2>8. ASSUME NEW o \in Object, NEW v \in Object, SetParameter(t, o, v) PROVE IInv'
    BY <2>8, SetParameterKeeps
  <2>9. CASE TakeValue(t)
    BY <2>9, TakeValueKeeps
  <2>10. CASE Decrement(t)
    BY <2>10, DecrementKeeps
  <2>11. CASE NotLast(t)
    BY <2>11, NotLastKeeps
  <2>12. CASE RemoveFromTable(t)
    BY <2>12, RemoveKeeps
  <2>13. CASE Destruct(t)
    BY <2>13, DestructKeeps
  <2>14. CASE Free(t)
    BY <2>14, FreeKeeps
  <2> QED
    BY <1>1, <2>1, <2>2, <2>3, <2>4, <2>5, <2>6, <2>7, <2>8, <2>9, <2>10, <2>11, <2>12,
       <2>13, <2>14 DEF ThreadNext
<1>2. CASE UNCHANGED vars
  <2>1. /\ calls' = calls
        /\ UNCHANGED <<magic, internal_count, external_count, reftable, num_references, uses,
                       collect, held, held_context>>
    BY <1>2 DEF vars
  <2>2. UsesInv' /\ SetInv' /\ FinalInv'
    BY <2>1, SameCalls DEF IInv, UsesInv, SetInv, FinalInv
  <2>3. CountsInv'
    BY <2>1, SameCalls DEF IInv, CountsInv, UserCount, Users, RefCount, Refs
  <2>4. HeldTyped' /\ Numbers' /\ Typed' /\ TableInv' /\ ContextInv'
    BY <2>1, SameCalls DEF IInv, HeldTyped, Numbers, Typed, TableInv, InTable, ContextInv
  <2> QED
    BY <2>1, <2>2, <2>3, <2>4, SameCalls DEF IInv
<1> QED
  BY <1>1, <1>2 DEF Next

\* What the invariant says, part by part, of the properties that are checked.
LEMMA InvariantSays ==
  ASSUME ReferenceParameters, IInv
  PROVE  TypeOK /\ LiveWhileUsed /\ OneReleaser /\ CountsMatchOwners /\ AllCollected
<1>1. TypeOK
  BY DEF IInv, Typed, CallsTyped, HeldTyped, Numbers, TypeOK
<1>2. LiveWhileUsed
  <2>1. ASSUME NEW o \in Object, o \in magic, Final(o) = {} PROVE InTable(o)
    <3>1. ~BeingRemoved(o)
      BY <2>1, PendingAre DEF BeingRemoved, IsFinal
    <3> QED
      BY <2>1, <3>1 DEF IInv, TableInv
  <2>2. ASSUME NEW o \in Object, NEW t \in Thread, held[t][o] > 0
        PROVE  o \in magic /\ InTable(o)
    BY <2>1, <2>2, InUse
  <2>3. ASSUME NEW o \in Object, NEW n \in Users(o)
        PROVE  o \in magic /\ InTable(o)
    <3>1. n \in Object /\ uses[n] = o /\ uses[n] # NoObject
      BY DEF Users, IInv, Typed, ReferenceParameters
    <3>2. o \in magic
      BY <3>1 DEF IInv, UsesInv
    <3>3. Final(o) = {}
      BY <3>1, Unused
    <3> QED
      BY <2>1, <3>2, <3>3
  <2> QED
    BY <2>2, <2>3 DEF LiveWhileUsed, Has
<1>3. OneReleaser
  <2>1. ASSUME NEW o \in Object PROVE Cardinality(Final(o)) <= 1
    <3>1. CASE Final(o) = {}
      BY <3>1, FS_EmptySet
    <3>2. CASE Final(o) # {}
      <4>1. PICK c : c \in Final(o)
        BY <3>2
      <4>2. Final(o) = {c}
        BY <4>1 DEF IInv, FinalInv
      <4> QED
        BY <4>2, FS_Singleton
    <3> QED
      BY <3>1, <3>2
  <2> QED
    BY <2>1 DEF OneReleaser
<1>4. CountsMatchOwners
  BY DEF IInv, CountsInv, CountsMatchOwners, UserCount, RefCount, Awaited
<1>5. AllCollected
  BY NothingLeft DEF AllCollected
<1> QED
  BY <1>1, <1>2, <1>3, <1>4, <1>5

\* ownReleaseReferenceInt, ownCreateReference, ownNodeSetParameter, vxCreateContext and
\* vxReleaseContext keep the invariant, in whatever order the steps of the threads'
\* calls come.
THEOREM Invariance ==
  ASSUME ReferenceParameters
  PROVE  Spec => []IInv
<1>1. Init => IInv
  BY InitIInv
<1>2. IInv /\ [Next]_vars => IInv'
  BY NextKeeps
<1> QED
  BY <1>1, <1>2, PTL DEF Spec

\* The type invariant of the references, with the number of entries of the table that
\* ownAddReferenceToContext and ownRemoveReferenceFromContext count.
THEOREM TypeCorrect ==
  ASSUME ReferenceParameters
  PROVE  Spec => []TypeOK
<1>1. IInv => TypeOK
  BY InvariantSays
<1> QED
  BY <1>1, Invariance, PTL

\* An object that a thread or another object refers to is valid and in the table:
\* ownReleaseReferenceInt frees none too early.
THEOREM LiveSoundness ==
  ASSUME ReferenceParameters
  PROVE  Spec => []LiveWhileUsed
<1>1. IInv => LiveWhileUsed
  BY InvariantSays
<1> QED
  BY <1>1, Invariance, PTL

\* One call of ownReleaseReferenceInt at most goes on to remove and free an object,
\* because it goes by the count that ownDecrementReference took under the lock.
THEOREM ReleaserSoundness ==
  ASSUME ReferenceParameters
  PROVE  Spec => []OneReleaser
<1>1. IInv => OneReleaser
  BY InvariantSays
<1> QED
  BY <1>1, Invariance, PTL

\* The internal and the external count of every object.
THEOREM CountSoundness ==
  ASSUME ReferenceParameters
  PROVE  Spec => []CountsMatchOwners
<1>1. IInv => CountsMatchOwners
  BY InvariantSays
<1> QED
  BY <1>1, Invariance, PTL

\* The last vxReleaseContext leaves no object and no entry of the table.
THEOREM CollectSoundness ==
  ASSUME ReferenceParameters
  PROVE  Spec => []AllCollected
<1>1. IInv => AllCollected
  BY InvariantSays
<1> QED
  BY <1>1, Invariance, PTL
================================================================================
