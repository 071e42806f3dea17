-------------------------- MODULE MCServices_proofs --------------------------
(* What the run of the services checks on a small instance, for every value   *)
(* of the constants.  A step of ServicesSpec is a step of one part; each part *)
(* is proved alone: the queue of the platform, its events, the queue of       *)
(* events of the framework, the commands, the queue of object descriptors and *)
(* streaming.  The lemmas about rings and counting, on which they rest, come  *)
(* first.                                                                     *)
EXTENDS MCServices, FiniteSetTheorems, TLAPS

-----------------------------------------------------------------------------
(* Rings                                                                     *)

\* In a ring of N elements, the index that is k places behind a, which goes on from
\* the end of the ring to its beginning, the n elements from a on, and a ring in which
\* no more than the element k was written.
Ahead(N, a, k) == (a + k) % N
Window(N, r, a, n) == [i \in 1 .. n |-> r[Ahead(N, a, i - 1)]]
SameBut(N, r, q, k) == \A j \in 0 .. N - 1 : j # k => q[j] = r[j]

LEMMA RingIndex ==
  ASSUME NEW N \in Nat \ {0}, NEW a \in 0 .. N - 1
  PROVE  \A k \in 0 .. N : /\ Ahead(N, a, k) = IF a + k < N THEN a + k ELSE a + k - N
                           /\ Ahead(N, a, k) \in 0 .. N - 1
<1>1. ASSUME NEW k \in 0 .. N
      PROVE  Ahead(N, a, k) = IF a + k < N THEN a + k ELSE a + k - N
  <2>1. CASE a + k < N
    BY <2>1 DEF Ahead
  <2>2. CASE a + k >= N
    <3>1. (a + k - N) % N = a + k - N
      BY <2>2
    <3>2. (a + k) % N = (a + k - N) % N
      OBVIOUS
    <3> QED
      BY <3>1, <3>2, <2>2 DEF Ahead
  <2> QED
    BY <2>1, <2>2
<1> QED
  BY <1>1

\* An element that is written behind the last one is appended ...
LEMMA WindowAppend ==
  ASSUME NEW N \in Nat \ {0}, NEW r, NEW q, NEW a \in 0 .. N - 1, NEW n \in 0 .. N - 1,
         SameBut(N, r, q, Ahead(N, a, n))
  PROVE  Window(N, q, a, n + 1) = Append(Window(N, r, a, n), q[Ahead(N, a, n)])
<1> DEFINE d == q[Ahead(N, a, n)]
           S == {r[j] : j \in 0 .. N - 1} \cup {q[j] : j \in 0 .. N - 1}
<1>r. \A k \in 0 .. N : /\ Ahead(N, a, k) = IF a + k < N THEN a + k ELSE a + k - N
                        /\ Ahead(N, a, k) \in 0 .. N - 1
  BY RingIndex
<1>1. n \in 0 .. N /\ Ahead(N, a, n) \in 0 .. N - 1
  BY <1>r
<1>2. d \in S /\ \A j \in 0 .. N - 1 : r[j] \in S /\ q[j] \in S
  BY <1>1
<1>3. \A i \in 1 .. n + 1 : i - 1 \in 0 .. N /\ Ahead(N, a, i - 1) \in 0 .. N - 1
  <2>1. \A i \in 1 .. n + 1 : i - 1 \in 0 .. N
    OBVIOUS
  <2> QED
    BY <2>1, <1>r
<1>4. ASSUME NEW i \in 1 .. n
      PROVE  q[Ahead(N, a, i - 1)] = r[Ahead(N, a, i - 1)]
  <2>1. Ahead(N, a, i - 1) = IF a + (i - 1) < N THEN a + (i - 1) ELSE a + (i - 1) - N
    BY <1>r
  <2>2. Ahead(N, a, n) = IF a + n < N THEN a + n ELSE a + n - N
    BY <1>r, <1>1
  <2>3. Ahead(N, a, i - 1) # Ahead(N, a, n)
    BY <2>1, <2>2
  <2> QED
    BY <2>3, <1>3 DEF SameBut
<1> HIDE DEF S
<1>5. /\ Window(N, q, a, n + 1) \in Seq(S) /\ Len(Window(N, q, a, n + 1)) = n + 1
      /\ \A i \in 1 .. n + 1 : Window(N, q, a, n + 1)[i] = q[Ahead(N, a, i - 1)]
  BY <1>2, <1>3 DEF Window
<1>6. /\ Window(N, r, a, n) \in Seq(S) /\ Len(Window(N, r, a, n)) = n
      /\ \A i \in 1 .. n : Window(N, r, a, n)[i] = r[Ahead(N, a, i - 1)]
  BY <1>2, <1>3 DEF Window
<1>7. Window(N, q, a, n + 1)[n + 1] = d
  <2>1. (n + 1) - 1 = n /\ n + 1 \in 1 .. n + 1
    OBVIOUS
  <2> QED
    BY <1>5, <2>1
<1> HIDE DEF d
<1>8. Window(N, q, a, n + 1) = Append(Window(N, r, a, n), d)
  <2>1. \A i \in 1 .. n : Window(N, q, a, n + 1)[i] = Append(Window(N, r, a, n), d)[i]
    <3>1. \A i \in 1 .. n : Append(Window(N, r, a, n), d)[i] = Window(N, r, a, n)[i]
      BY <1>2, <1>6
    <3>2. \A i \in 1 .. n : i \in 1 .. n + 1
      OBVIOUS
    <3> QED
      BY <1>4, <1>5, <1>6, <3>1, <3>2
  <2>2. Append(Window(N, r, a, n), d) \in Seq(S) /\ Len(Append(Window(N, r, a, n), d)) = n + 1
    BY <1>2, <1>6
  <2>3. Append(Window(N, r, a, n), d)[n + 1] = d
    BY <1>2, <1>6
  <2> QED
    BY <1>5, <1>7, <2>1, <2>2, <2>3
<1> QED
  BY <1>8 DEF d

\* ... and the first is taken away when the index moves on.
LEMMA WindowTail ==
  ASSUME NEW N \in Nat \ {0}, NEW S, NEW r \in [0 .. N - 1 -> S],
         NEW a \in 0 .. N - 1, NEW n \in 1 .. N
  PROVE  /\ Window(N, r, a, n) # <<>> /\ Head(Window(N, r, a, n)) = r[a]
         /\ Window(N, r, Ahead(N, a, 1), n - 1) = Tail(Window(N, r, a, n))
<1> DEFINE b == Ahead(N, a, 1)
<1>r. \A c \in 0 .. N - 1, k \in 0 .. N :
         /\ Ahead(N, c, k) = IF c + k < N THEN c + k ELSE c + k - N
         /\ Ahead(N, c, k) \in 0 .. N - 1
  BY RingIndex
<1>1. 0 \in 0 .. N /\ 1 \in 0 .. N /\ \A i \in 1 .. n : i - 1 \in 0 .. N
  OBVIOUS
<1>2. b \in 0 .. N - 1 /\ b = IF a + 1 < N THEN a + 1 ELSE a + 1 - N
  BY <1>r, <1>1
<1>3. Ahead(N, a, 0) = a
  BY <1>r, <1>1
<1> HIDE DEF b
<1>4. \A i \in 1 .. n : Ahead(N, a, i - 1) \in 0 .. N - 1 /\ Ahead(N, b, i - 1) \in 0 .. N - 1
  BY <1>r, <1>1, <1>2
<1>5. ASSUME NEW i \in 1 .. n - 1
      PROVE  Ahead(N, b, i - 1) = Ahead(N, a, i) /\ i + 1 \in 1 .. n /\ (i + 1) - 1 = i
  <2>1. i \in 0 .. N /\ i - 1 \in 0 .. N
    OBVIOUS
  <2>2. Ahead(N, b, i - 1) = IF b + (i - 1) < N THEN b + (i - 1) ELSE b + (i - 1) - N
    BY <1>r, <1>2, <2>1
  <2>3. Ahead(N, a, i) = IF a + i < N THEN a + i ELSE a + i - N
    BY <1>r, <2>1
  <2> QED
    BY <1>2, <2>2, <2>3
<1>6. /\ Window(N, r, a, n) \in Seq(S) /\ Len(Window(N, r, a, n)) = n
      /\ \A i \in 1 .. n : Window(N, r, a, n)[i] = r[Ahead(N, a, i - 1)]
  BY <1>4 DEF Window
<1>7. /\ Window(N, r, b, n - 1) \in Seq(S) /\ Len(Window(N, r, b, n - 1)) = n - 1
      /\ \A i \in 1 .. n - 1 : Window(N, r, b, n - 1)[i] = r[Ahead(N, b, i - 1)]
  BY <1>4 DEF Window
<1>8. Window(N, r, a, n) # <<>> /\ Head(Window(N, r, a, n)) = r[a]
  <2>1. Window(N, r, a, n)[1] = r[a]
    BY <1>3, <1>6
  <2> QED
    BY <1>6, <2>1
<1>9. /\ Tail(Window(N, r, a, n)) \in Seq(S) /\ Len(Tail(Window(N, r, a, n))) = n - 1
      /\ \A i \in 1 .. n - 1 : Tail(Window(N, r, a, n))[i] = r[Ahead(N, a, i)]
  <2>1. \A i \in 1 .. n - 1 : Tail(Window(N, r, a, n))[i] = Window(N, r, a, n)[i + 1]
    BY <1>6, <1>8
  <2>2. \A i \in 1 .. n - 1 : Window(N, r, a, n)[i + 1] = r[Ahead(N, a, i)]
    BY <1>5, <1>6
  <2> QED
    BY <1>6, <1>8, <2>1, <2>2
<1>10. Window(N, r, b, n - 1) = Tail(Window(N, r, a, n))
  BY <1>5, <1>7, <1>9
<1> QED
  BY <1>8, <1>10 DEF b

-----------------------------------------------------------------------------
(* Counting in sequences and in sets                                        *)

\* How often x is in the sequence s.
Count(s, x) == Cardinality({j \in DOMAIN s : s[j] = x})

\* The places of the sequence where it is are finitely many.
LEMMA PlacesFinite ==
  ASSUME NEW S, NEW s \in Seq(S), NEW x
  PROVE  IsFiniteSet({j \in DOMAIN s : s[j] = x})
<1> DEFINE P == {j \in DOMAIN s : s[j] = x}
<1>1. DOMAIN s = 1 .. Len(s) /\ Len(s) \in Int
  OBVIOUS
<1>2. IsFiniteSet(1 .. Len(s))
  BY <1>1, FS_Interval
<1>3. P \in SUBSET (1 .. Len(s))
  BY <1>1
<1> HIDE DEF P
<1>4. IsFiniteSet(P)
  BY <1>2, <1>3, FS_Subset
<1> QED
  BY <1>4 DEF P

\* The number is 0 exactly when x is not in the sequence.
LEMMA CountType ==
  ASSUME NEW S, NEW s \in Seq(S), NEW x
  PROVE  /\ Count(s, x) \in Nat
         /\ Count(s, x) = 0 <=> \A j \in DOMAIN s : s[j] # x
<1> DEFINE P == {j \in DOMAIN s : s[j] = x}
<1>1. IsFiniteSet(P)
  BY PlacesFinite
<1>2. Cardinality(P) \in Nat /\ (Cardinality(P) = 0 <=> P = {})
  BY <1>1, FS_CardinalityType, FS_EmptySet
<1> QED
  BY <1>2 DEF Count

\* What is in the sequence no more than once is in one place.
LEMMA CountOne ==
  ASSUME NEW S, NEW s \in Seq(S), NEW j \in DOMAIN s, Count(s, s[j]) <= 1
  PROVE  \A k \in DOMAIN s : s[k] = s[j] => k = j
<1> DEFINE P == {i \in DOMAIN s : s[i] = s[j]}
<1>1. IsFiniteSet(P)
  BY PlacesFinite
<1>2. Cardinality(P) <= 1 /\ j \in P
  BY DEF Count
<1>3. Cardinality(P) \in Nat /\ Cardinality(P) # 0
  BY <1>1, <1>2, FS_CardinalityType, FS_EmptySet
<1>4. Cardinality(P) = 1
  BY <1>2, <1>3
<1>5. PICK y : P = {y}
  BY <1>1, <1>4, FS_Singleton
<1> QED
  BY <1>2, <1>5

\* An empty sequence has nothing in it.
LEMMA CountEmpty == \A x : Count(<<>>, x) = 0
<1>1. \A x : {j \in DOMAIN <<>> : <<>>[j] = x} = {}
  OBVIOUS
<1> QED
  BY <1>1, FS_EmptySet DEF Count

\* What is appended is there once more ...
LEMMA CountAppend ==
  ASSUME NEW S, NEW s \in Seq(S), NEW d \in S, NEW x
  PROVE  Count(Append(s, d), x) = Count(s, x) + (IF x = d THEN 1 ELSE 0)
<1> DEFINE P == {j \in DOMAIN s : s[j] = x}
           n == Len(s) + 1
           Q == {j \in DOMAIN Append(s, d) : Append(s, d)[j] = x}
<1>1. DOMAIN s = 1 .. Len(s) /\ Len(s) \in Nat
  OBVIOUS
<1>2. IsFiniteSet(P)
  BY PlacesFinite
<1>3. /\ DOMAIN Append(s, d) = 1 .. n /\ Append(s, d)[n] = d
      /\ \A j \in 1 .. Len(s) : Append(s, d)[j] = s[j]
  OBVIOUS
<1>4. n \notin P /\ 1 .. n = (1 .. Len(s)) \cup {n}
  BY <1>1
<1>5. Q = IF x = d THEN P \cup {n} ELSE P
  BY <1>1, <1>3, <1>4
<1> HIDE DEF P, n, Q
<1>6. Cardinality(P \cup {n}) = Cardinality(P) + 1 /\ Cardinality(P) \in Nat
  BY <1>2, <1>4, FS_AddElement, FS_CardinalityType
<1>7. Cardinality(Q) = Cardinality(P) + (IF x = d THEN 1 ELSE 0)
  BY <1>5, <1>6
<1> QED
  BY <1>7 DEF Count, P, Q

\* ... and what is taken from the head once less.
LEMMA CountTail ==
  ASSUME NEW S, NEW s \in Seq(S), s # <<>>, NEW x
  PROVE  Count(Tail(s), x) = Count(s, x) - (IF x = Head(s) THEN 1 ELSE 0)
<1> DEFINE P == {j \in DOMAIN s : s[j] = x}
           Q == {j \in DOMAIN Tail(s) : Tail(s)[j] = x}
           f == [j \in P \ {1} |-> j - 1]
<1>1. /\ DOMAIN s = 1 .. Len(s) /\ Len(s) \in Nat \ {0} /\ Head(s) = s[1]
      /\ DOMAIN Tail(s) = 1 .. Len(s) - 1
      /\ \A j \in 1 .. Len(s) - 1 : Tail(s)[j] = s[j + 1]
  OBVIOUS
<1>2. IsFiniteSet(P)
  BY PlacesFinite
<1>3. 1 \in P <=> x = Head(s)
  BY <1>1
<1>4. /\ \A j \in P \ {1} : j - 1 \in Q /\ j \in Int
      /\ \A j \in Q : j + 1 \in P \ {1} /\ j \in Int /\ (j + 1) - 1 = j
  BY <1>1
<1> HIDE DEF P, Q
<1>5. f \in [P \ {1} -> Q] /\ (\A j \in Q : f[j + 1] = j)
      /\ \A i, j \in P \ {1} : f[i] = f[j] => i = j
  BY <1>4
<1> HIDE DEF f
<1>6. f \in Bijection(P \ {1}, Q)
  BY <1>4, <1>5 DEF Bijection, Injection, IsInjective, Surjection
<1>7. IsFiniteSet(P \ {1}) /\ Cardinality(P) \in Nat
      /\ Cardinality(P \ {1}) = IF 1 \in P THEN Cardinality(P) - 1 ELSE Cardinality(P)
  BY <1>2, FS_RemoveElement, FS_CardinalityType
<1>8. Cardinality(Q) = Cardinality(P \ {1})
  BY <1>6, <1>7, FS_Bijection DEF ExistsBijection
<1>9. Cardinality(Q) = Cardinality(P) - (IF x = Head(s) THEN 1 ELSE 0)
  BY <1>3, <1>7, <1>8
<1> QED
  BY <1>9 DEF Count, P, Q

\* At most one element fewer.
LEMMA RemoveOne ==
  ASSUME NEW S, IsFiniteSet(S), NEW x
  PROVE  Cardinality(S \ {x}) >= Cardinality(S) - 1
<1>1. Cardinality(S) \in Nat
  BY FS_CardinalityType
<1>2. Cardinality(S \ {x}) = IF x \in S THEN Cardinality(S) - 1 ELSE Cardinality(S)
  BY FS_RemoveElement
<1> QED
  BY <1>1, <1>2

-----------------------------------------------------------------------------
(* The elements that a sequence of indices stands for                        *)

\* The elements of the array a whose indices are in the sequence s.
Elements(a, s) == [j \in DOMAIN s |-> a[s[j]]]

\* An index that is appended appends its element ...
LEMMA ElementsAppend ==
  ASSUME NEW I, NEW s \in Seq(I), NEW d \in I, NEW a
  PROVE  Elements(a, Append(s, d)) = Append(Elements(a, s), a[d])
<1> DEFINE S == {a[i] : i \in I}
           e == a[d]
<1>1. e \in S /\ \A j \in DOMAIN s : a[s[j]] \in S
  OBVIOUS
<1>2. /\ Append(s, d) \in Seq(I) /\ Len(Append(s, d)) = Len(s) + 1
      /\ \A j \in 1 .. Len(s) : Append(s, d)[j] = s[j]
      /\ Append(s, d)[Len(s) + 1] = d
  OBVIOUS
<1>3. DOMAIN Append(s, d) = 1 .. Len(s) + 1 /\ DOMAIN s = 1 .. Len(s) /\ Len(s) \in Nat
  BY <1>2
<1> HIDE DEF S
<1>4. /\ Elements(a, s) \in Seq(S) /\ Len(Elements(a, s)) = Len(s)
      /\ \A j \in 1 .. Len(s) : Elements(a, s)[j] = a[s[j]]
  BY <1>1, <1>3 DEF Elements
<1>5. \A j \in 1 .. Len(s) + 1 : Append(s, d)[j] \in I /\ a[Append(s, d)[j]] \in S
  BY <1>2 DEF S
<1>6. /\ Elements(a, Append(s, d)) \in Seq(S) /\ Len(Elements(a, Append(s, d))) = Len(s) + 1
      /\ \A j \in 1 .. Len(s) + 1 : Elements(a, Append(s, d))[j] = a[Append(s, d)[j]]
  BY <1>3, <1>5 DEF Elements
<1> HIDE DEF e
<1>7. /\ Append(Elements(a, s), e) \in Seq(S) /\ Len(Append(Elements(a, s), e)) = Len(s) + 1
      /\ \A j \in 1 .. Len(s) : Append(Elements(a, s), e)[j] = Elements(a, s)[j]
      /\ Append(Elements(a, s), e)[Len(s) + 1] = e
  BY <1>1, <1>3, <1>4
<1>8. \A j \in 1 .. Len(s) + 1 : Elements(a, Append(s, d))[j] = Append(Elements(a, s), e)[j]
  <2>1. \A j \in 1 .. Len(s) : j \in 1 .. Len(s) + 1
    BY <1>3
  <2>2. \A j \in 1 .. Len(s) : Elements(a, Append(s, d))[j] = Append(Elements(a, s), e)[j]
    BY <1>2, <1>4, <1>6, <1>7, <2>1
  <2>3. Len(s) + 1 \in 1 .. Len(s) + 1
    BY <1>3
  <2>4. Elements(a, Append(s, d))[Len(s) + 1] = e
    BY <1>2, <1>6, <2>3 DEF e
  <2>5. \A j \in 1 .. Len(s) + 1 : j \in 1 .. Len(s) \/ j = Len(s) + 1
    BY <1>3
  <2> QED
    BY <1>7, <2>2, <2>4, <2>5
<1>9. Elements(a, Append(s, d)) = Append(Elements(a, s), e)
  BY <1>6, <1>7, <1>8
<1> QED
  BY <1>9 DEF e

\* ... and the head and the tail of the elements are those of the indices.
LEMMA ElementsTail ==
  ASSUME NEW I, NEW s \in Seq(I), s # <<>>, NEW a
  PROVE  /\ Elements(a, s) # <<>> /\ Head(Elements(a, s)) = a[Head(s)]
         /\ Elements(a, Tail(s)) = Tail(Elements(a, s))
<1> DEFINE S == {a[i] : i \in I}
<1>1. \A j \in DOMAIN s : s[j] \in I /\ a[s[j]] \in S
  OBVIOUS
<1>2. /\ Tail(s) \in Seq(I) /\ DOMAIN Tail(s) = 1 .. Len(s) - 1
      /\ \A j \in 1 .. Len(s) - 1 : Tail(s)[j] = s[j + 1] /\ j + 1 \in 1 .. Len(s)
      /\ Head(s) = s[1] /\ 1 \in 1 .. Len(s)
      /\ DOMAIN s = 1 .. Len(s) /\ Len(s) \in Nat \ {0}
  OBVIOUS
<1> HIDE DEF S
<1>3. /\ Elements(a, s) \in Seq(S) /\ Len(Elements(a, s)) = Len(s)
      /\ \A j \in 1 .. Len(s) : Elements(a, s)[j] = a[s[j]]
  BY <1>1, <1>2 DEF Elements
<1>4. \A j \in 1 .. Len(s) - 1 : a[Tail(s)[j]] \in S
  BY <1>1, <1>2
<1>5. /\ Elements(a, Tail(s)) \in Seq(S) /\ Len(Elements(a, Tail(s))) = Len(s) - 1
      /\ \A j \in 1 .. Len(s) - 1 : Elements(a, Tail(s))[j] = a[Tail(s)[j]]
  BY <1>2, <1>4 DEF Elements
<1>6. Elements(a, s) # <<>> /\ Head(Elements(a, s)) = a[Head(s)]
  BY <1>2, <1>3
<1>7. /\ Tail(Elements(a, s)) \in Seq(S) /\ Len(Tail(Elements(a, s))) = Len(s) - 1
      /\ \A j \in 1 .. Len(s) - 1 : Tail(Elements(a, s))[j] = Elements(a, s)[j + 1]
  BY <1>2, <1>3, <1>6
<1>8. \A j \in 1 .. Len(s) - 1 : Tail(Elements(a, s))[j] = Elements(a, Tail(s))[j]
  BY <1>2, <1>3, <1>5, <1>7
<1>9. Elements(a, Tail(s)) = Tail(Elements(a, s))
  BY <1>5, <1>7, <1>8
<1> QED
  BY <1>6, <1>9

-----------------------------------------------------------------------------
(* The platform's queue                                                      *)

USE DEF OsQ!ringVars

\* A thread that falls asleep waits at an end of the queue whose calls may wait,
\* and one that waits to put has an element.
QueueCalls ==
    \A t \in Thread : queue_call[t].at # "idle" =>
       \/ queue_call[t].op = "put" /\ BlockOnPut /\ queue_call[t].data \in Data
       \/ queue_call[t].op = "get" /\ BlockOnGet

\* NoLostWakeup of OsQueue
QueueWakeups ==
    /\ OsQ!Asleep("get") # {} => ring_count <= Cardinality(OsQ!Woken("get"))
    /\ OsQ!Asleep("put") # {} => MaxEle - ring_count <= Cardinality(OsQ!Woken("put"))
QueueInv == OsQ!TypeOK /\ QueueCalls /\ QueueWakeups

\* The sets of threads that are counted are finite.
LEMMA ThreadsFinite ==
  ASSUME IsFiniteSet(Thread), NEW S \in SUBSET Thread
  PROVE  IsFiniteSet(S) /\ Cardinality(S) \in Nat
BY FS_Subset, FS_CardinalityType

\* A new queue is empty and nobody is in a call.
LEMMA QueueInit == OsQ!Init => QueueInv
<1> SUFFICES ASSUME OsQ!Init PROVE QueueInv
  OBVIOUS
<1>1. OsQ!TypeOK
  BY CapacityAssumption DEF OsQ!Init, OsQ!TypeOK, OsQ!Idle, OsQ!Calls, OsQ!Wait
<1>2. QueueCalls /\ OsQ!Asleep("get") = {} /\ OsQ!Asleep("put") = {}
  BY DEF OsQ!Init, QueueCalls, OsQ!Asleep, OsQ!Idle
<1> QED
  BY <1>1, <1>2 DEF QueueInv, QueueWakeups

\* What the two ends of the queue do to the threads that are in a call: the thread
\* t is done, and one of those that sleep at the other end is woken, if any.
Waking(t, u) == [OsQ!Returns(t) EXCEPT ![u].at = "woken"]
LEMMA SignalledCalls ==
  ASSUME OsQ!TypeOK, NEW t \in Thread, NEW op \in {"put", "get"},
         NEW calls \in OsQ!Signalled(op, OsQ!Returns(t))
  PROVE  /\ calls \in [Thread -> OsQ!Calls]
         /\ \/ calls = OsQ!Returns(t) /\ \A u \in Thread : u # t /\ queue_call[u].op = op
                                                         => queue_call[u].at # "asleep"
            \/ \E u \in Thread : /\ u # t /\ queue_call[u].op = op /\ queue_call[u].at = "asleep"
                                 /\ calls = Waking(t, u)
<1> DEFINE sleepers == {u \in Thread : /\ OsQ!Returns(t)[u].op = op
                                      /\ OsQ!Returns(t)[u].at = "asleep"}
<1>1. OsQ!Returns(t) \in [Thread -> OsQ!Calls]
  BY DEF OsQ!Returns, OsQ!TypeOK, OsQ!Idle, OsQ!Calls, OsQ!Wait
<1>2. \A u \in Thread : OsQ!Returns(t)[u] = IF u = t THEN OsQ!Idle ELSE queue_call[u]
  BY DEF OsQ!Returns, OsQ!TypeOK
<1>3. CASE sleepers = {}
  <2>1. calls = OsQ!Returns(t)
    BY <1>3 DEF OsQ!Signalled
  <2>2. \A u \in Thread : u # t /\ queue_call[u].op = op => queue_call[u].at # "asleep"
    BY <1>2, <1>3
  <2> QED
    BY <1>1, <2>1, <2>2
<1>4. CASE sleepers # {}
  <2>1. PICK u \in sleepers : calls = Waking(t, u)
    BY <1>4 DEF OsQ!Signalled, Waking
  <2>2. u \in Thread /\ u # t /\ queue_call[u].op = op /\ queue_call[u].at = "asleep"
    BY <1>2 DEF OsQ!Idle
  <2>3. calls \in [Thread -> OsQ!Calls]
    BY <1>1, <2>1, <2>2 DEF OsQ!Calls, Waking
  <2> QED
    BY <2>1, <2>2, <2>3
<1> QED
  BY <1>3, <1>4

\* The threads that sleep, and those that are awake at an end of the queue, when the
\* thread t has returned from the other end and signalled this one ...
LEMMA Signals ==
  ASSUME OsQ!TypeOK, IsFiniteSet(Thread), NEW t \in Thread,
         NEW op \in {"put", "get"}, NEW other \in {"put", "get"}, op # other,
         queue_call[t].at # "asleep", queue_call[t].at = "woken" => queue_call[t].op = other,
         queue_call' \in OsQ!Signalled(op, OsQ!Returns(t))
  PROVE  /\ OsQ!Asleep(op)' # {} => /\ OsQ!Asleep(op) # {}
                                /\ Cardinality(OsQ!Woken(op)') = Cardinality(OsQ!Woken(op)) + 1
         /\ OsQ!Asleep(other)' = OsQ!Asleep(other)
         /\ Cardinality(OsQ!Woken(other)') >= Cardinality(OsQ!Woken(other)) - 1
<1>1. PICK calls \in OsQ!Signalled(op, OsQ!Returns(t)) : queue_call' = calls
  OBVIOUS
<1>2. \A u \in Thread : OsQ!Returns(t)[u] = IF u = t THEN OsQ!Idle ELSE queue_call[u]
  BY DEF OsQ!Returns, OsQ!TypeOK
<1>3. OsQ!Returns(t) \in [Thread -> OsQ!Calls]
  BY DEF OsQ!Returns, OsQ!TypeOK, OsQ!Idle, OsQ!Calls, OsQ!Wait
<1>4. CASE /\ calls = OsQ!Returns(t)
           /\ \A u \in Thread : u # t /\ queue_call[u].op = op => queue_call[u].at # "asleep"
  <2>1. OsQ!Asleep(op)' = {} /\ OsQ!Asleep(other)' = OsQ!Asleep(other)
    BY <1>1, <1>2, <1>4 DEF OsQ!Asleep, OsQ!Idle
  <2>2. OsQ!Woken(other)' = OsQ!Woken(other) \ {t}
    BY <1>1, <1>2, <1>4 DEF OsQ!Woken, OsQ!Idle
  <2>3. IsFiniteSet(OsQ!Woken(other))
    BY FS_Subset DEF OsQ!Woken
  <2>4. Cardinality(OsQ!Woken(other) \ {t}) >= Cardinality(OsQ!Woken(other)) - 1
    BY <2>3, RemoveOne
  <2> QED
    BY <2>1, <2>2, <2>4
<1>5. CASE \E u \in Thread : /\ u # t /\ queue_call[u].op = op /\ queue_call[u].at = "asleep"
                             /\ calls = Waking(t, u)
  <2>1. PICK u \in Thread : /\ u # t /\ queue_call[u].op = op /\ queue_call[u].at = "asleep"
                            /\ calls = Waking(t, u)
    BY <1>5
  <2>2. calls[u].op = op /\ calls[u].at = "woken"
    BY <1>2, <1>3, <2>1 DEF OsQ!Calls, Waking
  <2>3. \A v \in Thread \ {u} : calls[v] = IF v = t THEN OsQ!Idle ELSE queue_call[v]
    BY <1>2, <1>3, <2>1 DEF Waking
  <2>4. OsQ!Asleep(op) # {} /\ OsQ!Asleep(other)' = OsQ!Asleep(other)
    BY <1>1, <2>1, <2>2, <2>3 DEF OsQ!Asleep, OsQ!Idle
  <2>5. OsQ!Woken(other)' = OsQ!Woken(other) \ {t}
    BY <1>1, <2>1, <2>2, <2>3 DEF OsQ!Woken, OsQ!Idle
  <2>6. OsQ!Woken(op)' = OsQ!Woken(op) \cup {u} /\ u \notin OsQ!Woken(op)
    BY <1>1, <2>1, <2>2, <2>3 DEF OsQ!Woken, OsQ!Idle
  <2>7. IsFiniteSet(OsQ!Woken(op)) /\ IsFiniteSet(OsQ!Woken(other))
    BY FS_Subset DEF OsQ!Woken
  <2>8. Cardinality(OsQ!Woken(other) \ {t}) >= Cardinality(OsQ!Woken(other)) - 1
    BY <2>7, RemoveOne
  <2>9. Cardinality(OsQ!Woken(op) \cup {u}) = Cardinality(OsQ!Woken(op)) + 1
    BY <2>6, <2>7, FS_AddElement
  <2> QED
    BY <2>4, <2>5, <2>6, <2>8, <2>9
<1> QED
  <2>1. \/ calls = OsQ!Returns(t) /\ \A u \in Thread : u # t /\ queue_call[u].op = op
                                                => queue_call[u].at # "asleep"
        \/ \E u \in Thread : /\ u # t /\ queue_call[u].op = op /\ queue_call[u].at = "asleep"
                             /\ calls = Waking(t, u)
    BY SignalledCalls
  <2> QED
    BY <2>1, <1>4, <1>5

\* ... or has returned without.
LEMMA Leaves ==
  ASSUME OsQ!TypeOK, IsFiniteSet(Thread), NEW t \in Thread,
         NEW op \in {"put", "get"}, NEW other \in {"put", "get"}, op # other,
         queue_call[t].at # "asleep", queue_call[t].at = "woken" => queue_call[t].op = other,
         queue_call' = OsQ!Returns(t)
  PROVE  /\ OsQ!Asleep(op)' = OsQ!Asleep(op) /\ OsQ!Woken(op)' = OsQ!Woken(op)
         /\ OsQ!Asleep(other)' = OsQ!Asleep(other)
         /\ Cardinality(OsQ!Woken(other)') >= Cardinality(OsQ!Woken(other)) - 1
<1>1. \A u \in Thread : OsQ!Returns(t)[u] = IF u = t THEN OsQ!Idle ELSE queue_call[u]
  BY DEF OsQ!Returns, OsQ!TypeOK
<1>2. /\ OsQ!Asleep(op)' = OsQ!Asleep(op) /\ OsQ!Asleep(other)' = OsQ!Asleep(other)
      /\ OsQ!Woken(op)' = OsQ!Woken(op) /\ OsQ!Woken(other)' = OsQ!Woken(other) \ {t}
  BY <1>1 DEF OsQ!Asleep, OsQ!Woken, OsQ!Idle
<1>3. Cardinality(OsQ!Woken(other) \ {t}) >= Cardinality(OsQ!Woken(other)) - 1
  BY FS_Subset, RemoveOne DEF OsQ!Woken
<1> QED
  BY <1>2, <1>3

\* The ring takes an element at one end and gives one away at the other.
LEMMA StoreRing ==
  ASSUME OsQ!TypeOK, NEW d \in Data \cup {NoData}, ring_count < MaxEle, OsQ!Store(d)
  PROVE  /\ ring' \in [0 .. MaxEle - 1 -> Data \cup {NoData}]
         /\ ring_rd' \in 0 .. MaxEle - 1 /\ ring_count' \in 0 .. MaxEle
         /\ ring_wr' = (ring_rd' + ring_count') % MaxEle
<1>1. MaxEle \in Nat \ {0} /\ ring_rd \in 0 .. MaxEle - 1 /\ ring_count \in 0 .. MaxEle
  BY CapacityAssumption DEF OsQ!TypeOK
<1>2. ring_wr = Ahead(MaxEle, ring_rd, ring_count) /\ ring_wr' = Ahead(MaxEle, ring_wr, 1)
  BY DEF OsQ!TypeOK, OsQ!Store, Ahead
<1>3. ring_rd' = ring_rd /\ ring_count' = ring_count + 1
  BY DEF OsQ!Store
<1>4. /\ ring_wr \in 0 .. MaxEle - 1
      /\ Ahead(MaxEle, ring_wr, 1) = Ahead(MaxEle, ring_rd, ring_count + 1)
  <2>1. ring_count + 1 \in 0 .. MaxEle /\ 1 \in 0 .. MaxEle
    BY <1>1
  <2>2. \A a \in 0 .. MaxEle - 1, k \in 0 .. MaxEle :
          /\ Ahead(MaxEle, a, k) = IF a + k < MaxEle THEN a + k ELSE a + k - MaxEle
          /\ Ahead(MaxEle, a, k) \in 0 .. MaxEle - 1
    BY <1>1, RingIndex
  <2>3. /\ ring_wr \in 0 .. MaxEle - 1
        /\ ring_wr = IF ring_rd + ring_count < MaxEle THEN ring_rd + ring_count
                     ELSE ring_rd + ring_count - MaxEle
    BY <1>1, <1>2, <2>2
  <2>4. Ahead(MaxEle, ring_wr, 1) = IF ring_wr + 1 < MaxEle THEN ring_wr + 1 ELSE ring_wr + 1 - MaxEle
    BY <2>1, <2>2, <2>3
  <2>5. Ahead(MaxEle, ring_rd, ring_count + 1)
          = IF ring_rd + (ring_count + 1) < MaxEle THEN ring_rd + (ring_count + 1)
            ELSE ring_rd + (ring_count + 1) - MaxEle
    BY <1>1, <2>1, <2>2
  <2> QED
    BY <1>1, <1>3, <2>3, <2>4, <2>5
<1>5. ring_wr' = (ring_rd' + ring_count') % MaxEle
  BY <1>2, <1>3, <1>4 DEF Ahead
<1>6. ring' \in [0 .. MaxEle - 1 -> Data \cup {NoData}]
  BY <1>4 DEF OsQ!TypeOK, OsQ!Store
<1> QED
  BY <1>1, <1>3, <1>5, <1>6

LEMMA FetchRing ==
  ASSUME OsQ!TypeOK, NEW t \in Thread, ring_count > 0, OsQ!Fetch(t)
  PROVE  /\ ring' \in [0 .. MaxEle - 1 -> Data \cup {NoData}]
         /\ ring_rd' \in 0 .. MaxEle - 1 /\ ring_count' \in 0 .. MaxEle
         /\ ring_wr' = (ring_rd' + ring_count') % MaxEle
         /\ got' \in [Thread -> Data \cup {NoData}]
<1>1. MaxEle \in Nat \ {0} /\ ring_rd \in 0 .. MaxEle - 1 /\ ring_count \in 0 .. MaxEle
  BY CapacityAssumption DEF OsQ!TypeOK
<1>2. ring_wr = Ahead(MaxEle, ring_rd, ring_count) /\ ring_rd' = Ahead(MaxEle, ring_rd, 1)
  BY DEF OsQ!TypeOK, OsQ!Fetch, Ahead
<1>3. ring_wr' = ring_wr /\ ring_count' = ring_count - 1
  BY DEF OsQ!Fetch
<1>4. /\ ring_rd' \in 0 .. MaxEle - 1
      /\ Ahead(MaxEle, ring_rd', ring_count - 1) = Ahead(MaxEle, ring_rd, ring_count)
  <2>1. ring_count - 1 \in 0 .. MaxEle /\ 1 \in 0 .. MaxEle
    BY <1>1
  <2>2. \A a \in 0 .. MaxEle - 1, k \in 0 .. MaxEle :
          /\ Ahead(MaxEle, a, k) = IF a + k < MaxEle THEN a + k ELSE a + k - MaxEle
          /\ Ahead(MaxEle, a, k) \in 0 .. MaxEle - 1
    BY <1>1, RingIndex
  <2>3. ring_rd' \in 0 .. MaxEle - 1
        /\ ring_rd' = IF ring_rd + 1 < MaxEle THEN ring_rd + 1 ELSE ring_rd + 1 - MaxEle
    BY <1>1, <1>2, <2>1, <2>2
  <2>4. Ahead(MaxEle, ring_rd', ring_count - 1)
          = IF ring_rd' + (ring_count - 1) < MaxEle THEN ring_rd' + (ring_count - 1)
            ELSE ring_rd' + (ring_count - 1) - MaxEle
    BY <2>1, <2>2, <2>3
  <2>5. Ahead(MaxEle, ring_rd, ring_count)
          = IF ring_rd + ring_count < MaxEle THEN ring_rd + ring_count
            ELSE ring_rd + ring_count - MaxEle
    BY <1>1, <2>2
  <2> QED
    BY <1>1, <2>3, <2>4, <2>5
<1>5. ring_wr' = (ring_rd' + ring_count') % MaxEle
  BY <1>2, <1>3, <1>4 DEF Ahead
<1>6. ring' \in [0 .. MaxEle - 1 -> Data \cup {NoData}]
  BY DEF OsQ!TypeOK, OsQ!Fetch
<1>7. got' \in [Thread -> Data \cup {NoData}]
  BY DEF OsQ!TypeOK, OsQ!Fetch
<1> QED
  BY <1>1, <1>3, <1>4, <1>5, <1>6, <1>7

\* What is said of the calls holds of those that a return, with a signal or without,
\* leaves behind.
LEMMA CallsAfter ==
  ASSUME OsQ!TypeOK, QueueCalls, NEW t \in Thread, NEW op \in {"put", "get"},
         queue_call' \in OsQ!Signalled(op, OsQ!Returns(t)) \/ queue_call' = OsQ!Returns(t)
  PROVE  queue_call' \in [Thread -> OsQ!Calls] /\ QueueCalls'
<1>1. \A u \in Thread : OsQ!Returns(t)[u] = IF u = t THEN OsQ!Idle ELSE queue_call[u]
  BY DEF OsQ!Returns, OsQ!TypeOK
<1>2. OsQ!Returns(t) \in [Thread -> OsQ!Calls]
  BY DEF OsQ!Returns, OsQ!TypeOK, OsQ!Idle, OsQ!Calls, OsQ!Wait
<1>3. CASE queue_call' = OsQ!Returns(t)
  BY <1>1, <1>2, <1>3 DEF QueueCalls, OsQ!Idle
<1>4. CASE queue_call' \in OsQ!Signalled(op, OsQ!Returns(t)) /\ queue_call' # OsQ!Returns(t)
  <2>1. PICK calls \in OsQ!Signalled(op, OsQ!Returns(t)) : queue_call' = calls
    BY <1>4
  <2>2. queue_call' \in [Thread -> OsQ!Calls]
        /\ \E u \in Thread : /\ u # t /\ queue_call[u].op = op /\ queue_call[u].at = "asleep"
                             /\ calls = Waking(t, u)
    BY <1>4, <2>1, SignalledCalls
  <2>3. PICK u \in Thread : /\ u # t /\ queue_call[u].op = op /\ queue_call[u].at = "asleep"
                            /\ calls = Waking(t, u)
    BY <2>2
  <2>4. \A v \in Thread : /\ calls[v].op = OsQ!Returns(t)[v].op
                          /\ calls[v].data = OsQ!Returns(t)[v].data
                          /\ v # u => calls[v].at = OsQ!Returns(t)[v].at
    BY <1>2, <2>3 DEF Waking, OsQ!Calls
  <2>5. \A v \in Thread : queue_call'[v].at # "idle" =>
            /\ v # t /\ queue_call[v].at # "idle"
            /\ queue_call'[v].op = queue_call[v].op /\ queue_call'[v].data = queue_call[v].data
    BY <1>1, <2>1, <2>3, <2>4 DEF OsQ!Idle
  <2> QED
    BY <2>2, <2>5 DEF QueueCalls
<1> QED
  BY <1>3, <1>4

\* The thread t falls asleep at the end op of the queue.
Sleeping(t, op, d, wait) ==
    [queue_call EXCEPT ![t] = [op |-> op, data |-> d, wait |-> wait, at |-> "asleep"]]
LEMMA Sleeps ==
  ASSUME OsQ!TypeOK, QueueCalls, NEW t \in Thread, NEW op \in {"put", "get"},
         NEW other \in {"put", "get"}, op # other,
         NEW d \in Data \cup {NoData}, NEW wait \in OsQ!Wait,
         queue_call[t].at # "asleep", queue_call[t].at = "woken" => queue_call[t].op = op,
         \/ op = "put" /\ BlockOnPut /\ d \in Data
         \/ op = "get" /\ BlockOnGet,
         queue_call' = Sleeping(t, op, d, wait)
  PROVE  /\ queue_call' \in [Thread -> OsQ!Calls] /\ QueueCalls'
         /\ OsQ!Asleep(other)' = OsQ!Asleep(other) /\ OsQ!Woken(other)' = OsQ!Woken(other)
<1>1. \A u \in Thread : queue_call'[u] = IF u = t THEN [op |-> op, data |-> d, wait |-> wait,
                                                  at |-> "asleep"] ELSE queue_call[u]
  BY DEF OsQ!TypeOK, Sleeping
<1>2. queue_call' \in [Thread -> OsQ!Calls]
  BY DEF OsQ!TypeOK, Sleeping, OsQ!Calls
<1>3. QueueCalls'
  BY <1>1 DEF QueueCalls
<1>4. OsQ!Asleep(other)' = OsQ!Asleep(other) /\ OsQ!Woken(other)' = OsQ!Woken(other)
  BY <1>1 DEF OsQ!Asleep, OsQ!Woken
<1> QED
  BY <1>2, <1>3, <1>4

\* One pass through the loop of tivxQueuePut ...
LEMMA PutPassKept ==
  ASSUME QueueInv, IsFiniteSet(Thread), NEW t \in Thread, NEW d \in Data, NEW wait \in OsQ!Wait,
         queue_call[t].at # "asleep", queue_call[t].at = "woken" => queue_call[t].op = "put",
         OsQ!PutPass(t, d, wait)
  PROVE  QueueInv'
<1>0. OsQ!TypeOK /\ QueueCalls /\ QueueWakeups /\ got' = got
  BY DEF QueueInv, OsQ!PutPass
<1>1. MaxEle \in Nat \ {0} /\ ring_count \in 0 .. MaxEle
  BY <1>0, CapacityAssumption DEF OsQ!TypeOK
<1>2. \A op \in {"get", "put"} : IsFiniteSet(OsQ!Woken(op)) /\ Cardinality(OsQ!Woken(op)) \in Nat
  BY FS_Subset, FS_CardinalityType DEF OsQ!Woken
<1>3. CASE /\ ring_count < MaxEle /\ OsQ!Store(d)
           /\ queue_call' \in IF BlockOnGet THEN OsQ!Signalled("get", OsQ!Returns(t))
                              ELSE {OsQ!Returns(t)}
  <2>1. OsQ!TypeOK' /\ QueueCalls' /\ ring_count' = ring_count + 1
    BY <1>0, <1>3, StoreRing, CallsAfter DEF OsQ!TypeOK, OsQ!Store
  <2>2. OsQ!Asleep("get")' # {} => ring_count' <= Cardinality(OsQ!Woken("get")')
    <3>1. CASE BlockOnGet
      <4>1. OsQ!Asleep("get")' # {} => /\ OsQ!Asleep("get") # {}
                                   /\ Cardinality(OsQ!Woken("get")') = Cardinality(OsQ!Woken("get")) + 1
        BY <1>0, <1>3, <3>1, Signals
      <4> QED
        BY <1>0, <1>1, <1>2, <2>1, <4>1 DEF QueueWakeups
    <3>2. CASE ~BlockOnGet
      BY <2>1, <3>2 DEF QueueCalls, OsQ!Asleep
    <3> QED
      BY <3>1, <3>2
  <2>3. /\ OsQ!Asleep("put")' = OsQ!Asleep("put")
        /\ Cardinality(OsQ!Woken("put")') >= Cardinality(OsQ!Woken("put")) - 1
    <3>1. CASE BlockOnGet
      BY <1>0, <1>3, <3>1, Signals
    <3>2. CASE ~BlockOnGet
      BY <1>0, <1>3, <3>2, Leaves
    <3> QED
      BY <3>1, <3>2
  <2>4. OsQ!Woken("put")' \subseteq Thread /\ Cardinality(OsQ!Woken("put")') \in Nat
    BY FS_Subset, FS_CardinalityType DEF OsQ!Woken
  <2>5. OsQ!Asleep("put")' # {} => MaxEle - ring_count' <= Cardinality(OsQ!Woken("put")')
    BY <1>0, <1>1, <1>2, <2>1, <2>3, <2>4 DEF QueueWakeups
  <2> QED
    BY <2>1, <2>2, <2>5 DEF QueueInv, QueueWakeups
<1>4. CASE ring_count = MaxEle /\ queue_call' = OsQ!Returns(t) /\ UNCHANGED OsQ!ringVars
  <2>1. OsQ!TypeOK' /\ QueueCalls'
    BY <1>0, <1>4, CallsAfter DEF OsQ!TypeOK
  <2>2. /\ OsQ!Asleep("get")' = OsQ!Asleep("get") /\ OsQ!Woken("get")' = OsQ!Woken("get")
        /\ Cardinality(OsQ!Woken("put")') \in Nat
    BY <1>0, <1>4, Leaves, FS_Subset, FS_CardinalityType DEF OsQ!Woken
  <2>3. MaxEle - ring_count' = 0 /\ ring_count' = ring_count
    BY <1>1, <1>4
  <2> QED
    BY <1>0, <2>1, <2>2, <2>3 DEF QueueInv, QueueWakeups
<1>5. CASE /\ ring_count = MaxEle /\ wait # "none" /\ BlockOnPut
           /\ queue_call' = Sleeping(t, "put", d, "forever") /\ UNCHANGED OsQ!ringVars
  <2>1. "forever" \in OsQ!Wait
    BY DEF OsQ!Wait
  <2>2. /\ queue_call' \in [Thread -> OsQ!Calls] /\ QueueCalls'
        /\ OsQ!Asleep("get")' = OsQ!Asleep("get") /\ OsQ!Woken("get")' = OsQ!Woken("get")
    BY <1>0, <1>5, <2>1, Sleeps
  <2>3. MaxEle - ring_count' = 0 /\ ring_count' = ring_count /\ Cardinality(OsQ!Woken("put")') \in Nat
    BY <1>1, <1>5, FS_Subset, FS_CardinalityType DEF OsQ!Woken
  <2> QED
    BY <1>0, <1>5, <2>2, <2>3 DEF QueueInv, QueueWakeups, OsQ!TypeOK
<1> QED
  BY <1>3, <1>4, <1>5 DEF OsQ!PutPass, Sleeping

\* ... and of tivxQueueGet.
LEMMA GetPassKept ==
  ASSUME QueueInv, IsFiniteSet(Thread), NEW t \in Thread, NEW wait \in OsQ!Wait,
         queue_call[t].at # "asleep", queue_call[t].at = "woken" => queue_call[t].op = "get",
         OsQ!GetPass(t, wait)
  PROVE  QueueInv'
<1>0. OsQ!TypeOK /\ QueueCalls /\ QueueWakeups
  BY DEF QueueInv
<1>1. MaxEle \in Nat \ {0} /\ ring_count \in 0 .. MaxEle
  BY <1>0, CapacityAssumption DEF OsQ!TypeOK
<1>2. \A op \in {"get", "put"} : IsFiniteSet(OsQ!Woken(op)) /\ Cardinality(OsQ!Woken(op)) \in Nat
  BY FS_Subset, FS_CardinalityType DEF OsQ!Woken
<1>3. CASE /\ ring_count > 0 /\ OsQ!Fetch(t)
           /\ queue_call' \in IF BlockOnPut THEN OsQ!Signalled("put", OsQ!Returns(t))
                              ELSE {OsQ!Returns(t)}
  <2>1. OsQ!TypeOK' /\ QueueCalls' /\ ring_count' = ring_count - 1
    BY <1>0, <1>3, FetchRing, CallsAfter DEF OsQ!TypeOK, OsQ!Fetch
  <2>2. OsQ!Asleep("put")' # {} => MaxEle - ring_count' <= Cardinality(OsQ!Woken("put")')
    <3>1. CASE BlockOnPut
      <4>1. OsQ!Asleep("put")' # {} => /\ OsQ!Asleep("put") # {}
                                   /\ Cardinality(OsQ!Woken("put")') = Cardinality(OsQ!Woken("put")) + 1
        BY <1>0, <1>3, <3>1, Signals
      <4> QED
        BY <1>0, <1>1, <1>2, <2>1, <4>1 DEF QueueWakeups
    <3>2. CASE ~BlockOnPut
      BY <2>1, <3>2 DEF QueueCalls, OsQ!Asleep
    <3> QED
      BY <3>1, <3>2
  <2>3. /\ OsQ!Asleep("get")' = OsQ!Asleep("get")
        /\ Cardinality(OsQ!Woken("get")') >= Cardinality(OsQ!Woken("get")) - 1
    <3>1. CASE BlockOnPut
      BY <1>0, <1>3, <3>1, Signals
    <3>2. CASE ~BlockOnPut
      BY <1>0, <1>3, <3>2, Leaves
    <3> QED
      BY <3>1, <3>2
  <2>4. OsQ!Woken("get")' \subseteq Thread /\ Cardinality(OsQ!Woken("get")') \in Nat
    BY FS_Subset, FS_CardinalityType DEF OsQ!Woken
  <2>5. OsQ!Asleep("get")' # {} => ring_count' <= Cardinality(OsQ!Woken("get")')
    BY <1>0, <1>1, <1>2, <2>1, <2>3, <2>4 DEF QueueWakeups
  <2> QED
    BY <2>1, <2>2, <2>5 DEF QueueInv, QueueWakeups
<1>4. CASE ring_count = 0 /\ queue_call' = OsQ!Returns(t) /\ UNCHANGED <<OsQ!ringVars, got>>
  <2>1. OsQ!TypeOK' /\ QueueCalls'
    BY <1>0, <1>4, CallsAfter DEF OsQ!TypeOK
  <2>2. /\ OsQ!Asleep("put")' = OsQ!Asleep("put") /\ OsQ!Woken("put")' = OsQ!Woken("put")
        /\ Cardinality(OsQ!Woken("get")') \in Nat
    BY <1>0, <1>4, Leaves, FS_Subset, FS_CardinalityType DEF OsQ!Woken
  <2> QED
    BY <1>0, <1>4, <2>1, <2>2 DEF QueueInv, QueueWakeups
<1>5. CASE /\ ring_count = 0 /\ wait # "none" /\ BlockOnGet
           /\ queue_call' = Sleeping(t, "get", NoData, wait) /\ UNCHANGED <<OsQ!ringVars, got>>
  <2>1. /\ queue_call' \in [Thread -> OsQ!Calls] /\ QueueCalls'
        /\ OsQ!Asleep("put")' = OsQ!Asleep("put") /\ OsQ!Woken("put")' = OsQ!Woken("put")
    BY <1>0, <1>5, Sleeps
  <2>2. ring_count' = 0 /\ Cardinality(OsQ!Woken("get")') \in Nat
    BY <1>5, FS_Subset, FS_CardinalityType DEF OsQ!Woken
  <2> QED
    BY <1>0, <1>5, <2>1, <2>2 DEF QueueInv, QueueWakeups, OsQ!TypeOK
<1> QED
  BY <1>3, <1>4, <1>5 DEF OsQ!GetPass, Sleeping

\* Every step keeps the invariant.
LEMMA QueueNext ==
  ASSUME IsFiniteSet(Thread), QueueInv, [OsQ!Next]_OsQ!osqVars
  PROVE  QueueInv'
<1>0. OsQ!TypeOK /\ QueueCalls /\ QueueWakeups
  BY DEF QueueInv
<1>1. ASSUME NEW t \in Thread, NEW d \in Data, NEW wait \in OsQ!Wait, OsQ!Put(t, d, wait)
      PROVE  QueueInv'
  BY <1>1, PutPassKept DEF OsQ!Put
<1>2. ASSUME NEW t \in Thread, NEW wait \in OsQ!Wait, OsQ!Get(t, wait)
      PROVE  QueueInv'
  BY <1>2, GetPassKept DEF OsQ!Get
<1>3. ASSUME NEW t \in Thread, OsQ!Resume(t)
      PROVE  QueueInv'
  <2>1. queue_call[t] \in OsQ!Calls /\ queue_call[t].wait \in OsQ!Wait
    BY <1>0 DEF OsQ!TypeOK, OsQ!Calls
  <2>2. CASE queue_call[t].op = "put"
    BY <1>0, <1>3, <2>1, <2>2, PutPassKept DEF OsQ!Resume, QueueCalls
  <2>3. CASE queue_call[t].op # "put"
    BY <1>0, <1>3, <2>1, <2>3, GetPassKept DEF OsQ!Resume, QueueCalls
  <2> QED
    BY <2>2, <2>3
<1>4. ASSUME NEW t \in Thread, OsQ!Expire(t) \/ OsQ!WakeSpuriously(t)
      PROVE  QueueInv'
  <2>1. UNCHANGED <<OsQ!ringVars, got>> /\ queue_call[t].at = "asleep"
    BY <1>4 DEF OsQ!Expire, OsQ!WakeSpuriously
  <2>2. queue_call' \in [Thread -> OsQ!Calls]
    <3>1. OsQ!Idle \in OsQ!Calls /\ queue_call \in [Thread -> OsQ!Calls]
      BY <1>0 DEF OsQ!TypeOK, OsQ!Idle, OsQ!Calls, OsQ!Wait
    <3>2. CASE OsQ!Expire(t)
      BY <3>1, <3>2 DEF OsQ!Expire, OsQ!Returns
    <3>3. CASE OsQ!WakeSpuriously(t)
      BY <3>1, <3>3 DEF OsQ!WakeSpuriously, OsQ!Calls
    <3> QED
      BY <1>4, <3>2, <3>3
  <2>3. /\ \A u \in Thread \ {t} : queue_call'[u] = queue_call[u]
        /\ queue_call'[t].at # "asleep"
        /\ queue_call'[t].at # "idle" => /\ queue_call'[t].op = queue_call[t].op
                                         /\ queue_call'[t].data = queue_call[t].data
    BY <1>0, <1>4
       DEF OsQ!Expire, OsQ!WakeSpuriously, OsQ!Returns, OsQ!TypeOK, OsQ!Idle, OsQ!Calls
  <2>4. QueueCalls'
    BY <1>0, <2>1, <2>3 DEF QueueCalls
  <2>5. ASSUME NEW op \in {"get", "put"}
        PROVE  /\ OsQ!Asleep(op)' \subseteq OsQ!Asleep(op)
               /\ Cardinality(OsQ!Woken(op)) \in Nat /\ Cardinality(OsQ!Woken(op)') \in Nat
               /\ Cardinality(OsQ!Woken(op)) <= Cardinality(OsQ!Woken(op)')
    <3>1. OsQ!Asleep(op)' \subseteq OsQ!Asleep(op) /\ OsQ!Woken(op) \subseteq OsQ!Woken(op)'
      BY <2>1, <2>3 DEF OsQ!Asleep, OsQ!Woken
    <3>2. IsFiniteSet(OsQ!Woken(op)')
      BY FS_Subset DEF OsQ!Woken
    <3> QED
      BY <3>1, <3>2, FS_Subset, FS_CardinalityType
  <2>6. ring_count' = ring_count /\ MaxEle \in Nat /\ ring_count \in Nat
    BY <1>0, <2>1, CapacityAssumption DEF OsQ!TypeOK
  <2>7. QueueWakeups'
    BY <1>0, <2>5, <2>6 DEF QueueWakeups
  <2> QED
    BY <1>0, <2>1, <2>2, <2>4, <2>7 DEF QueueInv, OsQ!TypeOK
<1>5. ASSUME UNCHANGED OsQ!osqVars
      PROVE  QueueInv'
  BY <1>0, <1>5
     DEF OsQ!osqVars, QueueInv, OsQ!TypeOK, QueueCalls, QueueWakeups, OsQ!Asleep, OsQ!Woken
<1> QED
  BY <1>1, <1>2, <1>3, <1>4, <1>5 DEF OsQ!Next

-----------------------------------------------------------------------------
(* The platform's queue is a first-in first-out queue                        *)

\* What is in the ring is what the abstract queue holds, before a step and after it.
LEMMA ContentsWindow ==
  ASSUME OsQ!TypeOK, OsQ!TypeOK'
  PROVE  /\ OsQ!Contents = Window(MaxEle, ring, ring_rd, ring_count)
         /\ OsQ!Contents' = Window(MaxEle, ring', ring_rd', ring_count')
<1>1. \A i \in 1 .. ring_count : (ring_rd + i - 1) % MaxEle = Ahead(MaxEle, ring_rd, i - 1)
  <2>1. \A i \in 1 .. ring_count : ring_rd + i - 1 = ring_rd + (i - 1)
    BY CapacityAssumption DEF OsQ!TypeOK
  <2> QED
    BY <2>1 DEF Ahead
<1>2. \A i \in 1 .. ring_count' : (ring_rd' + i - 1) % MaxEle = Ahead(MaxEle, ring_rd', i - 1)
  <2>1. \A i \in 1 .. ring_count' : ring_rd' + i - 1 = ring_rd' + (i - 1)
    BY CapacityAssumption DEF OsQ!TypeOK
  <2> QED
    BY <2>1 DEF Ahead
<1> QED
  BY <1>1, <1>2 DEF OsQ!Contents, Window

\* tivxQueuePut appends, and only when there is room ...
LEMMA StoreAppends ==
  ASSUME OsQ!TypeOK, OsQ!TypeOK', NEW d \in Data, ring_count < MaxEle, OsQ!Store(d), got' = got
  PROVE  OsQ!Fifo!Put(d)
<1>1. /\ MaxEle \in Nat \ {0} /\ ring_rd \in 0 .. MaxEle - 1 /\ ring_count \in 0 .. MaxEle - 1
      /\ ring \in [0 .. MaxEle - 1 -> Data \cup {NoData}] /\ d \in Data \cup {NoData}
  BY CapacityAssumption DEF OsQ!TypeOK
<1>2. /\ ring_rd' = ring_rd /\ ring_count' = ring_count + 1
      /\ ring' = [ring EXCEPT ![Ahead(MaxEle, ring_rd, ring_count)] = d]
  BY DEF OsQ!TypeOK, OsQ!Store, Ahead
<1>r. Ahead(MaxEle, ring_rd, ring_count) \in 0 .. MaxEle - 1
  BY <1>1, RingIndex
<1>3. Window(MaxEle, ring', ring_rd, ring_count + 1)
        = Append(Window(MaxEle, ring, ring_rd, ring_count), d)
  <2>0. ring_count \in 0 .. MaxEle - 1 /\ MaxEle \in Nat \ {0} /\ ring_rd \in 0 .. MaxEle - 1
    BY <1>1
  <2>1. /\ ring'[Ahead(MaxEle, ring_rd, ring_count)] = d
        /\ SameBut(MaxEle, ring, ring', Ahead(MaxEle, ring_rd, ring_count))
    BY <1>1, <1>2, <1>r DEF SameBut
  <2>2. Window(MaxEle, ring', ring_rd, ring_count + 1)
          = Append(Window(MaxEle, ring, ring_rd, ring_count),
                   ring'[Ahead(MaxEle, ring_rd, ring_count)])
    <3>1. \A q : SameBut(MaxEle, ring, q, Ahead(MaxEle, ring_rd, ring_count))
                   => Window(MaxEle, q, ring_rd, ring_count + 1)
                        = Append(Window(MaxEle, ring, ring_rd, ring_count),
                                 q[Ahead(MaxEle, ring_rd, ring_count)])
      BY ONLY <2>0, WindowAppend, ZenonT(90)
    <3> QED
      BY <2>1, <3>1
  <2> QED
    BY <2>1, <2>2
<1>4. OsQ!Contents' = Append(OsQ!Contents, d)
  BY <1>2, <1>3, ContentsWindow
<1>5. Len(OsQ!Contents) < MaxEle
  BY <1>1 DEF OsQ!Contents
<1> QED
  BY <1>4, <1>5 DEF OsQ!Fifo!Put

\* ... and tivxQueueGet takes the head, and only when there is one.
LEMMA FetchTakesHead ==
  ASSUME OsQ!TypeOK, OsQ!TypeOK', NEW t \in Thread, ring_count > 0, OsQ!Fetch(t)
  PROVE  OsQ!Fifo!Get(t)
<1>1. /\ MaxEle \in Nat \ {0} /\ ring_rd \in 0 .. MaxEle - 1 /\ ring_count \in 1 .. MaxEle
      /\ ring \in [0 .. MaxEle - 1 -> Data \cup {NoData}]
  BY CapacityAssumption DEF OsQ!TypeOK
<1>2. /\ ring_rd' = Ahead(MaxEle, ring_rd, 1) /\ ring_count' = ring_count - 1 /\ ring' = ring
      /\ got' = [got EXCEPT ![t] = ring[ring_rd]]
  BY DEF OsQ!TypeOK, OsQ!Fetch, Ahead
<1>3. /\ Window(MaxEle, ring, ring_rd, ring_count) # <<>>
      /\ Head(Window(MaxEle, ring, ring_rd, ring_count)) = ring[ring_rd]
      /\ Window(MaxEle, ring, Ahead(MaxEle, ring_rd, 1), ring_count - 1)
           = Tail(Window(MaxEle, ring, ring_rd, ring_count))
  BY <1>1, WindowTail
<1>4. /\ OsQ!Contents # <<>> /\ Head(OsQ!Contents) = ring[ring_rd]
      /\ OsQ!Contents' = Tail(OsQ!Contents)
  BY <1>2, <1>3, ContentsWindow
<1> QED
  BY <1>2, <1>4 DEF OsQ!Fifo!Get

\* Whatever changes neither the ring nor what was got changes nothing of the queue.
LEMMA RingStutters ==
  ASSUME UNCHANGED <<OsQ!ringVars, got>>
  PROVE  UNCHANGED OsQ!Fifo!fifoVars
BY DEF OsQ!Contents, OsQ!Fifo!fifoVars

\* A pass of tivxQueuePut and one of tivxQueueGet.
LEMMA PutPassFifo ==
  ASSUME OsQ!TypeOK, OsQ!TypeOK', NEW t \in Thread, NEW d \in Data, NEW wait,
         OsQ!PutPass(t, d, wait)
  PROVE  [OsQ!Fifo!Next]_OsQ!Fifo!fifoVars
<1>1. CASE ring_count < MaxEle /\ OsQ!Store(d)
  <2>1. OsQ!Fifo!Put(d)
    BY <1>1, StoreAppends DEF OsQ!PutPass
  <2> QED
    BY <2>1 DEF OsQ!Fifo!Next
<1>2. CASE UNCHANGED OsQ!ringVars
  BY <1>2, RingStutters DEF OsQ!PutPass
<1> QED
  BY <1>1, <1>2 DEF OsQ!PutPass

LEMMA GetPassFifo ==
  ASSUME OsQ!TypeOK, OsQ!TypeOK', NEW t \in Thread, NEW wait, OsQ!GetPass(t, wait)
  PROVE  [OsQ!Fifo!Next]_OsQ!Fifo!fifoVars
<1>1. CASE ring_count > 0 /\ OsQ!Fetch(t)
  <2>1. OsQ!Fifo!Get(t)
    BY <1>1, FetchTakesHead
  <2> QED
    BY <2>1 DEF OsQ!Fifo!Next
<1>2. CASE UNCHANGED <<OsQ!ringVars, got>>
  BY <1>2, RingStutters
<1> QED
  BY <1>1, <1>2 DEF OsQ!GetPass

\* Every step is one of the abstract queue, or none.
LEMMA NextFifo ==
  ASSUME QueueInv, QueueInv', [OsQ!Next]_OsQ!osqVars
  PROVE  [OsQ!Fifo!Next]_OsQ!Fifo!fifoVars
<1>0. OsQ!TypeOK /\ OsQ!TypeOK' /\ QueueCalls
  BY DEF QueueInv
<1>1. ASSUME NEW t \in Thread, NEW d \in Data, NEW wait \in OsQ!Wait, OsQ!Put(t, d, wait)
      PROVE  [OsQ!Fifo!Next]_OsQ!Fifo!fifoVars
  BY <1>0, <1>1, PutPassFifo DEF OsQ!Put
<1>2. ASSUME NEW t \in Thread, NEW wait \in OsQ!Wait, OsQ!Get(t, wait)
      PROVE  [OsQ!Fifo!Next]_OsQ!Fifo!fifoVars
  BY <1>0, <1>2, GetPassFifo DEF OsQ!Get
<1>3. ASSUME NEW t \in Thread, OsQ!Resume(t)
      PROVE  [OsQ!Fifo!Next]_OsQ!Fifo!fifoVars
  <2>1. CASE queue_call[t].op = "put"
    <3>1. queue_call[t].data \in Data
      BY <1>0, <1>3, <2>1 DEF QueueCalls, OsQ!Resume
    <3> QED
      BY <1>0, <1>3, <2>1, <3>1, PutPassFifo DEF OsQ!Resume
  <2>2. CASE queue_call[t].op # "put"
    BY <1>0, <1>3, <2>2, GetPassFifo DEF OsQ!Resume
  <2> QED
    BY <2>1, <2>2
<1>4. ASSUME NEW t \in Thread, OsQ!Expire(t) \/ OsQ!WakeSpuriously(t)
      PROVE  [OsQ!Fifo!Next]_OsQ!Fifo!fifoVars
  BY <1>4, RingStutters DEF OsQ!Expire, OsQ!WakeSpuriously
<1>5. ASSUME UNCHANGED OsQ!osqVars
      PROVE  [OsQ!Fifo!Next]_OsQ!Fifo!fifoVars
  BY <1>5, RingStutters DEF OsQ!osqVars
<1> QED
  BY <1>1, <1>2, <1>3, <1>4, <1>5 DEF OsQ!Next

\* tivxQueuePut, tivxQueueGet: no wake-up is lost, and the ring behaves as a bounded
\* first-in first-out queue: what tivxQueueGet gives away is what tivxQueuePut took, in
\* that order, each once, however the calls of the threads wait, time out and overtake
\* one another.
THEOREM PlatformQueue ==
  ServicesSpec => []OsQ!TypeOK /\ []NoLostWakeup /\ OsQ!QueueIsFifo
<1>1. ServicesInit => OsQ!Init
  BY DEF ServicesInit
<1>2. [ServicesNext]_servicesVars => [OsQ!Next]_OsQ!osqVars
  BY DEF ServicesNext, servicesVars, osQueueVars, OsQ!osqVars
<1>3. QueueInv /\ [OsQ!Next]_OsQ!osqVars => QueueInv'
  BY QueueNext, ServicesAssumption
<1>4. QueueInv => OsQ!TypeOK /\ NoLostWakeup
  <2>1. \A S : OsQ!Cardinality(S) = Cardinality(S)
    BY DEF OsQ!Cardinality, Cardinality
  <2> QED
    BY <2>1 DEF QueueInv, QueueWakeups, NoLostWakeup, OsQ!NoLostWakeup
<1>5. OsQ!Init => OsQ!Fifo!Init
  BY DEF OsQ!Init, OsQ!Fifo!Init, OsQ!Contents
<1>6. QueueInv /\ QueueInv' /\ [OsQ!Next]_OsQ!osqVars => [OsQ!Fifo!Next]_OsQ!Fifo!fifoVars
  BY NextFifo
<1> QED
  BY <1>1, <1>2, <1>3, <1>4, <1>5, <1>6, QueueInit, PTL
     DEF ServicesSpec, OsQ!QueueIsFifo, OsQ!Fifo!Spec

HIDE DEF OsQ!ringVars

-----------------------------------------------------------------------------
(* Events of the platform                                                    *)

\* A flag that is set was set by a post that nobody has taken yet; the sleeping and
\* the awake are counted by their places.
EventInv == OsE!TypeOK /\ OsE!NoLostPost /\ OsE!OneWakeForAPost

\* tivxEventCreate: the event is clear and nobody waits for it.
LEMMA EventInit == OsE!Init => EventInv
<1> SUFFICES ASSUME OsE!Init PROVE EventInv
  OBVIOUS
<1>1. MaxPost \in Nat
  BY ServicesAssumption
<1>2. ~is_set
  BY DEF OsE!Init
<1>b. is_set \in BOOLEAN
  BY ONLY OsE!Init DEF OsE!Init
<1>3. OsE!TypeOK
  BY <1>1, <1>b DEF OsE!Init, OsE!TypeOK
<1>4. OsE!OneWakeForAPost
  BY <1>2 DEF OsE!Init, OsE!OneWakeForAPost
<1>5. OsE!NoLostPost
  BY <1>2 DEF OsE!NoLostPost
<1> QED
  BY <1>3, <1>4, <1>5 DEF EventInv

\* tivxEventPost, tivxEventClear, tivxEventWait: every step keeps the account of posts.
\* A post wakes a sleeper if there is one, so a flag that stays set has a thread on the
\* way to it.
LEMMA EventNext ==
  ASSUME EventInv, [OsE!Next]_osEventVars
  PROVE  EventInv'
<1>0. MaxPost \in Nat
  BY ServicesAssumption
<1> USE <1>0 DEF EventInv, OsE!TypeOK, OsE!OneWakeForAPost
<1>1. CASE OsE!Post
  <2>1. OsE!Woken' # {} \/ OsE!Asleep' = {}
    BY <1>1 DEF OsE!Post, OsE!Asleep, OsE!Woken
  <2>2. is_set'
    BY <1>1 DEF OsE!Post
  <2>3. OsE!TypeOK' /\ OsE!OneWakeForAPost'
    BY <1>1, <2>2 DEF OsE!Post, OsE!Asleep
  <2> QED
    BY <2>1, <2>3 DEF OsE!NoLostPost
<1>2. CASE OsE!Clear
  <2>1. ~is_set' /\ is_set
    BY <1>2 DEF OsE!Clear
  <2>b. is_set' \in BOOLEAN
    BY ONLY <1>2 DEF OsE!Clear
  <2>2. OsE!TypeOK' /\ OsE!OneWakeForAPost'
    BY <1>2, <2>1, <2>b DEF OsE!Clear
  <2> QED
    BY <2>1, <2>2 DEF OsE!NoLostPost
<1>3. ASSUME NEW t \in Waiter, OsE!Succeed(t)
      PROVE  EventInv'
  <2>1. ~is_set' /\ is_set
    BY <1>3 DEF OsE!Succeed
  <2>b. is_set' \in BOOLEAN
    BY ONLY <1>3 DEF OsE!Succeed
  <2>2. OsE!TypeOK' /\ OsE!OneWakeForAPost'
    BY <1>3, <2>1, <2>b DEF OsE!Succeed
  <2> QED
    BY <2>1, <2>2 DEF OsE!NoLostPost
<1>4. ASSUME NEW t \in Waiter, OsE!Sleep(t), waiter_timed' \subseteq Waiter
      PROVE  EventInv'
  <2>1. ~is_set' /\ ~is_set
    BY <1>4 DEF OsE!Sleep
  <2>2. OsE!TypeOK' /\ OsE!OneWakeForAPost'
    BY <1>4, <2>1 DEF OsE!Sleep
  <2> QED
    BY <2>1, <2>2 DEF OsE!NoLostPost
<1>5. ASSUME NEW t \in Waiter, OsE!Expire(t) \/ OsE!WakeSpuriously(t)
      PROVE  EventInv'
  <2>1. OsE!Asleep' \subseteq OsE!Asleep /\ OsE!Woken \subseteq OsE!Woken'
    BY <1>5 DEF OsE!Expire, OsE!WakeSpuriously, OsE!Asleep, OsE!Woken
  <2>2. OsE!TypeOK' /\ OsE!OneWakeForAPost' /\ is_set' = is_set
    BY <1>5 DEF OsE!Expire, OsE!WakeSpuriously
  <2> QED
    BY <2>1, <2>2 DEF OsE!NoLostPost
<1>6. CASE UNCHANGED osEventVars
  BY <1>6 DEF osEventVars, OsE!NoLostPost, OsE!Asleep, OsE!Woken
<1>7. ASSUME NEW t \in Waiter, OsE!Wait(t) \/ OsE!Resume(t)
      PROVE  OsE!Succeed(t) \/ (OsE!Sleep(t) /\ waiter_timed' \subseteq Waiter)
  BY <1>7 DEF OsE!Wait, OsE!Resume
<1> QED
  BY <1>1, <1>2, <1>3, <1>4, <1>5, <1>6, <1>7 DEF OsE!Next

\* The account of posts holds whatever part runs.
LEMMA EventInvariance == ServicesSpec => []EventInv
<1>1. ServicesInit => OsE!Init
  BY DEF ServicesInit
<1>2. [ServicesNext]_servicesVars => [OsE!Next]_osEventVars
  BY DEF ServicesNext, servicesVars
<1>3. EventInv /\ [OsE!Next]_osEventVars => EventInv'
  BY EventNext
<1> QED
  BY <1>1, <1>2, <1>3, EventInit, PTL DEF ServicesSpec

\* No post of tivxEventPost is lost while a thread sleeps in tivxEventWait, and none
\* wakes two threads.
THEOREM EventPosts == ServicesSpec => []EachPostWakesOne
<1>1. EventInv => EachPostWakesOne
  BY DEF EventInv, EachPostWakesOne
<1> QED
  BY <1>1, EventInvariance, PTL

-----------------------------------------------------------------------------
(* The queue of events                                                       *)

\* A call that adds an event has one, and has written it before it publishes it.
EventsInHand ==
    \A p \in Producer :
       /\ adding[p].at # "idle" => adding[p].event \in Event
       /\ adding[p].at = "filled" => event_list[adding[p].idx] = adding[p].event

\* IndexInOnePlace of EventQueue
IndexOnce ==
    \A i \in EvQ!Index :
       Cardinality(EvQ!Places(free_index, i)) + Cardinality(EvQ!Places(ready_queue, i))
         + Cardinality(EvQ!Adders(i)) + Cardinality(EvQ!Takers(i)) = 1

EventQueueInv == EvQ!TypeOK /\ IndexOnce /\ EventsInHand

\* How often an index is free and ready, and how many calls have it.
FreeIndices(i) == Count(free_index, i)
ReadyIndices(i) == Count(ready_queue, i)
AddedIndices(i) == Cardinality(EvQ!Adders(i))
TakenIndices(i) == Cardinality(EvQ!Takers(i))

\* The queues and the calls as they are counted.
LEMMA IndicesCounted ==
  /\ \A i : Cardinality(EvQ!Places(free_index, i)) = FreeIndices(i)
  /\ \A i : Cardinality(EvQ!Places(ready_queue, i)) = ReadyIndices(i)
BY DEF EvQ!Places, FreeIndices, ReadyIndices, Count

LEMMA IndexCounts ==
  ASSUME EvQ!TypeOK, IsFiniteSet(Producer), IsFiniteSet(Consumer), NEW i \in EvQ!Index
  PROVE  /\ FreeIndices(i) \in Nat /\ ReadyIndices(i) \in Nat /\ AddedIndices(i) \in Nat /\ TakenIndices(i) \in Nat
         /\ IsFiniteSet(EvQ!Adders(i)) /\ IsFiniteSet(EvQ!Takers(i))
         /\ FreeIndices(i) = 0 <=> \A j \in DOMAIN free_index : free_index[j] # i
         /\ ReadyIndices(i) = 0 <=> \A j \in DOMAIN ready_queue : ready_queue[j] # i
         /\ AddedIndices(i) = 0 <=> EvQ!Adders(i) = {}
         /\ TakenIndices(i) = 0 <=> EvQ!Takers(i) = {}
<1>1. free_index \in Seq(EvQ!Index) /\ ready_queue \in Seq(EvQ!Index)
  BY DEF EvQ!TypeOK
<1>2. /\ FreeIndices(i) \in Nat /\ ReadyIndices(i) \in Nat
      /\ FreeIndices(i) = 0 <=> \A j \in DOMAIN free_index : free_index[j] # i
      /\ ReadyIndices(i) = 0 <=> \A j \in DOMAIN ready_queue : ready_queue[j] # i
  BY <1>1, CountType DEF FreeIndices, ReadyIndices
<1>3. EvQ!Adders(i) \in SUBSET Producer /\ EvQ!Takers(i) \in SUBSET Consumer
  BY DEF EvQ!Adders, EvQ!Takers
<1>4. IsFiniteSet(EvQ!Adders(i)) /\ IsFiniteSet(EvQ!Takers(i))
  BY <1>3, FS_Subset
<1>5. /\ AddedIndices(i) \in Nat /\ TakenIndices(i) \in Nat
      /\ AddedIndices(i) = 0 <=> EvQ!Adders(i) = {}
      /\ TakenIndices(i) = 0 <=> EvQ!Takers(i) = {}
  BY <1>4, FS_CardinalityType, FS_EmptySet DEF AddedIndices, TakenIndices
<1> QED
  BY <1>2, <1>4, <1>5

\* The index of a call that adds an event is with no other call and in no queue.
LEMMA AdderAlone ==
  ASSUME EvQ!TypeOK, IndexOnce, IsFiniteSet(Producer), IsFiniteSet(Consumer),
         NEW p \in Producer, adding[p].at \in {"taken", "filled"}
  PROVE  /\ FreeIndices(adding[p].idx) = 0 /\ ReadyIndices(adding[p].idx) = 0
         /\ EvQ!Adders(adding[p].idx) = {p} /\ EvQ!Takers(adding[p].idx) = {}
<1> DEFINE i == adding[p].idx
<1>1. i \in EvQ!Index /\ p \in EvQ!Adders(i)
  BY DEF EvQ!TypeOK, EvQ!Adders
<1>2. FreeIndices(i) + ReadyIndices(i) + AddedIndices(i) + TakenIndices(i) = 1
  BY <1>1, IndicesCounted DEF IndexOnce, AddedIndices, TakenIndices
<1> HIDE DEF i
<1>3. /\ FreeIndices(i) \in Nat /\ ReadyIndices(i) \in Nat /\ AddedIndices(i) \in Nat /\ TakenIndices(i) \in Nat
      /\ AddedIndices(i) # 0 /\ IsFiniteSet(EvQ!Adders(i))
  BY <1>1, IndexCounts
<1>4. FreeIndices(i) = 0 /\ ReadyIndices(i) = 0 /\ AddedIndices(i) = 1 /\ TakenIndices(i) = 0
  BY <1>2, <1>3
<1>5. \E q : EvQ!Adders(i) = {q}
  BY <1>3, <1>4, FS_Singleton DEF AddedIndices
<1>6. EvQ!Adders(i) = {p} /\ EvQ!Takers(i) = {}
  BY <1>1, <1>4, <1>5, IndexCounts
<1> QED
  BY <1>4, <1>6 DEF i

\* At the start all indices are free.
LEMMA EventQueueInit == EvQ!Init => EventQueueInv
<1> SUFFICES ASSUME EvQ!Init PROVE EventQueueInv
  OBVIOUS
<1>0. EventQueueSize \in Nat \ {0}
  BY CapacityAssumption
<1>1. EvQ!TypeOK
  <2>1. 0 \in EvQ!Index /\ \A i \in 1 .. EventQueueSize : i - 1 \in EvQ!Index
    BY <1>0 DEF EvQ!Index
  <2>2. free_index \in Seq(EvQ!Index)
    BY <1>0, <2>1 DEF EvQ!Init
  <2> QED
    BY <2>1, <2>2 DEF EvQ!Init, EvQ!TypeOK, EvQ!NotAdding, EvQ!NotTaking
<1>2. ASSUME NEW i \in EvQ!Index
      PROVE  Cardinality(EvQ!Places(free_index, i)) + Cardinality(EvQ!Places(ready_queue, i))
               + Cardinality(EvQ!Adders(i)) + Cardinality(EvQ!Takers(i)) = 1
  <2>1. EvQ!Places(free_index, i) = {i + 1}
    <3>1. i \in Int /\ i + 1 \in 1 .. EventQueueSize
      BY <1>0 DEF EvQ!Index
    <3>2. \A j \in 1 .. EventQueueSize : j - 1 = i <=> j = i + 1
      BY <1>0, <3>1
    <3> QED
      BY <3>1, <3>2 DEF EvQ!Init, EvQ!Places
  <2>2. EvQ!Places(ready_queue, i) = {} /\ EvQ!Adders(i) = {} /\ EvQ!Takers(i) = {}
    BY DEF EvQ!Init, EvQ!Places, EvQ!Adders, EvQ!Takers, EvQ!NotAdding, EvQ!NotTaking
  <2>3. Cardinality({i + 1}) = 1 /\ Cardinality({}) = 0
    BY FS_Singleton, FS_EmptySet
  <2> QED
    BY <2>1, <2>2, <2>3
<1>3. EventsInHand
  BY DEF EvQ!Init, EventsInHand, EvQ!NotAdding
<1> QED
  BY <1>1, <1>2, <1>3 DEF EventQueueInv, IndexOnce

\* What has to be shown of a step: what it takes from one place it brings to another.
LEMMA IndexMoved ==
  ASSUME IndexOnce,
         \A i \in EvQ!Index : FreeIndices(i)' + ReadyIndices(i)' + AddedIndices(i)' + TakenIndices(i)'
                            = FreeIndices(i) + ReadyIndices(i) + AddedIndices(i) + TakenIndices(i)
  PROVE  IndexOnce'
<1>1. \A i \in EvQ!Index : FreeIndices(i) + ReadyIndices(i) + AddedIndices(i) + TakenIndices(i) = 1
  BY IndicesCounted DEF IndexOnce, AddedIndices, TakenIndices
<1>2. \A i \in EvQ!Index : FreeIndices(i)' + ReadyIndices(i)' + AddedIndices(i)' + TakenIndices(i)' = 1
  BY <1>1
<1>3. /\ \A i : Cardinality(EvQ!Places(free_index', i)) = FreeIndices(i)'
      /\ \A i : Cardinality(EvQ!Places(ready_queue', i)) = ReadyIndices(i)'
  BY DEF EvQ!Places, FreeIndices, ReadyIndices, Count
<1> QED
  BY <1>2, <1>3 DEF IndexOnce, AddedIndices, TakenIndices, EvQ!Places

\* ownEventQueueAddEvent takes an index from the free queue.
LEMMA TakeIndexKept ==
  ASSUME EventQueueInv, IsFiniteSet(Producer), IsFiniteSet(Consumer), NEW p \in Producer, EvQ!TakeIndex(p)
  PROVE  EventQueueInv'
<1>0. EvQ!TypeOK /\ IndexOnce /\ EventsInHand
  BY DEF EventQueueInv
<1>1. CASE free_index = <<>>
  <2>1. /\ adding' = [adding EXCEPT ![p] = EvQ!NotAdding] /\ adding[p].at = "enabled"
        /\ UNCHANGED <<enable, free_index, ready_queue, event_list, taking>>
    BY <1>1 DEF EvQ!TakeIndex
  <2>2. 0 \in EvQ!Index
    BY CapacityAssumption DEF EvQ!Index
  <2>3. EvQ!TypeOK' /\ EventsInHand'
    BY <1>0, <2>1, <2>2 DEF EvQ!TypeOK, EventsInHand, EvQ!NotAdding
  <2>4. \A i \in EvQ!Index : EvQ!Adders(i)' = EvQ!Adders(i) /\ EvQ!Takers(i)' = EvQ!Takers(i)
    BY <1>0, <2>1 DEF EvQ!TypeOK, EvQ!Adders, EvQ!Takers, EvQ!NotAdding
  <2>5. IndexOnce'
    BY <1>0, <2>1, <2>4, IndexMoved DEF FreeIndices, ReadyIndices, AddedIndices, TakenIndices
  <2> QED
    BY <2>3, <2>5 DEF EventQueueInv
<1>2. CASE free_index # <<>>
  <2> DEFINE h == Head(free_index)
  <2>1. /\ adding' = [adding EXCEPT ![p] = [adding[p] EXCEPT !.at = "taken", !.idx = h]]
        /\ adding[p].at = "enabled" /\ free_index' = Tail(free_index)
        /\ UNCHANGED <<enable, ready_queue, event_list, taking>>
    BY <1>0, <1>2 DEF EvQ!TakeIndex, EvQ!TypeOK
  <2>2. h \in EvQ!Index /\ free_index \in Seq(EvQ!Index)
    BY <1>0, <1>2 DEF EvQ!TypeOK
  <2> HIDE DEF h
  <2>3. EvQ!TypeOK' /\ EventsInHand'
    <3>1. free_index' \in Seq(EvQ!Index)
      BY <1>2, <2>1, <2>2
    <3>2. \A q \in Producer : /\ adding'[q].event = adding[q].event
                              /\ q # p => adding'[q] = adding[q]
                              /\ q = p => adding'[q].at = "taken"
      BY <1>0, <2>1 DEF EvQ!TypeOK
    <3>3. EventsInHand'
      BY <1>0, <2>1, <3>2 DEF EventsInHand
    <3> QED
      BY <1>0, <2>1, <2>2, <3>1, <3>3 DEF EvQ!TypeOK
  <2>4. ASSUME NEW i \in EvQ!Index
        PROVE  FreeIndices(i)' + ReadyIndices(i)' + AddedIndices(i)' + TakenIndices(i)'
                 = FreeIndices(i) + ReadyIndices(i) + AddedIndices(i) + TakenIndices(i)
    <3>1. FreeIndices(i)' = FreeIndices(i) - (IF i = h THEN 1 ELSE 0)
      BY <1>2, <2>1, <2>2, CountTail DEF FreeIndices, h
    <3>2. EvQ!Adders(i)' = IF i = h THEN EvQ!Adders(i) \cup {p} ELSE EvQ!Adders(i)
      BY <1>0, <2>1 DEF EvQ!Adders, EvQ!TypeOK
    <3>3. p \notin EvQ!Adders(i) /\ TakenIndices(i)' = TakenIndices(i) /\ ReadyIndices(i)' = ReadyIndices(i)
      BY <2>1 DEF EvQ!Adders, TakenIndices, EvQ!Takers, ReadyIndices
    <3>4. /\ FreeIndices(i) \in Nat /\ ReadyIndices(i) \in Nat /\ AddedIndices(i) \in Nat /\ TakenIndices(i) \in Nat
          /\ IsFiniteSet(EvQ!Adders(i))
      BY <1>0, IndexCounts
    <3>5. Cardinality(EvQ!Adders(i) \cup {p}) = AddedIndices(i) + 1
      BY <3>3, <3>4, FS_AddElement DEF AddedIndices
    <3>6. AddedIndices(i)' = AddedIndices(i) + (IF i = h THEN 1 ELSE 0)
      BY <3>2, <3>4, <3>5 DEF AddedIndices
    <3> QED
      BY <3>1, <3>3, <3>4, <3>6
  <2> QED
    BY <1>0, <2>3, <2>4, IndexMoved DEF EventQueueInv
<1> QED
  BY <1>1, <1>2

\* The element is written: nobody else has it.
LEMMA FillKept ==
  ASSUME EventQueueInv, IsFiniteSet(Producer), IsFiniteSet(Consumer), NEW p \in Producer, EvQ!Fill(p)
  PROVE  EventQueueInv'
<1>0. EvQ!TypeOK /\ IndexOnce /\ EventsInHand
  BY DEF EventQueueInv
<1>1. /\ adding' = [adding EXCEPT ![p].at = "filled"] /\ adding[p].at = "taken"
      /\ event_list' = [event_list EXCEPT ![adding[p].idx] = adding[p].event]
      /\ UNCHANGED <<enable, free_index, ready_queue, taking>>
  BY DEF EvQ!Fill
<1>2. EvQ!TypeOK'
  BY <1>0, <1>1 DEF EvQ!TypeOK
<1>3. \A q \in Producer : /\ adding'[q].idx = adding[q].idx
                          /\ adding'[q].event = adding[q].event
                          /\ q # p => adding'[q].at = adding[q].at
  BY <1>0, <1>1 DEF EvQ!TypeOK
<1>4. \A q \in Producer : q # p /\ adding[q].at = "filled" => adding[q].idx # adding[p].idx
  <2>1. EvQ!Adders(adding[p].idx) = {p}
    BY <1>0, <1>1, AdderAlone
  <2> QED
    BY <2>1 DEF EvQ!Adders
<1>5. EventsInHand'
  BY <1>0, <1>1, <1>3, <1>4 DEF EventsInHand, EvQ!TypeOK
<1>6. \A i \in EvQ!Index : EvQ!Adders(i)' = EvQ!Adders(i) /\ EvQ!Takers(i)' = EvQ!Takers(i)
  BY <1>0, <1>1 DEF EvQ!TypeOK, EvQ!Adders, EvQ!Takers
<1>7. IndexOnce'
  BY <1>0, <1>1, <1>6, IndexMoved DEF FreeIndices, ReadyIndices, AddedIndices, TakenIndices
<1> QED
  BY <1>2, <1>5, <1>7 DEF EventQueueInv

\* Its index is put into the ready queue.
LEMMA PublishKept ==
  ASSUME EventQueueInv, IsFiniteSet(Producer), IsFiniteSet(Consumer), NEW p \in Producer, EvQ!Publish(p)
  PROVE  EventQueueInv'
<1> DEFINE h == adding[p].idx
<1>0. EvQ!TypeOK /\ IndexOnce /\ EventsInHand
  BY DEF EventQueueInv
<1>1. /\ adding' = [adding EXCEPT ![p] = EvQ!NotAdding] /\ adding[p].at = "filled"
      /\ ready_queue' = Append(ready_queue, h)
      /\ UNCHANGED <<enable, free_index, event_list, taking>>
  BY DEF EvQ!Publish
<1>2. h \in EvQ!Index /\ ready_queue \in Seq(EvQ!Index) /\ 0 \in EvQ!Index
  BY <1>0, CapacityAssumption DEF EvQ!TypeOK, EvQ!Index
<1>3. EvQ!TypeOK' /\ EventsInHand'
  BY <1>0, <1>1, <1>2 DEF EvQ!TypeOK, EventsInHand, EvQ!NotAdding
<1>4. ASSUME NEW i \in EvQ!Index
      PROVE  FreeIndices(i)' + ReadyIndices(i)' + AddedIndices(i)' + TakenIndices(i)'
               = FreeIndices(i) + ReadyIndices(i) + AddedIndices(i) + TakenIndices(i)
  <2>1. ReadyIndices(i)' = ReadyIndices(i) + (IF i = h THEN 1 ELSE 0)
    BY <1>1, <1>2, CountAppend DEF ReadyIndices
  <2>2. EvQ!Adders(i)' = EvQ!Adders(i) \ {p} /\ (p \in EvQ!Adders(i) <=> i = h)
    BY <1>0, <1>1 DEF EvQ!Adders, EvQ!TypeOK, EvQ!NotAdding
  <2>3. TakenIndices(i)' = TakenIndices(i) /\ FreeIndices(i)' = FreeIndices(i)
    BY <1>1 DEF TakenIndices, EvQ!Takers, FreeIndices
  <2>4. /\ FreeIndices(i) \in Nat /\ ReadyIndices(i) \in Nat /\ AddedIndices(i) \in Nat /\ TakenIndices(i) \in Nat
        /\ IsFiniteSet(EvQ!Adders(i))
    BY <1>0, IndexCounts
  <2>5. Cardinality(EvQ!Adders(i) \ {p}) = IF p \in EvQ!Adders(i) THEN AddedIndices(i) - 1 ELSE AddedIndices(i)
    BY <2>4, FS_RemoveElement DEF AddedIndices
  <2>6. AddedIndices(i)' = AddedIndices(i) - (IF i = h THEN 1 ELSE 0)
    BY <2>2, <2>4, <2>5 DEF AddedIndices
  <2> QED
    BY <2>1, <2>3, <2>4, <2>6
<1> QED
  BY <1>0, <1>3, <1>4, IndexMoved DEF EventQueueInv

\* ownWaitEventQueue takes an index from the ready queue.
LEMMA WaitKept ==
  ASSUME EventQueueInv, IsFiniteSet(Producer), IsFiniteSet(Consumer), NEW c \in Consumer, EvQ!Wait(c)
  PROVE  EventQueueInv'
<1> DEFINE h == Head(ready_queue)
<1>0. EvQ!TypeOK /\ IndexOnce /\ EventsInHand
  BY DEF EventQueueInv
<1>1. /\ taking' = [taking EXCEPT ![c] = [at |-> "found", idx |-> h, event |-> NoEvent]]
      /\ taking[c].at = "idle" /\ ready_queue # <<>> /\ ready_queue' = Tail(ready_queue)
      /\ UNCHANGED <<enable, free_index, event_list, adding>>
  BY DEF EvQ!Wait
<1>2. h \in EvQ!Index /\ ready_queue \in Seq(EvQ!Index)
  BY <1>0, <1>1 DEF EvQ!TypeOK
<1> HIDE DEF h
<1>3. EvQ!TypeOK' /\ EventsInHand'
  BY <1>0, <1>1, <1>2 DEF EvQ!TypeOK, EventsInHand
<1>4. ASSUME NEW i \in EvQ!Index
      PROVE  FreeIndices(i)' + ReadyIndices(i)' + AddedIndices(i)' + TakenIndices(i)'
               = FreeIndices(i) + ReadyIndices(i) + AddedIndices(i) + TakenIndices(i)
  <2>1. ReadyIndices(i)' = ReadyIndices(i) - (IF i = h THEN 1 ELSE 0)
    BY <1>1, <1>2, CountTail DEF ReadyIndices, h
  <2>2. EvQ!Takers(i)' = IF i = h THEN EvQ!Takers(i) \cup {c} ELSE EvQ!Takers(i)
    BY <1>0, <1>1 DEF EvQ!Takers, EvQ!TypeOK
  <2>3. c \notin EvQ!Takers(i) /\ AddedIndices(i)' = AddedIndices(i) /\ FreeIndices(i)' = FreeIndices(i)
    BY <1>1 DEF EvQ!Takers, AddedIndices, EvQ!Adders, FreeIndices
  <2>4. /\ FreeIndices(i) \in Nat /\ ReadyIndices(i) \in Nat /\ AddedIndices(i) \in Nat /\ TakenIndices(i) \in Nat
        /\ IsFiniteSet(EvQ!Takers(i))
    BY <1>0, IndexCounts
  <2>5. Cardinality(EvQ!Takers(i) \cup {c}) = TakenIndices(i) + 1
    BY <2>3, <2>4, FS_AddElement DEF TakenIndices
  <2>6. TakenIndices(i)' = TakenIndices(i) + (IF i = h THEN 1 ELSE 0)
    BY <2>2, <2>4, <2>5 DEF TakenIndices
  <2> QED
    BY <2>1, <2>3, <2>4, <2>6
<1> QED
  BY <1>0, <1>3, <1>4, IndexMoved DEF EventQueueInv

\* Its index is free again when the element was copied.
LEMMA ReleaseKept ==
  ASSUME EventQueueInv, IsFiniteSet(Producer), IsFiniteSet(Consumer), NEW c \in Consumer, EvQ!Release(c)
  PROVE  EventQueueInv'
<1> DEFINE h == taking[c].idx
<1>0. EvQ!TypeOK /\ IndexOnce /\ EventsInHand
  BY DEF EventQueueInv
<1>1. /\ taking' = [taking EXCEPT ![c].at = "released"] /\ taking[c].at = "copied"
      /\ free_index' = Append(free_index, h)
      /\ UNCHANGED <<enable, ready_queue, event_list, adding>>
  BY DEF EvQ!Release
<1>2. h \in EvQ!Index /\ free_index \in Seq(EvQ!Index)
  BY <1>0 DEF EvQ!TypeOK
<1>3. EvQ!TypeOK' /\ EventsInHand'
  <2>1. free_index' \in Seq(EvQ!Index)
    BY <1>1, <1>2
  <2> QED
    BY <1>0, <1>1, <2>1 DEF EvQ!TypeOK, EventsInHand
<1>4. ASSUME NEW i \in EvQ!Index
      PROVE  FreeIndices(i)' + ReadyIndices(i)' + AddedIndices(i)' + TakenIndices(i)'
               = FreeIndices(i) + ReadyIndices(i) + AddedIndices(i) + TakenIndices(i)
  <2>1. FreeIndices(i)' = FreeIndices(i) + (IF i = h THEN 1 ELSE 0)
    BY <1>1, <1>2, CountAppend DEF FreeIndices
  <2>2. EvQ!Takers(i)' = EvQ!Takers(i) \ {c} /\ (c \in EvQ!Takers(i) <=> i = h)
    BY <1>0, <1>1 DEF EvQ!Takers, EvQ!TypeOK
  <2>3. AddedIndices(i)' = AddedIndices(i) /\ ReadyIndices(i)' = ReadyIndices(i)
    BY <1>1 DEF AddedIndices, EvQ!Adders, ReadyIndices
  <2>4. /\ FreeIndices(i) \in Nat /\ ReadyIndices(i) \in Nat /\ AddedIndices(i) \in Nat /\ TakenIndices(i) \in Nat
        /\ IsFiniteSet(EvQ!Takers(i))
    BY <1>0, IndexCounts
  <2>5. Cardinality(EvQ!Takers(i) \ {c}) = IF c \in EvQ!Takers(i) THEN TakenIndices(i) - 1 ELSE TakenIndices(i)
    BY <2>4, FS_RemoveElement DEF TakenIndices
  <2>6. TakenIndices(i)' = TakenIndices(i) - (IF i = h THEN 1 ELSE 0)
    BY <2>2, <2>4, <2>5 DEF TakenIndices
  <2> QED
    BY <2>1, <2>3, <2>4, <2>6
<1> QED
  BY <1>0, <1>3, <1>4, IndexMoved DEF EventQueueInv

\* Every step keeps the invariant.
LEMMA EventQueueNext ==
  ASSUME IsFiniteSet(Producer), IsFiniteSet(Consumer), EventQueueInv, [EvQ!Next]_EvQ!evqVars
  PROVE  EventQueueInv'
<1>0. EvQ!TypeOK /\ IndexOnce /\ EventsInHand /\ 0 \in EvQ!Index
  BY CapacityAssumption DEF EventQueueInv, EvQ!Index
<1>1. ASSUME NEW on \in BOOLEAN, EvQ!Enable(on)
      PROVE  EventQueueInv'
  BY <1>0, <1>1 DEF EvQ!Enable, EventQueueInv, EvQ!TypeOK, IndexOnce, EventsInHand, EvQ!Places, EvQ!Adders, EvQ!Takers
<1>2. ASSUME NEW p \in Producer, NEW e \in Event, EvQ!Add(p, e)
      PROVE  EventQueueInv'
  <2>1. /\ adding' = [adding EXCEPT ![p] = [at |-> "enabled", idx |-> 0, event |-> e]]
        /\ adding[p].at = "idle"
        /\ UNCHANGED <<enable, free_index, ready_queue, event_list, taking>>
    BY <1>2 DEF EvQ!Add
  <2>2. EvQ!TypeOK' /\ EventsInHand'
    BY <1>0, <2>1 DEF EvQ!TypeOK, EventsInHand
  <2>3. \A i \in EvQ!Index : EvQ!Adders(i)' = EvQ!Adders(i) /\ EvQ!Takers(i)' = EvQ!Takers(i)
    BY <1>0, <2>1 DEF EvQ!TypeOK, EvQ!Adders, EvQ!Takers
  <2>4. IndexOnce'
    BY <1>0, <2>1, <2>3, IndexMoved DEF FreeIndices, ReadyIndices, AddedIndices, TakenIndices
  <2> QED
    BY <2>2, <2>4 DEF EventQueueInv
<1>3. ASSUME NEW p \in Producer, EvQ!TakeIndex(p) \/ EvQ!Fill(p) \/ EvQ!Publish(p)
      PROVE  EventQueueInv'
  BY <1>3, TakeIndexKept, FillKept, PublishKept
<1>4. ASSUME NEW c \in Consumer, EvQ!Wait(c) \/ EvQ!Release(c)
      PROVE  EventQueueInv'
  BY <1>4, WaitKept, ReleaseKept
<1>5. ASSUME NEW c \in Consumer, EvQ!Copy(c) \/ EvQ!Return(c)
      PROVE  EventQueueInv'
  <2>1. UNCHANGED <<enable, free_index, ready_queue, event_list, adding>>
    BY <1>5 DEF EvQ!Copy, EvQ!Return
  <2>2. EvQ!TypeOK' /\ EventsInHand'
    BY <1>0, <1>5 DEF EvQ!TypeOK, EventsInHand, EvQ!Copy, EvQ!Return, EvQ!NotTaking
  <2>3. \A d \in Consumer :
           (taking'[d].at \in {"found", "copied"} <=> taking[d].at \in {"found", "copied"})
           /\ (taking[d].at \in {"found", "copied"} => taking'[d].idx = taking[d].idx)
    BY <1>0, <1>5 DEF EvQ!TypeOK, EvQ!Copy, EvQ!Return, EvQ!NotTaking
  <2>5. \A i \in EvQ!Index : EvQ!Adders(i)' = EvQ!Adders(i) /\ EvQ!Takers(i)' = EvQ!Takers(i)
    BY <2>1, <2>3 DEF EvQ!Adders, EvQ!Takers
  <2>4. IndexOnce'
    BY <1>0, <2>1, <2>5, IndexMoved DEF FreeIndices, ReadyIndices, AddedIndices, TakenIndices
  <2> QED
    BY <2>2, <2>4 DEF EventQueueInv
<1>6. ASSUME UNCHANGED EvQ!evqVars
      PROVE  EventQueueInv'
  <2>1. UNCHANGED <<enable, free_index, ready_queue, event_list, adding, taking>>
    BY <1>6 DEF EvQ!evqVars
  <2>2. EvQ!TypeOK' /\ EventsInHand'
    BY <1>0, <2>1 DEF EvQ!TypeOK, EventsInHand
  <2>3. \A i \in EvQ!Index : EvQ!Adders(i)' = EvQ!Adders(i) /\ EvQ!Takers(i)' = EvQ!Takers(i)
    BY <2>1 DEF EvQ!Adders, EvQ!Takers
  <2>4. IndexOnce'
    BY <1>0, <2>1, <2>3, IndexMoved DEF FreeIndices, ReadyIndices, AddedIndices, TakenIndices
  <2> QED
    BY <2>2, <2>4 DEF EventQueueInv
<1> QED
  BY <1>1, <1>2, <1>3, <1>4, <1>5, <1>6 DEF EvQ!Next

-----------------------------------------------------------------------------
(* The queue of events: the refinement                                       *)

\* The events that are ready, and the event that each consumer has.
ReadyEvents == Elements(event_list, ready_queue)
GotEvents == [c \in Consumer |->
          IF taking[c].at = "found" THEN event_list[taking[c].idx] ELSE taking[c].event]

\* While an index is not ready there is room in the ready queue: no index is there
\* twice.
LEMMA RoomForIndex ==
  ASSUME EvQ!TypeOK, IndexOnce, IsFiniteSet(Producer), IsFiniteSet(Consumer),
         NEW i \in EvQ!Index, ReadyIndices(i) = 0
  PROVE  Len(ready_queue) < EventQueueSize
<1>1. ready_queue \in Seq(EvQ!Index) /\ EventQueueSize \in Nat \ {0}
  BY CapacityAssumption DEF EvQ!TypeOK
<1>2. DOMAIN ready_queue = 1 .. Len(ready_queue) /\ Len(ready_queue) \in Nat
      /\ \A j \in 1 .. Len(ready_queue) : ready_queue[j] \in EvQ!Index
  BY <1>1
<1>3. \A j \in DOMAIN ready_queue : Count(ready_queue, ready_queue[j]) <= 1
  <2>1. ASSUME NEW j \in DOMAIN ready_queue
        PROVE  Count(ready_queue, ready_queue[j]) <= 1
    <3> DEFINE k == ready_queue[j]
    <3>1. k \in EvQ!Index
      BY <1>2
    <3> HIDE DEF k
    <3>2. FreeIndices(k) + ReadyIndices(k) + AddedIndices(k) + TakenIndices(k) = 1
      BY <3>1, IndicesCounted DEF IndexOnce, AddedIndices, TakenIndices
    <3>3. ReadyIndices(k) <= 1
      BY <3>1, <3>2, IndexCounts
    <3> QED
      BY <3>3 DEF ReadyIndices, k
  <2> QED
    BY <2>1
<1>4. \A j, k \in DOMAIN ready_queue : ready_queue[j] = ready_queue[k] => j = k
  BY <1>1, <1>3, CountOne
<1>5. \A j \in DOMAIN ready_queue : ready_queue[j] # i
  BY IndexCounts
<1> DEFINE f == [j \in 1 .. Len(ready_queue) |-> ready_queue[j]]
<1>6. f \in Injection(1 .. Len(ready_queue), EvQ!Index \ {i})
  <2>1. f \in [1 .. Len(ready_queue) -> EvQ!Index \ {i}]
    BY <1>2, <1>5
  <2>2. \A j, k \in 1 .. Len(ready_queue) : f[j] = f[k] => j = k
    BY <1>2, <1>4
  <2> HIDE DEF f
  <2> QED
    BY <2>1, <2>2 DEF Injection, IsInjective
<1>7. /\ IsFiniteSet(EvQ!Index \ {i}) /\ Cardinality(EvQ!Index \ {i}) = EventQueueSize - 1
  <2>1. IsFiniteSet(EvQ!Index) /\ Cardinality(EvQ!Index) = EventQueueSize
    BY <1>1, FS_Interval DEF EvQ!Index
  <2> QED
    BY <2>1, FS_RemoveElement
<1>8. Cardinality(1 .. Len(ready_queue)) = Len(ready_queue)
  BY <1>2, FS_Interval
<1> HIDE DEF f
<1>9. Cardinality(1 .. Len(ready_queue)) <= Cardinality(EvQ!Index \ {i})
  BY <1>6, <1>7, FS_Injection
<1> QED
  BY <1>1, <1>2, <1>7, <1>8, <1>9

\* Publishing an index puts the event that was accepted ...
LEMMA PublishPuts ==
  ASSUME EventQueueInv, IsFiniteSet(Producer), IsFiniteSet(Consumer), NEW p \in Producer, EvQ!Publish(p)
  PROVE  \E e \in Event : e = adding[p].event /\ EvQ!Fifo!Put(e)
<1> DEFINE h == adding[p].idx
<1>0. EvQ!TypeOK /\ IndexOnce /\ EventsInHand
  BY DEF EventQueueInv
<1>1. /\ adding[p].at = "filled" /\ ready_queue' = Append(ready_queue, h)
      /\ UNCHANGED <<event_list, taking>>
  BY DEF EvQ!Publish
<1>2. h \in EvQ!Index /\ ready_queue \in Seq(EvQ!Index)
  BY <1>0 DEF EvQ!TypeOK
<1>3. event_list[h] = adding[p].event /\ adding[p].event \in Event
  BY <1>0, <1>1 DEF EventsInHand
<1>4. ReadyIndices(h) = 0
  BY <1>0, <1>1, AdderAlone
<1>5. Len(ready_queue) < EventQueueSize
  BY <1>0, <1>2, <1>4, RoomForIndex
<1>6. Len(ReadyEvents) = Len(ready_queue)
  BY <1>2 DEF ReadyEvents, Elements
<1> HIDE DEF h
<1>7. ReadyEvents' = Append(ReadyEvents, adding[p].event)
  BY <1>1, <1>2, <1>3, ElementsAppend DEF ReadyEvents
<1>8. GotEvents' = GotEvents
  BY <1>1 DEF GotEvents
<1>9. PICK e \in Event : e = adding[p].event
  BY <1>3
<1>10. EvQ!Fifo!Put(e)
  BY <1>5, <1>6, <1>7, <1>8, <1>9 DEF EvQ!Fifo!Put, ReadyEvents, Elements, GotEvents
<1> QED
  BY <1>9, <1>10

\* ... and waiting for one gets the first, ...
LEMMA WaitGets ==
  ASSUME EventQueueInv, NEW c \in Consumer, EvQ!Wait(c)
  PROVE  EvQ!Fifo!Get(c)
<1>0. EvQ!TypeOK
  BY DEF EventQueueInv
<1>1. /\ ready_queue # <<>> /\ ready_queue' = Tail(ready_queue) /\ event_list' = event_list
      /\ taking' = [taking EXCEPT ![c] = [at |-> "found", idx |-> Head(ready_queue),
                                          event |-> NoEvent]]
  BY DEF EvQ!Wait
<1>2. ready_queue \in Seq(EvQ!Index)
  BY <1>0 DEF EvQ!TypeOK
<1>3. /\ ReadyEvents # <<>> /\ Head(ReadyEvents) = event_list[Head(ready_queue)]
      /\ ReadyEvents' = Tail(ReadyEvents)
  BY <1>1, <1>2, ElementsTail DEF ReadyEvents
<1>4. GotEvents' = [GotEvents EXCEPT ![c] = event_list[Head(ready_queue)]]
  BY <1>0, <1>1 DEF GotEvents, EvQ!TypeOK
<1> QED
  BY <1>3, <1>4 DEF EvQ!Fifo!Get, ReadyEvents, Elements, GotEvents

\* ... which stays as it was written while it waits and while it is copied: the
\* element that is filled is none of those that are ready or in use.
LEMMA FillStutters ==
  ASSUME EventQueueInv, IsFiniteSet(Producer), IsFiniteSet(Consumer), NEW p \in Producer, EvQ!Fill(p)
  PROVE  ReadyEvents' = ReadyEvents /\ GotEvents' = GotEvents
<1> DEFINE h == adding[p].idx
<1>0. EvQ!TypeOK /\ IndexOnce
  BY DEF EventQueueInv
<1>1. /\ adding[p].at = "taken" /\ event_list' = [event_list EXCEPT ![h] = adding[p].event]
      /\ UNCHANGED <<ready_queue, taking>>
  BY DEF EvQ!Fill
<1>2. ReadyIndices(h) = 0 /\ EvQ!Takers(h) = {} /\ h \in EvQ!Index
  BY <1>0, <1>1, AdderAlone DEF EvQ!TypeOK
<1>3. \A j \in DOMAIN ready_queue : ready_queue[j] # h /\ ready_queue[j] \in EvQ!Index
  <2>1. \A j \in DOMAIN ready_queue : ready_queue[j] # h
    BY <1>0, <1>2, IndexCounts
  <2> QED
    BY <1>0, <2>1 DEF EvQ!TypeOK
<1>4. \A j \in DOMAIN ready_queue : event_list'[ready_queue[j]] = event_list[ready_queue[j]]
  BY <1>0, <1>1, <1>3 DEF EvQ!TypeOK
<1>5. ReadyEvents' = ReadyEvents
  BY <1>1, <1>4 DEF ReadyEvents, Elements
<1>6. \A c \in Consumer : taking[c].at = "found" =>
         taking[c].idx # h /\ taking[c].idx \in EvQ!Index
  BY <1>0, <1>2 DEF EvQ!Takers, EvQ!TypeOK
<1>7. GotEvents' = GotEvents
  BY <1>0, <1>1, <1>6 DEF GotEvents, EvQ!TypeOK
<1> QED
  BY <1>5, <1>7

\* Every step is one of the abstract queue, or none.
LEMMA EventQueueFifo ==
  ASSUME EventQueueInv, IsFiniteSet(Producer), IsFiniteSet(Consumer), [EvQ!Next]_EvQ!evqVars
  PROVE  [EvQ!Fifo!Next]_EvQ!Fifo!fifoVars
<1>0. EvQ!TypeOK
  BY DEF EventQueueInv
<1>s. ASSUME ReadyEvents' = ReadyEvents /\ GotEvents' = GotEvents
      PROVE  [EvQ!Fifo!Next]_EvQ!Fifo!fifoVars
  BY <1>s DEF ReadyEvents, Elements, GotEvents, EvQ!Fifo!fifoVars
<1>1. ASSUME NEW p \in Producer, EvQ!Publish(p)
      PROVE  [EvQ!Fifo!Next]_EvQ!Fifo!fifoVars
  BY <1>1, PublishPuts DEF EvQ!Fifo!Next
<1>2. ASSUME NEW c \in Consumer, EvQ!Wait(c)
      PROVE  [EvQ!Fifo!Next]_EvQ!Fifo!fifoVars
  BY <1>2, WaitGets DEF EvQ!Fifo!Next
<1>3. ASSUME NEW p \in Producer, EvQ!Fill(p)
      PROVE  [EvQ!Fifo!Next]_EvQ!Fifo!fifoVars
  BY <1>3, <1>s, FillStutters
<1>4. ASSUME NEW c \in Consumer, EvQ!Copy(c) \/ EvQ!Release(c)
      PROVE  [EvQ!Fifo!Next]_EvQ!Fifo!fifoVars
  <2>1. UNCHANGED <<ready_queue, event_list>>
    BY <1>4 DEF EvQ!Copy, EvQ!Release
  <2>2. \A d \in Consumer :
           (IF taking'[d].at = "found" THEN event_list[taking'[d].idx] ELSE taking'[d].event)
             = (IF taking[d].at = "found" THEN event_list[taking[d].idx] ELSE taking[d].event)
    <3>1. CASE EvQ!Copy(c)
      <4>1. /\ taking[c].at = "found" /\ taking'[c].at = "copied"
            /\ taking'[c].event = event_list[taking[c].idx]
        BY <1>0, <3>1 DEF EvQ!Copy, EvQ!TypeOK
      <4>2. \A d \in Consumer \ {c} : taking'[d] = taking[d]
        BY <1>0, <3>1 DEF EvQ!Copy, EvQ!TypeOK
      <4> QED
        BY <4>1, <4>2
    <3>2. CASE EvQ!Release(c)
      <4>1. /\ taking[c].at = "copied" /\ taking'[c].at = "released"
            /\ taking'[c].event = taking[c].event
        BY <1>0, <3>2 DEF EvQ!Release, EvQ!TypeOK
      <4>2. \A d \in Consumer \ {c} : taking'[d] = taking[d]
        BY <1>0, <3>2 DEF EvQ!Release, EvQ!TypeOK
      <4> QED
        BY <4>1, <4>2
    <3> QED
      BY <1>4, <3>1, <3>2
  <2>3. ReadyEvents' = ReadyEvents /\ GotEvents' = GotEvents
    BY <2>1, <2>2 DEF ReadyEvents, GotEvents
  <2> QED
    BY <1>s, <2>3
<1>5. ASSUME NEW c \in Consumer, EvQ!Return(c)
      PROVE  [EvQ!Fifo!Next]_EvQ!Fifo!fifoVars
  <2>1. /\ UNCHANGED <<ready_queue, event_list>>
        /\ taking' = [taking EXCEPT ![c] = EvQ!NotTaking]
    BY <1>5 DEF EvQ!Return
  <2>2. ReadyEvents' = ReadyEvents
    BY <2>1 DEF ReadyEvents
  <2>3. GotEvents' = [GotEvents EXCEPT ![c] = NoEvent]
    BY <1>0, <2>1 DEF GotEvents, EvQ!TypeOK, EvQ!NotTaking
  <2>4. EvQ!Fifo!Forget(c)
    BY <2>2, <2>3 DEF EvQ!Fifo!Forget, ReadyEvents, Elements, GotEvents
  <2> QED
    BY <2>4 DEF EvQ!Fifo!Next
<1>6. ASSUME UNCHANGED <<ready_queue, event_list, taking>>
      PROVE  [EvQ!Fifo!Next]_EvQ!Fifo!fifoVars
  BY <1>6, <1>s DEF ReadyEvents, GotEvents
<1>7. ASSUME NEW on \in BOOLEAN, EvQ!Enable(on)
      PROVE  [EvQ!Fifo!Next]_EvQ!Fifo!fifoVars
  BY <1>6, <1>7 DEF EvQ!Enable
<1>8. ASSUME NEW p \in Producer, (\E e \in Event : EvQ!Add(p, e)) \/ EvQ!TakeIndex(p)
      PROVE  [EvQ!Fifo!Next]_EvQ!Fifo!fifoVars
  BY <1>6, <1>8 DEF EvQ!Add, EvQ!TakeIndex
<1>9. ASSUME UNCHANGED EvQ!evqVars
      PROVE  [EvQ!Fifo!Next]_EvQ!Fifo!fifoVars
  BY <1>6, <1>9 DEF EvQ!evqVars
<1> QED
  BY <1>1, <1>2, <1>3, <1>4, <1>5, <1>7, <1>8, <1>9 DEF EvQ!Next

\* ownEventQueueAddEvent, ownWaitEventQueue: no index of the pool leaks and none is
\* used twice, and events that were accepted arrive in the order in which they were
\* published, each once and as it was written, although the elements are written and
\* copied without a lock.
THEOREM EventsOfGraphs ==
  ServicesSpec => [](EvQ!TypeOK /\ EvQ!IndexInOnePlace) /\ EvQ!EventsAreFifo
<1>1. ServicesInit => EvQ!Init
  BY DEF ServicesInit
<1>2. [ServicesNext]_servicesVars => [EvQ!Next]_EvQ!evqVars
  BY DEF ServicesNext, servicesVars, eventQueueVars, EvQ!evqVars
<1>3. EventQueueInv /\ [EvQ!Next]_EvQ!evqVars => EventQueueInv'
  BY EventQueueNext, ServicesAssumption
<1>4. EventQueueInv => EvQ!TypeOK /\ EvQ!IndexInOnePlace
  <2>1. \A S : EvQ!Cardinality(S) = Cardinality(S)
    BY DEF EvQ!Cardinality, Cardinality
  <2> QED
    BY <2>1 DEF EventQueueInv, IndexOnce, EvQ!IndexInOnePlace
<1>5. EvQ!Init => EvQ!Fifo!Init
  BY DEF EvQ!Init, EvQ!Fifo!Init, EvQ!NotTaking
<1>6. EventQueueInv /\ [EvQ!Next]_EvQ!evqVars => [EvQ!Fifo!Next]_EvQ!Fifo!fifoVars
  BY EventQueueFifo, ServicesAssumption
<1> QED
  BY <1>1, <1>2, <1>3, <1>4, <1>5, <1>6, EventQueueInit, PTL
     DEF ServicesSpec, EvQ!EventsAreFifo, EvQ!Fifo!Spec

-----------------------------------------------------------------------------
(* Commands and their acknowledgements                                       *)

\* What the commands are asked for with: the host target is a target, and there is
\* a bound for the commands.
CommandParameters == HostTarget \in Target /\ MaxCmd \in Nat /\ IsFiniteSet(Caller)

\* How often an object is free, pending, in use and lost, and how often it is in
\* the job queue of a target.
Free(o) == Count(free_queue, o)
Pending(o) == Count(pend_queue, o)
Held(o) == Cardinality(Holders(o))
Lost(o) == IF o \in lost THEN 1 ELSE 0
Sent(t, o) == Count(job_queue[t], o)

\* A target has the object, or its event is set.
Unanswered(o) == o \in cmd_ack_event \/ \E t \in Target : Sent(t, o) # 0

\* An object is with one target, once, or its event is set, and not both.
OneMessage ==
    \A o \in CmdObject, t \in Target :
       /\ Sent(t, o) <= 1
       /\ \A u \in Target : u # t => Sent(t, o) = 0 \/ Sent(u, o) = 0
       /\ o \in cmd_ack_event => Sent(t, o) = 0

\* An object that is not answered for belongs to a call that waits for the answer or
\* waited for it too short.
UsedWhileUnanswered ==
    \A o \in CmdObject : Unanswered(o) =>
       Pending(o) # 0 \/ \E c \in Caller : call[c].at = "waitAck" /\ call[c].obj = o

\* The commands in the objects are as far as the objects are.
CommandsInObjects ==
    /\ \A c \in Caller : call[c].at = "waitAck" => obj_desc_cmd[call[c].obj].cmd = call[c].cmd
    /\ \A o \in CmdObject : Unanswered(o) =>
          /\ obj_desc_cmd[o].cmd \in 1 .. commands
          /\ executed[obj_desc_cmd[o].cmd]
               = IF o \in cmd_ack_event \/ obj_desc_cmd[o].ack THEN 1 ELSE 0
    /\ \A o, x \in CmdObject : Unanswered(o) /\ Unanswered(x) /\ o # x =>
          obj_desc_cmd[o].cmd # obj_desc_cmd[x].cmd

\* A command that was not sent yet was not executed, and every call has its own.
CommandsOfCalls ==
    /\ \A c \in Caller : call[c].at # "idle" => call[c].cmd \in 1 .. commands
    /\ \A c \in Caller : call[c].at \in {"object", "send"} =>
          /\ executed[call[c].cmd] = 0
          /\ \A o \in CmdObject : Unanswered(o) => obj_desc_cmd[o].cmd # call[c].cmd
    /\ \A c, d \in Caller : c # d /\ call[c].at # "idle" /\ call[d].at # "idle" =>
          call[c].cmd # call[d].cmd

ExecutedOnce ==
    \A n \in Cmd : executed[n] <= 1 /\ (n > commands => executed[n] = 0)

Matched ==
    OneMessage /\ UsedWhileUnanswered /\ CommandsInObjects /\ CommandsOfCalls /\ ExecutedOnce

\* A call that has an object has one of the objects.
HeldIsObject ==
    \A c \in Caller : call[c].at \in {"send", "waitAck"} => call[c].obj \in CmdObject

CommandInv == TypeOK /\ HeldIsObject /\ ObjectInOnePlace /\ (~flushed => Matched)

-----------------------------------------------------------------------------
(* Commands: counting                                                        *)

LEMMA Counted ==
  /\ \A o : Occurrences(free_queue, o) = Free(o)
  /\ \A o : Occurrences(pend_queue, o) = Pending(o)
  /\ \A t, o : Occurrences(job_queue[t], o) = Sent(t, o)
BY DEF Occurrences, Free, Pending, Sent, Count

LEMMA CountedNat ==
  ASSUME TypeOK, IsFiniteSet(Caller), NEW o \in CmdObject
  PROVE  /\ Free(o) \in Nat /\ Pending(o) \in Nat /\ Held(o) \in Nat /\ Lost(o) \in {0, 1}
         /\ IsFiniteSet(Holders(o))
         /\ Free(o) = 0 <=> \A j \in DOMAIN free_queue : free_queue[j] # o
         /\ Pending(o) = 0 <=> \A j \in DOMAIN pend_queue : pend_queue[j] # o
         /\ Held(o) = 0 <=> Holders(o) = {}
<1>1. free_queue \in Seq(CmdObject) /\ pend_queue \in Seq(CmdObject)
  BY DEF TypeOK
<1>2. /\ Free(o) \in Nat /\ Pending(o) \in Nat
      /\ Free(o) = 0 <=> \A j \in DOMAIN free_queue : free_queue[j] # o
      /\ Pending(o) = 0 <=> \A j \in DOMAIN pend_queue : pend_queue[j] # o
  BY <1>1, CountType DEF Free, Pending
<1>3. Holders(o) \in SUBSET Caller
  BY DEF Holders
<1>4. IsFiniteSet(Holders(o))
  BY <1>3, FS_Subset
<1>5. Held(o) \in Nat /\ (Held(o) = 0 <=> Holders(o) = {})
  BY <1>4, FS_CardinalityType, FS_EmptySet DEF Held
<1> QED
  BY <1>2, <1>4, <1>5 DEF Lost

LEMMA SentNat ==
  ASSUME TypeOK, NEW t \in Target, NEW o \in CmdObject
  PROVE  /\ Sent(t, o) \in Nat
         /\ Sent(t, o) = 0 <=> \A j \in DOMAIN job_queue[t] : job_queue[t][j] # o
<1>1. job_queue[t] \in Seq(CmdObject)
  BY DEF TypeOK
<1> QED
  BY <1>1, CountType DEF Sent

\* The object of a call is with no other call and in no queue, and is not lost.
LEMMA HolderAlone ==
  ASSUME TypeOK, HeldIsObject, ObjectInOnePlace, IsFiniteSet(Caller),
         NEW c \in Caller, call[c].at \in {"send", "waitAck"}
  PROVE  /\ Free(call[c].obj) = 0 /\ Pending(call[c].obj) = 0 /\ call[c].obj \notin lost
         /\ Holders(call[c].obj) = {c}
<1> DEFINE o == call[c].obj
<1>1. o \in CmdObject /\ c \in Holders(o)
  BY DEF HeldIsObject, Holders
<1>2. Free(o) + Pending(o) + Held(o) + Lost(o) = 1
  BY <1>1, Counted DEF ObjectInOnePlace, Held, Lost
<1> HIDE DEF o
<1>3. /\ Free(o) \in Nat /\ Pending(o) \in Nat /\ Held(o) \in Nat /\ Lost(o) \in {0, 1}
      /\ Held(o) # 0 /\ IsFiniteSet(Holders(o))
  BY <1>1, CountedNat
<1>4. Free(o) = 0 /\ Pending(o) = 0 /\ Held(o) = 1 /\ Lost(o) = 0
  BY <1>2, <1>3
<1>5. \E d : Holders(o) = {d}
  BY <1>3, <1>4, FS_Singleton DEF Held
<1> QED
  BY <1>1, <1>4, <1>5 DEF o, Lost

\* What has to be shown of a step: what it takes from one place it brings to another.
LEMMA Moved ==
  ASSUME ObjectInOnePlace,
         \A o \in CmdObject : Free(o)' + Pending(o)' + Held(o)' + Lost(o)'
                                = Free(o) + Pending(o) + Held(o) + Lost(o)
  PROVE  ObjectInOnePlace'
<1>1. \A o \in CmdObject : Free(o) + Pending(o) + Held(o) + Lost(o) = 1
  BY Counted DEF ObjectInOnePlace, Held, Lost
<1>2. \A o \in CmdObject : Free(o)' + Pending(o)' + Held(o)' + Lost(o)' = 1
  BY <1>1
<1>3. /\ \A o : Occurrences(free_queue', o) = Free(o)'
      /\ \A o : Occurrences(pend_queue', o) = Pending(o)'
  BY DEF Occurrences, Free, Pending, Count
<1> QED
  BY <1>2, <1>3 DEF ObjectInOnePlace, Held, Lost, Occurrences

-----------------------------------------------------------------------------
(* Commands: the initial state                                               *)

\* ownContextCreateCmdObj: all objects are free.
LEMMA CommandInit ==
  ASSUME CommandParameters, Init
  PROVE  CommandInv
<1>0. MaxCmdObject \in Nat \ {0} /\ HostTarget \in Target /\ MaxCmd \in Nat
  BY CapacityAssumption DEF CommandParameters
<1>1. TypeOK
  <2>1. \A i \in 1 .. MaxCmdObject : i - 1 \in CmdObject
    BY <1>0 DEF CmdObject
  <2>2. free_queue \in Seq(CmdObject)
    BY <1>0, <2>1 DEF Init
  <2>3. <<>> \in Seq(CmdObject) /\ 0 \in 0 .. MaxCmd /\ 0 \in Nat
    BY <1>0
  <2>4. job_queue \in [Target -> Seq(CmdObject)] /\ pend_queue \in Seq(CmdObject)
    BY <2>3 DEF Init
  <2>5. obj_desc_cmd \in [CmdObject -> [cmd : 0 .. MaxCmd, target : Target, ack : BOOLEAN]]
    BY <1>0, <2>3 DEF Init
  <2>6. call \in [Caller -> [at : {"idle", "object", "send", "waitAck"}, cmd : 0 .. MaxCmd,
                             target : Target, timed : BOOLEAN, obj : CmdObject \cup {NoObject}]]
    BY <1>0, <2>3 DEF Init, NoCall
  <2> QED
    BY <2>2, <2>3, <2>4, <2>5, <2>6 DEF Init, TypeOK
<1>2. ASSUME NEW o \in CmdObject
      PROVE  /\ Occurrences(free_queue, o) = 1 /\ Occurrences(pend_queue, o) = 0
             /\ Cardinality(Holders(o)) = 0 /\ \A t \in Target : Sent(t, o) = 0
  <2>1. {i \in DOMAIN free_queue : free_queue[i] = o} = {o + 1}
    <3>1. o \in Int /\ o + 1 \in 1 .. MaxCmdObject
      BY <1>0 DEF CmdObject
    <3>2. \A j \in 1 .. MaxCmdObject : j - 1 = o <=> j = o + 1
      BY <1>0, <3>1
    <3> QED
      BY <3>1, <3>2 DEF Init
  <2>2. Holders(o) = {}
    BY DEF Init, Holders, NoCall
  <2>3. Cardinality({o + 1}) = 1 /\ Cardinality({}) = 0
    BY FS_Singleton, FS_EmptySet
  <2>4. Pending(o) = 0 /\ \A t \in Target : Sent(t, o) = 0
    BY CountEmpty DEF Init, Pending, Sent
  <2> QED
    BY <2>1, <2>2, <2>3, <2>4, Counted DEF Occurrences
<1>3. ObjectInOnePlace
  BY <1>2 DEF ObjectInOnePlace, Init
<1>4. HeldIsObject
  BY DEF HeldIsObject, Init, NoCall
<1>5. \A o \in CmdObject : ~Unanswered(o)
  BY <1>2 DEF Unanswered, Init
<1>6. Matched
  <2>1. OneMessage
    <3>1. cmd_ack_event = {}
      BY DEF Init
    <3>2. \A o \in CmdObject, t \in Target : Sent(t, o) = 0
      BY <1>2
    <3> QED
      BY <3>1, <3>2 DEF OneMessage
  <2>2. UsedWhileUnanswered /\ CommandsInObjects /\ CommandsOfCalls
    BY <1>5 DEF UsedWhileUnanswered, CommandsInObjects, CommandsOfCalls, Init, NoCall
  <2>3. ExecutedOnce
    BY DEF ExecutedOnce, Init
  <2> QED
    BY <2>1, <2>2, <2>3 DEF Matched
<1> QED
  BY <1>1, <1>3, <1>4, <1>6 DEF CommandInv

-----------------------------------------------------------------------------
(* Commands: the objects                                                     *)

\* A call that returns holds no object.
LEMMA CallEnds ==
  ASSUME CommandParameters, TypeOK, HeldIsObject,
         NEW c \in Caller, call' = [call EXCEPT ![c] = NoCall]
  PROVE  /\ HeldIsObject'
         /\ call' \in [Caller -> [at : {"idle", "object", "send", "waitAck"}, cmd : 0 .. MaxCmd,
                                  target : Target, timed : BOOLEAN,
                                  obj : CmdObject \cup {NoObject}]]
<1> DEFINE Calls == [at : {"idle", "object", "send", "waitAck"}, cmd : 0 .. MaxCmd,
                     target : Target, timed : BOOLEAN, obj : CmdObject \cup {NoObject}]
<1>1. NoCall \in Calls
  BY DEF NoCall, CommandParameters
<1>2. call \in [Caller -> Calls]
  BY DEF TypeOK
<1>3. \A d \in Caller : call'[d] = IF d = c THEN NoCall ELSE call[d]
  BY <1>2
<1>4. HeldIsObject'
  BY <1>3 DEF HeldIsObject, NoCall
<1>5. call' \in [Caller -> Calls]
  <2> HIDE DEF Calls
  <2> QED
    BY <1>1, <1>2
<1> QED
  BY <1>4, <1>5

\* Every step keeps the types, and a call gets its object from the free ones.
LEMMA NextTyped ==
  ASSUME CommandParameters, TypeOK, HeldIsObject, [Next]_cmdVars
  PROVE  TypeOK' /\ HeldIsObject'
<1>0. HostTarget \in Target /\ MaxCmd \in Nat
  BY DEF CommandParameters
<1>1. ASSUME NEW c \in Caller, NEW t \in Target, NEW limited \in BOOLEAN, Begin(c, t, limited)
      PROVE  TypeOK' /\ HeldIsObject'
  <2>1. commands' \in 0 .. MaxCmd
    BY <1>0, <1>1 DEF Begin, TypeOK
  <2> QED
    BY <1>0, <1>1, <2>1 DEF Begin, TypeOK, HeldIsObject
<1>2. ASSUME NEW c \in Caller, GetObject(c)
      PROVE  TypeOK' /\ HeldIsObject'
  <2>1. Head(free_queue) \in CmdObject /\ Tail(free_queue) \in Seq(CmdObject)
    BY <1>2 DEF GetObject, TypeOK
  <2> QED
    BY <1>2, <2>1 DEF GetObject, TypeOK, HeldIsObject
<1>3. ASSUME NEW c \in Caller, NoObjectInTime(c)
      PROVE  TypeOK' /\ HeldIsObject'
  BY <1>3, CallEnds DEF NoObjectInTime, TypeOK
<1>4. ASSUME NEW c \in Caller, Send(c)
      PROVE  TypeOK' /\ HeldIsObject'
  <2>1. call[c].obj \in CmdObject /\ call[c].target \in Target /\ call[c].cmd \in 0 .. MaxCmd
    BY <1>4 DEF Send, TypeOK, HeldIsObject
  <2>2. Append(job_queue[call[c].target], call[c].obj) \in Seq(CmdObject)
    BY <2>1 DEF TypeOK
  <2> QED
    BY <1>4, <2>1, <2>2 DEF Send, TypeOK, HeldIsObject
<1>5. ASSUME NEW c \in Caller, SendFails(c)
      PROVE  TypeOK' /\ HeldIsObject'
  <2>1. lost' \subseteq CmdObject
    BY <1>5 DEF SendFails, TypeOK, HeldIsObject
  <2> QED
    BY <1>5, <2>1, CallEnds DEF SendFails, TypeOK
<1>6. ASSUME NEW c \in Caller, Acked(c)
      PROVE  TypeOK' /\ HeldIsObject'
  <2>1. Append(free_queue, call[c].obj) \in Seq(CmdObject)
    BY <1>6 DEF Acked, TypeOK, HeldIsObject
  <2> QED
    BY <1>6, <2>1, CallEnds DEF Acked, TypeOK
<1>7. ASSUME NEW c \in Caller, Expire(c)
      PROVE  TypeOK' /\ HeldIsObject'
  <2>1. Append(pend_queue, call[c].obj) \in Seq(CmdObject)
    BY <1>7 DEF Expire, TypeOK, HeldIsObject
  <2> QED
    BY <1>7, <2>1, CallEnds DEF Expire, TypeOK
<1>8. ASSUME Flush
      PROVE  TypeOK' /\ HeldIsObject'
  <2>1. Append(free_queue, Head(pend_queue)) \in Seq(CmdObject)
        /\ Tail(pend_queue) \in Seq(CmdObject)
    BY <1>8 DEF Flush, TypeOK
  <2> QED
    BY <1>8, <2>1 DEF Flush, TypeOK, HeldIsObject
<1>9. ASSUME NEW t \in Target, Execute(t)
      PROVE  TypeOK' /\ HeldIsObject'
  <2> DEFINE o == Head(job_queue[t])
             q == [job_queue EXCEPT ![t] = Tail(@)]
  <2>1. o \in CmdObject /\ q \in [Target -> Seq(CmdObject)]
    BY <1>9 DEF Execute, TypeOK
  <2>2. /\ obj_desc_cmd' = [obj_desc_cmd EXCEPT ![o].ack = TRUE]
        /\ job_queue' = [q EXCEPT ![HostTarget] = Append(@, o)]
        /\ executed' = [executed EXCEPT ![obj_desc_cmd[o].cmd] = @ + 1]
        /\ UNCHANGED <<free_queue, pend_queue, cmd_ack_event, call, commands, lost, flushed>>
    BY <1>9 DEF Execute, SendAck
  <2> HIDE DEF o, q
  <2>3. job_queue' \in [Target -> Seq(CmdObject)]
    BY <1>0, <2>1, <2>2
  <2>4. executed' \in [Cmd -> Nat]
    <3>1. \A n \in Cmd : executed[n] \in Nat /\ executed[n] + 1 \in Nat
      BY DEF TypeOK
    <3>2. executed \in [Cmd -> Nat]
      BY DEF TypeOK
    <3>3. CASE obj_desc_cmd[o].cmd \in Cmd
      BY <2>2, <3>1, <3>2, <3>3
    <3>4. CASE obj_desc_cmd[o].cmd \notin Cmd
      BY <2>2, <3>2, <3>4
    <3> QED
      BY <3>3, <3>4
  <2>5. obj_desc_cmd' \in [CmdObject -> [cmd : 0 .. MaxCmd, target : Target, ack : BOOLEAN]]
    BY <2>1, <2>2 DEF TypeOK
  <2> QED
    BY <2>2, <2>3, <2>4, <2>5 DEF TypeOK, HeldIsObject
<1>10. ASSUME NEW t \in Target, HandleAck(t)
       PROVE  TypeOK' /\ HeldIsObject'
  <2>1. Head(job_queue[t]) \in CmdObject /\ Tail(job_queue[t]) \in Seq(CmdObject)
    BY <1>10 DEF HandleAck, TypeOK
  <2> QED
    BY <1>10, <2>1 DEF HandleAck, TypeOK, HeldIsObject
<1>11. ASSUME UNCHANGED cmdVars
       PROVE  TypeOK' /\ HeldIsObject'
  BY <1>11 DEF cmdVars, TypeOK, HeldIsObject
<1> QED
  BY <1>1, <1>2, <1>3, <1>4, <1>5, <1>6, <1>7, <1>8, <1>9, <1>10, <1>11
     DEF Next, Proceed, Handle

\* A step of a call that has no object, or keeps the one it has.
LEMMA SameHolders ==
  ASSUME ObjectInOnePlace, UNCHANGED <<free_queue, pend_queue, lost>>,
         \A o \in CmdObject : Holders(o)' = Holders(o)
  PROVE  ObjectInOnePlace'
BY Moved DEF Free, Pending, Held, Lost

\* Every step keeps each object in one place.
LEMMA NextInOnePlace ==
  ASSUME TypeOK, HeldIsObject, ObjectInOnePlace, IsFiniteSet(Caller), [Next]_cmdVars
  PROVE  ObjectInOnePlace'
<1>1. ASSUME NEW c \in Caller, NEW t \in Target, NEW limited \in BOOLEAN, Begin(c, t, limited)
      PROVE  ObjectInOnePlace'
  BY <1>1, SameHolders DEF Begin, TypeOK, Holders
<1>2. ASSUME NEW c \in Caller, GetObject(c)
      PROVE  ObjectInOnePlace'
  <2> DEFINE h == Head(free_queue)
  <2>1. /\ call[c].at = "object" /\ free_queue # <<>> /\ free_queue' = Tail(free_queue)
        /\ call' = [call EXCEPT ![c] = [call[c] EXCEPT !.at = "send", !.obj = h]]
        /\ UNCHANGED <<pend_queue, lost>>
    BY <1>2 DEF GetObject, TypeOK
  <2>2. h \in CmdObject /\ free_queue \in Seq(CmdObject)
    BY <2>1 DEF TypeOK
  <2>3. ASSUME NEW o \in CmdObject
        PROVE  Free(o)' + Pending(o)' + Held(o)' + Lost(o)'
                 = Free(o) + Pending(o) + Held(o) + Lost(o)
    <3>1. Free(o)' = Free(o) - (IF o = h THEN 1 ELSE 0)
      BY <2>1, <2>2, CountTail DEF Free
    <3> HIDE DEF h
    <3>2. Holders(o)' = IF o = h THEN Holders(o) \cup {c} ELSE Holders(o)
      BY <2>1 DEF Holders, TypeOK
    <3>3. c \notin Holders(o) /\ Pending(o)' = Pending(o) /\ Lost(o)' = Lost(o)
      BY <2>1 DEF Holders, Pending, Lost
    <3>4. /\ Free(o) \in Nat /\ Pending(o) \in Nat /\ Held(o) \in Nat /\ Lost(o) \in {0, 1}
          /\ IsFiniteSet(Holders(o))
      BY CountedNat
    <3>5. Cardinality(Holders(o) \cup {c}) = Held(o) + 1
      BY <3>3, <3>4, FS_AddElement DEF Held
    <3>6. Held(o)' = Held(o) + (IF o = h THEN 1 ELSE 0)
      BY <3>2, <3>4, <3>5 DEF Held
    <3> QED
      BY <3>1, <3>3, <3>4, <3>6
  <2> QED
    BY <2>3, Moved
<1>3. ASSUME NEW c \in Caller, NoObjectInTime(c)
      PROVE  ObjectInOnePlace'
  BY <1>3, SameHolders DEF NoObjectInTime, TypeOK, Holders, NoCall
<1>4. ASSUME NEW c \in Caller, Send(c)
      PROVE  ObjectInOnePlace'
  BY <1>4, SameHolders DEF Send, TypeOK, Holders
<1>5. ASSUME NEW c \in Caller, SendFails(c) \/ Acked(c) \/ Expire(c)
      PROVE  ObjectInOnePlace'
  <2> DEFINE h == call[c].obj
  <2>1. call[c].at \in {"send", "waitAck"} /\ call' = [call EXCEPT ![c] = NoCall]
    BY <1>5 DEF SendFails, Acked, Expire
  <2>2. h \in CmdObject /\ free_queue \in Seq(CmdObject) /\ pend_queue \in Seq(CmdObject)
    BY <2>1 DEF TypeOK, HeldIsObject
  <2>3. h \notin lost
    BY <2>1, HolderAlone
  <2>4. ASSUME NEW o \in CmdObject
        PROVE  Free(o)' + Pending(o)' + Held(o)' + Lost(o)'
                 = Free(o) + Pending(o) + Held(o) + Lost(o)
    <3>1. Holders(o)' = Holders(o) \ {c} /\ (c \in Holders(o) <=> o = h)
      BY <2>1 DEF Holders, TypeOK, NoCall
    <3>2. /\ Free(o) \in Nat /\ Pending(o) \in Nat /\ Held(o) \in Nat /\ Lost(o) \in {0, 1}
          /\ IsFiniteSet(Holders(o))
      BY CountedNat
    <3>3. Cardinality(Holders(o) \ {c}) = IF c \in Holders(o) THEN Held(o) - 1 ELSE Held(o)
      BY <3>2, FS_RemoveElement DEF Held
    <3>4. Held(o)' = Held(o) - (IF o = h THEN 1 ELSE 0)
      BY <3>1, <3>2, <3>3 DEF Held
    <3>5. CASE SendFails(c)
      <4>1. lost' = lost \cup {h} /\ UNCHANGED <<free_queue, pend_queue>>
        BY <3>5 DEF SendFails
      <4>2. Free(o)' = Free(o) /\ Pending(o)' = Pending(o)
        BY <4>1 DEF Free, Pending
      <4>3. Lost(o)' = Lost(o) + (IF o = h THEN 1 ELSE 0)
        BY <2>3, <4>1 DEF Lost
      <4> QED
        BY <3>2, <3>4, <4>2, <4>3
    <3>6. CASE Acked(c)
      <4>1. free_queue' = Append(free_queue, h) /\ UNCHANGED <<pend_queue, lost>>
        BY <3>6 DEF Acked
      <4>2. Free(o)' = Free(o) + (IF o = h THEN 1 ELSE 0)
        BY <2>2, <4>1, CountAppend DEF Free
      <4>3. Lost(o)' = Lost(o) /\ Pending(o)' = Pending(o)
        BY <4>1 DEF Lost, Pending
      <4> QED
        BY <3>2, <3>4, <4>2, <4>3
    <3>7. CASE Expire(c)
      <4>1. pend_queue' = Append(pend_queue, h) /\ UNCHANGED <<free_queue, lost>>
        BY <3>7 DEF Expire
      <4>2. Pending(o)' = Pending(o) + (IF o = h THEN 1 ELSE 0)
        BY <2>2, <4>1, CountAppend DEF Pending
      <4>3. Lost(o)' = Lost(o) /\ Free(o)' = Free(o)
        BY <4>1 DEF Lost, Free
      <4> QED
        BY <3>2, <3>4, <4>2, <4>3
    <3> QED
      BY <1>5, <3>5, <3>6, <3>7
  <2> QED
    BY <2>4, Moved
<1>6. ASSUME Flush
      PROVE  ObjectInOnePlace'
  <2> DEFINE h == Head(pend_queue)
  <2>1. /\ pend_queue # <<>> /\ free_queue' = Append(free_queue, h)
        /\ pend_queue' = Tail(pend_queue) /\ UNCHANGED <<call, lost>>
    BY <1>6 DEF Flush
  <2>2. h \in CmdObject /\ free_queue \in Seq(CmdObject) /\ pend_queue \in Seq(CmdObject)
    BY <2>1 DEF TypeOK
  <2>3. ASSUME NEW o \in CmdObject
        PROVE  Free(o)' + Pending(o)' + Held(o)' + Lost(o)'
                 = Free(o) + Pending(o) + Held(o) + Lost(o)
    <3>1. Pending(o)' = Pending(o) - (IF o = h THEN 1 ELSE 0)
      BY <2>1, <2>2, CountTail DEF Pending
    <3>2. Free(o)' = Free(o) + (IF o = h THEN 1 ELSE 0)
      BY <2>1, <2>2, CountAppend DEF Free
    <3>3. Held(o)' = Held(o) /\ Lost(o)' = Lost(o)
      BY <2>1 DEF Held, Holders, Lost
    <3>4. Free(o) \in Nat /\ Pending(o) \in Nat /\ Held(o) \in Nat /\ Lost(o) \in {0, 1}
      BY CountedNat
    <3> QED
      BY <3>1, <3>2, <3>3, <3>4
  <2> QED
    BY <2>3, Moved
<1>7. ASSUME NEW t \in Target, Execute(t) \/ HandleAck(t)
      PROVE  ObjectInOnePlace'
  BY <1>7, SameHolders DEF Execute, HandleAck, Holders
<1>8. ASSUME UNCHANGED cmdVars
      PROVE  ObjectInOnePlace'
  BY <1>8, SameHolders DEF cmdVars, Holders
<1> QED
  BY <1>1, <1>2, <1>3, <1>4, <1>5, <1>6, <1>7, <1>8 DEF Next, Proceed, Handle
-----------------------------------------------------------------------------
(* Commands: the answers                                                     *)

\* A step that leaves the messages, the objects and the commands executed alone:
\* what is to be shown of the calls is that none is taken for one that waits or that
\* has a command, and that an object that is not answered for becomes pending when its
\* call is over.
LEMMA CallsMove ==
  ASSUME TypeOK, Matched, NEW c \in Caller, NEW h, h = call[c].obj,
         UNCHANGED <<obj_desc_cmd, cmd_ack_event, job_queue, commands, executed>>,
         \A d \in Caller \ {c} : call'[d] = call[d],
         \/ call'[c].at = "idle"
         \/ call'[c].at = "send" /\ call[c].at = "object" /\ call'[c].cmd = call[c].cmd,
         \A o \in CmdObject : Pending(o) # 0 => Pending(o)' # 0,
         call[c].at = "waitAck" => Pending(h)' # 0
  PROVE  Matched'
<1>1. \A o : (\A t : Sent(t, o)' = Sent(t, o)) /\ (Unanswered(o)' <=> Unanswered(o))
  BY DEF Sent, Unanswered
<1>2. OneMessage'
  BY <1>1 DEF Matched, OneMessage
<1>3. UsedWhileUnanswered'
  BY <1>1 DEF Matched, UsedWhileUnanswered
<1>4. CommandsInObjects'
  BY <1>1 DEF Matched, CommandsInObjects
<1>5. CommandsOfCalls'
  BY <1>1 DEF Matched, CommandsOfCalls
<1>6. ExecutedOnce'
  BY DEF Matched, ExecutedOnce
<1> QED
  BY <1>2, <1>3, <1>4, <1>5, <1>6 DEF Matched

\* A new command has a number of its own.
LEMMA BeginMatched ==
  ASSUME CommandParameters, TypeOK, Matched, NEW c \in Caller, NEW t \in Target,
         NEW limited \in BOOLEAN, Begin(c, t, limited)
  PROVE  Matched'
<1>1. /\ commands' = commands + 1 /\ commands \in Nat /\ commands' \in Cmd
      /\ call' = [call EXCEPT ![c] = [at |-> "object", cmd |-> commands', target |-> t,
                                      timed |-> limited, obj |-> NoObject]]
      /\ call[c].at = "idle"
      /\ UNCHANGED <<free_queue, pend_queue, obj_desc_cmd, cmd_ack_event, job_queue, executed>>
  BY DEF Begin, TypeOK, CommandParameters, Cmd
<1>2. \A o : (\A u : Sent(u, o)' = Sent(u, o)) /\ (Unanswered(o)' <=> Unanswered(o))
             /\ Pending(o)' = Pending(o)
  BY <1>1 DEF Sent, Unanswered, Pending
<1>3. \A d \in Caller : IF d = c THEN call'[d].at = "object" /\ call'[d].cmd = commands'
                        ELSE call'[d] = call[d]
  BY <1>1 DEF TypeOK
<1>4. /\ \A n \in 1 .. commands : n # commands' /\ n \in 1 .. commands'
      /\ commands' \in 1 .. commands' /\ commands' > commands
      /\ \A n \in Cmd : n > commands' => n > commands
  BY <1>1 DEF Cmd
<1>5. executed[commands'] = 0
  BY <1>1, <1>4 DEF Matched, ExecutedOnce
<1>6. OneMessage' /\ UsedWhileUnanswered'
  BY <1>1, <1>2, <1>3 DEF Matched, OneMessage, UsedWhileUnanswered
<1>7. CommandsInObjects'
  BY <1>1, <1>2, <1>3, <1>4 DEF Matched, CommandsInObjects
<1>8. CommandsOfCalls'
  BY <1>1, <1>2, <1>3, <1>4, <1>5 DEF Matched, CommandsInObjects, CommandsOfCalls
<1>9. ExecutedOnce'
  BY <1>1, <1>4 DEF Matched, ExecutedOnce
<1> QED
  BY <1>6, <1>7, <1>8, <1>9 DEF Matched

\* The object that is sent was with no target, and its event was not set.
LEMMA SendMatched ==
  ASSUME TypeOK, HeldIsObject, ObjectInOnePlace, IsFiniteSet(Caller), Matched,
         NEW c \in Caller, Send(c)
  PROVE  Matched'
<1> DEFINE o == call[c].obj
           n == call[c].cmd
           g == call[c].target
<1>1. /\ call[c].at = "send" /\ o \in CmdObject /\ g \in Target
      /\ n \in 1 .. commands /\ executed[n] = 0
      /\ \A x \in CmdObject : Unanswered(x) => obj_desc_cmd[x].cmd # n
  BY DEF Send, TypeOK, HeldIsObject, Matched, CommandsOfCalls
<1>2. Pending(o) = 0 /\ Holders(o) = {c}
  BY <1>1, HolderAlone
<1>3. ~Unanswered(o)
  <2>1. \A d \in Caller : ~(call[d].at = "waitAck" /\ call[d].obj = o)
    BY <1>1, <1>2 DEF Holders
  <2> QED
    BY <1>1, <1>2, <2>1 DEF Matched, UsedWhileUnanswered
<1>4. /\ obj_desc_cmd' = [obj_desc_cmd EXCEPT ![o] = [cmd |-> n, target |-> g, ack |-> FALSE]]
      /\ job_queue' = [job_queue EXCEPT ![g] = Append(job_queue[g], o)]
      /\ call' = [call EXCEPT ![c] = [call[c] EXCEPT !.at = "waitAck"]]
      /\ UNCHANGED <<free_queue, pend_queue, cmd_ack_event, commands, executed>>
  BY DEF Send, TypeOK
<1>5. \A d \in Caller : /\ d # c => call'[d] = call[d] /\ (call[d].at = "waitAck" => call[d].obj # o)
                        /\ d = c => /\ call'[d].at = "waitAck" /\ call'[d].cmd = n
                                    /\ call'[d].obj = o
  BY <1>2, <1>4 DEF TypeOK, Holders
<1>6. \A x \in CmdObject : /\ x # o => obj_desc_cmd'[x] = obj_desc_cmd[x]
                           /\ x = o => obj_desc_cmd'[x].cmd = n /\ ~obj_desc_cmd'[x].ack
  BY <1>1, <1>4 DEF TypeOK
<1>7. ASSUME NEW u \in Target, NEW x \in CmdObject
      PROVE  Sent(u, x)' = Sent(u, x) + (IF u = g /\ x = o THEN 1 ELSE 0) /\ Sent(u, x) \in Nat
  <2>1. Sent(u, x) \in Nat
    BY SentNat
  <2>2. CASE u = g
    <3>1. job_queue'[u] = Append(job_queue[u], o) /\ job_queue[u] \in Seq(CmdObject)
      BY <1>4, <2>2 DEF TypeOK
    <3>2. Count(job_queue'[u], x) = Count(job_queue[u], x) + (IF x = o THEN 1 ELSE 0)
      BY <1>1, <3>1, CountAppend
    <3> QED
      BY <2>1, <2>2, <3>2 DEF Sent
  <2>3. CASE u # g
    BY <1>4, <2>1, <2>3 DEF Sent, TypeOK
  <2> QED
    BY <2>2, <2>3
<1> HIDE DEF o, n, g
<1>8. \A u \in Target, x \in CmdObject :
         Sent(u, x)' = IF x # o THEN Sent(u, x) ELSE IF u = g THEN 1 ELSE 0
  BY <1>3, <1>7 DEF Unanswered
<1>9. \A x \in CmdObject : Unanswered(x)' <=> Unanswered(x) \/ x = o
  BY <1>1, <1>4, <1>8 DEF Unanswered
<1>10. OneMessage'
  BY <1>3, <1>4, <1>7, <1>8 DEF Matched, OneMessage, Unanswered
<1>11. UsedWhileUnanswered'
  <2>1. \A x : Pending(x)' = Pending(x)
    BY <1>4 DEF Pending
  <2>2. \A d \in Caller : call[d].at = "waitAck" => call'[d] = call[d]
    BY <1>1, <1>5
  <2>3. call'[c].at = "waitAck" /\ call'[c].obj = o
    BY <1>5
  <2> QED
    BY <1>9, <2>1, <2>2, <2>3 DEF Matched, UsedWhileUnanswered
<1>12. CommandsInObjects'
  <2>1. \A d \in Caller : call'[d].at = "waitAck" => obj_desc_cmd'[call'[d].obj].cmd = call'[d].cmd
    BY <1>1, <1>5, <1>6 DEF Matched, CommandsInObjects, HeldIsObject
  <2>2. o \notin cmd_ack_event
    BY <1>3 DEF Unanswered
  <2> QED
    BY <1>1, <1>4, <1>6, <1>9, <2>1, <2>2 DEF Matched, CommandsInObjects
<1>13. CommandsOfCalls'
  <2>1. \A d \in Caller : d # c /\ call[d].at # "idle" => call[d].cmd # n
    BY <1>1 DEF Matched, CommandsOfCalls, n
  <2> QED
    BY <1>1, <1>4, <1>5, <1>6, <1>9, <2>1 DEF Matched, CommandsOfCalls
<1>14. ExecutedOnce'
  BY <1>4 DEF Matched, ExecutedOnce
<1> QED
  BY <1>10, <1>11, <1>12, <1>13, <1>14 DEF Matched

\* The event is cleared by the call that waited for it: nothing of the object is left.
LEMMA AckedMatched ==
  ASSUME TypeOK, HeldIsObject, ObjectInOnePlace, IsFiniteSet(Caller), Matched,
         NEW c \in Caller, Acked(c)
  PROVE  Matched'
<1> DEFINE o == call[c].obj
<1>1. /\ call[c].at = "waitAck" /\ o \in CmdObject /\ o \in cmd_ack_event
      /\ cmd_ack_event' = cmd_ack_event \ {o}
      /\ call' = [call EXCEPT ![c] = NoCall]
      /\ UNCHANGED <<pend_queue, obj_desc_cmd, job_queue, commands, executed>>
  BY DEF Acked, TypeOK, HeldIsObject
<1>2. \A t \in Target : Sent(t, o) = 0
  BY <1>1 DEF Matched, OneMessage
<1>3. \A d \in Caller : IF d = c THEN call'[d].at = "idle" ELSE call'[d] = call[d]
  BY <1>1 DEF TypeOK, NoCall
<1>4. \A x : (\A t : Sent(t, x)' = Sent(t, x)) /\ Pending(x)' = Pending(x)
  BY <1>1 DEF Sent, Pending
<1>5. \A x \in CmdObject : Unanswered(x)' <=> Unanswered(x) /\ x # o
  BY <1>1, <1>2, <1>4 DEF Unanswered
<1>6. \A x \in CmdObject : x # o => (x \in cmd_ack_event' <=> x \in cmd_ack_event)
  BY <1>1
<1> HIDE DEF o
<1>7. OneMessage'
  BY <1>1, <1>4 DEF Matched, OneMessage
<1>8. UsedWhileUnanswered'
  <2>1. \A d \in Caller : call[d].at = "waitAck" /\ call[d].obj # o => call'[d] = call[d]
    BY <1>3 DEF o
  <2> QED
    BY <1>4, <1>5, <2>1 DEF Matched, UsedWhileUnanswered
<1>9. CommandsInObjects'
  BY <1>1, <1>3, <1>5, <1>6 DEF Matched, CommandsInObjects
<1>10. CommandsOfCalls'
  BY <1>1, <1>3, <1>5 DEF Matched, CommandsOfCalls
<1>11. ExecutedOnce'
  BY <1>1 DEF Matched, ExecutedOnce
<1> QED
  BY <1>7, <1>8, <1>9, <1>10, <1>11 DEF Matched

\* The target executes the command of an object that it has for the first time.
LEMMA ExecuteMatched ==
  ASSUME CommandParameters, TypeOK, HeldIsObject, Matched, NEW t \in Target, Execute(t)
  PROVE  Matched'
<1> DEFINE o == Head(job_queue[t])
           n == obj_desc_cmd[o].cmd
           q == [job_queue EXCEPT ![t] = Tail(job_queue[t])]
<1>1. /\ job_queue[t] # <<>> /\ job_queue[t] \in Seq(CmdObject) /\ o \in CmdObject
      /\ ~obj_desc_cmd[o].ack
      /\ obj_desc_cmd' = [obj_desc_cmd EXCEPT ![o] = [obj_desc_cmd[o] EXCEPT !.ack = TRUE]]
      /\ job_queue' = [q EXCEPT ![HostTarget] = Append(q[HostTarget], o)]
      /\ executed' = [executed EXCEPT ![n] = executed[n] + 1]
      /\ UNCHANGED <<free_queue, pend_queue, cmd_ack_event, call, commands>>
  BY DEF Execute, SendAck, TypeOK, CommandParameters
<1>2. HostTarget \in Target /\ q \in [Target -> Seq(CmdObject)]
  BY <1>1 DEF TypeOK, CommandParameters
<1>3. ASSUME NEW u \in Target, NEW x \in CmdObject
      PROVE  /\ Sent(u, x)' = Sent(u, x) - (IF u = t /\ x = o THEN 1 ELSE 0)
                                + (IF u = HostTarget /\ x = o THEN 1 ELSE 0)
             /\ Sent(u, x) \in Nat
  <2>1. Sent(u, x) \in Nat
    BY SentNat
  <2>2. Count(q[u], x) = Sent(u, x) - (IF u = t /\ x = o THEN 1 ELSE 0)
    <3>1. CASE u = t
      <4>1. q[u] = Tail(job_queue[t])
        BY <3>1 DEF TypeOK
      <4>2. Count(Tail(job_queue[t]), x) = Count(job_queue[t], x) - (IF x = o THEN 1 ELSE 0)
        BY <1>1, CountTail
      <4> QED
        BY <3>1, <4>1, <4>2 DEF Sent
    <3>2. CASE u # t
      BY <2>1, <3>2 DEF Sent, TypeOK
    <3> QED
      BY <3>1, <3>2
  <2> HIDE DEF q
  <2>3. CASE u = HostTarget
    <3>1. job_queue'[u] = Append(q[u], o) /\ q[u] \in Seq(CmdObject)
      BY <1>1, <1>2, <2>3
    <3>2. Count(job_queue'[u], x) = Count(q[u], x) + (IF x = o THEN 1 ELSE 0)
      BY <1>1, <3>1, CountAppend
    <3>3. Sent(u, x)' = Count(job_queue'[u], x)
      BY DEF Sent
    <3> QED
      BY <2>1, <2>2, <2>3, <3>2, <3>3
  <2>4. CASE u # HostTarget
    <3>1. Sent(u, x)' = Count(q[u], x)
      BY <1>1, <1>2, <2>4 DEF Sent
    <3> QED
      BY <2>1, <2>2, <2>4, <3>1
  <2> QED
    BY <2>3, <2>4
<1>4. Sent(t, o) # 0
  BY <1>1, SentNat
<1>5. Unanswered(o) /\ o \notin cmd_ack_event
  BY <1>1, <1>4 DEF Unanswered, Matched, OneMessage
<1>6. n \in 1 .. commands /\ executed[n] = 0 /\ n \in Cmd
  BY <1>1, <1>5 DEF Matched, CommandsInObjects, TypeOK, Cmd, CommandParameters
<1> HIDE DEF o, n, q
<1>7. Sent(t, o) = 1 /\ \A u \in Target : u # t => Sent(u, o) = 0
  BY <1>1, <1>3, <1>4 DEF Matched, OneMessage
<1>8. \A u \in Target, x \in CmdObject :
         Sent(u, x)' = IF x # o THEN Sent(u, x) ELSE IF u = HostTarget THEN 1 ELSE 0
  BY <1>3, <1>7
<1>9. \A x \in CmdObject : Unanswered(x)' <=> Unanswered(x)
  BY <1>1, <1>2, <1>4, <1>8 DEF Unanswered
<1>10. \A x \in CmdObject : /\ obj_desc_cmd'[x].cmd = obj_desc_cmd[x].cmd
                            /\ x # o => obj_desc_cmd'[x].ack = obj_desc_cmd[x].ack
                            /\ x = o => obj_desc_cmd'[x].ack
  BY <1>1 DEF TypeOK
<1>11. \A k \in Cmd : executed'[k] = IF k = n THEN 1 ELSE executed[k]
  BY <1>1, <1>6 DEF TypeOK
<1>12. \A k \in 1 .. commands : k \in Cmd
  BY DEF TypeOK, Cmd, CommandParameters
<1>13. OneMessage'
  BY <1>1, <1>5, <1>8 DEF Matched, OneMessage
<1>14. UsedWhileUnanswered'
  <2>1. \A x : Pending(x)' = Pending(x)
    BY <1>1 DEF Pending
  <2> QED
    BY <1>1, <1>9, <2>1 DEF Matched, UsedWhileUnanswered
<1>15. \A x \in CmdObject : Unanswered(x) /\ x # o => obj_desc_cmd[x].cmd # n
  BY <1>1, <1>5 DEF Matched, CommandsInObjects, n
<1>16. CommandsInObjects'
  <2>1. \A x \in CmdObject : Unanswered(x)' =>
           /\ obj_desc_cmd'[x].cmd \in 1 .. commands'
           /\ executed'[obj_desc_cmd'[x].cmd]
                = IF x \in cmd_ack_event' \/ obj_desc_cmd'[x].ack THEN 1 ELSE 0
    <3>1. ASSUME NEW x \in CmdObject, Unanswered(x), x # o
          PROVE  /\ obj_desc_cmd'[x].cmd \in 1 .. commands'
                 /\ executed'[obj_desc_cmd'[x].cmd]
                      = IF x \in cmd_ack_event' \/ obj_desc_cmd'[x].ack THEN 1 ELSE 0
      BY <1>1, <1>10, <1>11, <1>12, <1>15, <3>1 DEF Matched, CommandsInObjects
    <3>2. obj_desc_cmd'[o].cmd = n /\ obj_desc_cmd'[o].ack
      BY <1>1, <1>10 DEF n
    <3> QED
      BY <1>1, <1>6, <1>9, <1>11, <3>1, <3>2
  <2>2. \A c \in Caller : call'[c].at = "waitAck" =>
           obj_desc_cmd'[call'[c].obj].cmd = call'[c].cmd
    BY <1>1, <1>10 DEF Matched, CommandsInObjects, HeldIsObject
  <2>3. \A y, x \in CmdObject : Unanswered(y)' /\ Unanswered(x)' /\ y # x =>
           obj_desc_cmd'[y].cmd # obj_desc_cmd'[x].cmd
    BY <1>9, <1>10 DEF Matched, CommandsInObjects
  <2> QED
    BY <2>1, <2>2, <2>3 DEF CommandsInObjects
<1>17. CommandsOfCalls'
  <2>1. \A c \in Caller : call[c].at \in {"object", "send"} =>
           call[c].cmd # n /\ call[c].cmd \in Cmd
    BY <1>1, <1>5, <1>12 DEF Matched, CommandsOfCalls, n
  <2> QED
    BY <1>1, <1>9, <1>10, <1>11, <2>1 DEF Matched, CommandsOfCalls
<1>18. ExecutedOnce'
  <2>1. \A k \in Cmd : k > commands => k # n
    BY <1>6 DEF TypeOK, Cmd
  <2> QED
    BY <1>1, <1>11, <2>1 DEF Matched, ExecutedOnce
<1> QED
  BY <1>13, <1>14, <1>16, <1>17, <1>18 DEF Matched

\* The host target has the answer: the object is with no target any more, and its
\* event is set.
LEMMA HandleAckMatched ==
  ASSUME TypeOK, HeldIsObject, Matched, NEW t \in Target, HandleAck(t)
  PROVE  Matched'
<1> DEFINE o == Head(job_queue[t])
           n == obj_desc_cmd[o].cmd
<1>1. /\ job_queue[t] # <<>> /\ job_queue[t] \in Seq(CmdObject) /\ o \in CmdObject
      /\ obj_desc_cmd[o].ack
      /\ obj_desc_cmd' = [obj_desc_cmd EXCEPT ![o] = [obj_desc_cmd[o] EXCEPT !.ack = FALSE]]
      /\ job_queue' = [job_queue EXCEPT ![t] = Tail(job_queue[t])]
      /\ cmd_ack_event' = cmd_ack_event \cup {o}
      /\ UNCHANGED <<free_queue, pend_queue, executed, call, commands>>
  BY DEF HandleAck, TypeOK
<1>2. ASSUME NEW u \in Target, NEW x \in CmdObject
      PROVE  /\ Sent(u, x)' = Sent(u, x) - (IF u = t /\ x = o THEN 1 ELSE 0)
             /\ Sent(u, x) \in Nat
  <2>1. Sent(u, x) \in Nat
    BY SentNat
  <2>2. CASE u = t
    <3>1. Sent(u, x)' = Count(Tail(job_queue[t]), x)
      BY <1>1, <2>2 DEF Sent, TypeOK
    <3>2. Count(Tail(job_queue[t]), x) = Count(job_queue[t], x) - (IF x = o THEN 1 ELSE 0)
      BY <1>1, CountTail
    <3> QED
      BY <2>1, <2>2, <3>1, <3>2 DEF Sent
  <2>3. CASE u # t
    BY <1>1, <2>1, <2>3 DEF Sent, TypeOK
  <2> QED
    BY <2>2, <2>3
<1>3. Sent(t, o) # 0
  BY <1>1, SentNat
<1>4. Unanswered(o) /\ o \notin cmd_ack_event
  BY <1>1, <1>3 DEF Unanswered, Matched, OneMessage
<1>5. executed[n] = 1
  BY <1>1, <1>4 DEF Matched, CommandsInObjects
<1> HIDE DEF o, n
<1>6. Sent(t, o) = 1 /\ \A u \in Target : u # t => Sent(u, o) = 0
  BY <1>1, <1>2, <1>3 DEF Matched, OneMessage
<1>7. \A u \in Target, x \in CmdObject : Sent(u, x)' = IF x # o THEN Sent(u, x) ELSE 0
  BY <1>2, <1>6
<1>8. \A x \in CmdObject : Unanswered(x)' <=> Unanswered(x)
  BY <1>1, <1>4, <1>7 DEF Unanswered
<1>9. \A x \in CmdObject : /\ obj_desc_cmd'[x].cmd = obj_desc_cmd[x].cmd
                           /\ x # o => /\ obj_desc_cmd'[x].ack = obj_desc_cmd[x].ack
                                       /\ x \in cmd_ack_event' <=> x \in cmd_ack_event
  BY <1>1 DEF TypeOK
<1>10. OneMessage'
  BY <1>1, <1>7 DEF Matched, OneMessage
<1>11. UsedWhileUnanswered'
  <2>1. \A x : Pending(x)' = Pending(x)
    BY <1>1 DEF Pending
  <2> QED
    BY <1>1, <1>8, <2>1 DEF Matched, UsedWhileUnanswered
<1>12. CommandsInObjects'
  <2>1. \A x \in CmdObject : Unanswered(x)' =>
           /\ obj_desc_cmd'[x].cmd \in 1 .. commands'
           /\ executed'[obj_desc_cmd'[x].cmd]
                = IF x \in cmd_ack_event' \/ obj_desc_cmd'[x].ack THEN 1 ELSE 0
    <3>1. o \in cmd_ack_event' /\ executed'[obj_desc_cmd'[o].cmd] = 1
      BY <1>1, <1>5, <1>9 DEF n
    <3> QED
      BY <1>1, <1>8, <1>9, <3>1 DEF Matched, CommandsInObjects
  <2>2. \A c \in Caller : call'[c].at = "waitAck" =>
           obj_desc_cmd'[call'[c].obj].cmd = call'[c].cmd
    BY <1>1, <1>9 DEF Matched, CommandsInObjects, HeldIsObject
  <2>3. \A y, x \in CmdObject : Unanswered(y)' /\ Unanswered(x)' /\ y # x =>
           obj_desc_cmd'[y].cmd # obj_desc_cmd'[x].cmd
    BY <1>8, <1>9 DEF Matched, CommandsInObjects
  <2> QED
    BY <2>1, <2>2, <2>3 DEF CommandsInObjects
<1>13. CommandsOfCalls'
  BY <1>1, <1>8, <1>9 DEF Matched, CommandsOfCalls
<1>14. ExecutedOnce'
  BY <1>1 DEF Matched, ExecutedOnce
<1> QED
  BY <1>10, <1>11, <1>12, <1>13, <1>14 DEF Matched

\* As long as the pend queue is not flushed, every step keeps the answers apart.
LEMMA NextMatched ==
  ASSUME CommandParameters, TypeOK, HeldIsObject, ObjectInOnePlace, ~flushed => Matched,
         [Next]_cmdVars
  PROVE  ~flushed' => Matched'
<1>f. IsFiniteSet(Caller)
  BY DEF CommandParameters
<1>1. CASE flushed
  <2>1. flushed'
    BY <1>1 DEF Next, Begin, Proceed, GetObject, Send, Acked, NoObjectInTime, SendFails, Expire,
                Handle, Execute, HandleAck, Flush, cmdVars
  <2> QED
    BY <2>1
<1>2. CASE Matched
  <2>1. ASSUME NEW c \in Caller, NEW t \in Target, NEW limited \in BOOLEAN, Begin(c, t, limited)
        PROVE  Matched'
    BY <1>2, <2>1, BeginMatched
  <2>2. ASSUME NEW c \in Caller, GetObject(c)
        PROVE  Matched'
    <3>1. PICK h : h = call[c].obj
      OBVIOUS
    <3> QED
      BY <1>2, <2>2, <3>1, CallsMove DEF GetObject, TypeOK, Pending
  <2>3. ASSUME NEW c \in Caller, NoObjectInTime(c)
        PROVE  Matched'
    <3>1. PICK h : h = call[c].obj
      OBVIOUS
    <3> QED
      BY <1>2, <2>3, <3>1, CallsMove DEF NoObjectInTime, TypeOK, NoCall, Pending
  <2>4. ASSUME NEW c \in Caller, SendFails(c)
        PROVE  Matched'
    <3>1. PICK h : h = call[c].obj
      OBVIOUS
    <3> QED
      BY <1>2, <2>4, <3>1, CallsMove DEF SendFails, TypeOK, NoCall, Pending
  <2>5. ASSUME NEW c \in Caller, Expire(c)
        PROVE  Matched'
    <3>1. /\ call' = [call EXCEPT ![c] = NoCall]
          /\ UNCHANGED <<obj_desc_cmd, cmd_ack_event, job_queue, commands, executed>>
          /\ pend_queue' = Append(pend_queue, call[c].obj)
          /\ call[c].obj \in CmdObject /\ pend_queue \in Seq(CmdObject)
      BY <2>5 DEF Expire, TypeOK, HeldIsObject
    <3>2. ASSUME NEW o \in CmdObject
          PROVE  Pending(o)' = Pending(o) + (IF o = call[c].obj THEN 1 ELSE 0)
                 /\ Pending(o) \in Nat
      <4>1. Count(pend_queue', o) = Count(pend_queue, o) + (IF o = call[c].obj THEN 1 ELSE 0)
        BY <3>1, CountAppend
      <4> QED
        BY <1>f, <4>1, CountedNat DEF Pending
    <3>3. (\A d \in Caller \ {c} : call'[d] = call[d]) /\ call'[c].at = "idle"
      BY <3>1 DEF TypeOK, NoCall
    <3>4. /\ \A o \in CmdObject : Pending(o) # 0 => Pending(o)' # 0
          /\ \A o \in CmdObject : o = call[c].obj => Pending(o)' # 0
      BY <3>2
    <3> QED
      BY <1>2, <2>5, <3>1, <3>3, <3>4, CallsMove DEF Expire
  <2>6. ASSUME NEW c \in Caller, Send(c) \/ Acked(c)
        PROVE  Matched'
    BY <1>2, <1>f, <2>6, SendMatched, AckedMatched
  <2>7. ASSUME NEW t \in Target, Handle(t)
        PROVE  Matched'
    BY <1>2, <2>7, ExecuteMatched, HandleAckMatched DEF Handle
  <2>8. CASE Flush
    BY <2>8 DEF Flush
  <2>9. ASSUME UNCHANGED cmdVars
        PROVE  Matched'
    BY <1>2, <2>9 DEF cmdVars, Matched, OneMessage, UsedWhileUnanswered, CommandsInObjects,
                      CommandsOfCalls, ExecutedOnce, Unanswered, Sent, Pending
  <2> QED
    BY <2>1, <2>2, <2>3, <2>4, <2>5, <2>6, <2>7, <2>8, <2>9 DEF Next, Proceed
<1> QED
  BY <1>1, <1>2

-----------------------------------------------------------------------------
(* Commands: the theorems                                                    *)

\* The inductive invariant of ownContextSendCmd and the targets' command handling.
THEOREM CommandInvariance ==
  ASSUME CommandParameters
  PROVE  Spec => []CommandInv
<1>1. CommandInv /\ [Next]_cmdVars => CommandInv'
  BY NextTyped, NextInOnePlace, NextMatched DEF CommandInv, CommandParameters
<1> QED
  BY <1>1, CommandInit, PTL DEF Spec

\* The type invariant of the commands.
THEOREM CommandTypes ==
  ASSUME CommandParameters
  PROVE  Spec => []TypeOK
<1>1. CommandInv => TypeOK
  BY DEF CommandInv
<1> QED
  BY <1>1, CommandInvariance, PTL

\* No command object of ownContextSendCmd leaks or has two users, whatever times
\* out, fails to be sent or is flushed.
THEOREM ObjectConservation ==
  ASSUME CommandParameters
  PROVE  Spec => []ObjectInOnePlace
<1>1. CommandInv => ObjectInOnePlace
  BY DEF CommandInv
<1> QED
  BY <1>1, CommandInvariance, PTL

\* What the invariant says of the answers: the event of an object whose call waits is
\* set when its own command was executed, once.
LEMMA MatchedAnswers ==
  ASSUME TypeOK, HeldIsObject, Matched
  PROVE  AckIsForCommand
<1>1. ASSUME NEW c \in Caller, call[c].at = "waitAck", call[c].obj \in cmd_ack_event
      PROVE  executed[call[c].cmd] = 1
  <2>1. call[c].obj \in CmdObject /\ Unanswered(call[c].obj)
    BY <1>1 DEF HeldIsObject, Unanswered
  <2> QED
    BY <1>1, <2>1 DEF Matched, CommandsInObjects
<1> QED
  BY <1>1 DEF AckIsForCommand, Matched, ExecutedOnce

\* An object that a target has or whose event is set is not free.
LEMMA MatchedFree ==
  ASSUME TypeOK, HeldIsObject, ObjectInOnePlace, IsFiniteSet(Caller), Matched
  PROVE  FreeObjectIsIdle
<1>1. ASSUME NEW i \in DOMAIN free_queue
      PROVE  ~Unanswered(free_queue[i]) /\ free_queue[i] \in CmdObject
  <2> DEFINE o == free_queue[i]
  <2>1. o \in CmdObject
    BY DEF TypeOK
  <2>2. Free(o) # 0
    BY <2>1, CountedNat
  <2>3. Free(o) + Pending(o) + Held(o) + Lost(o) = 1
    BY <2>1, Counted DEF ObjectInOnePlace, Held, Lost
  <2> HIDE DEF o
  <2>4. Pending(o) = 0 /\ Holders(o) = {}
    BY <2>1, <2>2, <2>3, CountedNat
  <2>5. ~Unanswered(o)
    BY <2>1, <2>4 DEF Matched, UsedWhileUnanswered, Holders
  <2> QED
    BY <2>1, <2>5 DEF o
<1>2. \A i \in DOMAIN free_queue, t \in Target : Occurrences(job_queue[t], free_queue[i]) = 0
  BY <1>1, Counted DEF Unanswered
<1> QED
  BY <1>1, <1>2 DEF FreeObjectIsIdle, Unanswered

\* As long as ownContextFlushCmdPendQueue is not called, no late acknowledgement is
\* taken for that of another command, and no command is executed twice ...
THEOREM AnswerSoundness ==
  ASSUME CommandParameters
  PROVE  Spec => []AckIsForCommand
<1>1. CommandInv => AckIsForCommand
  BY MatchedAnswers DEF CommandInv, AckIsForCommand
<1> QED
  BY <1>1, CommandInvariance, PTL

\* ... and nothing of an earlier command is left in an object that is used again.
THEOREM FreeIdle ==
  ASSUME CommandParameters
  PROVE  Spec => []FreeObjectIsIdle
<1>1. CommandInv => FreeObjectIsIdle
  BY MatchedFree DEF CommandInv, FreeObjectIsIdle, CommandParameters
<1> QED
  BY <1>1, CommandInvariance, PTL
\* The steps of the services are, of the commands, those of Commands.
LEMMA CommandsHold ==
  ServicesSpec => [](TypeOK /\ ObjectInOnePlace /\ AckIsForCommand /\ FreeObjectIsIdle)
<1>1. ServicesInit => Init
  BY DEF ServicesInit
<1>2. [ServicesNext]_servicesVars => [Next]_cmdVars
  BY DEF ServicesNext, servicesVars
<1>3. CommandParameters
  BY ServicesAssumption DEF CommandParameters
<1> QED
  BY <1>1, <1>2, <1>3, CommandTypes, ObjectConservation, AnswerSoundness, FreeIdle, PTL
     DEF ServicesSpec, Spec

-----------------------------------------------------------------------------
(* The queue of object descriptors                                           *)

\* The index behind the last descriptor, when one is put in and when one is taken.
LEMMA DescIndices ==
  ASSUME DescQ!TypeOK
  PROVE  /\ cur_wr = Ahead(ObjDescQueueDepth, cur_rd, count) /\ cur_wr \in 0 .. ObjDescQueueDepth - 1
         /\ count < ObjDescQueueDepth =>
              DescQ!Advance(cur_wr) = (cur_rd + (count + 1)) % ObjDescQueueDepth
         /\ count > 0 =>
              /\ DescQ!Advance(cur_rd) \in 0 .. ObjDescQueueDepth - 1
              /\ cur_wr = (DescQ!Advance(cur_rd) + (count - 1)) % ObjDescQueueDepth
<1> DEFINE N == ObjDescQueueDepth
<1>1. N \in Nat \ {0} /\ cur_rd \in 0 .. N - 1 /\ count \in 0 .. N
  BY CapacityAssumption DEF DescQ!TypeOK
<1>2. cur_wr = Ahead(N, cur_rd, count)
  BY DEF DescQ!TypeOK, Ahead
<1>3. DescQ!Advance(cur_wr) = Ahead(N, cur_wr, 1) /\ DescQ!Advance(cur_rd) = Ahead(N, cur_rd, 1)
  BY DEF DescQ!Advance, Ahead
<1> HIDE DEF N
<1>4. \A a \in 0 .. N - 1, k \in 0 .. N :
         /\ Ahead(N, a, k) = IF a + k < N THEN a + k ELSE a + k - N
         /\ Ahead(N, a, k) \in 0 .. N - 1
  BY <1>1, RingIndex
<1>5. cur_wr \in 0 .. N - 1 /\ 1 \in 0 .. N
  BY <1>1, <1>2, <1>4
<1>6. ASSUME count < N
      PROVE  Ahead(N, cur_wr, 1) = Ahead(N, cur_rd, count + 1)
  <2>1. count + 1 \in 0 .. N
    BY <1>1, <1>6
  <2>2. Ahead(N, cur_wr, 1) = IF cur_wr + 1 < N THEN cur_wr + 1 ELSE cur_wr + 1 - N
    BY <1>4, <1>5
  <2>3. Ahead(N, cur_rd, count + 1)
          = IF cur_rd + (count + 1) < N THEN cur_rd + (count + 1) ELSE cur_rd + (count + 1) - N
    BY <1>1, <1>4, <2>1
  <2>4. cur_wr = IF cur_rd + count < N THEN cur_rd + count ELSE cur_rd + count - N
    BY <1>1, <1>2, <1>4
  <2> QED
    BY <1>1, <1>6, <2>2, <2>3, <2>4
<1>7. ASSUME count > 0
      PROVE  Ahead(N, cur_rd, 1) \in 0 .. N - 1
             /\ cur_wr = Ahead(N, Ahead(N, cur_rd, 1), count - 1)
  <2> DEFINE r == Ahead(N, cur_rd, 1)
  <2>1. count - 1 \in 0 .. N
    BY <1>1, <1>7
  <2>2. r \in 0 .. N - 1 /\ r = IF cur_rd + 1 < N THEN cur_rd + 1 ELSE cur_rd + 1 - N
    BY <1>1, <1>4, <1>5
  <2> HIDE DEF r
  <2>3. Ahead(N, r, count - 1)
          = IF r + (count - 1) < N THEN r + (count - 1) ELSE r + (count - 1) - N
    BY <1>4, <2>1, <2>2
  <2>4. cur_wr = IF cur_rd + count < N THEN cur_rd + count ELSE cur_rd + count - N
    BY <1>1, <1>2, <1>4
  <2>5. cur_wr = Ahead(N, r, count - 1)
    BY <1>1, <1>7, <2>2, <2>3, <2>4
  <2> QED
    BY <2>2, <2>5 DEF r
<1> QED
  BY <1>2, <1>3, <1>5, <1>6, <1>7 DEF N, Ahead

\* ownTargetQueueObjDesc and ownTargetDequeueObjDesc keep the indices in step: the
\* writer is count places ahead of the reader.
LEMMA DescTyped ==
  ASSUME DescQ!TypeOK, [DescQ!Next]_descQueueVars
  PROVE  DescQ!TypeOK'
<1>1. /\ ObjDescQueueDepth \in Nat \ {0} /\ count \in 0 .. ObjDescQueueDepth
      /\ cur_wr \in 0 .. ObjDescQueueDepth - 1 /\ cur_rd \in 0 .. ObjDescQueueDepth - 1
  BY CapacityAssumption, DescIndices DEF DescQ!TypeOK
<1>2. ASSUME NEW d \in Desc, DescQ!Enqueue(d)
      PROVE  DescQ!TypeOK'
  <2>1. count < ObjDescQueueDepth /\ count' = count + 1 /\ cur_rd' = cur_rd
    BY <1>1, <1>2 DEF DescQ!Enqueue, DescQ!Full
  <2>2. cur_wr' = (cur_rd' + count') % ObjDescQueueDepth
    BY <1>2, <2>1, DescIndices DEF DescQ!Enqueue
  <2>3. queue_mem' \in [0 .. ObjDescQueueDepth - 1 -> Desc \cup {NoDesc}]
    BY <1>1, <1>2 DEF DescQ!Enqueue, DescQ!TypeOK
  <2> QED
    BY <1>1, <1>2, <2>1, <2>2, <2>3 DEF DescQ!Enqueue, DescQ!TypeOK
<1>3. ASSUME NEW u \in User, DescQ!Dequeue(u)
      PROVE  DescQ!TypeOK'
  <2>1. CASE count > 0
    <3>1. count' = count - 1 /\ cur_rd' = DescQ!Advance(cur_rd) /\ cur_wr' = cur_wr
      BY <1>1, <1>3, <2>1 DEF DescQ!Dequeue
    <3>2. cur_rd' \in 0 .. ObjDescQueueDepth - 1 /\ cur_wr' = (cur_rd' + count') % ObjDescQueueDepth
      BY <2>1, <3>1, DescIndices
    <3>3. queue_mem' = queue_mem /\ held' \in [User -> Desc \cup {NoDesc}]
      BY <1>1, <1>3, <2>1 DEF DescQ!Dequeue, DescQ!TypeOK
    <3> QED
      BY <1>1, <2>1, <3>1, <3>2, <3>3 DEF DescQ!TypeOK
  <2>2. CASE count = 0
    BY <1>1, <1>3, <2>2 DEF DescQ!Dequeue, DescQ!TypeOK
  <2> QED
    BY <1>1, <2>1, <2>2
<1>4. CASE UNCHANGED descQueueVars
  BY <1>4 DEF descQueueVars, DescQ!TypeOK
<1> QED
  BY <1>2, <1>3, <1>4 DEF DescQ!Next

\* What is in the ring is what the abstract queue holds, before a step and after it.
LEMMA DescContents ==
  ASSUME DescQ!TypeOK, DescQ!TypeOK'
  PROVE  /\ DescQ!Contents = Window(ObjDescQueueDepth, queue_mem, cur_rd, count)
         /\ DescQ!Contents' = Window(ObjDescQueueDepth, queue_mem', cur_rd', count')
<1>0. ObjDescQueueDepth \in Nat \ {0}
  BY CapacityAssumption
<1>1. \A i \in 1 .. count :
         (cur_rd + i - 1) % ObjDescQueueDepth = Ahead(ObjDescQueueDepth, cur_rd, i - 1)
  <2>1. \A i \in 1 .. count : cur_rd + i - 1 = cur_rd + (i - 1)
    BY <1>0 DEF DescQ!TypeOK
  <2> QED
    BY <2>1 DEF Ahead
<1>2. \A i \in 1 .. count' :
         (cur_rd' + i - 1) % ObjDescQueueDepth = Ahead(ObjDescQueueDepth, cur_rd', i - 1)
  <2>1. \A i \in 1 .. count' : cur_rd' + i - 1 = cur_rd' + (i - 1)
    BY <1>0 DEF DescQ!TypeOK
  <2> QED
    BY <2>1 DEF Ahead
<1> QED
  BY <1>1, <1>2 DEF DescQ!Contents, Window

\* A descriptor put in is appended, one taken out was the oldest: each step of the ring
\* is a step of the bounded first-in first-out queue, or changes nothing of it.
LEMMA DescFifo ==
  ASSUME DescQ!TypeOK, DescQ!TypeOK', [DescQ!Next]_descQueueVars
  PROVE  [DescQ!Fifo!Next]_DescQ!Fifo!fifoVars
<1> DEFINE N == ObjDescQueueDepth
<1>1. /\ N \in Nat \ {0} /\ count \in 0 .. N /\ cur_rd \in 0 .. N - 1
      /\ cur_wr = Ahead(N, cur_rd, count) /\ cur_wr \in 0 .. N - 1
      /\ queue_mem \in [0 .. N - 1 -> Desc \cup {NoDesc}]
  BY CapacityAssumption, DescIndices DEF DescQ!TypeOK
<1>2. /\ DescQ!Contents = Window(N, queue_mem, cur_rd, count)
      /\ DescQ!Contents' = Window(N, queue_mem', cur_rd', count')
  BY DescContents
<1>3. Len(DescQ!Contents) = count
  BY <1>1 DEF DescQ!Contents
<1>4. ASSUME NEW d \in Desc, DescQ!Enqueue(d)
      PROVE  DescQ!Fifo!Put(d)
  <2>1. count \in 0 .. N - 1 /\ count' = count + 1 /\ cur_rd' = cur_rd /\ held' = held
    BY <1>1, <1>4 DEF DescQ!Enqueue, DescQ!Full
  <2>2. queue_mem'[Ahead(N, cur_rd, count)] = d
        /\ SameBut(N, queue_mem, queue_mem', Ahead(N, cur_rd, count))
    BY <1>1, <1>4 DEF DescQ!Enqueue, SameBut
  <2>3. N \in Nat \ {0} /\ cur_rd \in 0 .. N - 1 /\ count \in 0 .. N - 1
    BY <1>1, <2>1
  <2> HIDE DEF N
  <2>4. Window(N, queue_mem', cur_rd, count + 1)
          = Append(Window(N, queue_mem, cur_rd, count), queue_mem'[Ahead(N, cur_rd, count)])
    BY ONLY <2>2, <2>3, WindowAppend, ZenonT(90)
  <2> QED
    BY <1>1, <1>2, <1>3, <2>1, <2>2, <2>4 DEF DescQ!Fifo!Put, N
<1>5. ASSUME NEW u \in User, DescQ!Dequeue(u)
      PROVE  DescQ!Fifo!Get(u) \/ DescQ!Fifo!Forget(u)
  <2>1. CASE count > 0
    <3>1. /\ count \in 1 .. N /\ count' = count - 1 /\ queue_mem' = queue_mem
          /\ cur_rd' = Ahead(N, cur_rd, 1) /\ held' = [held EXCEPT ![u] = queue_mem[cur_rd]]
      BY <1>1, <1>5, <2>1 DEF DescQ!Dequeue, DescQ!Advance, Ahead
    <3> HIDE DEF N
    <3>2. /\ Window(N, queue_mem, cur_rd, count) # <<>>
          /\ Head(Window(N, queue_mem, cur_rd, count)) = queue_mem[cur_rd]
          /\ Window(N, queue_mem, Ahead(N, cur_rd, 1), count - 1)
               = Tail(Window(N, queue_mem, cur_rd, count))
      BY <1>1, <3>1, WindowTail
    <3> QED
      BY <1>2, <3>1, <3>2 DEF DescQ!Fifo!Get
  <2>2. CASE count = 0
    <3>1. held' = [held EXCEPT ![u] = NoDesc] /\ UNCHANGED <<queue_mem, cur_rd, count>>
      BY <1>1, <1>5, <2>2 DEF DescQ!Dequeue
    <3> QED
      BY <3>1 DEF DescQ!Fifo!Forget, DescQ!Contents
  <2> QED
    BY <1>1, <2>1, <2>2
<1>6. CASE UNCHANGED descQueueVars
  BY <1>6 DEF descQueueVars, DescQ!Contents, DescQ!Fifo!fifoVars
<1> QED
  BY <1>4, <1>5, <1>6 DEF DescQ!Next, DescQ!Fifo!Next

\* ownObjDescQueueCreate: the empty ring is the empty queue.
LEMMA DescInit == DescQ!Init => DescQ!TypeOK /\ DescQ!Fifo!Init
BY CapacityAssumption DEF DescQ!Init, DescQ!TypeOK, DescQ!Fifo!Init, DescQ!Contents

\* The ring of descriptors implements the bounded first-in first-out queue.
THEOREM DescriptorQueue == ServicesSpec => []DescQ!TypeOK /\ DescQ!DescriptorsAreFifo
<1>1. ServicesInit => DescQ!Init
  BY DEF ServicesInit
<1>2. [ServicesNext]_servicesVars => [DescQ!Next]_descQueueVars
  BY DEF ServicesNext, servicesVars
<1>3. DescQ!TypeOK /\ [DescQ!Next]_descQueueVars => DescQ!TypeOK'
  BY DescTyped
<1>4. DescQ!TypeOK /\ DescQ!TypeOK' /\ [DescQ!Next]_descQueueVars
        => [DescQ!Fifo!Next]_DescQ!Fifo!fifoVars
  BY DescFifo
<1> QED
  BY <1>1, <1>2, <1>3, <1>4, DescInit, PTL DEF ServicesSpec, DescQ!DescriptorsAreFifo, DescQ!Fifo!Spec

-----------------------------------------------------------------------------
(* Streaming                                                                 *)

StreamEvent == {"START", "STOP", "DELETE", "STREAMING_EVENT"}

\* No event e is in the queue s behind an event f.
NotBehind(s, e, f) == \A i, j \in DOMAIN s : i < j /\ s[i] = f => s[j] # e

\* An event is put into the queue, or dropped, and one is taken from it.
LEMMA EventSent ==
  ASSUME NEW s \in Seq(StreamEvent), NEW e \in StreamEvent, NEW q,
         q = Append(s, e) \/ q = s
  PROVE  /\ q \in Seq(StreamEvent)
         /\ \A x : /\ Count(q, x) \in Nat /\ Count(s, x) \in Nat
                   /\ Count(s, x) <= Count(q, x)
                   /\ Count(q, x) <= Count(s, x) + (IF x = e THEN 1 ELSE 0)
         /\ \A x, y : NotBehind(s, x, y) /\ (x = e => Count(s, y) = 0) => NotBehind(q, x, y)
<1>1. CASE q = s
  <2>1. \A x : Count(s, x) \in Nat
    BY CountType
  <2> QED
    BY <1>1, <2>1
<1>2. CASE q = Append(s, e)
  <2>1. \A x : /\ Count(s, x) \in Nat
               /\ Count(s, x) = 0 <=> \A j \in DOMAIN s : s[j] # x
    BY CountType
  <2>2. \A x : Count(q, x) = Count(s, x) + (IF x = e THEN 1 ELSE 0)
    BY <1>2, CountAppend
  <2>3. /\ q \in Seq(StreamEvent) /\ DOMAIN q = 1 .. Len(s) + 1 /\ DOMAIN s = 1 .. Len(s)
        /\ q[Len(s) + 1] = e /\ \A j \in 1 .. Len(s) : q[j] = s[j]
        /\ Len(s) \in Nat
    BY <1>2
  <2>4. ASSUME NEW x, NEW y, NotBehind(s, x, y), x = e => Count(s, y) = 0
        PROVE  NotBehind(q, x, y)
    <3>1. SUFFICES ASSUME NEW i \in 1 .. Len(s) + 1, NEW j \in 1 .. Len(s) + 1,
                          i < j, q[i] = y
                   PROVE  q[j] # x
      BY <2>3 DEF NotBehind
    <3>2. i \in 1 .. Len(s) /\ s[i] = y
      BY <2>3, <3>1
    <3>3. CASE j \in 1 .. Len(s)
      BY <2>3, <2>4, <3>1, <3>2, <3>3 DEF NotBehind
    <3>4. CASE j = Len(s) + 1
      <4>1. Count(s, y) # 0
        BY <2>1, <2>3, <3>2
      <4> QED
        BY <2>3, <2>4, <3>4, <4>1
    <3> QED
      BY <2>3, <3>3, <3>4
  <2> QED
    BY <2>1, <2>2, <2>3, <2>4
<1> QED
  BY <1>1, <1>2

\* The oldest event leaves the queue; nothing it was in front of remains, if none was
\* allowed behind it.
LEMMA EventTaken ==
  ASSUME NEW s \in Seq(StreamEvent), s # <<>>
  PROVE  /\ Tail(s) \in Seq(StreamEvent) /\ Len(Tail(s)) = Len(s) - 1
         /\ \A x : /\ Count(Tail(s), x) \in Nat /\ Count(s, x) \in Nat
                   /\ Count(Tail(s), x) = Count(s, x) - (IF x = Head(s) THEN 1 ELSE 0)
         /\ \A x, y : NotBehind(s, x, y) => NotBehind(Tail(s), x, y)
         /\ \A x : NotBehind(s, x, Head(s)) => Count(Tail(s), x) = 0
<1> DEFINE q == Tail(s)
<1>1. /\ q \in Seq(StreamEvent) /\ Len(q) = Len(s) - 1 /\ Len(s) \in Nat /\ Len(s) > 0
      /\ DOMAIN s = 1 .. Len(s) /\ DOMAIN q = 1 .. Len(s) - 1
      /\ \A j \in 1 .. Len(s) - 1 : q[j] = s[j + 1]
      /\ s[1] = Head(s)
  OBVIOUS
<1>2. \A x : /\ Count(q, x) \in Nat /\ Count(s, x) \in Nat
             /\ Count(q, x) = 0 <=> \A j \in DOMAIN q : q[j] # x
  BY <1>1, CountType
<1>3. \A x : Count(q, x) = Count(s, x) - (IF x = Head(s) THEN 1 ELSE 0)
  BY CountTail
<1>4. ASSUME NEW x, NEW y, NotBehind(s, x, y)
      PROVE  NotBehind(q, x, y)
  <2>1. SUFFICES ASSUME NEW i \in 1 .. Len(s) - 1, NEW j \in 1 .. Len(s) - 1, i < j, q[i] = y
                 PROVE  q[j] # x
    BY <1>1 DEF NotBehind
  <2>2. i + 1 \in 1 .. Len(s) /\ j + 1 \in 1 .. Len(s) /\ i + 1 < j + 1
    BY <1>1, <2>1
  <2> QED
    BY <1>1, <1>4, <2>1, <2>2 DEF NotBehind
<1>5. ASSUME NEW x, NotBehind(s, x, Head(s))
      PROVE  Count(q, x) = 0
  <2>1. SUFFICES ASSUME NEW j \in 1 .. Len(s) - 1
                 PROVE  q[j] # x
    BY <1>1, <1>2
  <2>2. 1 \in 1 .. Len(s) /\ j + 1 \in 1 .. Len(s) /\ 1 < j + 1 /\ q[j] = s[j + 1]
    BY <1>1, <2>1
  <2> QED
    BY <1>1, <1>5, <2>2 DEF NotBehind
<1> QED
  BY <1>1, <1>2, <1>3, <1>4, <1>5

\* The parts of the type invariant.
StreamQueue == events \in Seq(StreamEvent) /\ Len(events) <= QueueSize
StreamBooleans ==
    {is_streaming, is_streaming_error, is_streaming_alloc, stop_done, delete_done,
     all_graph_completed, trigger_is_leaf, timed, appWaits, owed, lateStop} \subseteq BOOLEAN
StreamPlaces ==
    /\ state \in {"IDLE", "RUNNING"} /\ task \in {"none", "loop", "waitGraph", "failing", "gone"}
    /\ app \in {"idle", "stop", "release", "cancel", "released"}
    /\ graph_state \in {"VERIFIED", "RUNNING", "COMPLETED", "ABANDONED"}
    /\ lastStop \in {"none", "SUCCESS", "TIMEOUT"}
StreamNumbers ==
    /\ fresh \in Nat /\ past \in Nat /\ fresh + past <= Depth
    /\ pending \in Nat /\ hostSched \in Nat
    /\ starts \in 0 .. MaxStart /\ waits \in 0 .. MaxWait
StreamTyped == StreamQueue /\ StreamBooleans /\ StreamPlaces /\ StreamNumbers

\* The parts are the type invariant of Streaming, and stay so in the next state.
LEMMA StreamTypes ==
  (StreamTyped <=> Str!TypeOK) /\ (StreamTyped' <=> Str!TypeOK')
BY DEF StreamTyped, StreamQueue, StreamBooleans, StreamPlaces, StreamNumbers, Str!TypeOK, StreamEvent

\* What ownGraphScheduleGraph and ownCheckGraphCompleted do to the runs.
LEMMA RunsScheduled ==
  ASSUME StreamNumbers, NEW n \in Nat, Str!ScheduleGraph(n)
  PROVE  /\ fresh' \in Nat /\ pending' \in Nat /\ past' = past /\ fresh' + past' <= Depth
         /\ fresh' + pending' = fresh + pending + n
         /\ graph_state' \in {"RUNNING", graph_state}
         /\ all_graph_completed' \in BOOLEAN
         /\ n > 0 /\ fresh + past = 0 => ~all_graph_completed'
         /\ all_graph_completed' => all_graph_completed
<1> DEFINE total == n + pending
           free == Depth - (fresh + past)
           k == IF total < free THEN total ELSE free
<1>0. /\ Depth \in Nat \ {0} /\ fresh \in Nat /\ past \in Nat /\ pending \in Nat
      /\ fresh + past <= Depth
  BY ServicesAssumption DEF StreamNumbers
<1>1. /\ fresh' = fresh + k /\ pending' = total - k /\ past' = past
      /\ graph_state' = IF k > 0 THEN "RUNNING" ELSE graph_state
      /\ all_graph_completed' = (k = 0 /\ all_graph_completed)
  BY DEF Str!ScheduleGraph
<1>2. k \in Nat /\ k <= total /\ k <= free /\ (n > 0 /\ fresh + past = 0 => k # 0)
  BY <1>0
<1>3. all_graph_completed' \in BOOLEAN
  BY ONLY <1>1
<1>4. (k # 0 => ~all_graph_completed') /\ (all_graph_completed' => all_graph_completed)
  BY ONLY <1>1
<1> HIDE DEF k
<1> QED
  BY <1>0, <1>1, <1>2, <1>3, <1>4

\* What is completed leaves the pipeline, and the host is left to schedule what is
\* pending.
LEMMA RunsCompleted ==
  ASSUME StreamNumbers, NEW left, Str!Complete(left)
  PROVE  /\ hostSched' = pending /\ pending' = 0
         /\ graph_state' \in {"COMPLETED", "ABANDONED", graph_state}
         /\ all_graph_completed' \in BOOLEAN
         /\ all_graph_completed' => all_graph_completed \/ (left = 0 /\ pending = 0)
<1>1. all_graph_completed' = (all_graph_completed \/ (left = 0 /\ pending = 0))
  BY DEF Str!Complete
<1>2. /\ all_graph_completed' \in BOOLEAN
      /\ all_graph_completed' => all_graph_completed \/ (left = 0 /\ pending = 0)
  BY ONLY <1>1
<1> QED
  BY <1>2 DEF Str!Complete

USE DEF Str!optionVars, Str!graphVars, Str!hostVars, Str!taskVars, Str!appVars, Str!waitVars,
        Str!Others, Str!NextEvent, Str!Ends, Str!StopReturns, Str!HostIdle

\* What a step does to the queue of events.
QueueStep ==
    \/ events' = events
    \/ events # <<>> /\ events' = Tail(events)
    \/ \E e \in StreamEvent : events' = Append(events, e) /\ Len(events) < QueueSize
\* Each action of the task, the host or the application puts in or takes out at most
\* one event.
LEMMA QueueSteps ==
  ASSUME [Str!Next]_streamVars
  PROVE  QueueStep
<1> USE DEF QueueStep, StreamEvent, Str!Send
<1>1. CASE Str!TaskStarts
  BY <1>1 DEF Str!TaskStarts
<1>2. CASE Str!TaskIsStopped
  BY <1>2 DEF Str!TaskIsStopped
<1>3. CASE Str!TaskIgnores
  BY <1>3 DEF Str!TaskIgnores
<1>4. CASE Str!TaskReschedules
  BY <1>4 DEF Str!TaskReschedules
<1>5. CASE Str!TaskStops
  BY <1>5 DEF Str!TaskStops
<1>6. CASE Str!TaskDeleted
  BY <1>6 DEF Str!TaskDeleted
<1>7. CASE Str!TriggerCompletes
  BY <1>7 DEF Str!TriggerCompletes
<1>8. CASE Str!HostSendsEvent
  BY <1>8 DEF Str!HostSendsEvent
<1>9. CASE Str!Start
  BY <1>9 DEF Str!Start
<1>10. CASE Str!Stop
  BY <1>10 DEF Str!Stop
<1>11. CASE Str!Release
  BY <1>11 DEF Str!Release
<1>12. CASE Str!TaskWaits
  BY <1>12 DEF Str!TaskWaits
<1>13. CASE Str!TaskWaitExpires
  BY <1>13 DEF Str!TaskWaitExpires
<1>14. CASE Str!TaskFails
  BY <1>14 DEF Str!TaskFails
<1>15. CASE Str!TaskExpires
  BY <1>15 DEF Str!TaskExpires
<1>16. CASE Str!TriggerCompletesRun
  BY <1>16 DEF Str!TriggerCompletesRun
<1>17. CASE Str!RunCompletes
  BY <1>17 DEF Str!RunCompletes
<1>18. CASE Str!HostReschedules
  BY <1>18 DEF Str!HostReschedules
<1>19. CASE Str!StopIsDone
  BY <1>19 DEF Str!StopIsDone
<1>20. CASE Str!StopExpires
  BY <1>20 DEF Str!StopExpires
<1>21. CASE Str!ReleaseReturns
  BY <1>21 DEF Str!ReleaseReturns
<1>22. CASE Str!WaitReturns
  BY <1>22 DEF Str!WaitReturns
<1>23. CASE Str!Wait
  BY <1>23 DEF Str!Wait
<1>24. ASSUME NEW leaf \in BOOLEAN, NEW finite \in BOOLEAN, Str!Enable(leaf, finite)
      PROVE  QueueStep
  BY <1>24 DEF Str!Enable
<1>25. CASE UNCHANGED streamVars
  BY <1>25 DEF streamVars
<1> QED
  BY <1>1, <1>2, <1>3, <1>4, <1>5, <1>6, <1>7, <1>8, <1>9, <1>10, <1>11, <1>12, <1>13,
     <1>14, <1>15, <1>16, <1>17, <1>18, <1>19, <1>20, <1>21, <1>22, <1>23, <1>24, <1>25
     DEF Str!Next, Str!TaskNext, Str!HostNext, Str!AppReturns

\* The queue holds events of streaming, and no more than it has room for.
LEMMA StreamQueueKept ==
  ASSUME StreamQueue, QueueStep
  PROVE  StreamQueue'
<1>0. QueueSize \in Nat
  BY ServicesAssumption
<1>1. CASE events' = events
  BY <1>1 DEF StreamQueue
<1>2. CASE events # <<>> /\ events' = Tail(events)
  BY <1>0, <1>2 DEF StreamQueue
<1>3. ASSUME NEW e \in StreamEvent, events' = Append(events, e), Len(events) < QueueSize
      PROVE  StreamQueue'
  BY <1>0, <1>3 DEF StreamQueue
<1> QED
  BY <1>1, <1>2, <1>3 DEF QueueStep

\* The flags stay Boolean.
LEMMA StreamBooleansKept ==
  ASSUME StreamTyped, [Str!Next]_streamVars
  PROVE  StreamBooleans'
<1> USE DEF StreamTyped, StreamBooleans
<1>1. CASE Str!TaskStarts
  BY <1>1, RunsScheduled DEF Str!TaskStarts, StreamNumbers
<1>2. CASE Str!TaskIsStopped
  BY <1>2 DEF Str!TaskIsStopped
<1>3. CASE Str!TaskIgnores
  BY <1>3 DEF Str!TaskIgnores
<1>4. CASE Str!TaskReschedules
  BY <1>4, RunsScheduled DEF Str!TaskReschedules, StreamNumbers
<1>5. CASE Str!TaskStops
  BY <1>5 DEF Str!TaskStops
<1>6. CASE Str!TaskWaits
  BY <1>6 DEF Str!TaskWaits
<1>7. CASE Str!TaskWaitExpires
  BY <1>7 DEF Str!TaskWaitExpires
<1>8. CASE Str!TaskDeleted
  BY <1>8 DEF Str!TaskDeleted
<1>9. CASE Str!TaskFails
  BY <1>9 DEF Str!TaskFails
<1>10. CASE Str!TaskExpires
  BY <1>10 DEF Str!TaskExpires
<1>11. CASE Str!TriggerCompletes
  BY <1>11 DEF Str!TriggerCompletes
<1>12. CASE Str!TriggerCompletesRun
  BY <1>12, RunsCompleted DEF Str!TriggerCompletesRun, StreamNumbers
<1>13. CASE Str!RunCompletes
  BY <1>13, RunsCompleted DEF Str!RunCompletes, StreamNumbers
<1>14. CASE Str!HostReschedules
  BY <1>14, RunsScheduled DEF Str!HostReschedules, StreamNumbers
<1>15. CASE Str!HostSendsEvent
  BY <1>15 DEF Str!HostSendsEvent
<1>16. CASE Str!StopIsDone
  BY <1>16 DEF Str!StopIsDone
<1>17. CASE Str!StopExpires
  BY <1>17 DEF Str!StopExpires
<1>18. CASE Str!ReleaseReturns
  BY <1>18 DEF Str!ReleaseReturns
<1>19. CASE Str!WaitReturns
  BY <1>19 DEF Str!WaitReturns
<1>20. CASE Str!Start
  BY <1>20 DEF Str!Start
<1>21. CASE Str!Stop
  BY <1>21 DEF Str!Stop
<1>22. CASE Str!Release
  BY <1>22 DEF Str!Release
<1>23. CASE Str!Wait
  BY <1>23 DEF Str!Wait
<1>24. ASSUME NEW leaf \in BOOLEAN, NEW finite \in BOOLEAN, Str!Enable(leaf, finite)
      PROVE  StreamBooleans'
  BY <1>24 DEF Str!Enable
<1>25. CASE UNCHANGED streamVars
  BY <1>25 DEF streamVars
<1> QED
  BY <1>1, <1>2, <1>3, <1>4, <1>5, <1>6, <1>7, <1>8, <1>9, <1>10, <1>11, <1>12, <1>13,
     <1>14, <1>15, <1>16, <1>17, <1>18, <1>19, <1>20, <1>21, <1>22, <1>23, <1>24, <1>25
     DEF Str!Next, Str!TaskNext, Str!HostNext, Str!AppReturns

\* The task, the application and the graph stay in the places they know.
LEMMA StreamPlacesKept ==
  ASSUME StreamTyped, [Str!Next]_streamVars
  PROVE  StreamPlaces'
<1> USE DEF StreamTyped, StreamPlaces
<1>1. CASE Str!TaskStarts
  BY <1>1, RunsScheduled DEF Str!TaskStarts, StreamNumbers
<1>2. CASE Str!TaskIsStopped
  BY <1>2 DEF Str!TaskIsStopped
<1>3. CASE Str!TaskIgnores
  BY <1>3 DEF Str!TaskIgnores
<1>4. CASE Str!TaskReschedules
  BY <1>4, RunsScheduled DEF Str!TaskReschedules, StreamNumbers
<1>5. CASE Str!TaskStops
  BY <1>5 DEF Str!TaskStops
<1>6. CASE Str!TaskWaits
  BY <1>6 DEF Str!TaskWaits
<1>7. CASE Str!TaskWaitExpires
  BY <1>7 DEF Str!TaskWaitExpires
<1>8. CASE Str!TaskDeleted
  BY <1>8 DEF Str!TaskDeleted
<1>9. CASE Str!TaskFails
  BY <1>9 DEF Str!TaskFails
<1>10. CASE Str!TaskExpires
  BY <1>10 DEF Str!TaskExpires
<1>11. CASE Str!TriggerCompletes
  BY <1>11 DEF Str!TriggerCompletes
<1>12. CASE Str!TriggerCompletesRun
  BY <1>12, RunsCompleted DEF Str!TriggerCompletesRun, StreamNumbers
<1>13. CASE Str!RunCompletes
  BY <1>13, RunsCompleted DEF Str!RunCompletes, StreamNumbers
<1>14. CASE Str!HostReschedules
  BY <1>14, RunsScheduled DEF Str!HostReschedules, StreamNumbers
<1>15. CASE Str!HostSendsEvent
  BY <1>15 DEF Str!HostSendsEvent
<1>16. CASE Str!StopIsDone
  BY <1>16 DEF Str!StopIsDone
<1>17. CASE Str!StopExpires
  BY <1>17 DEF Str!StopExpires
<1>18. CASE Str!ReleaseReturns
  BY <1>18 DEF Str!ReleaseReturns
<1>19. CASE Str!WaitReturns
  BY <1>19 DEF Str!WaitReturns
<1>20. CASE Str!Start
  BY <1>20 DEF Str!Start
<1>21. CASE Str!Stop
  BY <1>21 DEF Str!Stop
<1>22. CASE Str!Release
  BY <1>22 DEF Str!Release
<1>23. CASE Str!Wait
  BY <1>23 DEF Str!Wait
<1>24. ASSUME NEW leaf \in BOOLEAN, NEW finite \in BOOLEAN, Str!Enable(leaf, finite)
      PROVE  StreamPlaces'
  BY <1>24 DEF Str!Enable
<1>25. CASE UNCHANGED streamVars
  BY <1>25 DEF streamVars
<1> QED
  BY <1>1, <1>2, <1>3, <1>4, <1>5, <1>6, <1>7, <1>8, <1>9, <1>10, <1>11, <1>12, <1>13,
     <1>14, <1>15, <1>16, <1>17, <1>18, <1>19, <1>20, <1>21, <1>22, <1>23, <1>24, <1>25
     DEF Str!Next, Str!TaskNext, Str!HostNext, Str!AppReturns

\* The runs fit into the pipeline, and the calls are counted.
LEMMA StreamNumbersKept ==
  ASSUME StreamTyped, [Str!Next]_streamVars
  PROVE  StreamNumbers'
<1>0. MaxStart \in Nat /\ MaxWait \in Nat /\ Depth \in Nat
  BY ServicesAssumption
<1> USE DEF StreamTyped, StreamNumbers
<1>1. CASE Str!TaskStarts
  BY <1>1, RunsScheduled DEF Str!TaskStarts
<1>2. CASE Str!TaskIsStopped
  BY <1>2 DEF Str!TaskIsStopped
<1>3. CASE Str!TaskIgnores
  BY <1>3 DEF Str!TaskIgnores
<1>4. CASE Str!TaskReschedules
  BY <1>4, RunsScheduled DEF Str!TaskReschedules
<1>5. CASE Str!TaskStops
  BY <1>5 DEF Str!TaskStops
<1>6. CASE Str!TaskWaits
  BY <1>6 DEF Str!TaskWaits
<1>7. CASE Str!TaskWaitExpires
  BY <1>7 DEF Str!TaskWaitExpires
<1>8. CASE Str!TaskDeleted
  BY <1>8 DEF Str!TaskDeleted
<1>9. CASE Str!TaskFails
  BY <1>9 DEF Str!TaskFails
<1>10. CASE Str!TaskExpires
  BY <1>10 DEF Str!TaskExpires
<1>11. CASE Str!TriggerCompletes
  BY <1>11 DEF Str!TriggerCompletes
<1>12. CASE Str!TriggerCompletesRun
  <2>1. hostSched' = pending /\ pending' = 0
    BY <1>12, RunsCompleted DEF Str!TriggerCompletesRun
  <2> QED
    BY <1>0, <1>12, <2>1 DEF Str!TriggerCompletesRun
<1>13. CASE Str!RunCompletes
  <2>1. hostSched' = pending /\ pending' = 0
    BY <1>13, RunsCompleted DEF Str!RunCompletes
  <2> QED
    BY <1>0, <1>13, <2>1 DEF Str!RunCompletes
<1>14. CASE Str!HostReschedules
  BY <1>14, RunsScheduled DEF Str!HostReschedules
<1>15. CASE Str!HostSendsEvent
  BY <1>15 DEF Str!HostSendsEvent
<1>16. CASE Str!StopIsDone
  BY <1>16 DEF Str!StopIsDone
<1>17. CASE Str!StopExpires
  BY <1>17 DEF Str!StopExpires
<1>18. CASE Str!ReleaseReturns
  BY <1>18 DEF Str!ReleaseReturns
<1>19. CASE Str!WaitReturns
  BY <1>19 DEF Str!WaitReturns
<1>20. CASE Str!Start
  BY <1>0, <1>20 DEF Str!Start
<1>21. CASE Str!Stop
  BY <1>21 DEF Str!Stop
<1>22. CASE Str!Release
  BY <1>22 DEF Str!Release
<1>23. CASE Str!Wait
  BY <1>0, <1>23 DEF Str!Wait
<1>24. ASSUME NEW leaf \in BOOLEAN, NEW finite \in BOOLEAN, Str!Enable(leaf, finite)
      PROVE  StreamNumbers'
  BY <1>24 DEF Str!Enable
<1>25. CASE UNCHANGED streamVars
  BY <1>25 DEF streamVars
<1> QED
  BY <1>1, <1>2, <1>3, <1>4, <1>5, <1>6, <1>7, <1>8, <1>9, <1>10, <1>11, <1>12, <1>13,
     <1>14, <1>15, <1>16, <1>17, <1>18, <1>19, <1>20, <1>21, <1>22, <1>23, <1>24, <1>25
     DEF Str!Next, Str!TaskNext, Str!HostNext, Str!AppReturns
-----------------------------------------------------------------------------

\* No run is under way or pending, and none will begin by itself.
GraphIdle == fresh + past = 0 /\ pending = 0 /\ hostSched = 0
Quiet == GraphIdle /\ state = "IDLE" /\ Count(events, "START") = 0

\* The task and the calls of the application, at any time.
TaskInv ==
    /\ is_streaming_error => task \in {"failing", "gone"}
    /\ ~is_streaming_alloc => /\ task = "none" /\ ~is_streaming /\ app = "idle"
                              /\ ~trigger_is_leaf
    /\ owed => trigger_is_leaf
    /\ app = "stop" => is_streaming

\* The event of a completed graph is set only while the graph has nothing to do.
CompletedInv == all_graph_completed => GraphIdle

\* What holds until a call of vxStopGraphStreaming times out or the task fails:
\* START and STOP arrive in turns, and the graph runs only in between.
Undisturbed ==
    /\ ~is_streaming => Quiet /\ Count(events, "STOP") = 0 /\ task # "waitGraph"
    /\ is_streaming =>
          /\ Count(events, "START") <= 1 /\ Count(events, "STOP") <= 1
          /\ state = "RUNNING" => Count(events, "START") = 0
          /\ NotBehind(events, "START", "STOP")
          /\ task = "waitGraph" => /\ state = "IDLE"
                                   /\ Count(events, "START") = 0 /\ Count(events, "STOP") = 0
          /\ app # "stop" => Count(events, "STOP") = 0 /\ task # "waitGraph"
    /\ state = "IDLE" /\ task \in {"none", "loop"} => GraphIdle
    /\ app = "stop" /\ stop_done => Quiet /\ Count(events, "STOP") = 0 /\ task # "waitGraph"

\* A stop that succeeded lasts until the next start.
StopInv == lastStop = "SUCCESS" => Quiet /\ ~is_streaming

\* What is left of a round of streaming is in the queue before the next one begins.
RoundInv ==
    /\ task \in {"none", "loop", "waitGraph"} => NotBehind(events, "STREAMING_EVENT", "START")
    /\ fresh + pending + hostSched
         + (IF state = "RUNNING" THEN Count(events, "STREAMING_EVENT") ELSE 0) <= 1

StreamInv ==
    /\ StreamTyped /\ TaskInv /\ CompletedInv
    /\ ~lateStop /\ ~is_streaming_error => Undisturbed
    /\ ~lateStop => StopInv
    /\ ~lateStop /\ ~trigger_is_leaf => RoundInv

\* The counts of the events, when one was put into the queue or taken from it.
LEMMA CountsSent ==
  ASSUME StreamQueue, NEW e \in StreamEvent, events' = Str!Send(e)
  PROVE  /\ \A x : /\ Count(events', x) \in Nat /\ Count(events, x) \in Nat
                   /\ Count(events, x) <= Count(events', x)
                   /\ Count(events', x) <= Count(events, x) + (IF x = e THEN 1 ELSE 0)
         /\ \A x, y : NotBehind(events, x, y) /\ (x = e => Count(events, y) = 0)
                        => NotBehind(events', x, y)
<1>1. events \in Seq(StreamEvent)
  BY DEF StreamQueue
<1>2. PICK q : q = events'
  OBVIOUS
<1>3. q = Append(events, e) \/ q = events
  BY <1>2 DEF Str!Send
<1>4. /\ \A x : /\ Count(q, x) \in Nat /\ Count(events, x) \in Nat
                /\ Count(events, x) <= Count(q, x)
                /\ Count(q, x) <= Count(events, x) + (IF x = e THEN 1 ELSE 0)
      /\ \A x, y : NotBehind(events, x, y) /\ (x = e => Count(events, y) = 0)
                     => NotBehind(q, x, y)
  BY <1>1, <1>3, EventSent
<1> QED
  BY <1>2, <1>4

\* An event that leaves the queue is counted no more, all others as before.
LEMMA CountsTaken ==
  ASSUME StreamQueue, events # <<>>, events' = Tail(events)
  PROVE  /\ \A x : /\ Count(events', x) \in Nat /\ Count(events, x) \in Nat
                   /\ Count(events', x) = Count(events, x) - (IF x = Head(events) THEN 1 ELSE 0)
         /\ \A x, y : NotBehind(events, x, y) => NotBehind(events', x, y)
         /\ \A x : NotBehind(events, x, Head(events)) => Count(events', x) = 0
<1>1. events \in Seq(StreamEvent)
  BY DEF StreamQueue
<1>2. /\ \A x : /\ Count(Tail(events), x) \in Nat /\ Count(events, x) \in Nat
                /\ Count(Tail(events), x)
                     = Count(events, x) - (IF x = Head(events) THEN 1 ELSE 0)
      /\ \A x, y : NotBehind(events, x, y) => NotBehind(Tail(events), x, y)
      /\ \A x : NotBehind(events, x, Head(events)) => Count(Tail(events), x) = 0
  BY <1>1, EventTaken
<1> QED
  BY <1>2

\* The part of the invariant that speaks of the task and the calls holds after a step.
LEMMA TaskKept ==
  ASSUME StreamTyped, TaskInv, [Str!Next]_streamVars
  PROVE  TaskInv'
<1> USE DEF StreamTyped, StreamPlaces, TaskInv
<1>1. CASE Str!TaskStarts
  BY <1>1 DEF Str!TaskStarts
<1>2. CASE Str!TaskIsStopped
  BY <1>2 DEF Str!TaskIsStopped
<1>3. CASE Str!TaskIgnores
  BY <1>3 DEF Str!TaskIgnores
<1>4. CASE Str!TaskReschedules
  BY <1>4 DEF Str!TaskReschedules
<1>5. CASE Str!TaskStops
  BY <1>5 DEF Str!TaskStops
<1>6. CASE Str!TaskWaits
  BY <1>6 DEF Str!TaskWaits
<1>7. CASE Str!TaskWaitExpires
  BY <1>7 DEF Str!TaskWaitExpires
<1>8. CASE Str!TaskDeleted
  BY <1>8 DEF Str!TaskDeleted
<1>9. CASE Str!TaskFails
  BY <1>9 DEF Str!TaskFails
<1>10. CASE Str!TaskExpires
  BY <1>10 DEF Str!TaskExpires
<1>11. CASE Str!TriggerCompletes
  BY <1>11 DEF Str!TriggerCompletes
<1>12. CASE Str!TriggerCompletesRun
  BY <1>12 DEF Str!TriggerCompletesRun
<1>13. CASE Str!RunCompletes
  BY <1>13 DEF Str!RunCompletes
<1>14. CASE Str!HostReschedules
  BY <1>14 DEF Str!HostReschedules
<1>15. CASE Str!HostSendsEvent
  BY <1>15 DEF Str!HostSendsEvent
<1>16. CASE Str!StopIsDone
  BY <1>16 DEF Str!StopIsDone
<1>17. CASE Str!StopExpires
  BY <1>17 DEF Str!StopExpires
<1>18. CASE Str!ReleaseReturns
  BY <1>18 DEF Str!ReleaseReturns
<1>19. CASE Str!WaitReturns
  BY <1>19 DEF Str!WaitReturns
<1>20. CASE Str!Start
  BY <1>20 DEF Str!Start
<1>21. CASE Str!Stop
  BY <1>21 DEF Str!Stop
<1>22. CASE Str!Release
  BY <1>22 DEF Str!Release
<1>23. CASE Str!Wait
  BY <1>23 DEF Str!Wait
<1>24. ASSUME NEW leaf \in BOOLEAN, NEW finite \in BOOLEAN, Str!Enable(leaf, finite)
      PROVE  TaskInv'
  BY <1>24 DEF Str!Enable
<1>25. CASE UNCHANGED streamVars
  BY <1>25 DEF streamVars
<1> QED
  BY <1>1, <1>2, <1>3, <1>4, <1>5, <1>6, <1>7, <1>8, <1>9, <1>10, <1>11, <1>12, <1>13,
     <1>14, <1>15, <1>16, <1>17, <1>18, <1>19, <1>20, <1>21, <1>22, <1>23, <1>24, <1>25
     DEF Str!Next, Str!TaskNext, Str!HostNext, Str!AppReturns

\* all_graph_completed is cleared with the first run and set with the last.
LEMMA CompletedKept ==
  ASSUME StreamTyped, CompletedInv, [Str!Next]_streamVars
  PROVE  CompletedInv'
<1> USE DEF StreamTyped, StreamNumbers, CompletedInv, GraphIdle
<1>1. CASE Str!TaskStarts
  <2>1. CASE Str!ScheduleGraph(1) /\ UNCHANGED Str!hostVars
    BY <2>1, RunsScheduled
  <2>2. CASE UNCHANGED <<Str!graphVars, Str!hostVars>>
    BY <2>2
  <2> QED
    BY <1>1, <2>1, <2>2 DEF Str!TaskStarts
<1>2. CASE Str!TaskIsStopped
  BY <1>2 DEF Str!TaskIsStopped
<1>3. CASE Str!TaskIgnores
  BY <1>3 DEF Str!TaskIgnores
<1>4. CASE Str!TaskReschedules
  BY <1>4, RunsScheduled DEF Str!TaskReschedules
<1>5. CASE Str!TaskStops
  BY <1>5 DEF Str!TaskStops
<1>6. CASE Str!TaskWaits
  BY <1>6 DEF Str!TaskWaits
<1>7. CASE Str!TaskWaitExpires
  BY <1>7 DEF Str!TaskWaitExpires
<1>8. CASE Str!TaskDeleted
  BY <1>8 DEF Str!TaskDeleted
<1>9. CASE Str!TaskFails
  BY <1>9 DEF Str!TaskFails
<1>10. CASE Str!TaskExpires
  BY <1>10 DEF Str!TaskExpires
<1>11. CASE Str!TriggerCompletes
  BY <1>11 DEF Str!TriggerCompletes
<1>12. CASE Str!TriggerCompletesRun
  BY <1>12, RunsCompleted DEF Str!TriggerCompletesRun
<1>13. CASE Str!RunCompletes
  BY <1>13, RunsCompleted DEF Str!RunCompletes
<1>14. CASE Str!HostReschedules
  BY <1>14, RunsScheduled DEF Str!HostReschedules
<1>15. CASE Str!HostSendsEvent
  BY <1>15 DEF Str!HostSendsEvent
<1>16. CASE Str!StopIsDone
  BY <1>16 DEF Str!StopIsDone
<1>17. CASE Str!StopExpires
  BY <1>17 DEF Str!StopExpires
<1>18. CASE Str!ReleaseReturns
  BY <1>18 DEF Str!ReleaseReturns
<1>19. CASE Str!WaitReturns
  BY <1>19 DEF Str!WaitReturns
<1>20. CASE Str!Start
  BY <1>20 DEF Str!Start
<1>21. CASE Str!Stop
  BY <1>21 DEF Str!Stop
<1>22. CASE Str!Release
  BY <1>22 DEF Str!Release
<1>23. CASE Str!Wait
  BY <1>23 DEF Str!Wait
<1>24. ASSUME NEW leaf \in BOOLEAN, NEW finite \in BOOLEAN, Str!Enable(leaf, finite)
      PROVE  CompletedInv'
  BY <1>24 DEF Str!Enable
<1>25. CASE UNCHANGED streamVars
  BY <1>25 DEF streamVars
<1> QED
  BY <1>1, <1>2, <1>3, <1>4, <1>5, <1>6, <1>7, <1>8, <1>9, <1>10, <1>11, <1>12, <1>13,
     <1>14, <1>15, <1>16, <1>17, <1>18, <1>19, <1>20, <1>21, <1>22, <1>23, <1>24, <1>25
     DEF Str!Next, Str!TaskNext, Str!HostNext, Str!AppReturns


\* What a step does to the runs, as far as the task is concerned: only the task sets
\* off an idle graph.
LEMMA IdleStays ==
  ASSUME StreamTyped, GraphIdle, [Str!Next]_streamVars
  PROVE  GraphIdle' \/ (task = "loop" /\ task' = "loop" /\ state' = "RUNNING")
<1> USE DEF StreamTyped, StreamNumbers, GraphIdle
<1>1. CASE Str!TaskStarts
  BY <1>1 DEF Str!TaskStarts
<1>2. CASE Str!TaskIsStopped
  BY <1>2 DEF Str!TaskIsStopped
<1>3. CASE Str!TaskIgnores
  BY <1>3 DEF Str!TaskIgnores
<1>4. CASE Str!TaskReschedules
  BY <1>4 DEF Str!TaskReschedules
<1>5. CASE Str!TaskStops
  BY <1>5 DEF Str!TaskStops
<1>6. CASE Str!TaskWaits
  BY <1>6 DEF Str!TaskWaits
<1>7. CASE Str!TaskWaitExpires
  BY <1>7 DEF Str!TaskWaitExpires
<1>8. CASE Str!TaskDeleted
  BY <1>8 DEF Str!TaskDeleted
<1>9. CASE Str!TaskFails
  BY <1>9 DEF Str!TaskFails
<1>10. CASE Str!TaskExpires
  BY <1>10 DEF Str!TaskExpires
<1>11. CASE Str!TriggerCompletes
  BY <1>11 DEF Str!TriggerCompletes
<1>12. CASE Str!TriggerCompletesRun
  BY <1>12 DEF Str!TriggerCompletesRun
<1>13. CASE Str!RunCompletes
  BY <1>13 DEF Str!RunCompletes
<1>14. CASE Str!HostReschedules
  BY <1>14 DEF Str!HostReschedules
<1>15. CASE Str!HostSendsEvent
  BY <1>15 DEF Str!HostSendsEvent
<1>16. CASE Str!StopIsDone
  BY <1>16 DEF Str!StopIsDone
<1>17. CASE Str!StopExpires
  BY <1>17 DEF Str!StopExpires
<1>18. CASE Str!ReleaseReturns
  BY <1>18 DEF Str!ReleaseReturns
<1>19. CASE Str!WaitReturns
  BY <1>19 DEF Str!WaitReturns
<1>20. CASE Str!Start
  BY <1>20 DEF Str!Start
<1>21. CASE Str!Stop
  BY <1>21 DEF Str!Stop
<1>22. CASE Str!Release
  BY <1>22 DEF Str!Release
<1>23. CASE Str!Wait
  BY <1>23 DEF Str!Wait
<1>24. ASSUME NEW leaf \in BOOLEAN, NEW finite \in BOOLEAN, Str!Enable(leaf, finite)
      PROVE  GraphIdle' \/ (task = "loop" /\ task' = "loop" /\ state' = "RUNNING")
  BY <1>24 DEF Str!Enable
<1>25. CASE UNCHANGED streamVars
  BY <1>25 DEF streamVars
<1> QED
  BY <1>1, <1>2, <1>3, <1>4, <1>5, <1>6, <1>7, <1>8, <1>9, <1>10, <1>11, <1>12, <1>13,
     <1>14, <1>15, <1>16, <1>17, <1>18, <1>19, <1>20, <1>21, <1>22, <1>23, <1>24, <1>25
     DEF Str!Next, Str!TaskNext, Str!HostNext, Str!AppReturns

\* All an action of the task needs to know of the queue it takes an event from.
LEMMA TakenFacts ==
  ASSUME StreamQueue, NEW e, Str!NextEvent(e)
  PROVE  /\ \A x \in StreamEvent : Count(events, x) \in Nat /\ Count(events', x) \in Nat
         /\ Count(events', "START") = Count(events, "START") - (IF e = "START" THEN 1 ELSE 0)
         /\ Count(events', "STOP") = Count(events, "STOP") - (IF e = "STOP" THEN 1 ELSE 0)
         /\ Count(events', "STREAMING_EVENT")
              = Count(events, "STREAMING_EVENT") - (IF e = "STREAMING_EVENT" THEN 1 ELSE 0)
         /\ NotBehind(events, "START", "STOP") =>
               NotBehind(events', "START", "STOP") /\ (e = "STOP" => Count(events', "START") = 0)
         /\ NotBehind(events, "STREAMING_EVENT", "START") =>
               /\ NotBehind(events', "STREAMING_EVENT", "START")
               /\ e = "START" => Count(events', "STREAMING_EVENT") = 0
<1>1. events # <<>> /\ events' = Tail(events) /\ Head(events) = e
  OBVIOUS
<1>2. /\ \A x : /\ Count(events', x) \in Nat /\ Count(events, x) \in Nat
                /\ Count(events', x) = Count(events, x) - (IF x = Head(events) THEN 1 ELSE 0)
      /\ \A x, y : NotBehind(events, x, y) => NotBehind(events', x, y)
      /\ \A x : NotBehind(events, x, Head(events)) => Count(events', x) = 0
  BY <1>1, CountsTaken
<1> QED
  BY <1>1, <1>2

\* All an action needs to know of the queue it puts an event into.
LEMMA SentFacts ==
  ASSUME StreamQueue, NEW e \in StreamEvent, events' = Str!Send(e)
  PROVE  /\ \A x \in StreamEvent : Count(events, x) \in Nat /\ Count(events', x) \in Nat
         /\ e # "START" => Count(events', "START") = Count(events, "START")
         /\ e # "STOP" => Count(events', "STOP") = Count(events, "STOP")
         /\ e # "STREAMING_EVENT" =>
               Count(events', "STREAMING_EVENT") = Count(events, "STREAMING_EVENT")
         /\ Count(events', e) <= Count(events, e) + 1
         /\ NotBehind(events, "START", "STOP") /\ (e = "START" => Count(events, "STOP") = 0)
               => NotBehind(events', "START", "STOP")
         /\ NotBehind(events, "STREAMING_EVENT", "START")
               /\ (e = "STREAMING_EVENT" => Count(events, "START") = 0)
               => NotBehind(events', "STREAMING_EVENT", "START")
<1>1. \A x : /\ Count(events', x) \in Nat /\ Count(events, x) \in Nat
            /\ Count(events, x) <= Count(events', x)
            /\ Count(events', x) <= Count(events, x) + (IF x = e THEN 1 ELSE 0)
  BY CountsSent
<1>2. \A x, y : NotBehind(events, x, y) /\ (x = e => Count(events, y) = 0)
                  => NotBehind(events', x, y)
  BY CountsSent
<1> QED
  BY <1>1, <1>2

\* A sequence without an event has nothing in front of it or behind it.
LEMMA NoneBehind ==
  ASSUME NEW s \in Seq(StreamEvent), NEW x, NEW y, Count(s, x) = 0 \/ Count(s, y) = 0
  PROVE  NotBehind(s, x, y)
<1>1. \A z : Count(s, z) = 0 <=> \A j \in DOMAIN s : s[j] # z
  BY CountType
<1> QED
  BY <1>1 DEF NotBehind

\* START and STOP keep arriving in turns until a stop times out or the task fails.
LEMMA UndisturbedKept ==
  ASSUME StreamInv, ~lateStop', ~is_streaming_error', [Str!Next]_streamVars
  PROVE  Undisturbed'
<1> USE DEF StreamInv, StreamTyped
<1>i. GraphIdle => GraphIdle' \/ (task = "loop" /\ task' = "loop" /\ state' = "RUNNING")
  BY IdleStays
<1> USE DEF TaskInv, StreamPlaces, Undisturbed, Quiet, StreamEvent
<1>1. CASE Str!TaskStarts
  BY <1>1, <1>i, TakenFacts DEF Str!TaskStarts
<1>2. CASE Str!TaskIsStopped
  BY <1>2, <1>i, TakenFacts DEF Str!TaskIsStopped
<1>3. CASE Str!TaskIgnores
  BY <1>3, <1>i, TakenFacts DEF Str!TaskIgnores
<1>4. CASE Str!TaskReschedules
  BY <1>4, <1>i, TakenFacts DEF Str!TaskReschedules
<1>5. CASE Str!TaskStops
  BY <1>5, <1>i, TakenFacts DEF Str!TaskStops
<1>6. CASE Str!TaskWaits
  BY <1>6, <1>i DEF Str!TaskWaits, CompletedInv
<1>7. CASE Str!TaskWaitExpires
  BY <1>7, <1>i DEF Str!TaskWaitExpires
<1>8. CASE Str!TaskDeleted
  BY <1>8, <1>i, TakenFacts DEF Str!TaskDeleted
<1>9. CASE Str!TaskFails
  BY <1>9, <1>i DEF Str!TaskFails
<1>10. CASE Str!TaskExpires
  BY <1>10, <1>i DEF Str!TaskExpires
<1>11. CASE Str!TriggerCompletes
  BY <1>11, <1>i, SentFacts DEF Str!TriggerCompletes
<1>12. CASE Str!TriggerCompletesRun
  BY <1>12, <1>i DEF Str!TriggerCompletesRun
<1>13. CASE Str!RunCompletes
  BY <1>13, <1>i DEF Str!RunCompletes
<1>14. CASE Str!HostReschedules
  BY <1>14, <1>i DEF Str!HostReschedules
<1>15. CASE Str!HostSendsEvent
  BY <1>15, <1>i, SentFacts DEF Str!HostSendsEvent
<1>16. CASE Str!StopIsDone
  BY <1>16, <1>i DEF Str!StopIsDone
<1>17. CASE Str!StopExpires
  BY <1>17, <1>i DEF Str!StopExpires
<1>18. CASE Str!ReleaseReturns
  BY <1>18, <1>i DEF Str!ReleaseReturns
<1>19. CASE Str!WaitReturns
  BY <1>19, <1>i DEF Str!WaitReturns
<1>20. CASE Str!Start
  <2>1. /\ Count(events', "STOP") = 0 /\ Count(events', "START") <= 1
        /\ events' \in Seq(StreamEvent)
    BY <1>20, SentFacts, QueueSteps, StreamQueueKept DEF Str!Start, StreamQueue
  <2>2. NotBehind(events', "START", "STOP")
    BY <2>1, NoneBehind
  <2> QED
    BY <1>20, <1>i, <2>1, <2>2 DEF Str!Start
<1>21. CASE Str!Stop
  BY <1>21, <1>i, SentFacts DEF Str!Stop
<1>22. CASE Str!Release
  BY <1>22, <1>i, SentFacts DEF Str!Release
<1>23. CASE Str!Wait
  BY <1>23, <1>i DEF Str!Wait
<1>24. ASSUME NEW leaf \in BOOLEAN, NEW finite \in BOOLEAN, Str!Enable(leaf, finite)
      PROVE  Undisturbed'
  BY <1>24, <1>i DEF Str!Enable
<1>25. CASE UNCHANGED streamVars
  BY <1>25, <1>i DEF streamVars, GraphIdle
<1> QED
  BY <1>1, <1>2, <1>3, <1>4, <1>5, <1>6, <1>7, <1>8, <1>9, <1>10, <1>11, <1>12, <1>13,
     <1>14, <1>15, <1>16, <1>17, <1>18, <1>19, <1>20, <1>21, <1>22, <1>23, <1>24, <1>25
     DEF Str!Next, Str!TaskNext, Str!HostNext, Str!AppReturns

\* After a vxStopGraphStreaming that succeeded nothing schedules the graph: neither an
\* event left in the queue, nor a run that completes.
LEMMA StopKept ==
  ASSUME StreamInv, ~lateStop', [Str!Next]_streamVars
  PROVE  StopInv'
<1> USE DEF StreamInv, StreamTyped
<1>i. GraphIdle => GraphIdle' \/ (task = "loop" /\ task' = "loop" /\ state' = "RUNNING")
  BY IdleStays
<1> USE DEF TaskInv, StreamPlaces, StopInv, Undisturbed, Quiet, StreamEvent
<1>1. CASE Str!TaskStarts
  BY <1>1, <1>i, TakenFacts DEF Str!TaskStarts
<1>2. CASE Str!TaskIsStopped
  BY <1>2, <1>i, TakenFacts DEF Str!TaskIsStopped
<1>3. CASE Str!TaskIgnores
  BY <1>3, <1>i, TakenFacts DEF Str!TaskIgnores
<1>4. CASE Str!TaskReschedules
  BY <1>4, <1>i, TakenFacts DEF Str!TaskReschedules
<1>5. CASE Str!TaskStops
  BY <1>5, <1>i, TakenFacts DEF Str!TaskStops
<1>6. CASE Str!TaskWaits
  BY <1>6, <1>i DEF Str!TaskWaits
<1>7. CASE Str!TaskWaitExpires
  BY <1>7, <1>i DEF Str!TaskWaitExpires
<1>8. CASE Str!TaskDeleted
  BY <1>8, <1>i, TakenFacts DEF Str!TaskDeleted
<1>9. CASE Str!TaskFails
  BY <1>9, <1>i DEF Str!TaskFails
<1>10. CASE Str!TaskExpires
  BY <1>10, <1>i DEF Str!TaskExpires
<1>11. CASE Str!TriggerCompletes
  BY <1>11, <1>i, SentFacts DEF Str!TriggerCompletes
<1>12. CASE Str!TriggerCompletesRun
  BY <1>12, <1>i DEF Str!TriggerCompletesRun
<1>13. CASE Str!RunCompletes
  BY <1>13, <1>i DEF Str!RunCompletes
<1>14. CASE Str!HostReschedules
  BY <1>14, <1>i DEF Str!HostReschedules
<1>15. CASE Str!HostSendsEvent
  BY <1>15, <1>i, SentFacts DEF Str!HostSendsEvent
<1>16. CASE Str!StopIsDone
  BY <1>16, <1>i DEF Str!StopIsDone
<1>17. CASE Str!StopExpires
  BY <1>17, <1>i DEF Str!StopExpires
<1>18. CASE Str!ReleaseReturns
  BY <1>18, <1>i DEF Str!ReleaseReturns
<1>19. CASE Str!WaitReturns
  BY <1>19, <1>i DEF Str!WaitReturns
<1>20. CASE Str!Start
  BY <1>20, <1>i, SentFacts DEF Str!Start
<1>21. CASE Str!Stop
  BY <1>21, <1>i, SentFacts DEF Str!Stop
<1>22. CASE Str!Release
  BY <1>22, <1>i, SentFacts DEF Str!Release
<1>23. CASE Str!Wait
  BY <1>23, <1>i DEF Str!Wait
<1>24. ASSUME NEW leaf \in BOOLEAN, NEW finite \in BOOLEAN, Str!Enable(leaf, finite)
      PROVE  StopInv'
  BY <1>24, <1>i DEF Str!Enable
<1>25. CASE UNCHANGED streamVars
  BY <1>25, <1>i DEF streamVars
<1> QED
  BY <1>1, <1>2, <1>3, <1>4, <1>5, <1>6, <1>7, <1>8, <1>9, <1>10, <1>11, <1>12, <1>13,
     <1>14, <1>15, <1>16, <1>17, <1>18, <1>19, <1>20, <1>21, <1>22, <1>23, <1>24, <1>25
     DEF Str!Next, Str!TaskNext, Str!HostNext, Str!AppReturns

\* Nothing of a round of streaming is left when the next begins: the trigger node's
\* event, a run and a run to come are never two at a time, unless the trigger is a leaf.
LEMMA RoundKept ==
  ASSUME StreamInv, ~lateStop', ~trigger_is_leaf', [Str!Next]_streamVars
  PROVE  RoundInv'
<1> USE DEF StreamInv, StreamTyped, StreamNumbers, TaskInv, StreamPlaces, RoundInv, Undisturbed, Quiet,
            GraphIdle, StreamEvent
<1>1. CASE Str!TaskStarts
  BY <1>1, TakenFacts, RunsScheduled DEF Str!TaskStarts
<1>2. CASE Str!TaskIsStopped
  BY <1>2, TakenFacts DEF Str!TaskIsStopped
<1>3. CASE Str!TaskIgnores
  BY <1>3, TakenFacts DEF Str!TaskIgnores
<1>4. CASE Str!TaskReschedules
  <2>1. /\ fresh' \in Nat /\ pending' \in Nat /\ hostSched' = hostSched
        /\ fresh' + pending' = fresh + pending + 1
    BY <1>4, RunsScheduled DEF Str!TaskReschedules
  <2>2. /\ Count(events, "STREAMING_EVENT") \in Nat /\ Count(events', "STREAMING_EVENT") \in Nat
        /\ Count(events', "STREAMING_EVENT") = Count(events, "STREAMING_EVENT") - 1
        /\ NotBehind(events, "STREAMING_EVENT", "START")
             => NotBehind(events', "STREAMING_EVENT", "START")
    BY <1>4, TakenFacts DEF Str!TaskReschedules
  <2>3. state = "RUNNING" /\ state' = state /\ task' = task /\ UNCHANGED <<lateStop, trigger_is_leaf>>
    BY <1>4 DEF Str!TaskReschedules
  <2>4. RoundInv
    BY <2>3
  <2>5. fresh + pending + hostSched + Count(events, "STREAMING_EVENT") <= 1
    BY <2>3, <2>4
  <2>6. fresh' + pending' + hostSched'
          + (IF state' = "RUNNING" THEN Count(events', "STREAMING_EVENT") ELSE 0) <= 1
    <3>1. fresh \in Nat /\ pending \in Nat /\ hostSched \in Nat
      OBVIOUS
    <3>2. PICK m \in Nat : m = Count(events, "STREAMING_EVENT")
      BY <2>2
    <3>3. PICK k \in Nat : k = Count(events', "STREAMING_EVENT")
      BY <2>2
    <3>4. k = m - 1
      BY ONLY <2>2, <3>2, <3>3
    <3>5. fresh + pending + hostSched + m <= 1
      BY ONLY <2>5, <3>2
    <3>6. fresh' + pending' + hostSched' + k <= 1
      <4>1. PICK a \in Nat, b \in Nat : a = fresh' /\ b = pending'
        BY ONLY <2>1
      <4>2. a + b = fresh + pending + 1
        BY ONLY <2>1, <4>1
      <4>5. m \in Nat /\ k \in Nat
        BY ONLY <3>2, <3>3
      <4>6. a \in Nat /\ b \in Nat
        BY ONLY <4>1
      <4>3. a + b + hostSched + k <= 1
        BY ONLY <4>2, <4>5, <4>6, <3>1, <3>4, <3>5
      <4>4. hostSched' = hostSched
        BY ONLY <2>1
      <4> QED
        BY ONLY <4>1, <4>3, <4>4
    <3>7. fresh' + pending' + hostSched' + Count(events', "STREAMING_EVENT") <= 1
      BY ONLY <3>3, <3>6
    <3> QED
      BY ONLY <2>3, <3>7
  <2> QED
    BY <2>2, <2>3, <2>4, <2>6
<1>5. CASE Str!TaskStops
  BY <1>5, TakenFacts DEF Str!TaskStops
<1>6. CASE Str!TaskWaits
  BY <1>6 DEF Str!TaskWaits
<1>7. CASE Str!TaskWaitExpires
  BY <1>7 DEF Str!TaskWaitExpires
<1>8. CASE Str!TaskDeleted
  BY <1>8, TakenFacts DEF Str!TaskDeleted
<1>9. CASE Str!TaskFails
  BY <1>9 DEF Str!TaskFails
<1>10. CASE Str!TaskExpires
  BY <1>10 DEF Str!TaskExpires
<1>11. CASE Str!TriggerCompletes
  BY <1>11, SentFacts DEF Str!TriggerCompletes
<1>12. CASE Str!TriggerCompletesRun
  BY <1>12, RunsCompleted DEF Str!TriggerCompletesRun
<1>13. CASE Str!RunCompletes
  BY <1>13, RunsCompleted DEF Str!RunCompletes
<1>14. CASE Str!HostReschedules
  BY <1>14, RunsScheduled DEF Str!HostReschedules
<1>15. CASE Str!HostSendsEvent
  BY <1>15, SentFacts DEF Str!HostSendsEvent
<1>16. CASE Str!StopIsDone
  BY <1>16 DEF Str!StopIsDone
<1>17. CASE Str!StopExpires
  BY <1>17 DEF Str!StopExpires
<1>18. CASE Str!ReleaseReturns
  BY <1>18 DEF Str!ReleaseReturns
<1>19. CASE Str!WaitReturns
  BY <1>19 DEF Str!WaitReturns
<1>20. CASE Str!Start
  BY <1>20, SentFacts DEF Str!Start
<1>21. CASE Str!Stop
  BY <1>21, SentFacts DEF Str!Stop
<1>22. CASE Str!Release
  BY <1>22, SentFacts DEF Str!Release
<1>23. CASE Str!Wait
  BY <1>23 DEF Str!Wait
<1>24. ASSUME NEW leaf \in BOOLEAN, NEW finite \in BOOLEAN, Str!Enable(leaf, finite)
      PROVE  RoundInv'
  BY <1>24 DEF Str!Enable
<1>25. CASE UNCHANGED streamVars
  BY <1>25 DEF streamVars
<1> QED
  BY <1>1, <1>2, <1>3, <1>4, <1>5, <1>6, <1>7, <1>8, <1>9, <1>10, <1>11, <1>12, <1>13,
     <1>14, <1>15, <1>16, <1>17, <1>18, <1>19, <1>20, <1>21, <1>22, <1>23, <1>24, <1>25
     DEF Str!Next, Str!TaskNext, Str!HostNext, Str!AppReturns

\* ownGraphAllocForStreaming has not run: there is no task and no event.
LEMMA StreamInit == Str!Init => StreamInv
<1> SUFFICES ASSUME Str!Init PROVE StreamInv
  OBVIOUS
<1>0. Depth \in Nat /\ MaxStart \in Nat /\ MaxWait \in Nat /\ QueueSize \in Nat
  BY ServicesAssumption
<1>1. StreamQueue /\ StreamPlaces /\ StreamNumbers
  BY <1>0 DEF Str!Init, StreamQueue, StreamPlaces, StreamNumbers
<1>2. StreamBooleans
  BY DEF Str!Init, StreamBooleans
<1>3. TaskInv /\ CompletedInv /\ GraphIdle
  BY DEF Str!Init, TaskInv, CompletedInv, GraphIdle
<1>4. \A x : Count(events, x) = 0
  BY CountEmpty DEF Str!Init
<1>5. NotBehind(events, "STREAMING_EVENT", "START")
  BY DEF Str!Init, NotBehind
<1>6. Undisturbed /\ StopInv /\ RoundInv
  BY <1>3, <1>4, <1>5 DEF Str!Init, Undisturbed, StopInv, RoundInv, Quiet, GraphIdle
<1> QED
  BY <1>1, <1>2, <1>3, <1>6 DEF StreamInv, StreamTyped

\* Every step keeps the invariant, part by part.
LEMMA StreamNext ==
  ASSUME StreamInv, [Str!Next]_streamVars
  PROVE  StreamInv'
<1> USE DEF StreamInv
<1>1. StreamTyped'
  BY QueueSteps, StreamQueueKept, StreamBooleansKept, StreamPlacesKept, StreamNumbersKept
     DEF StreamTyped
<1>2. TaskInv' /\ CompletedInv'
  BY TaskKept, CompletedKept
<1>3. ~lateStop' /\ ~is_streaming_error' => Undisturbed'
  BY UndisturbedKept
<1>4. ~lateStop' => StopInv'
  BY StopKept
<1>5. ~lateStop' /\ ~trigger_is_leaf' => RoundInv'
  BY RoundKept
<1> QED
  BY <1>1, <1>2, <1>3, <1>4, <1>5

\* Count is Count of Streaming.
LEMMA StreamCounts == \A e : Str!Count(e) = Count(events, e)
BY DEF Str!Count, Count, Str!Cardinality, Cardinality

\* The invariant says more than the two properties.
LEMMA StreamSafe == StreamInv => StopMeansStopped /\ OneRunBegins
<1> SUFFICES ASSUME StreamInv PROVE StopMeansStopped /\ OneRunBegins
  OBVIOUS
<1>1. StopMeansStopped
  BY StreamCounts DEF StreamInv, StopInv, Quiet, GraphIdle, StopMeansStopped, Str!StopMeansStopped
<1>2. OneRunBegins
  BY StreamCounts DEF StreamInv, RoundInv, OneRunBegins, Str!OneRunBegins
<1> QED
  BY <1>1, <1>2

\* The invariant holds whatever part runs.
LEMMA StreamHolds == ServicesSpec => []StreamInv
<1>1. ServicesInit => Str!Init
  BY DEF ServicesInit
<1>2. [ServicesNext]_servicesVars => [Str!Next]_streamVars
  BY DEF ServicesNext, servicesVars
<1>3. StreamInv /\ [Str!Next]_streamVars => StreamInv'
  BY StreamNext
<1> QED
  BY <1>1, <1>2, <1>3, StreamInit, PTL DEF ServicesSpec

-----------------------------------------------------------------------------
(* The properties of the services                                            *)

\* The type invariant of every part, for any number of threads, events, descriptors,
\* callers and targets and queues of any length: in particular the indices of the
\* rings stay in range and the runs of a streaming graph fit into its pipeline.
THEOREM TypeCorrect == ServicesSpec => []TypesOK
<1>1. EventInv => OsE!TypeOK
  BY DEF EventInv
<1>2. StreamInv => Str!TypeOK
  BY StreamTypes DEF StreamInv
<1> QED
  BY <1>1, <1>2, PlatformQueue, EventInvariance, EventsOfGraphs, DescriptorQueue, StreamHolds,
     CommandsHold, PTL DEF TypesOK

\* tivxQueueGet, tivxQueuePut: whoever sleeps while there is something to do has been
\* signalled, or somebody before him has.
THEOREM WakeupSoundness == ServicesSpec => []NoLostWakeup
BY PlatformQueue, PTL

\* No index of the queue of events and no command object leaks or is used twice.
THEOREM Conservation == ServicesSpec => []EachInOnePlace
BY EventsOfGraphs, CommandsHold, PTL DEF EachInOnePlace

\* The three rings implement bounded first-in first-out queues.
THEOREM Refinement == ServicesSpec => QueuesAreFifo
BY PlatformQueue, EventsOfGraphs, DescriptorQueue, PTL DEF QueuesAreFifo

\* vxStopGraphStreaming: when it has returned success the graph is at rest, and stays
\* at rest until the next vxStartGraphStreaming.
THEOREM StopSoundness == ServicesSpec => []StopMeansStopped
BY StreamHolds, StreamSafe, PTL

\* streamingNodeTask: at most one run of the graph is begun by a round of streaming
\* at a time.
THEOREM RoundSoundness == ServicesSpec => []OneRunBegins
BY StreamHolds, StreamSafe, PTL

\* ownContextSendControlCmd: an acknowledgement is for the command its caller sent,
\* and nothing is left in an object that is free.
THEOREM AckSoundness == ServicesSpec => []AcksMatchCommands
BY CommandsHold, PTL DEF AcksMatchCommands
==============================================================================
