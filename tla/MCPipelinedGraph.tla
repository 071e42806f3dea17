--------------------------- MODULE MCPipelinedGraph ---------------------------
(* Small graphs for PipelinedGraph.                                          *)
(*   chain: in -> A -> mid -> B -> out                                       *)
(*   fork:  A reads in and writes x; B reads x; C reads in and x and writes  *)
(*          out; B and C are leaf nodes                                      *)
(*   join:  A reads in and writes x, B and C read it, J reads what they      *)
(*          write and writes out                                             *)
EXTENDS PipelinedGraph, TLC

CONSTANTS A, B, C, J, in, mid, x, y, z, out, t1, t2, t3,
          i1, i2, i3, m1, m2, x1, y1, y2, z1, o1, o2

ChainOut == A :> <<B>> @@ B :> <<>>
ChainParams == A :> <<in, mid>> @@ B :> <<mid, out>>
ChainProducer == in :> NoActor @@ mid :> A @@ out :> B

ForkOut == A :> <<B, C>> @@ B :> <<>> @@ C :> <<>>
ForkParams == A :> <<in, x>> @@ B :> <<x>> @@ C :> <<in, x, out>>
ForkProducer == in :> NoActor @@ x :> A @@ out :> C

JoinOut == A :> <<B, C>> @@ B :> <<J>> @@ C :> <<J>> @@ J :> <<>>
JoinParams == A :> <<in, x>> @@ B :> <<x, y>> @@ C :> <<x, z>> @@ J :> <<y, z, out>>
JoinProducer == in :> NoActor @@ x :> A @@ y :> B @@ z :> C @@ out :> J

ChainTargets == A :> t1 @@ B :> t2
ForkTargets == A :> t1 @@ B :> t1 @@ C :> t2
\* The nodes that a join waits for on one target, and on different ones.
JoinOnOneTarget == A :> t1 @@ B :> t2 @@ C :> t2 @@ J :> t1
JoinOnThreeTargets == A :> t1 @@ B :> t1 @@ C :> t2 @@ J :> t3

ChainRefs == in :> <<i1, i2, i3>> @@ mid :> <<m1, m2>> @@ out :> <<o1, o2>>
ChainFewRefs == in :> <<i1, i2>> @@ mid :> <<m1>> @@ out :> <<o1>>
ForkRefs == in :> <<i1, i2>> @@ x :> <<x1>> @@ out :> <<o1>>
JoinRefs == in :> <<i1, i2>> @@ x :> <<x1>> @@ y :> <<y1, y2>> @@ z :> <<z1>>
              @@ out :> <<o1, o2>>
JoinFewRefs == [JoinRefs EXCEPT ![out] = <<o1>>]

HeadA == [t \in Target |-> IF t = t1 THEN <<A>> ELSE <<>>]
\* The references of a graph parameter are alike: only the set of them matters.
RefSymmetry == Permutations({i1, i2, i3}) \cup Permutations({o1, o2})
PairSymmetry == Permutations({i1, i2}) \cup Permutations({o1, o2})
DequeuesOut == [d \in Dequeuer |-> out]
===============================================================================
