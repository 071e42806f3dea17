------------------------------- MODULE MCObjects -------------------------------
(* What is done to the objects of the framework beside running graphs, each   *)
(* alone: delays and the parameters bound to them, the verification of graphs,  *)
(* the removal of Copy and Move nodes, super nodes, and the references to        *)
(* objects.  One part runs, and the others stay in one of their initial states.  *)
EXTENDS Delay, TLC

CONSTANTS n1, n2, n3, ra, rb, rc, rd, NoRef, MaxLinks, MaxChange, MaxVerify, \* GraphVerify
          c1, c2, mv, ru, rv, rw, rx, ry, ro, rp,                             \* CopyMove
          n4, re, sa, sb, x1, x2, NoSuper,                                    \* SuperNode
          Thread, NoThread, graph, node, data, NoObject, TableSize, MaxHeld  \* References

\* Threads and objects are what they are named, and there are finitely many threads.
ASSUME ObjectsAssumption ==
    /\ IsFiniteSet(Thread) /\ NoThread \notin Thread
    /\ Cardinality({graph, node, data, NoObject}) = 4
    /\ TableSize \in Nat /\ MaxHeld \in Nat \ {0}

VARIABLES
    part,
    nodes, directions, node_parameters, out_node_id, in_node_id, node_depth, head_nodes,
    leaf_nodes, num_leaf_nodes, verified, result, changes, attempts,
    copy_nodes, copy_directions, copy_parameters, copy_out, copy_in, graph_parameter,
    params_list, stage, given, copy_attempts,
    magic, internal_count, external_count, reftable, num_references, uses, calls, collect,
    held, held_context,
    super_nodes, supernodes, super, members, super_directions, super_parameters, target,
    super_out, super_in, super_depth, edge_list, super_result

-----------------------------------------------------------------------------
(* Graphs of three nodes.  Every way to connect the inputs of the nodes: to     *)
(* what another node writes, to what the node itself writes, or to one object.  *)

DataRefs == {ra, rb, rc, rd}

\* n1 writes rb, n2 writes rc, and n3, with two inputs, writes rd.
Flow(i1, i2, i3, i4) ==
    [directions |-> n1 :> <<"input", "output">> @@ n2 :> <<"input", "output">>
                      @@ n3 :> <<"input", "input", "output">>,
     parameters |-> n1 :> <<i1, rb>> @@ n2 :> <<i2, rc>> @@ n3 :> <<i3, i4, rd>>]
Flows == {Flow(i1, i2, i3, i4) : i1, i2, i3, i4 \in DataRefs}

\* n2 reads an object and modifies another.
Modifying ==
    {[directions |-> n1 :> <<"input", "output">> @@ n2 :> <<"input", "bidirectional">>
                       @@ n3 :> <<"input", "output">>,
      parameters |-> n1 :> <<i1, rb>> @@ n2 :> <<i2, i3>> @@ n3 :> <<i4, rd>>] :
        i1, i2, i3, i4 \in DataRefs}

\* One graph, verified under ample limits; with lists of in and out nodes and an
\* array of head nodes that a graph fills, and an object that no node may write;
\* and with as many nodes as a graph may have, and one leaf node.
Verify == INSTANCE GraphVerify WITH
    Node <- {n1, n2, n3}, NodeOrder <- <<n1, n2, n3>>, Ref <- DataRefs, VirtualRef <- {},
    MoveNode <- {}, UniformRef <- {}, MaxNodes <- 4, MaxHeads <- 3, MaxLeaves <- 3,
    Graphs <- Flows \cup Modifying, parameters <- node_parameters
Limited == INSTANCE GraphVerify WITH
    Node <- {n1, n2, n3}, NodeOrder <- <<n1, n2, n3>>, Ref <- DataRefs, VirtualRef <- {},
    MoveNode <- {}, UniformRef <- {ra}, MaxNodes <- 4, MaxHeads <- 2, MaxLeaves <- 3,
    MaxLinks <- 1, Graphs <- Flows, parameters <- node_parameters
Filled == INSTANCE GraphVerify WITH
    Node <- {n1, n2, n3}, NodeOrder <- <<n1, n2, n3>>, Ref <- DataRefs, VirtualRef <- {},
    MoveNode <- {}, UniformRef <- {}, MaxNodes <- 3, MaxHeads <- 3, MaxLeaves <- 1,
    Graphs <- {Flow(i1, i2, rb, i4) : i1, i2, i4 \in DataRefs}, parameters <- node_parameters

-----------------------------------------------------------------------------
(* Graphs with Copy and Move nodes: n1 reads the application's ru and writes    *)
(* the virtual rv; c1 and c2 copy, or mv moves; n2 modifies an object or none,  *)
(* and n3 reads two.  rx and ro are the first elements of arrays, ry is a part of   *)
(* an image.  Or n1 writes two objects, of which n2 may modify one.             *)

CopyFlows ==
    {[nodes |-> <<n1, n3, n2, c1, c>>,
      directions |-> n1 :> <<"input", "output">> @@ n2 :> <<"bidirectional">>
                       @@ n3 :> <<"input", "input", "output">> @@ c1 :> <<"input", "output">>
                       @@ c :> <<IF c = mv THEN "bidirectional" ELSE "input", "output">>,
      parameters |-> n1 :> <<ru, rv>> @@ n2 :> <<m>> @@ n3 :> <<i1, i2, ra>>
                       @@ c1 :> <<f1, s1>> @@ c :> <<f2, s2>>,
      graph_parameter |-> IF last THEN <<c, 2>> ELSE <<c1, 1>>] :
        c \in {c2, mv}, m \in {ru, rv, rw, rx, ro, NoRef}, i1 \in {ru, rv, rw},
        i2 \in {rw, rx, ry, ro}, f1 \in {ru, rv}, s1 \in {rw, rx}, f2 \in {rv, rw, rx},
        s2 \in {rw, ry, ro}, last \in BOOLEAN}
TwoOutput(w, m, i1, f1) ==
    [nodes |-> <<n1, n2, n3, c1>>,
     directions |-> n1 :> <<"input", "output", "output">> @@ n2 :> <<"bidirectional">>
                      @@ n3 :> <<"input", "output">> @@ c1 :> <<"input", "output">>,
     parameters |-> n1 :> <<ru, w[1], w[2]>> @@ n2 :> <<m>> @@ n3 :> <<i1, ra>>
                      @@ c1 :> <<f1, ro>>,
     graph_parameter |-> <<c1, 2>>]
TwoOutputs ==
    {TwoOutput(w, m, i1, f1) :
        w \in {<<rv, rb>>, <<rb, rv>>}, m \in {rv, rb, ro, NoRef}, i1 \in {rv, rb, ro},
        f1 \in {rv, rb}}
VirtualRefs == {rv, rw, rx, ry}
OfApplication(g) == g.parameters[g.graph_parameter[1]][g.graph_parameter[2]] \notin VirtualRefs

Copies == INSTANCE CopyMove WITH
    Node <- {n1, n2, n3, c1, c2, mv}, CopyNode <- {c1, c2}, MoveNode <- {mv},
    Ref <- {ra, rb, rc, rd, ru, rv, rw, rx, ry, ro, rp}, VirtualRef <- VirtualRefs,
    Scope <- [r \in {ra, rb, rc, rd, ru, rv, rw, ry, rp} |-> "none"]
               @@ [r \in {rx, ro} |-> "array"],
    FirstRef <- {rx, ro}, PartRef <- {ry}, MaxLinks <- 3,
    Graphs <- {g \in CopyFlows \cup TwoOutputs : OfApplication(g)},
    nodes <- copy_nodes, directions <- copy_directions, parameters <- copy_parameters,
    out_node_id <- copy_out, in_node_id <- copy_in, attempts <- copy_attempts

(* Graphs of four nodes, n4 for another target, and pairs, chains and all of    *)
(* them as super nodes: neighbours, one inside of a path between others, and    *)
(* lists that name a node twice or name too many.                              *)

Grouped(d2, i2, i3, i4, i5, i6) ==
    [directions |-> n1 :> <<"input", "output">> @@ n2 :> <<d2, "output">>
                      @@ n3 :> <<"input", "input", "output">>
                      @@ n4 :> <<"input", "input", "output">>,
     parameters |-> n1 :> <<ra, rb>> @@ n2 :> <<i2, rc>> @@ n3 :> <<i3, i4, rd>>
                      @@ n4 :> <<i5, i6, re>>,
     target |-> [n \in {n1, n2, n3, n4} |-> IF n = n4 THEN x2 ELSE x1]]
Groupings ==
    {Grouped("input", i2, i3, rc, i5, i6) :
        i2 \in {ra, rb, rd}, i3 \in {ra, rb}, i5 \in {ra, rc}, i6 \in {rb, rd}}
    \cup {Grouped("bidirectional", i2, ra, rc, rc, rd) :
            i2 \in {ra, rb}}

Groups == INSTANCE SuperNode WITH
    Node <- {n1, n2, n3, n4}, SuperNode <- {sa, sb}, Ref <- {ra, rb, rc, rd, re},
    ImageRef <- {ra, rb, rc, rd}, Target <- {x1, x2}, NodeOrder <- <<n1, n2, n3, n4>>,
    MaxMembers <- 4, Graphs <- Groupings,
    MemberLists <- {<<n1, n2>>, <<n3, n2>>, <<n3, n4>>, <<n1, n3>>, <<n4, n1>>,
                    <<n1, n2, n3>>, <<n1, n1>>, <<n1, n2, n3, n4>>},
    nodes <- super_nodes, directions <- super_directions, parameters <- super_parameters,
    out_node_id <- super_out, in_node_id <- super_in, node_depth <- super_depth,
    result <- super_result

\* A graph uses a node, and that node a data object.
UsedObjects == [o \in {graph, node, data} |->
                    IF o = graph THEN {node} ELSE IF o = node THEN {data} ELSE {}]
Counts == INSTANCE References WITH
    Object <- {graph, node, data}, Used <- UsedObjects

verifyVars == <<nodes, directions, node_parameters, out_node_id, in_node_id, node_depth,
                head_nodes, leaf_nodes, num_leaf_nodes, verified, result, changes, attempts>>
copyVars == <<copy_nodes, copy_directions, copy_parameters, copy_out, copy_in,
              graph_parameter, params_list, stage, given, copy_attempts>>
referenceVars == <<magic, internal_count, external_count, reftable, num_references, uses,
                   calls, collect, held, held_context>>
superVars == <<super_nodes, supernodes, super, members, super_directions, super_parameters,
               target, super_out, super_in, super_depth, edge_list, super_result>>
objectsVars == <<part, vars, verifyVars, copyVars, referenceVars, superVars>>

-----------------------------------------------------------------------------

ObjectsInit ==
    /\ part \in {"delay", "verify", "limits", "full", "copies", "references", "groups"}
    /\ Init /\ Counts!Init
    /\ \/ part = "verify" /\ Verify!Init
       \/ part = "limits" /\ Limited!Init
       \/ part = "full" /\ Filled!Init
       \/ part \notin {"verify", "limits", "full"} /\ Verify!InitWith(Flow(ra, rb, rc, ra))
    /\ \/ part = "copies" /\ Copies!Init
       \/ part # "copies" /\ Copies!InitWith(TwoOutput(<<rv, rb>>, NoRef, rb, rv))
    /\ \/ part = "groups" /\ Groups!Init
       \/ part # "groups" /\ Groups!InitWith(Grouped("input", rb, ra, rc, rc, rd))

ObjectsNext ==
    /\ UNCHANGED part
    /\ \/ part = "delay" /\ Next
       \/ part # "delay" /\ UNCHANGED vars
    /\ \/ part = "verify" /\ Verify!Next
       \/ part = "limits" /\ Limited!Next
       \/ part = "full" /\ Filled!Next
       \/ part \notin {"verify", "limits", "full"} /\ UNCHANGED verifyVars
    /\ \/ part = "copies" /\ Copies!Next
       \/ part # "copies" /\ UNCHANGED copyVars
    /\ \/ part = "references" /\ Counts!Next
       \/ part # "references" /\ UNCHANGED referenceVars
    /\ \/ part = "groups" /\ Groups!Next
       \/ part # "groups" /\ UNCHANGED superVars

ObjectsSpec == ObjectsInit /\ [][ObjectsNext]_objectsVars

\* The parameters bound to a delay are interchangeable, and so are the threads.
Symmetry == Permutations(Param) \cup Permutations(Thread)

-----------------------------------------------------------------------------
(* The properties of the parts                                              *)

\* The type invariant of each part.
TypesOK == TypeOK /\ Verify!TypeOK /\ Copies!TypeOK /\ Counts!TypeOK
           /\ Groups!TypeOK
           /\ (part = "limits" => Limited!TypeOK) /\ (part = "full" => Filled!TypeOK)

\* ownRemoveAssociationToDelay: a bound parameter is listed in one slot, and that
\* is the slot where the next vxSetParameterByIndex looks for it.
AssociationsFindable == OneAssociation /\ RemovalFindsParameter

\* vxVerifyGraph: the lists of nodes, also when Copy and Move nodes were removed,
\* cycles, the order and the depths.
EdgesMirror ==
    (IF part = "limits" THEN Limited!EdgesMirror ELSE Verify!EdgesMirror)
    /\ Copies!StaysMirrored
CycleIffCyclic == IF part = "full" THEN Filled!CycleIffCyclic ELSE Verify!CycleIffCyclic
OrderRespectsData ==
    IF part = "full" THEN Filled!OrderRespectsData ELSE Verify!OrderRespectsData
DepthIsLongestChain ==
    IF part = "full" THEN Filled!DepthIsLongestChain ELSE Verify!DepthIsLongestChain
VerifiedInOrder == part = "verify" => Verify!VerifiedInOrder

\* ownGraphProcessCopyMoveNodes: the graph without the nodes computes the same.
ResultsKept == Copies!ResultsKept
\* The same for every graph that could be run before: checked to fail.
AlwaysKept == Copies!AlwaysKept

\* ownGraphSuperNodeConfigure: the lists of nodes, the cycles, the edges inside.
SuperDependencies == Groups!SuperDependencies
SuperCycleIffCyclic == Groups!SuperCycleIffCyclic
EdgeListComplete == Groups!EdgeListComplete

\* ownReleaseReferenceInt, vxReleaseContext: one thread frees an object, when no one
\* uses it any more; counts, owners and the table agree; nothing is left behind.
ReleasedOnceUnused == Counts!LiveWhileUsed /\ Counts!OneReleaser
CountsMatchOwners == Counts!CountsMatchOwners /\ Counts!AllCollected
================================================================================
