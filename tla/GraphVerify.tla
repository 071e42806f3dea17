----------------------------- MODULE GraphVerify -----------------------------
(* The part of vxVerifyGraph that finds the edges of a graph from the          *)
(* parameters of its nodes, sorts the nodes and finds head and leaf nodes:     *)
(* vx_graph_verify.c and vx_graph_sort.c, with the lists of in and out nodes   *)
(* of vx_node.c.  A graph may be verified again, with other parameters.        *)
EXTENDS Integers, FiniteSets, SequencesExt

CONSTANTS Node, Ref, NoRef,
          NodeOrder,        \* the order in which the nodes were created
          VirtualRef,       \* the references that are virtual
          UniformRef,       \* the references to uniform images, which no node may write
          MoveNode,         \* the nodes of the kernel VX_KERNEL_MOVE
          MaxLinks,         \* TIVX_NODE_MAX_OUT_NODES and TIVX_NODE_MAX_IN_NODES
          MaxNodes,         \* TIVX_GRAPH_MAX_NODES
          MaxHeads,         \* TIVX_GRAPH_MAX_HEAD_NODES
          MaxLeaves,        \* TIVX_GRAPH_MAX_LEAF_NODES
          Graphs,           \* the graphs to start from: directions and parameters
          MaxChange,        \* bound: parameters changed after the first verification
          MaxVerify         \* bound: verifications

VARIABLES
    nodes,                  \* graph->nodes, which the sort reorders
    directions, parameters, \* per node: of its kernel's parameters; the references
    out_node_id, in_node_id,\* per node: the lists in its object descriptor
    node_depth,
    head_nodes, leaf_nodes, num_leaf_nodes,
    verified,
    result                  \* what the last verification found

\* History: parameters changed and verifications tried so far.
VARIABLES changes, attempts

vars == <<nodes, directions, parameters, out_node_id, in_node_id, node_depth,
          head_nodes, leaf_nodes, num_leaf_nodes, verified, result, changes,
          attempts>>

\* A parameter is a node and an index.
DirOf(p) == directions[p[1]][p[2]]
RefOf(p) == parameters[p[1]][p[2]]
ParamsOf(n) == [k \in DOMAIN directions[n] |-> <<n, k>>]
Params == UNION {ToSet(ParamsOf(n)) : n \in Node}

\* Faulty variants, for the mutants of the properties.
Linked_OneIn(e, n, m) ==
    [e EXCEPT !.out[n] = IF m \in ToSet(@) THEN @ ELSE Append(@, m),
              !.in[m] = IF @ = <<>> THEN <<n>> ELSE @]
Matches_LaterOnly(p, q) ==
    /\ RefOf(p) = RefOf(q) /\ RefOf(p) # NoRef
    /\ SelectInSeq(nodes, LAMBDA n : n = p[1]) < SelectInSeq(nodes, LAMBDA n : n = q[1])
Arrived_LastButOne(counter) == counter < 2
Replaced_Kept(list, old, new) ==
    LET i == SelectInSeq(list, LAMBDA n : n = old)
    IN  IF i = 0 THEN list ELSE ReplaceAt(list, i, new)
DepthFrom_Last(s, n, in) == IF in = <<>> THEN s.depth[n] ELSE s.depth[Last(in)] + 1

-----------------------------------------------------------------------------

InitWith(g) ==
    /\ nodes = NodeOrder /\ directions = g.directions /\ parameters = g.parameters
    /\ out_node_id = [n \in Node |-> <<>>] /\ in_node_id = [n \in Node |-> <<>>]
    /\ node_depth = [n \in Node |-> 1]
    /\ head_nodes = <<>> /\ leaf_nodes = <<>> /\ num_leaf_nodes = 0
    /\ verified = FALSE /\ result = "none" /\ changes = 0 /\ attempts = 0
Init == \E g \in Graphs : InitWith(g)

\* vxSetParameterByIndex once the graph was verified: verified stays as it is.
SetParameter(p, r) ==
    /\ attempts > 0 /\ changes < MaxChange /\ r # RefOf(p)
    /\ changes' = changes + 1
    /\ parameters' = [parameters EXCEPT ![p[1]][p[2]] = r]
    /\ result' = "none"
    /\ UNCHANGED <<nodes, directions, out_node_id, in_node_id, node_depth, head_nodes,
                   leaf_nodes, num_leaf_nodes, verified, attempts>>

(* ownGraphCalcInAndOutNodes, as folds over the parameters of all nodes.  The  *)
(* lists start from what they were: they are not emptied.                      *)

AddIfAbsent(s, x) == IF x \in ToSet(s) THEN s ELSE Append(s, x)
Fits(s, x) == x \in ToSet(s) \/ Len(s) < MaxLinks
Failed(e) == [e EXCEPT !.ok = FALSE]

\* ownNodeAddOutNode and then ownNodeAddInNode
Linked(e, n, m) ==
    IF ~Fits(e.out[n], m) THEN Failed(e)
    ELSE IF ~Fits(e.in[m], n) THEN Failed([e EXCEPT !.out[n] = AddIfAbsent(@, m)])
    ELSE [e EXCEPT !.out[n] = AddIfAbsent(@, m), !.in[m] = AddIfAbsent(@, n)]

\* ownNodeReplaceInNode, ownNodeReplaceOutNode
Replaced(list, old, new) ==
    LET i == SelectInSeq(list, LAMBDA n : n = old)
    IN  IF i = 0 THEN list
        ELSE IF new \in ToSet(list) THEN RemoveAt(list, i) ELSE ReplaceAt(list, i, new)

\* The node m modifies what n writes: m takes the place of n before all the out
\* nodes of n, whatever parameter they are linked by.
Inserted(e, n, m) ==
    LET moved == FoldLeft(LAMBDA f, x : [f EXCEPT !.in[x] = Replaced(@, n, m)], e, e.out[n])
    IN  Linked([moved EXCEPT !.out[n] = <<>>, !.in[m] = <<>>, !.modifiers = @ + 1], n, m)

\* ownGraphIsRefMatch: no sub-images and no array elements here.
Matches(p, q) == RefOf(p) = RefOf(q) /\ RefOf(p) # NoRef

\* The parameter q is looked at for the output or modified parameter p.
Looked(e, p, q) ==
    IF ~e.ok \/ ~Matches(p, q) \/ p = q THEN e
    ELSE IF p[1] = q[1] \/ DirOf(p) = DirOf(q) THEN Failed(e)
    ELSE CASE DirOf(q) = "input" ->
                  IF e.modifiers = 0 THEN Linked([e EXCEPT !.readers = @ + 1], p[1], q[1])
                                     ELSE [e EXCEPT !.readers = @ + 1]
           [] DirOf(q) = "bidirectional" -> Inserted(e, p[1], q[1])
           [] DirOf(q) = "output" -> [e EXCEPT !.writers = @ + 1]

\* A virtual object that is modified has one writer, and readers if it is not
\* moved away.
Connected(e, p) ==
    DirOf(p) = "bidirectional" /\ RefOf(p) \in VirtualRef =>
        e.writers = 1 /\ (e.readers > 0 \/ p[1] \in MoveNode)

AllParams == FlattenSeq([i \in DOMAIN nodes |-> ParamsOf(nodes[i])])
EdgesFrom(e, p) ==
    IF ~e.ok \/ RefOf(p) = NoRef \/ DirOf(p) = "input" THEN e
    ELSE IF RefOf(p) \in UniformRef THEN Failed(e)
    ELSE LET all == FoldLeft(LAMBDA f, q : Looked(f, p, q),
                             [e EXCEPT !.modifiers = 0, !.readers = 0, !.writers = 0],
                             AllParams)
         IN  IF Connected(all, p) THEN all ELSE Failed(all)
Edges == FoldLeft(EdgesFrom,
                  [out |-> out_node_id, in |-> in_node_id, ok |-> TRUE,
                   modifiers |-> 0, readers |-> 0, writers |-> 0],
                  AllParams)

(* ownGraphTopologicalSort: a node is pushed when its last in node was popped, *)
(* and a node that is popped gets a depth.  The depths start from what they    *)
(* were.                                                                       *)

Arrived(counter) == counter = 0
DepthFrom(s, n, in) ==
    FoldLeft(LAMBDA d, m : IF d <= s.depth[m] THEN s.depth[m] + 1 ELSE d, s.depth[n], in)
\* The counters are 16 bits wide.
Notified(s, m) ==
    LET counter == (s.incounter[m] + 65535) % 65536
    IN  [s EXCEPT !.incounter[m] = counter,
                  !.stack = IF Arrived(counter) THEN Append(@, m) ELSE @]
Popped(s, e) ==
    LET n == Last(s.stack)
    IN  FoldLeft(Notified,
                 [s EXCEPT !.stack = Front(@), !.sorted = Append(@, n),
                           !.depth[n] = DepthFrom(s, n, e.in[n])],
                 e.out[n])
\* A graph with as many nodes as it may have is not sorted: it keeps the order
\* and the depths, and no cycle is found in it.
Full == Len(nodes) >= MaxNodes
Sorted(e) ==
    IF Full THEN [sorted |-> nodes, depth |-> node_depth]
    ELSE FoldLeft(LAMBDA s, i : IF s.stack = <<>> THEN s ELSE Popped(s, e),
             [incounter |-> [n \in Node |-> Len(e.in[n])],
              stack |-> SelectSeq(nodes, LAMBDA n : e.in[n] = <<>>),
              sorted |-> <<>>, depth |-> node_depth],
             nodes)

\* vxVerifyGraph up to the head and leaf nodes, and what it returns at the end.
Attempt == attempts < MaxVerify /\ attempts' = attempts + 1

VerifyFindsEdges ==
    /\ Attempt /\ ~Edges.ok
    /\ out_node_id' = Edges.out /\ in_node_id' = Edges.in
    /\ verified' = FALSE /\ result' = "edges"
    /\ UNCHANGED <<nodes, directions, parameters, node_depth, head_nodes, leaf_nodes,
                   num_leaf_nodes, changes>>

VerifyFindsCycle ==
    /\ Attempt /\ Edges.ok
    /\ Len(Sorted(Edges).sorted) # Len(nodes)
    /\ out_node_id' = Edges.out /\ in_node_id' = Edges.in
    /\ node_depth' = Sorted(Edges).depth
    /\ verified' = FALSE /\ result' = "cycle"
    /\ UNCHANGED <<nodes, directions, parameters, head_nodes, leaf_nodes, num_leaf_nodes,
                   changes>>

\* ownGraphCalcHeadAndLeafNodes: it stops where an array is full, and keeps what
\* it counted.
Counted(ends, n) ==
    IF ~ends.ok THEN ends
    ELSE LET head == in_node_id'[n] = <<>>
             leaf == out_node_id'[n] = <<>>
             headed == IF head THEN Append(ends.heads, n) ELSE ends.heads
         IN  IF head /\ Len(ends.heads) >= MaxHeads THEN [ends EXCEPT !.ok = FALSE]
             ELSE IF leaf /\ Len(ends.leaves) >= MaxLeaves
                  THEN [ends EXCEPT !.heads = headed, !.ok = FALSE]
             ELSE [ends EXCEPT !.heads = headed,
                               !.leaves = IF leaf THEN Append(@, n) ELSE @]

VerifySorts ==
    LET ends == FoldLeft(Counted, [heads |-> <<>>, leaves |-> <<>>, ok |-> TRUE], nodes')
    IN  /\ Attempt /\ Edges.ok
        /\ Len(Sorted(Edges).sorted) = Len(nodes)
        /\ out_node_id' = Edges.out /\ in_node_id' = Edges.in
        /\ node_depth' = Sorted(Edges).depth
        /\ nodes' = Sorted(Edges).sorted
        /\ head_nodes' = ends.heads
        \* entries behind the last leaf node stay in the array
        /\ leaf_nodes' = ends.leaves
                           \o SubSeq(leaf_nodes, Len(ends.leaves) + 1, Len(leaf_nodes))
        /\ num_leaf_nodes' = Len(ends.leaves)
        /\ \/ ends.ok /\ verified' = TRUE /\ result' = "ok"
           \/ ~ends.ok /\ verified' = FALSE /\ result' = "ends"
        /\ UNCHANGED <<directions, parameters, changes>>

\* ownGraphGetPipeDepth, with isLeafNode: the depth a pipeline gets that the
\* application set none for.  All of the array leaf_nodes is looked through.
PipeDepth == Max({1} \cup {node_depth[n] : n \in ToSet(leaf_nodes)})

Change == \E p \in Params, r \in Ref \cup {NoRef} : SetParameter(p, r)
Next == Change \/ VerifyFindsEdges \/ VerifyFindsCycle \/ VerifySorts
Spec == Init /\ [][Next]_vars

-----------------------------------------------------------------------------

TypeOK ==
    /\ ToSet(nodes) = Node /\ Len(nodes) = Cardinality(Node)
    /\ \A p \in Params : RefOf(p) \in Ref \cup {NoRef}
    /\ \A n \in Node : /\ ToSet(out_node_id[n]) \subseteq Node /\ Len(out_node_id[n]) <= MaxLinks
                       /\ ToSet(in_node_id[n]) \subseteq Node /\ Len(in_node_id[n]) <= MaxLinks
    /\ node_depth \in [Node -> Nat \ {0}]
    /\ ToSet(head_nodes) \subseteq Node /\ Len(head_nodes) <= MaxHeads
    /\ ToSet(leaf_nodes) \subseteq Node /\ Len(leaf_nodes) <= MaxLeaves
    /\ num_leaf_nodes <= Len(leaf_nodes)
    /\ verified \in BOOLEAN /\ result \in {"none", "edges", "cycle", "ends", "ok"}

(* What the parameters say, without the lists: which node must come directly   *)
(* after which.  The node that modifies an object comes after the one that     *)
(* writes it, and the readers after the last of the two.                       *)
IsModified(r) == \E p \in Params : RefOf(p) = r /\ DirOf(p) = "bidirectional"
ComesBefore(p, q) ==
    /\ RefOf(p) = RefOf(q) /\ RefOf(p) # NoRef
    /\ \/ DirOf(p) = "output" /\ DirOf(q) = "bidirectional"
       \/ DirOf(p) = "bidirectional" /\ DirOf(q) = "input"
       \/ DirOf(p) = "output" /\ DirOf(q) = "input" /\ ~IsModified(RefOf(p))
Precedes(n, m) ==
    n # m /\ \E p \in ToSet(ParamsOf(n)), q \in ToSet(ParamsOf(m)) : ComesBefore(p, q)
Cyclic == \E S \in SUBSET Node : S # {} /\ \A m \in S : \E n \in S : Precedes(n, m)
Modified == \E p \in Params : DirOf(p) = "bidirectional"
Position(n) == SelectInSeq(nodes, LAMBDA m : m = n)

\* Without parameters that are modified in place, a node lists its writers as
\* in nodes exactly when they list it as an out node: what a node that completes
\* triggers, and what a node waits for, are the same edges, also after failed
\* verifications and after parameters were changed.  A list that is full is the
\* one exception: an out node without the in node is left behind, and only then.
Missing(n, m) == m \in ToSet(out_node_id[n]) /\ n \notin ToSet(in_node_id[m])
EdgesMirror ==
    ~Modified => \A n, m \in Node :
        /\ n \in ToSet(in_node_id[m]) => m \in ToSet(out_node_id[n])
        /\ Missing(n, m) => Len(in_node_id[m]) = MaxLinks

\* At the first verifications, without such parameters, a cycle is reported
\* exactly when the parameters have one, unless the graph is full.
CycleIffCyclic ==
    ~Modified /\ changes = 0 => /\ result = "cycle" => Cyclic
                                /\ result = "ok" /\ ~Full => ~Cyclic

\* In a graph that verifies, readers wait for their writers, and come behind
\* them: after changes or not, if nothing is modified in place; at the first
\* verifications, if a node that modifies an object waits for its writer only,
\* and nothing else waits for that writer.  The order, not the waiting, needs
\* a graph that is not full, and lists from which no earlier verification left
\* an edge with one end: the counters of the sort wrap over such an edge.
ModifiedAlone ==
    \A p \in Params : DirOf(p) = "bidirectional" =>
        \A n, m \in Node : /\ Precedes(n, p[1]) /\ Precedes(n, m) => m = p[1]
                           /\ Precedes(n, p[1]) /\ Precedes(m, p[1]) => n = m
WritersAwaited == \A n, m \in Node : Precedes(n, m) => n \in ToSet(in_node_id[m])
WritersFirst == \A n, m \in Node : Precedes(n, m) => Position(n) < Position(m)
Ordered == WritersAwaited /\ WritersFirst
OrderRespectsData ==
    result = "ok" /\ (~Modified \/ (changes = 0 /\ ModifiedAlone)) =>
        /\ WritersAwaited
        /\ ~Full /\ ~(\E n, m \in Node : Missing(n, m)) => WritersFirst

\* At the first verifications the depth of a node is the length of the longest
\* chain that ends in it, so that the depth of the pipeline is that of the
\* longest chain of all, unless the graph is full; and the head and leaf nodes
\* are the ends of the chains.
DepthAfter(m) == Max({0} \cup {node_depth[n] : n \in {x \in Node : Precedes(x, m)}})
DepthIsLongestChain ==
    ~Modified /\ changes = 0 /\ result = "ok" =>
        /\ ~Full => \A m \in Node : /\ node_depth[m] = 1 + DepthAfter(m)
                                     /\ node_depth[m] <= PipeDepth
        /\ ToSet(head_nodes) = {m \in Node : \A n \in Node : ~Precedes(n, m)}
        /\ ToSet(leaf_nodes) = {n \in Node : \A m \in Node : ~Precedes(n, m)}

\* A graph that verifies has its nodes in an order that its parameters allow:
\* checked to fail with an object that is modified in place.
VerifiedInOrder == result = "ok" => Ordered
===============================================================================
