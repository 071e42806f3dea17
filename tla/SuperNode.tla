------------------------------ MODULE SuperNode ------------------------------
(* Super nodes, of builds with BUILD_BAM: nodes of one graph that a target runs *)
(* as one.  Verification puts the node of the super node into the lists of its   *)
(* neighbours, in the place of its members, and lists the edges that the target  *)
(* connects the members by: vx_super_node.c, vx_graph_supernode.c, vx_graph_sort.c. *)
(* The edges it starts from are those of GraphVerify.                           *)
EXTENDS Integers, FiniteSets, SequencesExt

CONSTANTS Node, SuperNode, \* a super node is one with its own node in the graph
          NoSuper, Ref, NoRef,
          ImageRef,         \* the references to images: only they make edges
          Target, NodeOrder, MaxLinks,
          MaxMembers,       \* TIVX_SUPER_NODE_MAX_NODES
          Graphs,           \* directions, parameters and targets to start from
          MemberLists       \* what tivxCreateSuperNode is called with

VARIABLES
    nodes,                  \* graph->nodes
    supernodes,             \* graph->supernodes
    super,                  \* per node: super_node
    members,                \* per super node: its array nodes
    directions, parameters, target,
    out_node_id, in_node_id,\* per node, those of super nodes included
    node_depth,
    edge_list,              \* per super node: [src, port, dst, dst_port]
    result                  \* of the verification; bound: there is one

vars == <<nodes, supernodes, super, members, directions, parameters, target,
          out_node_id, in_node_id, node_depth, edge_list, result>>

All == Node \cup SuperNode
PlainNodes == SelectSeq(nodes, LAMBDA n : n \in Node)

\* No uniform images, and no graph has as many nodes as it may.
V == INSTANCE GraphVerify WITH
    UniformRef <- {}, MaxNodes <- Cardinality(All) + 1,
    MaxHeads <- Cardinality(All), MaxLeaves <- Cardinality(All),
    Node <- All, VirtualRef <- {}, MoveNode <- {}, MaxChange <- 0, MaxVerify <- 1,
    nodes <- PlainNodes,
    directions <- [n \in All |-> IF n \in Node THEN directions[n] ELSE <<>>],
    head_nodes <- <<>>, leaf_nodes <- <<>>, num_leaf_nodes <- 0, verified <- FALSE, changes <- 0, attempts <- 0

\* Faulty variants, for the mutants of the properties.
Representative_Member(n) == n
PortOf_Fresh(external, r) == Len(external) + 1

-----------------------------------------------------------------------------

InitWith(g) ==
    /\ nodes = NodeOrder /\ supernodes = <<>>
    /\ super = [n \in Node |-> NoSuper] /\ members = [s \in SuperNode |-> <<>>]
    /\ directions = g.directions /\ parameters = g.parameters
    /\ target = g.target @@ [s \in SuperNode |-> CHOOSE t \in Target : TRUE]
    /\ out_node_id = [n \in All |-> <<>>] /\ in_node_id = [n \in All |-> <<>>]
    /\ node_depth = [n \in All |-> 1] /\ edge_list = [s \in SuperNode |-> <<>>]
    /\ result = "none"
Init == \E g \in Graphs : InitWith(g)

\* tivxCreateSuperNode.  The nodes given may have been listed twice: that is found
\* at the verification.
CreateSuperNode(s, given) ==
    /\ result = "none" /\ s \notin ToSet(nodes)
    /\ Len(given) <= MaxMembers
    /\ \A n \in ToSet(given) : n \in Node /\ super[n] = NoSuper
    /\ nodes' = Append(nodes, s) /\ supernodes' = Append(supernodes, s)
    /\ super' = [n \in Node |-> IF n \in ToSet(given) THEN s ELSE super[n]]
    /\ members' = [members EXCEPT ![s] = given]
    /\ UNCHANGED <<directions, parameters, target, out_node_id, in_node_id,
                   node_depth, edge_list, result>>

\* tivxSetSuperNodeTarget
SetSuperNodeTarget(s, t) ==
    /\ result = "none" /\ s \in ToSet(nodes)
    /\ target' = [n \in All |-> IF n = s \/ n \in ToSet(members[s]) THEN t ELSE target[n]]
    /\ UNCHANGED <<nodes, supernodes, super, members, directions, parameters, out_node_id,
                   in_node_id, node_depth, edge_list, result>>

(* ownGraphCalcEdgeList.  The fold's value e has the lists of all nodes, the    *)
(* edges and the external references found, and the status that was assigned  *)
(* last.                                                                       *)

Uses(n, dirs) == {k \in DOMAIN directions[n] : directions[n][k] \in dirs}
Matching(n, dirs, r) == SelectSeq([k \in DOMAIN directions[n] |-> k],
                                  LAMBDA k : k \in Uses(n, dirs) /\ parameters[n][k] = r)
ImageParams(n, dirs) == SelectSeq([k \in DOMAIN directions[n] |-> k],
                                  LAMBDA k : k \in Uses(n, dirs) /\ parameters[n][k] \in ImageRef)

\* The other nodes, from the one behind n around to the one before it.
Others(sorted, n) ==
    LET i == SelectInSeq(sorted, LAMBDA m : m = n)
    IN  SubSeq(sorted, i + 1, Len(sorted)) \o SubSeq(sorted, 1, i - 1)

\* The node that stands for a node of the graph outside of the super node at hand.
Representative(n) == IF super[n] = NoSuper THEN n ELSE super[n]

\* s gets an in node, and takes the place of its member n with the producer m.
FedBy(e, s, n, m) ==
    IF ~V!Fits(e.in[s], Representative(m)) THEN [e EXCEPT !.ok = FALSE]
    ELSE [e EXCEPT !.in[s] = V!AddIfAbsent(@, Representative(m)),
                   !.out[m] = V!Replaced(@, n, s), !.ok = TRUE]
Feeds(e, s, n, m) ==
    IF ~V!Fits(e.out[s], Representative(m)) THEN [e EXCEPT !.ok = FALSE]
    ELSE [e EXCEPT !.out[s] = V!AddIfAbsent(@, Representative(m)),
                   !.in[m] = V!Replaced(@, n, s), !.ok = TRUE]

\* The number of an external reference: that of its first use, or the next one.
PortOf(external, r) ==
    IF r \in ToSet(external) THEN SelectInSeq(external, LAMBDA x : x = r)
    ELSE Len(external) + 1

\* The input k of the member n of s, of which one node may be the producer.
Input(e, s, sorted, n, k) ==
    LET r == parameters[n][k]
        producers == SelectSeq(Others(sorted, n), LAMBDA m : Matching(m, {"output"}, r) # <<>>)
        linked == FoldLeft(LAMBDA f, m : IF super[m] = s THEN f ELSE FedBy(f, s, n, m),
                           e, producers)
    IN  IF \E m \in ToSet(producers) : super[m] = s THEN linked
        ELSE [linked EXCEPT
                  !.edges = Append(@, [src |-> NoSuper, port |-> PortOf(e.external, r),
                                       dst |-> n, dst_port |-> k]),
                  !.external = V!AddIfAbsent(@, r)]

\* r leaves the super node by one port, however many read it.
Exported(e, n, k) ==
    LET r == parameters[n][k]
    IN  IF r \in ToSet(e.external) THEN e
        ELSE [e EXCEPT !.edges = Append(@, [src |-> n, port |-> k, dst |-> NoSuper,
                                            dst_port |-> Len(e.external) + 1]),
                       !.external = Append(@, r)]

\* The output k of the member n of s: all that read or modify it.
Output(e, s, sorted, n, k) ==
    LET dirs == {"input", "bidirectional"}
        r == parameters[n][k]
        Read(f, m, j) ==
            IF super[m] = s
            THEN [f EXCEPT !.edges = Append(@, [src |-> n, port |-> k, dst |-> m, dst_port |-> j])]
            ELSE Feeds(Exported(f, n, k), s, n, m)
        read == FoldLeft(LAMBDA f, m : FoldLeft(LAMBDA g, j : Read(g, m, j),
                                                f, Matching(m, dirs, r)),
                         e, Others(sorted, n))
    IN  IF \E m \in Node \ {n} : super[m] = s /\ Matching(m, dirs, r) # <<>> THEN read
        ELSE Exported(read, n, k)

EdgeList(e, s, sorted) ==
    LET mine == SelectSeq(sorted, LAMBDA n : super[n] = s)
        inputs == FoldLeft(LAMBDA f, n : FoldLeft(LAMBDA g, k : Input(g, s, sorted, n, k),
                                                  f, ImageParams(n, {"input"})),
                           [out |-> e.out, in |-> e.in, edges |-> <<>>, external |-> <<>>,
                            ok |-> TRUE], mine)
        outputs == FoldLeft(LAMBDA f, n :
                                FoldLeft(LAMBDA g, k : Output(g, s, sorted, n, k),
                                         f, ImageParams(n, {"output", "bidirectional"})),
                            [inputs EXCEPT !.external = <<>>], mine)
        done == IF inputs.ok THEN outputs ELSE inputs
    IN  [e EXCEPT !.out = done.out, !.in = done.in, !.ok = done.ok,
                  !.edges[s] = IF inputs.ok THEN outputs.edges ELSE @]

\* ownGraphCheckContinuityOfSupernode: the members found from the first one.
Touched(e, s, mine) ==
    FoldLeft(LAMBDA found, i : found \cup
                 {m \in ToSet(mine) : \E n \in found : m \in ToSet(e.out[n]) \cup ToSet(e.in[n])},
             {mine[1]}, mine)

\* ownGraphSuperNodeConfigure for one super node: the members, the target, the
\* connections and the edges, once those before it have succeeded.
Configured(e, s, sorted) ==
    LET mine == SelectSeq(sorted, LAMBDA n : super[n] = s)
        \* entries behind the last member found stay in the array
        copied == [e EXCEPT !.members[s] = mine \o SubSeq(@, Len(mine) + 1, Len(@))]
    IN  IF ~e.ok THEN e
        ELSE IF /\ Len(members[s]) = Len(mine)
                /\ \A n \in ToSet(mine) : target[n] = target[mine[1]]
                /\ Len(mine) < MaxMembers
                /\ Cardinality(Touched(e, s, mine)) = Len(mine)
             THEN EdgeList(copied, s, sorted)
             ELSE V!Failed(copied)

\* ownGraphCheckSupernodeCycles: the sort again, without the members.
Visible(n) == n \in SuperNode \/ super[n] = NoSuper
Passed(e, all) ==
    LET seen == SelectSeq(all, Visible)
        Step(t) == FoldLeft(V!Notified,
                            [t EXCEPT !.stack = Front(@), !.passed = @ + 1], e.out[Last(t.stack)])
    IN  FoldLeft(LAMBDA t, i : IF t.stack = <<>> THEN t ELSE Step(t),
                 [incounter |-> [n \in All |-> Len(e.in[n])],
                  stack |-> SelectSeq(seen, LAMBDA n : e.in[n] = <<>>), passed |-> 0],
                 seen).passed = Len(seen)

(* vxVerifyGraph up to the super nodes, the first time.  The topological sort   *)
(* puts the super nodes behind the other nodes.                                *)

Outcome(edges, sorted) ==
    FoldLeft(LAMBDA e, s : Configured(e, s, sorted),
             [out |-> edges.out, in |-> edges.in, edges |-> edge_list,
              members |-> members, ok |-> TRUE],
             supernodes)
Acyclic(e, sorted) == supernodes = <<>> \/ Passed(e, sorted \o supernodes)

VerifyFails(edges) ==
    /\ out_node_id' = edges.out /\ in_node_id' = edges.in
    /\ result' = "edges"
    /\ UNCHANGED <<nodes, members, edge_list>>

\* The super nodes are changed up to the one that fails.
VerifyConfigures(edges, sorted) ==
    \E e \in {Outcome(edges, sorted)} :
        /\ nodes' = sorted \o SelectSeq(nodes, LAMBDA n : n \in SuperNode)
        /\ members' = e.members /\ edge_list' = e.edges
        /\ out_node_id' = e.out /\ in_node_id' = e.in
        /\ \/ ~e.ok /\ result' = "rejected"
           \/ e.ok /\ ~Acyclic(e, sorted) /\ result' = "cycle"
           \/ e.ok /\ Acyclic(e, sorted) /\ result' = "ok"

Verify ==
    LET edges == V!Edges
        sort == V!Sorted(edges)
        in_order == edges.ok /\ Len(sort.sorted) = Len(PlainNodes)
    IN  /\ result = "none"
        /\ \/ ~in_order /\ VerifyFails(edges)
           \/ in_order /\ VerifyConfigures(edges, sort.sorted)
        /\ node_depth' = IF edges.ok THEN sort.depth ELSE node_depth
        /\ UNCHANGED <<supernodes, super, directions, parameters, target>>

Create == \E s \in SuperNode, given \in MemberLists : CreateSuperNode(s, given)
SetTarget == \E s \in SuperNode, t \in Target : SetSuperNodeTarget(s, t)
Next == Create \/ SetTarget \/ Verify
Spec == Init /\ [][Next]_vars

-----------------------------------------------------------------------------

TypeOK ==
    /\ ToSet(nodes) = Node \cup ToSet(supernodes) /\ IsInjective(nodes)
    /\ ToSet(supernodes) \subseteq SuperNode
    /\ super \in [Node -> SuperNode \cup {NoSuper}]
    /\ \A s \in SuperNode : ToSet(members[s]) = {n \in Node : super[n] = s}
    /\ target \in [All -> Target]
    /\ \A n \in All : ToSet(out_node_id[n]) \cup ToSet(in_node_id[n]) \subseteq All
    /\ result \in {"none", "edges", "rejected", "cycle", "ok"}

(* What the parameters and the super nodes say, without the lists: u comes before *)
(* v when one of its nodes directly precedes one of those of v.                    *)
Stands(n) == IF super[n] = NoSuper THEN n ELSE super[n]
Vertices == {Stands(n) : n \in Node}
Before(u, v) == u # v /\ \E n, m \in Node : Stands(n) = u /\ Stands(m) = v /\ V!Precedes(n, m)
CyclicBetween == \E S \in SUBSET Vertices : S # {} /\ \A v \in S : \E u \in S : Before(u, v)

\* Only images, and none that is modified in place, pass into or out of super nodes.
Users(r) == {n \in Node : \E k \in DOMAIN parameters[n] : parameters[n][k] = r}
Crosses(r) == \E n \in Users(r) : super[n] # NoSuper /\ \E m \in Users(r) : super[m] # super[n]
PlainCrossings ==
    \A r \in Ref : Crosses(r) => r \in ImageRef /\ ~V!IsModified(r)

\* The data flow of a graph with super nodes is kept: after the configuration a
\* node or super node triggers, once, exactly those that use its data, and waits
\* for exactly those whose data it uses, whichever super nodes are neighbours
\* and in whatever order they were created.
Lists(l, S) == IsInjective(l) /\ ToSet(l) = S
SuperDependencies ==
    result \in {"ok", "cycle"} /\ PlainCrossings /\ V!ModifiedAlone =>
        \A u \in Vertices : /\ Lists(out_node_id[u], {v \in Vertices : Before(u, v)})
                            /\ Lists(in_node_id[u], {v \in Vertices : Before(v, u)})

\* Super nodes that wait for each other, or for a node that waits for them, are
\* rejected, and no others are rejected for that.
SuperCycleIffCyclic ==
    result \in {"ok", "cycle"} /\ PlainCrossings /\ V!ModifiedAlone =>
        (result = "cycle" <=> CyclicBetween)

\* The edges that the target connects the members by: each input image has one
\* source, the member that writes it or the port of the super node that is the
\* reference's, and two references never share a port; each image that a
\* member writes and another member does not read leaves by one port.  (A member that
\* modifies an image counts as no source of it: its readers get two.)
NoneModified == \A n \in Node : super[n] # NoSuper => Uses(n, {"bidirectional"}) = {}
Writer(s, r) == {n \in Node : super[n] = s /\ Matching(n, {"output"}, r) # <<>>}
InputEdges(s, n, k) == {x \in ToSet(edge_list[s]) : x.dst = n /\ x.dst_port = k}
ReferenceOf(x) == IF x.src = NoSuper THEN parameters[x.dst][x.dst_port]
                                     ELSE parameters[x.src][x.port]
EdgeListComplete ==
    result \in {"ok", "cycle"} /\ NoneModified =>
        \A s \in ToSet(supernodes) : LET edges == ToSet(edge_list[s]) IN
            /\ IsInjective(edge_list[s])
            /\ \A n \in ToSet(members[s]) : \A k \in ToSet(ImageParams(n, {"input"})) :
                   LET from == InputEdges(s, n, k)
                       r == parameters[n][k]
                   IN  IF Writer(s, r) = {} THEN Cardinality(from) = 1 /\ \A x \in from : x.src = NoSuper
                       ELSE /\ from # {}
                            /\ \A x \in from : x.src # NoSuper /\ parameters[x.src][x.port] = r
            /\ \A n \in ToSet(members[s]) : \A k \in ToSet(ImageParams(n, {"output"})) :
                   \/ \E x \in edges : x.src = n /\ x.port = k /\ x.dst # NoSuper
                   \/ Cardinality({x \in edges : x.src = n /\ x.port = k /\ x.dst = NoSuper}) = 1
            /\ \A x, y \in edges :
                   /\ x.src = NoSuper /\ y.src = NoSuper =>
                          (x.port = y.port <=> ReferenceOf(x) = ReferenceOf(y))
                   /\ x.dst = NoSuper /\ y.dst = NoSuper =>
                          (x.dst_port = y.dst_port <=> ReferenceOf(x) = ReferenceOf(y))
==============================================================================
