------------------------------ MODULE CopyMove ------------------------------
(* The removal of Copy and Move nodes while a graph is verified, between the   *)
(* search for its edges and the sort of its nodes: vx_copy_swap.c, and the     *)
(* graph parameter that it reassigns, which the application sets afterwards.   *)
EXTENDS Integers, FiniteSets, SequencesExt

CONSTANTS Node, Ref, NoRef, VirtualRef, MaxLinks,
          CopyNode, MoveNode, \* the nodes of these kernels, apart
          Scope,            \* per reference: what it is an element of, if anything
          FirstRef,         \* the references that are first in what they are elements of
          PartRef,          \* sub-images, images of a channel, sub-tensors
          Graphs,           \* the graphs to start from: nodes, directions, parameters
                            \* and the node and the index of a graph parameter
          MaxVerify         \* bound: verifications

VARIABLES
    nodes,                  \* graph->nodes
    directions, parameters, \* per node, as in GraphVerify
    out_node_id, in_node_id,
    graph_parameter,        \* graph->parameters[0]: its node and index
    params_list,            \* its other parameters
    stage                   \* how far vxVerifyGraph is

\* History: the graph as it was before nodes were removed, with the values that
\* the application set since; verifications so far.
VARIABLES given, attempts

vars == <<nodes, directions, parameters, out_node_id, in_node_id, graph_parameter,
          params_list, stage, given, attempts>>

\* No uniform images, and no graph has as many nodes as it may.
Verify == INSTANCE GraphVerify WITH
    UniformRef <- {}, MaxNodes <- Cardinality(Node) + 1,
    MaxHeads <- Cardinality(Node), MaxLeaves <- Cardinality(Node),
    NodeOrder <- <<>>, MaxChange <- 0, node_depth <- [n \in Node |-> 1],
    head_nodes <- <<>>, leaf_nodes <- <<>>, num_leaf_nodes <- 0, verified <- FALSE,
    result <- "none", changes <- 0

\* Faulty variants, for the mutants of the properties.
IsModified_Never(n) == FALSE
Without_TheLast(list, n) == Front(list)

First(n) == parameters[n][1]
Second(n) == parameters[n][2]
ParamsIn(ns) == FlattenSeq([i \in DOMAIN ns |-> Verify!ParamsOf(ns[i])])
\* The parameters of other nodes that have the reference r in the direction d.
Elsewhere(n, r, d) ==
    {p \in ToSet(ParamsIn(nodes)) : p[1] # n /\ Verify!RefOf(p) = r /\ Verify!DirOf(p) = d}

-----------------------------------------------------------------------------
(* When a node may be removed                                               *)

\* ownCopyMoveReplaceOutputCompatible, for objects with the same attributes
ReplaceCompatible(new, old) ==
    IF Scope[old] # "none" THEN Scope[new] = Scope[old] /\ {new, old} \subseteq FirstRef
                           ELSE old \notin PartRef

\* makeCopyMoveNodeList
CopyMoveNodes == SelectSeq(nodes, LAMBDA n : n \in CopyNode \cup MoveNode)
HasSibling(n) == \E m \in ToSet(CopyMoveNodes) \ {n} : First(m) = First(n)
IsModified(n) == Elsewhere(n, Second(n), "bidirectional") # {}

\* A Move node whose first parameter another node reads
MoveIsRead == \E n \in ToSet(nodes) \cap MoveNode : Elsewhere(n, First(n), "input") # {}

OutputRemovable(n) ==
    /\ First(n) \in VirtualRef /\ Second(n) \notin VirtualRef
    /\ n \in CopyNode => ~HasSibling(n)
    /\ ReplaceCompatible(Second(n), First(n))

InputRemovable(n) ==
    /\ First(n) \notin VirtualRef /\ Second(n) \in VirtualRef
    /\ n \in CopyNode => ~IsModified(n)
    /\ ReplaceCompatible(First(n), Second(n))

EmbeddedRemovable(n) ==
    /\ First(n) \in VirtualRef /\ Second(n) \in VirtualRef
    /\ n \in CopyNode =>
          /\ ~HasSibling(n)
          /\ \A m \in ToSet(in_node_id[n]) : Len(out_node_id[m]) > 1 => ~IsModified(n)
    /\ ReplaceCompatible(First(n), Second(n))

-----------------------------------------------------------------------------
(* ownCopyMoveRemoveNode: the node leaves the lists of its in and out nodes,   *)
(* which get each other's nodes.  What is listed twice stays so.  The search   *)
(* for the node in a list has no end if it is not there.                       *)

Without(list, n) ==
    Front([list EXCEPT ![SelectInSeq(list, LAMBDA x : x = n)] = Last(list)])
Joined(list, more) == SubSeq(list \o more, 1, Min({Len(list) + Len(more), MaxLinks}))

Spliced(s, n, m, more) ==
    IF s.status # "ok" THEN s
    ELSE IF n \notin ToSet(s.lists[m]) THEN [s EXCEPT !.status = "overrun"]
    ELSE [s EXCEPT !.lists[m] = Joined(Without(@, n), more),
                   !.status = IF Len(s.lists[m]) - 1 + Len(more) > MaxLinks THEN "failed" ELSE "ok"]
SplicedAll(lists, status, n, ms, more) ==
    FoldLeft(LAMBDA s, m : Spliced(s, n, m, more), [lists |-> lists, status |-> status], ms)

\* The last node takes the place of the node that is removed.
NodesWithout(n) == Without(nodes, n)

RemoveNode(n, old, new) ==
    LET in  == SplicedAll(in_node_id, "ok", n, out_node_id[n], in_node_id[n])
        out == SplicedAll(out_node_id, in.status, n, in_node_id[n], out_node_id[n])
    IN  /\ parameters' = [m \in DOMAIN parameters |->
                             IF m = n \/ m \notin ToSet(nodes) THEN parameters[m]
                             ELSE [k \in DOMAIN parameters[m] |->
                                      IF parameters[m][k] = old THEN new ELSE parameters[m][k]]]
        /\ in_node_id' = in.lists /\ out_node_id' = out.lists
        /\ nodes' = IF out.status = "ok" THEN NodesWithout(n) ELSE nodes
        /\ stage' = IF out.status = "ok" THEN stage ELSE out.status
        /\ UNCHANGED <<directions, params_list, given, attempts>>

\* ownReassignGraphParameter: to the first parameter left with that reference and
\* direction, if there is one
Reassign(n, k, r, d) ==
    LET left == SelectSeq(ParamsIn(nodes'),
                          LAMBDA p : parameters'[p[1]][p[2]] = r /\ Verify!DirOf(p) = d)
    IN  graph_parameter' =
            IF n \notin ToSet(nodes') /\ graph_parameter = <<n, k>> /\ left # <<>>
            THEN Head(left) ELSE graph_parameter

-----------------------------------------------------------------------------
(* vxVerifyGraph                                                            *)

InitWith(g) ==
    /\ given = g
    /\ nodes = g.nodes /\ directions = g.directions /\ parameters = g.parameters
    /\ graph_parameter = g.graph_parameter
    /\ out_node_id = [n \in Node |-> <<>>] /\ in_node_id = [n \in Node |-> <<>>]
    /\ params_list = {} /\ stage = "created" /\ attempts = 0
Init == \E g \in Graphs : InitWith(g)

\* ownGraphCalcInAndOutNodes, and the nodes that Move may not have
Connect ==
    /\ stage \in {"created", "verified"} /\ attempts < MaxVerify
    /\ attempts' = attempts + 1
    /\ out_node_id' = Verify!Edges.out /\ in_node_id' = Verify!Edges.in
    /\ stage' = IF ~Verify!Edges.ok \/ MoveIsRead THEN "failed" ELSE "output"
    /\ given' = IF attempts > 0 THEN given
                ELSE [f \in DOMAIN given \cup {"in", "out"} |->
                         IF f = "in" THEN in_node_id' ELSE IF f = "out" THEN out_node_id'
                         ELSE given[f]]
    /\ UNCHANGED <<nodes, directions, parameters, graph_parameter, params_list>>

\* ownGraphProcessCopyMoveNodes: the first node that may be removed is, until
\* there is none: first those that write what the application reads, then those
\* that read what it writes, then those in between.
FirstWith(Removable(_), n) ==
    LET removable == SelectSeq(CopyMoveNodes, Removable)
    IN  removable # <<>> /\ n = Head(removable)

RemoveOutput(n) ==
    /\ stage = "output" /\ FirstWith(OutputRemovable, n)
    /\ RemoveNode(n, First(n), Second(n)) /\ Reassign(n, 2, Second(n), "output")

RemoveInput(n) ==
    /\ stage = "input" /\ FirstWith(InputRemovable, n)
    /\ RemoveNode(n, Second(n), First(n)) /\ Reassign(n, 1, First(n), "input")

RemoveEmbedded(n) ==
    /\ stage = "embedded" /\ FirstWith(EmbeddedRemovable, n)
    /\ RemoveNode(n, Second(n), First(n)) /\ UNCHANGED graph_parameter

NextStage(this, Removable(_), next) ==
    /\ stage = this /\ \A n \in ToSet(CopyMoveNodes) : ~Removable(n)
    /\ stage' = next
    /\ UNCHANGED <<nodes, directions, parameters, out_node_id, in_node_id,
                   graph_parameter, params_list, given, attempts>>

\* The sort of the nodes that are left, and ownGraphLinkParameters
Finish ==
    LET sorted == Verify!Sorted([in |-> in_node_id, out |-> out_node_id]).sorted
    IN  /\ stage = "sort"
        /\ \/ /\ Len(sorted) = Len(nodes)
              /\ nodes' = sorted /\ stage' = "verified"
              /\ params_list' = {p \in ToSet(ParamsIn(nodes)) \ {graph_parameter} :
                                    Verify!RefOf(p) = Verify!RefOf(graph_parameter)}
           \/ /\ Len(sorted) # Len(nodes)
              /\ stage' = "failed" /\ UNCHANGED <<nodes, params_list>>
        /\ UNCHANGED <<directions, parameters, out_node_id, in_node_id, graph_parameter,
                       given, attempts>>

With(ps, params, r) ==
    [n \in DOMAIN params |-> [k \in DOMAIN params[n] |->
        IF <<n, k>> \in ps THEN r ELSE params[n][k]]]

\* vxSetGraphParameterByIndex, with an object that is like the one before and has
\* no other use in the graph
SetGraphParameter(r) ==
    /\ stage = "verified"
    /\ r \notin VirtualRef
    /\ \A p \in ToSet(ParamsIn(given.nodes)) :
           r \notin {given.parameters[p[1]][p[2]], Verify!RefOf(p)}
    /\ parameters' = With({graph_parameter} \cup params_list, parameters, r)
    /\ given' = [given EXCEPT !.parameters =
                    With({p \in ToSet(ParamsIn(given.nodes)) :
                             @[p[1]][p[2]] = @[given.graph_parameter[1]][given.graph_parameter[2]]},
                         @, r)]
    /\ UNCHANGED <<nodes, directions, out_node_id, in_node_id, graph_parameter,
                   params_list, stage, attempts>>

Next ==
    \/ Connect \/ Finish
    \/ \E n \in Node : RemoveOutput(n) \/ RemoveInput(n) \/ RemoveEmbedded(n)
    \/ NextStage("output", OutputRemovable, "input")
    \/ NextStage("input", InputRemovable, "embedded")
    \/ NextStage("embedded", EmbeddedRemovable, "sort")
    \/ \E r \in Ref : SetGraphParameter(r)

Spec == Init /\ [][Next]_vars

-----------------------------------------------------------------------------

TypeOK ==
    /\ ToSet(nodes) \subseteq ToSet(given.nodes) /\ IsInjective(nodes)
    /\ \A p \in ToSet(ParamsIn(nodes)) : Verify!RefOf(p) \in Ref \cup {NoRef}
    /\ \A n \in Node : /\ ToSet(out_node_id[n]) \subseteq Node /\ Len(out_node_id[n]) <= MaxLinks
                       /\ ToSet(in_node_id[n]) \subseteq Node /\ Len(in_node_id[n]) <= MaxLinks
    /\ {graph_parameter} \cup params_list \subseteq ToSet(ParamsIn(given.nodes))
    /\ stage \in {"created", "output", "input", "embedded", "sort", "verified", "failed",
                  "overrun"}

(* What a run of a graph computes, when each node waits for its in nodes: what  *)
(* every node reads, and what is in every reference in the end.  A graph has a  *)
(* race if two nodes use a reference, and one of them writes it, that do not    *)
(* wait for one another.                                                        *)

Executed(g, s, n) ==
    LET ks    == DOMAIN g.directions[n]
        ref   == g.parameters[n]
        read  == [k \in ks |-> IF g.directions[n][k] = "output" THEN "none" ELSE s.memory[ref[k]]]
        value == [r \in {ref[k] : k \in ks} |-> 
                    IF n \in CopyNode THEN read[1]
                    ELSE IF n \in MoveNode THEN IF r = ref[2] THEN read[1] ELSE "moved"
                    ELSE LET k == CHOOSE k \in ks : ref[k] = r
                         IN  IF g.directions[n][k] = "input" THEN s.memory[r]
                             ELSE <<n, k, read>>]
        before == UNION {s.before[m] \cup {m} : m \in ToSet(g.in[n])}
        writes(m) == {g.parameters[m][k] : k \in {k \in DOMAIN g.directions[m] :
                                                     g.directions[m][k] # "input"}}
        uses(m) == ToSet(g.parameters[m]) \ {NoRef}
    IN  [s EXCEPT !.done = @ \cup {n},
                  !.read[n] = IF n \in CopyNode \cup MoveNode THEN <<>> ELSE read,
                  !.memory = [r \in DOMAIN @ |-> IF r \in DOMAIN value /\ r # NoRef
                                                 THEN value[r] ELSE @[r]],
                  !.before[n] = before,
                  !.race = @ \/ \E m \in s.done \ before :
                                   ((writes(m) \cap uses(n)) \cup (uses(m) \cap writes(n)))
                                       \ {NoRef} # {}]

Run(g) ==
    FoldLeft(LAMBDA s, i :
                 LET ready == {n \in ToSet(g.nodes) \ s.done : ToSet(g.in[n]) \subseteq s.done}
                 IN  IF ready = {} THEN s ELSE Executed(g, s, CHOOSE n \in ready : TRUE),
             [done |-> {}, read |-> [n \in Node |-> <<>>],
              memory |-> [r \in Ref \cup {NoRef} |-> r],
              before |-> [n \in Node |-> {}], race |-> FALSE],
             g.nodes)
Now == [nodes |-> nodes, directions |-> directions, parameters |-> parameters,
        in |-> in_node_id]
Completes(run, g) == run.done = ToSet(g.nodes) /\ ~run.race

\* In nodes and out nodes are the same edges, as often.
Occurrences(list, n) == Cardinality({i \in DOMAIN list : list[i] = n})
Mirrored(in, out, ns) ==
    \A n \in ns : /\ ToSet(in[n]) \cup ToSet(out[n]) \subseteq ns
                  /\ \A m \in ns : Occurrences(out[n], m) = Occurrences(in[m], n)
\* The graph could be run as it was: nodes wait for those that trigger them, there
\* is no race, and no one reads a virtual object that no one writes.
GivenUses(r, d) == {p \in ToSet(ParamsIn(given.nodes)) :
                       given.parameters[p[1]][p[2]] = r /\ given.directions[p[1]][p[2]] = d}
Sound ==
    /\ attempts > 0
    /\ Mirrored(given.in, given.out, ToSet(given.nodes))
    /\ Completes(Run(given), given)
    /\ \A r \in VirtualRef : GivenUses(r, "output") = {} => GivenUses(r, "input") = {}

\* A Copy node reads what others read; Copy and Move nodes end in an object of the
\* application, and what one of them writes is modified on the way.
Tapped ==
    LET copied == {given.parameters[n] : n \in ToSet(given.nodes) \cap (CopyNode \cup MoveNode)}
    IN  /\ \E n \in ToSet(given.nodes) \cap CopyNode :
               GivenUses(given.parameters[n][1], "input") # {<<n, 1>>}
        /\ \E c \in copied : c[2] \notin VirtualRef
        /\ \E c \in copied : GivenUses(c[2], "bidirectional") # {}

\* Nothing is modified, or every node writes one object: the lists of an earlier
\* verification do not mislead the search for edges.
WritesOne ==
    \/ \A r \in Ref : GivenUses(r, "bidirectional") = {}
    \/ \A n \in ToSet(given.nodes) :
           Cardinality({k \in DOMAIN given.directions[n] : given.directions[n][k] = "output"}) <= 1
Regular == Sound /\ ~Tapped /\ (attempts = 1 \/ WritesOne)

\* Every node reads what it read, and the application's objects hold in the end
\* what they held, if it was not moved away.
Kept ==
    LET before == Run(given)
        after  == Run(Now)
    IN  /\ Completes(after, Now)
        /\ \A n \in ToSet(nodes) : after.read[n] = before.read[n]
        /\ \A r \in Ref \ VirtualRef :
               before.memory[r] = "moved" \/ after.memory[r] = before.memory[r]

\* Removing nodes, also when the graph is verified again, keeps what a node waits for
\* and what triggers it the same edges, as often; no search runs over the end of a
\* list.
StaysMirrored ==
    Regular =>
        \/ stage = "failed"
        \/ stage # "overrun" /\ Mirrored(in_node_id, out_node_id, ToSet(nodes))

\* The graph that is left computes what the graph computed with all its Copy and
\* Move nodes, also with the values that the application sets afterwards.
ResultsKept == Regular /\ stage = "verified" => Kept

\* So for every graph that could be run: checked to fail.
AlwaysKept == Sound /\ stage = "verified" => Kept
===============================================================================
