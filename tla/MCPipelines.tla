----------------------------- MODULE MCPipelines -----------------------------
(* A chain, a fork and a join, with two pipeline instances each, in one state *)
(* space: the initial state chooses the graph.  The chain has the constants   *)
(* of the configuration.                                                      *)
EXTENDS MCPipelinedGraph

CONSTANT a
VARIABLE graph
graphVars == <<vars, graph>>

Fork == INSTANCE PipelinedGraph WITH
    Node <- {A, B, C}, Leaf <- {B, C}, Data <- {in, x, out},
    Ref <- {i1, i2, x1, o1},
    OutNodes <- ForkOut, TargetOf <- ForkTargets, Params <- ForkParams,
    Producer <- ForkProducer, Refs <- ForkRefs, MaxRequest <- 2

Join == INSTANCE PipelinedGraph WITH
    Node <- {A, B, C, J}, Leaf <- {J}, Data <- {in, x, y, z, out},
    Ref <- {i1, i2, x1, y1, y2, z1, o1},
    OutNodes <- JoinOut, TargetOf <- JoinOnOneTarget, Params <- JoinParams,
    Producer <- JoinProducer, Refs <- JoinFewRefs, Waiter <- {a}, MaxRequest <- 2,
    CallbackNode <- {J}, CallbackAtLeaf <- TRUE

\* The theorems about PipelinedGraph are about graphs like these.
ASSUME GraphsAssumption ==
    /\ GraphParameters /\ NodesRead
    /\ Fork!LeafAssumption /\ Fork!GraphAssumption /\ Fork!GraphParameters
    /\ Fork!NodesRead
    /\ Join!LeafAssumption /\ Join!ActorAssumption /\ Join!GraphAssumption
    /\ Join!GraphParameters /\ Join!NodesRead

GraphsInit == \/ graph = "chain" /\ Init
              \/ graph = "fork" /\ Fork!Init
              \/ graph = "join" /\ Join!Init
GraphsNext == /\ UNCHANGED graph
              /\ \/ graph = "chain" /\ Next
                 \/ graph = "fork" /\ Fork!Next
                 \/ graph = "join" /\ Join!Next
GraphsSpec == GraphsInit /\ [][GraphsNext]_graphVars

-----------------------------------------------------------------------------

(* The properties of PipelinedGraph, of the graph that was chosen.            *)

\* The type invariant.
TypesOK == /\ graph = "chain" => TypeOK
           /\ graph = "fork" => Fork!TypeOK
           /\ graph = "join" => Join!TypeOK

\* Data of different runs is not mixed, and results come out in order.
EachInOrder == /\ graph = "chain" => FramesInOrder
               /\ graph = "fork" => Fork!FramesInOrder
               /\ graph = "join" => Join!FramesInOrder

\* No node that is blocked is forgotten, and none is triggered twice.
EachTriggeredOnce == /\ graph = "chain" => TriggeredOnce
                     /\ graph = "fork" => Fork!TriggeredOnce
                     /\ graph = "join" => Join!TriggeredOnce

\* Every reference is in one place.
EachRefConserved == /\ graph = "chain" => RefsConserved
                    /\ graph = "fork" => Fork!RefsConserved
                    /\ graph = "join" => Join!RefsConserved

\* No node is left in the list of a queue that has a reference.
EachWaitsForNothingReady == /\ graph = "chain" => WaitsForNothingReady
                            /\ graph = "fork" => Fork!WaitsForNothingReady
                            /\ graph = "join" => Join!WaitsForNothingReady

\* Nodes are executed after those they depend on.
EachPrecedence ==
    [][/\ graph = "chain" => StepPrecedence
       /\ graph = "fork" => Fork!StepPrecedence
       /\ graph = "join" => Join!StepPrecedence]_graphVars

\* The nodes, targets and queues run the graph as GraphSchedule says.
EachImplements ==
    /\ /\ graph = "chain" => GS!Init
       /\ graph = "fork" => Fork!GS!Init
       /\ graph = "join" => Join!GS!Init
    /\ [][/\ graph = "chain" => UNCHANGED GS!vars \/ GS!Next
          /\ graph = "fork" => UNCHANGED Fork!GS!vars \/ Fork!GS!Next
          /\ graph = "join" => UNCHANGED Join!GS!vars \/ Join!GS!Next]_graphVars
==============================================================================
