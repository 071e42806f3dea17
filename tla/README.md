# A TLA+ model of the TIOVX framework

TIOVX is Texas Instruments' implementation of OpenVX with the pipelining and
streaming extensions.  An application builds a graph of nodes, verifies it and
lets it run; nodes run on *targets*, tasks on one or several CPU cores that
receive object descriptors through FIFO queues.  Graphs can be *pipelined*: up
to `pipeline_depth` runs of the same graph are under way at the same time.

The modules here model the framework (`source/framework`) and the queues and
events it stands on: how requests become runs, how runs move from target to
target, how data references move between the application and the nodes;
streaming, commands and events; and what happens to graphs and objects before
they run: verification, the removal of Copy and Move nodes, delays, references.

Contents: [Inventory](#inventory) · [Modules and code](#modules-and-code) ·
[Abstractions](#abstractions) · [Properties](#properties) ·
[Runs](#runs) · [Fairness](#fairness) · [Findings](#findings) ·
[Proofs](#proofs) · [Not modelled](#not-modelled) · [Plan](#plan)

## Inventory

All paths are under `src/source/framework` unless given in full.

| component | source | state | operations | hard behaviour | what makes it correct |
|---|---|---|---|---|---|
| graph scheduling | `vx_graph.c`, `vx_graph_pipeline.c` | `free_q`, `submitted_count`, `schedule_pending_count`, `complete_leaf_nodes`, graph and descriptor state, `all_graph_completed_event` | `vxScheduleGraph`, `vxWaitGraph`, `ownGraphScheduleGraph`, `ownCheckGraphCompleted` | counts that wander between fields and locals across critical sections, reads without the lock, an event that clears itself | no run is lost or invented; an instance is used by one run at a time; a wait covers what was scheduled before it |
| graph parameters | `vx_graph_pipeline.c` | ready and done queues, `num_enqueues`, `wait_done_ref_available_event` | enqueue of ready references, dequeue of done ones, blocking | an enqueue that fails half way, exclusivity of references, wake-ups | one run for each reference; a reference is in one place; dequeue returns |
| data reference queues | `vx_data_ref_queue.c`, `vx_target_acquire_parameters.c` | acquire and release queues, `in_node_done_cnt`, the reference of each instance, lists of blocked nodes | acquire, release, block, extract blocked nodes | several readers on several targets, the last releases; blocked nodes are woken outside the lock | nobody mixes the data of two runs; no node is lost or woken twice |
| targets | `vx_target.c` | job queues, descriptor flags and state, `blocked_node_id` | `ownTargetNodeDescNodeExecute` | flags without a lock, nodes of later instances, duplicate triggers | dependencies and the order of runs are kept |
| host target | `vx_target_on_host_cpu.c` | its job queue | node completed, reference consumed, user callbacks | a callback that abandons while the completion is handled | the state reported is that of the run |
| order of instances, links between nodes | `vx_node.c` | `prev_pipe_node_id`, `in_node_id`, `out_node_id` | built at verification | an instance that waits for the previous one | as for the targets |
| object descriptor queues | `vx_obj_desc_queue.c` | ring of ids, list of blocked nodes | enqueue, dequeue, add / extract blocked nodes | index arithmetic at the limit, the full list | a FIFO of bounded size |
| verification | `vx_graph_verify.c`, `vx_graph_sort.c` | lists of in and out nodes, depths, head and leaf nodes, graph descriptors | `vxVerifyGraph` | a graph that was verified before, also without success; objects modified in place; cycles | every node after those it depends on, and waiting for them; free queue holds free descriptors |
| events and queues of the OS | `../platform/common/os/posix/tivx_event.c`, `tivx_queue.c` | flag or ring, mutex, condition variables | wait, post, clear, get, put | lost wake-ups, spurious wake-ups, timeouts | a post wakes a waiter, FIFO, capacity |
| event queues | `vx_event_queue.c` | pool of events, free and ready indices | add, wait, enable | full pool, several waiting threads | an index is in one place; no event is overwritten before it is read |
| streaming | `vx_graph_stream.c` | `is_streaming`, its event queue and task | enable, start, stop, delete | stop against a run under way, waits with timeouts | stop returns and leaves no run; restart works |
| commands | `vx_context.c` | pool of command objects, free and pending queues | `ownContextSendCmd`, `ownContextSendControlCmd` | an acknowledgement that comes after the timeout | an acknowledgement meets its command |
| descriptors and sending | `vx_obj_desc.c` | descriptor table | allocate, free, send | a target on another core | a descriptor is freed once |
| references | `vx_reference.c`, `vx_context.c` | reference table and counts | create, retain, release, end of the context | two threads that release at the same time, destructors that release, collection of a table that they change | freed exactly once, not while used, and nothing is left |
| delays | `vx_delay.c`, `vx_parameter.c` | slots, associations, their pool | bind, rebind, age | binding after ageing, an empty pool | a bound parameter follows its slot |
| copy and swap optimisation | `vx_copy_swap.c` | the nodes of the graph and their lists, graph parameters | removal of Copy and Move nodes in `vxVerifyGraph` | one removal makes another possible; lists that do not agree; a second verification | the graph that is left computes the same, and is still in order |
| super nodes | `vx_super_node.c`, `vx_graph_supernode.c` | groups of nodes, their lists of edges | create, set target, configuration in `vxVerifyGraph` | neighbours that rewrite the same lists one after the other | a super node waits for, and triggers, what its members did; no cycle is missed |
| kernels, data objects, nodes, VXU, diagnostics, platform tables | the other files | tables, data layouts | constructors and accessors | none that an interleaving adds to | argument checks |

How they interact: the application *calls* the graph API under the lock of the
graph or the one system lock of the data reference queues; targets *receive
messages* (ids of object descriptors) in FIFO job queues from the application,
from each other and from themselves; the data reference queues and the node
descriptors are *shared memory* between all of them; the host target calls the
*callbacks* of the user and *posts events* that the application waits for.

`PROJECT.json` lists the components with their status, and the hazards of the
code at the lines where they bite, with the properties that cover them.

## Modules and code

| module | models | builds on |
|---|---|---|
| `GraphControl` | the bookkeeping of a graph: state and steps of the functions that work under the lock of the graph | |
| `GraphSchedule` | a graph as the API sees it: `GraphControl`, with a run as the set of leaf nodes it has still to complete | `GraphControl` |
| `PipelinedGraph` | the nodes, targets, queues and buffers that execute the runs, in detail | `GraphControl`, refines `GraphSchedule` |
| `BoundedFifo` | what a queue promises: first in, first out, no more than so many | |
| `OsQueue` | `tivx_queue.c`: a ring under a mutex with two condition variables | refines `BoundedFifo` |
| `OsEvent` | `tivx_event.c`: a flag with a condition variable, which clears itself | |
| `EventQueue` | `vx_event_queue.c`: events in a pool, indices in two queues | refines `BoundedFifo` |
| `ObjDescQueue` | `vx_obj_desc_queue.c`: the ring of ids and its count | refines `BoundedFifo` |
| `Streaming` | `vx_graph_stream.c`: the streaming task, the application and the host target | |
| `Commands` | `ownContextSendCmd` of `vx_context.c` and the targets that answer | |
| `Delay` | `vx_delay.c` and the parameters bound to a delay | |
| `GraphVerify` | the search for edges, the sort, head and leaf nodes in `vxVerifyGraph` | |
| `CopyMove` | `vx_copy_swap.c`: the removal of Copy and Move nodes in `vxVerifyGraph`, and graph parameters afterwards | `GraphVerify` |
| `SuperNode` | `vx_super_node.c`, `vx_graph_supernode.c`: groups of nodes that take part in the graph as one | `GraphVerify` |
| `References` | reference counts, the reference table, the end of the context | |
| `Capacities` | sizes of queues, with their assumption | |
| `MCGraphSchedule`, `MCPipelinedGraph`, `MCPipelines`, `MCLive`, `MCServices`, `MCObjects` | small instances for TLC | |
| `GraphSchedule_proofs`, `References_proofs` | the proofs about one component each | the component, TLAPS |
| `PipelinedGraph_proofs` | the proofs about `PipelinedGraph`, with the refinement of `GraphSchedule` | `PipelinedGraph`, TLAPS; `GraphSchedule_proofs` as an instance |
| `RunOrder_proofs` | the order of overlapping runs in `PipelinedGraph`, and the lists of blocked nodes | `PipelinedGraph_proofs` |
| `MCGraphSchedule_proofs`, `MCPipelines_proofs`, `MCServices_proofs`, `MCObjects_proofs` | the properties of the runs `GraphSchedule`, `Pipelines`, `Services` and `Objects`, for every value of the constants, and the proofs of the components that have no module of their own | the module of the run; the proofs above, extended or as instances |

`GraphSchedule` is the abstract specification of the runs, `PipelinedGraph` the
detailed one; both share the steps of `GraphControl`, and `PipelinedGraph` defines
the refinement mapping (`GS`). `BoundedFifo` is the abstract specification of three
queues: each maps its ring or its indices to a sequence. The sizes of these queues
are where the code uses them: the job queues of `PipelinedGraph` and `Commands`
and the events of `Streaming` are sequences, which is what `OsQueue` and
`EventQueue` are shown to implement.

### GraphControl

State: the fields of `vx_graph` (`graphState`, `freeQ`, `submitted`, `pending`,
`allDone`), of its descriptors (`descState`, `leafDone`), the lock, and the
locals of functions between two critical sections: `remaining` (what
`ownGraphScheduleGraph` has still to submit), `hostSched` (the schedule count
that `ownCheckGraphCompleted` took and schedules after unlocking), `hostAbandon`
(the descriptor that the callback's result will be written to), `pc` and `num`
for each thread of the application. History variables count runs asked for,
completed, and references.

| action | code |
|---|---|
| `VerifyControl` | `ownGraphAllocAndEnqueueObjDescForPipeline`, called by `vxVerifyGraph`: ids put into `free_q` |
| `EnqueueControl`, `EnqueueEnd`, `EnqueueFail` | `vxGraphParameterEnqueueReadyRef`, one step per reference; `ownGraphDoScheduleGraphAfterEnqueue` |
| `ScheduleCheck`, `ScheduleCount` | `vxScheduleGraph`: the state read without the lock, then `ownGraphGetNumSchedule` |
| `ScheduleLock`, `SubmitControl`, `ScheduleUnlock` | `ownGraphScheduleGraph`: the count with the pending requests, one step for each descriptor taken, what is left becomes pending |
| `LeafControl`, `CompleteControl`, `RescheduleLock`, `HostAbandons`, `AbandonControl` | `ownCheckGraphCompleted` and `ownTargetCmdDescHandleUserCallback` |
| `WaitCheck`, `WaitReturn` | `vxWaitGraph` |

Critical sections are one action where nobody else can see the middle. The
submission loop keeps the lock over several steps, because the nodes it has
already sent begin to run.

### PipelinedGraph

State: the job queue of each target and of the host; what the task of a target
does (`task`); the executed and blocked flags of the node descriptors;
`blocked_node_id` (`behind`); the data reference queues with the reference that
each instance holds, the count of readers and the list of blocked nodes; the
done queues with their event; references that a call still has to wake nodes for.
Two history variables give each reference the number of the run whose data it
holds (`frame`) and count what was dequeued.

`TakeJob … FinishNode` are the steps of `ownTargetNodeDescNodeExecute` in the
order of the code: the check of the executed flag and of the previous instance,
one step per parameter acquired (or the node blocks), the execution, one step
per parameter released, each blocked node woken, the message to the host, one
step per node triggered, and last the node of the next instance that waited.
`EnqueueReady`/`Retrigger` and `DequeueRef … DequeueWoken` are the calls of the
application; `RefConsumed` and `NodeCompletes` the commands of the host target.

### Queues and events

`OsQueue` has one step for each time a thread holds the mutex: a pass of the loop
of `tivxQueuePut` or `tivxQueueGet` (`PutPass`, `GetPass`), which returns or goes to
sleep, and `Resume`, `Expire` and `WakeSpuriously` for the condition variable.
`OsEvent` is the same for the flag. `EventQueue` cuts `ownEventQueueAddEvent` and
`ownWaitEventQueue` at the accesses to the queues of indices and to the pool
(`TakeIndex`, `Fill`, `Publish`; `Wait`, `Copy`, `Release`, `Return`), which are the
points where another thread can come in between.

### Streaming and commands

`Streaming` has three actors. The task of `ownStreamingPipeliningTask` takes START,
STOP, DELETE and the events of the trigger node from its queue, schedules the graph
and waits for it. The host target completes the trigger node and the runs; if the
trigger node is the leaf, its event comes after the completion of the run, so that
it may arrive after the next start. The application starts, stops and
releases, and another thread of it may be in `vxWaitGraph`. The runs themselves
are counters here. A callback may abandon a run: then the task ends at the next
STOP. `timed` chooses finite timeouts, of which any may expire at any time.

`Commands`: a call takes a command object (`GetObject`), sends it (`Send`) or fails
to, waits for the event of the object (`Acked`, `Expire`); the target executes the
command and sends the object back, the host target posts the event. `Proceed` is
`ownContextSendControlCmd`, which goes on to the next target of a node.

### Verification, Copy and Move nodes

`GraphVerify` models the search for edges (`Edges`, a fold over the parameters of
the nodes in the order of the code's four nested loops), the topological sort
(`Sorted`) with depths, and head and leaf nodes (`Counted`). Parameters may change between
verifications, and a verification may fail: at edges the code refuses, among them a node
that writes a uniform image, at a cycle, and where a table is full. The tables are
constants: the lists of in and out nodes of a node (`MaxLinks`), the arrays of head and
leaf nodes of a graph (`MaxHeads`, `MaxLeaves`), and its nodes (`MaxNodes`).

`CopyMove` takes `vxVerifyGraph` apart between the two: `Connect`, then one
`RemoveOutput`, `RemoveInput` or `RemoveEmbedded` per node, in the order of the
three loops of `ownGraphProcessCopyMoveNodes`, then `Finish`. The history variable
`given` is the graph as it was connected first. Two graphs are compared by what
they compute: `Run` executes each node once those it waits for are done, and
records what every node reads and what every object holds at the end; a race (two
nodes that use an object, one of which changes it, and do not wait for one another)
is recorded too, so that one order of execution stands for all.
`SetGraphParameter` sets the object that was moved to another node, in both graphs.

### Super nodes

`SuperNode` is of builds with `BUILD_BAM`. `CreateSuperNode` puts the node of the super
node behind the others in the graph and marks its members; `SetSuperNodeTarget`
changes their target. `Verify` takes the edges and the sorted list of `GraphVerify`
and then configures one super node after the other (`Configured`): members in
sorted order, one target, connected (`Touched`), and `EdgeList`, two folds over the
image parameters of the members, for their inputs (`Input`, with `FedBy` for the
neighbours' lists) and for what they write (`Output`, `Feeds`). At the end the sort is
repeated without the members (`Passed`).

### Delays and references

`Delay`: each slot has a list of bound parameters (`Bind`, `Unbind` for
`vxSetParameterByIndex`, with a pool of list elements that may be empty), and `Age`
moves the objects. `References`: `Decrement` is the step under the locks of
`ownDecrementReference`, `IsLast` the decision after it, `RemoveFromTable`,
`Destruct` (which releases what the object uses: calls nest) and `Free` follow;
`ReleaseContext` and `Collect` walk the table.

### Several parts in one state space

A run asks one question, of several parts where they are small. `MCServices`,
`MCObjects`, `MCPipelines`, `MCLive` and `MCGraphSchedule` have a variable (`part`,
`graph`, `mode`) chosen in the initial state; the part that is chosen moves, the
others stay as they are, so that the state space is the sum of theirs and not the
product. Where two graphs of different constants are in one module, one is the
module's own (EXTENDS) and the others are instances.

## Abstractions

- A kernel is one step. It marks the run of its inputs in its outputs; what it
  computes is not modelled. A node whose inputs are of different runs marks 0. In
  `CopyMove` it computes a term of what it reads.
- Queues between tasks are sequences. `vx_target.c` ignores a full job queue;
  `EachTriggeredOnce` shows that a descriptor is in it at most once.
- Sending to another core takes no time of its own: the job queue is the delay.
- `GraphControl` takes an enqueue call apart by reference. A reference may be
  refused at any point of the call, the reason is not modelled.
- `ownGraphClearState` and the sending of the head nodes are one step of
  `PipelinedGraph`: the first clears flags of an instance in which, after its
  previous run, only a duplicate trigger may still be waiting in a job queue, and
  such a trigger is looked at in a step of its own before or after.
- `PipelinedGraph` is for AUTO mode and one verification, one input parameter,
  all parameters of a node in data reference queues and each data at most once
  among the parameters of a node. References of the input are not given twice
  at the same time. Left out: delays, replicated nodes, pipe-up of source nodes.
- With one instance a node descriptor is its own previous one; it cannot be idle
  and blocked, so that `IsPrevPipeNodeBlocked` is false, as in the code.
- With as many blocked nodes as `TIVX_OBJ_DESC_QUEUE_MAX_BLOCKED_NODES` the code
  runs a node without its buffer. `GraphAssumption` excludes data with that many readers;
  that no list is full then, in however many runs these are blocked, is `BlockedFit`, a
  part of `TypesOK`.
- Time is not modelled: a finite wait may expire at any moment. That includes the
  early expiry of timeouts above 4294 s, whose microseconds `tivxQueueGet` reduces
  as 32 bits (`tivx_queue.c:443`).
- `Commands` has the flush of the pend queue (`ownContextFlushCmdPendQueue`) under
  the constant `Flushes`, as only a test calls it.
- `SuperNode` has one verification, no Copy or Move nodes, and no limit on the edges
  (`TIVX_SUPER_NODE_MAX_EDGES`). A super node has at least one member. `tivxCreateSuperNode`
  that is refused changes nothing and is left out; so is the case that the graph has
  no room for the super node, and the release of one.
- `GraphVerify` and `CopyMove` have objects without parts: elements of arrays and
  sub-images count only where `vx_copy_swap.c` asks for them (`Scope`, `FirstRef`,
  `PartRef`). Whether two objects can be copied at all is not modelled: they can.

## Properties

| property | part | what could go wrong |
|---|---|---|
| `RunsConserved` | GraphSchedule | a run lost or invented while its count is in a local |
| `DescriptorsConserved` | GraphSchedule | an instance handed out twice or lost |
| `EventMeansIdle`, `WaitSound` | GraphSchedule | `vxWaitGraph` returns although a run scheduled before is under way |
| `PendingOnlyWhenFull` | GraphSchedule | a pending request that no completion will ever find |
| `StateReportedInAuto` | GraphSchedule | the state of a run overwritten by another |
| `InductiveInEachMode` | GraphSchedule | the invariant of the proof, in AUTO and MANUAL mode: leaf nodes of an earlier run counted, more or fewer runs than references |
| `EachRunCompletes`, `WaitingThreadsReturn` | GraphSchedule, PipelinedGraph | lost requests, a deadlock over buffers, a lost event |
| `EachInOrder` | PipelinedGraph | data of two runs mixed, outputs swapped |
| `TypesOK` (`BlockedFit`) | PipelinedGraph | more nodes blocked on a queue than its array has room for |
| `EachRefConserved` | PipelinedGraph | a reference in two places or in none |
| `EachTriggeredOnce` | PipelinedGraph | a blocked node that nobody will trigger, or two triggers |
| `EachWaitsForNothingReady` | PipelinedGraph | a node left in the list of a queue that has a buffer |
| `EachPrecedence` | PipelinedGraph | a node before one it depends on |
| `EachImplements` | PipelinedGraph | a run that GraphSchedule does not allow |
| `NoLostWakeup` | OsQueue | threads asleep beside an element or a free place that nobody will tell them of |
| `EachPostWakesOne` | OsEvent | a post lost to a timeout, or one that wakes two |
| `EachInOnePlace` | EventQueue, Commands | an index or a command object that leaks, or has two owners |
| `QueuesAreFifo` | OsQueue, EventQueue, ObjDescQueue | elements lost, doubled or out of order over the wrap-around; an event overwritten before it is read |
| `StopMeansStopped` | Streaming | a run under way, or a start left, after a successful stop |
| `OneRunBegins` | Streaming | events of an earlier round of streaming that start runs in the next |
| `StreamingCallsEnd` | Streaming | stop or release waits for a task that has ended |
| `AcksMatchCommands` | Commands | a late acknowledgement taken for that of another command |
| `CommandEndsUndisturbed` | Commands | a call that waits for ever although its target answered |
| `AssociationsFindable`, `FollowsSlot` | Delay | a parameter in the lists of two slots, or with the object of another slot |
| `EdgesMirror` | GraphVerify, CopyMove | a node that waits for one that does not trigger it, or the reverse, or as often |
| `CycleIffCyclic`, `OrderRespectsData`, `DepthIsLongestChain` | GraphVerify | cycles missed or invented, a node before the writer of what it reads, a pipeline too shallow |
| `ResultsKept` | CopyMove | the graph without Copy nodes computes something else, or has a race |
| `SuperDependencies` | SuperNode | a super node that starts before its inputs are there, or never; a neighbour that is triggered twice |
| `SuperCycleIffCyclic` | SuperNode | super nodes that wait for each other accepted, or others rejected |
| `EdgeListComplete` | SuperNode | an input of a member with no source or two, an output that leaves by no port, two images on one port |
| `ReleasedOnceUnused` | References | two threads that both destroy, or one that destroys what is in use |
| `CountsMatchOwners` | References | counts that drift from the references there are; objects left when the context ends |

Several properties have a condition that the code needs: `StopMeansStopped` holds as
long as no stop timed out before, `FollowsSlot` as long as parameters are bound
before the first ageing, `EdgesMirror` and the others of `GraphVerify` without
objects modified in place and, where they say so, without full lists or a full graph,
`ResultsKept` for graphs that are `Regular`, those of
`SuperNode` for super nodes into and out of which only images pass that nobody
modifies (`PlainCrossings`) and, for the edges, for members that modify nothing. Outside of
them the code behaves differently, as the findings show, or as follows.

- *Streaming.* After a stop that timed out the task posts `stop_done` late, which the
  next stop takes for its own: it may return success with a START still queued.
  After a run that was abandoned the task is gone at the next STOP; a start succeeds
  all the same, and a stop after it times out, or waits for ever.
- *Delay.* When the pool is empty, a failed bind has removed the old association
  already (`lost`): the parameter keeps its object and no longer follows.
- *GraphVerify.* The lists of nodes are not emptied before a later verification. With
  parameters changed in between, a cycle may be reported that is not there, nodes may
  wait for others they no longer depend on, and depths only grow. If a verification
  failed because a node had `TIVX_NODE_MAX_IN_NODES` in nodes already, the writer that
  found no room lists the node, and the node does not list the writer
  (`vx_graph_verify.c:1026`, `Missing`). Once the parameters are changed so that the graph
  verifies, the notification of that writer is one too many: the sort takes the node
  before another of its writers, whose own notification brings the 16-bit counter from 0
  to 65535. `EdgesMirror` says that such an edge is left only where a list is full,
  `OrderRespectsData` that the order is right without one, and that the lists of in nodes
  are complete even then. In the part `limits` of the run `Objects` three nodes do it:
  n3 reads what n1 and n2 write, and n1 has n3's only place; n3 is changed to read
  something else than what n2 writes, and the second attempt ends in `"ok"` with the
  order n2, n3, n1, although n3 still reads what n1 writes.
- *GraphVerify, full graphs.* `ownGraphAddNode` allows `TIVX_GRAPH_MAX_NODES` nodes, and
  the sort does nothing unless there are fewer (`vx_graph_sort.c:119`, `Full`). `has_cycle`
  keeps its initial value: such a graph verifies with its nodes in the order in which they
  were created, all of depth 1, and also when it has a cycle, whose nodes then wait for one
  another in every run. The part `full` of `Objects` has these graphs; the properties say
  what is left: complete lists, head and leaf nodes.
- *CopyMove.* `Regular` leaves out the graphs of finding 7 (`Tapped`); graphs whose
  lists do not agree before any node is removed (`Sound`): for those the search of
  `ownCopyMoveRemoveNode` for a node in a list may run over its end
  (`vx_copy_swap.c:139`, `stage = "overrun"`); and, at a second verification, graphs in
  which a node that writes two objects has one of them modified in place. A node may
  be listed twice after a removal, and is then triggered twice. A graph may not
  verify again once a Copy node is removed that was the only reader of an object
  modified in place. That a Copy node is kept when another Copy node has the same
  input makes no difference to any result.
- *SuperNode.* The inputs of members are looked at only if they are images and
  `VX_INPUT`: a super node does not wait for the outside writer of an object of another
  type, nor for that of an image that a member modifies. A member that modifies an
  image is no source of it for the other members, which get an edge from a port of
  the super node as well as one from the member. When the list of in nodes of the
  super node is full the error is overwritten by the next neighbour that is in it
  already (`vx_graph_supernode.c:164`). A super node of `TIVX_SUPER_NODE_MAX_NODES` members is
  created but never verifies (`vx_graph_sort.c:238`). The lists that a configuration
  leaves make the topological sort of a later verification meet super nodes, or wait
  for them, and report a cycle.

## Runs

Every property of a passing run has in `PROJECT.json` a *mutant*: a faulty
variant of one definition, given near the head of its module, under which TLC
finds the property violated in that run.

| run | question | bounds |
|---|---|---|
| `GraphSchedule` | safety of scheduling, in AUTO mode with failing calls and in MANUAL mode with callbacks that abandon; waits at any time | 2 threads, 2 leaf nodes, 2 instances, 4 references (3 in MANUAL mode), 2 in a call |
| `Live` | every run completes and waits return, for a chain short of buffers and for `GraphSchedule` with abandoning callbacks | 2 instances; chain: 2 runs, 1 buffer, 1 output; `GraphSchedule`: 2 threads, 4 references |
| `Pipelines` | graphs that overtake themselves, for a chain, a fork with two leaf nodes and a join: order, wake-ups, references, and the runs of `GraphSchedule` | 2 instances each; chain: 3 runs, 3 inputs, 2 outputs, 2 buffers between the nodes; fork: 2 runs, 1 buffer with two readers; join: 2 runs, a thread that waits, a callback that abandons; 3 places for blocked nodes, one more than readers |
| `Services` | queues, events, streaming, commands | 3 threads on a queue of 2; 3 threads wait for 4 posts; 2 producers and 2 consumers on 2 indices; a ring of 3; 2 starts, 1 wait, 2 instances; 3 callers, 2 targets, 3 commands, 1 object, with the flush |
| `Objects` | delays, verification, Copy and Move nodes, super nodes, references | 3 parameters on 3 slots with 1 spare association; 3 nodes with 4 inputs on 4 objects, 1 change, 2 verifications: with ample limits (`verify`), with lists of 1 in and out node, 2 head nodes and a uniform image (`limits`), with a graph of as many nodes as it may have and 1 leaf node (`full`); 5 nodes of which 2 copy or move, 2 verifications; 4 nodes with 5 inputs on 2 targets, up to 2 super nodes out of 8 lists of members of which at most 3 are allowed in one; 2 threads, a graph, a node, an object, a table of 3 |
| `GraphScheduleAbandon`, `PipelinedGraphDuplicate`, `StreamingStop`, `CommandTimeouts`, `VerifyModified`, `DelayLateBind`, `CopyShared` | see [Findings](#findings) | |

Why the bounds are enough for the questions asked. Two instances with more
requests than instances give all kinds of overlap: a request that finds a free
descriptor, one that is left pending, one that meets a completion between its
two critical sections. A third run uses an instance again. Two threads show
what one does between two steps of another; a third one is there where two must be
asleep while one moves (`OsQueue`, `OsEvent`). For nodes, the interesting case is
a shortage of one buffer at one place: each graph has a place with fewer buffers
than runs, at the input, between nodes or at the output. The fork was also run by
itself with three runs. One command object among three callers makes every
reuse of an object happen. Three slots are the least for which the order of
slots matters; three nodes the least with a chain beside an edge, and four the
least with two super nodes of two members that are neighbours. The graphs of
`Objects` are all ways to connect their parameters within the shapes given in
`MCObjects`. A table that is full is a table of one or two entries: what the code does
then depends on whether there is room, not on how much there was. Leaf nodes, threads and references of one graph parameter are
interchangeable, and runs without liveness use that as symmetry. Requests,
posts, commands and verifications are bounded, so that the system stops in
the end; this is the only reason for `CHECK_DEADLOCK FALSE`.

NORMAL mode is covered by the theorems only. In `Streaming`, `TaskIsStopped` (STOP for
a task that is idle) never happens within the bounds: START comes before every STOP.

## Fairness

Weak fairness throughout, for tasks that the code keeps running: a task that has
a descriptor in its queue handles it (`ownTargetTaskMain` blocks in
`tivxQueueGet` only), the host task finishes what it began, a thread inside a
call goes on. No fairness for the application's decision to make a call, for a
reference to be refused, a callback to abandon or a timeout to expire. Completion
in the chain of `Live` also needs the application to give output references and to
dequeue what is done, as the pipelining extension asks of it; the input is not
fair. Locks are held for a bounded number of steps, so that weak fairness of the
one who wants it suffices in the runs. In `Streaming` the task, the host target and
the return of calls are fair, and so are targets and callers in `Commands`.

## Findings

Each is a run that ends in a counterexample; `PROJECT.json` quotes the text that
the code disagrees with.

1. `PipelinedGraphDuplicate`. `TIVX_NODE_FLAG_IS_EXECUTED` is set and read by
   several targets without synchronisation (`vx_target.c:329`). The in-nodes of
   a join that are on different targets may finish together, each sees both
   flags and each triggers the join. The second trigger is dropped while the
   executed flag is set; if the next run has cleared it by then, the join
   executes before its in-nodes. With one request (`MaxRequest = 1`) the same
   configuration has no violation: the duplicate does harm in the next run only.
2. `GraphScheduleAbandon`. When a callback of the last leaf node abandons the
   graph, the run is already reported as completed.
3. `StreamingStop`. The streaming task and the application may both be in
   `vxWaitGraph`, whose event wakes one of them: a thread of the application that
   takes it leaves the task, and with it `vxStopGraphStreaming`, waiting for ever.
4. `CommandTimeouts`. The object of a command that timed out is put into
   `pend_queue`, which nothing but a test empties. After as many timeouts as there
   are objects every command waits for an object.
5. `VerifyModified`. A node that modifies an object in place loses the edges found
   before from the writers of its other inputs (`vx_graph_verify.c:1095`).
6. `DelayLateBind`. A parameter bound to a delay that was aged is put into the
   list of another slot (`vx_delay.c:117`).
7. `CopyShared`. A Copy node from a virtual object to one of the application is
   removed although another node reads the virtual object, because only other Copy
   and Move nodes are looked at (`vx_copy_swap.c:393`). That node then reads the
   object of the application, and does not wait for, nor keep off, a node that
   modifies it.

Three more are reproduced by a change of the constants of `GraphSchedule`.
`MaxVerify = 2`: `vxVerifyGraph` adds all descriptors to `free_q` each time, and
`DescriptorsConserved` fails. `Mode = "MANUAL"` with the invariant `RunsHaveReferences`:
`vxScheduleGraph` reads `graph->state` without the lock, and counts the references of
pending runs a second time when the host has completed an instance and not yet
rescheduled them. `Rewait = TRUE` under `FairSpec` with `WaitReturns`: a
`vxWaitGraph` with no execution outstanding waits for an event that an earlier
wait took.

## Proofs

What TLC finds on small instances is proved here for every value of the constants:
any number of threads, nodes, objects, instances, requests, timeouts and spurious
wake-ups, and any size of a queue, a pool or a table. `PROJECT.json` lists the
theorems. Every safety property of `GraphSchedule`, `Pipelines` and `Services` is among
them, and of `Objects` those about references and delays.

| module | properties | from |
|---|---|---|
| `GraphSchedule_proofs` | `TypeOK`, `RunsConserved`, `DescriptorsConserved`, `EventMeansIdle`, `PendingOnlyWhenFull`, `RunsMatchReferences`, `WaitSound` | `GraphControl`'s assumptions, `MaxVerify = 1` |
| `GraphSchedule_proofs`, `StateSoundness` | `StateReported` | the same, no callback that abandons at a leaf node |
| `MCGraphSchedule_proofs` | `InductiveInEachMode`, and the properties above but for `RunsMatchReferences`, with the mode as a variable; `StateReportedInAuto` | the same |
| `PipelinedGraph_proofs` | `Ranges`, `TriggeredOnce`, `RefsConserved`, `WaitsForNothingReady`, `Precedence`, the refinement of `GraphSchedule` | `GraphAssumption`, `GraphParameters` |
| `RunOrder_proofs` | `FramesInOrder`, `TypeOK` | the same and `NodesRead` |
| `MCPipelines_proofs` | `TypesOK`, `EachInOrder`, `EachTriggeredOnce`, `EachRefConserved`, `EachWaitsForNothingReady`, `EachPrecedence`, `EachImplements` | `GraphsAssumption` |
| `MCServices_proofs` | `TypesOK`, `NoLostWakeup`, `EachPostWakesOne`, `EachInOnePlace`, `QueuesAreFifo`, `StopMeansStopped`, `OneRunBegins`, `AcksMatchCommands` | `CapacityAssumption`, `ServicesAssumption` |
| `MCObjects_proofs` | `ReleasedOnceUnused`, `CountsMatchOwners` | `ObjectsAssumption` |
| `MCObjects_proofs` | `AssociationsFindable`, `FollowsSlot` | `DelayAssumption` |
| `References_proofs` | `LiveWhileUsed`, `OneReleaser`, `CountsMatchOwners`, nothing left at the end | `ReferenceParameters` |

The assumptions name what the constants are. Sets of threads whose members are counted
are finite, sizes are positive (`CapacityAssumption`), bounds are natural numbers, what
stands for nobody or nothing is different from everything else. Those with more in them:
the pipeline depth is below the size of the free queue, as `tivxSetGraphPipelineDepth`
ensures, and the set of leaf nodes is finite and not empty (`GraphControl`); the host
target is a target (`ServicesAssumption`); objects use one another without a cycle
(`ReferenceParameters`; a graph, its nodes and their parameters in `MCObjects`, where this
is proved). TLC evaluates each `ASSUME` on the instances of the runs.
`MaxVerify = 1` is the condition that the graph is verified once: with a second
verification `DescriptorsConserved` is false (see [Findings](#findings)).

`GraphParameters` is what the theorems about `PipelinedGraph` need of a graph, beyond
`GraphAssumption`: finitely many nodes; lists of nodes, parameters and references
without duplicates; a reference belongs to one data; what is written is a parameter of
its writer, whose out-nodes the readers are; the data that starts runs is read; there
is no cycle and every node leads to a leaf node (the set of all nodes is the only one that
has all leaf nodes and, with each node, its in-nodes); and the nodes that another one
waits for are on one target. The last is a restriction of the code, not of the model: the
run `PipelinedGraphDuplicate` (finding 1) is a graph without it, and `Precedence` is false
there. `NodesRead` says that every node reads something. A source node, whose data is
of no input, has no place in an order of inputs; it is needed for the order of the data
only. `GraphsAssumption` says all of this of the chain, the fork and the join, and TLC
evaluates it there.

None of the properties is inductive alone. TLC checked each invariant below before it
was proved.

*Graphs.* `IInv` (in `GraphSchedule`) is also checked by the run, in AUTO and MANUAL mode
(`InductiveInEachMode`). `FlightInv` ties `submitted_count` to the set of instances with
leaf nodes to complete, so that the counter never goes below zero and `free_q` never
overflows; `LeavesCounted` shows that the last leaf node counted is the last one there is;
`LockInv` says that the counts agree whenever the lock is free, and that NORMAL mode
leaves nothing pending; `CallInv` bounds what a waiting thread may expect, and says who
may hold the lock; `FreshInv` is about the graph before it is verified. `WaitSoundness`
is an action property: with the event set nothing is owed (`EventMeansIdle`), and what
the thread waits for was returned (`CallInv`). `StateInv` adds that the descriptor of a
run under way says whether a callback abandoned that run, in every mode.
`MCGraphSchedule_proofs` takes this to the run, where the mode is a variable: AUTO is the
module's own graph, MANUAL an instance of the proofs.

*Nodes, targets and queues* (`Detail` in `PipelinedGraph_proofs`). The invariant is about
where a node descriptor is going to be triggered from: a job queue, the list of blocked
nodes of a queue, the list a call or a task has extracted, `blocked_node_id`, or the task
that acquires for it. It is in one of these places at most (`OnePlace`), in each once
(`ListsInv`), and in one at all exactly when it is *due*: its run is under way, it is not
executed, and all its in-nodes are and have looked at it already (`DueInv`). The last half
sentence is what a join needs: an in-node that is executed but has not come to its
`out_node_id` yet will look at the join, so that nobody else may have triggered it,
and for in-nodes on one target the one that looks last is the only one that finds all
flags set. `BlockedInv` says that blocked nodes are due, and whose `blocked_node_id`
names whom; `ExecInv` that between two runs of an instance all flags are set, or none is,
so that clearing them triggers and loses nothing. For the references, `HeldInv` counts
who has released the data of a run against `in_node_done_cnt`, so that the last one
to release it is the last reader, or the writer if nobody reads it (`LastReleases`: the
writer asks for the number of consumers, not for the count); `PrmInv` says that what a task works on is still what the
descriptor holds; `RefInv` that the queues and descriptors divide the references
among them. `HostInv` follows the messages to the host: each node reports once, and
while a report of a run is queued some leaf node of that run is still to come, so that
no report meets a descriptor that was reused. `Inv` adds `IInv` of `GraphSchedule` under
the refinement mapping: the leaf nodes left of a run are those that are not executed,
still release, or whose report the host has not taken. The mapping is proved step by
step, and the induction of `Inv` uses what `GraphSchedule` says of the free descriptors.

*Order of runs* (`OrderInv` in `RunOrder_proofs`). Runs are numbered as they are submitted,
and `RunOf` computes the number of the run in an instance from `done` and the pipeline
depth: instances are used in turn, because a run completes at the head of `free_q`'s order
(`RunsNumbered`, `FreeInOrder`). A node is executed in one run after the other
(`ExecutedInOrder`), and that this survives blocking is the heart of the
proof: if a node of a later run is blocked while that of an earlier one is not executed,
then the earlier one is blocked as well, or its target acquires for it, and the later one
is in `blocked_node_id` of the instance before it and in no list (`BlockedInOrder`); and
in a job queue no instance stands before an earlier one that is due
(`JobsInOrder`). The host hears of a leaf node in that order too (`ReportsInOrder`), so
that runs complete as they were submitted. With that, the runs take the references of a
queue one after the other (`FedInv`, `GivenInv`), and a reference that an instance holds,
once written, is of its run (`HeldFrames`).

The same argument bounds the lists of blocked nodes (`ListsFit`): two instances of a node
are never in one list, so that at most the readers and the writer of the data are, and
these fit. That is the only way in which the array of
`TIVX_OBJ_DESC_QUEUE_MAX_BLOCKED_NODES` is large enough whatever the pipeline depth.

*The chain, the fork and the join* (`MCPipelines_proofs`). `MCPipelines` has one of three
graphs, of which the chain is the module's own and the others are instances of
`PipelinedGraph`. The proofs are instantiated for these two, and lemmas (`ForkNext`,
`JoinNext`, ...) say that the instances of the proofs and of the model have the same
steps and properties.

*The platform's queue* (in `MCServices_proofs`, like the next four). A call that sleeps is
at an end of the queue whose calls may wait (`QueueCalls`); with that `NoLostWakeup` is
inductive, over counts of the threads asleep and signalled. The refinement reads the ring
as a sequence (`Window`): a put appends to it, a get takes its head.

*The platform's event* is small enough that `NoLostPost` and `OneWakeForAPost` are inductive with
the type.

*Event queues.* The counts of an index in the two rings and in the calls between their
steps add up to one, which makes the pool safe to write without the lock; the sequence
of events is `ready_queue` mapped through the pool, and a producer has written what it
publishes (`EventsInHand`).

*Commands.* `ObjectInOnePlace` counts each object over the free and the pending queue,
the calls and the lost ones. `Matched` follows the messages: an object
is with one target or its event is set (`OneMessage`), only while a call waits for
it or it is pending (`UsedWhileUnanswered`), and it has the number of that call's command,
executed or not as far as the object went (`CommandsInObjects`). A flush breaks this
half of the invariant, and `flushed` excuses it.

*Streaming* (`StreamInv`). Until a stop times out or the task
fails, START and STOP alternate and the graph runs only between them (`Undisturbed`);
events of a round are in the queue before the START of the next (`RoundInv`, with
`NotBehind` as the order of two kinds of events). That the callers may stop and start
again at any time is why the invariant must speak of the whole queue of events.

*References* (`References_proofs`). The counts of an object are the references of other
objects and of the application, with the ones that a release on its way is about to
take off (`CountsInv`); the call that saw zero is the only one (`FinalInv`); the table
lists the valid objects but for those on their way to be freed (`TableInv`). What the last
`vxReleaseContext` leaves is the deepest argument: the pass over the table has released
every reference of the application, so an object that is left is used by another that
is left, and without a cycle there is none (`NothingLeft`). Calls nest, so what is
counted is the places of all calls of all threads, each thread having a stack of them
(`Places`).

*Delays* (`DelayInv` in `MCObjects_proofs`). `InStep`: as long as nothing is bound after
an ageing, every listed parameter holds the object of the slot it is listed at, and a
slot with parameters is where its object says (`delay_slot_index`). Ageing rotates both.

*Composition.* The modules of proofs about a run extend the module of the run. A step of
the run is a step of one part and leaves the others unchanged. Where the proofs of a part
are a module of their own, it is instantiated (`ManualP`, `ForkP`, `JoinP`, `CountsP`), and
where the run's module has an instance of the part as well, a lemma says that the two
have the same definitions.

Only model-checked, because the prover does not reach it:

- liveness and fairness: `StreamingCallsEnd`, `CommandEndsUndisturbed`, `EachRunCompletes`,
  `WaitingThreadsReturn`;
- what recursive functions and folds compute, which takes an induction over data:
  `Edges`, `Sorted`, `SplicedAll`, `EdgeList`, and with them `EdgesMirror`, `CycleIffCyclic`,
  `OrderRespectsData`, `DepthIsLongestChain`, `ResultsKept`, `SuperDependencies`,
  `SuperCycleIffCyclic`, `EdgeListComplete`, and `TypesOK` of `Objects`, most of which is
  about their results. The rest of that `TypesOK`, the types of references and delays, is
  part of the invariants in `MCObjects_proofs`.

## Not modelled

- *Numerical code and data layouts*: kernels under `src/kernels`, images, tensors
  and other data objects, and their mapping and copying. They are most of the lines
  of the repository, and sequential functions of their arguments.
- *Constructors and accessors*: the functions that create nodes (`vx_node_api.c`),
  query attributes or check arguments; `VXU`, which builds a graph and runs it.
- *Tables*: kernels and kernel instances, modules, the configuration of targets.
- *Descriptors and sending between cores* (`vx_obj_desc.c` and the ports): sending is
  an append to a job queue; the ports to other cores belong to the platform.
- *The rest of verification*: validation of parameters and allocation of buffers are
  calls of kernels and allocators. The kernels that run a super node on a target
  (`vx_bam_supernode_target.c`) are numerical code.
- *Parts of modelled components*: named in the note of each component in
  `PROJECT.json`; among them replicated nodes, pipe-up of source nodes and delays in
  `PipelinedGraph`, the deprecated and bulk variants of enqueue and dequeue, delays
  of pyramids and object arrays, import and export of handles.
- *Diagnostics, wrappers of the operating system without state, tests and tools.*

## Plan

1. *Done*: `GraphControl`, `GraphSchedule` with proofs, `PipelinedGraph` with
   refinement; `EventQueue`, `OsQueue`, `ObjDescQueue` with the refinement of
   `BoundedFifo`; `OsEvent`, `Streaming`, `Commands`; `Delay`, `GraphVerify`, `CopyMove`,
   `SuperNode`, `References`.
2. *Done*: the proofs about the services, references and delays.
3. *Done*: the proofs about `PipelinedGraph`, its refinement of `GraphSchedule`, the order
   of its runs, and the graphs of the runs `GraphSchedule` and `Pipelines`.
4. A second verification in `SuperNode`, beside `CopyMove`; pipe-up of source nodes in
   `PipelinedGraph`.
5. The results of `GraphVerify`, `CopyMove` and `SuperNode` for lists of any length: an
   induction over the parameters of the nodes, for a prover that can instantiate one.
