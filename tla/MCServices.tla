------------------------------ MODULE MCServices ------------------------------
(* The services beside the execution of graphs, each alone: the queues and    *)
(* events, streaming, and the commands between targets.  They do not share    *)
(* state, and one state space holds all of them: one part runs, and the       *)
(* others stay in their initial state.  The commands keep their names, the    *)
(* other parts are instances.                                                 *)
EXTENDS Commands

CONSTANTS Thread, Data, NoData, BlockOnGet, BlockOnPut,     \* OsQueue
          Waiter, MaxPost,                                  \* OsEvent
          Producer, Consumer, Event, NoEvent,               \* EventQueue
          Desc, NoDesc, User,                               \* ObjDescQueue
          Depth, MaxStart, MaxWait, QueueSize               \* Streaming

ASSUME ServicesAssumption ==
    /\ IsFiniteSet(Thread) /\ IsFiniteSet(Producer) /\ IsFiniteSet(Consumer)
    /\ MaxPost \in Nat
    /\ Depth \in Nat \ {0} /\ MaxStart \in Nat /\ MaxWait \in Nat /\ QueueSize \in Nat
    /\ IsFiniteSet(Caller) /\ HostTarget \in Target /\ MaxCmd \in Nat

VARIABLES
    part,
    ring, ring_rd, ring_wr, ring_count, queue_call, got,
    is_set, waiter, waiter_timed, posts, wakes,
    enable, free_index, ready_queue, event_list, adding, taking,
    queue_mem, cur_rd, cur_wr, count, held,
    events, state, task, is_streaming, is_streaming_error, is_streaming_alloc, stop_done,
    delete_done, all_graph_completed, trigger_is_leaf, timed, app, appWaits, graph_state,
    fresh, past, pending, hostSched, owed, starts, waits, lastStop, lateStop

OsQ == INSTANCE OsQueue WITH
    cur_rd <- ring_rd, cur_wr <- ring_wr, count <- ring_count, call <- queue_call
OsE == INSTANCE OsEvent WITH timed <- waiter_timed
EvQ == INSTANCE EventQueue WITH free_queue <- free_index
DescQ == INSTANCE ObjDescQueue
Str == INSTANCE Streaming

osQueueVars == <<ring, ring_rd, ring_wr, ring_count, queue_call, got>>
osEventVars == <<is_set, waiter, waiter_timed, posts, wakes>>
eventQueueVars == <<enable, free_index, ready_queue, event_list, adding, taking>>
descQueueVars == <<queue_mem, cur_rd, cur_wr, count, held>>
streamVars ==
    <<events, state, task, is_streaming, is_streaming_error, is_streaming_alloc, stop_done,
      delete_done, all_graph_completed, trigger_is_leaf, timed, app, appWaits, graph_state,
      fresh, past, pending, hostSched, owed, starts, waits, lastStop, lateStop>>
servicesVars == <<part, osQueueVars, osEventVars, eventQueueVars, descQueueVars, streamVars,
                  cmdVars>>

-----------------------------------------------------------------------------

\* The initial state chooses the part that runs.
ServicesInit ==
    /\ part \in {"osQueue", "osEvent", "eventQueue", "descQueue", "streaming", "commands"}
    /\ OsQ!Init /\ OsE!Init /\ EvQ!Init /\ DescQ!Init /\ Str!Init /\ Init

ServicesNext ==
    /\ UNCHANGED part
    /\ \/ part = "osQueue" /\ OsQ!Next
       \/ part # "osQueue" /\ UNCHANGED osQueueVars
    /\ \/ part = "osEvent" /\ OsE!Next
       \/ part # "osEvent" /\ UNCHANGED osEventVars
    /\ \/ part = "eventQueue" /\ EvQ!Next
       \/ part # "eventQueue" /\ UNCHANGED eventQueueVars
    /\ \/ part = "descQueue" /\ DescQ!Next
       \/ part # "descQueue" /\ UNCHANGED descQueueVars
    /\ \/ part = "streaming" /\ Str!Next
       \/ part # "streaming" /\ UNCHANGED streamVars
    /\ \/ part = "commands" /\ Next
       \/ part # "commands" /\ UNCHANGED cmdVars

ServicesSpec ==
    ServicesInit /\ [][ServicesNext]_servicesVars /\ Str!Fairness /\ Fairness

-----------------------------------------------------------------------------
(* The properties of the parts                                              *)

\* The type invariant of each part.
TypesOK ==
    OsQ!TypeOK /\ OsE!TypeOK /\ EvQ!TypeOK /\ DescQ!TypeOK /\ Str!TypeOK /\ TypeOK

\* tivxQueueGet, tivxQueuePut: no wake-up is lost.
NoLostWakeup == OsQ!NoLostWakeup

\* tivxEventPost, tivxEventWait: no post is lost, and none wakes two threads.
EachPostWakesOne == OsE!NoLostPost /\ OsE!OneWakeForAPost

\* ownEventQueueAddEvent, ownWaitEventQueue, ownContextSendControlCmd: no index of
\* an event and no command object leaks or has two users.
EachInOnePlace == EvQ!IndexInOnePlace /\ ObjectInOnePlace

\* The queues of the operating system, of events and of object descriptors are
\* bounded first-in first-out queues.
QueuesAreFifo == OsQ!QueueIsFifo /\ EvQ!EventsAreFifo /\ DescQ!DescriptorsAreFifo

\* vxStopGraphStreaming ends what vxStartGraphStreaming began, one round of
\* streaming is over before the next, and the calls return.
StopMeansStopped == Str!StopMeansStopped
OneRunBegins == Str!OneRunBegins
StreamingCallsEnd == Str!StopEndsUndisturbed /\ Str!ReleaseEnds

\* ownContextSendControlCmd: acknowledgements and commands match, and nothing is left
\* in a free object.
AcksMatchCommands == AckIsForCommand /\ FreeObjectIsIdle
===============================================================================
