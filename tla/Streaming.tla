------------------------------ MODULE Streaming ------------------------------
(* vx_graph_stream.c: a task that keeps a graph running.  The application     *)
(* sends it START, STOP and DELETE through the event queue of the graph, the  *)
(* host target sends it STREAMING_EVENT whenever the trigger node completes,  *)
(* and for each of those it schedules the graph once more.  The runs of the   *)
(* graph are counted only: what happens between is the matter of              *)
(* GraphSchedule.                                                             *)
EXTENDS Naturals, Sequences, FiniteSets

CONSTANTS Depth,      \* graph->pipeline_depth, at least 2
          MaxStart,   \* bound: calls of vxStartGraphStreaming
          MaxWait,    \* bound: calls of vxWaitGraph by the application
          QueueSize   \* TIVX_EVENT_QUEUE_MAX_SIZE

VARIABLES
    events,               \* streaming_event_queue
    state, task,          \* the state of the task, and where it is
    is_streaming, is_streaming_error, is_streaming_alloc,
    stop_done, delete_done, all_graph_completed,   \* events of the operating system
    trigger_is_leaf, timed,      \* the trigger node; graph->timeout_val is finite
    app,                  \* the call that the application is in
    appWaits,             \* another thread of it is in vxWaitGraph
    graph_state,
    fresh, past,          \* submitted runs before and after their trigger node
    pending, hostSched,   \* schedule_pending_count, schedule_count of the host
    owed                  \* the host has yet to send STREAMING_EVENT

\* History
VARIABLES starts, waits,  \* calls of vxStartGraphStreaming and vxWaitGraph
          lastStop,       \* what vxStopGraphStreaming returned since the last start
          lateStop        \* some vxStopGraphStreaming returned while STOP was under way

optionVars == <<is_streaming_alloc, trigger_is_leaf, timed>>
graphVars == <<graph_state, fresh, past, pending, all_graph_completed>>
hostVars == <<hostSched, owed>>
taskVars == <<state, task, is_streaming_error>>
appVars == <<is_streaming, app, starts, lastStop, lateStop>>
waitVars == <<appWaits, waits>>
strVars == <<events, stop_done, delete_done, optionVars, graphVars, hostVars, taskVars,
             appVars, waitVars>>

\* Faulty variants, for the mutants of the properties.
ScheduleGraph_OffByOne(n) ==
    LET total == n + pending
        free == Depth + 1 - (fresh + past)
        k == IF total < free THEN total ELSE free
    IN  /\ fresh' = fresh + k /\ pending' = total - k /\ graph_state' = "RUNNING"
        /\ all_graph_completed' = FALSE /\ UNCHANGED past
Complete_KeepsPending(left) ==
    /\ \/ left = 0 /\ graph_state' \in {"COMPLETED", "ABANDONED"}
       \/ left > 0 /\ UNCHANGED graph_state
    /\ hostSched' = pending /\ UNCHANGED pending
    /\ all_graph_completed' = (all_graph_completed \/ (left = 0 /\ pending = 0))
TaskStops_NoWait ==
    /\ state = "RUNNING" /\ task = "loop" /\ events # <<>> /\ Head(events) = "STOP"
    /\ events' = Tail(events) /\ state' = "IDLE" /\ stop_done' = TRUE
    /\ UNCHANGED <<task, is_streaming_error, graphVars, delete_done, optionVars, hostVars,
                   appVars, waitVars>>
Ends_Silently(error) == /\ task' = "gone" /\ UNCHANGED delete_done
                        /\ is_streaming_error' = (is_streaming_error \/ error)
TaskWaits_SilentError ==
    /\ task = "waitGraph" /\ all_graph_completed
    /\ all_graph_completed' = FALSE /\ stop_done' = (graph_state # "ABANDONED" \/ stop_done)
    /\ task' = IF graph_state = "ABANDONED" THEN "gone" ELSE "loop"
    /\ is_streaming_error' = (is_streaming_error \/ graph_state = "ABANDONED")
    /\ UNCHANGED <<events, state, graph_state, fresh, past, pending, delete_done, optionVars,
                   hostVars, appVars, waitVars>>

-----------------------------------------------------------------------------

Init ==
    /\ events = <<>> /\ state = "IDLE" /\ task = "none"
    /\ is_streaming = FALSE /\ is_streaming_error = FALSE /\ is_streaming_alloc = FALSE
    /\ stop_done = FALSE /\ delete_done = FALSE /\ all_graph_completed = FALSE
    /\ trigger_is_leaf = FALSE /\ timed = FALSE
    /\ app = "idle" /\ appWaits = FALSE
    /\ graph_state = "VERIFIED" /\ fresh = 0 /\ past = 0 /\ pending = 0
    /\ hostSched = 0 /\ owed = FALSE
    /\ starts = 0 /\ waits = 0 /\ lastStop = "none" /\ lateStop = FALSE

\* ownEventQueueAddEvent: an event that finds the queue full is dropped.
Send(e) == IF Len(events) < QueueSize THEN Append(events, e) ELSE events

-----------------------------------------------------------------------------
(* The runs of the graph                                                    *)

\* ownGraphScheduleGraph, all of it under the lock of the graph: runs that find
\* no free descriptor stay pending.
ScheduleGraph(n) ==
    LET total == n + pending
        free == Depth - (fresh + past)
        k == IF total < free THEN total ELSE free
    IN  /\ fresh' = fresh + k
        /\ pending' = total - k
        /\ graph_state' = IF k > 0 THEN "RUNNING" ELSE graph_state
        /\ all_graph_completed' = (k = 0 /\ all_graph_completed)
        /\ UNCHANGED past

\* ownCheckGraphCompleted for the last leaf node of a run, with what it leaves
\* submitted.  The run may have been abandoned by a callback.
Complete(left) ==
    /\ \/ left = 0 /\ graph_state' \in {"COMPLETED", "ABANDONED"}
       \/ left > 0 /\ UNCHANGED graph_state
    /\ hostSched' = pending /\ pending' = 0
    /\ all_graph_completed' = (all_graph_completed \/ (left = 0 /\ pending = 0))

HostIdle == hostSched = 0 /\ ~owed

\* ownTargetCmdDescHandleUserCallback for the trigger node: its event is sent ...
TriggerCompletes ==
    /\ HostIdle /\ fresh > 0
    /\ fresh' = fresh - 1 /\ past' = past + 1
    /\ events' = Send("STREAMING_EVENT")
    /\ UNCHANGED <<stop_done, delete_done, optionVars, graph_state, pending,
                   all_graph_completed, hostVars, taskVars, appVars, waitVars>>

\* ... but only after the check for completion when it is the last leaf node.
TriggerCompletesRun ==
    /\ HostIdle /\ fresh > 0 /\ trigger_is_leaf
    /\ fresh' = fresh - 1 /\ owed' = TRUE
    /\ Complete(fresh' + past)
    /\ UNCHANGED <<events, stop_done, delete_done, optionVars, past, taskVars, appVars,
                   waitVars>>

RunCompletes ==
    /\ HostIdle /\ past > 0
    /\ past' = past - 1
    /\ Complete(fresh + past')
    /\ UNCHANGED <<events, stop_done, delete_done, optionVars, fresh, owed, taskVars,
                   appVars, waitVars>>

HostReschedules ==
    /\ hostSched > 0
    /\ ScheduleGraph(hostSched) /\ hostSched' = 0
    /\ UNCHANGED <<events, stop_done, delete_done, optionVars, owed, taskVars, appVars,
                   waitVars>>

HostSendsEvent ==
    /\ owed /\ hostSched = 0
    /\ owed' = FALSE
    /\ events' = Send("STREAMING_EVENT")
    /\ UNCHANGED <<stop_done, delete_done, optionVars, graphVars, hostSched, taskVars,
                   appVars, waitVars>>

-----------------------------------------------------------------------------
(* ownStreamingPipeliningTask                                               *)

NextEvent(e) == task = "loop" /\ events # <<>> /\ Head(events) = e /\ events' = Tail(events)

Others == UNCHANGED <<optionVars, hostVars, appVars, waitVars>>

\* IDLE and START: ownGraphScheduleGraphWrapper, for a graph that does not run.
TaskStarts ==
    /\ state = "IDLE" /\ NextEvent("START")
    /\ state' = "RUNNING"
    /\ IF graph_state \in {"VERIFIED", "COMPLETED", "ABANDONED"} THEN ScheduleGraph(1)
       ELSE UNCHANGED graphVars
    /\ UNCHANGED <<task, is_streaming_error, stop_done, delete_done>> /\ Others

\* IDLE and STOP
TaskIsStopped ==
    /\ state = "IDLE" /\ NextEvent("STOP")
    /\ stop_done' = TRUE
    /\ UNCHANGED <<taskVars, graphVars, delete_done>> /\ Others

\* IDLE and STREAMING_EVENT.  START and RUNNING never meet.
TaskIgnores ==
    /\ state = "IDLE" /\ NextEvent("STREAMING_EVENT")
    /\ UNCHANGED <<taskVars, graphVars, stop_done, delete_done>> /\ Others

\* RUNNING and STREAMING_EVENT: the next run
TaskReschedules ==
    /\ state = "RUNNING" /\ NextEvent("STREAMING_EVENT")
    /\ ScheduleGraph(1)
    /\ UNCHANGED <<taskVars, stop_done, delete_done>> /\ Others

\* RUNNING and STOP: on to vxWaitGraph
TaskStops ==
    /\ state = "RUNNING" /\ NextEvent("STOP")
    /\ state' = "IDLE" /\ task' = "waitGraph"
    /\ UNCHANGED <<is_streaming_error, graphVars, stop_done, delete_done>> /\ Others

\* The end of the task, with or without an error.
Ends(error) == /\ task' = "gone" /\ delete_done' = TRUE
               /\ is_streaming_error' = (is_streaming_error \/ error)

\* vxWaitGraph returned: a run that was abandoned ends the task.
TaskWaits ==
    /\ task = "waitGraph" /\ all_graph_completed
    /\ all_graph_completed' = FALSE /\ stop_done' = TRUE
    /\ IF graph_state = "ABANDONED" THEN Ends(TRUE)
       ELSE task' = "loop" /\ UNCHANGED <<is_streaming_error, delete_done>>
    /\ UNCHANGED <<events, state, graph_state, fresh, past, pending>> /\ Others

TaskWaitExpires ==
    /\ task = "waitGraph" /\ timed
    /\ stop_done' = TRUE /\ Ends(TRUE)
    /\ UNCHANGED <<events, state, graphVars>> /\ Others

TaskDeleted ==
    /\ NextEvent("DELETE")
    /\ state' = "IDLE" /\ Ends(FALSE)
    /\ UNCHANGED <<graphVars, stop_done>> /\ Others

\* No event came in time: the graph is waited for, whatever that returns ...
TaskExpires ==
    /\ task = "loop" /\ timed
    /\ is_streaming_error' = TRUE /\ task' = "failing"
    /\ UNCHANGED <<events, state, graphVars, stop_done, delete_done>> /\ Others

\* ... and the task ends.
TaskFails ==
    /\ task = "failing" /\ stop_done' = TRUE /\ Ends(TRUE)
    /\ \/ all_graph_completed /\ all_graph_completed' = FALSE
       \/ UNCHANGED all_graph_completed
    /\ UNCHANGED <<events, state, graph_state, fresh, past, pending>> /\ Others

-----------------------------------------------------------------------------
(* The application                                                          *)

\* vxEnableGraphStreaming, the timeout of the graph and vxVerifyGraph, which
\* calls ownGraphAllocForStreaming
Enable(leaf, finite) ==
    /\ ~is_streaming_alloc /\ app = "idle"
    /\ is_streaming_alloc' = TRUE /\ trigger_is_leaf' = leaf /\ timed' = finite
    /\ task' = "loop"
    /\ UNCHANGED <<events, stop_done, delete_done, graphVars, hostVars, state,
                   is_streaming_error, appVars, waitVars>>

\* vxStartGraphStreaming
Start ==
    /\ is_streaming_alloc /\ ~is_streaming /\ app = "idle" /\ starts < MaxStart
    /\ is_streaming' = TRUE /\ events' = Send("START")
    /\ starts' = starts + 1 /\ lastStop' = "none"
    /\ UNCHANGED <<stop_done, delete_done, optionVars, graphVars, hostVars, taskVars, app,
                   lateStop, waitVars>>

\* vxStopGraphStreaming: STOP is sent unless the task ended ...
Stop ==
    /\ is_streaming /\ app = "idle"
    /\ stop_done' = FALSE /\ app' = "stop"
    /\ events' = IF is_streaming_error THEN events ELSE Send("STOP")
    /\ UNCHANGED <<delete_done, optionVars, graphVars, hostVars, taskVars, is_streaming,
                   starts, lastStop, lateStop, waitVars>>

\* ... and stop_done is waited for.
StopReturns(result) ==
    /\ app' = "idle" /\ is_streaming' = FALSE
    /\ lastStop' = IF is_streaming_error THEN "TIMEOUT" ELSE result
    /\ UNCHANGED <<events, delete_done, optionVars, graphVars, hostVars, taskVars, starts,
                   waitVars>>

StopIsDone ==
    /\ app = "stop" /\ stop_done
    /\ stop_done' = FALSE
    /\ StopReturns("SUCCESS") /\ UNCHANGED lateStop

StopExpires ==
    /\ app = "stop" /\ timed
    /\ StopReturns("TIMEOUT") /\ lateStop' = TRUE
    /\ UNCHANGED stop_done

\* vxReleaseGraph, ownGraphFreeStreaming: a task that failed is not told ...
Release ==
    /\ is_streaming_alloc /\ app = "idle" /\ ~appWaits
    /\ \/ /\ is_streaming_error /\ app' = "cancel"
          /\ UNCHANGED <<delete_done, events>>
       \/ /\ ~is_streaming_error /\ app' = "release"
          /\ delete_done' = FALSE /\ events' = Send("DELETE")
    /\ UNCHANGED <<stop_done, optionVars, graphVars, hostVars, taskVars, is_streaming,
                   starts, lastStop, lateStop, waitVars>>

\* ... and in any case the task is cancelled and joined before the queue goes.
ReleaseReturns ==
    /\ app = "cancel" \/ (app = "release" /\ (delete_done \/ timed))
    /\ app' = "released" /\ task' = "gone"
    /\ UNCHANGED <<events, stop_done, delete_done, optionVars, graphVars, hostVars, state,
                   is_streaming_error, is_streaming, starts, lastStop, lateStop, waitVars>>

\* vxWaitGraph by another thread of the application
Wait ==
    /\ is_streaming_alloc /\ ~appWaits /\ app \in {"idle", "stop"}
    /\ waits < MaxWait /\ graph_state # "VERIFIED"
    /\ waits' = waits + 1 /\ appWaits' = TRUE
    /\ UNCHANGED <<events, stop_done, delete_done, optionVars, graphVars, hostVars,
                   taskVars, appVars>>

WaitReturns ==
    /\ appWaits /\ appWaits' = FALSE
    /\ \/ all_graph_completed /\ all_graph_completed' = FALSE
       \/ timed /\ UNCHANGED all_graph_completed
    /\ UNCHANGED <<events, stop_done, delete_done, optionVars, graph_state, fresh, past,
                   pending, hostVars, taskVars, appVars, waits>>

-----------------------------------------------------------------------------

TaskNext == \/ TaskStarts \/ TaskIsStopped \/ TaskIgnores \/ TaskReschedules \/ TaskStops
            \/ TaskWaits \/ TaskWaitExpires \/ TaskDeleted \/ TaskFails

HostNext == \/ TriggerCompletes \/ TriggerCompletesRun \/ RunCompletes
            \/ HostReschedules \/ HostSendsEvent

AppReturns == StopIsDone \/ StopExpires \/ ReleaseReturns \/ WaitReturns

Next ==
    \/ TaskNext \/ TaskExpires \/ HostNext \/ AppReturns
    \/ \E leaf, finite \in BOOLEAN : Enable(leaf, finite)
    \/ Start \/ Stop \/ Release \/ Wait

Spec == Init /\ [][Next]_strVars

\* Both tasks get the processor when they have something to do, a node completes
\* once it was triggered, and a call returns when it may.
Fairness == /\ WF_strVars(TaskNext) /\ WF_strVars(HostNext)
            /\ WF_strVars(StopIsDone) /\ WF_strVars(ReleaseReturns)

FairSpec == Spec /\ Fairness

-----------------------------------------------------------------------------
(* Properties                                                               *)

Count(e) == Cardinality({i \in DOMAIN events : events[i] = e})

TypeOK ==
    /\ events \in Seq({"START", "STOP", "DELETE", "STREAMING_EVENT"})
    /\ Len(events) <= QueueSize
    /\ state \in {"IDLE", "RUNNING"}
    /\ task \in {"none", "loop", "waitGraph", "failing", "gone"}
    /\ {is_streaming, is_streaming_error, is_streaming_alloc, stop_done, delete_done,
        all_graph_completed, trigger_is_leaf, timed, appWaits, owed, lateStop}
         \subseteq BOOLEAN
    /\ app \in {"idle", "stop", "release", "cancel", "released"}
    /\ graph_state \in {"VERIFIED", "RUNNING", "COMPLETED", "ABANDONED"}
    /\ fresh \in Nat /\ past \in Nat /\ fresh + past <= Depth
    /\ pending \in Nat /\ hostSched \in Nat
    /\ starts \in 0 .. MaxStart /\ waits \in 0 .. MaxWait
    /\ lastStop \in {"none", "SUCCESS", "TIMEOUT"}

\* vxStopGraphStreaming returned success: no run is under way or pending, and
\* none begins until streaming is started again.  The promise is not kept once an
\* earlier call timed out and left its STOP behind, because the stop_done of that
\* one is taken for the answer to the next.
StopMeansStopped ==
    lastStop = "SUCCESS" /\ ~lateStop =>
        /\ state = "IDLE" /\ Count("START") = 0
        /\ fresh + past = 0 /\ pending = 0 /\ hostSched = 0

\* The trigger node is never asked for a run while it is at work on another one,
\* over any number of starts and stops: what is left of one round of streaming is
\* used up before the next.  Not so after a call of vxStopGraphStreaming that
\* timed out, nor for a leaf node, whose event may arrive after the next start.
OneRunBegins ==
    ~trigger_is_leaf /\ ~lateStop =>
        fresh + pending + hostSched
          + (IF state = "RUNNING" THEN Count("STREAMING_EVENT") ELSE 0) <= 1

\* vxStopGraphStreaming returns, unless the task it waits for ended before ...
StopEnds == (app = "stop" /\ task # "gone") ~> app # "stop"

\* ... which holds as long as the application does not wait for the graph, too.
StopEndsUndisturbed == [](waits = 0) => StopEnds

\* Releasing the graph always ends, also after a stop that failed.
ReleaseEnds == app \in {"release", "cancel"} ~> app = "released"
=============================================================================
