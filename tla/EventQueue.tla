------------------------------ MODULE EventQueue ------------------------------
(* vx_event_queue.c: a pool of event elements whose indices travel between a   *)
(* free queue, the threads that add events, a ready queue and the threads that *)
(* wait for events.  The elements themselves are written and read without a    *)
(* lock.  free_queue and ready_queue are tivx_queues, here the sequences that  *)
(* OsQueue implements.                                                         *)
EXTENDS Capacities, Sequences, FiniteSets

CONSTANTS Producer, Consumer, Event, NoEvent

Index == 0 .. EventQueueSize - 1

VARIABLES enable, free_queue, ready_queue,
          event_list,   \* the elements
          adding,       \* the call of ownEventQueueAddEvent of each producer
          taking        \* the call of ownWaitEventQueue of each consumer

evqVars == <<enable, free_queue, ready_queue, event_list, adding, taking>>

NotAdding == [at |-> "idle", idx |-> 0, event |-> NoEvent]
NotTaking == [at |-> "idle", idx |-> 0, event |-> NoEvent]

\* Faulty variants, for the mutants of the properties.
Release_Early(c) ==
    /\ taking[c].at = "found"
    /\ free_queue' = Append(free_queue, taking[c].idx)
    /\ taking' = [taking EXCEPT ![c].at = "released"]
    /\ UNCHANGED <<enable, ready_queue, event_list, adding>>
TakeIndex_KeepsIndex(p) ==
    /\ adding[p].at = "enabled"
    /\ IF free_queue = <<>> THEN adding' = [adding EXCEPT ![p] = NotAdding]
       ELSE adding' = [adding EXCEPT ![p].at = "taken", ![p].idx = Head(free_queue)]
    /\ UNCHANGED <<enable, free_queue, ready_queue, event_list, taking>>

-----------------------------------------------------------------------------

\* ownEventQueueCreate
Init ==
    /\ enable = TRUE
    /\ free_queue = [i \in 1 .. EventQueueSize |-> i - 1]
    /\ ready_queue = <<>>
    /\ event_list = [i \in Index |-> NoEvent]
    /\ adding = [p \in Producer |-> NotAdding]
    /\ taking = [c \in Consumer |-> NotTaking]

\* vxEnableEvents, vxDisableEvents
Enable(on) ==
    /\ enable' = on
    /\ UNCHANGED <<free_queue, ready_queue, event_list, adding, taking>>

\* ownEventQueueAddEvent: the flag is looked at ...
Add(p, e) ==
    /\ adding[p].at = "idle" /\ enable
    /\ adding' = [adding EXCEPT ![p] = [at |-> "enabled", idx |-> 0, event |-> e]]
    /\ UNCHANGED <<enable, free_queue, ready_queue, event_list, taking>>

\* ... an index is taken, without waiting: with none left the event is dropped ...
TakeIndex(p) ==
    /\ adding[p].at = "enabled"
    /\ \/ /\ free_queue # <<>>
          /\ adding' = [adding EXCEPT ![p].at = "taken", ![p].idx = Head(free_queue)]
          /\ free_queue' = Tail(free_queue)
       \/ /\ free_queue = <<>>
          /\ adding' = [adding EXCEPT ![p] = NotAdding]
          /\ UNCHANGED free_queue
    /\ UNCHANGED <<enable, ready_queue, event_list, taking>>

\* ... the element is written ...
Fill(p) ==
    /\ adding[p].at = "taken"
    /\ event_list' = [event_list EXCEPT ![adding[p].idx] = adding[p].event]
    /\ adding' = [adding EXCEPT ![p].at = "filled"]
    /\ UNCHANGED <<enable, free_queue, ready_queue, taking>>

\* ... and its index is put into the ready queue, which has room for all indices.
Publish(p) ==
    /\ adding[p].at = "filled"
    /\ ready_queue' = Append(ready_queue, adding[p].idx)
    /\ adding' = [adding EXCEPT ![p] = NotAdding]
    /\ UNCHANGED <<enable, free_queue, event_list, taking>>

\* ownWaitEventQueue: an index is taken from the ready queue; a call that waits
\* does so here, and one that times out changes nothing ...
Wait(c) ==
    /\ taking[c].at = "idle" /\ ready_queue # <<>>
    /\ taking' = [taking EXCEPT ![c] = [at |-> "found", idx |-> Head(ready_queue),
                                        event |-> NoEvent]]
    /\ ready_queue' = Tail(ready_queue)
    /\ UNCHANGED <<enable, free_queue, event_list, adding>>

\* ... the element is copied ...
Copy(c) ==
    /\ taking[c].at = "found"
    /\ taking' = [taking EXCEPT ![c].at = "copied", ![c].event = event_list[taking[c].idx]]
    /\ UNCHANGED <<enable, free_queue, ready_queue, event_list, adding>>

\* ... and its index is free again.
Release(c) ==
    /\ taking[c].at = "copied"
    /\ free_queue' = Append(free_queue, taking[c].idx)
    /\ taking' = [taking EXCEPT ![c].at = "released"]
    /\ UNCHANGED <<enable, ready_queue, event_list, adding>>

\* The caller has done with the event.
Return(c) ==
    /\ taking[c].at = "released"
    /\ taking' = [taking EXCEPT ![c] = NotTaking]
    /\ UNCHANGED <<enable, free_queue, ready_queue, event_list, adding>>

Next ==
    \/ \E on \in BOOLEAN : Enable(on)
    \/ \E p \in Producer : (\E e \in Event : Add(p, e)) \/ TakeIndex(p) \/ Fill(p) \/ Publish(p)
    \/ \E c \in Consumer : Wait(c) \/ Copy(c) \/ Release(c) \/ Return(c)

Spec == Init /\ [][Next]_evqVars

-----------------------------------------------------------------------------
(* Properties                                                               *)

TypeOK ==
    /\ enable \in BOOLEAN
    /\ free_queue \in Seq(Index) /\ ready_queue \in Seq(Index)
    /\ event_list \in [Index -> Event \cup {NoEvent}]
    /\ adding \in [Producer -> [at : {"idle", "enabled", "taken", "filled"}, idx : Index,
                                event : Event \cup {NoEvent}]]
    /\ taking \in [Consumer -> [at : {"idle", "found", "copied", "released"}, idx : Index,
                                event : Event \cup {NoEvent}]]

Adders(i) == {p \in Producer : adding[p].at \in {"taken", "filled"} /\ adding[p].idx = i}
Takers(i) == {c \in Consumer : taking[c].at \in {"found", "copied"} /\ taking[c].idx = i}
Places(s, i) == {j \in DOMAIN s : s[j] = i}

\* Every index of the pool is in one queue, once, or with one thread: none leaks,
\* so that the pool stays as large as it is, and no element has two users.
IndexInOnePlace ==
    \A i \in Index :
       Cardinality(Places(free_queue, i)) + Cardinality(Places(ready_queue, i))
         + Cardinality(Adders(i)) + Cardinality(Takers(i)) = 1

Fifo == INSTANCE BoundedFifo WITH
          Item <- Event, NoItem <- NoEvent, Reader <- Consumer, Capacity <- EventQueueSize,
          items <- [j \in DOMAIN ready_queue |-> event_list[ready_queue[j]]],
          got <- [c \in Consumer |->
                    IF taking[c].at = "found" THEN event_list[taking[c].idx] ELSE taking[c].event]

\* The events that were accepted come out in the order in which they were
\* published, each once and as it was written: no element is overwritten while its
\* event waits or is being copied.
EventsAreFifo == Fifo!Spec
===============================================================================
