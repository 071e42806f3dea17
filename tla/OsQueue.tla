------------------------------- MODULE OsQueue -------------------------------
(* tivx_queue of the POSIX platform: a ring of MaxEle elements, one mutex and  *)
(* two condition variables.  A pass through the loop of tivxQueuePut or        *)
(* tivxQueueGet holds the mutex from end to end, so it is one step; a thread   *)
(* that waits is "asleep" on its condition variable until it is signalled, its *)
(* timeout expires or it wakes up without a cause, and then goes through the   *)
(* loop again when it gets the mutex.                                          *)
EXTENDS Capacities, FiniteSets, Sequences

CONSTANTS Thread, Data, NoData, BlockOnGet, BlockOnPut

VARIABLES ring, cur_rd, cur_wr, count,   \* the queue
          call,                          \* the call each thread is in
          got                            \* the element it got last

osqVars == <<ring, cur_rd, cur_wr, count, call, got>>
ringVars == <<ring, cur_rd, cur_wr, count>>

Idle == [op |-> "none", data |-> NoData, wait |-> "none", at |-> "idle"]
Wait == {"none", "finite", "forever"}
Calls == [op : {"none", "put", "get"}, data : Data \cup {NoData}, wait : Wait,
          at : {"idle", "asleep", "woken"}]

Asleep(op) == {t \in Thread : call[t].op = op /\ call[t].at = "asleep"}
Woken(op) == {t \in Thread : call[t].op = op /\ call[t].at = "woken"}

\* Faulty variants, for the mutants of the properties.
Signalled_Empty(op, calls) ==
    LET sleepers == {t \in Thread : calls[t].op = op /\ calls[t].at = "asleep"}
    IN  IF sleepers = {} \/ count > 0 THEN {calls}
        ELSE {[calls EXCEPT ![t].at = "woken"] : t \in sleepers}
Store_Late(d) ==
    /\ ring' = [ring EXCEPT ![(cur_wr + 1) % MaxEle] = d]
    /\ cur_wr' = (cur_wr + 1) % MaxEle
    /\ count' = count + 1
    /\ UNCHANGED cur_rd

-----------------------------------------------------------------------------

\* pthread_cond_signal: one of the threads asleep on the condition is woken.
Signalled(op, calls) ==
    LET sleepers == {t \in Thread : calls[t].op = op /\ calls[t].at = "asleep"}
    IN  IF sleepers = {} THEN {calls}
        ELSE {[calls EXCEPT ![t].at = "woken"] : t \in sleepers}

Store(d) ==
    /\ ring' = [ring EXCEPT ![cur_wr] = d]
    /\ cur_wr' = (cur_wr + 1) % MaxEle
    /\ count' = count + 1
    /\ UNCHANGED cur_rd

Fetch(t) ==
    /\ got' = [got EXCEPT ![t] = ring[cur_rd]]
    /\ cur_rd' = (cur_rd + 1) % MaxEle
    /\ count' = count - 1
    /\ UNCHANGED <<ring, cur_wr>>

Returns(t) == [call EXCEPT ![t] = Idle]

\* One pass through the loop of tivxQueuePut: there is no timed wait, a thread
\* that may wait does so for ever.
PutPass(t, d, wait) ==
    /\ UNCHANGED got
    /\ \/ /\ count < MaxEle
          /\ Store(d)
          /\ call' \in IF BlockOnGet THEN Signalled("get", Returns(t)) ELSE {Returns(t)}
       \/ /\ count = MaxEle /\ (wait = "none" \/ ~BlockOnPut)
          /\ call' = Returns(t) /\ UNCHANGED ringVars
       \/ /\ count = MaxEle /\ wait # "none" /\ BlockOnPut
          /\ call' = [call EXCEPT ![t] = [op |-> "put", data |-> d, wait |-> "forever",
                                          at |-> "asleep"]]
          /\ UNCHANGED ringVars

\* One pass through the loop of tivxQueueGet.
GetPass(t, wait) ==
    \/ /\ count > 0
       /\ Fetch(t)
       /\ call' \in IF BlockOnPut THEN Signalled("put", Returns(t)) ELSE {Returns(t)}
    \/ /\ count = 0 /\ (wait = "none" \/ ~BlockOnGet)
       /\ call' = Returns(t) /\ UNCHANGED <<ringVars, got>>
    \/ /\ count = 0 /\ wait # "none" /\ BlockOnGet
       /\ call' = [call EXCEPT ![t] = [op |-> "get", data |-> NoData, wait |-> wait,
                                       at |-> "asleep"]]
       /\ UNCHANGED <<ringVars, got>>

-----------------------------------------------------------------------------

\* tivxQueueCreate
Init ==
    /\ ring = [i \in 0 .. MaxEle - 1 |-> NoData]
    /\ cur_rd = 0 /\ cur_wr = 0 /\ count = 0
    /\ call = [t \in Thread |-> Idle]
    /\ got = [t \in Thread |-> NoData]

Put(t, d, wait) == call[t].at = "idle" /\ PutPass(t, d, wait)

Get(t, wait) == call[t].at = "idle" /\ GetPass(t, wait)

\* A woken thread has the mutex again and looks at the count once more.
Resume(t) ==
    /\ call[t].at = "woken"
    /\ IF call[t].op = "put" THEN PutPass(t, call[t].data, call[t].wait)
       ELSE GetPass(t, call[t].wait)

\* ETIMEDOUT: the call fails, whatever the count is by now.
Expire(t) ==
    /\ call[t].at = "asleep" /\ call[t].wait = "finite"
    /\ call' = Returns(t)
    /\ UNCHANGED <<ringVars, got>>

\* pthread_cond_wait may return although nobody signalled.
WakeSpuriously(t) ==
    /\ call[t].at = "asleep"
    /\ call' = [call EXCEPT ![t].at = "woken"]
    /\ UNCHANGED <<ringVars, got>>

Next ==
    \E t \in Thread :
       \/ \E d \in Data, wait \in Wait : Put(t, d, wait)
       \/ \E wait \in Wait : Get(t, wait)
       \/ Resume(t) \/ Expire(t) \/ WakeSpuriously(t)

Spec == Init /\ [][Next]_osqVars

-----------------------------------------------------------------------------
(* Properties                                                               *)

\* The three numbers that describe the contents of the ring agree.
TypeOK ==
    /\ ring \in [0 .. MaxEle - 1 -> Data \cup {NoData}]
    /\ cur_rd \in 0 .. MaxEle - 1 /\ count \in 0 .. MaxEle
    /\ cur_wr = (cur_rd + count) % MaxEle
    /\ call \in [Thread -> Calls]
    /\ got \in [Thread -> Data \cup {NoData}]

\* No wake-up is lost, although tivxQueuePut signals one thread only and another
\* thread may take the element first: while a thread sleeps in tivxQueueGet there
\* are as many threads under way to the elements as there are elements, and
\* likewise for the free places of tivxQueuePut.
NoLostWakeup ==
    /\ Asleep("get") # {} => count <= Cardinality(Woken("get"))
    /\ Asleep("put") # {} => MaxEle - count <= Cardinality(Woken("put"))

\* The elements in the order in which they will be taken.
Contents == [i \in 1 .. count |-> ring[(cur_rd + i - 1) % MaxEle]]

Fifo == INSTANCE BoundedFifo WITH
          Item <- Data, NoItem <- NoData, Reader <- Thread, Capacity <- MaxEle, items <- Contents

\* Elements come out in the order in which they went in, none twice, none lost,
\* whoever waits, times out or is overtaken.
QueueIsFifo == Fifo!Spec
=============================================================================
