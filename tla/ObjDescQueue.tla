----------------------------- MODULE ObjDescQueue -----------------------------
(* The ring of vx_obj_desc_queue.c, in memory that all cores share.  A queue   *)
(* has no lock of its own: every operation is between ownPlatformSystemLock    *)
(* and ownPlatformSystemUnlock of its caller, which makes it one step.  How    *)
(* nodes block on a queue is the matter of PipelinedGraph.                     *)
EXTENDS Capacities, Sequences

CONSTANTS Desc, NoDesc, User

VARIABLES queue_mem, cur_rd, cur_wr, count,
          held        \* the descriptor that each user of the queue dequeued

odqVars == <<queue_mem, cur_rd, cur_wr, count, held>>

\* Faulty variants, for the mutants of the properties.
Full_Late == count = ObjDescQueueDepth + 1

-----------------------------------------------------------------------------

Full == count = ObjDescQueueDepth

Advance(i) == (i + 1) % ObjDescQueueDepth

\* ownObjDescQueueReset
Init ==
    /\ queue_mem = [i \in 0 .. ObjDescQueueDepth - 1 |-> NoDesc]
    /\ cur_rd = 0 /\ cur_wr = 0 /\ count = 0
    /\ held = [u \in User |-> NoDesc]

\* A full queue fails the call.
Enqueue(d) ==
    /\ ~Full
    /\ queue_mem' = [queue_mem EXCEPT ![cur_wr] = d]
    /\ cur_wr' = Advance(cur_wr) /\ count' = count + 1
    /\ UNCHANGED <<cur_rd, held>>

\* An empty one yields TIVX_OBJ_DESC_INVALID.
Dequeue(u) ==
    \/ /\ count > 0
       /\ held' = [held EXCEPT ![u] = queue_mem[cur_rd]]
       /\ cur_rd' = Advance(cur_rd) /\ count' = count - 1
       /\ UNCHANGED <<queue_mem, cur_wr>>
    \/ /\ count = 0
       /\ held' = [held EXCEPT ![u] = NoDesc]
       /\ UNCHANGED <<queue_mem, cur_rd, cur_wr, count>>

Next == (\E d \in Desc : Enqueue(d)) \/ (\E u \in User : Dequeue(u))

Spec == Init /\ [][Next]_odqVars

-----------------------------------------------------------------------------
(* Properties                                                               *)

\* The two indices and the count describe one and the same contents.
TypeOK ==
    /\ queue_mem \in [0 .. ObjDescQueueDepth - 1 -> Desc \cup {NoDesc}]
    /\ cur_rd \in 0 .. ObjDescQueueDepth - 1 /\ count \in 0 .. ObjDescQueueDepth
    /\ cur_wr = (cur_rd + count) % ObjDescQueueDepth
    /\ held \in [User -> Desc \cup {NoDesc}]

Contents == [i \in 1 .. count |-> queue_mem[(cur_rd + i - 1) % ObjDescQueueDepth]]

Fifo == INSTANCE BoundedFifo WITH
          Item <- Desc, NoItem <- NoDesc, Reader <- User, Capacity <- ObjDescQueueDepth,
          items <- Contents, got <- held

\* Descriptors come out in the order in which they went in, over any number of
\* passes over the end of the ring; none is overwritten when it is full.
DescriptorsAreFifo == Fifo!Spec
===============================================================================
