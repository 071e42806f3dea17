----------------------------- MODULE BoundedFifo -----------------------------
(* What the queues of the framework promise, the abstract specification that  *)
(* OsQueue, EventQueue and ObjDescQueue implement: a sequence of at most      *)
(* Capacity items.  got is the item that a reader took last.                  *)
EXTENDS Sequences, Naturals

CONSTANTS Item, Reader, Capacity, NoItem

VARIABLES items, got

fifoVars == <<items, got>>

TypeOK ==
    /\ items \in Seq(Item) /\ Len(items) <= Capacity
    /\ got \in [Reader -> Item \cup {NoItem}]

Init == items = <<>> /\ got = [r \in Reader |-> NoItem]

Put(i) ==
    /\ Len(items) < Capacity
    /\ items' = Append(items, i)
    /\ UNCHANGED got

Get(r) ==
    /\ items # <<>>
    /\ got' = [got EXCEPT ![r] = Head(items)]
    /\ items' = Tail(items)

\* A reader is done with its item.
Forget(r) == got' = [got EXCEPT ![r] = NoItem] /\ UNCHANGED items

Next == (\E i \in Item : Put(i)) \/ (\E r \in Reader : Get(r) \/ Forget(r))

Spec == Init /\ [][Next]_fifoVars
==============================================================================
