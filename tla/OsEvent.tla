------------------------------- MODULE OsEvent -------------------------------
(* tivx_event of the POSIX platform: a flag that the thread which waits for it *)
(* clears, a mutex and a condition variable.  As in OsQueue, a pass through    *)
(* the loop of tivxEventWait is one step.                                      *)
EXTENDS Naturals

CONSTANTS Waiter, MaxPost

VARIABLES is_set,
          waiter,      \* where each thread is in tivxEventWait
          timed,       \* the threads that wait with a finite timeout
          posts,       \* posts so far
          wakes        \* calls of tivxEventWait that succeeded

oseVars == <<is_set, waiter, timed, posts, wakes>>

Asleep == {t \in Waiter : waiter[t] = "asleep"}
Woken == {t \in Waiter : waiter[t] = "woken"}

\* Faulty variants, for the mutants of the properties.
Post_NoWake == /\ posts < MaxPost
               /\ posts' = posts + 1
               /\ is_set' = TRUE
               /\ UNCHANGED <<waiter, timed, wakes>>
Succeed_NoClear(t) == /\ is_set
                      /\ wakes' = wakes + 1
                      /\ waiter' = [waiter EXCEPT ![t] = "idle"]
                      /\ UNCHANGED <<is_set, timed, posts>>

-----------------------------------------------------------------------------

Init ==
    /\ is_set = FALSE /\ posts = 0 /\ wakes = 0
    /\ waiter = [t \in Waiter |-> "idle"]
    /\ timed = {}

\* tivxEventPost: one sleeping thread is signalled, also when the flag was set.
Post ==
    /\ posts < MaxPost
    /\ posts' = posts + 1
    /\ is_set' = TRUE
    /\ IF Asleep = {} THEN UNCHANGED waiter
       ELSE \E t \in Asleep : waiter' = [waiter EXCEPT ![t] = "woken"]
    /\ UNCHANGED <<timed, wakes>>

\* tivxEventClear
Clear ==
    /\ is_set /\ is_set' = FALSE
    /\ UNCHANGED <<waiter, timed, posts, wakes>>

\* A pass through the loop of tivxEventWait finds the flag set ...
Succeed(t) ==
    /\ is_set /\ is_set' = FALSE
    /\ wakes' = wakes + 1
    /\ waiter' = [waiter EXCEPT ![t] = "idle"]
    /\ UNCHANGED <<timed, posts>>

\* ... or goes to sleep on the condition.
Sleep(t) ==
    /\ ~is_set
    /\ waiter' = [waiter EXCEPT ![t] = "asleep"]
    /\ UNCHANGED <<is_set, posts, wakes>>

\* A call that does not wait, and fails, changes nothing.
Wait(t) ==
    /\ waiter[t] = "idle"
    /\ \/ Succeed(t)
       \/ Sleep(t) /\ timed' \in {timed \cup {t}, timed \ {t}}

Resume(t) ==
    /\ waiter[t] = "woken"
    /\ Succeed(t) \/ (Sleep(t) /\ UNCHANGED timed)

\* ETIMEDOUT: the call fails, whether or not the flag is set by now.
Expire(t) ==
    /\ waiter[t] = "asleep" /\ t \in timed
    /\ waiter' = [waiter EXCEPT ![t] = "idle"]
    /\ UNCHANGED <<is_set, timed, posts, wakes>>

WakeSpuriously(t) ==
    /\ waiter[t] = "asleep"
    /\ waiter' = [waiter EXCEPT ![t] = "woken"]
    /\ UNCHANGED <<is_set, timed, posts, wakes>>

Next ==
    \/ Post \/ Clear
    \/ \E t \in Waiter : Wait(t) \/ Resume(t) \/ Expire(t) \/ WakeSpuriously(t)

Spec == Init /\ [][Next]_oseVars

-----------------------------------------------------------------------------
(* Properties                                                               *)

TypeOK ==
    /\ is_set \in BOOLEAN
    /\ waiter \in [Waiter -> {"idle", "asleep", "woken"}]
    /\ timed \subseteq Waiter
    /\ posts \in 0 .. MaxPost /\ wakes \in 0 .. MaxPost

\* A post is not lost: while the flag is set and a thread sleeps, another one is
\* awake and will look at the flag, whatever was cleared, taken or timed out.
NoLostPost == is_set /\ Asleep # {} => Woken # {}

\* No post wakes two threads, nor does a clear, a signal or a timeout.
OneWakeForAPost == wakes + (IF is_set THEN 1 ELSE 0) <= posts
=============================================================================
