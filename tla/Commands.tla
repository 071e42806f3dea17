------------------------------- MODULE Commands -------------------------------
(* Commands from the application to targets and their acknowledgements:        *)
(* ownContextSendCmd and ownContextSendControlCmd of vx_context.c and the      *)
(* command handling of vx_target.c.  A call takes one of a few command objects *)
(* from a queue of free ones, fills it in, sends it to the target and waits    *)
(* for the event that belongs to the object.  The target sends the same object *)
(* back to the host target, which posts the event.                             *)
EXTENDS Capacities, Sequences, FiniteSets

CONSTANTS Caller, Target, HostTarget,
          MaxCmd,       \* bound: commands in all
          Flushes       \* ownContextFlushCmdPendQueue is called: only a test does

VARIABLES
    free_queue, pend_queue,
    obj_desc_cmd,       \* per object: the command in it, its target, TIVX_CMD_FLAG_IS_ACK
    cmd_ack_event,      \* the objects whose event is set
    job_queue,          \* per target: the objects that were sent to it
    call                \* per thread: where it is in ownContextSendCmd

\* History
VARIABLES commands,     \* commands asked for so far
          executed,     \* how often each command was executed
          lost,         \* objects of commands that could not be sent
          flushed       \* the flush has been used

cmdVars == <<free_queue, pend_queue, obj_desc_cmd, cmd_ack_event, job_queue, call,
             commands, executed, lost, flushed>>

Cmd == 1 .. MaxCmd
CmdObject == 0 .. MaxCmdObject - 1
NoObject == MaxCmdObject
NoCall == [at |-> "idle", cmd |-> 0, target |-> HostTarget, timed |-> FALSE, obj |-> NoObject]

\* Faulty variants, for the mutants of the properties.
Expire_Frees(c) ==
    /\ call[c].at = "waitAck" /\ call[c].timed
    /\ free_queue' = Append(free_queue, call[c].obj)
    /\ call' = [call EXCEPT ![c] = NoCall]
    /\ UNCHANGED <<pend_queue, obj_desc_cmd, cmd_ack_event, job_queue, commands, executed,
                   lost, flushed>>
HandleAck_NoPost(t) ==
    /\ job_queue[t] # <<>> /\ obj_desc_cmd[Head(job_queue[t])].ack
    /\ obj_desc_cmd' = [obj_desc_cmd EXCEPT ![Head(job_queue[t])].ack = FALSE]
    /\ job_queue' = [job_queue EXCEPT ![t] = Tail(@)]
    /\ UNCHANGED <<free_queue, pend_queue, cmd_ack_event, call, commands, executed, lost,
                   flushed>>
Acked_KeepsObject(c) ==
    /\ call[c].at = "waitAck" /\ call[c].obj \in cmd_ack_event
    /\ cmd_ack_event' = cmd_ack_event \ {call[c].obj}
    /\ call' = [call EXCEPT ![c] = NoCall]
    /\ UNCHANGED <<free_queue, pend_queue, obj_desc_cmd, job_queue, commands, executed,
                   lost, flushed>>

-----------------------------------------------------------------------------

\* ownContextCreateCmdObj
Init ==
    /\ free_queue = [i \in 1 .. MaxCmdObject |-> i - 1] /\ pend_queue = <<>>
    /\ obj_desc_cmd = [o \in CmdObject |-> [cmd |-> 0, target |-> HostTarget, ack |-> FALSE]]
    /\ cmd_ack_event = {}
    /\ job_queue = [t \in Target |-> <<>>]
    /\ call = [c \in Caller |-> NoCall]
    /\ commands = 0 /\ executed = [n \in Cmd |-> 0]
    /\ lost = {} /\ flushed = FALSE

\* ownContextSendCmd is called, with a timeout or to wait for ever.
Begin(c, target, timed) ==
    /\ call[c].at = "idle" /\ commands < MaxCmd
    /\ commands' = commands + 1
    /\ call' = [call EXCEPT ![c] = [at |-> "object", cmd |-> commands', target |-> target,
                                    timed |-> timed, obj |-> NoObject]]
    /\ UNCHANGED <<free_queue, pend_queue, obj_desc_cmd, cmd_ack_event, job_queue, executed,
                   lost, flushed>>

\* A command object is got from the free queue ...
GetObject(c) ==
    /\ call[c].at = "object" /\ free_queue # <<>>
    /\ call' = [call EXCEPT ![c].at = "send", ![c].obj = Head(free_queue)]
    /\ free_queue' = Tail(free_queue)
    /\ UNCHANGED <<pend_queue, obj_desc_cmd, cmd_ack_event, job_queue, commands, executed,
                   lost, flushed>>

\* ... or there is none in time.
NoObjectInTime(c) ==
    /\ call[c].at = "object" /\ call[c].timed
    /\ call' = [call EXCEPT ![c] = NoCall]
    /\ UNCHANGED <<free_queue, pend_queue, obj_desc_cmd, cmd_ack_event, job_queue, commands,
                   executed, lost, flushed>>

\* The object is filled in and sent.  Its event is not cleared.
Send(c) ==
    /\ call[c].at = "send"
    /\ obj_desc_cmd' = [obj_desc_cmd EXCEPT ![call[c].obj] =
                          [cmd |-> call[c].cmd, target |-> call[c].target, ack |-> FALSE]]
    /\ job_queue' = [job_queue EXCEPT ![call[c].target] = Append(@, call[c].obj)]
    /\ call' = [call EXCEPT ![c].at = "waitAck"]
    /\ UNCHANGED <<free_queue, pend_queue, cmd_ack_event, commands, executed, lost, flushed>>

\* ownObjDescSend failed: the call does, and the object is in no queue any more.
SendFails(c) ==
    /\ call[c].at = "send"
    /\ lost' = lost \cup {call[c].obj}
    /\ call' = [call EXCEPT ![c] = NoCall]
    /\ UNCHANGED <<free_queue, pend_queue, obj_desc_cmd, cmd_ack_event, job_queue, commands,
                   executed, flushed>>

\* tivxEventWait clears the event, and the object is free again ...
Acked(c) ==
    /\ call[c].at = "waitAck" /\ call[c].obj \in cmd_ack_event
    /\ cmd_ack_event' = cmd_ack_event \ {call[c].obj}
    /\ free_queue' = Append(free_queue, call[c].obj)
    /\ call' = [call EXCEPT ![c] = NoCall]
    /\ UNCHANGED <<pend_queue, obj_desc_cmd, job_queue, commands, executed, lost, flushed>>

\* ... or the wait timed out, and the object goes to the pend queue: the target
\* may still have it.
Expire(c) ==
    /\ call[c].at = "waitAck" /\ call[c].timed
    /\ pend_queue' = Append(pend_queue, call[c].obj)
    /\ call' = [call EXCEPT ![c] = NoCall]
    /\ UNCHANGED <<free_queue, obj_desc_cmd, cmd_ack_event, job_queue, commands, executed,
                   lost, flushed>>

\* ownContextFlushCmdPendQueue, one object of it
Flush ==
    /\ Flushes /\ pend_queue # <<>>
    /\ free_queue' = Append(free_queue, Head(pend_queue))
    /\ pend_queue' = Tail(pend_queue)
    /\ flushed' = TRUE
    /\ UNCHANGED <<obj_desc_cmd, cmd_ack_event, job_queue, call, commands, executed, lost>>

-----------------------------------------------------------------------------

\* ownTargetCmdDescSendAck: the object goes back to src_target_id, the host.
SendAck(o, queues) ==
    /\ obj_desc_cmd' = [obj_desc_cmd EXCEPT ![o].ack = TRUE]
    /\ job_queue' = [queues EXCEPT ![HostTarget] = Append(@, o)]

\* ownTargetCmdDescHandler, a command: it is executed, then the answer is sent.
Execute(t) ==
    /\ job_queue[t] # <<>> /\ ~obj_desc_cmd[Head(job_queue[t])].ack
    /\ LET o == Head(job_queue[t])
       IN  /\ executed' = [executed EXCEPT ![obj_desc_cmd[o].cmd] = @ + 1]
           /\ SendAck(o, [job_queue EXCEPT ![t] = Tail(@)])
    /\ UNCHANGED <<free_queue, pend_queue, cmd_ack_event, call, commands, lost, flushed>>

\* ownTargetCmdDescHandleAck: the flag is cleared and the event is posted.
HandleAck(t) ==
    /\ job_queue[t] # <<>> /\ obj_desc_cmd[Head(job_queue[t])].ack
    /\ obj_desc_cmd' = [obj_desc_cmd EXCEPT ![Head(job_queue[t])].ack = FALSE]
    /\ cmd_ack_event' = cmd_ack_event \cup {Head(job_queue[t])}
    /\ job_queue' = [job_queue EXCEPT ![t] = Tail(@)]
    /\ UNCHANGED <<free_queue, pend_queue, call, commands, executed, lost, flushed>>

Handle(t) == Execute(t) \/ HandleAck(t)

Proceed(c) == GetObject(c) \/ Send(c) \/ Acked(c)

Next ==
    \/ \E c \in Caller : \/ \E t \in Target, timed \in BOOLEAN : Begin(c, t, timed)
                         \/ Proceed(c) \/ NoObjectInTime(c) \/ SendFails(c) \/ Expire(c)
    \/ \E t \in Target : Handle(t)
    \/ Flush

Spec == Init /\ [][Next]_cmdVars

\* A target handles what is in its job queue, and a caller goes on when it can.
Fairness == /\ \A t \in Target : WF_cmdVars(Handle(t))
            /\ \A c \in Caller : WF_cmdVars(Proceed(c))

FairSpec == Spec /\ Fairness

-----------------------------------------------------------------------------
(* Properties                                                               *)

TypeOK ==
    /\ free_queue \in Seq(CmdObject) /\ pend_queue \in Seq(CmdObject)
    /\ obj_desc_cmd \in [CmdObject -> [cmd : 0 .. MaxCmd, target : Target, ack : BOOLEAN]]
    /\ cmd_ack_event \subseteq CmdObject
    /\ job_queue \in [Target -> Seq(CmdObject)]
    /\ call \in [Caller -> [at : {"idle", "object", "send", "waitAck"}, cmd : 0 .. MaxCmd,
                            target : Target, timed : BOOLEAN, obj : CmdObject \cup {NoObject}]]
    /\ commands \in 0 .. MaxCmd /\ executed \in [Cmd -> Nat]
    /\ lost \subseteq CmdObject /\ flushed \in BOOLEAN

Holders(o) == {c \in Caller : call[c].at \in {"send", "waitAck"} /\ call[c].obj = o}
Occurrences(s, o) == Cardinality({i \in DOMAIN s : s[i] = o})

\* Every command object is free, pending, lost or in use by one call: two calls
\* never write the same object.
ObjectInOnePlace ==
    \A o \in CmdObject :
       Occurrences(free_queue, o) + Occurrences(pend_queue, o) + Cardinality(Holders(o))
         + (IF o \in lost THEN 1 ELSE 0) = 1

\* The event that a call waits for is posted only after its own command was
\* executed, and once only, whatever timed out before: no late acknowledgement is
\* taken for the answer to another command.  A flush of the pend queue would break
\* this, because it frees objects that targets still have.
AckIsForCommand ==
    ~flushed =>
       /\ \A c \in Caller : call[c].at = "waitAck" /\ call[c].obj \in cmd_ack_event
                              => executed[call[c].cmd] = 1
       /\ \A n \in Cmd : executed[n] <= 1

\* A free object is with no target and its event is not set: nothing of an earlier
\* command is left when it is used again.
FreeObjectIsIdle ==
    ~flushed =>
       \A i \in DOMAIN free_queue :
          /\ free_queue[i] \notin cmd_ack_event
          /\ \A t \in Target : Occurrences(job_queue[t], free_queue[i]) = 0

\* Every call ends, however few objects there are for the callers ...
CommandEnds == \A c \in Caller : call[c].at # "idle" ~> call[c].at = "idle"

\* ... as long as no call timed out and no command could not be sent.
CommandEndsUndisturbed == [](pend_queue = <<>> /\ lost = {}) => CommandEnds

\* The same, when no command failed to be sent: the objects of calls that timed
\* out should be used again.
CommandEndsAfterTimeouts == [](lost = {}) => CommandEnds
===============================================================================
