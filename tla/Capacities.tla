----------------------------- MODULE Capacities -----------------------------
(* The sizes of the queues and pools, constants of tivx_config_*.h and of the *)
(* private headers, and parameters of the calls that create them.             *)
EXTENDS Naturals

CONSTANTS
    MaxEle,             \* max_elements of tivxQueueCreate
    EventQueueSize,     \* TIVX_EVENT_QUEUE_MAX_SIZE
    ObjDescQueueDepth,  \* TIVX_OBJ_DESC_QUEUE_MAX_DEPTH
    MaxCmdObject        \* TIVX_MAX_CTRL_CMD_OBJECTS

ASSUME CapacityAssumption ==
    /\ MaxEle \in Nat \ {0} /\ EventQueueSize \in Nat \ {0}
    /\ ObjDescQueueDepth \in Nat \ {0} /\ MaxCmdObject \in Nat \ {0}
=============================================================================
