CONSTANTS
    MaxEle = 1
    EventQueueSize = 1
    ObjDescQueueDepth = 1
    Caller = {c1, c2}
    Target = {host, t1}
    HostTarget = host
    MaxCmdObject = 1
    MaxCmd = 3
    Flushes = FALSE
SPECIFICATION FairSpec
PROPERTIES
    CommandEndsAfterTimeouts
\* commands are bounded: the system stops when they are used up
CHECK_DEADLOCK FALSE
