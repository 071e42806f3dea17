CONSTANTS
    Thread = {h1, h2, h3}
    Data = {e1, e2}
    NoData = NoData
    BlockOnGet = TRUE
    BlockOnPut = TRUE
    MaxEle = 2
    Waiter = {w1, w2, w3}
    MaxPost = 4
    Producer = {p1, p2}
    Consumer = {c1, c2}
    Event = {e1, e2}
    NoEvent = NoEvent
    EventQueueSize = 2
    Desc = {d1, d2, d3}
    NoDesc = NoDesc
    User = {u1, u2}
    ObjDescQueueDepth = 3
    Depth = 2
    MaxStart = 2
    MaxWait = 1
    QueueSize = 8
    Caller = {c1, c2, c3}
    Target = {host, t1}
    HostTarget = host
    MaxCmdObject = 1
    MaxCmd = 3
    Flushes = TRUE
SPECIFICATION ServicesSpec
INVARIANTS
    TypesOK
    NoLostWakeup
    EachPostWakesOne
    EachInOnePlace
    StopMeansStopped
    OneRunBegins
    AcksMatchCommands
PROPERTIES
    QueuesAreFifo
    StreamingCallsEnd
    CommandEndsUndisturbed
\* starts, posts and commands are bounded: the parts stop when they are used up
CHECK_DEADLOCK FALSE
