CONSTANTS
    Depth = 2
    MaxStart = 2
    MaxWait = 1
    QueueSize = 8
SPECIFICATION FairSpec
PROPERTIES
    StopEnds
\* starts are bounded: the system stops when they are used up
CHECK_DEADLOCK FALSE
