CONSTANTS
    App = {a1}
    Waiter = {a1}
    Leaf = {l1}
    Depth = 1
    MaxDepth = 16
    Mode = "NORMAL"
    MaxRequest = 2
    MaxBatch = 1
    MaxVerify = 1
    CallbackAtLeaf = TRUE
    Rewait = FALSE
    NoActor = NoActor
SPECIFICATION Spec
INVARIANTS
    AbandonReported
\* requests are bounded: the system stops when they are used up
CHECK_DEADLOCK FALSE
