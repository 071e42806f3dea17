CONSTANTS
    App = {a1, a2}
    Waiter = {a1, a2}
    Leaf = {l1, l2}
    Depth = 2
    MaxDepth = 16
    Mode = "AUTO"
    MaxRequest = 4
    MaxBatch = 2
    MaxVerify = 1
    CallbackAtLeaf = FALSE
    Rewait = TRUE
    NoActor = NoActor
SPECIFICATION ModesSpec
INVARIANTS
    TypeOK
    RunsConserved
    DescriptorsConserved
    EventMeansIdle
    PendingOnlyWhenFull
    StateReportedInAuto
    InductiveInEachMode
PROPERTIES
    WaitSound
SYMMETRY AppLeafSymmetry
\* requests are bounded: the system stops when they are used up
CHECK_DEADLOCK FALSE
