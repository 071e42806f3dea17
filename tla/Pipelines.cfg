CONSTANTS
    A = A  B = B  C = C  J = J  in = in  mid = mid
    x = x  y = y  z = z  out = out  t1 = t1  t2 = t2
    t3 = t3  i1 = i1  i2 = i2  i3 = i3  m1 = m1  m2 = m2
    x1 = x1  y1 = y1  y2 = y2  z1 = z1  o1 = o1  o2 = o2
    NoRef = NoRef  NoActor = NoActor
    App = {a}
    Waiter = {}
    Leaf = {B}
    Depth = 2
    MaxDepth = 16
    Mode = "AUTO"
    MaxRequest = 3
    MaxBatch = 1
    MaxVerify = 1
    CallbackAtLeaf = FALSE
    Rewait = FALSE
    Node = {A, B}
    Target = {t1, t2}
    Data = {in, mid, out}
    Ref = {i1, i2, i3, m1, m2, o1, o2}
    HeadNodes <- HeadA
    OutNodes <- ChainOut
    TargetOf <- ChainTargets
    Params <- ChainParams
    Producer <- ChainProducer
    Refs <- ChainRefs
    UserData = {in, out}
    Param0 = in
    CallbackNode = {}
    Dequeuer = {d1}
    Dequeues <- DequeuesOut
    MaxBlocked = 3
    a = a
SPECIFICATION GraphsSpec
INVARIANTS
    TypesOK
    EachInOrder
    EachTriggeredOnce
    EachRefConserved
    EachWaitsForNothingReady
PROPERTIES
    EachImplements
    EachPrecedence
SYMMETRY RefSymmetry
\* requests are bounded: the system stops when they are used up
CHECK_DEADLOCK FALSE
