CONSTANTS
    A = A  B = B  C = C  J = J  in = in  mid = mid
    x = x  y = y  z = z  out = out  t1 = t1  t2 = t2
    t3 = t3  i1 = i1  i2 = i2  i3 = i3  m1 = m1  m2 = m2
    x1 = x1  y1 = y1  y2 = y2  z1 = z1  o1 = o1  o2 = o2
    NoRef = NoRef  NoActor = NoActor
    App = {a}
    Waiter = {}
    Leaf = {J}
    Depth = 1
    MaxDepth = 16
    Mode = "AUTO"
    MaxRequest = 2
    MaxBatch = 1
    MaxVerify = 1
    CallbackAtLeaf = FALSE
    Rewait = FALSE
    Node = {A, B, C, J}
    Target = {t1, t2, t3}
    Data = {in, x, y, z, out}
    Ref = {i1, i2, x1, y1, y2, z1, o1, o2}
    HeadNodes <- HeadA
    OutNodes <- JoinOut
    TargetOf <- JoinOnThreeTargets
    Params <- JoinParams
    Producer <- JoinProducer
    Refs <- JoinRefs
    UserData = {in, out}
    Param0 = in
    CallbackNode = {}
    Dequeuer = {d1}
    Dequeues <- DequeuesOut
    MaxBlocked = 8
SPECIFICATION Spec
PROPERTIES
    Precedence
SYMMETRY PairSymmetry
\* requests are bounded: the system stops when they are used up
CHECK_DEADLOCK FALSE
