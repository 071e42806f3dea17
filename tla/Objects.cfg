CONSTANTS
    Param = {p1, p2, p3}
    NoParam = NoParam
    Count = 3
    PoolSize = 1
    n1 = n1  n2 = n2  n3 = n3
    ra = ra  rb = rb  rc = rc  rd = rd
    c1 = c1  c2 = c2  mv = mv  ru = ru  rv = rv  rw = rw  rx = rx
    ry = ry  ro = ro  rp = rp
    n4 = n4  re = re  sa = sa  sb = sb  x1 = x1  x2 = x2  NoSuper = NoSuper
    NoRef = NoRef
    MaxLinks = 8
    MaxChange = 1
    MaxVerify = 2
    Thread = {t1, t2}
    NoThread = NoThread
    graph = graph  node = node  data = data
    NoObject = NoObject
    TableSize = 3
    MaxHeld = 1
SPECIFICATION ObjectsSpec
SYMMETRY Symmetry
INVARIANTS
    TypesOK
    AssociationsFindable
    FollowsSlot
    EdgesMirror
    CycleIffCyclic
    OrderRespectsData
    DepthIsLongestChain
    ResultsKept
    SuperDependencies
    SuperCycleIffCyclic
    EdgeListComplete
    ReleasedOnceUnused
    CountsMatchOwners
\* verifications are bounded: that part stops when they are used up
CHECK_DEADLOCK FALSE
