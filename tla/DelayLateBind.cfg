CONSTANTS
    Param = {p1, p2}
    NoParam = NoParam
    Count = 2
    PoolSize = 1
SPECIFICATION Spec
INVARIANTS
    BoundWhenever
