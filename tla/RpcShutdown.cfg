SPECIFICATION Spec
CONSTANTS
    Call = {k1}
    Requests <- OnlyExecute
    k1 = k1
    k2 = k2
    MaxBody = 2
    PoolSize = 1
    Null = Null
CHECK_DEADLOCK FALSE
INVARIANT StoppedMeansIdle
