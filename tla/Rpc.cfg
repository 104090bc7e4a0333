SPECIFICATION FairSpec
CONSTANTS
    Call = {k1, k2}
    Requests <- AnyAndExecute
    k1 = k1
    k2 = k2
    MaxBody = 2
    PoolSize = 1
    Null = Null
CHECK_DEADLOCK FALSE
INVARIANTS TypeOK ChecksComeFirst IdsAreEchoed ShutdownAnswers
PROPERTIES KeepsPromise ShutdownEnds
