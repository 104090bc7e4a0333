SPECIFICATION FairSpec
CONSTANTS
    Thread = {r1, r2, r3}
    Ops = {"call", "bang", "bangat"}
    Nobody = Nobody
    NoResult = NoResult
    MaxCalls = 4
CHECK_DEADLOCK FALSE
INVARIANTS TypeOK MutexesProtect
PROPERTIES ImplementsCell EveryCallEnds
