SPECIFICATION Spec
CONSTANTS
    Thread = {r1, r2}
    Ops = {"call"}
    Nobody = Nobody
    NoResult = NoResult
    MaxCalls = 2
CHECK_DEADLOCK FALSE
INVARIANT ExecutedOnce
SYMMETRY Symmetry
