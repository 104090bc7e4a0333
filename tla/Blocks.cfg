SPECIFICATION Spec
CONSTANTS
    MaxInt = 3
    Precise = 3
    MaxNesting = 4
    Stacks <- MCStacks
    Literals <- MCLiterals
    Amends <- MCAmends
    Handlers <- MCHandlers
    Given <- MCGiven
    ResultOf <- WordResult
    MaxSteps = 1
    MaxCalls = 2
    MaxStack = 6
    MaxEdits = 1
CHECK_DEADLOCK FALSE
INVARIANTS TypeOK ResultsArePromised StackEffects HandlersInTurn
