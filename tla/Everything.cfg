SPECIFICATION FairSpec
CONSTANTS
    DefName = {"F"}
    ModName = {"x"}
    Tokens <- AllTokens
    ItemValues <- TwoValues
    MaxItems = 2
    MaxTokens = 5
    MaxCalls = 1
CHECK_DEADLOCK FALSE
INVARIANTS TypeOK TokenizersBelongToRuns
PROPERTY EveryCallReturns
