SPECIFICATION FairSpec
CONSTANTS
    DefName = {"F"}
    ModName = {"x"}
    Tokens <- CatchTokens
    ItemValues <- TwoValues
    MaxItems = 2
    MaxTokens = 5
    MaxCalls = 2
CHECK_DEADLOCK FALSE
PROPERTY ElementFailureIsContained
