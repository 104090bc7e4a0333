SPECIFICATION Spec
CONSTANTS
    MaxInt = 15
    Precise = 8
    MaxNesting = 6
    MaxMaterialized = 6
    Stacks <- WideStacks
    MaxWords = 1
CHECK_DEADLOCK FALSE
PROPERTIES SpansAreGuarded
