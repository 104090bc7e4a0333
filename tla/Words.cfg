SPECIFICATION Spec
CONSTANTS
    MaxInt = 15
    Precise = 8
    MaxNesting = 6
    MaxMaterialized = 6
    Stacks <- MCStacks
    MaxWords = 2
CHECK_DEADLOCK FALSE
INVARIANTS TypeOK OneNotionOfEquality PiecesAgree KeyedWordsAgree PathsAgree RecordsRoundTrip
