SPECIFICATION FairSpec
CONSTANTS
    Texts <- MCTexts
    RefLine = 3
    RefColumn = 5
    RefStart = 2
CHECK_DEADLOCK FALSE
INVARIANTS TypeOK LocationsAreTrue NothingIsLost StringsEndAtTheirDelimiter
PROPERTY TextIsRead
