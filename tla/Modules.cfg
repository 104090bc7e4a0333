SPECIFICATION Spec
CONSTANTS
    ModuleNames = {lib}
    lib = lib
    w = w
    dunder = dunder
    v1 = v1
    v2 = v2
    Blank = Blank
    PlainNames = {w, dunder}
    Reserved <- MCReserved
    CodeNames <- MCCodeNames
    Values = {v1, v2}
    Null = Null
    Library <- TwoVersions
    NameLists <- MCNameLists
    UseLists <- MCUseLists
    Malformed = Malformed
    Done = Done
    Failed = Failed
    MaxDepth = 2
CHECK_DEADLOCK FALSE
INVARIANTS TypeOK ModulesStayAsGiven RegisteredAgree ResetKeepsImports
PROPERTIES ImplementsScopes
