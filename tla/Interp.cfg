SPECIFICATION Spec
CONSTANTS
    DefName = {"F"}
    ModName = {"x"}
    Tokens <- CatchTokens
    ItemValues <- TwoValues
    MaxItems = 2
    MaxTokens = 6
    MaxCalls = 2
CHECK_DEADLOCK FALSE
INVARIANTS AppModuleStays CompileStateIsSound ReferencesAreSound
PROPERTIES DefinitionsAreFinal OnlyCurrentModuleChanges CaughtErrorsRestore StopPassesThrough
