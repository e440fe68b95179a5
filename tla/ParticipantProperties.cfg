SPECIFICATION Spec
CONSTANTS
    Names = {"a", "b"}
    Values = {"v", "w"}
    MaxNodes = 3
    MaxDepth = 2
    MaxTokens = 4
    MaxChanges = 2
CHECK_DEADLOCK FALSE
INVARIANTS
    TypeOK
    NothingIsLeftOut
    OnlyTruthIsShown
PROPERTY SetChangesThePropertyNamed
