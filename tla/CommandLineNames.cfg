SPECIFICATION Spec
CONSTANTS
    MaxLength = 3
    MaxCharacters = 4
    MaxWords = 2
CHECK_DEADLOCK FALSE
INVARIANT AnyNameIsReadBack
