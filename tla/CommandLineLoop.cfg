SPECIFICATION Spec
CONSTANTS
    MaxLines = 3
CHECK_DEADLOCK FALSE
INVARIANTS
    TypeOK
    BatchIsComplete
    NoCommandLost
PROPERTIES
    ShutdownEnds
    ProcessEnds
