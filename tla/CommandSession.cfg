SPECIFICATION SessionSpec
CONSTANTS
    MaxArguments = 4
    MaxServed = 2
CHECK_DEADLOCK FALSE
INVARIANTS
    SessionTypeOK
    ModeFollowsOptions
    OneCommand
    ExitStatusTells
    AnsweredOnce
    HandlersReadWhatIsTyped
