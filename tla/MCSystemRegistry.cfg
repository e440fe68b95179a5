SPECIFICATION Spec
CONSTANTS
    p1 = p1
    p2 = p2
    q1 = q1
    demo = demo
    Unnamed = Unnamed
    EmptySystemName = EmptySystemName
    NotConnected = NotConnected
    Participants = {p1, p2, q1}
    SystemNames = {demo, Unnamed}
    Home <- MCHome
CHECK_DEADLOCK FALSE
INVARIANTS
    TypeOK
    EntriesAreTheirKeys
    AnswersConcernNamedSystem
    CompletionFollowsCommand
PROPERTIES
    OnlyShutdownForgets
    ShutdownForgets
    OthersKeepMonitoring
    AutoDiscoveryConnects
    ListingIsHonoured
