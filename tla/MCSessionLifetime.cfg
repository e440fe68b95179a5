SPECIFICATION Spec
CONSTANTS
    l1 = l1
    l2 = l2
    s1 = s1
    s2 = s2
    MainThread = MainThread
    NoSystem = NoSystem
    LogThreads = {l1, l2}
    Systems = {s1, s2}
    MaxSystems = 2
SYMMETRY MCSymmetry
CHECK_DEADLOCK FALSE
INVARIANT NoLogIntoDestroyedSession
