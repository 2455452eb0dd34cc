SPECIFICATION FairSpec
CONSTANTS
    a1 = a1
    a2 = a2
    b1 = b1
    b2 = b2
    n1 = n1
    n2 = n2
    BadState = BadState
    Attempt <- TwoAttempts
    Callback <- TwoCallbacks
    Node <- TwoNodes
    Home <- HomeDef
    Faults <- AllFaults
CHECK_DEADLOCK FALSE
INVARIANTS TypeOK ReportIsTrue NilMeansStored ReplayRefused NeverPanics
PROPERTIES WaitersLeave
