SPECIFICATION Spec
CONSTANTS
    a1 = a1
    a2 = a2
    b1 = b1
    b2 = b2
    n1 = n1
    n2 = n2
    BadState = BadState
    Attempt <- OneAttempt
    Callback <- OneCallback
    Node <- TwoNodes
    Home <- HomeDef
    Faults <- DeleteFails
CHECK_DEADLOCK FALSE
INVARIANTS ErrorMeansNotConnected
