SPECIFICATION JobSpec
CONSTANTS
    g1 = g1
    g2 = g2
    NoKey = NoKey
    Worker <- TwoGoroutines
    NKeys = 2
    Records <- ButFirst
    PerPage = 4
    Life = 3
    Ahead = 2
    Units <- Milliseconds
    MaxInterval = 4
    UsersAct = FALSE
    JobFaults <- NoJobFaults
CHECK_DEADLOCK FALSE
INVARIANTS NoneExpires
