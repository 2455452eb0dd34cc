SPECIFICATION SpecRefresh
CONSTANTS
    c1 = c1
    c2 = c2
    c3 = c3
    u1 = u1
    u2 = u2
    w1 = w1
    w2 = w2
    h1 = h1
    h2 = h2
    g1 = g1
    g2 = g2
    NoChan = NoChan
    NoProc = NoProc
    Orphan = Orphan
    Chan <- ThreeChans
    Cmds <- TwoCmds
    Workers <- OneWorker
    Hooks <- None
    PageSize = 1
    MaxPages = 1
    MaxHead = 1
    Faults <- AllFaults
    Worker <- TwoGoroutines
    NoKey = NoKey
    NKeys = 3
    Records <- ButFirst
    PerPage = 1
    Life = 3
    Ahead = 2
    Units <- EitherUnit
    MaxInterval = 1
    UsersAct = TRUE
    JobFaults <- AllJobFaults
CHECK_DEADLOCK FALSE
INVARIANTS NoStoppedRecord JobTypeOK EveryDueServed OneWorkerPerUser
PROPERTIES JobEnds
