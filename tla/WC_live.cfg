SPECIFICATION FairSpec
CONSTANTS
    c1 = c1
    c2 = c2
    c3 = c3
    u1 = u1
    u2 = u2
    w1 = w1
    w2 = w2
    h1 = h1
    h2 = h2
    NoChan = NoChan
    NoProc = NoProc
    Orphan = Orphan
    Chan <- OneChan
    Cmds <- OneCmd
    Workers <- OneWorker
    Hooks <- TwoHooks
    PageSize = 1
    MaxPages = 2
    MaxHead = 3
    Faults <- AllFaults
PROPERTIES EveryCallReturns LockReleased
ACTION_CONSTRAINT AtMostTwo
