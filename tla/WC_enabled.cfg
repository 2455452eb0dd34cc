SPECIFICATION Spec
CONSTANTS
    c1 = c1
    c2 = c2
    c3 = c3
    u1 = u1
    u2 = u2
    w1 = w1
    w2 = w2
    h1 = h1
    h2 = h2
    NoChan = NoChan
    NoProc = NoProc
    Orphan = Orphan
    Chan <- TwoChans
    Cmds <- OneCmd
    Workers <- None
    Hooks <- OneHook
    PageSize = 1
    MaxPages = 2
    MaxHead = 1
    Faults <- None
INVARIANTS EnabledIsWatched
