SPECIFICATION ActivitySpec
CONSTANTS
    Kinds <- CommentsOnly
    FirstViews <- MaybeOpened
    QueryPage = 2
    Many = 2
    MaxQueries = 2
    MaxTime = 4
    ActivityFaults <- NoFaults
CHECK_DEADLOCK FALSE
INVARIANTS SeenIsAfterChange
