SPECIFICATION SpecRequests
CONSTANTS
    anyone = anyone
    f1 = f1
    f2 = f2
    f3 = f3
    c1 = c1
    c2 = c2
    User <- Users
    Owner = 2
    Bots <- Bot
    Anyone <- anyone
    PerPage = 2
    MaxShares = 1
    File <- Files
    Comment <- Comments
    MaxRequests = 4
    UploadFaults <- AllFaults
    Space <- Spaces
    Quote = "quote"
    Black <- Words
    Slash = "/google-drive"
    MaxLength = 6
    Faults <- AllFaults
    Kinds <- SomeKinds
    FirstViews <- MaybeOpened
    QueryPage = 2
    Many = 2
    MaxQueries = 2
    MaxTime = 4
    ActivityFaults <- AllActivityFaults
CHECK_DEADLOCK FALSE
INVARIANTS TypeOK OnlyMembersCreate EveryMemberAccounted UploadsTypeOK UploadedMeansAll RepliesAccounted WordsAreStretches OnlyNamedIsCarried LastNKeepsLast ActivityTypeOK NotifiedOnce NothingMissed
