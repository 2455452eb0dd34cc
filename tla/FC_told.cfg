SPECIFICATION Spec
CONSTANTS
    anyone = anyone
    User <- FewUsers
    Owner = 2
    Bots <- Bot
    Anyone <- anyone
    PerPage = 2
    MaxShares = 1
    Faults <- GoogleFails
INVARIANTS DeniedIsTold
