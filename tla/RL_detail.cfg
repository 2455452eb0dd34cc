SPECIFICATION Spec
CONSTANTS
    u1 = u1
    u2 = u2
    g1 = g1
    g2 = g2
    g3 = g3
    drive = drive
    docs = docs
    User <- Users
    Service <- Services
    Bucketed <- Drive
    Caller <- Callers
    UserOf <- Owners
    BurstSize = 2
    Details <- UsersQuota
    Faults <- NoneFails
INVARIANTS ProjectFlagEarned
