SPECIFICATION SpecClient
CONSTANTS
    u1 = u1
    u2 = u2
    g1 = g1
    g2 = g2
    g3 = g3
    drive = drive
    docs = docs
    User <- Users
    Service <- Services
    Bucketed <- Drive
    Caller <- Callers
    UserOf <- Owners
    BurstSize = 2
    Details <- SomeDetails
    Faults <- WriteFails
    n1 = n1
    n2 = n2
    a = a
    k1 = k1
    k2 = k2
    Node <- TwoNodes
    Text <- Texts
    Typed <- FirstTyped
    Blank = Blank
    None = None
    Key <- TwoKeys
    Rate <- Rates
    Default = 1
    Initial <- KeyOrNot
    ConfigFaults <- AllConfigFaults
    MaxSaves = 1
SYMMETRY Symmetric
INVARIANTS TypeOK AtMostOneLate ConfigTypeOK Converged TokensReadable DoneMeansSaved
