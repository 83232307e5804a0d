SPECIFICATION LiveSpec
CONSTANTS
    a1 = a1
    b1 = b1
    a2 = a2
    b2 = b2
    a3 = a3
    Cert = {a1, b1, a2, b2, a3}
    Round <- MCRound
    Parents <- MCParents
    Own = {a1,a2,a3}
    PullsFrom = {3}
    MaxPulled = 1
    Retain = 2
    MaxRound = 4
    MaxCopies = 2
    MaxDeferrals = 1
INVARIANTS
    TypeOK
    ReprocessedWhenParentsLand
    HoldsAllItCan
PROPERTIES StoresCausally EveryCertificateLands
CHECK_DEADLOCK FALSE
