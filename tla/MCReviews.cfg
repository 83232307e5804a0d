SPECIFICATION LiveSpec
CONSTANTS
    n1 = n1
    n2 = n2
    Node = {n1, n2}
    Scanner = n1
    Desk = {n1}
    NoShowCap = 1
    MaxBatch = 2
    MaxQueue = 1
    MaxReviews = 3
INVARIANT TypeOK
PROPERTIES OneCaseAtATime ReviewEnds
CHECK_DEADLOCK FALSE
