SPECIFICATION Spec
CONSTANTS
    na = na
    nb = nb
    nc = nc
    a1 = a1
    b1 = b1
    c1 = c1
    a2 = a2
    b2 = b2
    c2 = c2
    a3 = a3
    b3 = b3
    c3 = c3
    a4 = a4
    b4 = b4
    c4 = c4
    a5 = a5
    c5 = c5
    a6 = a6
    c6 = c6
    Node = {n1, n2}
    Cert = {b1, c1, a2, b2, c2, a3, b3, c3, a4, b4, c4, a5, c5, a6, c6}
    Committee <- MCCommittee
    Author <- MCAuthor
    Round <- MCRound
    Parents <- Long
    Past <- MCPast
    Stamp <- InStep
    Loaded = {b1, a2}
    Reordering = {}
    Lagging = {n1, n2}
    PullsFrom = {}
    Restarting = {}
    ApplyOutcomes = {TRUE}
    MaxIndex = 3
INVARIANT AgreeOnOrder
CHECK_DEADLOCK FALSE
