SPECIFICATION Spec
CONSTANTS
    na = na
    nb = nb
    nc = nc
    a1 = a1
    b1 = b1
    c1 = c1
    a2 = a2
    b2 = b2
    c2 = c2
    a3 = a3
    b3 = b3
    c3 = c3
    a4 = a4
    b4 = b4
    c4 = c4
    a5 = a5
    c5 = c5
    a6 = a6
    c6 = c6
    Node = {n1}
    Cert = {b2, c2, a3, b3, a4, b4, a5, c5, a6, c6}
    Committee <- MCCommittee
    Author <- MCAuthor
    Round <- MCRound
    Parents <- Deep
    Past <- MCPast
    Stamp <- Ahead
    Loaded = {a3, b2}
    Reordering = {n1}
    Lagging = {}
    PullsFrom = {3}
    Restarting = {n1}
    ApplyOutcomes = {TRUE, FALSE}
    MaxIndex = 3
INVARIANTS OrderedOnce TimeAdvances EachAnchorOnce
CHECK_DEADLOCK FALSE
