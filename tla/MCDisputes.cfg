SPECIFICATION LiveSpec
CONSTANTS
    n1 = n1
    n2 = n2
    d1 = d1
    d2 = d2
    j1 = j1
    e1 = e1
    e2 = e2
    AA = AA
    OH = OH
    Node = {n1, n2}
    Disputer = {d1, d2}
    Juror = {j1}
    Expert = {e1, e2}
    Origin = {AA, OH}
    Lenient = {OH}
    Declared = AG
    Quorum = 1
    Majority = 1
    MinVotes = 1
    JuryOf <- OneJury
    PanelOf <- RivalPanels
    Pools <- OneOrNone
    Desk = {n1}
    Restarting = {n1, n2}
    Options <- Leanings
    None = None
    MaxRefusals = 1
    MaxRestarts = 1
PROPERTY RulingsCome
CONSTRAINT OneDispute
INVARIANTS TypeOK LabelIsRuled ParkedAwaitsRuling
CHECK_DEADLOCK FALSE
