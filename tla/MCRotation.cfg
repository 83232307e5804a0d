SPECIFICATION Spec
CONSTANTS
    Node = {1, 2, 3}
    Genesis = {1}
    Walks = {{1, 2}}
    Lead = 2
    EpochLen = 3
    SliceLen = 1
    Percent = 75
    Refusers = {3}
    MaxAnchor = 7
    MaxProposals = 3
    MaxPool = 2
    MaxLag = 1
CONSTRAINTS FewProposals Close
INVARIANTS TypeOK Endorsed SigsMatch NextAnchorAgreed OnePerEpoch
PROPERTIES PastFixed
CHECK_DEADLOCK FALSE
