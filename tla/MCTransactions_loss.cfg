SPECIFICATION Spec
CONSTANTS
    x = x
    y = y
    z = z
    Tx = {x, y, z}
    Key <- MCKey
    Holding = {y}
    Refused = {z}
    MaxPending = 2
    BatchLimit = 2
    PeerBatches <- MCPeerBatches
    MaxCerts = 2
    MaxRows = 1
    MaxCrashes = 1
CONSTRAINT FewRows
INVARIANTS TypeOK OnePerKey DuplicatesHaveAWinner DeadStaysOut DiskFollowsMemory
PROPERTIES NoSilentLoss KeepsOrder
CHECK_DEADLOCK FALSE
