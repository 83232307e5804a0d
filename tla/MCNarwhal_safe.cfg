SPECIFICATION Spec
CONSTANTS
    Node = {a, b}
    Byz = {}
    Producer = {a, b}
    Content = {x, y}
    None = None
    RetentionRounds = 1
    SaveOutcomes = {TRUE, FALSE}
    WriteBehind = FALSE
    MaxRound = 2
    MaxBatches = 3
    MaxCrashes = 1
CONSTRAINTS FewProducers FewBatches FewFaults
SYMMETRY Symmetry
INVARIANTS
    TypeOK
    AttestsOnce
    SealsOncePerRound
CHECK_DEADLOCK FALSE
