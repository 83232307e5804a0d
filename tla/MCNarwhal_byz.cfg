SPECIFICATION Spec
CONSTANTS
    Node = {a, b, c, d}
    Byz = {d}
    Producer = {d}
    Content = {x, y}
    None = None
    RetentionRounds = 1
    SaveOutcomes = {TRUE}
    WriteBehind = FALSE
    MaxRound = 1
    MaxBatches = 8
    MaxCrashes = 2
CONSTRAINT FewProducers
SYMMETRY Symmetry
INVARIANT CertifiedOnce
CHECK_DEADLOCK FALSE
