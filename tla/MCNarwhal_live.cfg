SPECIFICATION LiveSpec
CONSTANTS
    Node = {a, b}
    Byz = {}
    Producer = {a, b}
    Content = {x}
    None = None
    RetentionRounds = 1
    SaveOutcomes = {TRUE}
    WriteBehind = TRUE
    MaxRound = 2
    MaxBatches = 8
    MaxCrashes = 0
PROPERTY RoundsGoOn
CHECK_DEADLOCK FALSE
