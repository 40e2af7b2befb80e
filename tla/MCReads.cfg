SPECIFICATION ReadSpec
CONSTANTS
    h1 = h1
    Keys = {1, 2}
    Handles = {h1}
    NumLevels = 3
    MaxMemLevel = 1
    MaxWrites = 3
    CutWithinKey = FALSE
    Manual = FALSE
    InlineFlush = TRUE
    None = None
INVARIANTS LevelsSafe ReadsTruthful LookupsFind
PROPERTIES ReadsSnapshot ImplementsStore
CHECK_DEADLOCK FALSE
