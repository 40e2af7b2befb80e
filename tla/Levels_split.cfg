SPECIFICATION Spec
CONSTANTS
    Keys = {1}
    Handles = {h1}
    NumLevels = 3
    MaxMemLevel = 1
    MaxWrites = 3
    CutWithinKey = TRUE
    Manual = FALSE
    InlineFlush = FALSE
CHECK_DEADLOCK FALSE
INVARIANT EntriesNeverHop
