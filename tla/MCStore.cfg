CONSTANTS
    t1 = t1
    t2 = t2
    t3 = t3
    Threads = {t1, t2, t3}
    None = None
    Kinds = {"write", "close"}
    MaxRanges = 0
    MaxOps = 3
    Sizes = {1, 2}
    SmallBatch = 1
    GroupMax = 3
    MemCap = 1
    L0Trigger = 1
    L0Slow = 1
    L0Stop = 2
    MaxPieces = 0
    IOErrors = TRUE
SPECIFICATION Spec
SYMMETRY Symmetry
 
PROPERTY ImplementsJournal
CHECK_DEADLOCK FALSE
