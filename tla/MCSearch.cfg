SPECIFICATION Spec
CONSTANTS
    all = all
    some = some
    MaxEmail = 3
    Me = 3
    Queries = {all, some}
    Matching <- MCMatching
    Empty = empty
    MaxListeners = 2
    MaxQueued = 1
INVARIANTS SearchSettles RepeatsNeedChange MarksTellChoice
CHECK_DEADLOCK FALSE
