SPECIFICATION Spec
CONSTANTS
    Me = me
    Users = {me, other}
    Cells = {cell1, cell2}
    Blank = blank
    MaxPosts = 3
    MaxReads = 2
    MaxNames = 2
SYMMETRY Symmetry
INVARIANTS FeedSettles
PROPERTY FeedOnlyGrows
CHECK_DEADLOCK FALSE
