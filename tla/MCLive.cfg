SPECIFICATION LiveSpec
CONSTANTS
    c1 = c1
    c2 = c2
    a = a
    b = b
    d = d
    e = e
    Clients = {c1, c2}
    Writes = {a, b, d, e}
    Needs <- MCNeeds
    Devices = {phone}
    Slots = {call1, call2}
    NoUser = NoUser
    NoAccount = NoAccount
    NoPassword = NoPassword
    Users = {u1}
    NoGroup = NoGroup
    Keys = {k1, k2}
    all = all
    some = some
    Empty = empty
    Uids = {"me", "other"}
    Cells = {cell1}
    Blank = blank
INVARIANT Causal
PROPERTIES  IsBoard SignInReachesTabs SendComesBack SearchAnswered PostComesBack
CHECK_DEADLOCK FALSE
