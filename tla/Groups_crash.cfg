SPECIFICATION Spec
CONSTANTS
    Devices = {d1}
    Users = {u1, u2}
    NoUser = NoUser
    NoGroup = NoGroup
    Keys = {k1, k2}
    MaxListeners = 2
    MaxQueued = 0
    MaxAsks = 0
INVARIANTS
    NoCrash
