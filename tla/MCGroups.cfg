SPECIFICATION PartsSpec
CONSTANTS
    Devices = {d1}
    u1 = u1
    Users = {u1, u2}
    NoUser = NoUser
    NoGroup = NoGroup
    k1 = k1
    k2 = k2
    Keys = {k1, k2, k3}
    MaxListeners = 3
    MaxQueued = 1
    MaxAsks = 2
SYMMETRY Symmetry
INVARIANTS
    ScreensSettle
    ChatMembership
    GroupOfItsMaker
    CrashNeedsLogout
PROPERTY NoDoubleSend
