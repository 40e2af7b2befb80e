SPECIFICATION MemorySpec
CONSTANTS
    MaxKey = 3
    MaxHeight = 3
    scanner = scanner
    inserter = inserter
    Readers = {scanner}
    Writer = inserter
    Blocks = {b1, b2, b3}
    Users = {u1, u2}
    Tables = {f1, f2, f3}
    Openers = {o1, o2, o3, o4}
    t1 = t1
    t2 = t2
    t3 = t3
    p1 = p1
    p2 = p2
    p3 = p3
    GroupBits = 5
    Bytes32 = 2
    Bytes64 = 4
INVARIANTS ScanIsComplete CachesSafe LocksSafe DecodesSafely ReadsWhatWasWritten
CHECK_DEADLOCK FALSE
