SPECIFICATION ThreadsSpec
CONSTANTS
    Callers = {a, b}
    Bg = bg
    None = None
    MaxCalls = 2
    Clients = {t1, t2}
INVARIANTS InOrder NoneAsleep
PROPERTY CallsReturn
CHECK_DEADLOCK FALSE
