SPECIFICATION Spec
CONSTANTS
    Devices = {d1}
    Emails = {e1, e2}
    Passwords = {p1}
    Slots = {c1, c2}
    NoUser = NoUser
    NoAccount = NoAccount
    NoPassword = NoPassword
SYMMETRY Symmetry
INVARIANTS
    AuthGate
    StuckOnlyWhenLate
    RecordsHaveAccounts
    NoOrphanUnlessCut
