SPECIFICATION Spec
CONSTANTS
    u1 = u1
    u2 = u2
    c1 = c1
    c2 = c2
    Owner = {u1, u2}
    Site = Site
    Caller = {c1, c2}
    NoCaller = NoCaller
    Admin = {u2}
    Daily = 1
    AdminDaily = 2
    GlobalDaily = 2
    Concurrent = 1
    GlobalConcurrent = 2
    LeaseLength = 1
    MaxCost = 2
    MaxDay = 1
    MaxTime = 2
SYMMETRY Symmetry
INVARIANTS
    TypeOK
    LimitsKept
    LeaseHeld
    Ledger
PROPERTIES
    Atomic
