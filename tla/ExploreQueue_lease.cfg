SPECIFICATION Spec
CONSTANTS
    NoSource = NoSource
    s1 = s1
    w1 = w1
    w2 = w2
    Source = {s1}
    Seed = {}
    Worker = {w1, w2}
    BatchLimit = 1
    Concurrency = 1
    RetryBudget = 1
    SeedRetries = 1
    LeaseLength = 1
    MaxDelay = 1
    MaxTime = 3
SYMMETRY Symmetry
VIEW LeaseView
INVARIANTS
    TypeOK
    OneBatch
    RunQuota
    PendingSound
PROPERTIES
    Fenced
