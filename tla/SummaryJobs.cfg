SPECIFICATION Spec
CONSTANTS
    w1 = w1
    a1 = a1
    b1 = b1
    x = x
    y = y
    Worker = {w1}
    Api = {a1}
    Browser = {b1}
    NoCaller = NoCaller
    Content = {x, y}
    NoContent = NoContent
    LeaseLength = 2
    CallLimit = 1
    MaxAttempts = 2
    MaxReset = 0
SYMMETRY Symmetry
INVARIANTS
    TypeOK
    SummaryKept
PROPERTIES
    LeaseKept
    NoLostSummary
