SPECIFICATION Spec
CONSTANTS
    o1 = o1
    o2 = o2
    t1 = t1
    t2 = t2
    t3 = t3
    p1 = p1
    p2 = p2
    q1 = q1
    q2 = q2
    Owner = {o1}
    Ticket = {t1, t2}
    NoTicket = NoTicket
    NoOwner = NoOwner
    Starter = {p1}
    Stream = {q1, q2}
    MaxSessions = 2
    IdleTTL = 1
    AbsoluteTTL = 2
    ResolveLimit = 1
PROPERTY
    TransparentRefresh
