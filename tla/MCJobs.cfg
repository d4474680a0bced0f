SPECIFICATION Spec
CHECK_DEADLOCK FALSE
SYMMETRY Symmetry
VIEW View
CONSTANTS
    Parts = {"queue, seeds",
             "queue, catalog",
             "playback",
             "snapshot",
             "summarizer",
             "routing",
             "english-life",
             "transcripts",
             "interests",
             "briefings"}
    none = none
    w1 = w1
    w2 = w2
    site = site
    link = link
    x = x
    y = y
    admin = admin
    job = job
    other = other
INVARIANTS
    TypeOK
    RetryBudgetKept
    TombstonesStayInvalid
    RecordsWhole
    ProvidersKept
    PlansKept
PROPERTIES
    StoppedSticky
    DeadlineKept
    JobsFenced
