SPECIFICATION FairSpec
CHECK_DEADLOCK FALSE
CONSTANTS
    Parts = {"summary",
             "snapshot",
             "preview",
             "clips",
             "addresses"}
    none = none
    empty = empty
    w1 = w1
    a1 = a1
    x = x
    y = y
PROPERTIES
    JobsServed
    CapturesServed
