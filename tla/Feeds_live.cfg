SPECIFICATION FairSpec
CHECK_DEADLOCK FALSE
CONSTANTS
    OwnerOf <- OneOwner
    Feed = {"f"}
    Html = {}
    MaxVersion = 2
    Window = 2
    Batch = 1
    GlobalLimit = 1
    OwnerLimit = 1
    Interval = 1
    Soon = 1
    Base = 1
    MaxWait = 1
    MaxFailures = 1
    MaxRestarts = 1
PROPERTIES
    CaughtUp
