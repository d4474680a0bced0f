SPECIFICATION Spec
CHECK_DEADLOCK FALSE
CONSTANTS
    Parts = {"sign-in", "registration", "tokens", "guard", "request", "sharing", "shortcut", "share page", "reading", "profile", "backup", "restore"}
    Passes = 1
    Tags = 1
INVARIANTS
    TypeOK
    AccountsKept
    SharesKept
    DataKept
PROPERTIES
    AccountsSettled
    ReadersSettled
