SPECIFICATION Spec
CHECK_DEADLOCK FALSE
CONSTANTS
    Parts = {"feeds",
             "page feed",
             "preview",
             "structured page",
             "link sets",
             "clips",
             "explore reader",
             "explore copies",
             "registry",
             "related sites",
             "seeds",
             "addresses",
             "image lanes",
             "image cache"}
INVARIANTS
    TypeOK
    FeedsKept
    CapturesKept
    ExploreKept
    NetworkKept
PROPERTIES
    SourcesKept
