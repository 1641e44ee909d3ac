CONSTANTS
    Now = 6
    MaxCount = 3
    TTL = 1
    NoCtx = NoCtx
SPECIFICATION FairSpec
CHECK_DEADLOCK FALSE
INVARIANTS
    PagesDescend
    WindowIsCovered
PROPERTIES
    LoadEnds
    ContextIsEvicted
