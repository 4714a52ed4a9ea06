\* Two calls at a time, of every kind, over both layouts.
SPECIFICATION Spec
CONSTANTS
    Callers = {c1, c2}
    Kinds = {"snapshot", "title", "archiveAgent", "archive", "unarchive", "update", "resume", "remove"}
    LegacyLast = TRUE
    WriteMayFail = TRUE
    UnlinkMayFail = FALSE
    Overlap = TRUE
    MaxCalls = 4
    MaxCrashes = 1
INVARIANTS
    TypeOK
    CacheIsDurable
PROPERTIES
    ImplementsStore
    CallsReturn
CHECK_DEADLOCK FALSE
