SPECIFICATION FairSpec
CONSTANTS
    MaxRows = 4
    MaxEpochs = 1
    Slots = {r1, r2}
    NoSlot = NoSlot
    MaxTimelineItems = 0
    TailLimit = 0
    Mobile = FALSE
    Unloads = FALSE
    RecordsInReload = FALSE
INVARIANTS
    CaughtUp
PROPERTIES
    OpenSettles
CHECK_DEADLOCK FALSE
