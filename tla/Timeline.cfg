SPECIFICATION Spec
CONSTANTS
    MaxRows = 4
    MaxEpochs = 2
    Slots = {r1, r2}
    NoSlot = NoSlot
    MaxTimelineItems = 2
    TailLimit = 1
    Mobile = TRUE
    Unloads = TRUE
    RecordsInReload = FALSE
SYMMETRY SlotSymmetry
INVARIANTS
    TypeOK
    ShownIsLog
PROPERTIES
    NeverGoesBack
CHECK_DEADLOCK FALSE
