SPECIFICATION Spec
CONSTANTS
    MaxStarts = 2
    MaxChunks = 2
    MaxRecordings = 1
    MaxEvents = 1
    AutoCommit = 1
    Retries = TRUE
    Overlap = FALSE
INVARIANTS
    TypeOK
    ChunksInOrder
    TextInOrder
PROPERTIES
    NothingAfterCancel
    ConfirmSettles
CHECK_DEADLOCK FALSE
