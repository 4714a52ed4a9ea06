\* A provider that hangs in one turn and refuses the next.
SPECIFICATION FairSpec
CONSTANTS
    Callers = {c1, c2}
    MaxRuns = 2
    MaxAgents = 1
    Requests = {"send", "cancel"}
    StartMayFail = FALSE
    EarlyTerminals = FALSE
    StaleTerminals = FALSE
    Autonomous = FALSE
    SerialSends = TRUE
PROPERTY
    EndedRunLeavesMap
CHECK_DEADLOCK FALSE
