\* Every request and every liberty of the provider, two requests at a time.
SPECIFICATION Spec
CONSTANTS
    Callers = {c1, c2}
    MaxRuns = 3
    MaxAgents = 2
    Requests = {"send", "cancel", "close", "reload", "resume"}
    StartMayFail = TRUE
    EarlyTerminals = TRUE
    StaleTerminals = TRUE
    Autonomous = TRUE
    SerialSends = FALSE
SYMMETRY CallerSymmetry
INVARIANTS
    TypeOK
    TurnHasItsRun
    CancelClearsTurn
PROPERTIES
    ImplementsSlot
CHECK_DEADLOCK FALSE
