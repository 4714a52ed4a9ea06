\* Prompts and cancels against a provider that may hang or refuse a turn but ends a turn
\* only once and only after its startTurn has resolved.
SPECIFICATION FairSpec
CONSTANTS
    Callers = {c1, c2, c3}
    MaxRuns = 3
    MaxAgents = 1
    Requests = {"send", "cancel"}
    StartMayFail = TRUE
    EarlyTerminals = FALSE
    StaleTerminals = FALSE
    Autonomous = FALSE
    SerialSends = TRUE
PROPERTIES
    NoIdleWhileReplacing
    SettledRunEnds
    CancelReturns
    HoldIsReleased
CHECK_DEADLOCK FALSE
