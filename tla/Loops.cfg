SPECIFICATION FairSpec
CONSTANTS
    Loops = {l1}
    NoLoop = NoLoop
    Torn = Torn
    NoWrite = NoWrite
    MaxIterations = 3
    Checks = 1
    Verifier = TRUE
    Retries = 1
    Deadline = TRUE
    EarlyStop = FALSE
    TornWrites = FALSE
    MaxFailures = 2
    MaxCrashes = 2
INVARIANTS TypeOK RunningHasRunner StopIsDone
PROPERTIES EndIsFinal StopInterrupts
CHECK_DEADLOCK FALSE
