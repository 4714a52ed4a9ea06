SPECIFICATION Spec
CONSTANTS
    Schedules = {s1, s2}
    ShortReads = TRUE
    Ticks = {t1, t2}
    Users = {u1}
    Period = 1
    Cron = FALSE
    MaxRuns = 0
    ExpiresAt = 3
    MaxTime = 3
    MaxExecutions = 1
    MaxCommands = 3
    MaxCrashes = 1
    MaxFailures = 2
SYMMETRY Symmetry
INVARIANTS TypeOK OneExecution
PROPERTIES NoMissedRun
CHECK_DEADLOCK FALSE
