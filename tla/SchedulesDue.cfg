SPECIFICATION FairSpec
CONSTANTS
    Schedules = {s1, s2}
    ShortReads = TRUE
    Ticks = {t1, t2}
    Users = {u1}
    Period = 2
    Cron = TRUE
    MaxRuns = 0
    ExpiresAt = 0
    MaxTime = 2
    MaxExecutions = 2
    MaxCommands = 2
    MaxCrashes = 0
    MaxFailures = 2
PROPERTIES DueRuns
CHECK_DEADLOCK FALSE
