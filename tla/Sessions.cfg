SPECIFICATION FairSpec
CONSTANTS
    Clients = {d1, d2}
    Requests = {r1}
    Sockets = {s1, s2, s3, s4}
    None = None
    Shares = {TRUE, FALSE}
    LateVerdict = FALSE
    Impatient = FALSE
    MaxFaults = 1
INVARIANTS TypeOK NoVainWait SessionHeld
PROPERTIES ComesBack EverythingIsReleased
CHECK_DEADLOCK FALSE
