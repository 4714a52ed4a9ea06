SPECIFICATION FairSpec
CONSTANTS
    Clients = {c1}
    Controls = {k1, k2}
    None = None
    BufferLimit = 2
    LateRefusals = FALSE
    MaxFaults = 1
INVARIANTS TypeOK
PROPERTIES ClientServed StrandedLeaves ControlSettles
CHECK_DEADLOCK FALSE
