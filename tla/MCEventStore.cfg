SPECIFICATION Spec
CONSTANTS
    e1 = e1
    e2 = e2
    c1 = c1
    c2 = c2
    Unminted = Unminted
    Events = {e1, e2}
    Identified = {e1}
    Clients = {c1, c2}
    Stamps <- MCStamps
    MonthLength = 2
    UtcLag = 1
    Past = 2
    Future = 1
    Seeded <- MCSeeded
    StartTimes <- MCStart
    Retention = 2
    MaxAttempts = 2
    MaxTime = 9
    MaxFaults = 1
INVARIANTS
    WindowHasPartition
    RetentionKept
    AckedIsLinked
CHECK_DEADLOCK FALSE
