SPECIFICATION FairSpec
CONSTANTS
    r1 = r1
    r2 = r2
    u1 = u1
    u2 = u2
    NoItem = NoItem
    Items = {1, 2, 3}
    Leads = {1, 2}
    Lanes <- MCTwoApps
    Poison = {2}
    Resolvers = {r1, r2}
    Uploaders = {u1, u2}
    Batch = 1
    MaxPerRun = 2
    ResolveLimit = 1
    MaxFaults = 2
INVARIANTS
    TypeOK
    EarlyTouchAttributed
    DoublesCostFaults
PROPERTIES
    AttributionFinal
    ImplementsOutbox
    LanesFlow
CHECK_DEADLOCK FALSE
