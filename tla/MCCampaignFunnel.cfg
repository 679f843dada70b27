SPECIFICATION Spec
CONSTANTS
    u1 = u1
    u2 = u2
    s1 = s1
    s2 = s2
    n1 = n1
    n2 = n2
    meta = meta
    google = google
    qr = qr
    NotSet = NotSet
    Users = {u1, u2}
    Sessions = {s1, s2}
    Entities <- MCEntities
    Facts <- MCFacts
    Touches <- MCTouches
    Events <- MCEvents
    Orders <- MCOrders
    Links <- MCLinks
    Filters <- MCFilters
    Day = 2
    Days = {1, 2}
    Lookback = 1
    Grace = 1
    MaxTouches = 2
    MaxFacts = 2
    MaxLinks = 2
INVARIANTS
    FilterKeepsCredit
    RowsAddUp
    InstallInOneWindow
PROPERTIES
    NothingLaterIsCredited
CHECK_DEADLOCK FALSE
