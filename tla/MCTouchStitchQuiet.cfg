SPECIFICATION Spec
CONSTANTS
    s1 = s1
    s2 = s2
    u1 = u1
    u2 = u2
    w1 = w1
    w2 = w2
    meta1 = meta1
    meta2 = meta2
    Generic = Generic
    Own = Own
    Nobody = Nobody
    Sessions = {s1, s2}
    Users = {u1, u2}
    Campaigns = {meta1, meta2}
    Writers = {w1, w2}
    Posts <- MCPosts
    PageSize = 1
    MaxRows = 2
    MaxFaults = 0
INVARIANTS
    QuietSessionsCorrected
CHECK_DEADLOCK FALSE
