SPECIFICATION Spec
CONSTANTS
    u1 = u1
    u2 = u2
    u3 = u3
    here = here
    there = there
    pune = pune
    NotSet = NotSet
    Nobody = Nobody
    App = here
    Users = {u1, u2, u3}
    Orders <- MCOrders
    Events <- MCEvents
    Criteria <- MCCriteria
    Groups <- MCGroups
    Buckets = 2
    Orderings <- MCOrderings
    MaxRows = 3
    MaxNow = 2
INVARIANTS
    MembersMeanIt
    BandIsTopSpenders
PROPERTIES
    TimeOnlyRemoves
CHECK_DEADLOCK FALSE
