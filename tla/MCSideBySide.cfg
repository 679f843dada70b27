SPECIFICATION SideSpec
CONSTANTS
    e1 = e1
    e2 = e2
    e3 = e3
    c1 = c1
    u1 = u1
    u2 = u2
    s1 = s1
    open = open
    order = order
    campaign = campaign
    adGroup = adGroup
    w1 = w1
    w2 = w2
    admin = admin
    l1 = l1
    l2 = l2
    b1 = b1
    b2 = b2
    buyer = buyer
    pune = pune
    t1 = t1
    t2 = t2
    Nobody = Nobody
    FirstSeen = FirstSeen
    Unminted = Unminted
    Nil = Nil
    None = None
    Names = {open, order}
    Name <- MCName
    User <- MCUser
    Session <- MCSession
    Steps <- MCSteps
    SessionDay <- MCSessionDay
    IstDay <- MCIstDay
    Events = {e1, e2, e3}
    Identified = {e1, e3}
    Clients = {c1}
    Stamps <- MCStamps
    MonthLength = 2
    UtcLag = 1
    Past = 2
    Future = 1
    Seeded <- MCSeeded
    StartTimes <- MCStart
    Retention = 2
    MaxAttempts = 2
    MaxTime = 5
    MaxFaults = 1
    EnabledApps <- MCApps
    Units = {adGroup}
    EntityOf <- MCEntityOf
    Derived = TRUE
    Lookback = 3
    RestateDays = 1
    MaxDay = 3
    MaxSpend = 2
    Evaluators = {w1, w2}
    Campaigns = {campaign}
    CampaignSpend <- MCCampaignSpend
    AdNames <- MCAdNames
    NameOf <- MCNameOf
    CpfoThreshold = 500
    DropPct = 40
    TrailingOrders = 0
    Recipients = {admin}
    MaxFirstOrders = 1
    LastDay = 1
    MaxMishaps = 2
    Engines <- MCEngines
    Questions <- MCQuestions
    Lanes = {l1, l2}
    Runs = 2
    MaxOutages = 2
    Bookings = {b1, b2}
    Buyer <- MCBuyer
    Calls = {1, 2}
    Backoffs = 1
    MaxTroubles = 2
    OrderDay <- MCOrderDay
    Value <- MCValue
    OrderCity <- MCOrderCity
    AdOf <- MCAdOf
    Ads = {campaign}
    AdChannel <- MCAdChannel
    AdName <- MCNameOf
    AdCity <- MCAdCity
    Spends <- MCSpends
    ReportDays <- MCReportDays
    Landings = {t1, t2}
    Body <- MCBody
    Forwards = 2
SYMMETRY MCSymmetry
INVARIANTS
    TypesOK
    LookbackAbsorbs
    AlertsCostStalls
    FollowUpsCostFaults
    AnswersKept
    FirstOrderOnce
    OrdersCostFaults
    RevenueOnce
    TouchesCostFaults
    ReportsAgree
PROPERTIES
    LoginKeepsProgress
CHECK_DEADLOCK FALSE
