SPECIFICATION FairSpec
CONSTANTS
    own = own
    system = system
    w1 = w1
    w2 = w2
    h1 = h1
    NoSegment = NoSegment
    NoWorker = NoWorker
    Segments = {own, system}
    SystemSegments = {system}
    Workers = {w1}
    Handlers = {h1}
    MaxVersion = 2
    BadVersions = {}
    MaxAttempts = 2
    MaxStalls = 1
    MaxFaults = 0
PROPERTIES
    EventuallyCurrent
CHECK_DEADLOCK FALSE
