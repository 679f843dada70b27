SPECIFICATION Spec
CONSTANTS
    own = own
    system = system
    w1 = w1
    w2 = w2
    h1 = h1
    NoSegment = NoSegment
    NoWorker = NoWorker
    Segments = {own}
    SystemSegments = {}
    Workers = {w1}
    Handlers = {h1}
    MaxVersion = 3
    BadVersions = {2}
    MaxAttempts = 2
    MaxStalls = 1
    MaxFaults = 0
INVARIANT EditsAreDue
CHECK_DEADLOCK FALSE
