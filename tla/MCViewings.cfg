SPECIFICATION Spec
CONSTANTS
    v1 = v1
    v2 = v2
    v3 = v3
    p1 = p1
    p2 = p2
    p3 = p3
    h1 = h1
    h2 = h2
    Ids = {v1, v2}
    Seekers = {p1, p2}
    Conductor = "owner"
    Owner = "owner"
    Handlers = {h1, h2}
    Starts <- MCStarts
    Schedules <- MCSchedules
    SlotLen = 1
    Buffer = 1
    MinLead = 2
    Horizon = 5
    MaxNow = 1
    MaxSeq = 1
SYMMETRY Symmetry
INVARIANTS
    TypeOK
    OneActivePerSeekerSlot
    IsolatedBookingsDoNotOverlap
PROPERTY IsolatedLifecycle
CHECK_DEADLOCK FALSE
