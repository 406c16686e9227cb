SPECIFICATION Spec
CONSTANTS
    v1 = v1
    v2 = v2
    v3 = v3
    p1 = p1
    p2 = p2
    p3 = p3
    h1 = h1
    h2 = h2
    Ids = {v1, v2, v3}
    Seekers = {p1, p2, p3}
    Conductor = "owner"
    Owner = "owner"
    Handlers = {h1, h2}
    Starts = {2}
    Schedules <- MCOpen
    SlotLen = 1
    Buffer = 1
    MinLead = 1
    Horizon = 5
    MaxNow = 0
    MaxSeq = 0
SYMMETRY Symmetry
INVARIANT IsolatedConfirmsFitCapacity
CHECK_DEADLOCK FALSE
