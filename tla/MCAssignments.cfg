SPECIFICATION Spec
CONSTANTS
    t1 = t1
    p1 = p1
    p2 = p2
    h1 = h1
    h2 = h2
    Tasks = {t1, t2}
    t2 = t2
    Pros = {p1, p2}
    Handlers = {h1, h2}
    Nobody = Nobody
    Capacity <- MCCapacity
    MaxFaults = 1
INVARIANTS
    TypeOK
    LoadIsWorkInHand
    UncrowdedFitCapacity
PROPERTIES
    UndisturbedFollowsTransitions
CHECK_DEADLOCK FALSE
