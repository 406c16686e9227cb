SPECIFICATION Spec
CONSTANTS
    p1 = p1
    h1 = h1
    h2 = h2
    Payments = {p1}
    Handlers = {h1, h2}
    Days = 2
    MaxTime = 4
    MaxBoosts = 1
    MaxChanges = 3
    MaxFaults = 1
INVARIANTS
    TypeOK
    SearchIsTruthful
    BoostTimeIsKept
PROPERTIES
    FirstPublishedOnce
SYMMETRY Symmetry
CHECK_DEADLOCK FALSE
