SPECIFICATION FairSpec
CONSTANTS
    o1 = o1
    i1 = i1
    h1 = h1
    h2 = h2
    h3 = h3
    Orders = {o1}
    Intents = {i1}
    Handlers = {h1, h2, h3}
    Nobody = Nobody
    MaxManual = 1
    MaxFaults = 1
INVARIANTS
    TypeOK
    InvoicedAtMostOnce
    RecordsAreBacked
PROPERTIES
    UndeclinedFollowsTransitions
    PaidIsFulfilled
CHECK_DEADLOCK FALSE
