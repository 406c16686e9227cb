SPECIFICATION FairSpec
CONSTANTS
    o1 = o1
    i1 = i1
    h1 = h1
    h2 = h2
    h3 = h3
    Orders = {o1}
    Intents = {i1}
    Handlers = {h1, h2}
    Nobody = Nobody
    MaxManual = 0
    MaxFaults = 0
PROPERTIES
    PaidIsSettled
CHECK_DEADLOCK FALSE
