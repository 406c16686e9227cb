SPECIFICATION Spec
CONSTANTS
    m1 = m1
    h1 = h1
    h2 = h2
    Mandates = {m1}
    Handlers = {h1, h2}
    MaxEnvelopes = 2
    MaxRequests = 4
    MaxFaults = 0
INVARIANTS
    OwnerEscalationBlocks
CHECK_DEADLOCK FALSE
