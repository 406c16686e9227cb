SPECIFICATION FairSpec
CONSTANTS
    d1 = d1
    d2 = d2
    w1 = w1
    w2 = w2
    h1 = h1
    h2 = h2
    Analyses = {1}
    Docs = {d1, d2}
    Workers = {w1, w2}
    Handlers = {h1, h2}
    MaxFiles = 2
    MaxAttempts = 2
    Stale = 1
    MaxRequests = 4
    MaxStops = 1
INVARIANTS
    TypeOK
    ReadyIsIndexed
    AttemptsAreBounded
    ClaimsAreExclusive
PROPERTY SubmittedIsSettled
CHECK_DEADLOCK FALSE
