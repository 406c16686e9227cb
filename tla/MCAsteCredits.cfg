SPECIFICATION FairSpec
CONSTANTS
    u1 = u1
    p1 = p1
    p2 = p2
    a1 = a1
    a2 = a2
    h1 = h1
    h2 = h2
    Users = {u1}
    Payments = {p1, p2}
    Analyses = {a1, a2}
    Buyer <- MCBuyer
    Pack <- MCPack
    Reader <- MCReader
    Handlers = {h1, h2}
    Conns = 2
    Wired = TRUE
    MaxFaults = 1
INVARIANTS
    TypeOK
    BalanceIsLedgerSum
    UnlocksArePaid
    LedgerIsAudited
    RepliesAreCommitted
PROPERTIES
    PaidIsAnswered
    ImplementsLedger
CHECK_DEADLOCK FALSE
