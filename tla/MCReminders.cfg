SPECIFICATION NoticesSpec
CONSTANTS
    v1 = v1
    p1 = p1
    h1 = h1
    s1 = s1
    r1 = r1
    r2 = r2
    Ids = {v1}
    Seekers = {p1}
    Conductor = "owner"
    Owner = "owner"
    Handlers = {h1}
    Schedulers = {s1}
    Runs = {r1, r2}
    Starts <- MCStarts
    Schedules <- MCSchedules
    RemLo <- MCRemLo
    RemHi <- MCRemHi
    SlotLen = 1
    Buffer = 1
    MinLead = 1
    Horizon = 4
    SweepEvery = 1
    MaxNow = 4
    MaxSeq = 1
    MaxFaults = 1
INVARIANTS
    NoticesTypeOK
    SequenceFixesStart
    CalendarShowsConfirmed
    RingsAreBounded
    NoReminderWindowIsMissed
CONSTRAINT Bound
SYMMETRY RunSymmetry
CHECK_DEADLOCK FALSE
