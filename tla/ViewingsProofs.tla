--------------------------- MODULE ViewingsProofs ---------------------------
(*****************************************************************************)
(* Proofs about Viewings, for every set of rows, seekers, handlers, starts   *)
(* and availabilities.                                                       *)
(*****************************************************************************)
EXTENDS Viewings, FiniteSetTheorems, TLAPS

\* Handlers act on rows that exist.
ActsOnRows ==
    \A h \in Handlers : req[h] # Idle => \A v \in req[h].on : viewing[v] \in Row

\* An event in flight was legal for the row its handler saw.
DecidedOnLegal ==
    \A h \in Handlers : req[h].op \in Events =>
        nextViewingStatus(req[h].seen.status, req[h].op) # "NONE"

Inv == TypeOK /\ ActsOnRows /\ DecidedOnLegal

-----------------------------------------------------------------------------
\* The table only leads to statuses of the enumeration.
LEMMA NextStatusLegal ==
    ASSUME NEW status, NEW e, nextViewingStatus(status, e) # "NONE"
    PROVE  nextViewingStatus(status, e) \in Status
BY DEF nextViewingStatus, Status, ActiveStatus

\* A step of a handler that only reads.
Reads(h) ==
    \/ \E p \in Seekers, s \in Starts : RequestBook(h, p, s)
    \/ \E a \in Seekers \cup {Conductor, Owner}, v \in Ids, s \in Starts :
          RequestReschedule(h, a, v, s)
    \/ \E a \in Seekers \cup {Conductor, Owner}, v \in Ids, e \in Events :
          RequestEvent(h, a, v, e)
    \/ ReadWindows(h)
    \/ ReadOccupancy(h)
    \/ CountConfirmedAt(h)

\* What a handler may hold: it acts on rows that exist, on a legal event.
Good(r) ==
    /\ r \in Requests
    /\ \A v \in r.on : viewing[v] \in Row
    /\ r.op \in Events => nextViewingStatus(r.seen.status, r.op) # "NONE"

\* Whatever a handler reads, it holds a good request afterwards.
LEMMA RequestTypes ==
    ASSUME Inv, NEW h \in Handlers, Reads(h)
    PROVE  \E r : Good(r) /\ req' = [req EXCEPT ![h] = r]
<1> USE DEF Inv, TypeOK, Request, Unread, Read
<1>1. ASSUME NEW p \in Seekers, NEW s \in Starts, RequestBook(h, p, s)
      PROVE  \E r : Good(r) /\ req' = [req EXCEPT ![h] = r]
  <2>1. activeOccupancy({}) \in SUBSET [id : Ids, start : Starts, status : ActiveStatus]
    BY DEF activeOccupancy, Active, Row, Absent, ActiveStatus
  <2> DEFINE r == Request("BOOK", {}, Absent, p, s)
  <2>2. Good([r EXCEPT !.sched = Read(schedule)])
    BY DEF Good, Requests, Events
  <2>3. Good([r EXCEPT !.occ = Read(activeOccupancy({}))])
    BY <2>1 DEF Good, Requests, Events
  <2> QED BY <1>1, <2>2, <2>3 DEF RequestBook
<1>2. ASSUME NEW a, NEW v \in Ids, NEW s \in Starts, RequestReschedule(h, a, v, s)
      PROVE  \E r : Good(r) /\ req' = [req EXCEPT ![h] = r]
  <2>1. viewing[v] \in Row
    BY <1>2 DEF RequestReschedule
  <2>2. Good(Request("RESCHEDULE", {v}, Absent, viewing[v].seeker, s))
    BY <2>1 DEF Good, Requests, Row, Events
  <2> QED BY <1>2, <2>2 DEF RequestReschedule
<1>3. ASSUME NEW a, NEW v \in Ids, NEW e \in Events, RequestEvent(h, a, v, e)
      PROVE  \E r : Good(r) /\ req' = [req EXCEPT ![h] = r]
  <2>1. viewing[v] \in Row
    BY <1>3 DEF RequestEvent
  <2>2. Good(Request(e, {v}, viewing[v], viewing[v].seeker, viewing[v].start))
    BY <1>3, <2>1 DEF Good, Requests, Row, RequestEvent
  <2> QED BY <1>3, <2>2 DEF RequestEvent
<1>4. ASSUME ReadWindows(h) PROVE \E r : Good(r) /\ req' = [req EXCEPT ![h] = r]
  <2>1. Good(req[h])
    BY <1>4 DEF ReadWindows, Idle, Good, ActsOnRows, DecidedOnLegal
  <2>2. Good([req[h] EXCEPT !.sched = Read(schedule)])
    BY <2>1 DEF Good, Requests
  <2> QED BY <1>4, <2>2 DEF ReadWindows
<1>5. ASSUME ReadOccupancy(h) PROVE \E r : Good(r) /\ req' = [req EXCEPT ![h] = r]
  <2>1. Good(req[h])
    BY <1>5 DEF ReadOccupancy, Idle, Good, ActsOnRows, DecidedOnLegal
  <2>2. activeOccupancy(req[h].on) \in SUBSET [id : Ids, start : Starts, status : ActiveStatus]
    BY DEF activeOccupancy, Active, Row, Absent, ActiveStatus
  <2>3. Good([req[h] EXCEPT !.occ = Read(activeOccupancy(req[h].on))])
    BY <2>1, <2>2 DEF Good, Requests
  <2> QED BY <1>5, <2>3 DEF ReadOccupancy
<1>6. ASSUME CountConfirmedAt(h) PROVE \E r : Good(r) /\ req' = [req EXCEPT ![h] = r]
  <2>1. Good(req[h])
    BY <1>6 DEF CountConfirmedAt, Idle, Good, ActsOnRows, DecidedOnLegal
  <2>2. ConfirmedAt(req[h].to) \ req[h].on \in SUBSET Ids
    BY DEF ConfirmedAt
  <2>3. Good([req[h] EXCEPT !.occ = Read(ConfirmedAt(req[h].to) \ req[h].on)])
    BY <2>1, <2>2 DEF Good, Requests
  <2> QED BY <1>6, <2>3 DEF CountConfirmedAt
<1> QED BY <1>1, <1>2, <1>3, <1>4, <1>5, <1>6 DEF Reads

\* The write of a commit leaves everything typed, and releases the handler.
LEMMA CommitTypes ==
    ASSUME Inv, NEW h \in Handlers, NEW v \in Ids, NEW row \in Row, Commit(h, v, row)
    PROVE  Inv'
<1> USE DEF Inv, Commit
<1>1. TypeOK'
  BY DEF TypeOK
<1>2. ActsOnRows'
  BY DEF ActsOnRows, TypeOK
<1>3. DecidedOnLegal'
  BY DEF DecidedOnLegal, TypeOK, Idle, Events
<1> QED BY <1>1, <1>2, <1>3

\* Each commit writes a well-formed row.
LEMMA BookRow ==
    ASSUME Inv, NEW h \in Handlers, NEW v \in Ids, CommitBook(h, v)
    PROVE  \E row \in Row : /\ Commit(h, v, row)
                            /\ row.status = "REQUESTED"
                            /\ row.seeker = req[h].seeker
                            /\ row.start = req[h].to
<1>1. req[h] \in Requests
  BY DEF Inv, TypeOK, CommitBook, Idle
<1>2. [status |-> "REQUESTED", seeker |-> req[h].seeker, start |-> req[h].to,
       seq |-> 0, sent |-> {}] \in Row
  BY <1>1 DEF Requests, Row, Status, ActiveStatus
<1> QED BY <1>2 DEF CommitBook

LEMMA RescheduleRow ==
    ASSUME Inv, NEW h \in Handlers, NEW v \in Ids, CommitReschedule(h, v)
    PROVE  /\ viewing[v] \in Row
           /\ \E row \in Row : /\ Commit(h, v, row)
                               /\ row.status = "REQUESTED"
                               /\ row.seeker = viewing[v].seeker
                               /\ row.start = req[h].to
<1>1. req[h] \in Requests /\ req[h] # Idle
  BY DEF Inv, TypeOK, CommitReschedule, Idle
<1>2. viewing[v] \in Row
  BY <1>1 DEF Inv, ActsOnRows, CommitReschedule
<1> DEFINE row == [status |-> "REQUESTED", seeker |-> viewing[v].seeker, start |-> req[h].to,
                   seq |-> viewing[v].seq + 1, sent |-> {}]
<1>3. req[h].to \in Starts
  BY <1>1 DEF Requests
<1>4. "REQUESTED" \in Status
  BY DEF Status, ActiveStatus
<1>5. viewing[v].seq \in Nat
  BY <1>2 DEF Row
<1>6. /\ row \in Row
      /\ row.status = "REQUESTED"
      /\ row.seeker = viewing[v].seeker
      /\ row.start = req[h].to
  BY <1>2, <1>3, <1>4, <1>5 DEF Row
<1> QED BY <1>2, <1>6 DEF CommitReschedule

LEMMA EventRow ==
    ASSUME Inv, NEW h \in Handlers, NEW v \in Ids, NEW e \in Events, CommitEvent(h, v, e)
    PROVE  /\ viewing[v] \in Row
           /\ \E row \in Row : /\ Commit(h, v, row)
                               /\ row.status = nextViewingStatus(req[h].seen.status, e)
                               /\ row.seeker = viewing[v].seeker
                               /\ row.start = viewing[v].start
<1>1. req[h] \in Requests /\ req[h] # Idle
  BY DEF Inv, TypeOK, CommitEvent, Idle, Events
<1>2. viewing[v] \in Row
  BY <1>1 DEF Inv, ActsOnRows, CommitEvent
<1> DEFINE status == nextViewingStatus(req[h].seen.status, e)
<1>3. status \in Status
  BY NextStatusLegal DEF Inv, DecidedOnLegal, CommitEvent
<1> HIDE DEF status
<1> DEFINE row == [viewing[v] EXCEPT !.status = status]
<1>4. row \in Row /\ row.status = status /\ row.seeker = viewing[v].seeker
      /\ row.start = viewing[v].start
  BY <1>2, <1>3 DEF Row
<1> QED BY <1>2, <1>4 DEF CommitEvent, status

-----------------------------------------------------------------------------
LEMMA InitInv == Init => Inv
<1> SUFFICES ASSUME Init PROVE Inv
  OBVIOUS
<1>1. MaxNow \in Nat
  BY IntervalAssumption
<1>2. TypeOK
  <2>1. viewing \in [Ids -> Row \cup {Absent}]
    BY DEF Init
  <2>2. req \in [Handlers -> Requests \cup {Idle}]
    BY DEF Init
  <2>3. now \in 0..MaxNow
    BY <1>1 DEF Init
  <2> QED BY <2>1, <2>2, <2>3 DEF Init, TypeOK
<1>3. ActsOnRows /\ DecidedOnLegal
  BY DEF Init, ActsOnRows, DecidedOnLegal, Idle, Events
<1> QED BY <1>2, <1>3 DEF Inv

LEMMA ReadsInv ==
    ASSUME Inv, NEW h \in Handlers, Reads(h)
    PROVE  Inv'
<1>1. UNCHANGED <<viewing, schedule, now, history>>
  BY DEF Reads, RequestBook, RequestReschedule, RequestEvent, ReadWindows, ReadOccupancy,
         CountConfirmedAt
<1>2. TypeOK'
  BY <1>1, RequestTypes DEF Inv, TypeOK, history, Good
<1>3. ActsOnRows'
  BY <1>1, RequestTypes DEF Inv, TypeOK, ActsOnRows, Good
<1>4. DecidedOnLegal'
  BY RequestTypes DEF Inv, TypeOK, DecidedOnLegal, Good
<1> QED BY <1>2, <1>3, <1>4 DEF Inv

LEMMA OthersInv ==
    ASSUME Inv
    PROVE  /\ \A h \in Handlers : Refuse(h) => Inv'
           /\ \A sched \in Schedules : SetAvailability(sched) => Inv'
           /\ Tick => Inv'
<1>1. ASSUME NEW h \in Handlers, Refuse(h) PROVE Inv'
  BY <1>1 DEF Refuse, Inv, TypeOK, ActsOnRows, DecidedOnLegal, Idle, Events
<1>2. ASSUME NEW sched \in Schedules, SetAvailability(sched) PROVE Inv'
  <2>1. edited' \in BOOLEAN
    BY <1>2 DEF SetAvailability
  <2> QED BY <1>2, <2>1 DEF SetAvailability, Inv, TypeOK, ActsOnRows, DecidedOnLegal
<1>3. ASSUME Tick PROVE Inv'
  <2>1. now' \in 0..MaxNow
    BY <1>3, IntervalAssumption DEF Tick, Inv, TypeOK
  <2> QED BY <1>3, <2>1 DEF Tick, Inv, TypeOK, ActsOnRows, DecidedOnLegal, history
<1> QED BY <1>1, <1>2, <1>3

\* Every step preserves the invariant.
LEMMA NextInv == Inv /\ [Next]_vars => Inv'
<1> SUFFICES ASSUME Inv, [Next]_vars PROVE Inv'
  OBVIOUS
<1>1. ASSUME NEW h \in Handlers, Handle(h) PROVE Inv'
  <2>1. CASE Reads(h)
    BY <2>1, ReadsInv
  <2>2. ASSUME NEW v \in Ids, CommitBook(h, v) PROVE Inv'
    BY <2>2, BookRow, CommitTypes
  <2>3. ASSUME NEW v \in Ids, CommitReschedule(h, v) PROVE Inv'
    BY <2>3, RescheduleRow, CommitTypes
  <2>4. ASSUME NEW v \in Ids, NEW e \in Events, CommitEvent(h, v, e) PROVE Inv'
    BY <2>4, EventRow, CommitTypes
  <2>5. CASE Refuse(h)
    BY <2>5, OthersInv
  <2> QED BY <1>1, <2>1, <2>2, <2>3, <2>4, <2>5 DEF Handle, Reads
<1>2. CASE UNCHANGED vars
  BY <1>2 DEF vars, Inv, TypeOK, ActsOnRows, DecidedOnLegal
<1> QED BY <1>1, <1>2, OthersInv DEF Next

\* Every variable keeps its type, whatever the requests and their interleaving.
THEOREM TypeCorrect == Spec => []TypeOK
<1>1. Spec => []Inv
  BY InitInv, NextInv, PTL DEF Spec
<1> QED BY <1>1, PTL DEF Inv

-----------------------------------------------------------------------------
\* The unique index is enough: no interleaving of stale handlers gives one seeker two
\* active viewings at one start.
THEOREM SeekerSlotUnique == Spec => []OneActivePerSeekerSlot
<1>1. Init => OneActivePerSeekerSlot
  BY DEF Init, OneActivePerSeekerSlot, Active, Absent, ActiveStatus
<1>2. Inv /\ OneActivePerSeekerSlot /\ [Next]_vars => OneActivePerSeekerSlot'
  <2> SUFFICES ASSUME Inv, OneActivePerSeekerSlot, [Next]_vars
               PROVE  OneActivePerSeekerSlot'
    OBVIOUS
  <2>1. ASSUME UNCHANGED viewing PROVE OneActivePerSeekerSlot'
    BY <2>1 DEF OneActivePerSeekerSlot, Active
  <2>2. ASSUME NEW h \in Handlers, NEW v \in Ids, NEW row \in Row, Commit(h, v, row),
               row.status \in ActiveStatus => uniqueIndexAdmits(v, row.seeker, row.start)
        PROVE  OneActivePerSeekerSlot'
    <3>1. viewing' = [viewing EXCEPT ![v] = row] /\ viewing \in [Ids -> Row \cup {Absent}]
      BY <2>2 DEF Commit, Inv, TypeOK
    <3> QED BY <2>2, <3>1 DEF OneActivePerSeekerSlot, Active, uniqueIndexAdmits
  <2>3. ASSUME NEW h \in Handlers, Handle(h) PROVE OneActivePerSeekerSlot'
    <3>1. CASE Reads(h) \/ Refuse(h)
      BY <3>1, <2>1 DEF Reads, Refuse, RequestBook, RequestReschedule, RequestEvent,
                        ReadWindows, ReadOccupancy, CountConfirmedAt
    <3>2. ASSUME NEW v \in Ids, CommitBook(h, v) PROVE OneActivePerSeekerSlot'
      BY <3>2, <2>2, BookRow DEF CommitBook
    <3>3. ASSUME NEW v \in Ids, CommitReschedule(h, v) PROVE OneActivePerSeekerSlot'
      BY <3>3, <2>2, RescheduleRow DEF CommitReschedule
    <3>4. ASSUME NEW v \in Ids, NEW e \in Events, CommitEvent(h, v, e)
          PROVE  OneActivePerSeekerSlot'
      BY <3>4, <2>2, EventRow DEF CommitEvent
    <3> QED BY <2>3, <3>1, <3>2, <3>3, <3>4 DEF Handle, Reads
  <2> QED BY <2>1, <2>3 DEF Next, SetAvailability, Tick, vars
<1>3. Spec => []Inv
  BY InitInv, NextInv, PTL DEF Spec
<1> QED BY <1>1, <1>2, <1>3, PTL DEF Spec

-----------------------------------------------------------------------------
\* What a handler decides on is still what the tables hold.
Current(h) ==
    /\ req[h].op = "BOOK" => req[h].on = {}
    /\ req[h].op \in Events =>
          \A v \in req[h].on : req[h].seen = viewing[v] /\ req[h].to = viewing[v].start
    /\ req[h].op = "RESCHEDULE" => \A v \in req[h].on : Active(v)
    /\ req[h].occ.read =>
          req[h].occ.value = IF req[h].op = "CONFIRM" THEN ConfirmedAt(req[h].to) \ req[h].on
                             ELSE activeOccupancy(req[h].on)
    /\ req[h].sched.read /\ ~edited => req[h].sched.value = schedule
    /\ req[h].op = "CONFIRM" /\ req[h].occ.read => req[h].sched.read

\* Until somebody writes on stale data, whoever is not stale decides on the present.
ReadsAreCurrent ==
    ~tainted => \A h \in Handlers : req[h] # Idle /\ h \notin stale => Current(h)

\* The rows that exist, of which there are finitely many, however many Ids there are.
Rows == {v \in Ids : viewing[v] # Absent}

Isolated == Inv /\ ReadsAreCurrent /\ IsFiniteSet(Rows)

LEMMA StaysCurrent ==
    ASSUME NEW g, Current(g), viewing' = viewing, req'[g] = req[g],
           ~edited' => ~edited /\ schedule' = schedule
    PROVE  Current(g)'
<1>1. /\ \A s : ConfirmedAt(s)' = ConfirmedAt(s)
      /\ \A on : activeOccupancy(on)' = activeOccupancy(on)
      /\ \A v : Active(v)' = Active(v)
  BY DEF ConfirmedAt, activeOccupancy, Active
<1> QED BY <1>1 DEF Current

\* A handler that reads stays current.
LEMMA ReadsStayCurrent ==
    ASSUME Isolated, NEW h \in Handlers, Reads(h)
    PROVE  ReadsAreCurrent'
<1>1. UNCHANGED <<viewing, schedule, now, stale, tainted, edited>>
  BY DEF Reads, RequestBook, RequestReschedule, RequestEvent, ReadWindows, ReadOccupancy,
         CountConfirmedAt, history
<1>2. PICK r : req' = [req EXCEPT ![h] = r]
  BY RequestTypes DEF Isolated
<1> SUFFICES ASSUME ~tainted, NEW g \in Handlers, req'[g] # Idle, g \notin stale
             PROVE  Current(g)'
  BY <1>1 DEF ReadsAreCurrent
<1>3. /\ \A s : ConfirmedAt(s)' = ConfirmedAt(s)
      /\ \A on : activeOccupancy(on)' = activeOccupancy(on)
      /\ \A v : Active(v)' = Active(v)
  BY <1>1 DEF ConfirmedAt, activeOccupancy, Active
<1>4. CASE g # h
  BY <1>1, <1>2, <1>4, StaysCurrent DEF Isolated, Inv, TypeOK, ReadsAreCurrent
<1>5. CASE g = h
  <2> USE DEF Unread, Read, Request, Events, Isolated, Inv, TypeOK
  <2>1. ASSUME NEW p \in Seekers, NEW s \in Starts, RequestBook(h, p, s) PROVE Current(g)'
    <3>1. /\ req'[h].op = "BOOK" /\ req'[h].on = {}
          /\ \/ req'[h].sched = Read(schedule) /\ req'[h].occ = Unread
             \/ req'[h].sched = Unread /\ req'[h].occ = Read(activeOccupancy({}))
      BY <2>1 DEF RequestBook
    <3> QED BY <1>1, <1>3, <1>5, <3>1 DEF Current
  <2>2. ASSUME NEW a, NEW v \in Ids, NEW s \in Starts, RequestReschedule(h, a, v, s)
        PROVE  Current(g)'
    <3>1. Active(v)
      BY <2>2 DEF RequestReschedule, nextViewingStatus, Active
    <3> QED BY <1>1, <1>3, <1>5, <2>2, <3>1 DEF Current, RequestReschedule
  <2>3. ASSUME NEW a, NEW v \in Ids, NEW e \in Events, RequestEvent(h, a, v, e)
        PROVE  Current(g)'
    BY <1>1, <1>3, <1>5, <2>3 DEF Current, RequestEvent
  <2>4. ASSUME req[h].op # "IDLE" PROVE Current(h)
    BY <1>1, <1>5, <2>4 DEF ReadsAreCurrent, Idle
  <2>5. CASE ReadWindows(h)
    BY <1>1, <1>3, <1>5, <2>4, <2>5 DEF Current, ReadWindows, Idle, Requests
  <2>6. CASE ReadOccupancy(h)
    BY <1>1, <1>3, <1>5, <2>4, <2>6 DEF Current, ReadOccupancy, Idle, Requests
  <2>7. CASE CountConfirmedAt(h)
    BY <1>1, <1>3, <1>5, <2>4, <2>7 DEF Current, CountConfirmedAt, Idle, Requests
  <2> QED BY <2>1, <2>2, <2>3, <2>5, <2>6, <2>7 DEF Reads
<1> QED BY <1>4, <1>5

\* After a write everybody else in flight is stale.
LEMMA CommitIsolates ==
    ASSUME Isolated, NEW h \in Handlers, NEW v \in Ids, NEW row \in Row, Commit(h, v, row)
    PROVE  Isolated'
<1>1. Inv'
  BY CommitTypes DEF Isolated
<1>2. ReadsAreCurrent'
  BY DEF Commit, ReadsAreCurrent, Isolated, Inv, TypeOK
<1>3. IsFiniteSet(Rows)'
  <2>1. Rows' \in SUBSET (Rows \cup {v})
    BY DEF Commit, Rows, Isolated, Inv, TypeOK
  <2>2. IsFiniteSet(Rows \cup {v})
    BY FS_AddElement DEF Isolated
  <2> QED BY <2>1, <2>2, FS_Subset
<1> QED BY <1>1, <1>2, <1>3 DEF Isolated

LEMMA InitIsolated == Init => Isolated
<1> SUFFICES ASSUME Init PROVE Isolated
  OBVIOUS
<1>1. Rows = {}
  BY DEF Init, Rows
<1>2. ReadsAreCurrent
  BY DEF Init, ReadsAreCurrent
<1> QED BY <1>1, <1>2, InitInv, FS_EmptySet DEF Isolated

LEMMA NextIsolated == Isolated /\ [Next]_vars => Isolated'
<1> SUFFICES ASSUME Isolated, [Next]_vars PROVE Isolated'
  OBVIOUS
<1>1. Inv'
  BY NextInv DEF Isolated
<1>2. ASSUME UNCHANGED viewing, ReadsAreCurrent' PROVE Isolated'
  BY <1>1, <1>2 DEF Isolated, Rows
<1>3. ASSUME NEW h \in Handlers, Handle(h) PROVE Isolated'
  <2>1. CASE Reads(h)
    <3>1. UNCHANGED viewing
      BY <2>1 DEF Reads, RequestBook, RequestReschedule, RequestEvent, ReadWindows,
                  ReadOccupancy, CountConfirmedAt
    <3> QED BY <2>1, <3>1, <1>2, ReadsStayCurrent
  <2>2. CASE Refuse(h)
    <3>1. ReadsAreCurrent'
      BY <2>2, StaysCurrent DEF Refuse, ReadsAreCurrent, Isolated, Inv, TypeOK
    <3> QED BY <2>2, <3>1, <1>2 DEF Refuse
  <2>3. ASSUME NEW v \in Ids,
               CommitBook(h, v) \/ CommitReschedule(h, v) \/ \E e \in Events : CommitEvent(h, v, e)
        PROVE  Isolated'
    BY <2>3, BookRow, RescheduleRow, EventRow, CommitIsolates DEF Isolated
  <2> QED BY <1>3, <2>1, <2>2, <2>3 DEF Handle, Reads
<1>4. ASSUME NEW sched \in Schedules, SetAvailability(sched) PROVE Isolated'
  <2>1. ReadsAreCurrent'
    BY <1>4, StaysCurrent DEF SetAvailability, ReadsAreCurrent, Isolated
  <2> QED BY <1>4, <2>1, <1>2 DEF SetAvailability
<1>5. CASE Tick \/ UNCHANGED vars
  <2>1. UNCHANGED <<viewing, schedule, req, stale, tainted, edited>>
    BY <1>5 DEF Tick, vars, history
  <2>2. ReadsAreCurrent'
    BY <2>1, StaysCurrent DEF ReadsAreCurrent, Isolated
  <2> QED BY <2>1, <2>2, <1>2
<1> QED BY <1>3, <1>4, <1>5 DEF Next

LEMMA IsolationHolds == Spec => []Isolated
BY InitIsolated, NextIsolated, PTL DEF Spec

-----------------------------------------------------------------------------
\* What a write that is not stale does to its row.
LEMMA CurrentCommit ==
    ASSUME Isolated, NEW h \in Handlers, NEW v \in Ids, NEW row, Commit(h, v, row),
           req[h] # Idle, ~tainted'
    PROVE  /\ Current(h) /\ ~tainted
           /\ viewing' = [viewing EXCEPT ![v] = row]
           /\ UNCHANGED <<schedule, edited>>
BY DEF Commit, Isolated, ReadsAreCurrent, Inv, TypeOK

\* An event that is not stale follows the table from the row as it is.
LEMMA CurrentEvent ==
    ASSUME Isolated, NEW h \in Handlers, NEW v \in Ids, NEW e \in Events, CommitEvent(h, v, e),
           ~tainted'
    PROVE  /\ Current(h) /\ ~tainted /\ UNCHANGED <<schedule, edited>>
           /\ req[h].op = e /\ req[h].on = {v} /\ req[h].to = viewing[v].start
           /\ \E row \in Row : /\ viewing' = [viewing EXCEPT ![v] = row]
                               /\ row.status = nextViewingStatus(viewing[v].status, e)
                               /\ row.start = viewing[v].start
<1>1. req[h] # Idle /\ req[h].op = e /\ req[h].on = {v}
  BY DEF CommitEvent, Idle, Events
<1>2. PICK row \in Row : /\ Commit(h, v, row)
                         /\ row.status = nextViewingStatus(req[h].seen.status, e)
                         /\ row.start = viewing[v].start
  BY EventRow DEF Isolated
<1>3. Current(h) /\ ~tainted /\ UNCHANGED <<schedule, edited>>
      /\ viewing' = [viewing EXCEPT ![v] = row]
  BY <1>1, <1>2, CurrentCommit
<1>4. req[h].seen = viewing[v] /\ req[h].to = viewing[v].start
  BY <1>1, <1>3 DEF Current
<1> QED BY <1>1, <1>2, <1>3, <1>4

\* A booking or a move that is not stale was validated against the listing as it is.
LEMMA CurrentSlot ==
    ASSUME Isolated, NEW h \in Handlers, NEW v \in Ids,
           CommitBook(h, v) \/ CommitReschedule(h, v), ~tainted'
    PROVE  /\ ~tainted /\ UNCHANGED <<schedule, edited>>
           /\ viewing[v] # Absent => Active(v) /\ req[h].op = "RESCHEDULE"
           /\ req[h].to \in Starts
           /\ ~edited => \E on \in SUBSET {v} :
                 validateBooking(req[h].to, schedule, activeOccupancy(on))
           /\ \E row \in Row : /\ viewing' = [viewing EXCEPT ![v] = row]
                               /\ row.status = "REQUESTED"
                               /\ row.start = req[h].to
<1>1. req[h] # Idle /\ req[h] \in Requests /\ Validated(h)
  BY DEF CommitBook, CommitReschedule, Idle, Isolated, Inv, TypeOK
<1>2. PICK row \in Row : /\ Commit(h, v, row)
                         /\ row.status = "REQUESTED"
                         /\ row.start = req[h].to
  BY BookRow, RescheduleRow DEF Isolated
<1>3. Current(h) /\ ~tainted /\ UNCHANGED <<schedule, edited>>
      /\ viewing' = [viewing EXCEPT ![v] = row]
  BY <1>1, <1>2, CurrentCommit
<1>4. viewing[v] # Absent => Active(v) /\ req[h].op = "RESCHEDULE"
  BY <1>3 DEF CommitBook, CommitReschedule, Current
<1>5. req[h].on \in SUBSET {v} /\ req[h].op # "CONFIRM"
  BY <1>3 DEF CommitBook, CommitReschedule, Current
<1>6. ~edited => validateBooking(req[h].to, schedule, activeOccupancy(req[h].on))
  BY <1>1, <1>3, <1>5 DEF Validated, Current
<1>7. req[h].to \in Starts
  BY <1>1 DEF Requests
<1> QED BY <1>2, <1>3, <1>4, <1>5, <1>6, <1>7

\* COMPLETED, CANCELLED and NO_SHOW are final, and every status is reached along the table,
\* unless a handler writes on stale data.
THEOREM LifecycleFollowed == Spec => IsolatedLifecycle
<1>1. ASSUME Isolated, Next, ~tainted', NEW v \in Ids, viewing[v] # Absent, viewing'[v] # viewing[v]
      PROVE  \E e \in Events \cup {"RESCHEDULE"} :
                viewing'[v].status = nextViewingStatus(viewing[v].status, e)
  <2>1. PICK h \in Handlers, w \in Ids :
            CommitBook(h, w) \/ CommitReschedule(h, w) \/ \E e \in Events : CommitEvent(h, w, e)
    BY <1>1 DEF Next, Handle, RequestBook, RequestReschedule, RequestEvent, ReadWindows,
         ReadOccupancy, CountConfirmedAt, Refuse, SetAvailability, Tick
  <2>2. CASE CommitBook(h, w) \/ CommitReschedule(h, w)
    <3>1. /\ viewing[w] # Absent => Active(w)
          /\ \E row \in Row : /\ viewing' = [viewing EXCEPT ![w] = row]
                              /\ row.status = "REQUESTED"
      BY <1>1, <2>2, CurrentSlot
    <3>2. viewing'[v].status = "REQUESTED" /\ Active(v)
      BY <1>1, <3>1 DEF Isolated, Inv, TypeOK
    <3>3. nextViewingStatus(viewing[v].status, "RESCHEDULE") = "REQUESTED"
      BY <3>2 DEF Active, nextViewingStatus, ActiveStatus
    <3> QED BY <3>2, <3>3
  <2>3. ASSUME NEW e \in Events, CommitEvent(h, w, e)
        PROVE  \E f \in Events : viewing'[v].status = nextViewingStatus(viewing[v].status, f)
    <3>1. PICK row \in Row : /\ viewing' = [viewing EXCEPT ![w] = row]
                             /\ row.status = nextViewingStatus(viewing[w].status, e)
      BY <1>1, <2>3, CurrentEvent
    <3> QED BY <1>1, <3>1 DEF Isolated, Inv, TypeOK
  <2> QED BY <2>1, <2>2, <2>3
<1>2. Isolated /\ [Next]_vars =>
         [\A v \in Ids :
            (~tainted' /\ viewing[v] # Absent /\ viewing'[v] # viewing[v]) =>
               \E e \in Events \cup {"RESCHEDULE"} :
                   viewing'[v].status = nextViewingStatus(viewing[v].status, e)]_vars
  BY <1>1
<1> QED BY <1>2, IsolationHolds, PTL DEF Spec, IsolatedLifecycle

-----------------------------------------------------------------------------
LEMMA Confirmed ==
    ASSUME IsFiniteSet(Rows), NEW s
    PROVE  IsFiniteSet(ConfirmedAt(s)) /\ Cardinality(ConfirmedAt(s)) \in Nat
<1>1. ConfirmedAt(s) \in SUBSET Rows
  BY DEF ConfirmedAt, Rows, Absent
<1> QED BY <1>1, FS_Subset, FS_CardinalityType

LEMMA CapacityType ==
    ASSUME NEW sched \in Schedules, NEW s \in Starts
    PROVE  windowCapacity(sched, s) \in Nat \ {0}
BY ScheduleAssumption DEF windowCapacity

\* Max CONFIRMED viewings per concrete slot: a confirm that is not stale counts the others that
\* are confirmed, and nothing else confirms.
THEOREM ConfirmsFitCapacityIsolated == Spec => []IsolatedConfirmsFitCapacity
<1>1. Init => IsolatedConfirmsFitCapacity
  <2> SUFFICES ASSUME Init, NEW s \in Starts
               PROVE  Cardinality(ConfirmedAt(s)) <= windowCapacity(schedule, s)
    BY DEF IsolatedConfirmsFitCapacity
  <2>1. ConfirmedAt(s) = {}
    BY DEF Init, ConfirmedAt, Absent
  <2> QED BY <2>1, CapacityType, FS_EmptySet DEF Init
<1>2. Isolated /\ IsolatedConfirmsFitCapacity /\ [Next]_vars => IsolatedConfirmsFitCapacity'
  <2> SUFFICES ASSUME Isolated, IsolatedConfirmsFitCapacity, [Next]_vars,
                      ~tainted', ~edited', NEW s \in Starts
               PROVE  Cardinality(ConfirmedAt(s)') <= windowCapacity(schedule', s)
    BY DEF IsolatedConfirmsFitCapacity
  <2>1. ASSUME ConfirmedAt(s)' \subseteq ConfirmedAt(s), UNCHANGED schedule, ~tainted, ~edited
        PROVE  Cardinality(ConfirmedAt(s)') <= windowCapacity(schedule', s)
    <3>1. Cardinality(ConfirmedAt(s)') <= Cardinality(ConfirmedAt(s))
          /\ Cardinality(ConfirmedAt(s)') \in Nat
      BY <2>1, Confirmed, FS_Subset, FS_CardinalityType DEF Isolated
    <3>2. Cardinality(ConfirmedAt(s)) <= windowCapacity(schedule, s)
      BY <2>1 DEF IsolatedConfirmsFitCapacity
    <3> QED BY <2>1, <3>1, <3>2, Confirmed, CapacityType DEF Isolated, Inv, TypeOK
  <2>2. ASSUME NEW h \in Handlers, NEW v \in Ids, CommitBook(h, v) \/ CommitReschedule(h, v)
        PROVE  Cardinality(ConfirmedAt(s)') <= windowCapacity(schedule', s)
    <3>1. /\ ~tainted /\ UNCHANGED <<schedule, edited>>
          /\ \E row \in Row : viewing' = [viewing EXCEPT ![v] = row] /\ row.status = "REQUESTED"
      BY <2>2, CurrentSlot
    <3>2. ConfirmedAt(s)' \subseteq ConfirmedAt(s)
      BY <3>1 DEF ConfirmedAt, Isolated, Inv, TypeOK
    <3> QED BY <2>1, <3>1, <3>2
  <2>3. ASSUME NEW h \in Handlers, NEW v \in Ids, NEW e \in Events, CommitEvent(h, v, e)
        PROVE  Cardinality(ConfirmedAt(s)') <= windowCapacity(schedule', s)
    <3>1. PICK row \in Row : /\ viewing' = [viewing EXCEPT ![v] = row]
                             /\ row.status = nextViewingStatus(viewing[v].status, e)
                             /\ row.start = viewing[v].start
      BY <2>3, CurrentEvent
    <3>2. /\ Current(h) /\ ~tainted /\ UNCHANGED <<schedule, edited>>
          /\ req[h].op = e /\ req[h].on = {v} /\ req[h].to = viewing[v].start
      BY <2>3, CurrentEvent
    <3>3. CASE e = "CONFIRM" /\ viewing[v].start = s
      <4> DEFINE others == ConfirmedAt(s) \ {v}
      <4>1. Cardinality(others) < windowCapacity(schedule, s)
        BY <2>3, <3>2, <3>3 DEF CommitEvent, canConfirmAgainstCapacity, Current
      <4>2. IsFiniteSet(others) /\ v \notin others
        BY Confirmed, FS_Subset DEF Isolated
      <4>3. ConfirmedAt(s)' \in SUBSET (others \cup {v})
        BY <3>1 DEF ConfirmedAt, Isolated, Inv, TypeOK
      <4>4. Cardinality(others \cup {v}) = Cardinality(others) + 1 /\ IsFiniteSet(others \cup {v})
        BY <4>2, FS_AddElement
      <4>5. Cardinality(ConfirmedAt(s)') <= Cardinality(others \cup {v})
            /\ Cardinality(ConfirmedAt(s)') \in Nat
        BY <4>3, <4>4, FS_Subset, FS_CardinalityType
      <4>6. Cardinality(others) \in Nat
        BY <4>2, FS_CardinalityType
      <4> HIDE DEF others
      <4>7. windowCapacity(schedule, s) \in Nat
        BY CapacityType DEF Isolated, Inv, TypeOK
      <4>8. Cardinality(ConfirmedAt(s)') <= windowCapacity(schedule, s)
        BY <4>1, <4>4, <4>5, <4>6, <4>7
      <4> QED BY <3>2, <4>8
    <3>4. CASE ~(e = "CONFIRM" /\ viewing[v].start = s)
      <4>1. row.status = "CONFIRMED" => row.start # s
        BY <3>1, <3>4 DEF nextViewingStatus, ActiveStatus, Events
      <4>2. ConfirmedAt(s)' \subseteq ConfirmedAt(s)
        BY <3>1, <4>1 DEF ConfirmedAt, Isolated, Inv, TypeOK
      <4> QED BY <2>1, <3>2, <4>2
    <3> QED BY <3>3, <3>4
  <2>4. ASSUME NEW sched \in Schedules, SetAvailability(sched)
        PROVE  Cardinality(ConfirmedAt(s)') <= windowCapacity(schedule', s)
    <3>1. ConfirmedAt(s)' = {}
      BY <2>4 DEF SetAvailability, ConfirmedAt, Active, ActiveStatus
    <3>2. windowCapacity(schedule', s) \in Nat
      BY <2>4, CapacityType DEF SetAvailability
    <3> QED BY <3>1, <3>2, FS_EmptySet
  <2>5. ASSUME UNCHANGED <<viewing, schedule, tainted, edited>>
        PROVE  Cardinality(ConfirmedAt(s)') <= windowCapacity(schedule', s)
    BY <2>5, <2>1 DEF ConfirmedAt
  <2>6. ASSUME NEW h \in Handlers, Reads(h) \/ Refuse(h)
        PROVE  UNCHANGED <<viewing, schedule, tainted, edited>>
    BY <2>6 DEF Reads, RequestBook, RequestReschedule, RequestEvent, ReadWindows,
                ReadOccupancy, CountConfirmedAt, Refuse, history
  <2>7. ASSUME Tick \/ UNCHANGED vars
        PROVE  UNCHANGED <<viewing, schedule, tainted, edited>>
    BY <2>7 DEF Tick, vars, history
  <2> QED BY <2>2, <2>3, <2>4, <2>5, <2>6, <2>7 DEF Next, Handle, Reads
<1> QED BY <1>1, <1>2, IsolationHolds, PTL DEF Spec

-----------------------------------------------------------------------------
\* Where the capacity is 1, every active viewing but the one being moved blocks its slot.
LEMMA ActiveBlocks ==
    ASSUME Isolated, NEW on, NEW w \in Ids \ on, Active(w),
           windowCapacity(schedule, viewing[w].start) = 1
    PROVE  viewing[w].start \in blockingSlots(schedule, activeOccupancy(on))
<1> DEFINE occ == activeOccupancy(on)
           s == viewing[w].start
           at(status) == {o \in occ : o.start = s /\ o.status = status}
           rec == [id |-> w, start |-> viewing[w].start, status |-> viewing[w].status]
<1>1. IsFiniteSet(occ)
  <2> DEFINE rows == {u \in Ids \ on : Active(u)}
             f == [u \in rows |->
                     [id |-> u, start |-> viewing[u].start, status |-> viewing[u].status]]
  <2>1. rows \in SUBSET Rows
    BY DEF Rows, Active, Absent, ActiveStatus
  <2>2. IsFiniteSet(rows)
    BY <2>1, FS_Subset DEF Isolated
  <2>3. f \in Surjection(rows, occ)
    BY DEF activeOccupancy, Surjection
  <2> QED BY <2>2, <2>3, FS_Surjection
<1>2. rec \in occ
  BY DEF activeOccupancy
<1>3. ASSUME NEW status PROVE IsFiniteSet(at(status)) /\ Cardinality(at(status)) \in Nat
  BY <1>1, FS_Subset, FS_CardinalityType
<1>4. rec \in at(viewing[w].status)
  BY <1>2
<1>5. Cardinality(at(viewing[w].status)) # 0
  BY <1>3, <1>4, FS_EmptySet
<1>6. Cardinality(at("CONFIRMED")) + Cardinality(at("REQUESTED")) >= 1
  <2> HIDE DEF at
  <2>1. CASE viewing[w].status = "CONFIRMED"
    BY <1>3, <1>5, <2>1
  <2>2. CASE viewing[w].status = "REQUESTED"
    BY <1>3, <1>5, <2>2
  <2> QED BY <2>1, <2>2 DEF Active, ActiveStatus
<1>7. isSlotAtCapacity(Cardinality(at("CONFIRMED")), Cardinality(at("REQUESTED")),
                       windowCapacity(schedule, s))
  BY <1>6 DEF isSlotAtCapacity
<1>8. s \in {o.start : o \in occ}
  BY <1>2
<1> QED BY <1>7, <1>8 DEF blockingSlots

\* One visitor per slot where the capacity is 1, buffer included: bookings and moves that are
\* not stale never let two active viewings of such windows overlap.
THEOREM BookingsDoNotOverlapIsolated == Spec => []IsolatedBookingsDoNotOverlap
<1> DEFINE Single(v) == Active(v) /\ windowCapacity(schedule, viewing[v].start) = 1
<1>1. Init => IsolatedBookingsDoNotOverlap
  BY DEF Init, IsolatedBookingsDoNotOverlap, Active, ActiveStatus, Absent
<1>2. Isolated /\ IsolatedBookingsDoNotOverlap /\ [Next]_vars => IsolatedBookingsDoNotOverlap'
  <2> SUFFICES ASSUME Isolated, IsolatedBookingsDoNotOverlap, [Next]_vars,
                      ~tainted', ~edited', NEW u \in Ids, NEW w \in Ids, u # w,
                      Single(u)', Single(w)'
               PROVE  ~overlaps(viewing'[u].start, viewing'[w].start)
    BY DEF IsolatedBookingsDoNotOverlap, overlaps
  <2>1. ASSUME Single(u), Single(w), ~tainted, ~edited, UNCHANGED schedule,
               viewing'[u].start = viewing[u].start, viewing'[w].start = viewing[w].start
        PROVE  ~overlaps(viewing'[u].start, viewing'[w].start)
    BY <2>1 DEF IsolatedBookingsDoNotOverlap
  <2>2. ASSUME NEW h \in Handlers, NEW v \in Ids, CommitBook(h, v) \/ CommitReschedule(h, v)
        PROVE  ~overlaps(viewing'[u].start, viewing'[w].start)
    <3>1. /\ ~tainted /\ ~edited /\ UNCHANGED <<schedule, edited>>
          /\ \E on \in SUBSET {v} : validateBooking(req[h].to, schedule, activeOccupancy(on))
          /\ \E row \in Row : viewing' = [viewing EXCEPT ![v] = row] /\ row.start = req[h].to
      BY <2>2, CurrentSlot
    <3>2. viewing'[v].start = req[h].to /\ \A x \in Ids \ {v} : viewing'[x] = viewing[x]
      BY <3>1 DEF Isolated, Inv, TypeOK
    <3>3. ASSUME NEW x \in Ids \ {v}, Single(x)'
          PROVE  /\ Single(x)
                 /\ ~overlaps(viewing'[v].start, viewing'[x].start)
      <4>1. Single(x)
        BY <3>1, <3>2, <3>3 DEF Active
      <4>2. PICK on \in SUBSET {v} : validateBooking(req[h].to, schedule, activeOccupancy(on))
        BY <3>1
      <4>3. viewing[x].start \in blockingSlots(schedule, activeOccupancy(on))
        BY <4>1, ActiveBlocks
      <4> QED BY <3>2, <4>1, <4>2, <4>3 DEF validateBooking
    <3>4. CASE u # v /\ w # v
      BY <3>1, <3>2, <3>3, <3>4 DEF IsolatedBookingsDoNotOverlap
    <3>5. CASE u = v
      BY <3>3, <3>5
    <3>6. CASE w = v
      BY <3>3, <3>6 DEF overlaps
    <3> QED BY <3>4, <3>5, <3>6
  <2>3. ASSUME NEW h \in Handlers, NEW v \in Ids, NEW e \in Events, CommitEvent(h, v, e)
        PROVE  ~overlaps(viewing'[u].start, viewing'[w].start)
    <3>1. PICK row \in Row : /\ viewing' = [viewing EXCEPT ![v] = row]
                             /\ row.status = nextViewingStatus(viewing[v].status, e)
                             /\ row.start = viewing[v].start
      BY <2>3, CurrentEvent
    <3>2. ~tainted /\ UNCHANGED <<schedule, edited>>
      BY <2>3, CurrentEvent
    <3>3. row.status \in ActiveStatus => Active(v)
      BY <3>1 DEF nextViewingStatus, ActiveStatus, Events, Active
    <3>4. /\ viewing'[v] = row
          /\ \A x \in Ids \ {v} : viewing'[x] = viewing[x]
      BY <3>1 DEF Isolated, Inv, TypeOK
    <3>5. ASSUME NEW x \in Ids, Single(x)'
          PROVE  Single(x) /\ viewing'[x].start = viewing[x].start
      BY <3>1, <3>2, <3>3, <3>4, <3>5 DEF Active
    <3> QED BY <2>1, <3>2, <3>5
  <2>4. ASSUME NEW sched \in Schedules, SetAvailability(sched)
        PROVE  ~overlaps(viewing'[u].start, viewing'[w].start)
    BY <2>4 DEF SetAvailability, Active
  <2>5. ASSUME UNCHANGED <<viewing, schedule, tainted, edited>>
        PROVE  ~overlaps(viewing'[u].start, viewing'[w].start)
    BY <2>5, <2>1 DEF Active
  <2>6. ASSUME NEW h \in Handlers, Reads(h) \/ Refuse(h)
        PROVE  UNCHANGED <<viewing, schedule, tainted, edited>>
    BY <2>6 DEF Reads, RequestBook, RequestReschedule, RequestEvent, ReadWindows,
                ReadOccupancy, CountConfirmedAt, Refuse, history
  <2>7. ASSUME Tick \/ UNCHANGED vars
        PROVE  UNCHANGED <<viewing, schedule, tainted, edited>>
    BY <2>7 DEF Tick, vars, history
  <2> QED BY <2>2, <2>3, <2>4, <2>5, <2>6, <2>7 DEF Next, Handle, Reads
<1> QED BY <1>1, <1>2, IsolationHolds, PTL DEF Spec

=============================================================================
