------------------------------ MODULE Viewings ------------------------------
(*****************************************************************************)
(* The viewing (property visit) bookings of one listing, as served by        *)
(* apps/api/src/viewings: seekers book a slot of the weekly availability,    *)
(* the conductor (the mediator, else the owner) confirms, and any party      *)
(* moves or cancels.  Every HTTP handler reads rows, decides on what it      *)
(* read, and writes later; the database only enforces one active viewing     *)
(* per seeker and start.  A handler is therefore a record in "req" that      *)
(* advances one await at a time, and handlers interleave freely.  What the   *)
(* parties are told is the subject of ViewingNotices.                        *)
(*****************************************************************************)
EXTENDS Integers, FiniteSets

CONSTANTS
    Ids,        \* identifiers of viewings rows, a bound on how many are created
    Seekers,    \* users who book
    Conductor,  \* conductorUserId of the listing
    Owner,      \* ownerUserId of the listing (= Conductor when no mediator)
    Handlers,   \* requests that can be in flight at once
    Starts,     \* instants at which a slot may start
    Schedules,  \* weekly availabilities: start |-> capacity, 0 outside every window
    SlotLen,    \* SchedulingConfig.slotMinutes
    Buffer,     \* SchedulingConfig.bufferMinutes
    MinLead,    \* SchedulingConfig.minLeadMinutes
    Horizon,    \* SchedulingConfig.maxHorizonDays
    MaxNow,     \* bound on the clock
    MaxSeq      \* bound on ics_sequence

ASSUME IntervalAssumption ==
    /\ Starts \subseteq Nat
    /\ {SlotLen, Buffer, MinLead, Horizon, MaxNow, MaxSeq} \subseteq Nat
    /\ SlotLen > 0

ASSUME ScheduleAssumption == Schedules # {} /\ Schedules \subseteq [Starts -> Nat]

VARIABLES
    viewing,   \* the viewings rows
    schedule,  \* the viewing_availability rows of the listing
    now,       \* Date.now(), in the unit of the constants
    req,       \* what each handler has read so far, or Idle
    stale,     \* history: handlers in flight since before the latest write of another,
               \* until some stale handler has written
    tainted,   \* history: some stale handler wrote
    edited     \* history: the availability changed under an active viewing or a request

vars == <<viewing, schedule, now, req, stale, tainted, edited>>
history == <<stale, tainted, edited>>

-----------------------------------------------------------------------------
\* Data

Kinds == {"24h", "2h"}
Events == {"CONFIRM", "CANCEL", "COMPLETE", "NO_SHOW"}
ActiveStatus == {"REQUESTED", "CONFIRMED"}
Status == ActiveStatus \cup {"COMPLETED", "CANCELLED", "NO_SHOW"}

Row == [status: Status, seeker: Seekers, start: Starts, seq: Nat, sent: SUBSET Kinds]
Absent == [status |-> "ABSENT"]

Idle == [op |-> "IDLE"]
Unread == [read |-> FALSE]
Read(x) == [read |-> TRUE, value |-> x]

\* Mutant: a status that is not in the enumeration.
MisspeltStatus(status, event) ==
    IF status \in ActiveStatus /\ event = "CANCEL" THEN "CANCELED" ELSE "NONE"

\* TRANSITIONS: the status an event leads to, "NONE" where the table has no entry.
nextViewingStatus(status, event) ==
    CASE status = "REQUESTED" /\ event = "CONFIRM"   -> "CONFIRMED"
      [] status \in ActiveStatus /\ event = "CANCEL" -> "CANCELLED"
      [] status \in ActiveStatus /\ event = "RESCHEDULE" -> "REQUESTED"
      [] status = "CONFIRMED" /\ event = "COMPLETE"  -> "COMPLETED"
      [] status = "CONFIRMED" /\ event = "NO_SHOW"   -> "NO_SHOW"
      [] OTHER -> "NONE"

Active(v) == viewing[v].status \in ActiveStatus
ConfirmedAt(s) == {v \in Ids : viewing[v].status = "CONFIRMED" /\ viewing[v].start = s}

-----------------------------------------------------------------------------
\* The scheduling rules (domain/booking.ts, shared intervals)

overlaps(a, b) == a < b + SlotLen + Buffer /\ b < a + SlotLen + Buffer

\* windowForSlot followed by windowCapacity: outside every window counts as 1.
windowCapacity(sched, s) == IF sched[s] = 0 THEN 1 ELSE sched[s]

\* Mutant: off by one.
ConfirmOneTooMany(confirmed, capacity) == confirmed <= capacity

canConfirmAgainstCapacity(confirmed, capacity) == confirmed < capacity

isSlotAtCapacity(confirmed, requested, capacity) ==
    IF capacity <= 1 THEN confirmed + requested >= 1 ELSE confirmed >= capacity

\* Mutant: requested viewings do not occupy their slot.
OnlyConfirmedOccupies(except) ==
    {[id |-> v, start |-> viewing[v].start, status |-> viewing[v].status] :
        v \in {w \in Ids \ except : viewing[w].status = "CONFIRMED"}}

\* activeOccupancy: the active rows but the one being moved.
activeOccupancy(except) ==
    {[id |-> v, start |-> viewing[v].start, status |-> viewing[v].status] :
        v \in {w \in Ids \ except : Active(w)}}

blockingSlots(sched, occ) ==
    LET at(s, status) == Cardinality({o \in occ : o.start = s /\ o.status = status})
    IN {s \in {o.start : o \in occ} :
          isSlotAtCapacity(at(s, "CONFIRMED"), at(s, "REQUESTED"), windowCapacity(sched, s))}

validateBooking(to, sched, occ) ==
    /\ to >= now + MinLead
    /\ to <= now + Horizon
    /\ sched[to] # 0
    /\ \A b \in blockingSlots(sched, occ) : ~overlaps(to, b)

\* Mutant: the index ... WHERE status = 'REQUESTED'.
IndexOfRequested(v, p, s) ==
    ~\E w \in Ids \ {v} : /\ viewing[w].status = "REQUESTED"
                          /\ viewing[w].seeker = p
                          /\ viewing[w].start = s

\* idx_viewings_active_slot_seeker admits an active row v of p at s.
uniqueIndexAdmits(v, p, s) ==
    ~\E w \in Ids \ {v} : Active(w) /\ viewing[w].seeker = p /\ viewing[w].start = s

-----------------------------------------------------------------------------
\* Handlers

\* A handler after its first await: what it acts on, and what it has read.
Request(op, on, seen, seeker, to) ==
    [op |-> op, on |-> on, seen |-> seen, seeker |-> seeker, to |-> to,
     sched |-> Unread, occ |-> Unread]

\* h writes row v, its only write: every other handler in flight now acts on old data.
Commit(h, v, row) ==
    /\ viewing' = [viewing EXCEPT ![v] = row]
    /\ req' = [req EXCEPT ![h] = Idle]
    /\ tainted' = (tainted \/ h \in stale)
    /\ stale' = IF tainted' THEN {} ELSE {g \in Handlers : req[g] # Idle} \ {h}
    /\ UNCHANGED <<schedule, now, edited>>

Init ==
    /\ viewing = [v \in Ids |-> Absent]
    /\ schedule \in Schedules
    /\ now = 0
    /\ req = [h \in Handlers |-> Idle]
    /\ stale = {}
    /\ tainted = FALSE
    /\ edited = FALSE

\* book: seeker p asks for s; getWindows and activeOccupancy are awaited in parallel, so
\* either answers first.  Ids bounds the rows: nobody asks once they are all taken.
RequestBook(h, p, s) ==
    /\ req[h] = Idle
    /\ \E v \in Ids : viewing[v] = Absent
    /\ LET r == Request("BOOK", {}, Absent, p, s)
       IN \/ req' = [req EXCEPT ![h] = [r EXCEPT !.sched = Read(schedule)]]
          \/ req' = [req EXCEPT ![h] = [r EXCEPT !.occ = Read(activeOccupancy({}))]]
    /\ UNCHANGED <<viewing, schedule, now, history>>

\* reschedule and sellerReschedule: a party reads viewing v, wants it at s.
RequestReschedule(h, a, v, s) ==
    /\ req[h] = Idle
    /\ viewing[v] # Absent
    /\ a \in {viewing[v].seeker, Conductor, Owner}
    /\ nextViewingStatus(viewing[v].status, "RESCHEDULE") # "NONE"
    /\ viewing[v].seq < MaxSeq
    /\ req' = [req EXCEPT ![h] = Request("RESCHEDULE", {v}, Absent, viewing[v].seeker, s)]
    /\ UNCHANGED <<viewing, schedule, now, history>>

\* transition and sellerTransition: a party reads viewing v; a seeker may only cancel.
RequestEvent(h, a, v, event) ==
    /\ req[h] = Idle
    /\ viewing[v] # Absent
    /\ a \in {Conductor, Owner} \/ (a = viewing[v].seeker /\ event = "CANCEL")
    /\ nextViewingStatus(viewing[v].status, event) # "NONE"
    /\ req' = [req EXCEPT ![h] = Request(event, {v}, viewing[v], viewing[v].seeker, viewing[v].start)]
    /\ UNCHANGED <<viewing, schedule, now, history>>

\* availability.getWindows
ReadWindows(h) ==
    /\ req[h].op \in {"BOOK", "RESCHEDULE", "CONFIRM"}
    /\ ~req[h].sched.read
    /\ req' = [req EXCEPT ![h].sched = Read(schedule)]
    /\ UNCHANGED <<viewing, schedule, now, history>>

\* viewings.activeOccupancy
ReadOccupancy(h) ==
    /\ req[h].op \in {"BOOK", "RESCHEDULE"}
    /\ ~req[h].occ.read
    /\ req' = [req EXCEPT ![h].occ = Read(activeOccupancy(req[h].on))]
    /\ UNCHANGED <<viewing, schedule, now, history>>

\* assertConfirmCapacity, after getWindows: viewings.countConfirmedAt
CountConfirmedAt(h) ==
    /\ req[h].op = "CONFIRM"
    /\ req[h].sched.read
    /\ ~req[h].occ.read
    /\ req' = [req EXCEPT ![h].occ = Read(ConfirmedAt(req[h].to) \ req[h].on)]
    /\ UNCHANGED <<viewing, schedule, now, history>>

Validated(h) ==
    /\ req[h].sched.read
    /\ req[h].occ.read
    /\ validateBooking(req[h].to, req[h].sched.value, req[h].occ.value)

\* viewings.create: the insert, refused when the unique index is violated.
CommitBook(h, v) ==
    /\ req[h].op = "BOOK"
    /\ Validated(h)
    /\ viewing[v] = Absent
    /\ uniqueIndexAdmits(v, req[h].seeker, req[h].to)
    /\ Commit(h, v, [status |-> "REQUESTED", seeker |-> req[h].seeker, start |-> req[h].to,
                     seq |-> 0, sent |-> {}])

\* Mutant: a moved viewing keeps its status.
MoveKeepsStatus(h, v) ==
    /\ req[h].op = "RESCHEDULE"
    /\ req[h].on = {v}
    /\ Validated(h)
    /\ uniqueIndexAdmits(v, viewing[v].seeker, req[h].to)
    /\ Commit(h, v, [viewing[v] EXCEPT !.start = req[h].to, !.seq = @ + 1, !.sent = {}])

\* Mutant: a moved viewing keeps its SEQUENCE.
MoveKeepsSequence(h, v) ==
    /\ req[h].op = "RESCHEDULE"
    /\ req[h].on = {v}
    /\ Validated(h)
    /\ uniqueIndexAdmits(v, viewing[v].seeker, req[h].to)
    /\ Commit(h, v, [viewing[v] EXCEPT !.status = "REQUESTED", !.start = req[h].to, !.sent = {}])

\* viewings.reschedule: one update by id.
CommitReschedule(h, v) ==
    /\ req[h].op = "RESCHEDULE"
    /\ req[h].on = {v}
    /\ Validated(h)
    /\ uniqueIndexAdmits(v, viewing[v].seeker, req[h].to)
    /\ Commit(h, v, [status |-> "REQUESTED", seeker |-> viewing[v].seeker, start |-> req[h].to,
                     seq |-> viewing[v].seq + 1, sent |-> {}])

\* viewings.setStatus: one update by id, of the status decided on the row seen.
CommitEvent(h, v, event) ==
    /\ req[h].op = event
    /\ req[h].on = {v}
    /\ event = "CONFIRM" =>
         /\ req[h].occ.read
         /\ canConfirmAgainstCapacity(Cardinality(req[h].occ.value),
                                      windowCapacity(req[h].sched.value, req[h].to))
    /\ LET status == nextViewingStatus(req[h].seen.status, event)
       IN /\ status \in ActiveStatus => uniqueIndexAdmits(v, viewing[v].seeker, viewing[v].start)
          /\ Commit(h, v, [viewing[v] EXCEPT !.status = status])

\* A check fails, the database refuses the write, or the process dies before it.
Refuse(h) ==
    /\ req[h] # Idle
    /\ req' = [req EXCEPT ![h] = Idle]
    /\ stale' = stale \ {h}
    /\ UNCHANGED <<viewing, schedule, now, tainted, edited>>

\* setAvailability: the owner or the conductor replaces the windows in a transaction.
SetAvailability(sched) ==
    /\ sched # schedule
    /\ schedule' = sched
    /\ edited' = (\/ edited
                  \/ \E v \in Ids : Active(v)
                  \/ \E h \in Handlers : req[h] # Idle)
    /\ UNCHANGED <<viewing, now, req, stale, tainted>>

Tick ==
    /\ now < MaxNow
    /\ now' = now + 1
    /\ UNCHANGED <<viewing, schedule, req, history>>

Handle(h) ==
    \/ \E p \in Seekers, s \in Starts : RequestBook(h, p, s)
    \/ \E a \in Seekers \cup {Conductor, Owner}, v \in Ids, s \in Starts :
          RequestReschedule(h, a, v, s)
    \/ \E a \in Seekers \cup {Conductor, Owner}, v \in Ids, e \in Events :
          RequestEvent(h, a, v, e)
    \/ ReadWindows(h)
    \/ ReadOccupancy(h)
    \/ CountConfirmedAt(h)
    \/ \E v \in Ids : CommitBook(h, v)
    \/ \E v \in Ids : CommitReschedule(h, v)
    \/ \E v \in Ids, e \in Events : CommitEvent(h, v, e)
    \/ Refuse(h)

Next ==
    \/ \E h \in Handlers : Handle(h)
    \/ \E sched \in Schedules : SetAvailability(sched)
    \/ Tick

Spec == Init /\ [][Next]_vars

-----------------------------------------------------------------------------
\* Properties

Requests ==
    [op : {"BOOK", "RESCHEDULE"} \cup Events, on : {{}} \cup {{v} : v \in Ids},
     seen : Row \cup {Absent}, seeker : Seekers, to : Starts,
     sched : {Unread} \cup [read : {TRUE}, value : Schedules],
     occ : {Unread} \cup [read : {TRUE}, value : SUBSET (Ids \cup
              [id : Ids, start : Starts, status : ActiveStatus])]]

\* Every variable has its type.
TypeOK ==
    /\ viewing \in [Ids -> Row \cup {Absent}]
    /\ schedule \in Schedules
    /\ now \in 0..MaxNow
    /\ req \in [Handlers -> Requests \cup {Idle}]
    /\ stale \subseteq Handlers
    /\ tainted \in BOOLEAN
    /\ edited \in BOOLEAN

\* A seeker never holds two active viewings that start at the same instant, whichever
\* handlers race: neither two bookings, nor a move onto a start he already holds, nor a
\* late confirm that revives a cancelled row (0056, idx_viewings_active_slot_seeker).
OneActivePerSeekerSlot ==
    \A v, w \in Ids :
        (v # w /\ Active(v) /\ Active(w) /\ viewing[v].seeker = viewing[w].seeker)
            => viewing[v].start # viewing[w].start

\* Max CONFIRMED viewings per concrete slot (0056): holds as long as nobody wrote on stale
\* data and the owner did not edit the availability under them.
IsolatedConfirmsFitCapacity ==
    ~tainted /\ ~edited =>
        \A s \in Starts : Cardinality(ConfirmedAt(s)) <= windowCapacity(schedule, s)

\* One visitor per slot where the capacity is 1, buffer included, under the same proviso:
\* bookings and moves never let two active viewings of such windows overlap.
IsolatedBookingsDoNotOverlap ==
    ~tainted /\ ~edited =>
        \A v, w \in Ids :
            (/\ v # w /\ Active(v) /\ Active(w)
             /\ windowCapacity(schedule, viewing[v].start) = 1
             /\ windowCapacity(schedule, viewing[w].start) = 1)
                => ~overlaps(viewing[v].start, viewing[w].start)

\* COMPLETED, CANCELLED and NO_SHOW are final (TRANSITIONS has no entry for them), and a
\* viewing is completed or missed only from CONFIRMED, unless a handler writes on stale data.
IsolatedLifecycle ==
    [][\A v \in Ids :
         (~tainted' /\ viewing[v] # Absent /\ viewing'[v] # viewing[v]) =>
            \E e \in Events \cup {"RESCHEDULE"} :
                viewing'[v].status = nextViewingStatus(viewing[v].status, e)]_vars

\* "Max CONFIRMED viewings per concrete slot from this window" (comment of 0056), as long as
\* the owner does not edit the windows meanwhile: the promise without the first proviso, which
\* no run checks: two concurrent CONFIRMs of an open house both count before either writes.
ConfirmsFitCapacity ==
    ~edited => \A s \in Starts : Cardinality(ConfirmedAt(s)) <= windowCapacity(schedule, s)

=============================================================================
