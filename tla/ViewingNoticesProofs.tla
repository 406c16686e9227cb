------------------------ MODULE ViewingNoticesProofs ------------------------
(*****************************************************************************)
(* Proofs about ViewingNotices, for every set of viewings, seekers,          *)
(* handlers, schedulers and runs and every reminder window that spans two    *)
(* sweep intervals.  The rows keep the invariant Inv of ViewingsProofs; more *)
(* parts say what the mails, the marks and the clock have to do with them.   *)
(*****************************************************************************)
EXTENDS ViewingNotices, ViewingsProofs

\* What run s becomes when it takes up d from its list.
TookUp(s, d) ==
    [by |-> sweep[s].by, kind |-> sweep[s].kind, todo |-> sweep[s].todo \ {d}, cur |-> {d}]

USE DEF RunSet, TookUp

\* Mail m says nothing that the row of viewing v contradicts.
Truthful(v, m) ==
    /\ viewing[v] \in Row
    /\ m.seq <= viewing[v].seq
    /\ m.seq = viewing[v].seq => m.start = viewing[v].start

\* What a run has listed and not yet marked.
Listed(s) == IF sweep[s] = Asleep THEN {} ELSE sweep[s].todo \cup sweep[s].cur

\* Whatever a handler has seen, a letter says, a calendar shows or a run has listed is
\* truthful.
Honest ==
    /\ \A h \in Handlers : req[h].op \in Events =>
          \A v \in req[h].on : req[h].seen \in Row /\ Truthful(v, req[h].seen)
    /\ \A l \in outbox : Truthful(l.id, l.mail)
    /\ \A v \in Ids : calendar[v] # NoEntry => Truthful(v, calendar[v])
    /\ \A s \in Runs : \A d \in Listed(s) : Truthful(d.id, d.row)

\* What a handler decided on is still true, marks aside.
Fresh(h) ==
    /\ req[h].op \in Events => \A v \in req[h].on : /\ req[h].seen.status = viewing[v].status
                                                    /\ req[h].seen.seq = viewing[v].seq
    /\ req[h].op = "RESCHEDULE" => \A v \in req[h].on : Active(v)

\* Only live invitations are about an active viewing.
Live(v) ==
    Active(v) =>
        /\ \A l \in outbox : l.id = v => l.mail.live
        /\ calendar[v] # NoEntry => calendar[v].live

\* The invitation to a confirmed viewing has arrived or is on its way.
Told(v) ==
    viewing[v].status = "CONFIRMED" =>
        \/ calendar[v] = Mail(viewing[v], TRUE)
        \/ Letter(v, viewing[v], TRUE) \in outbox

\* Until somebody writes on stale data, whoever is not stale decides on the present, and the
\* seeker's mails follow the row.
OnItsWay ==
    ~tainted =>
        /\ \A h \in Handlers : req[h] # Idle /\ h \notin stale => Fresh(h)
        /\ \A v \in Ids : Live(v)
        /\ faults = 0 => \A v \in Ids : Told(v)

-----------------------------------------------------------------------------
\* Rows: what each write does to its row

LEMMA BookFacts ==
    ASSUME Inv, NEW h \in Handlers, NEW v \in Ids, CommitBook(h, v)
    PROVE  /\ viewing[v] = Absent
           /\ \E row \in Row : /\ Commit(h, v, row)
                               /\ row.status = "REQUESTED"
                               /\ row.seq = 0
                               /\ row.sent = {}
<1>1. req[h] \in Requests
  BY DEF Inv, TypeOK, CommitBook, Idle
<1> DEFINE row == [status |-> "REQUESTED", seeker |-> req[h].seeker, start |-> req[h].to,
                   seq |-> 0, sent |-> {}]
<1>2. row \in Row /\ row.status = "REQUESTED" /\ row.seq = 0 /\ row.sent = {}
  BY <1>1 DEF Requests, Row, Status, ActiveStatus
<1> QED BY <1>2 DEF CommitBook

LEMMA MoveFacts ==
    ASSUME Inv, NEW h \in Handlers, NEW v \in Ids, CommitReschedule(h, v)
    PROVE  /\ viewing[v] \in Row
           /\ \E row \in Row : /\ Commit(h, v, row)
                               /\ row.status = "REQUESTED"
                               /\ row.seq = viewing[v].seq + 1
                               /\ row.sent = {}
<1>1. req[h] \in Requests /\ req[h] # Idle
  BY DEF Inv, TypeOK, CommitReschedule, Idle
<1>2. viewing[v] \in Row
  BY <1>1 DEF Inv, ActsOnRows, CommitReschedule
<1> DEFINE row == [status |-> "REQUESTED", seeker |-> viewing[v].seeker, start |-> req[h].to,
                   seq |-> viewing[v].seq + 1, sent |-> {}]
<1>3. req[h].to \in Starts
  BY <1>1 DEF Requests
<1>4. "REQUESTED" \in Status
  BY DEF Status, ActiveStatus
<1>5. viewing[v].seq \in Nat /\ viewing[v].seeker \in Seekers
  BY <1>2 DEF Row
<1>6. row \in Row /\ row.status = "REQUESTED" /\ row.seq = viewing[v].seq + 1 /\ row.sent = {}
  BY <1>3, <1>4, <1>5 DEF Row
<1> QED BY <1>2, <1>6 DEF CommitReschedule

LEMMA EventFacts ==
    ASSUME Inv, NEW h \in Handlers, NEW v \in Ids, NEW e \in Events, CommitEvent(h, v, e)
    PROVE  /\ viewing[v] \in Row
           /\ \E row \in Row : /\ Commit(h, v, row)
                               /\ row.status = nextViewingStatus(req[h].seen.status, e)
                               /\ row.start = viewing[v].start
                               /\ row.seq = viewing[v].seq
                               /\ row.sent = viewing[v].sent
<1>1. req[h] \in Requests /\ req[h] # Idle
  BY DEF Inv, TypeOK, CommitEvent, Idle, Events
<1>2. viewing[v] \in Row
  BY <1>1 DEF Inv, ActsOnRows, CommitEvent
<1> DEFINE status == nextViewingStatus(req[h].seen.status, e)
<1>3. status \in Status
  BY NextStatusLegal DEF Inv, DecidedOnLegal, CommitEvent
<1> HIDE DEF status
<1> DEFINE row == [viewing[v] EXCEPT !.status = status]
<1>4. /\ row \in Row
      /\ row.status = status
      /\ row.start = viewing[v].start
      /\ row.seq = viewing[v].seq
      /\ row.sent = viewing[v].sent
  BY <1>2, <1>3 DEF Row
<1> QED BY <1>2, <1>4 DEF CommitEvent, status

\* The mark of a reminder, the only write of ViewingNotices that is not one of Viewings.
LEMMA MarkFacts ==
    ASSUME Inv, NEW s, NEW d, d.id \in Ids, viewing[d.id] \in Row, sweep[s].kind \in Kinds,
           SweepMark(s, d)
    PROVE  /\ UNCHANGED <<schedule, now, req, stale, tainted, edited>>
           /\ \E row \in Row : /\ viewing' = [viewing EXCEPT ![d.id] = row]
                               /\ row.status = viewing[d.id].status
                               /\ row.seeker = viewing[d.id].seeker
                               /\ row.start = viewing[d.id].start
                               /\ row.seq = viewing[d.id].seq
                               /\ row.sent = viewing[d.id].sent \cup {sweep[s].kind}
<1> DEFINE row == [viewing[d.id] EXCEPT !.sent = @ \cup {sweep[s].kind}]
<1>1. /\ row \in Row
      /\ row.status = viewing[d.id].status
      /\ row.seeker = viewing[d.id].seeker
      /\ row.start = viewing[d.id].start
      /\ row.seq = viewing[d.id].seq
      /\ row.sent = viewing[d.id].sent \cup {sweep[s].kind}
  BY DEF Row
<1>2. viewing' = [viewing EXCEPT ![d.id] = row]
  BY DEF SweepMark, Inv, TypeOK
<1> QED BY <1>1, <1>2 DEF SweepMark, history

-----------------------------------------------------------------------------
\* Types and truthfulness, which need each other: a mark finds a row because its reminder
\* was listed from one.

\* There are finitely many runs in flight, and the peak counts them.
Flights == IsFiniteSet(InFlight) /\ Cardinality(InFlight) <= peak

NoticesInv == Inv /\ NoticesTypeOK /\ Honest /\ Flights

\* What a read leaves handler h with.
Learns(h, r) ==
    /\ req' = [req EXCEPT ![h] = r]
    /\ \/ r.op = req[h].op /\ r.on = req[h].on /\ r.seen = req[h].seen /\ req[h] # Idle
       \/ r.op = "BOOK"
       \/ \E v \in Ids : r.op = "RESCHEDULE" /\ r.on = {v} /\ Active(v)
       \/ \E v \in Ids : r.on = {v} /\ r.seen = viewing[v] /\ viewing[v] \in Row
                            /\ r.op \in Events

\* A step of a handler that only reads, or is refused.
Asks(h) ==
    /\ \/ Reads(h) /\ UNCHANGED <<stale, tainted>> /\ \E r : Learns(h, r)
       \/ Refuse(h)
    /\ bySeeker' \in [Handlers -> BOOLEAN]
    /\ UNCHANGED <<viewing, schedule, now, edited, outbox, calendar, sweep, lastSweep, peak, late,
                   rung, mismarked, since, faults>>

Books(h, v) == CommitBook(h, v) /\ UNCHANGED noticeVars

LEMMA ReadLearns ==
    ASSUME Inv, NEW h \in Handlers, Reads(h)
    PROVE  (\E r : Learns(h, r)) /\ UNCHANGED <<viewing, schedule, now, stale, tainted, edited>>
<1> USE DEF Inv, TypeOK, Request, Learns
<1>0. UNCHANGED <<viewing, schedule, now, stale, tainted, edited>>
  BY DEF Reads, RequestBook, RequestReschedule, RequestEvent, ReadWindows, ReadOccupancy,
         CountConfirmedAt, history
<1>1. ASSUME NEW p \in Seekers, NEW s \in Starts, RequestBook(h, p, s)
      PROVE  \E r : Learns(h, r)
  <2> DEFINE q == Request("BOOK", {}, Absent, p, s)
  <2>1. CASE req' = [req EXCEPT ![h] = [q EXCEPT !.sched = Read(schedule)]]
    <3>1. [q EXCEPT !.sched = Read(schedule)].op = "BOOK"
      OBVIOUS
    <3> QED BY <2>1, <3>1
  <2>2. CASE req' = [req EXCEPT ![h] = [q EXCEPT !.occ = Read(activeOccupancy({}))]]
    <3>1. [q EXCEPT !.occ = Read(activeOccupancy({}))].op = "BOOK"
      OBVIOUS
    <3> QED BY <2>2, <3>1
  <2> QED BY <1>1, <2>1, <2>2 DEF RequestBook
<1>2. ASSUME NEW a, NEW v \in Ids, NEW s \in Starts, RequestReschedule(h, a, v, s)
      PROVE  \E r : Learns(h, r)
  <2>1. Active(v)
    BY <1>2 DEF RequestReschedule, nextViewingStatus, Active
  <2> DEFINE r == Request("RESCHEDULE", {v}, Absent, viewing[v].seeker, s)
  <2>2. r.op = "RESCHEDULE" /\ r.on = {v}
    OBVIOUS
  <2>3. req' = [req EXCEPT ![h] = r]
    BY <1>2 DEF RequestReschedule
  <2> HIDE DEF r
  <2> QED BY <2>1, <2>2, <2>3
<1>3. ASSUME NEW a, NEW v \in Ids, NEW e \in Events, RequestEvent(h, a, v, e)
      PROVE  \E r : Learns(h, r)
  <2>1. viewing[v] \in Row
    BY <1>3 DEF RequestEvent
  <2> DEFINE r == Request(e, {v}, viewing[v], viewing[v].seeker, viewing[v].start)
  <2>2. r.op \in Events /\ r.on = {v} /\ r.seen = viewing[v]
    OBVIOUS
  <2>3. req' = [req EXCEPT ![h] = r]
    BY <1>3 DEF RequestEvent
  <2> HIDE DEF r
  <2> QED BY <2>1, <2>2, <2>3
<1>4. ASSUME NEW r, req' = [req EXCEPT ![h] = r], r.op = req[h].op, r.on = req[h].on,
             r.seen = req[h].seen, req[h] # Idle
      PROVE  \E q : Learns(h, q)
  BY <1>4
<1>5. ASSUME ReadWindows(h) PROVE \E r : Learns(h, r)
  <2>1. req[h] # Idle /\ req[h] \in Requests
    BY <1>5 DEF ReadWindows, Idle
  <2> DEFINE r == [req[h] EXCEPT !.sched = Read(schedule)]
  <2>2. r.op = req[h].op /\ r.on = req[h].on /\ r.seen = req[h].seen
    BY <2>1 DEF Requests
  <2>3. req' = [req EXCEPT ![h] = r]
    BY <1>5 DEF ReadWindows
  <2> HIDE DEF r
  <2> QED BY <1>4, <2>1, <2>2, <2>3
<1>6. ASSUME ReadOccupancy(h) PROVE \E r : Learns(h, r)
  <2>1. req[h] # Idle /\ req[h] \in Requests
    BY <1>6 DEF ReadOccupancy, Idle
  <2> DEFINE r == [req[h] EXCEPT !.occ = Read(activeOccupancy(req[h].on))]
  <2>2. r.op = req[h].op /\ r.on = req[h].on /\ r.seen = req[h].seen
    BY <2>1 DEF Requests
  <2>3. req' = [req EXCEPT ![h] = r]
    BY <1>6 DEF ReadOccupancy
  <2> HIDE DEF r
  <2> QED BY <1>4, <2>1, <2>2, <2>3
<1>7. ASSUME CountConfirmedAt(h) PROVE \E r : Learns(h, r)
  <2>1. req[h] # Idle /\ req[h] \in Requests
    BY <1>7 DEF CountConfirmedAt, Idle
  <2> DEFINE r == [req[h] EXCEPT !.occ = Read(ConfirmedAt(req[h].to) \ req[h].on)]
  <2>2. r.op = req[h].op /\ r.on = req[h].on /\ r.seen = req[h].seen
    BY <2>1 DEF Requests
  <2>3. req' = [req EXCEPT ![h] = r]
    BY <1>7 DEF CountConfirmedAt
  <2> HIDE DEF r
  <2> QED BY <1>4, <2>1, <2>2, <2>3
<1> QED BY <1>0, <1>1, <1>2, <1>3, <1>5, <1>6, <1>7 DEF Reads

LEMMA AskSteps ==
    ASSUME NoticesInv, NEW h \in Handlers
    PROVE  /\ Quiet(h) => Asks(h) \/ \E v \in Ids : Books(h, v)
           /\ Drop(h) => Asks(h)
           /\ \A a \in Seekers \cup {Conductor, Owner}, v \in Ids : Ask(h, a, v) => Asks(h)
<1>1. bySeeker \in [Handlers -> BOOLEAN]
  BY DEF NoticesInv, NoticesTypeOK
<1>2. ASSUME Reads(h)
      PROVE  /\ UNCHANGED <<viewing, schedule, now, stale, tainted, edited>>
             /\ \E r : Learns(h, r)
  BY <1>2, ReadLearns DEF NoticesInv
<1>3. ASSUME Quiet(h), ~\E v \in Ids : Books(h, v) PROVE Asks(h)
  <2>1. Reads(h) /\ UNCHANGED noticeVars
    BY <1>3 DEF Quiet, Books, Reads
  <2> QED BY <1>1, <1>2, <2>1 DEF Asks, noticeVars, mailVars, sweepVars
<1>4. ASSUME Drop(h) PROVE Asks(h)
  BY <1>1, <1>4 DEF Drop, Done, Refuse, Asks, sweepVars
<1>5. ASSUME NEW a \in Seekers \cup {Conductor, Owner}, NEW v \in Ids, Ask(h, a, v)
      PROVE  Asks(h)
  <2>1. Reads(h)
    BY <1>5 DEF Ask, Reads
  <2>2. bySeeker' \in [Handlers -> BOOLEAN]
    BY <1>1, <1>5 DEF Ask
  <2> QED BY <1>2, <1>5, <2>1, <2>2 DEF Ask, Asks, sweepVars
<1> QED BY <1>3, <1>4, <1>5

\* Only a mark and a crash are no steps of Viewings.
LEMMA ViewingSteps ==
    ASSUME NoticesInv, [NoticesNext]_allVars
    PROVE  \/ [Next]_vars
           \/ \E s \in InFlight : \E d \in sweep[s].cur : SweepMark(s, d)
           \/ Crash
<1>1. ASSUME NEW h \in Handlers,
             \/ Quiet(h)
             \/ Drop(h)
             \/ \E a \in Seekers \cup {Conductor, Owner}, v \in Ids : Ask(h, a, v)
             \/ \E v \in Ids : Move(h, v)
             \/ \E v \in Ids, e \in Events : Apply(h, v, e)
      PROVE  Next
  BY <1>1 DEF Quiet, Drop, Ask, Move, Apply, Next, Handle
<1>2. ASSUME NEW l \in outbox, Deliver(l) PROVE UNCHANGED vars
  BY <1>2 DEF Deliver
<1>3. ASSUME NEW s \in Runs,
             \/ \E t \in Schedulers : SweepStart(t, s)
             \/ SweepTurn(s)
             \/ \E d \in sweep[s].todo, delivered \in BOOLEAN : SweepNotify(s, d, delivered)
             \/ \E d \in sweep[s].cur : SweepMarkFails(s, d)
      PROVE  UNCHANGED vars
  BY <1>3 DEF SweepStart, SweepTurn, SweepNotify, SweepMarkFails
<1>4. CASE Clock \/ Publish
  BY <1>4 DEF Clock, Publish, Next
<1>6. CASE SweepListFails
  BY <1>6 DEF SweepListFails
<1>5. CASE UNCHANGED allVars
  BY <1>5 DEF allVars
<1> QED BY <1>1, <1>2, <1>3, <1>4, <1>5, <1>6 DEF NoticesNext, InFlight

\* A mark finds the row its reminder was listed from.
LEMMA MarkSteps ==
    ASSUME NoticesInv, NEW s \in InFlight, NEW d \in sweep[s].cur
    PROVE  /\ d \in Listed(s) /\ d \in DueSet
           /\ d.id \in Ids
           /\ viewing[d.id] \in Row
           /\ sweep[s].kind \in Kinds
<1>1. s \in Runs /\ sweep[s] \in RunSet
  BY DEF NoticesInv, NoticesTypeOK, InFlight
<1>2. d \in Listed(s) /\ d \in DueSet
  BY <1>1 DEF Listed, InFlight
<1>3. viewing[d.id] \in Row
  BY <1>1, <1>2 DEF NoticesInv, Honest, Truthful
<1> QED BY <1>1, <1>2, <1>3 DEF DueSet

LEMMA NoticesStepInv ==
    ASSUME NoticesInv, [NoticesNext]_allVars
    PROVE  Inv'
<1>1. Inv
  BY DEF NoticesInv
<1>2. CASE [Next]_vars
  BY <1>1, <1>2, NextInv
<1>3. ASSUME NEW s \in InFlight, NEW d \in sweep[s].cur, SweepMark(s, d)
      PROVE  Inv'
  <2>1. d.id \in Ids /\ viewing[d.id] \in Row /\ sweep[s].kind \in Kinds
    BY <1>3, MarkSteps
  <2>2. PICK row \in Row : viewing' = [viewing EXCEPT ![d.id] = row]
    BY <1>1, <1>3, <2>1, MarkFacts
  <2>3. UNCHANGED <<schedule, now, req, stale, tainted, edited>>
    BY <1>3 DEF SweepMark, history
  <2> QED BY <1>1, <2>1, <2>2, <2>3 DEF Inv, TypeOK, ActsOnRows, DecidedOnLegal
<1>4. CASE Crash
  BY <1>1, <1>4 DEF Crash, Inv, TypeOK, ActsOnRows, DecidedOnLegal, Idle, Events
<1> QED BY <1>2, <1>3, <1>4, ViewingSteps

\* A row, once there, stays, and its SEQUENCE grows whenever its start changes.
Grown(v) ==
    /\ viewing'[v] \in Row
    /\ \/ viewing'[v].seq > viewing[v].seq
       \/ viewing'[v].seq = viewing[v].seq /\ viewing'[v].start = viewing[v].start

LEMMA RowsGrow ==
    ASSUME NoticesInv, [NoticesNext]_allVars, NEW v \in Ids, viewing[v] \in Row
    PROVE  Grown(v)
<1>1. Inv /\ viewing \in [Ids -> Row \cup {Absent}]
  BY DEF NoticesInv, Inv, TypeOK
<1>2. viewing[v].seq \in Nat
  BY DEF Row
<1>3. ASSUME UNCHANGED viewing PROVE Grown(v)
  BY <1>3 DEF Grown
<1>4. ASSUME NEW h \in Handlers, NEW w \in Ids, CommitBook(h, w) PROVE Grown(v)
  <2>1. viewing[w] = Absent /\ \E row \in Row : viewing' = [viewing EXCEPT ![w] = row]
    BY <1>1, <1>4, BookFacts DEF Commit
  <2>2. v # w
    BY <2>1 DEF Row, Absent
  <2> QED BY <1>1, <2>1, <2>2 DEF Grown
<1>5. ASSUME NEW h \in Handlers, NEW w \in Ids, CommitReschedule(h, w) PROVE Grown(v)
  <2>1. PICK row \in Row : viewing' = [viewing EXCEPT ![w] = row] /\ row.seq = viewing[w].seq + 1
    BY <1>1, <1>5, MoveFacts DEF Commit
  <2> QED BY <1>1, <1>2, <2>1 DEF Grown
<1>6. ASSUME NEW h \in Handlers, NEW w \in Ids, NEW e \in Events, CommitEvent(h, w, e)
      PROVE  Grown(v)
  <2>1. PICK row \in Row : /\ viewing' = [viewing EXCEPT ![w] = row]
                           /\ row.seq = viewing[w].seq
                           /\ row.start = viewing[w].start
    BY <1>1, <1>6, EventFacts DEF Commit
  <2> QED BY <1>1, <2>1 DEF Grown
<1>7. ASSUME [Next]_vars PROVE Grown(v)
  <2>1. ASSUME NEW h \in Handlers, Reads(h) \/ Refuse(h) PROVE UNCHANGED viewing
    BY <2>1 DEF Reads, RequestBook, RequestReschedule, RequestEvent, ReadWindows,
                ReadOccupancy, CountConfirmedAt, Refuse
  <2>2. ASSUME NEW h \in Handlers, Handle(h) PROVE Grown(v)
    BY <2>1, <2>2, <1>3, <1>4, <1>5, <1>6 DEF Handle, Reads
  <2>3. ASSUME \/ \E sched \in Schedules : SetAvailability(sched)
               \/ Tick
               \/ UNCHANGED vars
        PROVE  UNCHANGED viewing
    BY <2>3 DEF SetAvailability, Tick, vars
  <2> QED BY <1>3, <1>7, <2>2, <2>3 DEF Next
<1>8. ASSUME NEW s \in InFlight, NEW d \in sweep[s].cur, SweepMark(s, d)
      PROVE  Grown(v)
  <2>1. d.id \in Ids /\ viewing[d.id] \in Row /\ sweep[s].kind \in Kinds
    BY <1>8, MarkSteps
  <2>2. PICK row \in Row : /\ viewing' = [viewing EXCEPT ![d.id] = row]
                           /\ row.seq = viewing[d.id].seq
                           /\ row.start = viewing[d.id].start
    BY <1>1, <1>8, <2>1, MarkFacts
  <2> QED BY <1>1, <2>1, <2>2 DEF Grown
<1>9. CASE Crash
  BY <1>3, <1>9 DEF Crash
<1> QED BY <1>7, <1>8, <1>9, ViewingSteps

\* What was truthful stays so.
LEMMA TruthStays ==
    ASSUME NEW v, NEW m, m.seq \in Int, Truthful(v, m), Grown(v)
    PROVE  Truthful(v, m)'
<1>1. viewing[v].seq \in Nat /\ viewing'[v].seq \in Nat
  BY DEF Truthful, Grown, Row
<1> QED BY <1>1 DEF Truthful, Grown

\* Honesty asks only that what is new is true.
LEMMA HonestStays ==
    ASSUME NoticesInv, [NoticesNext]_allVars,
           \A h \in Handlers : req'[h].op \in Events =>
              \/ req'[h].op = req[h].op /\ req'[h].on = req[h].on /\ req'[h].seen = req[h].seen
              \/ \E v \in Ids : /\ req'[h].on = {v}
                                /\ req'[h].seen = viewing[v]
                                /\ viewing[v] \in Row
                                /\ viewing' = viewing,
           \A l \in outbox' : l \in outbox \/ Truthful(l.id, l.mail)',
           \A v \in Ids : \/ calendar'[v] = calendar[v]
                          \/ \E m : calendar'[v] = m /\ Truthful(v, m)',
           \A s \in Runs : \A d \in Listed(s)' : d \in Listed(s) \/ Truthful(d.id, d.row)'
    PROVE  Honest'
<1> USE DEF NoticesInv
<1>0. ASSUME NEW v \in Ids, NEW m, m.seq \in Int, Truthful(v, m) PROVE Truthful(v, m)'
  <2>1. Grown(v)
    BY <1>0, RowsGrow DEF Truthful
  <2> QED BY <1>0, <2>1, TruthStays
<1>1. ASSUME NEW h \in Handlers, req'[h].op \in Events, NEW v \in req'[h].on
      PROVE  req'[h].seen \in Row /\ Truthful(v, req[h].seen)'
  <2>1. PICK m : m = req'[h].seen
    OBVIOUS
  <2>2. CASE req'[h].op = req[h].op /\ req'[h].on = req[h].on /\ req'[h].seen = req[h].seen
    <3>1. m \in Row /\ Truthful(v, m)
      BY <1>1, <2>1, <2>2 DEF Honest
    <3>2. v \in Ids /\ m.seq \in Int
      <4>1. req[h] \in Requests
        BY <1>1, <2>2 DEF Inv, TypeOK, Idle, Events
      <4>2. v \in Ids
        BY <1>1, <2>2, <4>1 DEF Requests
      <4> QED BY <3>1, <4>2 DEF Row
    <3>3. Truthful(v, m)'
      BY <3>1, <3>2, <1>0
    <3> QED BY <2>1, <3>1, <3>3 DEF Truthful
  <2>3. CASE \E w \in Ids : /\ req'[h].on = {w} /\ req'[h].seen = viewing[w]
                            /\ viewing[w] \in Row /\ viewing' = viewing
    <3>1. viewing'[v] = req'[h].seen /\ req'[h].seen \in Row
      BY <1>1, <2>3
    <3>2. req'[h].seen.seq \in Nat
      BY <3>1 DEF Row
    <3> QED BY <3>1, <3>2 DEF Truthful
  <2> QED BY <1>1, <2>2, <2>3
<1>2. ASSUME NEW l \in outbox' PROVE Truthful(l.id, l.mail)'
  <2>1. CASE l \in outbox
    <3>1. l.id \in Ids /\ l.mail.seq \in Int
      BY <2>1 DEF NoticesTypeOK, MailSet
    <3> QED BY <1>0, <2>1, <3>1 DEF Honest
  <2> QED BY <2>1
<1>3. ASSUME NEW v \in Ids, calendar'[v] # NoEntry PROVE Truthful(v, calendar[v])'
  <2>1. PICK m : m = calendar'[v]
    OBVIOUS
  <2>2. CASE calendar'[v] = calendar[v]
    <3>1. Truthful(v, m) /\ m.seq \in Int
      BY <1>3, <2>1, <2>2 DEF Honest, NoticesTypeOK, MailSet
    <3>2. Truthful(v, m)'
      BY <1>0, <3>1
    <3> QED BY <2>1, <3>2 DEF Truthful
  <2>3. CASE \E n : calendar'[v] = n /\ Truthful(v, n)'
    BY <2>3 DEF Truthful
  <2> QED BY <2>2, <2>3
<1>4. ASSUME NEW s \in Runs, NEW d \in Listed(s)' PROVE Truthful(d.id, d.row)'
  <2>1. CASE d \in Listed(s)
    <3>1. d \in DueSet
      BY <2>1 DEF Listed, NoticesTypeOK
    <3>2. d.id \in Ids /\ d.row.seq \in Int
      BY <3>1 DEF DueSet, Row
    <3> QED BY <1>0, <2>1, <3>2 DEF Honest
  <2> QED BY <2>1
<1> QED BY <1>1, <1>2, <1>3, <1>4 DEF Honest

-----------------------------------------------------------------------------
\* What is listed, mailed and filed

LEMMA ListFacts ==
    ASSUME Inv, NEW kind \in Kinds, NEW d \in listDueReminders(kind)
    PROVE  /\ d \in DueSet
           /\ d.id \in Ids
           /\ d.row = viewing[d.id]
           /\ viewing[d.id] \in Row
           /\ viewing[d.id].status = "CONFIRMED"
           /\ kind \notin viewing[d.id].sent
<1>1. PICK v \in Ids : /\ viewing[v].status = "CONFIRMED"
                       /\ kind \notin viewing[v].sent
                       /\ d = [id |-> v, row |-> viewing[v]]
  BY DEF listDueReminders
<1>2. viewing[v] \in Row
  BY <1>1 DEF Inv, TypeOK, Absent
<1> QED BY <1>1, <1>2 DEF DueSet

LEMMA MailFacts ==
    ASSUME NEW row \in Row, NEW live \in BOOLEAN
    PROVE  /\ Mail(row, live) \in MailSet
           /\ Mail(row, live).seq = row.seq
           /\ Mail(row, live).start = row.start
           /\ Mail(row, live).live = live
BY DEF Mail, MailSet, Row

LEMMA LetterFacts ==
    ASSUME NEW v, NEW row, NEW live
    PROVE  Letter(v, row, live).id = v /\ Letter(v, row, live).mail = Mail(row, live)
BY DEF Letter

LEMMA FiledFacts ==
    ASSUME NoticesTypeOK, NEW v \in Ids, NEW m \in MailSet, calendar' = Filed(v, m)
    PROVE  /\ calendar' \in [Ids -> MailSet \cup {NoEntry}]
           /\ calendar'[v] = IF m.seq >= calendar[v].seq THEN m ELSE calendar[v]
           /\ \A w \in Ids \ {v} : calendar'[w] = calendar[w]
BY DEF NoticesTypeOK, Filed

\* A handler leaves what it knows of events to itself: nobody else learns one.
LEMMA CommitForgets ==
    ASSUME Inv, NEW h \in Handlers, NEW v, NEW row, Commit(h, v, row), NEW g \in Handlers,
           req'[g].op \in Events
    PROVE  req'[g] = req[g]
BY DEF Commit, Inv, TypeOK, Idle, Events

\* What a reminder that is sent changes.
Rings(s, d) ==
    /\ d \in Listed(s) /\ d \in DueSet /\ d.id \in Ids /\ d.row \in Row
    /\ d \in sweep[s].todo
    /\ sweep[s].kind \in Kinds
    /\ sweep[s].cur = {}
    /\ sweep' = [sweep EXCEPT ![s] = TookUp(s, d)]
    /\ calendar' \in {calendar, Filed(d.id, Mail(d.row, TRUE))}
    /\ rung' = IF d.row.seq = viewing[d.id].seq
               THEN [rung EXCEPT ![d.id] = [rung[d.id] EXCEPT ![sweep[s].kind] =
                                               rung[d.id][sweep[s].kind] + 1]]
               ELSE rung
    /\ UNCHANGED <<viewing, schedule, now, req, stale, tainted, edited, bySeeker, outbox,
                   lastSweep, peak, late, mismarked, since, faults>>

LEMMA TakeFacts ==
    ASSUME NoticesTypeOK, NEW s \in InFlight, NEW d \in sweep[s].todo,
           sweep' = [sweep EXCEPT ![s].todo = @ \ {d}, ![s].cur = {d}]
    PROVE  sweep' = [sweep EXCEPT ![s] = TookUp(s, d)]
<1>1. s \in Runs /\ sweep[s] \in RunSet
  BY DEF NoticesTypeOK, InFlight
<1>2. sweep \in [Runs -> {Asleep} \cup RunSet]
  BY DEF NoticesTypeOK
<1>3. \A t \in Runs \ {s} : sweep'[t] = sweep[t]
  BY <1>2
<1>4. sweep'[s] = TookUp(s, d)
  BY <1>1, <1>2
<1>5. sweep' = [t \in Runs |-> sweep'[t]]
  BY <1>2
<1> QED BY <1>2, <1>3, <1>4, <1>5

LEMMA NotifyFacts ==
    ASSUME NoticesTypeOK, NEW s \in InFlight, NEW d \in sweep[s].todo,
           NEW delivered \in BOOLEAN, SweepNotify(s, d, delivered)
    PROVE  Rings(s, d)
<1>1. s \in Runs /\ sweep[s] \in RunSet
  BY DEF NoticesTypeOK, InFlight
<1>2. d \in Listed(s) /\ d \in DueSet /\ d.id \in Ids /\ d.row \in Row /\ sweep[s].kind \in Kinds
  BY <1>1 DEF Listed, DueSet, InFlight
<1>3. sweep[s].cur = {}
  BY DEF SweepNotify, None
<1>4. sweep' = [sweep EXCEPT ![s].todo = @ \ {d}, ![s].cur = {d}]
  BY DEF SweepNotify
<1>5. sweep' = [sweep EXCEPT ![s] = TookUp(s, d)]
  BY <1>4, TakeFacts
<1>6. calendar' = IF delivered THEN Filed(d.id, Mail(d.row, TRUE)) ELSE calendar
  BY Zenon DEF SweepNotify
<1>7. rung' = IF d.row.seq = viewing[d.id].seq
              THEN [rung EXCEPT ![d.id] = [rung[d.id] EXCEPT ![sweep[s].kind] =
                                              rung[d.id][sweep[s].kind] + 1]]
              ELSE rung
  BY DEF SweepNotify
<1>8. UNCHANGED <<vars, bySeeker, outbox, lastSweep, peak, late, mismarked, since, faults>>
  BY Zenon DEF SweepNotify
<1>9. calendar' \in {calendar, Filed(d.id, Mail(d.row, TRUE))}
  BY Zenon, <1>6
<1>10. UNCHANGED <<viewing, schedule, now, req, stale, tainted, edited, bySeeker, outbox,
                   lastSweep, peak, late, mismarked, since, faults>>
  BY <1>8 DEF vars
<1> QED BY <1>2, <1>3, <1>5, <1>7, <1>9, <1>10 DEF Rings

LEMMA HonestStep ==
    ASSUME NoticesInv, [NoticesNext]_allVars
    PROVE  Honest'
<1>0. Inv /\ NoticesTypeOK /\ Honest
  BY DEF NoticesInv
<1>a. ASSUME \A h \in Handlers : req'[h].op \in Events => req'[h] = req[h],
             outbox' \subseteq outbox, calendar' = calendar,
             \A s \in Runs : \A d \in Listed(s)' : d \in Listed(s) \/ Truthful(d.id, d.row)'
      PROVE  Honest'
  BY <1>a, HonestStays
<1>b. ASSUME UNCHANGED sweep PROVE \A s \in Runs : Listed(s)' = Listed(s)
  BY <1>b DEF Listed
<1>c. ASSUME UNCHANGED viewing, NEW kind \in Kinds, NEW d \in listDueReminders(kind)
      PROVE  Truthful(d.id, d.row)'
  <2>1. d.row = viewing[d.id] /\ viewing[d.id] \in Row
    BY <1>0, <1>c, ListFacts
  <2>2. viewing[d.id].seq \in Nat
    BY <2>1 DEF Row
  <2> QED BY <1>c, <2>1, <2>2 DEF Truthful
<1>1. ASSUME NEW h \in Handlers, Asks(h) PROVE Honest'
  <2>1. UNCHANGED <<viewing, outbox, calendar, sweep>>
    BY <1>1 DEF Asks
  <2>2. ASSUME NEW g \in Handlers, req'[g].op \in Events
        PROVE  \/ req'[g].op = req[g].op /\ req'[g].on = req[g].on /\ req'[g].seen = req[g].seen
               \/ \E v \in Ids : /\ req'[g].on = {v} /\ req'[g].seen = viewing[v]
                                 /\ viewing[v] \in Row
                                 /\ viewing' = viewing
    <3>1. CASE Refuse(h)
      BY <1>0, <2>2, <3>1 DEF Refuse, Inv, TypeOK, Idle, Events
    <3>2. CASE \E r : Learns(h, r)
      <4>1. PICK r : Learns(h, r)
        BY <3>2
      <4>2. req' = [req EXCEPT ![h] = r] /\ req \in [Handlers -> Requests \cup {Idle}]
        BY <1>0, <4>1 DEF Learns, Inv, TypeOK
      <4>3. CASE g # h
        BY <4>2, <4>3
      <4>4. CASE g = h
        <5>1. req'[g] = r
          BY <4>2, <4>4
        <5> QED BY <2>1, <2>2, <4>1, <4>4, <5>1 DEF Learns, Events
      <4> QED BY <4>3, <4>4
    <3> QED BY <1>1, <3>1, <3>2 DEF Asks
  <2> QED BY <2>1, <2>2, <1>b, HonestStays
<1>2. ASSUME NEW h \in Handlers, NEW v \in Ids, Books(h, v) PROVE Honest'
  <2>1. \E row \in Row : Commit(h, v, row)
    BY <1>0, <1>2, BookFacts DEF Books
  <2>2. \A g \in Handlers : req'[g].op \in Events => req'[g] = req[g]
    BY <1>0, <2>1, CommitForgets
  <2>3. UNCHANGED <<outbox, calendar, sweep>>
    BY <1>2 DEF Books, noticeVars, mailVars, sweepVars
  <2> QED BY <1>a, <1>b, <2>2, <2>3
<1>3. ASSUME NEW h \in Handlers, NEW v \in Ids, Move(h, v) PROVE Honest'
  <2>1. PICK row \in Row : Commit(h, v, row)
    BY <1>0, <1>3, MoveFacts DEF Move
  <2>2. \A g \in Handlers : req'[g].op \in Events => req'[g] = req[g]
    BY <1>0, <2>1, CommitForgets
  <2>3. UNCHANGED <<calendar, sweep>> /\ outbox' \subseteq outbox \cup {Letter(v, viewing'[v], TRUE)}
    BY <1>3 DEF Move, sweepVars
  <2>4. viewing'[v] = row
    BY <1>0, <2>1 DEF Commit, Inv, TypeOK
  <2>5. ASSUME NEW l \in outbox' PROVE l \in outbox \/ Truthful(l.id, l.mail)'
    <3>1. CASE l = Letter(v, viewing'[v], TRUE)
      <4>1. l.id = v /\ l.mail = Mail(row, TRUE)
        BY <2>4, <3>1 DEF Letter
      <4>2. l.mail.seq = row.seq /\ l.mail.start = row.start
        BY <4>1, MailFacts
      <4>3. row.seq \in Nat
        BY DEF Row
      <4>4. viewing'[l.id] = row
        BY <2>4, <4>1
      <4> HIDE <4>1
      <4> QED BY <4>2, <4>3, <4>4 DEF Truthful
    <3> QED BY <2>3, <2>5, <3>1
  <2> QED BY <2>2, <2>3, <2>5, <1>b, HonestStays
<1>4. ASSUME NEW h \in Handlers, NEW v \in Ids, NEW e \in Events, Apply(h, v, e) PROVE Honest'
  <2>1. PICK row \in Row : Commit(h, v, row)
    BY <1>0, <1>4, EventFacts DEF Apply
  <2>2. \A g \in Handlers : req'[g].op \in Events => req'[g] = req[g]
    BY <1>0, <2>1, CommitForgets
  <2>3. UNCHANGED <<calendar, sweep>>
        /\ outbox' \subseteq outbox \cup {Letter(v, req[h].seen, e = "CONFIRM")}
    BY <1>4 DEF Apply, sweepVars
  <2>4. PICK m : m = req[h].seen
    OBVIOUS
  <2>5. m \in Row /\ Truthful(v, m) /\ m.seq \in Int
    <3>1. req[h].op \in Events /\ v \in req[h].on
      BY <1>4 DEF Apply, CommitEvent
    <3> QED BY <1>0, <2>4, <3>1 DEF Honest, Row
  <2>6. Truthful(v, m)'
    BY <2>5, RowsGrow, TruthStays DEF Truthful
  <2>7. ASSUME NEW l \in outbox' PROVE l \in outbox \/ Truthful(l.id, l.mail)'
    <3>1. CASE l = Letter(v, req[h].seen, e = "CONFIRM")
      <4>1. PICK live \in BOOLEAN : live = (e = "CONFIRM")
        OBVIOUS
      <4>2. l.id = v /\ l.mail = Mail(m, live)
        BY <2>4, <3>1, <4>1, LetterFacts
      <4>3. Mail(m, live).seq = m.seq /\ Mail(m, live).start = m.start
        BY <2>5, MailFacts
      <4> QED BY <2>6, <4>2, <4>3 DEF Truthful
    <3> QED BY <2>3, <2>7, <3>1
  <2> QED BY <2>2, <2>3, <2>7, <1>b, HonestStays
<1>5. ASSUME NEW l \in outbox, Deliver(l) PROVE Honest'
  <2>1. UNCHANGED <<viewing, req, sweep>> /\ outbox' \subseteq outbox
        /\ calendar' = Filed(l.id, l.mail)
    BY <1>5 DEF Deliver, vars, sweepVars
  <2>2. l.id \in Ids /\ l.mail \in MailSet
    BY <1>0 DEF NoticesTypeOK
  <2>3. Truthful(l.id, l.mail)'
    BY <1>0, <2>1 DEF Honest, Truthful
  <2>4. \A v \in Ids : calendar'[v] = calendar[v] \/ \E m : calendar'[v] = m /\ Truthful(v, m)'
    BY <1>0, <2>1, <2>2, <2>3, FiledFacts
  <2> QED BY <2>1, <2>4, <1>b, HonestStays
<1>6. ASSUME NEW s \in InFlight, NEW d \in sweep[s].todo,
             NEW delivered \in BOOLEAN, SweepNotify(s, d, delivered)
      PROVE  Honest'
  <2>0. Rings(s, d)
    BY <1>0, <1>6, NotifyFacts
  <2>1. /\ UNCHANGED <<viewing, req, outbox>>
        /\ calendar' \in {calendar, Filed(d.id, Mail(d.row, TRUE))}
        /\ sweep' = [sweep EXCEPT ![s] = TookUp(s, d)]
        /\ d \in Listed(s) /\ d.id \in Ids /\ d.row \in Row
    BY <2>0 DEF Rings
  <2>2. Truthful(d.id, d.row)
    BY <1>0, <2>1 DEF Honest, InFlight
  <2>3. PICK m : m = Mail(d.row, TRUE)
    OBVIOUS
  <2>4. m \in MailSet /\ m.seq = d.row.seq /\ m.start = d.row.start
    BY <2>1, <2>3, MailFacts
  <2>5. Truthful(d.id, m)'
    BY <2>1, <2>2, <2>4 DEF Truthful
  <2>6. ASSUME NEW v \in Ids
        PROVE  calendar'[v] = calendar[v] \/ \E n : calendar'[v] = n /\ Truthful(v, n)'
    BY <1>0, <2>1, <2>3, <2>4, <2>5, FiledFacts
  <2>7. \A t \in Runs : Listed(t)' \subseteq Listed(t)
    BY <1>0, <1>6, <2>1 DEF Listed, NoticesTypeOK, InFlight
  <2> QED BY <2>1, <2>6, <2>7, HonestStays
<1>7. ASSUME NEW c \in Schedulers, NEW s \in Runs, SweepStart(c, s) PROVE Honest'
  <2>1. UNCHANGED <<viewing, req, outbox, calendar>>
        /\ sweep' = [sweep EXCEPT ![s] = Sweep(c, "24h")]
    BY <1>7 DEF SweepStart, vars, mailVars
  <2>2. \A t \in Runs : \A d \in Listed(t)' : d \in Listed(t) \/ d \in listDueReminders("24h")
    BY <1>0, <2>1 DEF Listed, NoticesTypeOK, Sweep, None
  <2>3. "24h" \in Kinds
    BY DEF Kinds
  <2> QED BY <2>1, <2>2, <2>3, <1>a, <1>c
<1>8. ASSUME NEW s \in Runs, SweepTurn(s) PROVE Honest'
  <2>1. UNCHANGED <<viewing, req, outbox, calendar>>
        /\ sweep' = [sweep EXCEPT ![s] =
                        IF sweep[s].kind = "24h" THEN Sweep(sweep[s].by, "2h") ELSE Asleep]
    BY <1>8 DEF SweepTurn, vars, mailVars
  <2>2. \A t \in Runs : \A d \in Listed(t)' : d \in Listed(t) \/ d \in listDueReminders("2h")
    BY <1>0, <2>1 DEF Listed, NoticesTypeOK, Sweep, None
  <2>3. "2h" \in Kinds
    BY DEF Kinds
  <2> QED BY <2>1, <2>2, <2>3, <1>a, <1>c
<1>9. CASE SweepListFails
  <2>1. UNCHANGED <<viewing, req, outbox, calendar>>
        /\ (sweep' = sweep \/ \E s \in InFlight : sweep' = [sweep EXCEPT ![s] = Asleep])
    BY <1>9 DEF SweepListFails, vars, mailVars
  <2>2. \A t \in Runs : Listed(t)' \subseteq Listed(t)
    BY <1>0, <2>1 DEF Listed, NoticesTypeOK, InFlight
  <2> QED BY <2>1, <2>2, <1>a
<1>10. ASSUME NEW s \in InFlight, NEW d \in sweep[s].cur,
              SweepMark(s, d) \/ SweepMarkFails(s, d)
       PROVE  Honest'
  <2>1. UNCHANGED <<req, outbox, calendar>> /\ sweep' = [sweep EXCEPT ![s].cur = None]
    BY <1>10 DEF SweepMark, SweepMarkFails, vars, mailVars
  <2>2. \A t \in Runs : Listed(t)' \subseteq Listed(t)
    BY <1>0, <1>10, <2>1 DEF Listed, NoticesTypeOK, None, InFlight
  <2> QED BY <2>1, <2>2, <1>a
<1>11. CASE Crash
  <2>1. UNCHANGED calendar /\ outbox' = {} /\ req' = [h \in Handlers |-> Idle]
        /\ sweep' = [s \in Runs |-> Asleep]
    BY <1>11 DEF Crash
  <2>2. \A s \in Runs : Listed(s)' = {}
    BY <2>1 DEF Listed
  <2> QED BY <2>1, <2>2, <1>a DEF Idle, Events
<1>12. CASE Clock \/ Publish \/ UNCHANGED allVars
  <2>1. UNCHANGED <<req, outbox, calendar, sweep>>
    BY <1>12 DEF Clock, Publish, Tick, SetAvailability, allVars, vars, noticeVars, mailVars,
                 sweepVars
  <2> QED BY <2>1, <1>a, <1>b
<1>13. ASSUME NEW h \in Handlers,
              \/ Quiet(h)
              \/ Drop(h)
              \/ \E a \in Seekers \cup {Conductor, Owner}, v \in Ids : Ask(h, a, v)
       PROVE  Honest'
  BY <1>13, <1>1, <1>2, AskSteps
<1> QED BY <1>3, <1>4, <1>5, <1>6, <1>7, <1>8, <1>9, <1>10, <1>11, <1>12, <1>13 DEF NoticesNext, InFlight

-----------------------------------------------------------------------------
\* Types

\* The letter of an event and that of a move are mails about a row.
LEMMA LetterTypes ==
    ASSUME NoticesInv, NEW v \in Ids, NEW row \in Row, NEW live \in BOOLEAN
    PROVE  outbox \cup {Letter(v, row, live)} \subseteq [id : Ids, mail : MailSet]
<1>1. outbox \subseteq [id : Ids, mail : MailSet]
  BY DEF NoticesInv, NoticesTypeOK
<1>2. Mail(row, live) \in MailSet
  BY MailFacts
<1> QED BY <1>1, <1>2 DEF Letter

LEMMA SweepTypes ==
    ASSUME Inv, NEW c \in Schedulers, NEW kind \in Kinds
    PROVE  Sweep(c, kind) \in RunSet
<1>1. listDueReminders(kind) \subseteq DueSet
  BY ListFacts
<1> QED BY <1>1 DEF Sweep, None

\* A commit tells nobody's clock anything.
LEMMA CommitTimes ==
    ASSUME NEW h, NEW v, NEW row, Commit(h, v, row)
    PROVE  UNCHANGED <<now, schedule, edited>>
BY DEF Commit

LEMMA TypesStep ==
    ASSUME NoticesInv, [NoticesNext]_allVars
    PROVE  NoticesTypeOK'
<1>0. Inv /\ NoticesTypeOK /\ Honest /\ Flights /\ Inv' /\ TypeOK'
  BY NoticesStepInv DEF NoticesInv, Inv
<1> DEFINE SweepSet == {Asleep} \cup RunSet
<1>a. /\ bySeeker \in [Handlers -> BOOLEAN]
      /\ outbox \subseteq [id : Ids, mail : MailSet]
      /\ calendar \in [Ids -> MailSet \cup {NoEntry}]
      /\ sweep \in [Runs -> SweepSet]
      /\ lastSweep \in [Schedulers -> (-SweepEvery)..MaxNow]
      /\ peak \in Nat /\ mismarked \subseteq Ids \X Kinds /\ late \in BOOLEAN
      /\ rung \in [Ids -> [Kinds -> Nat]]
      /\ since \in [Ids -> 0..MaxNow]
      /\ faults \in 0..MaxFaults
  BY <1>0 DEF NoticesTypeOK
<1>b. /\ now \in 0..MaxNow
      /\ MaxNow \in Nat /\ SweepEvery \in Nat /\ MaxFaults \in Nat
      /\ now \in (-SweepEvery)..MaxNow /\ now - SweepEvery \in (-SweepEvery)..MaxNow
  BY <1>0, IntervalAssumption, ReminderAssumption DEF Inv, TypeOK
<1> HIDE DEF SweepSet
<1>c. ASSUME /\ bySeeker' \in [Handlers -> BOOLEAN]
             /\ outbox' \subseteq [id : Ids, mail : MailSet]
             /\ calendar' \in [Ids -> MailSet \cup {NoEntry}]
             /\ sweep' \in [Runs -> SweepSet]
             /\ lastSweep' \in [Schedulers -> (-SweepEvery)..MaxNow]
             /\ peak' \in Nat /\ mismarked' \subseteq Ids \X Kinds /\ late' \in BOOLEAN
             /\ rung' \in [Ids -> [Kinds -> Nat]]
             /\ since' \in [Ids -> 0..MaxNow]
             /\ faults' \in 0..MaxFaults
      PROVE  NoticesTypeOK'
  BY <1>0, <1>c DEF NoticesTypeOK, SweepSet
<1>1. ASSUME NEW h \in Handlers,
             \/ Quiet(h)
             \/ Drop(h)
             \/ \E a \in Seekers \cup {Conductor, Owner}, v \in Ids : Ask(h, a, v)
      PROVE  NoticesTypeOK'
  <2>1. Asks(h) \/ \E v \in Ids : Books(h, v)
    BY <1>1, AskSteps
  <2>2. bySeeker' \in [Handlers -> BOOLEAN]
    BY <1>a, <2>1 DEF Asks, Books, noticeVars, mailVars
  <2>3. UNCHANGED <<outbox, calendar, sweep, lastSweep, peak, late, rung, mismarked, since, faults>>
    BY <2>1 DEF Asks, Books, noticeVars, mailVars, sweepVars
  <2> QED BY <1>a, <1>c, <2>2, <2>3
<1>2. ASSUME NEW h \in Handlers, NEW v \in Ids, Move(h, v) PROVE NoticesTypeOK'
  <2>1. UNCHANGED <<calendar, sweep, lastSweep, peak, late, faults>> /\ Done(h)
        /\ mismarked' \subseteq mismarked
    BY <1>2 DEF Move, sweepVars
  <2>2. bySeeker' \in [Handlers -> BOOLEAN]
    BY <1>a, <2>1 DEF Done
  <2>3. rung' \in [Ids -> [Kinds -> Nat]] /\ since' \in [Ids -> 0..MaxNow]
    <3>1. 0 \in 0..MaxNow /\ [k \in Kinds |-> 0] \in [Kinds -> Nat]
      BY <1>b
    <3>2. /\ rung' = [rung EXCEPT ![v] = [k \in Kinds |-> 0]]
          /\ since' = [since EXCEPT ![v] = 0]
      BY <1>2 DEF Move
    <3> QED BY <1>a, <3>1, <3>2
  <2>4. PICK row \in Row : Commit(h, v, row)
    BY <1>0, <1>2, MoveFacts DEF Move
  <2>5. viewing'[v] = row
    BY <1>0, <2>4 DEF Commit, Inv, TypeOK
  <2>6. outbox' \subseteq outbox \cup {Letter(v, row, TRUE)}
    BY <1>2, <2>5 DEF Move, Letter
  <2>7. outbox' \subseteq [id : Ids, mail : MailSet]
    BY <2>6, LetterTypes
  <2> QED BY <1>a, <1>c, <2>1, <2>2, <2>3, <2>7
<1>3. ASSUME NEW h \in Handlers, NEW v \in Ids, NEW e \in Events, Apply(h, v, e)
      PROVE  NoticesTypeOK'
  <2>1. UNCHANGED <<calendar, sweep, lastSweep, peak, late, rung, mismarked, faults>> /\ Done(h)
    BY <1>3 DEF Apply, sweepVars
  <2>2. bySeeker' \in [Handlers -> BOOLEAN]
    BY <1>a, <2>1 DEF Done
  <2>3. since' \in [Ids -> 0..MaxNow]
    <3>1. since' \in {since, [since EXCEPT ![v] = now], [since EXCEPT ![v] = 0]}
      BY <1>3 DEF Apply
    <3> QED BY <1>a, <1>b, <3>1
  <2>4. req[h].seen \in Row
    BY <1>0, <1>3 DEF Apply, CommitEvent, Honest
  <2>5. outbox' \subseteq outbox \cup {Letter(v, req[h].seen, e = "CONFIRM")}
    BY <1>3 DEF Apply
  <2>6. (e = "CONFIRM") \in BOOLEAN
    OBVIOUS
  <2>7. outbox' \subseteq [id : Ids, mail : MailSet]
    BY <2>4, <2>5, <2>6, LetterTypes
  <2> QED BY <1>a, <1>c, <2>1, <2>2, <2>3, <2>7
<1>4. ASSUME NEW l \in outbox, Deliver(l) PROVE NoticesTypeOK'
  <2>1. /\ UNCHANGED <<bySeeker, sweep, lastSweep, peak, late, rung, mismarked, since, faults>>
        /\ outbox' \subseteq outbox
        /\ calendar' = Filed(l.id, l.mail)
    BY <1>4 DEF Deliver, sweepVars
  <2>2. l.id \in Ids /\ l.mail \in MailSet
    BY <1>a
  <2>3. calendar' \in [Ids -> MailSet \cup {NoEntry}]
    BY <1>0, <2>1, <2>2, FiledFacts
  <2> QED BY <1>a, <1>c, <2>1, <2>3
<1>5. ASSUME NEW c \in Schedulers, NEW s \in Runs, SweepStart(c, s) PROVE NoticesTypeOK'
  <2>1. /\ UNCHANGED <<bySeeker, outbox, calendar, rung, mismarked, since, faults>>
        /\ lastSweep' = [lastSweep EXCEPT ![c] = now]
        /\ sweep' = [sweep EXCEPT ![s] = Sweep(c, "24h")]
        /\ peak' \in {peak, Cardinality(InFlight) + 1}
        /\ late' \in BOOLEAN
    BY <1>5 DEF SweepStart, mailVars
  <2>2. Sweep(c, "24h") \in SweepSet
    BY <1>0, SweepTypes DEF SweepSet, Kinds
  <2>3. peak' \in Nat
    BY <1>0, <1>a, <2>1, FS_CardinalityType DEF Flights
  <2> QED BY <1>a, <1>b, <1>c, <2>1, <2>2, <2>3
<1>6. ASSUME NEW s \in InFlight, SweepTurn(s) PROVE NoticesTypeOK'
  <2>1. /\ UNCHANGED <<bySeeker, outbox, calendar, lastSweep, peak, late, rung, mismarked, since,
                        faults>>
        /\ sweep' = [sweep EXCEPT ![s] =
                        IF sweep[s].kind = "24h" THEN Sweep(sweep[s].by, "2h") ELSE Asleep]
    BY <1>6 DEF SweepTurn, mailVars
  <2>2. sweep[s].by \in Schedulers
    BY <1>a DEF InFlight, SweepSet
  <2>3. Sweep(sweep[s].by, "2h") \in SweepSet /\ Asleep \in SweepSet
    BY <1>0, <2>2, SweepTypes DEF SweepSet, Kinds
  <2> QED BY <1>a, <1>c, <2>1, <2>3
<1>7. CASE SweepListFails
  <2>1. /\ UNCHANGED <<bySeeker, outbox, calendar, peak, late, rung, mismarked, since>>
        /\ faults < MaxFaults /\ faults' = faults + 1
        /\ lastSweep' = lastSweep \/ \E c \in Schedulers : lastSweep' = [lastSweep EXCEPT ![c] = now]
        /\ sweep' = sweep \/ \E s \in InFlight : sweep' = [sweep EXCEPT ![s] = Asleep]
    BY <1>7 DEF SweepListFails, mailVars
  <2>2. Asleep \in SweepSet /\ faults' \in 0..MaxFaults
    BY <1>a, <1>b, <2>1 DEF SweepSet
  <2> QED BY <1>a, <1>b, <1>c, <2>1, <2>2
<1>8. ASSUME NEW s \in InFlight, NEW d \in sweep[s].todo,
             NEW delivered \in BOOLEAN, SweepNotify(s, d, delivered)
      PROVE  NoticesTypeOK'
  <2>1. Rings(s, d)
    BY <1>0, <1>8, NotifyFacts
  <2>2. /\ UNCHANGED <<bySeeker, outbox, lastSweep, peak, late, mismarked, since, faults>>
        /\ d.id \in Ids /\ d.row \in Row /\ d \in DueSet /\ sweep[s].kind \in Kinds
        /\ sweep' = [sweep EXCEPT ![s] = TookUp(s, d)]
    BY <2>1 DEF Rings
  <2>3. calendar' \in [Ids -> MailSet \cup {NoEntry}]
    <3>1. Mail(d.row, TRUE) \in MailSet
      BY <2>2, MailFacts
    <3>2. calendar' \in {calendar, Filed(d.id, Mail(d.row, TRUE))}
      BY <2>1 DEF Rings
    <3> QED BY <1>0, <1>a, <2>2, <3>1, <3>2, FiledFacts
  <2>4. rung' \in [Ids -> [Kinds -> Nat]]
    <3>1. rung' \in {rung, [rung EXCEPT ![d.id] = [rung[d.id] EXCEPT ![sweep[s].kind] =
                                                      rung[d.id][sweep[s].kind] + 1]]}
      BY <2>1 DEF Rings
    <3>2. rung[d.id] \in [Kinds -> Nat]
      BY <1>a, <2>2
    <3>3. rung[d.id][sweep[s].kind] + 1 \in Nat
      BY <2>2, <3>2
    <3>4. [rung[d.id] EXCEPT ![sweep[s].kind] = rung[d.id][sweep[s].kind] + 1] \in [Kinds -> Nat]
      BY <3>2, <3>3
    <3> QED BY <1>a, <3>1, <3>4
  <2>5. sweep' \in [Runs -> SweepSet]
    <3>1. sweep[s] \in RunSet
      BY <1>8, <1>a DEF SweepSet, InFlight
    <3>2. TookUp(s, d) \in SweepSet
      BY <2>2, <3>1 DEF SweepSet
    <3> QED BY <1>a, <2>2, <3>2
  <2> QED BY <1>a, <1>c, <2>2, <2>3, <2>4, <2>5
<1>9. ASSUME NEW s \in InFlight, NEW d \in sweep[s].cur,
             SweepMark(s, d) \/ SweepMarkFails(s, d)
      PROVE  NoticesTypeOK'
  <2>1. /\ UNCHANGED <<bySeeker, outbox, calendar, lastSweep, peak, late, rung, since>>
        /\ sweep' = [sweep EXCEPT ![s].cur = None]
    BY <1>9 DEF SweepMark, SweepMarkFails, mailVars
  <2>2. faults' = faults \/ (faults < MaxFaults /\ faults' = faults + 1)
    BY <1>9 DEF SweepMark, SweepMarkFails
  <2>3. faults' \in 0..MaxFaults
    BY <1>a, <1>b, <2>2
  <2>4. sweep' \in [Runs -> SweepSet]
    BY <1>a, <1>9, <2>1 DEF SweepSet, None, InFlight
  <2>5. mismarked' \subseteq Ids \X Kinds
    <3>1. <<d.id, sweep[s].kind>> \in Ids \X Kinds
      BY <1>9, MarkSteps
    <3>2. mismarked' \subseteq mismarked \cup {<<d.id, sweep[s].kind>>}
      BY <1>9 DEF SweepMark, SweepMarkFails
    <3> QED BY <1>a, <3>1, <3>2
  <2> QED BY <1>a, <1>c, <2>1, <2>3, <2>4, <2>5
<1>10. CASE Crash
  <2>1. /\ UNCHANGED <<calendar, peak, late, rung, mismarked, since>>
        /\ faults < MaxFaults /\ faults' = faults + 1
        /\ bySeeker' = [h \in Handlers |-> FALSE]
        /\ outbox' = {}
        /\ sweep' = [s \in Runs |-> Asleep]
        /\ lastSweep' = [c \in Schedulers |-> now - SweepEvery]
    BY <1>10 DEF Crash
  <2>2. Asleep \in SweepSet /\ faults' \in 0..MaxFaults
    BY <1>a, <1>b, <2>1 DEF SweepSet
  <2>3. lastSweep' \in [Schedulers -> (-SweepEvery)..MaxNow]
    BY <1>b, <2>1
  <2> QED BY <1>a, <1>c, <2>1, <2>2, <2>3
<1>11. CASE Clock \/ Publish \/ UNCHANGED allVars
  <2>1. UNCHANGED <<bySeeker, outbox, calendar, sweep, lastSweep, peak, late, rung, mismarked, since,
                    faults>>
    BY <1>11 DEF Clock, Publish, allVars, noticeVars, mailVars, sweepVars
  <2> QED BY <1>a, <1>c, <2>1
<1> QED BY <1>1, <1>2, <1>3, <1>4, <1>5, <1>6, <1>7, <1>8, <1>9, <1>10, <1>11 DEF NoticesNext, InFlight

\* Only a timer adds a run.
LEMMA FlightsStep ==
    ASSUME NoticesInv, [NoticesNext]_allVars
    PROVE  Flights'
<1>0. /\ IsFiniteSet(InFlight) /\ Cardinality(InFlight) <= peak /\ peak \in Nat
      /\ sweep \in [Runs -> {Asleep} \cup RunSet]
  BY DEF NoticesInv, NoticesTypeOK, Flights
<1>a. Cardinality(InFlight) \in Nat
  BY <1>0, FS_CardinalityType
<1>b. ASSUME InFlight' \subseteq InFlight, peak' = peak PROVE Flights'
  <2>1. IsFiniteSet(InFlight') /\ Cardinality(InFlight') <= Cardinality(InFlight)
        /\ Cardinality(InFlight') \in Nat
    BY <1>0, <1>b, FS_Subset, FS_CardinalityType
  <2> QED BY <1>0, <1>a, <1>b, <2>1 DEF Flights
<1>c. ASSUME UNCHANGED <<sweep, peak>> PROVE Flights'
  BY <1>b, <1>c DEF InFlight
<1>d. ASSUME NEW s \in InFlight, NEW x, sweep' = [sweep EXCEPT ![s] = x], peak' = peak
      PROVE  Flights'
  BY <1>0, <1>b, <1>d DEF InFlight
<1>1. ASSUME NEW h \in Handlers,
             \/ Quiet(h)
             \/ Drop(h)
             \/ \E a \in Seekers \cup {Conductor, Owner}, v \in Ids : Ask(h, a, v)
             \/ \E v \in Ids : Move(h, v)
             \/ \E v \in Ids, e \in Events : Apply(h, v, e)
      PROVE  UNCHANGED <<sweep, peak>>
  BY <1>1 DEF Quiet, Drop, Ask, Move, Apply, noticeVars, sweepVars
<1>2. ASSUME NEW l \in outbox, Deliver(l) PROVE UNCHANGED <<sweep, peak>>
  BY <1>2 DEF Deliver, sweepVars
<1>3. ASSUME NEW c \in Schedulers, NEW s \in Runs, SweepStart(c, s) PROVE Flights'
  <2>1. /\ s \notin InFlight
        /\ sweep' = [sweep EXCEPT ![s] = Sweep(c, "24h")]
        /\ peak' = IF Cardinality(InFlight) < peak THEN peak ELSE Cardinality(InFlight) + 1
    BY <1>3 DEF SweepStart
  <2>2. InFlight' \subseteq InFlight \cup {s}
    BY <1>0, <2>1 DEF InFlight
  <2>3. /\ IsFiniteSet(InFlight \cup {s})
        /\ Cardinality(InFlight \cup {s}) = Cardinality(InFlight) + 1
    BY <1>0, <2>1, FS_AddElement
  <2>4. IsFiniteSet(InFlight') /\ Cardinality(InFlight') <= Cardinality(InFlight) + 1
        /\ Cardinality(InFlight') \in Nat
    BY <2>2, <2>3, FS_Subset, FS_CardinalityType
  <2> QED BY <1>0, <1>a, <2>1, <2>4 DEF Flights
<1>4. ASSUME NEW s \in InFlight,
             \/ SweepTurn(s)
             \/ \E d \in sweep[s].todo, delivered \in BOOLEAN : SweepNotify(s, d, delivered)
             \/ \E d \in sweep[s].cur : SweepMark(s, d) \/ SweepMarkFails(s, d)
      PROVE  Flights'
  <2>1. peak' = peak /\ \A q \in Runs \ {s} : sweep'[q] = sweep[q]
    BY <1>0, <1>4 DEF SweepTurn, SweepNotify, SweepMark, SweepMarkFails
  <2> QED BY <1>b, <2>1 DEF InFlight
<1>5. CASE SweepListFails
  BY <1>5, <1>c, <1>d DEF SweepListFails
<1>6. CASE Crash
  BY <1>6, <1>b DEF Crash, InFlight
<1>7. CASE Clock \/ Publish \/ UNCHANGED allVars
  BY <1>7, <1>c DEF Clock, Publish, allVars, noticeVars, sweepVars
<1> QED BY <1>c, <1>1, <1>2, <1>3, <1>4, <1>5, <1>6, <1>7 DEF NoticesNext

LEMMA NoticesInitInv == NoticesInit => NoticesInv
<1> SUFFICES ASSUME NoticesInit PROVE NoticesInv
  OBVIOUS
<1>1. Inv /\ TypeOK
  BY InitInv DEF NoticesInit, Inv
<1>2. /\ MaxNow \in Nat /\ SweepEvery \in Nat /\ MaxFaults \in Nat
      /\ 0 \in 0..MaxNow /\ 0 \in 0..MaxFaults /\ -SweepEvery \in (-SweepEvery)..MaxNow
  BY IntervalAssumption, ReminderAssumption
<1>3. NoticesTypeOK
  BY <1>1, <1>2 DEF NoticesInit, NoticesTypeOK
<1>4. Honest
  BY DEF NoticesInit, Init, Honest, Idle, Events, Listed
<1>5. Flights
  <2>1. InFlight = {} /\ peak = 0
    BY DEF NoticesInit, InFlight
  <2> QED BY <2>1, FS_EmptySet DEF Flights
<1> QED BY <1>1, <1>3, <1>4, <1>5 DEF NoticesInv

LEMMA NoticesNextInv == NoticesInv /\ [NoticesNext]_allVars => NoticesInv'
BY NoticesStepInv, TypesStep, HonestStep, FlightsStep DEF NoticesInv

LEMMA NoticesHold == NoticesSpec => []NoticesInv
BY NoticesInitInv, NoticesNextInv, PTL DEF NoticesSpec

\* Every variable keeps its type: what the handlers of Viewings and the scheduler write
\* meets whatever the other, a late mail or a crash has made of the rows.
THEOREM NoticesTypeCorrect == NoticesSpec => []NoticesTypeOK
<1>1. NoticesInv => NoticesTypeOK
  BY DEF NoticesInv
<1> QED BY <1>1, NoticesHold, PTL

\* However late a mail is sent, a reminder rung or a mark written, no invitation announces a
\* SEQUENCE ahead of the row's, nor another start under the row's own.
THEOREM InvitationsAreHonest == NoticesSpec => []SequenceFixesStart
<1>1. NoticesInv => SequenceFixesStart
  <2> SUFFICES ASSUME NoticesInv, NEW v \in Ids, NEW m \in Announced(v)
               PROVE  /\ viewing[v] # Absent
                      /\ m.seq <= viewing[v].seq
                      /\ m.seq = viewing[v].seq => m.start = viewing[v].start
    BY DEF SequenceFixesStart
  <2>1. Honest /\ NoticesTypeOK
    BY DEF NoticesInv
  <2>2. ASSUME Truthful(v, m)
        PROVE  /\ viewing[v] # Absent
               /\ m.seq <= viewing[v].seq
               /\ m.seq = viewing[v].seq => m.start = viewing[v].start
    BY <2>2 DEF Truthful, Row, Absent
  <2>3. CASE \E l \in outbox : l.id = v /\ m = l.mail
    BY <2>1, <2>2, <2>3 DEF Honest
  <2>4. CASE m = calendar[v] /\ calendar[v] # NoEntry
    BY <2>1, <2>2, <2>4 DEF Honest
  <2>5. ASSUME NEW s \in Runs, NEW d \in Listed(s), d.id = v, m = Mail(d.row, TRUE)
        PROVE  Truthful(v, m)
    BY <2>1, <2>5 DEF Honest, Truthful, Mail
  <2>6. \/ \E l \in outbox : l.id = v /\ m = l.mail
        \/ m = calendar[v] /\ calendar[v] # NoEntry
        \/ \E s \in Runs : \E d \in Listed(s) : d.id = v /\ m = Mail(d.row, TRUE)
    BY DEF Announced, Listed, InFlight
  <2> QED BY <2>2, <2>3, <2>4, <2>5, <2>6
<1> QED BY <1>1, NoticesHold, PTL


-----------------------------------------------------------------------------
\* Reminders are bounded by the runs in flight

\* Run s has listed a viewing once.
ListsOnce(s) ==
    /\ \A d, e \in Listed(s) : d.id = e.id => d = e
    /\ s \in InFlight => sweep[s].todo \cap sweep[s].cur = {}

\* The runs that are yet to ring for the slot that viewing v now has, and those that have rung
\* for it and not yet marked it.
Ready(v, k) ==
    {s \in InFlight : sweep[s].kind = k /\ \E d \in sweep[s].todo :
                         d.id = v /\ d.row.seq = viewing[v].seq}
Pending(v, k) ==
    {s \in InFlight : sweep[s].kind = k /\ \E d \in sweep[s].cur :
                         d.id = v /\ d.row.seq = viewing[v].seq}

\* Until a reminder is marked, whoever rang for it is at its mark still or has failed; after
\* that only the runs ring that have listed it already.
RungFor(v, k) ==
    /\ viewing[v] = Absent => rung[v][k] = 0
    /\ viewing[v] \in Row =>
         IF k \in viewing[v].sent
         THEN rung[v][k] + Cardinality(Ready(v, k)) <= peak * faults + peak
         ELSE rung[v][k] <= peak * faults + Cardinality(Pending(v, k))

Bounded ==
    /\ \A s \in Runs : ListsOnce(s)
    /\ \A v \in Ids, k \in Kinds : RungFor(v, k)

LEMMA Products ==
    ASSUME NEW p \in Nat, NEW q \in Nat, NEW f \in Nat, p <= q
    PROVE  /\ p * f \in Nat
           /\ p * f <= q * f
           /\ p * (f + 1) = p * f + p
<1>1. PICK r \in Nat : q = p + r
  <2>1. q - p \in Nat /\ q = p + (q - p)
    OBVIOUS
  <2> QED BY <2>1
<1>2. r * f \in Nat /\ p * f \in Nat
  OBVIOUS
<1>3. q * f = p * f + r * f
  BY <1>1
<1>4. p * (f + 1) = p * f + p
  OBVIOUS
<1> QED BY <1>2, <1>3, <1>4

LEMMA CountFacts ==
    ASSUME NEW F, NEW p \in Nat, IsFiniteSet(F), Cardinality(F) <= p, NEW S \in SUBSET F
    PROVE  IsFiniteSet(S) /\ Cardinality(S) \in Nat /\ Cardinality(S) <= p
<1>1. IsFiniteSet(S) /\ Cardinality(S) <= Cardinality(F)
  BY FS_Subset
<1>2. Cardinality(S) \in Nat /\ Cardinality(F) \in Nat
  BY <1>1, FS_CardinalityType
<1> QED BY <1>1, <1>2

\* The ready and the pending are runs in flight, before a step and after.
LEMMA CountTypes ==
    ASSUME NoticesInv, NoticesInv', NEW v \in Ids, NEW k \in Kinds
    PROVE  /\ peak \in Nat /\ peak' \in Nat /\ faults \in Nat /\ faults' \in Nat
           /\ rung[v][k] \in Nat /\ rung'[v][k] \in Nat
           /\ IsFiniteSet(Ready(v, k)) /\ IsFiniteSet(Ready(v, k)')
           /\ IsFiniteSet(Pending(v, k)) /\ IsFiniteSet(Pending(v, k)')
           /\ Cardinality(Ready(v, k)) \in 0..peak /\ Cardinality(Ready(v, k)') \in 0..peak'
           /\ Cardinality(Pending(v, k)) \in 0..peak /\ Cardinality(Pending(v, k)') \in 0..peak'
<1>1. /\ peak \in Nat /\ peak' \in Nat /\ faults \in Nat /\ faults' \in Nat
      /\ rung[v][k] \in Nat /\ rung'[v][k] \in Nat
  BY ReminderAssumption DEF NoticesInv, NoticesTypeOK
<1>2. /\ IsFiniteSet(InFlight) /\ Cardinality(InFlight) <= peak
      /\ IsFiniteSet(InFlight') /\ Cardinality(InFlight') <= peak'
  BY DEF NoticesInv, Flights
<1>3. /\ Ready(v, k) \in SUBSET InFlight /\ Ready(v, k)' \in SUBSET InFlight'
      /\ Pending(v, k) \in SUBSET InFlight /\ Pending(v, k)' \in SUBSET InFlight'
  BY DEF Ready, Pending
<1>4. /\ IsFiniteSet(Ready(v, k)) /\ Cardinality(Ready(v, k)) \in 0..peak
      /\ IsFiniteSet(Pending(v, k)) /\ Cardinality(Pending(v, k)) \in 0..peak
  BY <1>1, <1>2, <1>3, CountFacts
<1>5. /\ IsFiniteSet(Ready(v, k)') /\ Cardinality(Ready(v, k)') \in 0..peak'
      /\ IsFiniteSet(Pending(v, k)') /\ Cardinality(Pending(v, k)') \in 0..peak'
  BY <1>1, <1>2, <1>3, CountFacts
<1> QED BY <1>1, <1>4, <1>5

\* The count of a viewing that stays as it is holds on while nobody who rang forgets it, and
\* nobody new has it to ring when it is marked.
LEMMA RungStays ==
    ASSUME NoticesInv, NoticesInv', NEW v \in Ids, NEW k \in Kinds, RungFor(v, k),
           rung'[v][k] = rung[v][k], peak <= peak', faults' = faults,
           viewing'[v] = Absent => viewing[v] = Absent,
           viewing'[v] \in Row =>
              /\ viewing[v] \in Row
              /\ k \in viewing'[v].sent <=> k \in viewing[v].sent
              /\ IF k \in viewing[v].sent THEN Ready(v, k)' \subseteq Ready(v, k)
                                          ELSE Pending(v, k) \subseteq Pending(v, k)'
    PROVE  RungFor(v, k)'
<1>1. /\ peak * faults \in Nat /\ peak' * faults' \in Nat
      /\ peak * faults <= peak' * faults'
  BY CountTypes, Products
<1>2. CASE viewing'[v] \in Row /\ k \in viewing[v].sent
  <2>1. Cardinality(Ready(v, k)') <= Cardinality(Ready(v, k))
    BY <1>2, CountTypes, FS_Subset
  <2>2. rung[v][k] + Cardinality(Ready(v, k)) <= peak * faults + peak
    BY <1>2 DEF RungFor
  <2>3. rung'[v][k] + Cardinality(Ready(v, k)') <= peak' * faults' + peak'
    BY <1>1, <2>1, <2>2, CountTypes
  <2> QED BY <1>2, <2>3 DEF RungFor, Row, Absent
<1>3. CASE viewing'[v] \in Row /\ k \notin viewing[v].sent
  <2>1. Cardinality(Pending(v, k)) <= Cardinality(Pending(v, k)')
    BY <1>3, CountTypes, FS_Subset
  <2>2. rung[v][k] <= peak * faults + Cardinality(Pending(v, k))
    BY <1>3 DEF RungFor
  <2>3. rung'[v][k] <= peak' * faults' + Cardinality(Pending(v, k)')
    BY <1>1, <2>1, <2>2, CountTypes
  <2> QED BY <1>3, <2>3 DEF RungFor, Row, Absent
<1>4. CASE viewing'[v] \notin Row
  BY <1>4 DEF RungFor
<1> QED BY <1>2, <1>3, <1>4

\* A crash or a failure forgives one more for each run.
LEMMA FailureForgives ==
    ASSUME NoticesInv, NoticesInv', NEW v \in Ids, NEW k \in Kinds, RungFor(v, k),
           faults' = faults + 1, UNCHANGED <<viewing, rung, peak>>,
           Ready(v, k)' \subseteq Ready(v, k)
    PROVE  RungFor(v, k)'
<1>1. peak * faults \in Nat /\ peak' * faults' = peak * faults + peak
  BY CountTypes, Products
<1>2. Cardinality(Ready(v, k)') <= Cardinality(Ready(v, k))
  BY CountTypes, FS_Subset
<1>3. CASE viewing[v] \in Row /\ k \in viewing[v].sent
  <2>1. rung[v][k] + Cardinality(Ready(v, k)) <= peak * faults + peak
    BY <1>3 DEF RungFor
  <2>2. rung'[v][k] + Cardinality(Ready(v, k)') <= peak' * faults' + peak'
    BY <1>1, <1>2, <2>1, CountTypes
  <2> QED BY <1>3, <2>2 DEF RungFor, Row, Absent
<1>4. CASE viewing[v] \in Row /\ k \notin viewing[v].sent
  <2>1. rung[v][k] <= peak * faults + Cardinality(Pending(v, k))
    BY <1>4 DEF RungFor
  <2>2. rung'[v][k] <= peak' * faults' + Cardinality(Pending(v, k)')
    BY <1>1, <2>1, CountTypes
  <2> QED BY <1>4, <2>2 DEF RungFor, Row, Absent
<1>5. CASE viewing[v] \notin Row
  BY <1>5 DEF RungFor
<1> QED BY <1>3, <1>4, <1>5

\* What a run becomes that lists anew.
LEMMA ListingFacts ==
    ASSUME NoticesInv, NEW c \in Schedulers, NEW kind \in Kinds
    PROVE  /\ Sweep(c, kind).todo = listDueReminders(kind)
           /\ Sweep(c, kind).cur = {} /\ Sweep(c, kind).kind = kind /\ Sweep(c, kind).by = c
           /\ Sweep(c, kind) # Asleep
           /\ \A d, e \in listDueReminders(kind) : d.id = e.id => d = e
           /\ \A d \in listDueReminders(kind) :
                 d.id \in Ids /\ viewing[d.id] \in Row /\ kind \notin viewing[d.id].sent
<1>1. /\ Sweep(c, kind).todo = listDueReminders(kind)
      /\ Sweep(c, kind).cur = {} /\ Sweep(c, kind).kind = kind /\ Sweep(c, kind).by = c
  BY DEF Sweep, None
<1>2. Sweep(c, kind) # Asleep
  BY <1>1 DEF Asleep, Kinds
<1>3. \A d, e \in listDueReminders(kind) : d.id = e.id => d = e
  BY DEF listDueReminders
<1>4. \A d \in listDueReminders(kind) :
         d.id \in Ids /\ viewing[d.id] \in Row /\ kind \notin viewing[d.id].sent
  BY ListFacts DEF NoticesInv
<1> QED BY <1>1, <1>2, <1>3, <1>4

\* What a step of the reminder scheduler does to the runs.
LEMMA RunSteps ==
    ASSUME NoticesInv, [NoticesNext]_allVars
    PROVE  \/ UNCHANGED sweep
           \/ \E s \in Runs, c \in Schedulers, kind \in Kinds :
                /\ s \in InFlight => sweep[s].todo = {} /\ sweep[s].cur = {}
                /\ sweep' = [sweep EXCEPT ![s] = Sweep(c, kind)]
           \/ \E s \in Runs : sweep' = [sweep EXCEPT ![s] = Asleep]
           \/ \E s \in InFlight : \E d \in sweep[s].todo : sweep' = [sweep EXCEPT ![s] = TookUp(s, d)]
           \/ \E s \in InFlight : sweep' = [sweep EXCEPT ![s].cur = {}]
           \/ sweep' = [s \in Runs |-> Asleep]
<1>0. NoticesTypeOK /\ sweep \in [Runs -> {Asleep} \cup RunSet]
  BY DEF NoticesInv, NoticesTypeOK
<1>1. ASSUME NEW h \in Handlers,
             \/ Quiet(h)
             \/ Drop(h)
             \/ \E a \in Seekers \cup {Conductor, Owner}, v \in Ids : Ask(h, a, v)
             \/ \E v \in Ids : Move(h, v)
             \/ \E v \in Ids, e \in Events : Apply(h, v, e)
      PROVE  UNCHANGED sweep
  BY <1>1 DEF Quiet, Drop, Ask, Move, Apply, noticeVars, sweepVars
<1>2. ASSUME NEW l \in outbox, Deliver(l) PROVE UNCHANGED sweep
  BY <1>2 DEF Deliver, sweepVars
<1>3. ASSUME NEW c \in Schedulers, NEW s \in Runs, SweepStart(c, s)
      PROVE  /\ s \notin InFlight /\ "24h" \in Kinds
             /\ sweep' = [sweep EXCEPT ![s] = Sweep(c, "24h")]
  BY <1>3 DEF SweepStart, Kinds
<1>4. ASSUME NEW s \in InFlight, SweepTurn(s)
      PROVE  /\ s \in Runs /\ sweep[s].by \in Schedulers /\ "2h" \in Kinds
             /\ sweep[s].todo = {} /\ sweep[s].cur = {}
             /\ \/ sweep' = [sweep EXCEPT ![s] = Sweep(sweep[s].by, "2h")]
                \/ sweep' = [sweep EXCEPT ![s] = Asleep]
  BY <1>0, <1>4 DEF SweepTurn, InFlight, None, Kinds
<1>5. ASSUME NEW s \in InFlight, NEW d \in sweep[s].todo, NEW delivered \in BOOLEAN,
             SweepNotify(s, d, delivered)
      PROVE  sweep' = [sweep EXCEPT ![s] = TookUp(s, d)]
  <2>1. Rings(s, d)
    BY <1>0, <1>5, NotifyFacts
  <2> QED BY <2>1 DEF Rings
<1>6. ASSUME NEW s \in InFlight, NEW d \in sweep[s].cur, SweepMark(s, d) \/ SweepMarkFails(s, d)
      PROVE  sweep' = [sweep EXCEPT ![s].cur = {}]
  BY <1>6 DEF SweepMark, SweepMarkFails, None
<1>7. CASE SweepListFails
  BY <1>7 DEF SweepListFails, InFlight
<1>8. CASE Crash
  BY <1>8 DEF Crash
<1>9. CASE Clock \/ Publish \/ UNCHANGED allVars
  BY <1>9 DEF Clock, Publish, allVars, noticeVars, sweepVars
<1> QED BY <1>1, <1>2, <1>3, <1>4, <1>5, <1>6, <1>7, <1>8, <1>9 DEF NoticesNext


LEMMA ListsOnceStep ==
    ASSUME NoticesInv, \A s \in Runs : ListsOnce(s), [NoticesNext]_allVars
    PROVE  \A s \in Runs : ListsOnce(s)'
<1>0. sweep \in [Runs -> {Asleep} \cup RunSet]
  BY DEF NoticesInv, NoticesTypeOK
<1>a. ASSUME NEW q \in Runs, sweep'[q] = sweep[q] PROVE ListsOnce(q)'
  BY <1>a DEF ListsOnce, Listed, InFlight
<1>b. ASSUME NEW q \in Runs, sweep'[q] = Asleep PROVE ListsOnce(q)'
  BY <1>b DEF ListsOnce, Listed, InFlight
<1>1. ASSUME NEW s \in Runs, NEW c \in Schedulers, NEW kind \in Kinds,
             sweep' = [sweep EXCEPT ![s] = Sweep(c, kind)]
      PROVE  \A q \in Runs : ListsOnce(q)'
  <2>1. sweep'[s] = Sweep(c, kind) /\ \A q \in Runs \ {s} : sweep'[q] = sweep[q]
    BY <1>0, <1>1
  <2>2. ListsOnce(s)'
    BY <2>1, ListingFacts DEF ListsOnce, Listed
  <2> QED BY <1>a, <2>1, <2>2
<1>2. ASSUME NEW s \in Runs, sweep' = [sweep EXCEPT ![s] = Asleep]
      PROVE  \A q \in Runs : ListsOnce(q)'
  BY <1>0, <1>2, <1>a, <1>b
<1>3. ASSUME NEW s \in InFlight,
             \/ \E d \in sweep[s].todo : sweep' = [sweep EXCEPT ![s] = TookUp(s, d)]
             \/ sweep' = [sweep EXCEPT ![s].cur = {}]
      PROVE  \A q \in Runs : ListsOnce(q)'
  <2>1. s \in Runs /\ sweep[s] \in RunSet /\ sweep[s] # Asleep
    BY <1>0 DEF InFlight
  <2>2. \A q \in Runs \ {s} : sweep'[q] = sweep[q]
    BY <1>0, <1>3
  <2>3. /\ sweep'[s].todo \cup sweep'[s].cur \subseteq sweep[s].todo \cup sweep[s].cur
        /\ sweep'[s].todo \cap sweep'[s].cur = {}
    BY <1>0, <1>3, <2>1 DEF ListsOnce
  <2>4. Listed(s)' \subseteq Listed(s)
    BY <2>1, <2>3 DEF Listed
  <2>5. ListsOnce(s)'
    BY <2>1, <2>3, <2>4 DEF ListsOnce
  <2> QED BY <1>a, <2>2, <2>5
<1> QED BY <1>1, <1>2, <1>3, <1>a, <1>b, RunSteps DEF InFlight

\* Whoever is in flight has one reminder under way for a viewing, at most.
LEMMA ReadyOrPending ==
    ASSUME NEW v \in Ids, NEW k \in Kinds, NEW s \in InFlight, s \in Runs, ListsOnce(s),
           s \in Pending(v, k)
    PROVE  s \notin Ready(v, k)
BY DEF Ready, Pending, ListsOnce, Listed, InFlight

LEMMA RungForStep ==
    ASSUME NoticesInv, NoticesInv', Bounded, [NoticesNext]_allVars, NEW v \in Ids, NEW k \in Kinds
    PROVE  RungFor(v, k)'
<1>0. /\ Inv /\ NoticesTypeOK /\ Honest
      /\ (\A s \in Runs : ListsOnce(s)) /\ RungFor(v, k)
      /\ viewing \in [Ids -> Row \cup {Absent}]
      /\ rung \in [Ids -> [Kinds -> Nat]]
      /\ sweep \in [Runs -> {Asleep} \cup RunSet]
      /\ peak \in Nat /\ peak' \in Nat /\ faults \in Nat /\ faults' \in Nat
  BY CountTypes DEF NoticesInv, Bounded, Inv, TypeOK, NoticesTypeOK
<1>a. Absent \notin Row
  BY DEF Row, Status, Absent, ActiveStatus
<1>b. ASSUME UNCHANGED <<sweep, peak, faults>>, rung'[v][k] = rung[v][k],
             viewing'[v] = Absent => viewing[v] = Absent,
             viewing'[v] \in Row => /\ viewing[v] \in Row
                                    /\ viewing'[v].seq = viewing[v].seq
                                    /\ viewing'[v].sent = viewing[v].sent
      PROVE  RungFor(v, k)'
  <2>1. viewing'[v] \in Row => Ready(v, k)' = Ready(v, k) /\ Pending(v, k)' = Pending(v, k)
    BY <1>b DEF Ready, Pending, InFlight
  <2> QED BY <1>0, <1>b, <2>1, RungStays
<1>c. ASSUME rung'[v][k] = 0, viewing'[v] \in Row, viewing'[v].sent = {} PROVE RungFor(v, k)'
  <2>1. peak' * faults' \in Nat
    <3>1. peak' \in Nat /\ faults' \in Nat
      BY <1>0
    <3>2. peak' <= peak'
      BY <3>1
    <3> QED BY <3>1, <3>2, Products
  <2> QED BY <1>c, <1>a, <2>1, CountTypes DEF RungFor
<1>1. ASSUME NEW h \in Handlers, Asks(h) PROVE RungFor(v, k)'
  BY <1>0, <1>1, <1>b DEF Asks
<1>2. ASSUME NEW h \in Handlers, NEW w \in Ids, Books(h, w) PROVE RungFor(v, k)'
  <2>1. UNCHANGED <<sweep, rung, peak, faults>>
    BY <1>2 DEF Books, noticeVars, sweepVars
  <2>2. PICK row \in Row : viewing' = [viewing EXCEPT ![w] = row] /\ row.sent = {}
    BY <1>0, <1>2, BookFacts DEF Books, Commit
  <2>3. CASE v = w
    <3>1. rung[v][k] = 0
      BY <1>0, <1>2, <2>3, BookFacts DEF Books, RungFor
    <3> QED BY <1>0, <1>c, <2>1, <2>2, <2>3, <3>1
  <2>4. CASE v # w
    BY <1>0, <1>b, <2>1, <2>2, <2>4
  <2> QED BY <2>3, <2>4
<1>3. ASSUME NEW h \in Handlers, NEW w \in Ids, Move(h, w) PROVE RungFor(v, k)'
  <2>1. UNCHANGED <<sweep, peak, faults>> /\ rung' = [rung EXCEPT ![w] = [j \in Kinds |-> 0]]
    BY <1>3 DEF Move, sweepVars
  <2>2. PICK row \in Row : viewing' = [viewing EXCEPT ![w] = row] /\ row.sent = {}
    BY <1>0, <1>3, MoveFacts DEF Move, Commit
  <2>3. CASE v = w
    <3>1. rung'[v][k] = 0 /\ viewing'[v] = row
      BY <1>0, <2>1, <2>2, <2>3
    <3> QED BY <1>c, <2>2, <3>1
  <2>4. CASE v # w
    <3>1. rung'[v][k] = rung[v][k] /\ viewing'[v] = viewing[v]
      BY <1>0, <2>1, <2>2, <2>4
    <3> QED BY <1>b, <2>1, <3>1
  <2> QED BY <2>3, <2>4
<1>4. ASSUME NEW h \in Handlers, NEW w \in Ids, NEW e \in Events, Apply(h, w, e)
      PROVE  RungFor(v, k)'
  <2>1. UNCHANGED <<sweep, rung, peak, faults>>
    BY <1>4 DEF Apply, sweepVars
  <2>2. PICK row \in Row : /\ viewing' = [viewing EXCEPT ![w] = row]
                           /\ row.seq = viewing[w].seq
                           /\ row.sent = viewing[w].sent
    BY <1>0, <1>4, EventFacts DEF Apply, Commit
  <2>3. viewing[w] \in Row
    BY <1>0, <1>4, EventFacts DEF Apply
  <2> QED BY <1>0, <1>a, <1>b, <2>1, <2>2, <2>3
<1>5. ASSUME NEW l \in outbox, Deliver(l) PROVE RungFor(v, k)'
  BY <1>5, <1>b, <1>0 DEF Deliver, vars, sweepVars
<1>6. ASSUME NEW s \in Runs, NEW c \in Schedulers, NEW kind \in Kinds,
             s \in InFlight => sweep[s].todo = {} /\ sweep[s].cur = {},
             sweep' = [sweep EXCEPT ![s] = Sweep(c, kind)],
             UNCHANGED <<viewing, rung, faults>>, peak <= peak'
      PROVE  RungFor(v, k)'
  <2>1. sweep'[s] = Sweep(c, kind) /\ \A q \in Runs \ {s} : sweep'[q] = sweep[q]
    BY <1>0, <1>6
  <2>2. Pending(v, k) \subseteq Pending(v, k)'
    BY <1>6, <2>1 DEF Pending, InFlight
  <2>3. ASSUME k \in viewing[v].sent PROVE Ready(v, k)' \subseteq Ready(v, k)
    <3>1. s \notin Ready(v, k)'
      BY <1>6, <2>1, <2>3, ListingFacts DEF Ready
    <3> QED BY <1>6, <2>1, <3>1 DEF Ready, InFlight
  <2> QED BY <1>0, <1>6, <2>2, <2>3, RungStays
<1>7. ASSUME NEW c \in Schedulers, NEW s \in Runs, SweepStart(c, s) PROVE RungFor(v, k)'
  <2>1. /\ s \notin InFlight /\ UNCHANGED <<viewing, rung, faults>>
        /\ sweep' = [sweep EXCEPT ![s] = Sweep(c, "24h")]
        /\ peak' = IF Cardinality(InFlight) < peak THEN peak ELSE Cardinality(InFlight) + 1
    BY <1>7 DEF SweepStart, vars
  <2>2. peak <= peak'
    <3>1. Cardinality(InFlight) \in Nat
      BY FS_CardinalityType DEF NoticesInv, Flights
    <3> QED BY <1>0, <2>1, <3>1
  <2> QED BY <1>6, <2>1, <2>2 DEF Kinds
<1>8. ASSUME NEW s \in InFlight, SweepTurn(s) PROVE RungFor(v, k)'
  <2>1. /\ UNCHANGED <<viewing, rung, faults, peak>>
        /\ s \in Runs /\ sweep[s] \in RunSet /\ sweep[s].todo = {} /\ sweep[s].cur = {}
        /\ sweep' = [sweep EXCEPT ![s] =
                        IF sweep[s].kind = "24h" THEN Sweep(sweep[s].by, "2h") ELSE Asleep]
    BY <1>0, <1>8 DEF SweepTurn, vars, None, InFlight
  <2>2. CASE sweep[s].kind = "24h"
    <3>1. PICK c \in Schedulers : c = sweep[s].by
      BY <2>1
    <3>2. sweep' = [sweep EXCEPT ![s] = Sweep(c, "2h")] /\ "2h" \in Kinds
      BY <2>1, <2>2, <3>1 DEF Kinds
    <3>3. peak <= peak'
      <4>1. peak' = peak /\ peak \in Nat
        BY <1>0, <2>1
      <4> QED BY <4>1
    <3>4. UNCHANGED <<viewing, rung, faults>> /\ s \in Runs
          /\ sweep[s].todo = {} /\ sweep[s].cur = {}
      BY <2>1
    <3> QED BY <1>6, <3>2, <3>3, <3>4
  <2>3. CASE sweep[s].kind # "24h"
    <3>1. sweep'[s] = Asleep /\ \A q \in Runs \ {s} : sweep'[q] = sweep[q]
      BY <1>0, <2>1, <2>3
    <3>2. Ready(v, k)' = Ready(v, k) /\ Pending(v, k)' = Pending(v, k)
      BY <2>1, <3>1 DEF Ready, Pending, InFlight
    <3> QED BY <1>0, <2>1, <3>2, RungStays
  <2> QED BY <2>2, <2>3
<1>9. ASSUME \/ SweepListFails
             \/ Crash
             \/ \E s \in InFlight : \E d \in sweep[s].cur : SweepMarkFails(s, d)
      PROVE  RungFor(v, k)'
  <2>1. UNCHANGED <<viewing, rung, peak>> /\ faults' = faults + 1
    BY <1>9 DEF SweepListFails, Crash, SweepMarkFails, vars
  <2>2. \A q \in Runs :
           \/ sweep'[q] = sweep[q]
           \/ sweep'[q] = Asleep
           \/ sweep'[q].todo = sweep[q].todo /\ sweep'[q].kind = sweep[q].kind /\ q \in InFlight
    BY <1>0, <1>9 DEF SweepListFails, Crash, SweepMarkFails, InFlight
  <2>3. Ready(v, k)' \subseteq Ready(v, k)
    BY <2>1, <2>2 DEF Ready, InFlight
  <2> QED BY <1>0, <2>1, <2>3, FailureForgives
<1>10. ASSUME NEW s \in InFlight, NEW d \in sweep[s].cur, SweepMark(s, d) PROVE RungFor(v, k)'
  <2>1. d \in Listed(s) /\ d.id \in Ids /\ viewing[d.id] \in Row /\ sweep[s].kind \in Kinds
        /\ s \in Runs /\ sweep[s] \in RunSet /\ sweep[s] # Asleep
    BY <1>0, <1>10, MarkSteps DEF InFlight
  <2>2. PICK row \in Row : /\ viewing' = [viewing EXCEPT ![d.id] = row]
                           /\ row.seq = viewing[d.id].seq
                           /\ row.sent = viewing[d.id].sent \cup {sweep[s].kind}
    BY <1>0, <1>10, <2>1, MarkFacts
  <2>3. /\ UNCHANGED <<rung, faults, peak>> /\ sweep[s].cur = {d}
        /\ sweep' = [sweep EXCEPT ![s].cur = {}]
    BY <1>10 DEF SweepMark, None
  <2>4. /\ sweep'[s].todo = sweep[s].todo /\ sweep'[s].cur = {}
        /\ sweep'[s].kind = sweep[s].kind /\ sweep'[s] # Asleep
        /\ \A q \in Runs \ {s} : sweep'[q] = sweep[q]
    BY <1>0, <2>1, <2>3 DEF Asleep, Kinds
  <2>5. /\ viewing'[v] = Absent <=> viewing[v] = Absent
        /\ viewing'[v] \in Row <=> viewing[v] \in Row
        /\ viewing'[v].seq = viewing[v].seq
    BY <1>0, <1>a, <2>1, <2>2
  <2>6. Ready(v, k)' = Ready(v, k)
    BY <2>4, <2>5, <2>1 DEF Ready, InFlight
  <2>7. CASE v = d.id /\ k = sweep[s].kind /\ k \notin viewing[v].sent
    <3>1. rung[v][k] <= peak * faults + Cardinality(Pending(v, k))
      BY <2>1, <2>7, <1>0 DEF RungFor
    <3>2. Pending(v, k) \cap Ready(v, k) = {}
      BY <1>0, ReadyOrPending DEF Pending, InFlight
    <3>3. Cardinality(Pending(v, k)) + Cardinality(Ready(v, k)) <= peak
      <4>1. Pending(v, k) \cup Ready(v, k) \in SUBSET InFlight
        BY DEF Pending, Ready
      <4>2. Cardinality(Pending(v, k) \cup Ready(v, k)) <= peak
        BY <1>0, <4>1, CountFacts DEF NoticesInv, Flights
      <4>3. Cardinality(Pending(v, k) \cup Ready(v, k)) =
              Cardinality(Pending(v, k)) + Cardinality(Ready(v, k))
        <5>1. IsFiniteSet(Pending(v, k)) /\ IsFiniteSet(Ready(v, k))
          BY CountTypes
        <5>2. Cardinality(Pending(v, k) \cup Ready(v, k)) =
                Cardinality(Pending(v, k)) + Cardinality(Ready(v, k)) - Cardinality({})
          BY <3>2, <5>1, FS_Union
        <5> QED BY <5>2, CountTypes, FS_EmptySet
      <4> QED BY <4>2, <4>3
    <3>4. rung'[v][k] + Cardinality(Ready(v, k)') <= peak' * faults' + peak'
      <4>1. peak * faults \in Nat
        BY <1>0, Products
      <4> QED BY <1>0, <2>3, <2>6, <3>1, <3>3, <4>1, CountTypes
    <3>5. k \in viewing'[v].sent
      BY <1>0, <2>2, <2>7
    <3> QED BY <1>a, <2>1, <2>5, <2>7, <3>4, <3>5 DEF RungFor
  <2>8. CASE ~(v = d.id /\ k = sweep[s].kind /\ k \notin viewing[v].sent)
    <3>1. k \in viewing'[v].sent <=> k \in viewing[v].sent
      BY <1>0, <2>1, <2>2, <2>8
    <3>2. k \notin viewing[v].sent => Pending(v, k) \subseteq Pending(v, k)'
      BY <2>3, <2>4, <2>5, <2>8 DEF Pending, InFlight
    <3> QED BY <1>0, <2>3, <2>5, <2>6, <3>1, <3>2, RungStays
  <2> QED BY <2>7, <2>8
<1>11. ASSUME NEW s \in InFlight, NEW d \in sweep[s].todo, NEW delivered \in BOOLEAN,
              SweepNotify(s, d, delivered)
       PROVE  RungFor(v, k)'
  <2>1. Rings(s, d)
    BY <1>0, <1>11, NotifyFacts
  <2>2. /\ UNCHANGED <<viewing, faults, peak>> /\ s \in Runs /\ sweep[s] \in RunSet
        /\ d.id \in Ids /\ sweep[s].kind \in Kinds /\ sweep[s].cur = {}
        /\ sweep' = [sweep EXCEPT ![s] = TookUp(s, d)]
    BY <1>0, <2>1 DEF Rings, InFlight
  <2>3. /\ sweep'[s].kind = sweep[s].kind /\ sweep'[s].todo = sweep[s].todo \ {d}
        /\ sweep'[s].cur = {d} /\ sweep'[s] # Asleep
        /\ \A q \in Runs \ {s} : sweep'[q] = sweep[q]
    BY <1>0, <2>2 DEF Asleep, Kinds
  <2>4. Ready(v, k)' \subseteq Ready(v, k) /\ Pending(v, k) \subseteq Pending(v, k)'
    BY <2>2, <2>3 DEF Ready, Pending, InFlight
  <2>5. CASE ~(v = d.id /\ k = sweep[s].kind /\ d.row.seq = viewing[d.id].seq)
    <3>1. rung'[v][k] = rung[v][k]
      <4>1. CASE rung' = rung
        BY <4>1
      <4>2. CASE /\ d.row.seq = viewing[d.id].seq
                 /\ rung' = [rung EXCEPT ![d.id] = [rung[d.id] EXCEPT ![sweep[s].kind] =
                                                       rung[d.id][sweep[s].kind] + 1]]
        <5>1. rung[d.id] \in [Kinds -> Nat]
          BY <1>0, <2>2
        <5> QED BY <1>0, <2>2, <2>5, <4>2, <5>1
      <4> QED BY <2>1, <4>1, <4>2 DEF Rings
    <3> QED BY <1>0, <2>2, <2>4, <3>1, RungStays
  <2>6. CASE v = d.id /\ k = sweep[s].kind /\ d.row.seq = viewing[d.id].seq
    <3>1. rung'[v][k] = rung[v][k] + 1
      <4>1. rung' = [rung EXCEPT ![d.id] = [rung[d.id] EXCEPT ![sweep[s].kind] =
                                               rung[d.id][sweep[s].kind] + 1]]
        BY <2>1, <2>6 DEF Rings
      <4>2. rung[d.id] \in [Kinds -> Nat]
        BY <1>0, <2>2
      <4> QED BY <1>0, <2>2, <2>6, <4>1, <4>2
    <3>2. s \in Ready(v, k) /\ s \notin Ready(v, k)'
      <4>1. s \in Ready(v, k)
        BY <1>11, <2>6 DEF Ready
      <4>2. \A e \in sweep[s].todo \ {d} : e.id # v
        BY <1>0, <1>11, <2>2, <2>6 DEF ListsOnce, Listed, InFlight
      <4> QED BY <2>3, <4>1, <4>2 DEF Ready
    <3>3. s \notin Pending(v, k) /\ s \in Pending(v, k)'
      BY <2>2, <2>3, <2>6 DEF Pending, InFlight
    <3>4. Cardinality(Ready(v, k)') + 1 <= Cardinality(Ready(v, k))
      <4>1. Ready(v, k)' \subseteq Ready(v, k) \ {s}
        BY <2>4, <3>2
      <4>2. IsFiniteSet(Ready(v, k) \ {s})
            /\ Cardinality(Ready(v, k) \ {s}) = Cardinality(Ready(v, k)) - 1
        BY <3>2, CountTypes, FS_RemoveElement
      <4>3. Cardinality(Ready(v, k)') <= Cardinality(Ready(v, k) \ {s})
        BY <4>1, <4>2, FS_Subset
      <4> QED BY <4>2, <4>3, CountTypes
    <3>5. Cardinality(Pending(v, k)) + 1 <= Cardinality(Pending(v, k)')
      <4>1. Pending(v, k) \cup {s} \subseteq Pending(v, k)'
        BY <2>4, <3>3
      <4>2. Cardinality(Pending(v, k) \cup {s}) = Cardinality(Pending(v, k)) + 1
        BY <3>3, CountTypes, FS_AddElement
      <4>3. Cardinality(Pending(v, k) \cup {s}) <= Cardinality(Pending(v, k)')
        BY <4>1, CountTypes, FS_Subset
      <4> QED BY <4>2, <4>3
    <3>6. peak * faults \in Nat
      BY <1>0, Products
    <3>7. viewing[v] # Absent
      BY <1>0, <1>11, <2>2, <2>6, <1>a DEF Honest, Truthful, Listed, InFlight
    <3>8. CASE k \in viewing[v].sent
      <4>1. rung[v][k] + Cardinality(Ready(v, k)) <= peak * faults + peak
        BY <1>0, <3>7, <3>8 DEF RungFor
      <4>2. rung'[v][k] + Cardinality(Ready(v, k)') <= peak' * faults' + peak'
        BY <1>0, <2>2, <3>1, <3>4, <3>6, <4>1, CountTypes
      <4> QED BY <2>2, <3>7, <3>8, <4>2 DEF RungFor
    <3>9. CASE k \notin viewing[v].sent
      <4>1. rung[v][k] <= peak * faults + Cardinality(Pending(v, k))
        BY <1>0, <3>7, <3>9 DEF RungFor
      <4>2. rung'[v][k] <= peak' * faults' + Cardinality(Pending(v, k)')
        BY <1>0, <2>2, <3>1, <3>5, <3>6, <4>1, CountTypes
      <4> QED BY <2>2, <3>7, <3>9, <4>2 DEF RungFor
    <3> QED BY <3>8, <3>9
  <2> QED BY <2>5, <2>6
<1>12. CASE Clock \/ Publish \/ UNCHANGED allVars
  BY <1>12, <1>b, <1>0 DEF Clock, Publish, Tick, SetAvailability, allVars, vars, noticeVars,
                           mailVars, sweepVars
<1>13. ASSUME NEW h \in Handlers,
              \/ Quiet(h)
              \/ Drop(h)
              \/ \E a \in Seekers \cup {Conductor, Owner}, w \in Ids : Ask(h, a, w)
       PROVE  RungFor(v, k)'
  BY <1>13, <1>1, <1>2, AskSteps
<1> QED BY <1>3, <1>4, <1>5, <1>7, <1>8, <1>9, <1>10, <1>11, <1>12, <1>13 DEF NoticesNext

\* However runs overlap, crash, fail or list what moves under them, no slot of a viewing rings
\* more often than there were runs in flight at once, times one and the faults.
THEOREM RingsBounded == NoticesSpec => []RingsAreBounded
<1>1. NoticesInit => Bounded
  <2> SUFFICES ASSUME NoticesInit PROVE Bounded
    OBVIOUS
  <2>1. \A s \in Runs : ListsOnce(s)
    BY DEF NoticesInit, ListsOnce, Listed, InFlight
  <2>2. \A v \in Ids, k \in Kinds : RungFor(v, k)
    BY DEF NoticesInit, Init, RungFor, Row, Absent, Status, ActiveStatus
  <2> QED BY <2>1, <2>2 DEF Bounded
<1>2. NoticesInv /\ NoticesInv' /\ Bounded /\ [NoticesNext]_allVars => Bounded'
  BY ListsOnceStep, RungForStep DEF Bounded
<1>3. NoticesInv /\ Bounded => RingsAreBounded
  <2> SUFFICES ASSUME NoticesInv, Bounded, NEW v \in Ids, NEW k \in Kinds
               PROVE  rung[v][k] <= peak * (1 + faults)
    BY DEF RingsAreBounded
  <2>1. /\ peak \in Nat /\ faults \in Nat /\ rung[v][k] \in Nat
        /\ IsFiniteSet(InFlight) /\ Cardinality(InFlight) <= peak
        /\ viewing[v] \in Row \cup {Absent}
    BY ReminderAssumption DEF NoticesInv, NoticesTypeOK, Flights, Inv, TypeOK
  <2>2. /\ Cardinality(Pending(v, k)) \in Nat /\ Cardinality(Pending(v, k)) <= peak
        /\ Cardinality(Ready(v, k)) \in Nat
    <3>1. Pending(v, k) \in SUBSET InFlight /\ Ready(v, k) \in SUBSET InFlight
      BY DEF Pending, Ready
    <3> QED BY <2>1, <3>1, CountFacts
  <2>3. peak * faults \in Nat /\ peak * (1 + faults) = peak * faults + peak
    BY <2>1, Products
  <2>4. RungFor(v, k)
    BY DEF Bounded
  <2>5. CASE viewing[v] = Absent
    BY <2>1, <2>3, <2>4, <2>5 DEF RungFor
  <2>6. CASE viewing[v] \in Row
    BY <2>1, <2>2, <2>3, <2>4, <2>6 DEF RungFor
  <2> QED BY <2>1, <2>5, <2>6
<1>4. NoticesInv /\ [NoticesNext]_allVars => NoticesInv'
  BY NoticesNextInv
<1> QED BY <1>1, <1>2, <1>3, <1>4, NoticesHold, PTL DEF NoticesSpec

-----------------------------------------------------------------------------
\* Invitations follow the row

\* A handler stays fresh while nothing but marks happens to its row.
LEMMA FreshStays ==
    ASSUME NEW g, Fresh(g), req'[g] = req[g],
           \A v \in req[g].on : /\ viewing'[v].status = viewing[v].status
                                /\ viewing'[v].seq = viewing[v].seq
    PROVE  Fresh(g)'
BY DEF Fresh, Active

\* Nobody but stale handlers is left in flight after a write that is not stale itself.
LEMMA CommitLeavesStale ==
    ASSUME Inv, NEW h \in Handlers, NEW v, NEW row, Commit(h, v, row), ~tainted',
           NEW g \in Handlers, req'[g] # Idle
    PROVE  g \in stale'
BY DEF Commit, Inv, TypeOK

LEMMA CommitFresh ==
    ASSUME OnItsWay, NEW h \in Handlers, NEW v, NEW row, Commit(h, v, row), ~tainted',
           req[h] # Idle
    PROVE  ~tainted /\ Fresh(h)
BY DEF Commit, OnItsWay

LEMMA LearnsFresh ==
    ASSUME Inv, OnItsWay, ~tainted, NEW h \in Handlers, NEW r, Learns(h, r),
           UNCHANGED <<viewing, stale>>, NEW g \in Handlers, req'[g] # Idle, g \notin stale'
    PROVE  Fresh(g)'
<1>1. req' = [req EXCEPT ![h] = r] /\ req \in [Handlers -> Requests \cup {Idle}]
  BY DEF Learns, Inv, TypeOK
<1>2. CASE g # h
  <2>1. req'[g] = req[g]
    BY <1>1, <1>2
  <2> QED BY <2>1, FreshStays DEF OnItsWay
<1>3. CASE g = h
  <2>1. req'[g] = r
    BY <1>1, <1>3
  <2>2. CASE r.op = req[h].op /\ r.on = req[h].on /\ r.seen = req[h].seen /\ req[h] # Idle
    <3>1. Fresh(h)
      BY <1>3, <2>2 DEF OnItsWay
    <3> QED BY <1>3, <2>1, <2>2, <3>1 DEF Fresh, Active
  <2>3. CASE r.op = "BOOK"
    BY <2>1, <2>3 DEF Fresh, Events
  <2>4. CASE \E v \in Ids : r.op = "RESCHEDULE" /\ r.on = {v} /\ Active(v)
    BY <2>1, <2>4 DEF Fresh, Events, Active
  <2>5. CASE \E v \in Ids : r.on = {v} /\ r.seen = viewing[v] /\ viewing[v] \in Row
                              /\ r.op \in Events
    BY <2>1, <2>5 DEF Fresh, Events
  <2> QED BY <2>2, <2>3, <2>4, <2>5 DEF Learns
<1> QED BY <1>2, <1>3

\* Whoever is not stale after a step decides on the present.
LEMMA FreshStep ==
    ASSUME NoticesInv, OnItsWay, [NoticesNext]_allVars, ~tainted'
    PROVE  ~tainted /\ \A g \in Handlers : req'[g] # Idle /\ g \notin stale' => Fresh(g)'
<1>0. Inv
  BY DEF NoticesInv
<1>1. ASSUME NEW h \in Handlers, NEW v \in Ids,
             \/ Books(h, v)
             \/ Move(h, v)
             \/ \E e \in Events : Apply(h, v, e)
      PROVE  ~tainted /\ \A g \in Handlers : req'[g] # Idle /\ g \notin stale' => Fresh(g)'
  <2>1. PICK row \in Row : Commit(h, v, row)
    BY <1>0, <1>1, BookFacts, MoveFacts, EventFacts DEF Books, Move, Apply
  <2>2. ~tainted
    BY <2>1 DEF Commit
  <2> QED BY <1>0, <2>1, <2>2, CommitLeavesStale
<1>2. ASSUME UNCHANGED <<req, stale, tainted>>,
             \A v \in Ids : /\ viewing'[v].status = viewing[v].status
                            /\ viewing'[v].seq = viewing[v].seq
      PROVE  ~tainted /\ \A g \in Handlers : req'[g] # Idle /\ g \notin stale' => Fresh(g)'
  <2> SUFFICES ASSUME NEW g \in Handlers, req[g] # Idle, g \notin stale
               PROVE  Fresh(g)'
    BY <1>2
  <2>1. Fresh(g)
    BY <1>2 DEF OnItsWay
  <2>2. req[g].on \subseteq Ids
    <3>1. req[g] \in Requests
      BY <1>0 DEF Inv, TypeOK
    <3>2. req[g].on \in {{}} \cup {{v} : v \in Ids}
      BY <3>1 DEF Requests
    <3> QED BY <3>2
  <2> QED BY <1>2, <2>1, <2>2, FreshStays
<1>3. ASSUME NEW h \in Handlers, Asks(h)
      PROVE  ~tainted /\ \A g \in Handlers : req'[g] # Idle /\ g \notin stale' => Fresh(g)'
  <2>1. CASE UNCHANGED <<stale, tainted>> /\ \E r : Learns(h, r)
    <3>1. UNCHANGED viewing
      BY <1>3 DEF Asks
    <3> QED BY <1>0, <2>1, <3>1, LearnsFresh
  <2>2. CASE Refuse(h)
    <3>1. /\ UNCHANGED <<viewing, tainted>>
          /\ req' = [req EXCEPT ![h] = Idle]
          /\ stale' = stale \ {h}
      BY <2>2 DEF Refuse
    <3> SUFFICES ASSUME NEW g \in Handlers, req'[g] # Idle, g \notin stale'
                 PROVE  Fresh(g)'
      BY <3>1
    <3>2. g # h /\ req'[g] = req[g] /\ g \notin stale
      BY <1>0, <3>1 DEF Inv, TypeOK
    <3> QED BY <3>1, <3>2, FreshStays DEF OnItsWay
  <2> QED BY <1>3, <2>1, <2>2 DEF Asks
<1>4. ASSUME NEW s \in InFlight, NEW d \in sweep[s].cur, SweepMark(s, d)
      PROVE  ~tainted /\ \A g \in Handlers : req'[g] # Idle /\ g \notin stale' => Fresh(g)'
  <2>1. d.id \in Ids /\ viewing[d.id] \in Row /\ sweep[s].kind \in Kinds
    BY <1>4, MarkSteps
  <2>2. PICK row \in Row : /\ viewing' = [viewing EXCEPT ![d.id] = row]
                           /\ row.status = viewing[d.id].status
                           /\ row.seq = viewing[d.id].seq
    BY <1>0, <1>4, <2>1, MarkFacts
  <2>3. UNCHANGED <<req, stale, tainted>>
    BY <1>4 DEF SweepMark, history
  <2> QED BY <1>0, <1>2, <2>1, <2>2, <2>3 DEF Inv, TypeOK
<1>5. CASE Crash
  BY <1>5 DEF Crash
<1>6. CASE UNCHANGED <<viewing, req, stale, tainted>>
  BY <1>2, <1>6
<1>7. ASSUME NEW l \in outbox, Deliver(l) PROVE UNCHANGED <<viewing, req, stale, tainted>>
  BY <1>7 DEF Deliver, vars
<1>8. ASSUME \/ SweepListFails
             \/ \E t \in Schedulers, s \in Runs : SweepStart(t, s)
             \/ \E s \in Runs : SweepTurn(s) \/ \E d \in sweep[s].cur : SweepMarkFails(s, d)
             \/ \E s \in Runs : \E d \in sweep[s].todo, delivered \in BOOLEAN :
                   SweepNotify(s, d, delivered)
      PROVE  UNCHANGED <<viewing, req, stale, tainted>>
  BY <1>8 DEF SweepStart, SweepTurn, SweepListFails, SweepMarkFails, SweepNotify, vars
<1>9. CASE Clock \/ Publish \/ UNCHANGED allVars
  BY <1>6, <1>9 DEF Clock, Publish, Tick, SetAvailability, allVars, vars, history
<1>10. ASSUME NEW h \in Handlers,
              \/ Quiet(h)
              \/ Drop(h)
              \/ \E a \in Seekers \cup {Conductor, Owner}, v \in Ids : Ask(h, a, v)
       PROVE  ~tainted /\ \A g \in Handlers : req'[g] # Idle /\ g \notin stale' => Fresh(g)'
  BY <1>10, <1>1, <1>3, AskSteps
<1> QED BY <1>1, <1>4, <1>5, <1>6, <1>7, <1>8, <1>9, <1>10 DEF NoticesNext, InFlight

\* A mail that says what the row says is the invitation to it.
LEMMA MailSays ==
    ASSUME NEW m \in MailSet, NEW row, m.seq = row.seq, m.start = row.start, m.live = TRUE
    PROVE  m = Mail(row, TRUE)
BY DEF MailSet, Mail

\* Nothing happens to what the seeker is told of a viewing whose row and mails stay.
LEMMA TellingStays ==
    ASSUME NEW v, Live(v), calendar'[v] = calendar[v],
           \A l \in outbox' : l.id = v => l \in outbox,
           viewing'[v].status = viewing[v].status
    PROVE  Live(v)'
BY DEF Live, Active

LEMMA ToldStays ==
    ASSUME NEW v, Told(v), calendar'[v] = calendar[v],
           outbox \subseteq outbox',
           viewing'[v].status = viewing[v].status,
           viewing'[v].seq = viewing[v].seq,
           viewing'[v].start = viewing[v].start
    PROVE  Told(v)'
<1>1. Mail(viewing'[v], TRUE) = Mail(viewing[v], TRUE)
  BY DEF Mail
<1>2. Letter(v, viewing'[v], TRUE) = Letter(v, viewing[v], TRUE)
  BY <1>1 DEF Letter
<1> QED BY <1>1, <1>2 DEF Told

\* Filing a truthful live mail leaves the seeker with a live entry, and with the right one
\* if he had it.
LEMMA FilingTells ==
    ASSUME NoticesInv, NEW v \in Ids, NEW m \in MailSet, Truthful(v, m), Active(v) => m.live,
           calendar' = Filed(v, m), UNCHANGED viewing, outbox' \subseteq outbox,
           NEW w \in Ids, Live(w)
    PROVE  /\ Live(w)'
           /\ viewing[w].status = "CONFIRMED" /\ calendar[w] = Mail(viewing[w], TRUE)
                => calendar'[w] = Mail(viewing[w], TRUE)
<1>1. NoticesTypeOK
  BY DEF NoticesInv
<1>2. CASE w # v
  <2>1. calendar'[w] = calendar[w]
    BY <1>1, <1>2, FiledFacts
  <2> QED BY <2>1, TellingStays
<1>3. CASE w = v
  <2>1. calendar'[v] = IF m.seq >= calendar[v].seq THEN m ELSE calendar[v]
    BY <1>1, FiledFacts
  <2>2. Live(w)'
    BY <1>3, <2>1 DEF Live, Active
  <2>3. ASSUME viewing[w].status = "CONFIRMED", calendar[w] = Mail(viewing[w], TRUE),
               m.seq >= calendar[v].seq
        PROVE  m = Mail(viewing[w], TRUE)
    <3>1. viewing[v] \in Row /\ m.seq \in Nat /\ viewing[v].seq \in Nat
      BY DEF Truthful, Row, MailSet
    <3>2. calendar[v].seq = viewing[v].seq
      BY <1>3, <2>3, <3>1, MailFacts
    <3>3. m.seq = viewing[v].seq /\ m.start = viewing[v].start
      BY <2>3, <3>1, <3>2 DEF Truthful
    <3>4. m.live = TRUE
      BY <1>3, <2>3 DEF Active, ActiveStatus, MailSet
    <3> QED BY <1>3, <3>3, <3>4, MailSays
  <2> QED BY <1>3, <2>1, <2>2, <2>3
<1> QED BY <1>2, <1>3

\* What a handler that is not stale writes and mails agree.
LEMMA EventTells ==
    ASSUME NoticesInv, OnItsWay, NEW h \in Handlers, NEW w \in Ids, NEW e \in Events,
           Apply(h, w, e), ~tainted'
    PROVE  Live(w)' /\ (faults = 0 => Told(w)')
<1>0. Inv /\ NoticesTypeOK /\ Honest
  BY DEF NoticesInv
<1>1. PICK row \in Row : /\ Commit(h, w, row)
                         /\ row.status = nextViewingStatus(req[h].seen.status, e)
                         /\ row.start = viewing[w].start
                         /\ row.seq = viewing[w].seq
  BY <1>0, EventFacts DEF Apply
<1>2. viewing[w] \in Row
  BY <1>0, EventFacts DEF Apply
<1>3. viewing'[w] = row
  BY <1>0, <1>1 DEF Commit, Inv, TypeOK
<1>4. req[h].op = e /\ req[h].on = {w} /\ req[h] # Idle
  BY DEF Apply, CommitEvent, Idle, Events
<1>5. ~tainted /\ Fresh(h)
  BY <1>1, <1>4, CommitFresh
<1>6. req[h].seen.status = viewing[w].status /\ req[h].seen.seq = viewing[w].seq
  BY <1>4, <1>5 DEF Fresh
<1>7. req[h].seen \in Row /\ req[h].seen.start = viewing[w].start
  BY <1>0, <1>4, <1>6 DEF Honest, Truthful
<1>8. UNCHANGED calendar
  BY DEF Apply
<1>9. CASE e = "CONFIRM"
  <2>1. row.status = "CONFIRMED" /\ Active(w)
    <3>1. nextViewingStatus(req[h].seen.status, e) # "NONE"
      BY <1>0, <1>4 DEF Inv, DecidedOnLegal
    <3> QED BY <1>1, <1>6, <1>9, <3>1 DEF nextViewingStatus, Active, ActiveStatus
  <2>2. Mail(req[h].seen, TRUE) = Mail(row, TRUE)
    BY <1>1, <1>6, <1>7 DEF Mail
  <2>3. Letter(w, req[h].seen, TRUE) = Letter(w, row, TRUE)
    BY <2>2 DEF Letter
  <2>4. outbox' = outbox \cup {Letter(w, row, TRUE)}
    BY <1>9, <2>3 DEF Apply
  <2>5. Told(w)'
    BY <1>3, <2>4 DEF Told
  <2>6. Live(w)'
    <3>1. Live(w)
      BY <1>5 DEF OnItsWay
    <3>2. Letter(w, row, TRUE).mail.live = TRUE
      BY DEF Letter, Mail
    <3> QED BY <1>8, <2>1, <2>4, <3>1, <3>2 DEF Live
  <2> QED BY <2>5, <2>6
<1>10. CASE e # "CONFIRM"
  <2>1. row.status \notin ActiveStatus
    <3>1. nextViewingStatus(req[h].seen.status, e) # "NONE"
      BY <1>0, <1>4 DEF Inv, DecidedOnLegal
    <3> QED BY <1>1, <1>10, <3>1 DEF nextViewingStatus, ActiveStatus, Events
  <2> QED BY <1>3, <2>1 DEF Live, Told, Active, ActiveStatus
<1> QED BY <1>9, <1>10

LEMMA OnItsWayStep ==
    ASSUME NoticesInv, OnItsWay, [NoticesNext]_allVars
    PROVE  OnItsWay'
<1>0. Inv /\ NoticesTypeOK /\ Honest
  BY DEF NoticesInv
<1> SUFFICES ASSUME ~tainted'
             PROVE  (\A v \in Ids : Live(v)') /\ (faults' = 0 => \A v \in Ids : Told(v)')
  BY FreshStep DEF OnItsWay
<1>a. ~tainted /\ (\A v \in Ids : Live(v)) /\ (faults = 0 => \A v \in Ids : Told(v))
  BY FreshStep DEF OnItsWay
<1>b. viewing \in [Ids -> Row \cup {Absent}] /\ faults \in Nat
  BY <1>0, ReminderAssumption DEF Inv, TypeOK, NoticesTypeOK
<1>c. ASSUME UNCHANGED calendar, outbox' \subseteq outbox,
             \A v \in Ids : /\ viewing'[v].status = viewing[v].status
                            /\ viewing'[v].seq = viewing[v].seq
                            /\ viewing'[v].start = viewing[v].start,
             faults' = 0 => faults = 0 /\ outbox' = outbox
      PROVE  (\A v \in Ids : Live(v)') /\ (faults' = 0 => \A v \in Ids : Told(v)')
  <2>1. \A v \in Ids : Live(v)'
    BY <1>a, <1>c, TellingStays
  <2>2. ASSUME faults' = 0, NEW v \in Ids PROVE Told(v)'
    BY <1>a, <1>c, <2>2, ToldStays
  <2> QED BY <2>1, <2>2
<1>1. ASSUME NEW h \in Handlers, Asks(h)
      PROVE  (\A v \in Ids : Live(v)') /\ (faults' = 0 => \A v \in Ids : Told(v)')
  BY <1>1, <1>c DEF Asks
<1>2. ASSUME NEW h \in Handlers, NEW w \in Ids, Books(h, w)
      PROVE  (\A v \in Ids : Live(v)') /\ (faults' = 0 => \A v \in Ids : Told(v)')
  <2>1. UNCHANGED <<outbox, calendar, faults>>
    BY <1>2 DEF Books, noticeVars, mailVars
  <2>2. PICK row \in Row : viewing' = [viewing EXCEPT ![w] = row] /\ row.status = "REQUESTED"
    BY <1>0, <1>2, BookFacts DEF Books, Commit
  <2>3. viewing[w] \notin Row
    BY <1>0, <1>2, BookFacts DEF Books, Row, Absent
  <2>4. Live(w)' /\ Told(w)'
    <3>1. calendar[w] = NoEntry /\ \A l \in outbox : l.id # w
      BY <1>0, <2>3 DEF Honest, Truthful
    <3>2. viewing'[w].status = "REQUESTED"
      BY <1>b, <2>2
    <3> QED BY <2>1, <3>1, <3>2 DEF Live, Told
  <2>5. \A v \in Ids \ {w} : viewing'[v] = viewing[v]
    BY <1>b, <2>2
  <2>6. \A v \in Ids \ {w} : Live(v)'
    BY <1>a, <2>1, <2>5, TellingStays
  <2>7. ASSUME faults = 0, NEW v \in Ids \ {w} PROVE Told(v)'
    BY <1>a, <2>1, <2>5, <2>7, ToldStays
  <2> QED BY <2>1, <2>4, <2>6, <2>7
<1>3. ASSUME NEW h \in Handlers, NEW w \in Ids, Move(h, w)
      PROVE  (\A v \in Ids : Live(v)') /\ (faults' = 0 => \A v \in Ids : Told(v)')
  <2>1. PICK row \in Row : Commit(h, w, row) /\ row.status = "REQUESTED"
    BY <1>0, <1>3, MoveFacts DEF Move
  <2>2. viewing' = [viewing EXCEPT ![w] = row] /\ viewing'[w] = row
    BY <1>b, <2>1 DEF Commit
  <2>3. UNCHANGED <<calendar, faults>> /\ outbox \subseteq outbox'
        /\ outbox' \subseteq outbox \cup {Letter(w, row, TRUE)}
    BY <1>3, <2>2 DEF Move, Letter
  <2>4. Letter(w, row, TRUE).id = w /\ Letter(w, row, TRUE).mail.live = TRUE
    BY DEF Letter, Mail
  <2>5. Active(w)
    <3>1. req[h].op = "RESCHEDULE" /\ req[h].on = {w} /\ req[h] # Idle
      BY <1>3 DEF Move, CommitReschedule, Idle
    <3>2. Fresh(h)
      BY <2>1, <3>1, CommitFresh
    <3> QED BY <3>1, <3>2 DEF Fresh
  <2>6. Live(w)' /\ Told(w)'
    BY <1>a, <2>1, <2>2, <2>3, <2>4, <2>5 DEF Live, Told
  <2>7. \A v \in Ids \ {w} : viewing'[v] = viewing[v]
    BY <1>b, <2>2
  <2>8. ASSUME NEW v \in Ids \ {w} PROVE Live(v)'
    <3>1. \A l \in outbox' : l.id = v => l \in outbox
      BY <2>3, <2>4
    <3> QED BY <1>a, <2>3, <2>7, <3>1, TellingStays
  <2>9. ASSUME faults = 0, NEW v \in Ids \ {w} PROVE Told(v)'
    BY <1>a, <2>3, <2>7, <2>9, ToldStays
  <2> QED BY <2>3, <2>6, <2>8, <2>9
<1>4. ASSUME NEW h \in Handlers, NEW w \in Ids, NEW e \in Events, Apply(h, w, e)
      PROVE  (\A v \in Ids : Live(v)') /\ (faults' = 0 => \A v \in Ids : Told(v)')
  <2>1. Live(w)' /\ (faults = 0 => Told(w)')
    BY <1>4, EventTells
  <2>2. UNCHANGED <<calendar, faults>> /\ outbox \subseteq outbox'
        /\ outbox' \subseteq outbox \cup {Letter(w, req[h].seen, e = "CONFIRM")}
    BY <1>4 DEF Apply
  <2>3. Letter(w, req[h].seen, e = "CONFIRM").id = w
    BY DEF Letter
  <2>4. PICK row \in Row : viewing' = [viewing EXCEPT ![w] = row]
    BY <1>0, <1>4, EventFacts DEF Apply, Commit
  <2>5. \A v \in Ids \ {w} : viewing'[v] = viewing[v]
    BY <1>b, <2>4
  <2>6. ASSUME NEW v \in Ids \ {w} PROVE Live(v)'
    <3>1. \A l \in outbox' : l.id = v => l \in outbox
      BY <2>2, <2>3
    <3> QED BY <1>a, <2>2, <2>5, <3>1, TellingStays
  <2>7. ASSUME faults = 0, NEW v \in Ids \ {w} PROVE Told(v)'
    BY <1>a, <2>2, <2>5, <2>7, ToldStays
  <2> QED BY <2>1, <2>2, <2>6, <2>7
<1>5. ASSUME NEW l \in outbox, Deliver(l)
      PROVE  (\A v \in Ids : Live(v)') /\ (faults' = 0 => \A v \in Ids : Told(v)')
  <2>1. /\ UNCHANGED <<viewing, faults>> /\ outbox' = outbox \ {l}
        /\ calendar' = Filed(l.id, l.mail)
    BY <1>5 DEF Deliver, vars
  <2>2. l.id \in Ids /\ l.mail \in MailSet /\ Truthful(l.id, l.mail)
    BY <1>0 DEF NoticesTypeOK, Honest
  <2>3. PICK i \in Ids, m \in MailSet : i = l.id /\ m = l.mail
    BY <2>2
  <2>4. Active(i) => m.live
    BY <1>a, <2>3 DEF Live
  <2>5. /\ Truthful(i, m) /\ calendar' = Filed(i, m) /\ outbox' \subseteq outbox
        /\ UNCHANGED viewing
    BY <2>1, <2>2, <2>3
  <2>6. ASSUME NEW w \in Ids
        PROVE  /\ Live(w)'
               /\ viewing[w].status = "CONFIRMED" /\ calendar[w] = Mail(viewing[w], TRUE)
                    => calendar'[w] = Mail(viewing[w], TRUE)
    BY <1>a, <2>4, <2>5, FilingTells
  <2>7. ASSUME faults = 0, NEW w \in Ids, viewing[w].status = "CONFIRMED",
               calendar[w] # Mail(viewing[w], TRUE)
        PROVE  \/ calendar'[w] = Mail(viewing[w], TRUE)
               \/ Letter(w, viewing[w], TRUE) \in outbox'
    <3>1. Letter(w, viewing[w], TRUE) \in outbox
      BY <1>a, <2>7 DEF Told
    <3>2. CASE l = Letter(w, viewing[w], TRUE)
      <4>1. i = w /\ m = Mail(viewing[w], TRUE)
        BY <2>3, <3>2 DEF Letter
      <4>2. m.seq >= calendar[i].seq
        <5>1. m.seq = viewing[i].seq /\ viewing[i].seq \in Nat
          BY <2>5, <4>1, MailFacts DEF Truthful, Row
        <5>2. CASE calendar[i] = NoEntry
          BY <5>1, <5>2 DEF NoEntry
        <5>3. CASE calendar[i] # NoEntry
          <6>1. calendar[i].seq \in Nat /\ calendar[i].seq <= viewing[i].seq
            BY <1>0, <5>3 DEF Honest, Truthful, NoticesTypeOK, MailSet
          <6> QED BY <5>1, <6>1
        <5> QED BY <5>2, <5>3
      <4> QED BY <1>0, <2>5, <4>1, <4>2, FiledFacts
    <3> QED BY <2>1, <3>1, <3>2
  <2> QED BY <2>1, <2>6, <2>7 DEF Told
<1>6. ASSUME NEW s \in InFlight, NEW d \in sweep[s].todo,
             NEW delivered \in BOOLEAN, SweepNotify(s, d, delivered)
      PROVE  (\A v \in Ids : Live(v)') /\ (faults' = 0 => \A v \in Ids : Told(v)')
  <2>1. Rings(s, d)
    BY <1>0, <1>6, NotifyFacts
  <2>2. /\ UNCHANGED <<viewing, outbox, faults>> /\ d.id \in Ids /\ d.row \in Row
        /\ calendar' \in {calendar, Filed(d.id, Mail(d.row, TRUE))}
        /\ d \in Listed(s)
    BY <2>1 DEF Rings
  <2>3. CASE UNCHANGED calendar
    BY <1>c, <2>2, <2>3
  <2>4. CASE calendar' = Filed(d.id, Mail(d.row, TRUE))
    <3>1. PICK i \in Ids, m \in MailSet : i = d.id /\ m = Mail(d.row, TRUE)
      BY <2>2, MailFacts
    <3>2. /\ m \in MailSet /\ m.seq = d.row.seq /\ m.start = d.row.start /\ m.live = TRUE
      BY <2>2, <3>1, MailFacts
    <3>3. Truthful(i, m)
      BY <1>0, <2>2, <3>1, <3>2 DEF Honest, Truthful, InFlight
    <3>4. ASSUME NEW w \in Ids
          PROVE  /\ Live(w)'
                 /\ viewing[w].status = "CONFIRMED" /\ calendar[w] = Mail(viewing[w], TRUE)
                      => calendar'[w] = Mail(viewing[w], TRUE)
      <4>1. calendar' = Filed(i, m) /\ outbox' \subseteq outbox /\ UNCHANGED viewing
        BY <2>2, <2>4, <3>1
      <4> QED BY <1>a, <3>2, <3>3, <4>1, FilingTells
    <3> QED BY <1>a, <2>2, <3>4 DEF Told
  <2> QED BY <2>2, <2>3, <2>4
<1>7. ASSUME NEW s \in InFlight, NEW d \in sweep[s].cur, SweepMark(s, d)
      PROVE  (\A v \in Ids : Live(v)') /\ (faults' = 0 => \A v \in Ids : Told(v)')
  <2>1. d.id \in Ids /\ viewing[d.id] \in Row /\ sweep[s].kind \in Kinds
    BY <1>7, MarkSteps
  <2>2. PICK row \in Row : /\ viewing' = [viewing EXCEPT ![d.id] = row]
                           /\ row.status = viewing[d.id].status
                           /\ row.start = viewing[d.id].start
                           /\ row.seq = viewing[d.id].seq
    BY <1>0, <1>7, <2>1, MarkFacts
  <2>3. UNCHANGED <<outbox, calendar, faults>>
    BY <1>7 DEF SweepMark, mailVars
  <2>4. \A v \in Ids : /\ viewing'[v].status = viewing[v].status
                       /\ viewing'[v].seq = viewing[v].seq
                       /\ viewing'[v].start = viewing[v].start
    BY <1>b, <2>1, <2>2
  <2> QED BY <1>c, <2>3, <2>4
<1>8. CASE Crash
  <2>1. UNCHANGED <<viewing, calendar>> /\ outbox' = {} /\ faults' = faults + 1
    BY <1>8 DEF Crash
  <2> QED BY <1>b, <1>c, <2>1
<1>9. ASSUME \/ SweepListFails
             \/ \E t \in Schedulers, s \in Runs : SweepStart(t, s)
             \/ \E s \in Runs : SweepTurn(s) \/ \E d \in sweep[s].cur : SweepMarkFails(s, d)
      PROVE  (\A v \in Ids : Live(v)') /\ (faults' = 0 => \A v \in Ids : Told(v)')
  <2>1. UNCHANGED <<viewing, calendar, outbox>> /\ (faults' = faults \/ faults' = faults + 1)
    BY <1>9 DEF SweepStart, SweepTurn, SweepListFails, SweepMarkFails, vars, mailVars
  <2> QED BY <1>b, <1>c, <2>1
<1>10. CASE Clock \/ Publish \/ UNCHANGED allVars
  <2>1. UNCHANGED <<viewing, calendar, outbox, faults>>
    BY <1>10 DEF Clock, Publish, Tick, SetAvailability, allVars, vars, noticeVars, mailVars
  <2> QED BY <1>c, <2>1
<1>11. ASSUME NEW h \in Handlers,
              \/ Quiet(h)
              \/ Drop(h)
              \/ \E a \in Seekers \cup {Conductor, Owner}, v \in Ids : Ask(h, a, v)
       PROVE  (\A v \in Ids : Live(v)') /\ (faults' = 0 => \A v \in Ids : Told(v)')
  BY <1>11, <1>1, <1>2, AskSteps
<1> QED BY <1>3, <1>4, <1>5, <1>6, <1>7, <1>8, <1>9, <1>10, <1>11 DEF NoticesNext, InFlight

\* Whatever order mails, reminders and later writes come in, a confirmed viewing all of whose
\* mails have arrived is in the seeker's calendar at the confirmed slot, unless a handler
\* wrote on stale data or the process died.
THEOREM CalendarsAreRight == NoticesSpec => []CalendarShowsConfirmed
<1>1. NoticesInit => OnItsWay
  <2> SUFFICES ASSUME NoticesInit PROVE OnItsWay
    OBVIOUS
  <2>1. \A v \in Ids : viewing[v].status = "ABSENT"
    BY DEF NoticesInit, Init, Absent
  <2>2. \A h \in Handlers : req[h] = Idle
    BY DEF NoticesInit, Init
  <2>3. \A v \in Ids : Live(v) /\ Told(v)
    BY <2>1 DEF Live, Told, Active, ActiveStatus
  <2> QED BY <2>2, <2>3 DEF OnItsWay
<1>2. NoticesInv /\ OnItsWay /\ [NoticesNext]_allVars => OnItsWay'
  BY OnItsWayStep
<1>3. OnItsWay => CalendarShowsConfirmed
  <2> SUFFICES ASSUME OnItsWay, NEW v \in Ids, viewing[v].status = "CONFIRMED", ~tainted,
                      faults = 0, \A l \in outbox : l.id # v
               PROVE  calendar[v] = Mail(viewing[v], TRUE)
    BY DEF CalendarShowsConfirmed
  <2>1. Letter(v, viewing[v], TRUE).id = v
    BY DEF Letter
  <2> QED BY <2>1 DEF OnItsWay, Told
<1> QED BY <1>1, <1>2, <1>3, NoticesHold, PTL DEF NoticesSpec


-----------------------------------------------------------------------------
\* No window goes by between two runs

\* The clock waits for the run that is due.
OnTime == \A t \in Schedulers : lastSweep[t] <= now /\ now <= lastSweep[t] + SweepEvery

\* Whoever is about to mark a reminder for the slot that viewing v has, has rung for it, and
\* a mark stands for a ring unless the viewing moved before it was written.
Earned(v, k) ==
    viewing[v] \in Row =>
        /\ Pending(v, k) # {} => rung[v][k] >= 1
        /\ k \in viewing[v].sent /\ <<v, k>> \notin mismarked => rung[v][k] >= 1

\* The seeker was told, or a run is about to tell him.
Covered(v, k) == rung[v][k] >= 1 \/ Ready(v, k) # {}

\* A run of scheduler t is still at its 24h reminders.
Busy24h(t) == \E s \in InFlight : sweep[s].by = t /\ sweep[s].kind = "24h"

\* The earliest that scheduler t may have listed the reminders of kind k last, unless late.
LastListing(t, k) ==
    IF k = "2h" /\ Busy24h(t) THEN lastSweep[t] - SweepEvery ELSE lastSweep[t]

\* Scheduler t has listed the reminders of kind k since their window for v opened, and v was
\* confirmed before that.
Opened(v, k, t) ==
    /\ viewing[v].status = "CONFIRMED"
    /\ since[v] < viewing[v].start - RemHi[k]
    /\ k = "2h" => ~late
    /\ LastListing(t, k) >= viewing[v].start - RemHi[k]

\* A listing after the window opened has found the viewings confirmed before.
SweptFor(v, k, t) == Opened(v, k, t) /\ <<v, k>> \notin mismarked => Covered(v, k)

Swept == faults = 0 => \A v \in Ids, k \in Kinds, t \in Schedulers : SweptFor(v, k, t)

Prompt == OnTime /\ Swept /\ \A v \in Ids, k \in Kinds : Earned(v, k)

\* The instants and offsets are integers.
LEMMA TimeFacts ==
    ASSUME NoticesInv
    PROVE  /\ now \in Nat
           /\ SweepEvery \in Nat /\ SweepEvery > 0
           /\ \A t \in Schedulers : lastSweep[t] \in Int
           /\ \A v \in Ids : since[v] \in Nat /\ (viewing[v] \in Row => viewing[v].start \in Nat)
           /\ \A k \in Kinds : /\ RemLo[k] \in Nat /\ RemHi[k] \in Nat
                               /\ RemHi[k] - RemLo[k] >= 2 * SweepEvery - 1
<1>1. /\ now \in 0..MaxNow
      /\ lastSweep \in [Schedulers -> (-SweepEvery)..MaxNow]
      /\ since \in [Ids -> 0..MaxNow]
  BY DEF NoticesInv, Inv, TypeOK, NoticesTypeOK
<1>2. MaxNow \in Nat /\ SweepEvery \in Nat /\ SweepEvery > 0 /\ Starts \subseteq Nat
  BY IntervalAssumption, ReminderAssumption
<1>3. \A k \in Kinds : RemLo[k] \in Nat /\ RemHi[k] \in Nat
  BY ReminderAssumption
<1>4. \A v \in Ids : viewing[v] \in Row => viewing[v].start \in Nat
  BY <1>2 DEF Row
<1> QED BY <1>1, <1>2, <1>3, <1>4, WindowAssumption

LEMMA OnTimeStep ==
    ASSUME NoticesInv, OnTime, [NoticesNext]_allVars
    PROVE  OnTime'
<1>0. NoticesTypeOK /\ lastSweep \in [Schedulers -> (-SweepEvery)..MaxNow]
  BY DEF NoticesInv, NoticesTypeOK
<1>1. ASSUME UNCHANGED <<now, lastSweep>> PROVE OnTime'
  BY <1>1 DEF OnTime
<1>2. ASSUME NEW s \in Schedulers, UNCHANGED now, lastSweep' = [lastSweep EXCEPT ![s] = now]
      PROVE  OnTime'
  <2> SUFFICES ASSUME NEW t \in Schedulers
               PROVE  lastSweep'[t] <= now' /\ now' <= lastSweep'[t] + SweepEvery
    BY DEF OnTime
  <2>1. CASE t = s
    BY <1>0, <1>2, <2>1, TimeFacts
  <2>2. CASE t # s
    BY <1>0, <1>2, <2>2 DEF OnTime
  <2> QED BY <2>1, <2>2
<1>3. ASSUME NEW h \in Handlers,
             \/ Quiet(h)
             \/ Drop(h)
             \/ \E a \in Seekers \cup {Conductor, Owner}, v \in Ids : Ask(h, a, v)
      PROVE  OnTime'
  <2>1. CASE Asks(h)
    BY <1>1, <2>1 DEF Asks
  <2>2. ASSUME NEW v \in Ids, Books(h, v) PROVE UNCHANGED <<now, lastSweep>>
    <3>1. \E row \in Row : Commit(h, v, row)
      BY <2>2, BookFacts DEF Books, NoticesInv
    <3> QED BY <2>2, <3>1 DEF Commit, Books, noticeVars, sweepVars
  <2> QED BY <1>1, <1>3, <2>1, <2>2, AskSteps
<1>4. ASSUME NEW h \in Handlers, NEW v \in Ids, Move(h, v) \/ \E e \in Events : Apply(h, v, e)
      PROVE  UNCHANGED <<now, lastSweep>>
  <2>1. \E row \in Row : Commit(h, v, row)
    BY <1>4, MoveFacts, EventFacts DEF Move, Apply, NoticesInv
  <2> QED BY <1>4, <2>1 DEF Commit, Move, Apply, sweepVars
<1>5. ASSUME NEW l \in outbox, Deliver(l) PROVE UNCHANGED <<now, lastSweep>>
  BY <1>5 DEF Deliver, vars, sweepVars
<1>6. ASSUME SweepListFails \/ \E c \in Schedulers, s \in Runs : SweepStart(c, s)
      PROVE  OnTime'
  <2>1. UNCHANGED now
        /\ \/ lastSweep' = lastSweep
           \/ \E c \in Schedulers : lastSweep' = [lastSweep EXCEPT ![c] = now]
    BY <1>6 DEF SweepStart, SweepListFails, vars
  <2> QED BY <1>1, <1>2, <2>1
<1>7. ASSUME NEW s \in Runs,
             \/ SweepTurn(s)
             \/ \E d \in sweep[s].cur : SweepMark(s, d) \/ SweepMarkFails(s, d)
             \/ \E d \in sweep[s].todo, delivered \in BOOLEAN : SweepNotify(s, d, delivered)
      PROVE  UNCHANGED <<now, lastSweep>>
  BY <1>7 DEF SweepTurn, SweepMark, SweepMarkFails, SweepNotify, vars
<1>8. CASE Crash
  <2>1. UNCHANGED now /\ lastSweep' = [c \in Schedulers |-> now - SweepEvery]
    BY <1>8 DEF Crash
  <2> QED BY <2>1, TimeFacts DEF OnTime
<1>9. CASE Clock
  <2>1. /\ \A c \in Schedulers : now < lastSweep[c] + SweepEvery
        /\ now' = now + 1 /\ UNCHANGED lastSweep
    BY <1>9 DEF Clock, Tick, noticeVars, sweepVars
  <2> SUFFICES ASSUME NEW s \in Schedulers
               PROVE  lastSweep'[s] <= now' /\ now' <= lastSweep'[s] + SweepEvery
    BY DEF OnTime
  <2>2. lastSweep[s] <= now /\ now < lastSweep[s] + SweepEvery
    BY <2>1 DEF OnTime
  <2> QED BY <2>1, <2>2, TimeFacts
<1>10. CASE Publish \/ UNCHANGED allVars
  BY <1>1, <1>10 DEF Publish, SetAvailability, allVars, vars, noticeVars, sweepVars
<1> QED BY <1>1, <1>3, <1>4, <1>5, <1>6, <1>7, <1>8, <1>9, <1>10 DEF NoticesNext, InFlight


\* What stays as it is stays earned: nobody new rings, is marked or loses his excuse.
LEMMA EarnedStays ==
    ASSUME NEW v, NEW k, Earned(v, k), rung'[v][k] = rung[v][k],
           viewing'[v] \in Row =>
              /\ viewing[v] \in Row
              /\ viewing'[v].sent = viewing[v].sent
              /\ Pending(v, k)' \subseteq Pending(v, k),
           <<v, k>> \in mismarked => <<v, k>> \in mismarked'
    PROVE  Earned(v, k)'
BY DEF Earned

LEMMA EarnedStep ==
    ASSUME NoticesInv, \A w \in Ids, j \in Kinds : Earned(w, j), [NoticesNext]_allVars,
           NEW v \in Ids, NEW k \in Kinds
    PROVE  Earned(v, k)'
<1>0. /\ Inv /\ NoticesTypeOK /\ Honest /\ Earned(v, k)
      /\ viewing \in [Ids -> Row \cup {Absent}]
      /\ rung \in [Ids -> [Kinds -> Nat]]
      /\ sweep \in [Runs -> {Asleep} \cup RunSet]
  BY DEF NoticesInv, Inv, TypeOK, NoticesTypeOK
<1>a. Absent \notin Row
  BY DEF Row, Status, Absent, ActiveStatus
<1>b. ASSUME UNCHANGED <<viewing, rung, mismarked>>,
             \A s \in InFlight' : \/ sweep'[s] = sweep[s]
                                  \/ sweep'[s].cur = {}
      PROVE  Earned(v, k)'
  <2>1. Pending(v, k)' \subseteq Pending(v, k)
    BY <1>b DEF Pending, InFlight
  <2> QED BY <1>0, <1>b, <2>1, EarnedStays
<1>1. ASSUME NEW h \in Handlers, Asks(h) PROVE Earned(v, k)'
  BY <1>1, <1>b DEF Asks
<1>2. ASSUME NEW h \in Handlers, NEW w \in Ids, Books(h, w) PROVE Earned(v, k)'
  <2>1. UNCHANGED <<sweep, rung, mismarked>>
    BY <1>2 DEF Books, noticeVars, sweepVars
  <2>2. PICK row \in Row : viewing' = [viewing EXCEPT ![w] = row] /\ row.sent = {}
    BY <1>0, <1>2, BookFacts DEF Books, Commit
  <2>3. CASE v = w
    <3>1. viewing[v] \notin Row
      BY <1>a, <1>0, <1>2, <2>3, BookFacts DEF Books
    <3>2. Pending(v, k)' = {}
      BY <1>0, <2>1, <3>1 DEF Pending, InFlight, Honest, Truthful, Listed
    <3>3. viewing'[v].sent = {}
      BY <1>0, <2>2, <2>3
    <3> QED BY <3>2, <3>3 DEF Earned
  <2>4. CASE v # w
    <3>1. viewing'[v] = viewing[v]
      BY <1>0, <2>2, <2>4
    <3>2. Pending(v, k)' = Pending(v, k)
      BY <2>1, <3>1 DEF Pending, InFlight
    <3> QED BY <1>0, <2>1, <3>1, <3>2, EarnedStays
  <2> QED BY <2>3, <2>4
<1>3. ASSUME NEW h \in Handlers, NEW w \in Ids, Move(h, w) PROVE Earned(v, k)'
  <2>1. /\ UNCHANGED sweep /\ rung' = [rung EXCEPT ![w] = [j \in Kinds |-> 0]]
        /\ mismarked' = mismarked \ ({w} \X Kinds)
    BY <1>3 DEF Move, sweepVars
  <2>2. PICK row \in Row : /\ viewing' = [viewing EXCEPT ![w] = row] /\ row.sent = {}
                           /\ row.seq = viewing[w].seq + 1
    BY <1>0, <1>3, MoveFacts DEF Move, Commit
  <2>3. CASE v = w
    <3>1. viewing[v] \in Row /\ viewing[v].seq \in Nat /\ viewing'[v] = row
      BY <1>0, <1>3, <2>2, <2>3, MoveFacts DEF Move, Row
    <3>2. \A s \in InFlight : \A d \in sweep[s].cur :
             d.id = v => d.row.seq \in Nat /\ d.row.seq <= viewing[v].seq
      <4>1. ASSUME NEW s \in InFlight, NEW d \in sweep[s].cur, d.id = v
            PROVE  d.row.seq \in Nat /\ d.row.seq <= viewing[v].seq
        <5>1. d \in Listed(s) /\ d \in DueSet /\ s \in Runs
          BY <1>0, <4>1, MarkSteps DEF InFlight
        <5>2. Truthful(d.id, d.row)
          BY <1>0, <5>1 DEF Honest
        <5>3. d.row.seq \in Nat
          BY <5>1 DEF DueSet, Row
        <5> QED BY <4>1, <5>2, <5>3 DEF Truthful
      <4> QED BY <4>1
    <3>3. Pending(v, k)' = {}
      <4> SUFFICES ASSUME NEW s \in Pending(v, k)' PROVE FALSE
        OBVIOUS
      <4>1. s \in InFlight /\ \E d \in sweep[s].cur : d.id = v /\ d.row.seq = viewing'[v].seq
        BY <2>1 DEF Pending, InFlight
      <4> QED BY <2>2, <2>3, <3>1, <3>2, <4>1
    <3> QED BY <2>2, <3>1, <3>3 DEF Earned
  <2>4. CASE v # w
    <3>1. /\ viewing'[v] = viewing[v] /\ rung'[v] = rung[v]
          /\ <<v, k>> \in mismarked => <<v, k>> \in mismarked'
      BY <1>0, <2>1, <2>2, <2>4
    <3>2. Pending(v, k)' = Pending(v, k)
      BY <2>1, <3>1 DEF Pending, InFlight
    <3> QED BY <1>0, <3>1, <3>2, EarnedStays
  <2> QED BY <2>3, <2>4
<1>4. ASSUME NEW h \in Handlers, NEW w \in Ids, NEW e \in Events, Apply(h, w, e)
      PROVE  Earned(v, k)'
  <2>1. UNCHANGED <<sweep, rung, mismarked>>
    BY <1>4 DEF Apply, sweepVars
  <2>2. PICK row \in Row : /\ viewing' = [viewing EXCEPT ![w] = row]
                           /\ row.seq = viewing[w].seq
                           /\ row.sent = viewing[w].sent
    BY <1>0, <1>4, EventFacts DEF Apply, Commit
  <2>3. viewing[w] \in Row
    BY <1>0, <1>4, EventFacts DEF Apply
  <2>4. /\ viewing'[v] \in Row <=> viewing[v] \in Row
        /\ viewing'[v].seq = viewing[v].seq /\ viewing'[v].sent = viewing[v].sent
    BY <1>0, <2>2, <2>3
  <2>5. Pending(v, k)' = Pending(v, k)
    BY <2>1, <2>4 DEF Pending, InFlight
  <2> QED BY <1>0, <2>1, <2>4, <2>5, EarnedStays
<1>5. ASSUME NEW l \in outbox, Deliver(l) PROVE Earned(v, k)'
  BY <1>5, <1>b DEF Deliver, vars, sweepVars
<1>6. ASSUME NEW c \in Schedulers, NEW s \in Runs, SweepStart(c, s) PROVE Earned(v, k)'
  <2>1. /\ UNCHANGED <<viewing, rung, mismarked>>
        /\ sweep' = [sweep EXCEPT ![s] = Sweep(c, "24h")] /\ Sweep(c, "24h").cur = {}
    BY <1>6, ListingFacts DEF SweepStart, vars, Kinds
  <2>2. \A q \in Runs : sweep'[q] = sweep[q] \/ sweep'[q].cur = {}
    BY <1>0, <2>1
  <2> QED BY <1>b, <2>1, <2>2 DEF InFlight
<1>7. ASSUME NEW s \in InFlight, SweepTurn(s) PROVE Earned(v, k)'
  <2>1. /\ UNCHANGED <<viewing, rung, mismarked>>
        /\ sweep' = [sweep EXCEPT ![s] =
                        IF sweep[s].kind = "24h" THEN Sweep(sweep[s].by, "2h") ELSE Asleep]
        /\ Sweep(sweep[s].by, "2h").cur = {}
    BY <1>7 DEF SweepTurn, vars, Sweep, None
  <2>2. \A q \in Runs : \/ sweep'[q] = sweep[q]
                        \/ sweep'[q] = Asleep
                        \/ sweep'[q].cur = {}
    BY <1>0, <2>1
  <2> QED BY <1>b, <2>1, <2>2 DEF InFlight
<1>8. ASSUME \/ SweepListFails
             \/ Crash
             \/ \E s \in InFlight : \E d \in sweep[s].cur : SweepMarkFails(s, d)
      PROVE  Earned(v, k)'
  <2>1. UNCHANGED <<viewing, rung, mismarked>>
    BY <1>8 DEF SweepListFails, Crash, SweepMarkFails, vars
  <2>2. \A q \in Runs : \/ sweep'[q] = sweep[q]
                        \/ sweep'[q] = Asleep
                        \/ sweep'[q].cur = {}
    BY <1>0, <1>8 DEF SweepListFails, Crash, SweepMarkFails, InFlight, None
  <2> QED BY <1>b, <2>1, <2>2 DEF InFlight
<1>9. ASSUME NEW s \in InFlight, NEW d \in sweep[s].cur, SweepMark(s, d) PROVE Earned(v, k)'
  <2>1. d.id \in Ids /\ viewing[d.id] \in Row /\ sweep[s].kind \in Kinds
        /\ s \in Runs /\ sweep[s] \in RunSet
    BY <1>0, <1>9, MarkSteps DEF InFlight
  <2>2. PICK row \in Row : /\ viewing' = [viewing EXCEPT ![d.id] = row]
                           /\ row.seq = viewing[d.id].seq
                           /\ row.sent = viewing[d.id].sent \cup {sweep[s].kind}
    <3>1. Inv /\ d.id \in Ids /\ viewing[d.id] \in Row /\ sweep[s].kind \in Kinds
      BY <1>0, <2>1
    <3> QED BY <1>9, <3>1, MarkFacts
  <2>3. /\ UNCHANGED rung /\ sweep[s].cur = {d}
        /\ sweep' = [sweep EXCEPT ![s].cur = {}]
        /\ mismarked \subseteq mismarked'
        /\ d.row.seq # viewing[d.id].seq /\ sweep[s].kind \notin viewing[d.id].sent
             => <<d.id, sweep[s].kind>> \in mismarked'
    BY <1>9 DEF SweepMark, None
  <2>4. /\ viewing'[v] \in Row <=> viewing[v] \in Row
        /\ viewing'[v].seq = viewing[v].seq
    BY <1>0, <2>1, <2>2
  <2>5. \A q \in Runs : sweep'[q] = sweep[q] \/ sweep'[q].cur = {}
    BY <1>0, <2>1, <2>3
  <2>6. Pending(v, k)' \subseteq Pending(v, k)
    BY <2>4, <2>5 DEF Pending, InFlight
  <2>7. CASE v = d.id /\ k = sweep[s].kind /\ k \notin viewing[v].sent
    <3>1. CASE d.row.seq = viewing[v].seq
      <4>1. s \in Pending(v, k)
        BY <1>9, <2>7, <3>1 DEF Pending
      <4>2. rung[v][k] >= 1
        BY <1>0, <2>1, <2>7, <4>1 DEF Earned
      <4> QED BY <2>3, <4>2 DEF Earned
    <3>2. CASE d.row.seq # viewing[v].seq
      BY <1>0, <2>3, <2>4, <2>6, <2>7, <3>2 DEF Earned
    <3> QED BY <3>1, <3>2
  <2>8. CASE ~(v = d.id /\ k = sweep[s].kind /\ k \notin viewing[v].sent)
    <3>1. k \in viewing'[v].sent <=> k \in viewing[v].sent
      BY <1>0, <2>1, <2>2, <2>8
    <3> QED BY <1>0, <2>3, <2>4, <2>6, <3>1 DEF Earned
  <2> QED BY <2>7, <2>8
<1>10. ASSUME NEW s \in InFlight, NEW d \in sweep[s].todo, NEW delivered \in BOOLEAN,
              SweepNotify(s, d, delivered)
       PROVE  Earned(v, k)'
  <2>1. Rings(s, d)
    BY <1>0, <1>10, NotifyFacts
  <2>2. /\ UNCHANGED <<viewing, mismarked>> /\ s \in Runs /\ sweep[s] \in RunSet
        /\ d.id \in Ids /\ sweep[s].kind \in Kinds
        /\ sweep' = [sweep EXCEPT ![s] = TookUp(s, d)]
    BY <1>0, <2>1 DEF Rings, InFlight
  <2>3. /\ sweep'[s].kind = sweep[s].kind /\ sweep'[s].cur = {d}
        /\ \A q \in Runs \ {s} : sweep'[q] = sweep[q]
    BY <1>0, <2>2
  <2>4. rung[v][k] \in Nat /\ rung[d.id] \in [Kinds -> Nat]
    BY <1>0, <2>2
  <2>5. CASE ~(v = d.id /\ k = sweep[s].kind /\ d.row.seq = viewing[d.id].seq)
    <3>1. rung'[v][k] = rung[v][k]
      <4>1. CASE rung' = rung
        BY <4>1
      <4>2. CASE /\ d.row.seq = viewing[d.id].seq
                 /\ rung' = [rung EXCEPT ![d.id] = [rung[d.id] EXCEPT ![sweep[s].kind] =
                                                       rung[d.id][sweep[s].kind] + 1]]
        BY <1>0, <2>2, <2>4, <2>5, <4>2
      <4> QED BY <2>1, <4>1, <4>2 DEF Rings
    <3>2. Pending(v, k)' \subseteq Pending(v, k)
      BY <2>2, <2>3, <2>5 DEF Pending, InFlight
    <3> QED BY <1>0, <2>2, <3>1, <3>2, EarnedStays
  <2>6. CASE v = d.id /\ k = sweep[s].kind /\ d.row.seq = viewing[d.id].seq
    <3>1. rung' = [rung EXCEPT ![d.id] = [rung[d.id] EXCEPT ![sweep[s].kind] =
                                             rung[d.id][sweep[s].kind] + 1]]
      BY <2>1, <2>6 DEF Rings
    <3>2. rung'[v][k] = rung[v][k] + 1
      BY <1>0, <2>2, <2>4, <2>6, <3>1
    <3>3. rung'[v][k] >= 1
      BY <2>4, <3>2
    <3> QED BY <3>3 DEF Earned
  <2> QED BY <2>5, <2>6
<1>11. CASE Clock \/ Publish \/ UNCHANGED allVars
  BY <1>11, <1>b DEF Clock, Publish, Tick, SetAvailability, allVars, vars, noticeVars, mailVars,
                     sweepVars
<1>12. ASSUME NEW h \in Handlers,
              \/ Quiet(h)
              \/ Drop(h)
              \/ \E a \in Seekers \cup {Conductor, Owner}, w \in Ids : Ask(h, a, w)
       PROVE  Earned(v, k)'
  BY <1>12, <1>1, <1>2, AskSteps
<1> QED BY <1>3, <1>4, <1>5, <1>6, <1>7, <1>8, <1>9, <1>10, <1>11, <1>12 DEF NoticesNext


\* A listing finds what is confirmed, in its window and not marked.
LEMMA ListingCovers ==
    ASSUME NoticesInv, NEW s \in Runs, NEW c \in Schedulers, NEW k \in Kinds,
           sweep'[s] = Sweep(c, k), NEW v \in Ids, UNCHANGED <<viewing, rung, mismarked>>,
           Earned(v, k), <<v, k>> \notin mismarked, viewing[v].status = "CONFIRMED",
           viewing[v].start >= now + RemLo[k], viewing[v].start <= now + RemHi[k]
    PROVE  Covered(v, k)'
<1>0. viewing[v] \in Row
  BY DEF NoticesInv, Inv, TypeOK, Absent
<1>1. CASE k \in viewing[v].sent
  BY <1>0, <1>1 DEF Covered, Earned
<1>2. CASE k \notin viewing[v].sent
  <2>1. [id |-> v, row |-> viewing[v]] \in listDueReminders(k)
    BY <1>2 DEF listDueReminders
  <2>2. PICK d \in listDueReminders(k) : d.id = v /\ d.row.seq = viewing[v].seq
    BY <2>1
  <2>3. sweep'[s].todo = listDueReminders(k) /\ sweep'[s].kind = k /\ sweep'[s] # Asleep
    BY ListingFacts
  <2>4. s \in Ready(v, k)'
    BY <2>2, <2>3 DEF Ready, InFlight
  <2> QED BY <2>4 DEF Covered
<1> QED BY <1>1, <1>2

\* A viewing stays covered while rings stay and no run forgets it.
LEMMA CoverStays ==
    ASSUME NEW v, NEW k, Covered(v, k), rung'[v][k] = rung[v][k],
           Ready(v, k) \subseteq Ready(v, k)'
    PROVE  Covered(v, k)'
BY DEF Covered

\* Where row, confirmation and runs stay, so does the promise.
LEMMA SweptStays ==
    ASSUME NEW v, NEW k, NEW t, SweptFor(v, k, t),
           viewing'[v].status = viewing[v].status,
           viewing'[v].start = viewing[v].start,
           viewing'[v].seq = viewing[v].seq,
           since'[v] = since[v], rung'[v][k] = rung[v][k], late' = late,
           <<v, k>> \in mismarked => <<v, k>> \in mismarked',
           UNCHANGED <<sweep, lastSweep>>
    PROVE  SweptFor(v, k, t)'
<1>1. LastListing(t, k)' = LastListing(t, k)
  BY DEF LastListing, Busy24h, InFlight
<1>2. Ready(v, k)' = Ready(v, k)
  BY DEF Ready, InFlight
<1> QED BY <1>1, <1>2 DEF SweptFor, Opened, Covered

LEMMA SweptStep ==
    ASSUME NoticesInv, OnTime, Swept, \A w \in Ids, j \in Kinds : Earned(w, j),
           [NoticesNext]_allVars
    PROVE  Swept'
<1>0. Inv /\ NoticesTypeOK /\ Honest
  BY DEF NoticesInv
<1>a. /\ viewing \in [Ids -> Row \cup {Absent}] /\ faults \in Nat
      /\ sweep \in [Runs -> {Asleep} \cup RunSet]
      /\ lastSweep \in [Schedulers -> (-SweepEvery)..MaxNow]
      /\ since \in [Ids -> 0..MaxNow] /\ rung \in [Ids -> [Kinds -> Nat]]
  BY <1>0, ReminderAssumption DEF Inv, TypeOK, NoticesTypeOK
<1> SUFFICES ASSUME faults' = 0, NEW v \in Ids, NEW k \in Kinds, NEW t \in Schedulers
             PROVE  SweptFor(v, k, t)'
  BY DEF Swept
<1>b. ASSUME faults = 0 PROVE SweptFor(v, k, t)
  BY <1>b DEF Swept
<1>c. CASE UNCHANGED <<viewing, since, sweep, lastSweep, rung, mismarked, late, faults>>
  BY <1>b, <1>c, SweptStays
<1>d. viewing[v].status = "CONFIRMED" => viewing[v] \in Row
  BY <1>a DEF Absent
<1>e. Earned(v, k)
  OBVIOUS
<1>1. ASSUME NEW h \in Handlers, Asks(h) PROVE SweptFor(v, k, t)'
  BY <1>1, <1>c DEF Asks
<1>2. ASSUME NEW h \in Handlers, NEW w \in Ids, Books(h, w) PROVE SweptFor(v, k, t)'
  <2>1. UNCHANGED <<since, sweep, lastSweep, rung, mismarked, late, faults>>
    BY <1>2 DEF Books, noticeVars, sweepVars
  <2>2. PICK row \in Row : viewing' = [viewing EXCEPT ![w] = row] /\ row.status = "REQUESTED"
    BY <1>0, <1>2, BookFacts DEF Books, Commit
  <2>3. CASE v = w
    BY <1>a, <2>2, <2>3 DEF SweptFor, Opened
  <2>4. CASE v # w
    BY <1>a, <1>b, <2>1, <2>2, <2>4, SweptStays
  <2> QED BY <2>3, <2>4
<1>3. ASSUME NEW h \in Handlers, NEW w \in Ids, Move(h, w) PROVE SweptFor(v, k, t)'
  <2>1. /\ UNCHANGED <<sweep, lastSweep, late, faults>> /\ since' = [since EXCEPT ![w] = 0]
        /\ rung' = [rung EXCEPT ![w] = [j \in Kinds |-> 0]]
        /\ mismarked' = mismarked \ ({w} \X Kinds)
    BY <1>3 DEF Move, sweepVars
  <2>2. PICK row \in Row : viewing' = [viewing EXCEPT ![w] = row] /\ row.status = "REQUESTED"
    BY <1>0, <1>3, MoveFacts DEF Move, Commit
  <2>3. CASE v = w
    BY <1>a, <2>2, <2>3 DEF SweptFor, Opened
  <2>4. CASE v # w
    <3>1. /\ viewing'[v] = viewing[v] /\ since'[v] = since[v] /\ rung'[v] = rung[v]
          /\ <<v, k>> \in mismarked => <<v, k>> \in mismarked'
      BY <1>a, <2>1, <2>2, <2>4
    <3> QED BY <1>b, <2>1, <3>1, SweptStays
  <2> QED BY <2>3, <2>4
<1>4. ASSUME NEW h \in Handlers, NEW w \in Ids, NEW e \in Events, Apply(h, w, e)
      PROVE  SweptFor(v, k, t)'
  <2>1. /\ UNCHANGED <<sweep, lastSweep, rung, mismarked, late, faults>>
        /\ since' = IF viewing'[w].status = viewing[w].status THEN since
                    ELSE [since EXCEPT ![w] = IF e = "CONFIRM" THEN now ELSE 0]
    BY <1>4 DEF Apply, sweepVars
  <2>2. PICK row \in Row : /\ viewing' = [viewing EXCEPT ![w] = row]
                           /\ row.status = nextViewingStatus(req[h].seen.status, e)
                           /\ row.start = viewing[w].start
                           /\ row.seq = viewing[w].seq
    BY <1>0, <1>4, EventFacts DEF Apply, Commit
  <2>3. CASE v # w
    <3>1. viewing'[v] = viewing[v] /\ since'[v] = since[v]
      BY <1>a, <2>1, <2>2, <2>3
    <3> QED BY <1>b, <2>1, <3>1, SweptStays
  <2>4. CASE v = w /\ viewing'[w].status = viewing[w].status
    <3>1. since'[v] = since[v] /\ viewing'[v] = row
      BY <1>a, <2>1, <2>2, <2>4
    <3> QED BY <1>b, <2>1, <2>2, <2>4, <3>1, SweptStays
  <2>5. CASE v = w /\ viewing'[w].status # viewing[w].status /\ e = "CONFIRM"
    <3>1. since'[v] = now /\ viewing'[v] = row
      BY <1>a, <2>1, <2>2, <2>5
    <3>2. LastListing(t, k)' = LastListing(t, k)
      BY <2>1 DEF LastListing, Busy24h, InFlight
    <3>3. LastListing(t, k) \in Int /\ LastListing(t, k) <= now /\ now \in Nat
      BY TimeFacts DEF OnTime, LastListing
    <3>4. row.start \in Nat /\ RemHi[k] \in Nat
      BY IntervalAssumption, TimeFacts DEF Row
    <3> QED BY <3>1, <3>2, <3>3, <3>4 DEF SweptFor, Opened
  <2>6. CASE v = w /\ e # "CONFIRM"
    <3>1. row.status # "CONFIRMED"
      BY <2>2, <2>6 DEF nextViewingStatus, Events
    <3> QED BY <1>a, <2>2, <2>6, <3>1 DEF SweptFor, Opened
  <2> QED BY <2>3, <2>4, <2>5, <2>6
<1>5. ASSUME NEW l \in outbox, Deliver(l) PROVE SweptFor(v, k, t)'
  BY <1>5, <1>c DEF Deliver, vars, sweepVars
<1>6. ASSUME NEW c \in Schedulers, NEW s \in Runs, SweepStart(c, s) PROVE SweptFor(v, k, t)'
  <2>1. /\ UNCHANGED <<viewing, now, since, rung, mismarked, faults>>
        /\ s \notin InFlight
        /\ now >= lastSweep[c] + SweepEvery
        /\ lastSweep' = [lastSweep EXCEPT ![c] = now]
        /\ sweep' = [sweep EXCEPT ![s] = Sweep(c, "24h")]
        /\ late' = (late \/ Busy24h(c))
    BY <1>6 DEF SweepStart, vars, Busy24h
  <2>2. /\ sweep'[s] = Sweep(c, "24h") /\ lastSweep'[c] = now
        /\ \A q \in Runs \ {s} : sweep'[q] = sweep[q]
        /\ \A u \in Schedulers \ {c} : lastSweep'[u] = lastSweep[u]
    BY <1>a, <2>1
  <2>3. /\ Sweep(c, "24h").by = c /\ Sweep(c, "24h").kind = "24h" /\ Sweep(c, "24h") # Asleep
    BY ListingFacts DEF Kinds
  <2>4. Covered(v, k) => Covered(v, k)'
    <3>1. Ready(v, k) \subseteq Ready(v, k)'
      BY <2>1, <2>2 DEF Ready, InFlight
    <3> QED BY <2>1, <3>1, CoverStays
  <2>5. ASSUME LastListing(t, k)' = LastListing(t, k) PROVE SweptFor(v, k, t)'
    BY <1>b, <2>1, <2>4, <2>5 DEF SweptFor, Opened
  <2>6. CASE t # c
    <3>1. Busy24h(t)' <=> Busy24h(t)
      BY <2>1, <2>2, <2>3, <2>6 DEF Busy24h, InFlight
    <3>2. LastListing(t, k)' = LastListing(t, k)
      BY <2>2, <2>6, <3>1 DEF LastListing
    <3> QED BY <2>5, <3>2
  <2>7. CASE t = c /\ k = "2h"
    <3>1. CASE Busy24h(c)
      BY <2>1, <2>7, <3>1 DEF SweptFor, Opened
    <3>2. CASE ~Busy24h(c)
      <4>1. LastListing(t, k) = lastSweep[t]
        BY <2>7, <3>2 DEF LastListing
      <4>2. Busy24h(t)'
        BY <2>2, <2>3, <2>7 DEF Busy24h, InFlight
      <4>3. LastListing(t, k)' = now - SweepEvery
        BY <2>2, <2>7, <4>2 DEF LastListing
      <4>4. lastSweep[t] = now - SweepEvery
        BY <2>1, <2>7, TimeFacts DEF OnTime
      <4> QED BY <2>5, <4>1, <4>3, <4>4
    <3> QED BY <3>1, <3>2
  <2>8. CASE t = c /\ k = "24h"
    <3> SUFFICES ASSUME Opened(v, k, t)', <<v, k>> \notin mismarked, ~Opened(v, k, t)
                 PROVE  Covered(v, k)'
      BY <1>b, <2>1, <2>4 DEF SweptFor
    <3>1. LastListing(t, k) = lastSweep[t] /\ LastListing(t, k)' = now
      BY <2>2, <2>8 DEF LastListing
    <3>2. viewing[v].status = "CONFIRMED" /\ now >= viewing[v].start - RemHi[k]
          /\ since[v] < viewing[v].start - RemHi[k]
      BY <2>1, <3>1 DEF Opened
    <3>3. ~(lastSweep[t] >= viewing[v].start - RemHi[k])
      BY <2>8, <3>1, <3>2 DEF Opened
    <3>4. viewing[v].start \in Nat
      BY <1>d, <3>2, TimeFacts
    <3>5. now <= lastSweep[t] + SweepEvery
      BY DEF OnTime
    <3>6. viewing[v].start >= now + RemLo[k] /\ viewing[v].start <= now + RemHi[k]
      BY <3>2, <3>3, <3>4, <3>5, TimeFacts
    <3> QED BY <1>e, <2>1, <2>2, <2>8, <3>2, <3>6, ListingCovers
  <2> QED BY <2>6, <2>7, <2>8 DEF Kinds
<1>7. ASSUME NEW s \in InFlight, SweepTurn(s) PROVE SweptFor(v, k, t)'
  <2>1. /\ UNCHANGED <<viewing, now, since, lastSweep, rung, mismarked, late, faults>>
        /\ s \in Runs /\ sweep[s] \in RunSet /\ sweep[s].todo = {}
        /\ sweep' = [sweep EXCEPT ![s] =
                        IF sweep[s].kind = "24h" THEN Sweep(sweep[s].by, "2h") ELSE Asleep]
    BY <1>a, <1>7 DEF SweepTurn, vars, InFlight
  <2>2. /\ sweep'[s] = IF sweep[s].kind = "24h" THEN Sweep(sweep[s].by, "2h") ELSE Asleep
        /\ \A q \in Runs \ {s} : sweep'[q] = sweep[q]
    BY <1>a, <2>1
  <2>3. Covered(v, k) => Covered(v, k)'
    <3>1. s \notin Ready(v, k)
      BY <2>1 DEF Ready
    <3>2. Ready(v, k) \subseteq Ready(v, k)'
      BY <2>1, <2>2, <3>1 DEF Ready, InFlight
    <3> QED BY <2>1, <3>2, CoverStays
  <2>4. CASE LastListing(t, k)' = LastListing(t, k)
    BY <1>b, <2>1, <2>3, <2>4 DEF SweptFor, Opened
  <2>5. CASE k = "2h" /\ Busy24h(t) /\ ~Busy24h(t)'
    <3> SUFFICES ASSUME Opened(v, k, t)', <<v, k>> \notin mismarked, ~Opened(v, k, t)
                 PROVE  Covered(v, k)'
      BY <1>b, <2>1, <2>3 DEF SweptFor
    <3>1. sweep[s].kind = "24h"
      BY <2>2, <2>5 DEF Busy24h, InFlight, Asleep
    <3>2. PICK c \in Schedulers : c = sweep[s].by
      BY <2>1
    <3>3. sweep'[s] = Sweep(c, "2h")
      BY <2>2, <3>1, <3>2
    <3>4. LastListing(t, k) = lastSweep[t] - SweepEvery /\ LastListing(t, k)' = lastSweep[t]
      BY <2>1, <2>5 DEF LastListing
    <3>5. viewing[v].status = "CONFIRMED" /\ lastSweep[t] >= viewing[v].start - RemHi[k]
          /\ since[v] < viewing[v].start - RemHi[k] /\ ~late
      BY <2>1, <2>5, <3>4 DEF Opened
    <3>6. ~(lastSweep[t] - SweepEvery >= viewing[v].start - RemHi[k])
      BY <3>4, <3>5 DEF Opened
    <3>7. viewing[v].start \in Nat
      BY <1>d, <3>5, TimeFacts
    <3>8. lastSweep[t] <= now /\ now <= lastSweep[t] + SweepEvery
      BY DEF OnTime
    <3>9. viewing[v].start >= now + RemLo[k] /\ viewing[v].start <= now + RemHi[k]
      BY <3>5, <3>6, <3>7, <3>8, TimeFacts
    <3> QED BY <1>e, <2>1, <2>5, <3>3, <3>5, <3>9, ListingCovers
  <2>6. CASE ~(k = "2h" /\ Busy24h(t) /\ ~Busy24h(t)')
    <3>1. Busy24h(t)' => Busy24h(t)
      <4>1. sweep[s].kind = "24h" => sweep'[s].kind = "2h"
        BY <2>2 DEF Sweep
      <4>2. sweep[s].kind # "24h" => sweep'[s] = Asleep
        BY <2>2
      <4> QED BY <2>2, <4>1, <4>2 DEF Busy24h, InFlight
    <3>2. LastListing(t, k)' = LastListing(t, k)
      BY <2>1, <2>6, <3>1 DEF LastListing
    <3> QED BY <2>4, <3>2
  <2> QED BY <2>5, <2>6
<1>8. ASSUME NEW s \in InFlight, NEW d \in sweep[s].todo, NEW delivered \in BOOLEAN,
             SweepNotify(s, d, delivered)
      PROVE  SweptFor(v, k, t)'
  <2>1. Rings(s, d)
    BY <1>0, <1>8, NotifyFacts
  <2>2. /\ UNCHANGED <<viewing, since, lastSweep, mismarked, late, faults>>
        /\ s \in Runs /\ sweep[s] \in RunSet /\ d.id \in Ids /\ sweep[s].kind \in Kinds
        /\ sweep' = [sweep EXCEPT ![s] = TookUp(s, d)]
    BY <1>a, <2>1 DEF Rings, InFlight
  <2>3. /\ sweep'[s].kind = sweep[s].kind /\ sweep'[s].by = sweep[s].by
        /\ sweep'[s].todo = sweep[s].todo \ {d} /\ sweep'[s] # Asleep /\ sweep[s] # Asleep
        /\ \A q \in Runs \ {s} : sweep'[q] = sweep[q]
    BY <1>a, <1>8, <2>2 DEF Asleep, Kinds, InFlight
  <2>4. LastListing(t, k)' = LastListing(t, k)
    <3>1. Busy24h(t)' <=> Busy24h(t)
      BY <2>2, <2>3 DEF Busy24h, InFlight
    <3> QED BY <2>2, <3>1 DEF LastListing
  <2>5. rung[v][k] \in Nat /\ rung[d.id] \in [Kinds -> Nat]
    BY <1>a, <2>2
  <2>6. Covered(v, k) => Covered(v, k)'
    <3>1. CASE v = d.id /\ k = sweep[s].kind /\ d.row.seq = viewing[d.id].seq
      <4>1. rung' = [rung EXCEPT ![d.id] = [rung[d.id] EXCEPT ![sweep[s].kind] =
                                               rung[d.id][sweep[s].kind] + 1]]
        BY <2>1, <3>1 DEF Rings
      <4>2. rung'[v][k] = rung[v][k] + 1
        BY <1>a, <2>2, <2>5, <3>1, <4>1
      <4> QED BY <2>5, <4>2 DEF Covered
    <3>2. CASE ~(v = d.id /\ k = sweep[s].kind /\ d.row.seq = viewing[d.id].seq)
      <4>1. rung'[v][k] = rung[v][k]
        <5>1. CASE rung' = rung
          BY <5>1
        <5>2. CASE /\ d.row.seq = viewing[d.id].seq
                   /\ rung' = [rung EXCEPT ![d.id] = [rung[d.id] EXCEPT ![sweep[s].kind] =
                                                         rung[d.id][sweep[s].kind] + 1]]
          BY <1>a, <2>2, <2>5, <3>2, <5>2
        <5> QED BY <2>1, <5>1, <5>2 DEF Rings
      <4>2. Ready(v, k) \subseteq Ready(v, k)'
        BY <2>2, <2>3, <3>2 DEF Ready, InFlight
      <4> QED BY <4>1, <4>2, CoverStays
    <3> QED BY <3>1, <3>2
  <2> QED BY <1>b, <2>2, <2>4, <2>6 DEF SweptFor, Opened
<1>9. ASSUME NEW s \in InFlight, NEW d \in sweep[s].cur, SweepMark(s, d)
      PROVE  SweptFor(v, k, t)'
  <2>1. d.id \in Ids /\ viewing[d.id] \in Row /\ sweep[s].kind \in Kinds /\ Inv
        /\ s \in Runs /\ sweep[s] \in RunSet
    BY <1>0, <1>a, <1>9, MarkSteps DEF InFlight
  <2>2. PICK row \in Row : /\ viewing' = [viewing EXCEPT ![d.id] = row]
                           /\ row.status = viewing[d.id].status
                           /\ row.start = viewing[d.id].start
                           /\ row.seq = viewing[d.id].seq
    BY <1>9, <2>1, MarkFacts
  <2>3. /\ UNCHANGED <<since, lastSweep, rung, late, faults>> /\ mismarked \subseteq mismarked'
        /\ sweep' = [sweep EXCEPT ![s].cur = {}]
    BY <1>9 DEF SweepMark, None
  <2>4. /\ sweep'[s].kind = sweep[s].kind /\ sweep'[s].todo = sweep[s].todo
        /\ sweep'[s].by = sweep[s].by /\ sweep'[s] # Asleep /\ sweep[s] # Asleep
        /\ \A q \in Runs \ {s} : sweep'[q] = sweep[q]
    BY <1>a, <1>9, <2>1, <2>3 DEF Asleep, Kinds, InFlight
  <2>5. /\ viewing'[v].status = viewing[v].status
        /\ viewing'[v].start = viewing[v].start
        /\ viewing'[v].seq = viewing[v].seq
    BY <1>a, <2>1, <2>2
  <2>6. LastListing(t, k)' = LastListing(t, k)
    <3>1. Busy24h(t)' <=> Busy24h(t)
      BY <2>1, <2>4 DEF Busy24h, InFlight
    <3> QED BY <2>3, <3>1 DEF LastListing
  <2>7. Covered(v, k) => Covered(v, k)'
    <3>1. Ready(v, k) \subseteq Ready(v, k)'
      BY <2>1, <2>4, <2>5 DEF Ready, InFlight
    <3> QED BY <2>3, <3>1, CoverStays
  <2> QED BY <1>b, <2>3, <2>5, <2>6, <2>7 DEF SweptFor, Opened
<1>10. ASSUME \/ SweepListFails
              \/ Crash
              \/ \E s \in InFlight : \E d \in sweep[s].cur : SweepMarkFails(s, d)
       PROVE  FALSE
  <2>1. faults' = faults + 1
    BY <1>10 DEF Crash, SweepListFails, SweepMarkFails
  <2> QED BY <1>a, <2>1
<1>11. CASE Clock \/ Publish \/ UNCHANGED allVars
  BY <1>11, <1>c DEF Clock, Publish, Tick, SetAvailability, allVars, vars, noticeVars, sweepVars
<1>12. ASSUME NEW h \in Handlers,
              \/ Quiet(h)
              \/ Drop(h)
              \/ \E a \in Seekers \cup {Conductor, Owner}, w \in Ids : Ask(h, a, w)
       PROVE  SweptFor(v, k, t)'
  BY <1>12, <1>1, <1>2, AskSteps
<1> QED BY <1>3, <1>4, <1>5, <1>6, <1>7, <1>8, <1>9, <1>10, <1>11, <1>12 DEF NoticesNext

\* As long as a window spans two sweep intervals, the timers are on time and nothing fails, the
\* seeker of a viewing confirmed before the window of a reminder opened has been told of the
\* slot he has, or a run is about to tell him, when the window has closed: whatever moves under
\* a listing, and however runs overlap, unless a mark meant for another slot has silenced it
\* or the 2h reminders wait for slow 24h ones.
THEOREM NoWindowIsMissed == NoticesSpec => []NoReminderWindowIsMissed
<1>1. NoticesInit => Prompt
  <2> SUFFICES ASSUME NoticesInit PROVE Prompt
    OBVIOUS
  <2>1. OnTime
    BY ReminderAssumption DEF NoticesInit, Init, OnTime
  <2>2. \A v \in Ids : viewing[v] = Absent
    BY DEF NoticesInit, Init
  <2>3. Swept
    BY <2>2 DEF Swept, SweptFor, Opened, Absent
  <2>4. \A v \in Ids, k \in Kinds : Earned(v, k)
    BY <2>2 DEF Earned, Row, Absent, Status, ActiveStatus
  <2> QED BY <2>1, <2>3, <2>4 DEF Prompt
<1>2. NoticesInv /\ Prompt /\ [NoticesNext]_allVars => Prompt'
  BY OnTimeStep, SweptStep, EarnedStep DEF Prompt
<1>3. NoticesInv /\ Prompt => NoReminderWindowIsMissed
  <2> SUFFICES ASSUME NoticesInv, Prompt, faults = 0, NEW t \in Schedulers, NEW v \in Ids,
                      NEW k \in Kinds, <<v, k>> \notin mismarked, Missed(v, k)
               PROVE  FALSE
    BY DEF NoReminderWindowIsMissed
  <2>0. /\ viewing[v].status = "CONFIRMED"
        /\ k = "2h" => ~late
        /\ since[v] < viewing[v].start - RemHi[k] /\ now > viewing[v].start - RemLo[k]
    BY DEF Missed
  <2>1. viewing[v].start \in Nat
    <3>1. viewing[v] \in Row
      BY <2>0 DEF NoticesInv, Inv, TypeOK, Absent
    <3> QED BY <3>1, TimeFacts
  <2>2. now <= lastSweep[t] + SweepEvery
    BY DEF Prompt, OnTime
  <2>3. LastListing(t, k) \in {lastSweep[t], lastSweep[t] - SweepEvery}
    BY DEF LastListing
  <2>4. LastListing(t, k) >= viewing[v].start - RemHi[k]
    <3>1. lastSweep[t] - SweepEvery >= viewing[v].start - RemHi[k]
      BY <2>0, <2>1, <2>2, TimeFacts
    <3>2. lastSweep[t] >= viewing[v].start - RemHi[k]
      BY <2>1, <3>1, TimeFacts
    <3> QED BY <2>3, <3>1, <3>2
  <2>5. Covered(v, k)
    BY <2>0, <2>4 DEF Prompt, Swept, SweptFor, Opened
  <2> QED BY <2>5 DEF Covered, Missed, Ready
<1> QED BY <1>1, <1>2, <1>3, NoticesHold, PTL DEF NoticesSpec

=============================================================================
