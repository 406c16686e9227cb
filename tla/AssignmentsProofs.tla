------------------------- MODULE AssignmentsProofs -------------------------
(*****************************************************************************)
(* Proofs about Assignments, for every set of tasks, professionals and       *)
(* handlers, every capacity and any number of faults.                        *)
(*****************************************************************************)
EXTENDS Assignments, FiniteSetTheorems, TLAPS

Unassigned == {"ABSENT", "REQUESTED"}

\* What a request may hold: an event legal for the row as it was read, a row that has not lost
\* its professional since, and before the transaction a load that left room.
Sound(r) ==
    /\ r \in RequestType
    /\ r.seen.pro = Nobody <=> r.seen.status \in Unassigned
    /\ r.seen.pro # Nobody => rows[r.task].pro # Nobody
    /\ r.at # "unload" => IsLegal(r.seen.status, r.event)
    /\ r.at \in {"pro", "assign"} <=> r.event = "ASSIGN"
    /\ r.at = "unload" => r.seen.pro \in Pros
    /\ r.event = "ASSIGN" => r.pro \in Pros
    /\ r.at = "assign" => r.load < Capacity[r.pro]

Tables ==
    /\ spawned \subseteq Tasks
    /\ rows \in [Tasks -> RowType]
    /\ load \in [Pros -> Int]
    /\ outdated \subseteq Pros
    /\ crowded \subseteq Pros
    /\ faults \in 0 .. MaxFaults
    /\ \A t \in Tasks : rows[t].pro = Nobody <=> rows[t].status \in Unassigned

HandlersSound ==
    /\ handlers \in [Handlers -> {Idle} \cup RequestType]
    /\ \A h \in Handlers : Busy(h) => Sound(handlers[h])

Inv == Tables /\ HandlersSound /\ UncrowdedFitCapacity

\* A row that names a professional always names one.
Grows == \A t \in Tasks : rows[t].pro # Nobody => rows'[t].pro # Nobody

Follows(t) ==
    \/ rows'[t].status = rows[t].status
    \/ rows[t] = NoRow
    \/ \E event \in DOMAIN Transitions :
          /\ IsLegal(rows[t].status, event)
          /\ rows'[t].status = nextAssignmentStatus(event)
    \/ rows'[t].pro \in outdated'

-----------------------------------------------------------------------------
LEMMA TransitionWords ==
    /\ DOMAIN Transitions = {"ASSIGN", "START", "DELIVER", "APPROVE"}
    /\ nextAssignmentStatus("ASSIGN") = "ASSIGNED"
    /\ nextAssignmentStatus("START") = "IN_PROGRESS"
    /\ nextAssignmentStatus("DELIVER") = "DELIVERED"
    /\ nextAssignmentStatus("APPROVE") = "APPROVED"
    /\ \A s : /\ IsLegal(s, "ASSIGN") <=> s = "REQUESTED"
              /\ IsLegal(s, "START") <=> s = "ASSIGNED"
              /\ IsLegal(s, "DELIVER") <=> s = "IN_PROGRESS"
              /\ IsLegal(s, "APPROVE") <=> s = "DELIVERED"
BY DEF Transitions, nextAssignmentStatus, IsLegal

LEMMA SoundStays ==
    ASSUME NEW r, Sound(r), Grows
    PROVE  Sound(r)'
BY DEF Sound, Grows, RequestType

\* A step after which one request is over or sound leaves all of them sound.
LEMMA MovesKeep ==
    ASSUME HandlersSound, Grows, NEW h \in Handlers, NEW q,
           handlers' = [handlers EXCEPT ![h] = q], q = Idle \/ Sound(q)'
    PROVE  HandlersSound'
<1>1. q \in {Idle} \cup RequestType
  BY DEF Sound, RequestType
<1>2. handlers' \in [Handlers -> {Idle} \cup RequestType]
  BY <1>1 DEF HandlersSound
<1>3. ASSUME NEW g \in Handlers, Busy(g)' PROVE Sound(handlers[g])'
  <2>1. PICK s : s = handlers'[g] /\ s # Idle
    BY <1>3 DEF Busy
  <2>2. Sound(s)'
    <3>1. CASE g = h
      BY <2>1, <3>1 DEF HandlersSound
    <3>2. CASE g # h
      <4>1. Sound(s)
        BY <2>1, <3>2 DEF HandlersSound, Busy
      <4> QED BY <4>1, SoundStays
    <3> QED BY <3>1, <3>2
  <2> QED BY <2>1, <2>2
<1> QED BY <1>2, <1>3 DEF HandlersSound

\* So does a step that moves none.
LEMMA StandingKeep ==
    ASSUME HandlersSound, Grows, UNCHANGED handlers
    PROVE  HandlersSound'
<1>1. ASSUME NEW g \in Handlers, Busy(g)' PROVE Sound(handlers[g])'
  <2>1. PICK s : s = handlers[g] /\ s = handlers'[g]
    OBVIOUS
  <2>2. Sound(s)'
    BY <1>1, <2>1, SoundStays DEF HandlersSound, Busy
  <2> QED BY <2>1, <2>2
<1> QED BY <1>1 DEF HandlersSound

\* A request that goes on to another statement of its event stays sound.
LEMMA GoesOn ==
    ASSUME NEW r, Sound(r), Grows, NEW at, at \in {"deliverable", "status", "unload"},
           r.event # "ASSIGN", r.at # "unload", at = "unload" => r.seen.pro \in Pros
    PROVE  Sound([r EXCEPT !.at = at])'
<1>1. Sound(r)'
  BY SoundStays
<1> DEFINE q == [r EXCEPT !.at = at]
<1>2. /\ q \in RequestType
      /\ q.at = at /\ q.event = r.event /\ q.seen = r.seen /\ q.pro = r.pro
      /\ q.task = r.task
  BY DEF Sound, RequestType
<1> HIDE DEF q
<1>3. Sound(q)'
  BY <1>1, <1>2 DEF Sound
<1> QED BY <1>3 DEF q

-----------------------------------------------------------------------------
\* Tasks and assignments that are spawned
LEMMA SpawnSteps ==
    ASSUME Inv, NEW t \in Tasks, CreateTask(t) \/ CreateAssignment(t)
    PROVE  Inv' /\ \A u \in Tasks : Follows(u)
<1>1. CASE CreateTask(t)
  <2>1. Tables' /\ Grows
    BY <1>1 DEF CreateTask, Inv, Tables, Grows
  <2> QED BY <1>1, <2>1, StandingKeep DEF CreateTask, Inv, UncrowdedFitCapacity, Follows
<1>2. CASE CreateAssignment(t)
  <2> DEFINE row == [rows[t] EXCEPT !.status = "REQUESTED"]
  <2>1. /\ rows' = [rows EXCEPT ![t] = row] /\ row \in RowType
        /\ row.status = "REQUESTED" /\ row.pro = Nobody /\ rows[t].pro = Nobody
    <3>1. rows[t] \in RowType /\ rows[t].pro = Nobody
      <4>1. rows[t] \in RowType
        BY DEF Inv, Tables
      <4>2. rows[t].pro = Nobody
        BY <1>2 DEF CreateAssignment, NoRow
      <4> QED BY <4>1, <4>2
    <3>2. rows' = [rows EXCEPT ![t] = row]
      BY <1>2 DEF CreateAssignment
    <3>3. row \in RowType /\ row.status = "REQUESTED" /\ row.pro = Nobody
      BY <3>1 DEF RowType, Statuses
    <3> QED BY <3>1, <3>2, <3>3
  <2> HIDE DEF row
  <2>2. \A u \in Tasks : rows'[u] = IF u = t THEN row ELSE rows[u]
    BY <2>1 DEF Inv, Tables
  <2>3. Tables'
    BY <1>2, <2>1, <2>2 DEF CreateAssignment, Inv, Tables, Unassigned
  <2>4. Grows
    BY <2>1, <2>2 DEF Grows
  <2>5. \A u \in Tasks : Follows(u)
    BY <1>2, <2>2 DEF CreateAssignment, Follows
  <2> QED BY <1>2, <2>3, <2>4, <2>5, StandingKeep DEF CreateAssignment, Inv, UncrowdedFitCapacity
<1> QED BY <1>1, <1>2

\* A step that writes no row
LEMMA UnwrittenStep ==
    ASSUME Inv, NEW h \in Handlers, NEW q, handlers' = [handlers EXCEPT ![h] = q],
           q = Idle \/ Sound(q)', UNCHANGED <<spawned, rows, outdated, crowded>>,
           load' \in [Pros -> Int], \A p \in Pros : load'[p] <= load[p],
           faults' \in 0 .. MaxFaults
    PROVE  Inv' /\ \A u \in Tasks : Follows(u)
<1>1. Tables' /\ Grows
  BY DEF Inv, Tables, Grows
<1>2. HandlersSound'
  BY <1>1, MovesKeep DEF Inv
<1>3. UncrowdedFitCapacity'
  BY AssignmentsAssumption DEF Inv, Tables, UncrowdedFitCapacity
<1> QED BY <1>1, <1>2, <1>3 DEF Inv, Follows

\* A request that begins with a row on which its event is legal
LEMMA RequestSteps ==
    ASSUME Inv, NEW h \in Handlers, NEW t \in Tasks,
           \/ \E p \in Pros : RequestAssign(h, t, p)
           \/ \E event \in {"START", "DELIVER", "APPROVE"} : RequestEvent(h, t, event)
    PROVE  Inv' /\ \A u \in Tasks : Follows(u)
<1>1. /\ rows[t] \in RowType /\ UNCHANGED <<spawned, rows, load, outdated, crowded, faults>>
      /\ rows[t].pro = Nobody <=> rows[t].status \in Unassigned
  BY DEF RequestAssign, RequestEvent, Inv, Tables
<1>2. PICK at \in {"pro", "deliverable", "status"}, event \in DOMAIN Transitions, p \in Pros \cup {Nobody} :
         /\ handlers' = [handlers EXCEPT ![h] = Request(at, event, t, p)]
         /\ IsLegal(rows[t].status, event)
         /\ at = "pro" <=> event = "ASSIGN"
         /\ event = "ASSIGN" => p \in Pros
  <2>1. CASE \E p \in Pros : RequestAssign(h, t, p)
    BY <2>1, TransitionWords DEF RequestAssign
  <2>2. CASE \E event \in {"START", "DELIVER", "APPROVE"} : RequestEvent(h, t, event)
    <3>1. PICK event \in {"START", "DELIVER", "APPROVE"} : RequestEvent(h, t, event)
      BY <2>2
    <3>2. PICK at : at = IF event = "DELIVER" THEN "deliverable" ELSE "status"
      OBVIOUS
    <3>3. /\ at \in {"pro", "deliverable", "status"} /\ at # "pro"
          /\ event \in DOMAIN Transitions /\ event # "ASSIGN"
      BY <3>1, <3>2, TransitionWords
    <3>4. /\ handlers' = [handlers EXCEPT ![h] = Request(at, event, t, Nobody)]
          /\ IsLegal(rows[t].status, event)
      BY <3>1, <3>2 DEF RequestEvent
    <3> QED BY <3>3, <3>4
  <2> QED BY <2>1, <2>2
<1>3. PICK r : r = Request(at, event, t, p)
  OBVIOUS
<1>4. /\ r.at = at /\ r.event = event /\ r.task = t /\ r.seen = rows[t] /\ r.pro = p
      /\ r \in RequestType
  BY <1>1, <1>3 DEF Request, RequestType
<1>5. Sound(r)
  BY <1>1, <1>2, <1>4 DEF Sound
<1>6. Sound(r)'
  BY <1>1, <1>5, SoundStays DEF Grows
<1>7. handlers' = [handlers EXCEPT ![h] = r]
  BY <1>2, <1>3
<1>8. load' \in [Pros -> Int] /\ (\A x \in Pros : load'[x] <= load[x]) /\ faults' \in 0 .. MaxFaults
  BY <1>1 DEF Inv, Tables
<1> QED BY <1>1, <1>6, <1>7, <1>8, UnwrittenStep

\* Steps of a request that write no row
LEMMA PlainSteps ==
    ASSUME Inv, NEW h \in Handlers, ReadPro(h) \/ Unload(h) \/ Die(h)
    PROVE  Inv' /\ \A u \in Tasks : Follows(u)
<1>1. PICK r : r = handlers[h] /\ Sound(r)
  BY DEF ReadPro, Unload, Die, At, Inv, HandlersSound
<1>2. UNCHANGED <<spawned, rows, outdated, crowded>>
  BY DEF ReadPro, Unload, Die
<1>3. /\ load' \in [Pros -> Int] /\ \A p \in Pros : load'[p] <= load[p]
      /\ faults' \in 0 .. MaxFaults
  <2>1. CASE ReadPro(h)
    BY <2>1 DEF ReadPro, Inv, Tables
  <2>2. CASE Unload(h)
    <3>1. r.seen.pro \in Pros
      BY <1>1, <2>2 DEF Unload, At, Sound
    <3> QED BY <1>1, <2>2, <3>1 DEF Unload, Inv, Tables
  <2>3. CASE Die(h)
    BY <2>3, AssignmentsAssumption DEF Die, Inv, Tables
  <2> QED BY <2>1, <2>2, <2>3
<1>4. Grows
  BY <1>2 DEF Grows
<1>5. CASE handlers' = [handlers EXCEPT ![h] = Idle]
  <2>1. PICK q : q = Idle
    OBVIOUS
  <2>2. handlers' = [handlers EXCEPT ![h] = q]
    BY <1>5, <2>1
  <2> QED BY <1>2, <1>3, <2>1, <2>2, UnwrittenStep
<1>6. CASE ReadPro(h) /\ handlers' # [handlers EXCEPT ![h] = Idle]
  <2>1. /\ hasRoom(r.pro) /\ r.at = "pro"
        /\ handlers' = [handlers EXCEPT ![h].at = "assign", ![h].load = load[r.pro]]
    BY <1>1, <1>6 DEF ReadPro, End, At
  <2>2. r.event = "ASSIGN" /\ r.pro \in Pros
    BY <1>1, <2>1 DEF Sound
  <2>3. PICK n \in Int : n = load[r.pro] /\ n < Capacity[r.pro]
    BY <2>1, <2>2 DEF hasRoom, Inv, Tables
  <2>4. PICK q : q = [r EXCEPT !.at = "assign", !.load = n]
    OBVIOUS
  <2>6. Sound(q)'
    <3>1. Sound(r)'
      BY <1>1, <1>4, SoundStays
    <3>2. /\ q \in RequestType
          /\ q.at = "assign" /\ q.event = r.event /\ q.seen = r.seen /\ q.pro = r.pro
          /\ q.task = r.task /\ q.load = n
      BY <1>1, <2>4 DEF Sound, RequestType
    <3> QED BY <1>1, <2>1, <2>2, <2>3, <3>1, <3>2 DEF Sound
  <2>5. handlers' = [handlers EXCEPT ![h] = q]
    BY <1>1, <2>1, <2>3, <2>4
  <2> QED BY <1>2, <1>3, <2>5, <2>6, UnwrittenStep
<1> QED BY <1>5, <1>6 DEF Unload, Die, End

-----------------------------------------------------------------------------
\* What a handler finds whose row has not changed, and what it touches if it has
LEMMA OutdatedOrLegal ==
    ASSUME Inv, NEW h \in Handlers, NEW r, r = handlers[h], Sound(r), r.at # "unload",
           NoteOutdated(h)
    PROVE  /\ outdated' \subseteq Pros
           /\ \/ IsLegal(rows[r.task].status, r.event)
              \/ /\ {rows[r.task].pro, r.pro} \cap Pros \subseteq outdated'
                 /\ r.event # "ASSIGN" => rows[r.task].pro \in Pros
<1>1. outdated' \subseteq Pros
  BY DEF NoteOutdated, Touched, Inv, Tables
<1>2. CASE IsOutdated(h)
  <2>1. {rows[r.task].pro, r.pro} \cap Pros \subseteq outdated'
    BY <1>2 DEF NoteOutdated, Touched
  <2>2. ASSUME r.event # "ASSIGN" PROVE rows[r.task].pro \in Pros
    <3>1. r.event \in {"START", "DELIVER", "APPROVE"} /\ IsLegal(r.seen.status, r.event)
      BY <2>2, TransitionWords DEF Sound, RequestType
    <3>2. r.seen.status \notin Unassigned
      BY <3>1, TransitionWords DEF Unassigned
    <3>3. rows[r.task].pro # Nobody
      BY <3>2 DEF Sound
    <3>4. rows[r.task] \in RowType
      BY DEF Sound, RequestType, Inv, Tables
    <3> QED BY <3>3, <3>4 DEF RowType
  <2> QED BY <1>1, <2>1, <2>2
<1>3. CASE ~IsOutdated(h)
  <2>1. r.seen.status = rows[r.task].status
    BY <1>3 DEF IsOutdated
  <2> QED BY <1>1, <2>1 DEF Sound
<1> QED BY <1>2, <1>3

\* A step that writes the row of a request's task
LEMMA WrittenStep ==
    ASSUME Inv, NEW h \in Handlers, NEW r, r = handlers[h], Sound(r),
           NEW row \in RowType, rows' = [rows EXCEPT ![r.task] = row],
           row.pro = Nobody <=> row.status \in Unassigned,
           rows[r.task].pro # Nobody => row.pro # Nobody,
           UNCHANGED <<spawned, faults>>,
           load' \in [Pros -> Int], outdated' \subseteq Pros, crowded' \subseteq Pros
    PROVE  /\ Tables' /\ Grows
           /\ \A t \in Tasks \ {r.task} : Follows(t)
           /\ rows'[r.task] = row
<1>1. r.task \in Tasks
  BY DEF Sound, RequestType
<1>2. \A t \in Tasks : rows'[t] = IF t = r.task THEN row ELSE rows[t]
  BY DEF Inv, Tables
<1>3. Tables'
  <2>1. rows' \in [Tasks -> RowType]
    BY DEF Inv, Tables
  <2>2. \A t \in Tasks : rows'[t].pro = Nobody <=> rows'[t].status \in Unassigned
    BY <1>2 DEF Inv, Tables
  <2> QED BY <2>1, <2>2 DEF Inv, Tables
<1>4. Grows
  BY <1>2 DEF Grows
<1> QED BY <1>1, <1>2, <1>3, <1>4 DEF Follows

LEMMA AssignStep ==
    ASSUME Inv, NEW h \in Handlers, assignAtomic(h)
    PROVE  Inv' /\ \A u \in Tasks : Follows(u)
<1>1. PICK r : r = handlers[h] /\ Sound(r) /\ r.at = "assign"
  BY DEF assignAtomic, At, Inv, HandlersSound
<1>2. /\ r.event = "ASSIGN" /\ r.pro \in Pros /\ r.task \in Tasks
      /\ r.load \in Int /\ r.load < Capacity[r.pro]
  BY <1>1 DEF Sound, RequestType
<1>3. /\ load' = [load EXCEPT ![r.pro] = @ + 1]
      /\ crowded' = crowded \cup {q \in {r.pro} : load[q] > r.load}
      /\ UNCHANGED <<spawned, faults>> /\ NoteOutdated(h)
      /\ handlers' = [handlers EXCEPT ![h] = Idle]
  BY <1>1 DEF assignAtomic, End
<1>4. PICK row \in RowType : /\ rows' = [rows EXCEPT ![r.task] = row]
                             /\ row.status = "ASSIGNED" /\ row.pro = r.pro
  <2> DEFINE row == [rows[r.task] EXCEPT !.status = "ASSIGNED", !.pro = r.pro]
  <2>1. rows[r.task] \in RowType
    BY <1>2 DEF Inv, Tables
  <2>2. rows' = [rows EXCEPT ![r.task] = row]
    BY <1>1, TransitionWords DEF assignAtomic
  <2>3. row \in RowType /\ row.status = "ASSIGNED" /\ row.pro = r.pro
    BY <1>2, <2>1 DEF RowType, Statuses
  <2> QED BY <2>2, <2>3
<1>5. /\ outdated' \subseteq Pros
      /\ IsLegal(rows[r.task].status, "ASSIGN") \/ r.pro \in outdated'
  BY <1>1, <1>2, <1>3, OutdatedOrLegal
<1>6. Tables' /\ Grows /\ (\A t \in Tasks \ {r.task} : Follows(t)) /\ rows'[r.task] = row
  <2>1. row.pro # Nobody /\ row.status \notin Unassigned
    BY <1>2, <1>4, AssignmentsAssumption DEF Unassigned
  <2>2. load' \in [Pros -> Int] /\ crowded' \subseteq Pros
    BY <1>2, <1>3 DEF Inv, Tables
  <2> QED BY <1>1, <1>3, <1>4, <1>5, <2>1, <2>2, WrittenStep
<1>7. Follows(r.task)
  BY <1>4, <1>5, <1>6, TransitionWords DEF Follows
<1>8. UncrowdedFitCapacity'
  <2>1. ASSUME NEW p \in Pros \ crowded' PROVE load'[p] <= Capacity[p]
    <3>1. p \notin crowded /\ load[p] \in Int /\ Capacity[p] \in Nat /\ load[p] <= Capacity[p]
      BY <1>3, <2>1, AssignmentsAssumption DEF Inv, Tables, UncrowdedFitCapacity
    <3>2. CASE p = r.pro
      <4>1. load[p] <= r.load
        BY <1>2, <1>3, <2>1, <3>1, <3>2
      <4>2. load'[p] = load[p] + 1
        BY <1>2, <1>3, <3>2 DEF Inv, Tables
      <4> QED BY <1>2, <3>1, <3>2, <4>1, <4>2
    <3>3. CASE p # r.pro
      BY <1>3, <2>1, <3>1, <3>3 DEF Inv, Tables
    <3> QED BY <3>2, <3>3
  <2> QED BY <2>1 DEF UncrowdedFitCapacity
<1>9. HandlersSound'
  <2>1. PICK q : q = Idle
    OBVIOUS
  <2>2. handlers' = [handlers EXCEPT ![h] = q]
    BY <1>3, <2>1
  <2> QED BY <1>6, <2>1, <2>2, MovesKeep DEF Inv
<1> QED BY <1>6, <1>7, <1>8, <1>9 DEF Inv

LEMMA RowSteps ==
    ASSUME Inv, NEW h \in Handlers, SetDeliverable(h) \/ SetStatus(h)
    PROVE  Inv' /\ \A u \in Tasks : Follows(u)
<1>1. PICK r : r = handlers[h] /\ Sound(r) /\ r.at \in {"deliverable", "status"}
  BY DEF SetDeliverable, SetStatus, At, Inv, HandlersSound
<1>2. /\ r.event \in {"START", "DELIVER", "APPROVE"} /\ r.task \in Tasks
      /\ IsLegal(r.seen.status, r.event) /\ rows[r.task] \in RowType
      /\ r.seen.pro \in Pros /\ rows[r.task].pro # Nobody
      /\ rows[r.task].status \notin Unassigned
  <2>1. r.event \in {"START", "DELIVER", "APPROVE"} /\ r.task \in Tasks /\ r.seen \in RowType
    BY <1>1, TransitionWords DEF Sound, RequestType
  <2>2. IsLegal(r.seen.status, r.event)
    BY <1>1 DEF Sound
  <2>3. r.seen.status \notin Unassigned
    BY <2>1, <2>2, TransitionWords DEF Unassigned
  <2>4. r.seen.pro \in Pros /\ rows[r.task].pro # Nobody
    BY <1>1, <2>1, <2>3 DEF Sound, RowType
  <2> QED BY <2>1, <2>2, <2>4 DEF Inv, Tables
<1>3. load' = load /\ crowded' = crowded /\ UNCHANGED <<spawned, faults>>
  BY DEF SetDeliverable, SetStatus
<1>4. load' \in [Pros -> Int] /\ crowded' \subseteq Pros /\ outdated \subseteq Pros
  BY <1>3 DEF Inv, Tables
<1>5. UncrowdedFitCapacity'
  BY <1>3 DEF Inv, UncrowdedFitCapacity
<1>6. CASE SetDeliverable(h)
  <2>1. PICK row \in RowType : /\ rows' = [rows EXCEPT ![r.task] = row]
                               /\ row.status = rows[r.task].status /\ row.pro = rows[r.task].pro
    <3> DEFINE row == [rows[r.task] EXCEPT !.deliverable = TRUE]
    <3>1. rows' = [rows EXCEPT ![r.task] = row]
      BY <1>1, <1>6 DEF SetDeliverable
    <3>2. row \in RowType /\ row.status = rows[r.task].status /\ row.pro = rows[r.task].pro
      BY <1>2 DEF RowType
    <3> QED BY <3>1, <3>2
  <2>2. outdated' = outdated
    BY <1>6 DEF SetDeliverable
  <2>3. Tables' /\ Grows /\ (\A t \in Tasks \ {r.task} : Follows(t)) /\ rows'[r.task] = row
    <3>1. row.pro # Nobody /\ row.status \notin Unassigned
      BY <1>2, <2>1
    <3> QED BY <1>1, <1>3, <1>4, <2>1, <2>2, <3>1, WrittenStep
  <2>4. Follows(r.task)
    BY <2>1, <2>3 DEF Follows
  <2>5. r.at = "deliverable" /\ r.event # "ASSIGN"
    BY <1>1, <1>2, <1>6 DEF SetDeliverable, At
  <2>6. PICK q : q = [r EXCEPT !.at = "status"]
    OBVIOUS
  <2>7. Sound(q)'
    BY <1>1, <2>3, <2>5, <2>6, GoesOn
  <2>8. handlers' = [handlers EXCEPT ![h] = q]
    BY <1>1, <1>6, <2>6 DEF SetDeliverable, GoTo
  <2> QED BY <1>5, <2>3, <2>4, <2>7, <2>8, MovesKeep DEF Inv
<1>7. CASE SetStatus(h)
  <2>1. PICK row \in RowType : /\ rows' = [rows EXCEPT ![r.task] = row]
                               /\ row.status = nextAssignmentStatus(r.event)
                               /\ row.pro = rows[r.task].pro
    <3> DEFINE row == [rows[r.task] EXCEPT !.status = nextAssignmentStatus(r.event)]
    <3>1. rows' = [rows EXCEPT ![r.task] = row]
      BY <1>1, <1>7 DEF SetStatus
    <3>2. nextAssignmentStatus(r.event) \in Statuses
      BY <1>2, TransitionWords DEF Statuses
    <3>3. row \in RowType /\ row.status = nextAssignmentStatus(r.event) /\ row.pro = rows[r.task].pro
      BY <1>2, <3>2 DEF RowType
    <3> QED BY <3>1, <3>3
  <2>2. /\ outdated' \subseteq Pros
        /\ IsLegal(rows[r.task].status, r.event) \/ rows[r.task].pro \in outdated'
    <3>1. NoteOutdated(h) /\ r.at # "unload"
      BY <1>1, <1>7 DEF SetStatus
    <3> QED BY <1>1, <1>2, <3>1, OutdatedOrLegal
  <2>3. row.status \notin Unassigned /\ row.pro # Nobody
    BY <1>2, <2>1, TransitionWords DEF Unassigned
  <2>4. Tables' /\ Grows /\ (\A t \in Tasks \ {r.task} : Follows(t)) /\ rows'[r.task] = row
    BY <1>1, <1>3, <1>4, <2>1, <2>2, <2>3, WrittenStep
  <2>5. Follows(r.task)
    BY <1>2, <2>1, <2>2, <2>4, TransitionWords DEF Follows
  <2>6. PICK q : handlers' = [handlers EXCEPT ![h] = q] /\ (q = Idle \/ Sound(q)')
    <3>1. CASE r.event = "APPROVE"
      <4>1. PICK q : q = [r EXCEPT !.at = "unload"]
        OBVIOUS
      <4>2. Sound(q)'
        BY <1>1, <1>2, <2>4, <3>1, <4>1, GoesOn
      <4>3. handlers' = [handlers EXCEPT ![h] = q]
        BY <1>1, <1>7, <3>1, <4>1 DEF SetStatus, GoTo
      <4> QED BY <4>2, <4>3
    <3>2. CASE r.event # "APPROVE"
      <4>1. PICK q : q = Idle
        OBVIOUS
      <4>2. handlers' = [handlers EXCEPT ![h] = q]
        BY <1>1, <1>7, <3>2, <4>1 DEF SetStatus, End
      <4> QED BY <4>1, <4>2
    <3> QED BY <3>1, <3>2
  <2> QED BY <1>5, <2>4, <2>5, <2>6, MovesKeep DEF Inv
<1> QED BY <1>6, <1>7

-----------------------------------------------------------------------------
LEMMA InitInv == Init => Inv
BY AssignmentsAssumption
   DEF Init, Inv, Tables, HandlersSound, UncrowdedFitCapacity, NoRow, Busy, Statuses, RowType,
       Unassigned

LEMMA NextInv == Inv /\ [Next]_vars => Inv' /\ \A t \in Tasks : Follows(t)
<1> SUFFICES ASSUME Inv, [Next]_vars PROVE Inv' /\ \A t \in Tasks : Follows(t)
  OBVIOUS
<1>1. CASE UNCHANGED vars
  <2>1. Grows
    BY <1>1 DEF vars, Grows
  <2>2. HandlersSound'
    BY <1>1, <2>1, StandingKeep DEF vars, Inv
  <2> QED BY <1>1, <2>2 DEF vars, Inv, Tables, UncrowdedFitCapacity, Follows
<1> QED BY <1>1, SpawnSteps, RequestSteps, PlainSteps, AssignStep, RowSteps DEF Next, Step

LEMMA AlwaysInv == Spec => []Inv
BY InitInv, NextInv, PTL DEF Spec

\* Every variable of the assignments keeps its type; what is under way has a professional, and an
\* approval has read one, for every set of tasks, professionals and requests.
THEOREM AssignmentsTypeCorrect == Spec => []TypeOK
<1>1. Inv => TypeOK
  BY DEF Inv, Tables, HandlersSound, Sound, TypeOK, At, Unassigned
<1> QED BY <1>1, AlwaysInv, PTL

\* active_assignments never goes above max_concurrent unless two assignments of one professional
\* passed canAssign before either wrote.
THEOREM UncrowdedFit == Spec => []UncrowdedFitCapacity
<1>1. Inv => UncrowdedFitCapacity
  BY DEF Inv
<1> QED BY <1>1, AlwaysInv, PTL

\* Statuses are written by id, and still every assignment moves along TRANSITIONS as long as no
\* write was decided on an outdated read.
THEOREM UndisturbedFollows == Spec => UndisturbedFollowsTransitions
<1>1. Inv /\ [Next]_vars =>
         [\A t \in Tasks :
             \/ rows'[t].status = rows[t].status
             \/ rows[t] = NoRow
             \/ \E event \in DOMAIN Transitions :
                   /\ IsLegal(rows[t].status, event)
                   /\ rows'[t].status = nextAssignmentStatus(event)
             \/ rows'[t].pro \in outdated']_vars
  BY NextInv DEF Follows
<1> QED BY <1>1, InitInv, NextInv, PTL DEF Spec, UndisturbedFollowsTransitions

-----------------------------------------------------------------------------
\* The counter is the work in hand: each step moves both by the same amount.
LEMMA OneMore ==
    ASSUME NEW S, IsFiniteSet(S), NEW x, x \notin S
    PROVE  /\ Cardinality(S \cup {x}) = Cardinality(S) + 1
           /\ Cardinality(S) \in Nat
BY FS_AddElement, FS_CardinalityType

LEMMA CountsAreFinite ==
    ASSUME NEW p
    PROVE  /\ IsFiniteSet(WorkOf(p)) /\ IsFiniteSet(UnloadsOf(p))
           /\ IsFiniteSet(WorkOf(p)') /\ IsFiniteSet(UnloadsOf(p)')
BY FiniteAssumption, FS_Subset DEF WorkOf, UnloadsOf

\* A step that moves neither the counter nor what it counts
LEMMA CountsStand ==
    ASSUME LoadIsWorkInHand, faults' = faults, outdated \subseteq outdated', load' = load,
           \A p \in Pros \ outdated' : WorkOf(p)' = WorkOf(p) /\ UnloadsOf(p)' = UnloadsOf(p)
    PROVE  LoadIsWorkInHand'
BY DEF LoadIsWorkInHand

\* What is counted of requests when one of them moves
LEMMA UnloadsMove ==
    ASSUME HandlersSound, NEW h \in Handlers, NEW q, handlers' = [handlers EXCEPT ![h] = q], NEW p
    PROVE  /\ h \in UnloadsOf(p)' <=> q # Idle /\ q.at = "unload" /\ q.seen.pro = p
           /\ (h \in UnloadsOf(p)' <=> h \in UnloadsOf(p)) => UnloadsOf(p)' = UnloadsOf(p)
           /\ h \in UnloadsOf(p)' /\ h \notin UnloadsOf(p) => UnloadsOf(p)' = UnloadsOf(p) \cup {h}
           /\ h \notin UnloadsOf(p)' /\ h \in UnloadsOf(p) => UnloadsOf(p) = UnloadsOf(p)' \cup {h}
<1> DEFINE U == UnloadsOf(p)
           V == UnloadsOf(p)'
<1>1. /\ \A g \in Handlers \ {h} : g \in V <=> g \in U
      /\ h \in V <=> q # Idle /\ q.at = "unload" /\ q.seen.pro = p
      /\ U \subseteq Handlers /\ V \subseteq Handlers
  BY DEF HandlersSound, UnloadsOf, At, Busy
<1> HIDE DEF U, V
<1>2. (h \in V <=> h \in U) => V = U
  BY <1>1
<1>3. h \in V /\ h \notin U => V = U \cup {h}
  BY <1>1
<1>4. h \notin V /\ h \in U => U = V \cup {h}
  BY <1>1
<1> QED BY <1>1, <1>2, <1>3, <1>4 DEF U, V

LEMMA AssignCounts ==
    ASSUME Inv, LoadIsWorkInHand, NEW h \in Handlers, assignAtomic(h)
    PROVE  LoadIsWorkInHand'
<1>1. PICK r : r = handlers[h] /\ Sound(r) /\ r.at = "assign"
  BY DEF assignAtomic, At, Inv, HandlersSound
<1>2. /\ r.event = "ASSIGN" /\ r.pro \in Pros /\ r.task \in Tasks /\ NoteOutdated(h)
      /\ UNCHANGED faults /\ load' = [load EXCEPT ![r.pro] = @ + 1]
      /\ handlers' = [handlers EXCEPT ![h] = Idle]
  BY <1>1 DEF Sound, RequestType, assignAtomic, End
<1>3. /\ rows'[r.task].pro = r.pro /\ rows'[r.task].status = "ASSIGNED"
      /\ \A t \in Tasks \ {r.task} : rows'[t] = rows[t]
  <2>1. rows[r.task] \in RowType
    BY <1>2 DEF Inv, Tables
  <2> QED BY <1>1, <1>2, <2>1, TransitionWords DEF assignAtomic, Inv, Tables, RowType
<1>4. \A p \in Pros : UnloadsOf(p)' = UnloadsOf(p)
  <2>1. TAKE p \in Pros
  <2>2. PICK q : q = Idle /\ handlers' = [handlers EXCEPT ![h] = q]
    BY <1>2
  <2>3. h \notin UnloadsOf(p) /\ h \notin UnloadsOf(p)'
    BY <1>1, <2>2, UnloadsMove DEF UnloadsOf, At, Inv
  <2> QED BY <2>2, <2>3, UnloadsMove DEF Inv
<1>5. ASSUME NEW p \in Pros \ outdated', faults' = 0
      PROVE  load'[p] = Cardinality(WorkOf(p)') + Cardinality(UnloadsOf(p)')
  <2>1. p \notin outdated /\ load[p] = Cardinality(WorkOf(p)) + Cardinality(UnloadsOf(p))
    BY <1>2, <1>5 DEF NoteOutdated, LoadIsWorkInHand
  <2>2. Cardinality(WorkOf(p)) \in Nat /\ Cardinality(UnloadsOf(p)) \in Nat
    BY CountsAreFinite, FS_CardinalityType
  <2>3. CASE p = r.pro
    <3>1. IsLegal(rows[r.task].status, "ASSIGN")
      BY <1>1, <1>2, <1>5, <2>3, OutdatedOrLegal
    <3>2. rows[r.task].pro = Nobody
      BY <1>2, <3>1, TransitionWords DEF Inv, Tables, Unassigned
    <3>3. r.task \notin WorkOf(p)
      BY <3>2, AssignmentsAssumption DEF WorkOf
    <3>4. WorkOf(p)' = WorkOf(p) \cup {r.task}
      BY <1>2, <1>3, <2>3 DEF WorkOf
    <3>5. Cardinality(WorkOf(p)') = Cardinality(WorkOf(p)) + 1
      BY <3>3, <3>4, OneMore, CountsAreFinite
    <3>6. load'[p] = load[p] + 1
      BY <1>2, <2>3 DEF Inv, Tables
    <3> QED BY <1>4, <2>1, <2>2, <3>5, <3>6
  <2>4. CASE p # r.pro
    <3>1. load'[p] = load[p]
      BY <1>2, <2>4 DEF Inv, Tables
    <3>2. rows[r.task].pro # p
      <4>1. CASE IsLegal(rows[r.task].status, "ASSIGN")
        BY <1>2, <4>1, TransitionWords, AssignmentsAssumption DEF Inv, Tables, Unassigned
      <4>2. CASE {rows[r.task].pro, r.pro} \cap Pros \subseteq outdated'
        BY <1>5, <4>2
      <4> QED BY <1>1, <1>2, <4>1, <4>2, OutdatedOrLegal
    <3>3. WorkOf(p)' = WorkOf(p)
      BY <1>3, <2>4, <3>2 DEF WorkOf
    <3> QED BY <1>4, <2>1, <3>1, <3>3
  <2> QED BY <2>3, <2>4
<1> QED BY <1>5 DEF LoadIsWorkInHand

LEMMA StatusCounts ==
    ASSUME Inv, LoadIsWorkInHand, NEW h \in Handlers, SetStatus(h)
    PROVE  LoadIsWorkInHand'
<1>1. PICK r : r = handlers[h] /\ Sound(r) /\ r.at = "status" /\ r # Idle
  BY DEF SetStatus, At, Busy, Inv, HandlersSound
<1>2. /\ r.event \in {"START", "DELIVER", "APPROVE"} /\ r.task \in Tasks /\ NoteOutdated(h)
      /\ UNCHANGED <<load, faults>> /\ outdated \subseteq outdated'
  BY <1>1, TransitionWords DEF Sound, RequestType, SetStatus, NoteOutdated
<1>3. /\ rows'[r.task].pro = rows[r.task].pro
      /\ rows'[r.task].status = nextAssignmentStatus(r.event)
      /\ \A t \in Tasks \ {r.task} : rows'[t] = rows[t]
  <2>1. rows[r.task] \in RowType
    BY <1>2 DEF Inv, Tables
  <2> QED BY <1>1, <1>2, <2>1 DEF SetStatus, Inv, Tables, RowType
<1>4. PICK q : /\ handlers' = [handlers EXCEPT ![h] = q]
               /\ \/ r.event = "APPROVE" /\ q # Idle /\ q.at = "unload" /\ q.seen = r.seen
                  \/ r.event # "APPROVE" /\ q = Idle
  <2>1. CASE r.event = "APPROVE"
    <3>1. PICK q : q = [r EXCEPT !.at = "unload"]
      OBVIOUS
    <3>2. handlers' = [handlers EXCEPT ![h] = q]
      BY <1>1, <2>1, <3>1 DEF SetStatus, GoTo
    <3>3. q.at = "unload" /\ q.seen = r.seen
      BY <1>1, <3>1 DEF Sound, RequestType
    <3>4. q # Idle
      BY <3>3 DEF Idle
    <3> QED BY <2>1, <3>2, <3>3, <3>4
  <2>2. CASE r.event # "APPROVE"
    <3>1. PICK q : q = Idle
      OBVIOUS
    <3>2. handlers' = [handlers EXCEPT ![h] = q]
      BY <1>1, <2>2, <3>1 DEF SetStatus, End
    <3> QED BY <2>2, <3>1, <3>2
  <2> QED BY <2>1, <2>2
<1>5. \A p \in Pros : h \notin UnloadsOf(p)
  BY <1>1 DEF UnloadsOf, At
\* A row written on an outdated read counts for nobody that is asked about.
<1>6. ASSUME NEW p \in Pros \ outdated', rows[r.task].pro = p \/ r.seen.pro = p
      PROVE  r.seen.status = rows[r.task].status /\ r.seen.pro = rows[r.task].pro
  BY <1>1, <1>2, <1>6 DEF NoteOutdated, Touched, IsOutdated
<1>7. ASSUME NEW p \in Pros \ outdated', faults' = 0
      PROVE  load'[p] = Cardinality(WorkOf(p)') + Cardinality(UnloadsOf(p)')
  <2>1. load[p] = Cardinality(WorkOf(p)) + Cardinality(UnloadsOf(p)) /\ load' = load
    BY <1>2, <1>7 DEF LoadIsWorkInHand
  <2>2. /\ Cardinality(WorkOf(p)) \in Nat /\ Cardinality(UnloadsOf(p)) \in Nat
        /\ Cardinality(WorkOf(p)') \in Nat
    BY CountsAreFinite, FS_CardinalityType
  <2>3. CASE r.event = "APPROVE" /\ r.seen.pro = p
    <3>1. rows[r.task].pro = p /\ rows[r.task].status = "DELIVERED"
      BY <1>1, <1>6, <2>3, TransitionWords DEF Sound
    <3>2. r.task \notin WorkOf(p)' /\ WorkOf(p) = WorkOf(p)' \cup {r.task}
      BY <1>2, <1>3, <2>3, <3>1, TransitionWords DEF WorkOf
    <3>3. Cardinality(WorkOf(p)) = Cardinality(WorkOf(p)') + 1
      BY <3>2, OneMore, CountsAreFinite
    <3>4. UnloadsOf(p)' = UnloadsOf(p) \cup {h}
      <4>1. q # Idle /\ q.at = "unload" /\ q.seen.pro = p
        BY <1>4, <2>3
      <4>2. handlers' = [handlers EXCEPT ![h] = q] /\ HandlersSound /\ h \notin UnloadsOf(p)
        BY <1>4, <1>5 DEF Inv
      <4> HIDE <1>4
      <4> QED BY <4>1, <4>2, UnloadsMove
    <3>5. Cardinality(UnloadsOf(p)') = Cardinality(UnloadsOf(p)) + 1
      BY <1>5, <3>4, OneMore, CountsAreFinite
    <3> QED BY <2>1, <2>2, <3>3, <3>5
  <2>4. CASE ~(r.event = "APPROVE" /\ r.seen.pro = p)
    <3>1. UnloadsOf(p)' = UnloadsOf(p)
      BY <1>4, <1>5, <2>4, UnloadsMove DEF Inv
    <3>2. r.task \in WorkOf(p)' <=> r.task \in WorkOf(p)
      <4>1. CASE rows[r.task].pro = p
        <5>1. r.event # "APPROVE" /\ IsLegal(rows[r.task].status, r.event)
          BY <1>1, <1>6, <2>4, <4>1 DEF Sound
        <5> QED BY <1>2, <1>3, <4>1, <5>1, TransitionWords DEF WorkOf
      <4>2. CASE rows[r.task].pro # p
        BY <1>3, <4>2 DEF WorkOf
      <4> QED BY <4>1, <4>2
    <3>3. WorkOf(p)' = WorkOf(p)
      <4>1. \A t \in Tasks : t \in WorkOf(p)' <=> t \in WorkOf(p)
        BY <1>3, <3>2 DEF WorkOf
      <4> QED BY <4>1 DEF WorkOf
    <3> QED BY <2>1, <3>1, <3>3
  <2> QED BY <2>3, <2>4
<1> QED BY <1>7 DEF LoadIsWorkInHand

LEMMA UnloadCounts ==
    ASSUME Inv, LoadIsWorkInHand, NEW h \in Handlers, Unload(h)
    PROVE  LoadIsWorkInHand'
<1>1. PICK r : r = handlers[h] /\ Sound(r) /\ r.at = "unload" /\ r # Idle
  BY DEF Unload, At, Busy, Inv, HandlersSound
<1>2. r.seen.pro \in Pros
  BY <1>1 DEF Sound
<1>3. PICK q : q = Idle /\ handlers' = [handlers EXCEPT ![h] = q]
  <2>1. handlers' = [handlers EXCEPT ![h] = Idle]
    BY DEF Unload, End
  <2>2. PICK q : q = Idle
    OBVIOUS
  <2> QED BY <2>1, <2>2
<1>4. ASSUME NEW p \in Pros \ outdated', faults' = 0
      PROVE  load'[p] = Cardinality(WorkOf(p)') + Cardinality(UnloadsOf(p)')
  <2>1. load[p] = Cardinality(WorkOf(p)) + Cardinality(UnloadsOf(p))
    BY <1>4 DEF Unload, LoadIsWorkInHand
  <2>2. WorkOf(p)' = WorkOf(p) /\ h \notin UnloadsOf(p)'
    BY <1>3, UnloadsMove DEF Unload, WorkOf, Inv
  <2>3. /\ Cardinality(WorkOf(p)) \in Nat /\ Cardinality(UnloadsOf(p)) \in Nat
        /\ Cardinality(UnloadsOf(p)') \in Nat
    BY CountsAreFinite, FS_CardinalityType
  <2>4. CASE r.seen.pro = p
    <3>1. h \in UnloadsOf(p)
      BY <1>1, <2>4 DEF UnloadsOf, At, Busy
    <3>2. UnloadsOf(p) = UnloadsOf(p)' \cup {h}
      BY <1>3, <2>2, <3>1, UnloadsMove DEF Inv
    <3>3. Cardinality(UnloadsOf(p)) = Cardinality(UnloadsOf(p)') + 1
      BY <2>2, <3>2, OneMore, CountsAreFinite
    <3>4. load'[p] = load[p] - 1
      BY <1>1, <1>2, <2>4 DEF Unload, Inv, Tables
    <3> QED BY <2>1, <2>2, <2>3, <3>3, <3>4
  <2>5. CASE r.seen.pro # p
    <3>1. h \notin UnloadsOf(p)
      BY <1>1, <2>5 DEF UnloadsOf
    <3>2. UnloadsOf(p)' = UnloadsOf(p)
      BY <1>3, <2>2, <3>1, UnloadsMove DEF Inv
    <3>3. load'[p] = load[p]
      BY <1>1, <1>2, <2>5 DEF Unload, Inv, Tables
    <3> QED BY <2>1, <2>2, <3>2, <3>3
  <2> QED BY <2>4, <2>5
<1> QED BY <1>4 DEF LoadIsWorkInHand

LEMMA NextCounts == Inv /\ LoadIsWorkInHand /\ [Next]_vars => LoadIsWorkInHand'
<1> SUFFICES ASSUME Inv, LoadIsWorkInHand, [Next]_vars PROVE LoadIsWorkInHand'
  OBVIOUS
<1>1. CASE UNCHANGED vars
  BY <1>1, CountsStand DEF vars, WorkOf, UnloadsOf, At, Busy
<1>2. ASSUME NEW t \in Tasks, CreateTask(t) \/ CreateAssignment(t) PROVE LoadIsWorkInHand'
  <2>1. /\ UNCHANGED <<handlers, outdated, faults, load>>
        /\ \A u \in Tasks : \/ rows'[u] = rows[u]
                            \/ rows[u].pro = Nobody /\ rows'[u].pro = Nobody
    <3>1. CASE CreateTask(t)
      BY <3>1 DEF CreateTask
    <3>2. CASE CreateAssignment(t)
      <4>1. rows[t] \in RowType /\ rows[t].pro = Nobody
        <5>1. rows[t] \in RowType
          BY DEF Inv, Tables
        <5>2. rows[t].pro = Nobody
          BY <3>2 DEF CreateAssignment, NoRow
        <5> QED BY <5>1, <5>2
      <4> QED BY <3>2, <4>1 DEF CreateAssignment, Inv, Tables, RowType
    <3> QED BY <1>2, <3>1, <3>2
  <2>2. \A p \in Pros : WorkOf(p)' = WorkOf(p)
    BY <2>1, AssignmentsAssumption DEF WorkOf
  <2>3. \A p \in Pros : UnloadsOf(p)' = UnloadsOf(p)
    BY <2>1 DEF UnloadsOf, At, Busy
  <2> QED BY <2>1, <2>2, <2>3, CountsStand
<1>3. ASSUME NEW h \in Handlers, NEW q, handlers' = [handlers EXCEPT ![h] = q],
             handlers[h] = Idle \/ handlers[h].at # "unload", q = Idle \/ q.at # "unload",
             UNCHANGED <<outdated, faults, load>>,
             \A t \in Tasks : rows'[t].pro = rows[t].pro /\ rows'[t].status = rows[t].status
      PROVE  LoadIsWorkInHand'
  <2>1. \A p \in Pros : WorkOf(p)' = WorkOf(p)
    BY <1>3 DEF WorkOf
  <2>2. \A p \in Pros : UnloadsOf(p)' = UnloadsOf(p)
    <3>1. TAKE p \in Pros
    <3>2. h \notin UnloadsOf(p) /\ h \notin UnloadsOf(p)'
      BY <1>3, UnloadsMove DEF UnloadsOf, At, Busy, Inv
    <3> QED BY <1>3, <3>2, UnloadsMove DEF Inv
  <2> QED BY <1>3, <2>1, <2>2, CountsStand
<1>4. ASSUME NEW h \in Handlers, NEW t \in Tasks,
             \/ \E p \in Pros : RequestAssign(h, t, p)
             \/ \E event \in {"START", "DELIVER", "APPROVE"} : RequestEvent(h, t, event)
      PROVE  LoadIsWorkInHand'
  <2>1. handlers[h] = Idle /\ UNCHANGED <<rows, outdated, faults, load>>
    BY <1>4 DEF RequestAssign, RequestEvent, Busy
  <2>2. PICK q : handlers' = [handlers EXCEPT ![h] = q] /\ q.at # "unload"
    <3>1. CASE \E p \in Pros : RequestAssign(h, t, p)
      <4>1. PICK p : RequestAssign(h, t, p)
        BY <3>1
      <4>2. PICK q : q = Request("pro", "ASSIGN", t, p)
        OBVIOUS
      <4>3. q.at = "pro"
        BY <4>2 DEF Request
      <4> QED BY <4>1, <4>2, <4>3 DEF RequestAssign
    <3>2. CASE \E event \in {"START", "DELIVER", "APPROVE"} : RequestEvent(h, t, event)
      <4>1. PICK event : RequestEvent(h, t, event)
        BY <3>2
      <4>2. PICK at : at = IF event = "DELIVER" THEN "deliverable" ELSE "status"
        OBVIOUS
      <4>3. PICK q : q = Request(at, event, t, Nobody)
        OBVIOUS
      <4>4. q.at = at /\ at # "unload"
        BY <4>2, <4>3 DEF Request
      <4>5. handlers' = [handlers EXCEPT ![h] = q]
        BY <4>1, <4>2, <4>3 DEF RequestEvent
      <4> QED BY <4>4, <4>5
    <3> QED BY <1>4, <3>1, <3>2
  <2> QED BY <1>3, <2>1, <2>2
<1>5. ASSUME NEW h \in Handlers, ReadPro(h) PROVE LoadIsWorkInHand'
  <2>1. PICK r : r = handlers[h] /\ r \in RequestType /\ r.at = "pro"
    BY <1>5 DEF ReadPro, At, Busy, Inv, HandlersSound
  <2>2. PICK q : handlers' = [handlers EXCEPT ![h] = q] /\ (q = Idle \/ q.at # "unload")
    <3>1. CASE handlers' = [handlers EXCEPT ![h] = Idle]
      BY <3>1
    <3>2. CASE handlers' # [handlers EXCEPT ![h] = Idle]
      <4>1. PICK q : q = [r EXCEPT !.at = "assign", !.load = load[r.pro]]
        OBVIOUS
      <4>2. handlers' = [handlers EXCEPT ![h] = q]
        BY <1>5, <2>1, <3>2, <4>1 DEF ReadPro, End
      <4>3. q.at = "assign"
        BY <2>1, <4>1 DEF RequestType
      <4> QED BY <4>2, <4>3
    <3> QED BY <3>1, <3>2
  <2>3. UNCHANGED <<rows, outdated, faults, load>>
    BY <1>5 DEF ReadPro
  <2> QED BY <1>3, <2>1, <2>2, <2>3
<1>6. ASSUME NEW h \in Handlers, SetDeliverable(h) PROVE LoadIsWorkInHand'
  <2>1. PICK r : r = handlers[h] /\ r \in RequestType /\ r.at = "deliverable"
    BY <1>6 DEF SetDeliverable, At, Busy, Inv, HandlersSound
  <2>2. PICK q : q = [r EXCEPT !.at = "status"] /\ handlers' = [handlers EXCEPT ![h] = q] /\ q.at = "status"
    <3>1. PICK q : q = [r EXCEPT !.at = "status"]
      OBVIOUS
    <3>2. q.at = "status"
      BY <2>1, <3>1 DEF RequestType
    <3>3. handlers' = [handlers EXCEPT ![h] = q]
      BY <1>6, <2>1, <3>1 DEF SetDeliverable, GoTo
    <3> QED BY <3>1, <3>2, <3>3
  <2>3. \A t \in Tasks : rows'[t].pro = rows[t].pro /\ rows'[t].status = rows[t].status
    <3>1. \A t \in Tasks : rows[t] \in RowType
      BY DEF Inv, Tables
    <3> QED BY <1>6, <3>1 DEF SetDeliverable, Inv, Tables, RowType
  <2>4. UNCHANGED <<outdated, faults, load>>
    BY <1>6 DEF SetDeliverable
  <2> QED BY <1>3, <2>1, <2>2, <2>3, <2>4
<1>7. ASSUME NEW h \in Handlers, Die(h) PROVE LoadIsWorkInHand'
  BY <1>7 DEF Die, Inv, Tables, LoadIsWorkInHand
<1> QED BY <1>1, <1>2, <1>4, <1>5, <1>6, <1>7, AssignCounts, StatusCounts, UnloadCounts DEF Next, Step

\* active_assignments is the work a professional has in hand plus the approvals that have not
\* lowered it yet, for any number of requests, as long as nothing fails and none of his rows was
\* written on an outdated read: assign and approve write the counter and the row apart.
THEOREM LoadCounted == Spec => []LoadIsWorkInHand
<1>1. Init => LoadIsWorkInHand
  <2> SUFFICES ASSUME Init, NEW p \in Pros
               PROVE  load[p] = Cardinality(WorkOf(p)) + Cardinality(UnloadsOf(p))
    BY DEF LoadIsWorkInHand
  <2>1. WorkOf(p) = {} /\ UnloadsOf(p) = {}
    BY AssignmentsAssumption DEF Init, WorkOf, UnloadsOf, NoRow, At, Busy
  <2> QED BY <2>1, FS_EmptySet DEF Init
<1> QED BY <1>1, NextCounts, AlwaysInv, PTL DEF Spec

=============================================================================
