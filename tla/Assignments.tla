---------------------------- MODULE Assignments ----------------------------
(*****************************************************************************)
(* Work of professionals (apps/api/src/assignments, professionals,           *)
(* professional-me): an order spawns a task and an assignment per item, an   *)
(* administrator assigns a professional below his capacity, the work is      *)
(* started, delivered and approved.  Each handler decides on what it read    *)
(* and writes by id; professionals.active_assignments is a counter that      *)
(* assign raises and approve lowers.                                         *)
(*****************************************************************************)
EXTENDS Integers, FiniteSets

CONSTANTS
    Tasks,      \* service_tasks that orders may spawn; each has one assignment
    Pros,       \* professionals
    Handlers,   \* requests in flight at once
    Nobody,     \* professional_id is null
    Capacity,   \* professionals.max_concurrent
    MaxFaults   \* bound on requests that die between two statements

ASSUME AssignmentsAssumption ==
    /\ Nobody \notin Pros
    /\ Capacity \in [Pros -> Nat]
    /\ MaxFaults \in Nat

ASSUME FiniteAssumption == IsFiniteSet(Tasks) /\ IsFiniteSet(Handlers)

VARIABLES
    spawned,     \* service_tasks
    rows,        \* assignments, by the task they are for
    load,        \* professionals.active_assignments
    handlers,    \* what each request is doing
    outdated,    \* history: professionals some write touched on an outdated read
    crowded,     \* history: professionals assigned after their load had grown since it was read
    faults       \* how many faults have happened

vars == <<spawned, rows, load, handlers, outdated, crowded, faults>>

NoRow == [status |-> "ABSENT", pro |-> Nobody, deliverable |-> FALSE]

\* TRANSITIONS; REASSIGN and REJECT have entries there and no caller.
Transitions ==
    [ASSIGN  |-> [from |-> "REQUESTED", to |-> "ASSIGNED"],
     START   |-> [from |-> "ASSIGNED", to |-> "IN_PROGRESS"],
     DELIVER |-> [from |-> "IN_PROGRESS", to |-> "DELIVERED"],
     APPROVE |-> [from |-> "DELIVERED", to |-> "APPROVED"]]
IsLegal(s, event) == s = Transitions[event].from
nextAssignmentStatus(event) == Transitions[event].to

Idle == [at |-> "idle"]
Busy(h) == handlers[h] # Idle
At(h, place) == Busy(h) /\ handlers[h].at = place
\* A request: its next statement, its event, the row as it read it, and the professional chosen.
Request(at, event, t, p) ==
    [at |-> at, event |-> event, task |-> t, seen |-> rows[t], pro |-> p, load |-> 0]
GoTo(h, at) == handlers' = [handlers EXCEPT ![h].at = at]
End(h) == handlers' = [handlers EXCEPT ![h] = Idle]

\* Whether the status or the professional of a row changed since the handler read it; a write
\* of the handler then touches the professionals it knows of and those the row names now.
IsOutdated(h) ==
    LET seen == handlers[h].seen  now == rows[handlers[h].task]
    IN  seen.status # now.status \/ seen.pro # now.pro
Touched(h) == {handlers[h].seen.pro, rows[handlers[h].task].pro, handlers[h].pro} \cap Pros
NoteOutdated(h) == outdated' = outdated \cup (IF IsOutdated(h) THEN Touched(h) ELSE {})

Init ==
    /\ spawned = {}
    /\ rows = [t \in Tasks |-> NoRow]
    /\ load = [p \in Pros |-> 0]
    /\ handlers = [h \in Handlers |-> Idle]
    /\ outdated = {}
    /\ crowded = {}
    /\ faults = 0

-----------------------------------------------------------------------------
\* spawnForOrder and createTask: a task, then its assignment.  When the second insert fails the
\* task stays without one, and the order is placed all the same (createWithSubject logs it).

CreateTask(t) ==
    /\ t \notin spawned
    /\ spawned' = spawned \cup {t}
    /\ UNCHANGED <<rows, load, handlers, outdated, crowded, faults>>

CreateAssignment(t) ==
    /\ t \in spawned
    /\ rows[t] = NoRow
    /\ rows' = [rows EXCEPT ![t].status = "REQUESTED"]
    /\ UNCHANGED <<spawned, load, handlers, outdated, crowded, faults>>

-----------------------------------------------------------------------------
\* assign

\* load(): a status without ASSIGN throws in the end, and nothing was written.
RequestAssign(h, t, p) ==
    /\ ~Busy(h)
    /\ IsLegal(rows[t].status, "ASSIGN")
    /\ handlers' = [handlers EXCEPT ![h] = Request("pro", "ASSIGN", t, p)]
    /\ UNCHANGED <<spawned, rows, load, outdated, crowded, faults>>

\* Mutant of hasRoom: full only when more than full.
RoomForOneMore(p) == load[p] <= Capacity[p]
\* canAssign: AT_CAPACITY
hasRoom(p) == load[p] < Capacity[p]

\* professionals.get and canAssign.  Coverage, credentials and insurance are choices: they may
\* refuse a professional at any time.
ReadPro(h) ==
    /\ At(h, "pro")
    /\ \/ /\ hasRoom(handlers[h].pro)
          /\ handlers' = [handlers EXCEPT ![h].at = "assign", ![h].load = load[handlers[h].pro]]
       \/ End(h)
    /\ UNCHANGED <<spawned, rows, load, outdated, crowded, faults>>

\* Mutant of assignAtomic: the counter is written back as it was read, plus one.
AssignReadModifyWrite(h) ==
    /\ At(h, "assign")
    /\ LET t == handlers[h].task  p == handlers[h].pro
       IN  /\ rows' = [rows EXCEPT ![t].status = nextAssignmentStatus("ASSIGN"), ![t].pro = p]
           /\ load' = [load EXCEPT ![p] = handlers[h].load + 1]
           /\ crowded' = crowded \cup {q \in {p} : load[q] > handlers[h].load}
    /\ NoteOutdated(h)
    /\ End(h)
    /\ UNCHANGED <<spawned, faults>>

\* The transaction: the row by id, and active_assignments + 1.
assignAtomic(h) ==
    /\ At(h, "assign")
    /\ LET t == handlers[h].task  p == handlers[h].pro
       IN  /\ rows' = [rows EXCEPT ![t].status = nextAssignmentStatus("ASSIGN"), ![t].pro = p]
           /\ load' = [load EXCEPT ![p] = @ + 1]
           /\ crowded' = crowded \cup {q \in {p} : load[q] > handlers[h].load}
    /\ NoteOutdated(h)
    /\ End(h)
    /\ UNCHANGED <<spawned, faults>>

-----------------------------------------------------------------------------
\* start, deliver (of the administrator, and of the professional the row names) and approve

\* Mutant of RequestEvent: what was started is approved without a delivery.
RequestEventLoosely(h, t, event) ==
    /\ ~Busy(h)
    /\ IsLegal(rows[t].status, event) \/ <<event, rows[t].status>> = <<"APPROVE", "IN_PROGRESS">>
    /\ handlers' = [handlers EXCEPT ![h] =
          Request(IF event = "DELIVER" THEN "deliverable" ELSE "status", event, t, Nobody)]
    /\ UNCHANGED <<spawned, rows, load, outdated, crowded, faults>>

\* load() or ownedAssignment(), and nextAssignmentStatus or nextProAction.
RequestEvent(h, t, event) ==
    /\ ~Busy(h)
    /\ IsLegal(rows[t].status, event)
    /\ handlers' = [handlers EXCEPT ![h] =
          Request(IF event = "DELIVER" THEN "deliverable" ELSE "status", event, t, Nobody)]
    /\ UNCHANGED <<spawned, rows, load, outdated, crowded, faults>>

\* deliver writes what was delivered, then the status.
SetDeliverable(h) ==
    /\ At(h, "deliverable")
    /\ rows' = [rows EXCEPT ![handlers[h].task].deliverable = TRUE]
    /\ GoTo(h, "status")
    /\ UNCHANGED <<spawned, load, outdated, crowded, faults>>

\* Mutant of SetStatus: the word of another table.
SetStatusUnmapped(h) ==
    /\ At(h, "status")
    /\ rows' = [rows EXCEPT ![handlers[h].task].status =
                   IF handlers[h].event = "APPROVE" THEN "COMPLETED"
                   ELSE nextAssignmentStatus(handlers[h].event)]
    /\ NoteOutdated(h)
    /\ IF handlers[h].event = "APPROVE" THEN GoTo(h, "unload") ELSE End(h)
    /\ UNCHANGED <<spawned, load, crowded, faults>>

\* setStatus, by id; an approval goes on to the load of the professional it read.
SetStatus(h) ==
    /\ At(h, "status")
    /\ rows' = [rows EXCEPT ![handlers[h].task].status = nextAssignmentStatus(handlers[h].event)]
    /\ NoteOutdated(h)
    /\ IF handlers[h].event = "APPROVE" THEN GoTo(h, "unload") ELSE End(h)
    /\ UNCHANGED <<spawned, load, crowded, faults>>

\* incrementLoad(professionalId, -1)
Unload(h) ==
    /\ At(h, "unload")
    /\ load' = [load EXCEPT ![handlers[h].seen.pro] = @ - 1]
    /\ End(h)
    /\ UNCHANGED <<spawned, rows, outdated, crowded, faults>>

-----------------------------------------------------------------------------
\* The process dies, or a statement fails and the request ends.
Die(h) ==
    /\ Busy(h)
    /\ faults < MaxFaults
    /\ faults' = faults + 1
    /\ End(h)
    /\ UNCHANGED <<spawned, rows, load, outdated, crowded>>

-----------------------------------------------------------------------------
Step(h) ==
    \/ ReadPro(h) \/ assignAtomic(h)
    \/ SetDeliverable(h) \/ SetStatus(h) \/ Unload(h)

Next ==
    \/ \E t \in Tasks : CreateTask(t) \/ CreateAssignment(t)
    \/ \E h \in Handlers :
          \/ \E t \in Tasks, p \in Pros : RequestAssign(h, t, p)
          \/ \E t \in Tasks, event \in {"START", "DELIVER", "APPROVE"} : RequestEvent(h, t, event)
          \/ Step(h) \/ Die(h)

Spec == Init /\ [][Next]_vars

-----------------------------------------------------------------------------
\* Properties

Statuses == {"REQUESTED", "ASSIGNED", "IN_PROGRESS", "DELIVERED", "APPROVED"}
RowType == [status : Statuses \cup {"ABSENT"}, pro : Pros \cup {Nobody}, deliverable : BOOLEAN]
RequestType ==
    [at : {"pro", "assign", "deliverable", "status", "unload"}, event : DOMAIN Transitions,
     task : Tasks, seen : RowType, pro : Pros \cup {Nobody}, load : Int]

\* Every variable keeps its type; what is under way has a professional, and an approval read one.
TypeOK ==
    /\ spawned \subseteq Tasks
    /\ rows \in [Tasks -> RowType]
    /\ load \in [Pros -> Int]
    /\ handlers \in [Handlers -> {Idle} \cup RequestType]
    /\ outdated \subseteq Pros
    /\ crowded \subseteq Pros
    /\ faults \in 0 .. MaxFaults
    /\ \A t \in Tasks : rows[t].pro = Nobody <=> rows[t].status \in {"ABSENT", "REQUESTED"}
    /\ \A h \in Handlers :
          /\ At(h, "pro") \/ At(h, "assign") => handlers[h].pro \in Pros
          /\ At(h, "unload") => handlers[h].seen.pro \in Pros

\* What a professional has to do, and approvals that still have to lower his counter
WorkOf(p) == {t \in Tasks : rows[t].pro = p /\ rows[t].status # "APPROVED"}
UnloadsOf(p) == {h \in Handlers : At(h, "unload") /\ handlers[h].seen.pro = p}

\* active_assignments is what the professional really has to do, plus approvals that have not
\* lowered it yet: the counter and the rows are written by different statements of different
\* handlers.  Left out are professionals whose rows were written on an outdated read (two
\* approvals of one delivery, two assignments of one task), and runs with a fault.
LoadIsWorkInHand ==
    faults = 0 =>
        \A p \in Pros \ outdated :
            load[p] = Cardinality(WorkOf(p)) + Cardinality(UnloadsOf(p))

\* active_assignments never goes above max_concurrent ("Admins cannot override", docs/phase-11.md),
\* whatever is approved twice or fails meanwhile, unless another assignment of the same
\* professional slipped in between canAssign and the transaction.
UncrowdedFitCapacity ==
    \A p \in Pros \ crowded : load[p] <= Capacity[p]

\* An assignment goes its way by TRANSITIONS, one step at a time and never back from APPROVED,
\* unless it was written on an outdated read.
UndisturbedFollowsTransitions ==
    [][\A t \in Tasks :
          \/ rows'[t].status = rows[t].status
          \/ rows[t] = NoRow
          \/ \E event \in DOMAIN Transitions :
                /\ IsLegal(rows[t].status, event)
                /\ rows'[t].status = nextAssignmentStatus(event)
          \/ rows'[t].pro \in outdated']_vars

=============================================================================
