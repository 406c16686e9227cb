--------------------------- MODULE ViewingNotices ---------------------------
(*****************************************************************************)
(* What the seeker of a viewing is told: the mails with an .ics attachment   *)
(* that the handlers of Viewings send after they wrote, and the reminders    *)
(* of viewings-reminder.scheduler.ts.  Mails of different handlers arrive    *)
(* in any order or never (notify is fail-soft), and the process may die      *)
(* between a write and its mail.  The conductor is told as well, but         *)
(* nothing he is told is checked.                                            *)
(*****************************************************************************)
EXTENDS Viewings

CONSTANTS
    Schedulers, \* instances of the reminder scheduler, one per API process
    Runs,       \* bound on the runs of runOnce in flight at once: nothing keeps a run of a
                \* scheduler from starting while an earlier one goes on
    RemLo,      \* kind |-> lower end of the reminder window before the start
    RemHi,      \* kind |-> upper end
    SweepEvery, \* INTERVAL_MS
    MaxFaults   \* bound on crashes and failed statements of the scheduler

ASSUME ReminderAssumption ==
    /\ RemLo \in [Kinds -> Nat]
    /\ RemHi \in [Kinds -> Nat]
    /\ SweepEvery \in Nat \ {0}
    /\ \A k \in Kinds : RemLo[k] <= RemHi[k]
    /\ MaxFaults \in Nat

\* A reminder window spans two sweep intervals: 2 h and 1 h against INTERVAL_MS = 15 min.
ASSUME WindowAssumption == \A k \in Kinds : RemHi[k] - RemLo[k] >= 2 * SweepEvery - 1

VARIABLES
    bySeeker,   \* whether the request of a handler came from the seeker himself
    outbox,     \* mails to the seeker whose sending is awaited
    calendar,   \* the seeker's calendar entry for each viewing
    sweep,      \* what each run of runOnce is doing
    lastSweep,  \* when the timer of each scheduler last fired
    rung,       \* history: reminders sent for the current slot of each viewing
    peak,       \* history: how many runs have been in flight at once
    mismarked,  \* history: marks on a viewing that was moved since its reminder was listed
    late,       \* history: a timer fired while a run of it was still at its 24h reminders
    since,      \* history: when each viewing was confirmed, while it is
    faults      \* history: how many crashes and failed statements there were

mailVars == <<bySeeker, outbox, calendar>>
sweepVars == <<sweep, lastSweep, peak, late>>
noticeVars == <<mailVars, sweepVars, rung, mismarked, since, faults>>
allVars == <<vars, noticeVars>>

-----------------------------------------------------------------------------
NoEntry == [seq |-> -1]
Asleep == [kind |-> "NONE"]
None == {}

\* Mutant: the SEQUENCE before the update.
MailOfPreviousSequence(row, live) == [seq |-> row.seq - 1, start |-> row.start, live |-> live]

\* icsAttachment: SEQUENCE and start of the row the sender holds; live is FALSE for CANCEL.
Mail(row, live) == [seq |-> row.seq, start |-> row.start, live |-> live]
Letter(v, row, live) == [id |-> v, mail |-> Mail(row, live)]

\* A calendar keeps its entry until a mail of the same or a later SEQUENCE arrives.
Filed(v, mail) ==
    IF mail.seq >= calendar[v].seq THEN [calendar EXCEPT ![v] = mail] ELSE calendar

\* Mutant: the sent marks are not looked at.
ListAllInWindow(kind) ==
    {[id |-> v, row |-> viewing[v]] :
        v \in {w \in Ids : /\ viewing[w].status = "CONFIRMED"
                           /\ viewing[w].start >= now + RemLo[kind]
                           /\ viewing[w].start <= now + RemHi[kind]}}

\* listDueReminders
listDueReminders(kind) ==
    {[id |-> v, row |-> viewing[v]] :
        v \in {w \in Ids : /\ viewing[w].status = "CONFIRMED"
                           /\ viewing[w].start >= now + RemLo[kind]
                           /\ viewing[w].start <= now + RemHi[kind]
                           /\ kind \notin viewing[w].sent}}

\* A run of scheduler t lists the reminders of a kind.
Sweep(t, kind) == [by |-> t, kind |-> kind, todo |-> listDueReminders(kind), cur |-> None]

InFlight == {r \in Runs : sweep[r] # Asleep}

NoticesInit ==
    /\ Init
    /\ bySeeker = [h \in Handlers |-> FALSE]
    /\ outbox = {}
    /\ calendar = [v \in Ids |-> NoEntry]
    /\ sweep = [r \in Runs |-> Asleep]
    /\ lastSweep = [t \in Schedulers |-> -SweepEvery]
    /\ rung = [v \in Ids |-> [k \in Kinds |-> 0]]
    /\ peak = 0
    /\ mismarked = {}
    /\ late = FALSE
    /\ since = [v \in Ids |-> 0]
    /\ faults = 0

-----------------------------------------------------------------------------
\* The handlers of Viewings, with the mail each write is followed by

\* Steps of a handler that tell the seeker nothing.
Quiet(h) ==
    /\ \/ \E p \in Seekers, s \in Starts : RequestBook(h, p, s)
       \/ ReadWindows(h)
       \/ ReadOccupancy(h)
       \/ CountConfirmedAt(h)
       \/ \E v \in Ids : CommitBook(h, v)
    /\ UNCHANGED noticeVars

Done(h) == bySeeker' = [bySeeker EXCEPT ![h] = FALSE]

Drop(h) ==
    /\ Refuse(h)
    /\ Done(h)
    /\ UNCHANGED <<outbox, calendar, sweepVars, rung, mismarked, since, faults>>

Ask(h, a, v) ==
    /\ \/ \E s \in Starts : RequestReschedule(h, a, v, s)
       \/ \E e \in Events : RequestEvent(h, a, v, e)
    /\ bySeeker' = [bySeeker EXCEPT ![h] = (a = viewing[v].seeker)]
    /\ UNCHANGED <<outbox, calendar, sweepVars, rung, mismarked, since, faults>>

\* reschedule, rescheduleAsOwner: the other party gets the row as updated.
Move(h, v) ==
    /\ CommitReschedule(h, v)
    /\ outbox' = IF bySeeker[h] THEN outbox ELSE outbox \cup {Letter(v, viewing'[v], TRUE)}
    /\ rung' = [rung EXCEPT ![v] = [k \in Kinds |-> 0]]
    /\ mismarked' = mismarked \ ({v} \X Kinds)
    /\ since' = [since EXCEPT ![v] = 0]
    /\ Done(h)
    /\ UNCHANGED <<calendar, sweepVars, faults>>

\* Mutant: only the first confirmation is mailed, not the one after a move.
MailFirstConfirmOnly(h, v, e) ==
    /\ CommitEvent(h, v, e)
    /\ outbox' = IF (e = "CONFIRM" /\ req[h].seen.seq = 0) \/ (e = "CANCEL" /\ ~bySeeker[h])
                 THEN outbox \cup {Letter(v, req[h].seen, e = "CONFIRM")} ELSE outbox
    /\ since' = IF viewing'[v].status = viewing[v].status THEN since
                ELSE [since EXCEPT ![v] = IF e = "CONFIRM" THEN now ELSE 0]
    /\ Done(h)
    /\ UNCHANGED <<calendar, sweepVars, rung, mismarked, faults>>

\* transitionInternal: the seeker gets the row as it was read, whatever it has become.
Apply(h, v, e) ==
    /\ CommitEvent(h, v, e)
    /\ outbox' = IF e = "CONFIRM" \/ (e = "CANCEL" /\ ~bySeeker[h])
                 THEN outbox \cup {Letter(v, req[h].seen, e = "CONFIRM")} ELSE outbox
    /\ since' = IF viewing'[v].status = viewing[v].status THEN since
                ELSE [since EXCEPT ![v] = IF e = "CONFIRM" THEN now ELSE 0]
    /\ Done(h)
    /\ UNCHANGED <<calendar, sweepVars, rung, mismarked, faults>>

\* notifier.notify sends the .ics mail.  It is fail-soft: a mail that fails is one that stays
\* in the outbox for ever.
Deliver(l) ==
    /\ outbox' = outbox \ {l}
    /\ calendar' = Filed(l.id, l.mail)
    /\ UNCHANGED <<vars, bySeeker, sweepVars, rung, mismarked, since, faults>>

-----------------------------------------------------------------------------
\* The reminder scheduler

\* The timer of scheduler t fires (and once at start-up), whatever earlier runs are doing:
\* a run r begins and lists the 24h reminders.
SweepStart(t, r) ==
    /\ r \notin InFlight
    /\ now >= lastSweep[t] + SweepEvery
    /\ lastSweep' = [lastSweep EXCEPT ![t] = now]
    /\ sweep' = [sweep EXCEPT ![r] = Sweep(t, "24h")]
    /\ peak' = IF Cardinality(InFlight) < peak THEN peak ELSE Cardinality(InFlight) + 1
    /\ late' = (late \/ \E q \in InFlight : sweep[q].by = t /\ sweep[q].kind = "24h")
    /\ UNCHANGED <<vars, mailVars, rung, mismarked, since, faults>>

\* Both recipients of the next listed viewing are notified, from the row as listed.
SweepNotify(r, d, delivered) ==
    /\ r \in InFlight
    /\ sweep[r].cur = None
    /\ d \in sweep[r].todo
    /\ sweep' = [sweep EXCEPT ![r].todo = @ \ {d}, ![r].cur = {d}]
    /\ calendar' = IF delivered THEN Filed(d.id, Mail(d.row, TRUE)) ELSE calendar
    /\ rung' = IF d.row.seq = viewing[d.id].seq
               THEN [rung EXCEPT ![d.id][sweep[r].kind] = @ + 1] ELSE rung
    /\ UNCHANGED <<vars, bySeeker, outbox, lastSweep, peak, late, mismarked, since, faults>>

\* markReminderSent: an update by id, of whatever row is there by now.
SweepMark(r, d) ==
    /\ r \in InFlight
    /\ sweep[r].cur = {d}
    /\ viewing' = [viewing EXCEPT ![d.id].sent = @ \cup {sweep[r].kind}]
    /\ mismarked' = IF d.row.seq # viewing[d.id].seq /\ sweep[r].kind \notin viewing[d.id].sent
                    THEN mismarked \cup {<<d.id, sweep[r].kind>>} ELSE mismarked
    /\ sweep' = [sweep EXCEPT ![r].cur = None]
    /\ UNCHANGED <<schedule, now, req, history, mailVars, lastSweep, peak, late, rung, since, faults>>

\* Mutant: the 2h reminders are never listed.
SleepAfter24h(r) ==
    /\ r \in InFlight
    /\ sweep[r].cur = None
    /\ sweep[r].todo = {}
    /\ sweep' = [sweep EXCEPT ![r] = Asleep]
    /\ UNCHANGED <<vars, mailVars, lastSweep, peak, late, rung, mismarked, since, faults>>

\* The 24h reminders are done: list the 2h ones, then end.
SweepTurn(r) ==
    /\ r \in InFlight
    /\ sweep[r].cur = None
    /\ sweep[r].todo = {}
    /\ sweep' = [sweep EXCEPT ![r] =
                    IF sweep[r].kind = "24h" THEN Sweep(sweep[r].by, "2h") ELSE Asleep]
    /\ UNCHANGED <<vars, mailVars, lastSweep, peak, late, rung, mismarked, since, faults>>

\* markReminderSent throws: the error is logged, the viewing stays unmarked.
SweepMarkFails(r, d) ==
    /\ faults < MaxFaults
    /\ r \in InFlight
    /\ sweep[r].cur = {d}
    /\ faults' = faults + 1
    /\ sweep' = [sweep EXCEPT ![r].cur = None]
    /\ UNCHANGED <<vars, mailVars, lastSweep, peak, late, rung, mismarked, since>>

\* listDueReminders throws: runOnce skips what is left of the run, all of it or the 2h reminders.
SweepListFails ==
    /\ faults < MaxFaults
    /\ faults' = faults + 1
    /\ \/ \E t \in Schedulers :
            /\ now >= lastSweep[t] + SweepEvery
            /\ lastSweep' = [lastSweep EXCEPT ![t] = now]
            /\ UNCHANGED sweep
       \/ \E r \in InFlight :
            /\ sweep[r].kind = "24h" /\ sweep[r].cur = None /\ sweep[r].todo = {}
            /\ sweep' = [sweep EXCEPT ![r] = Asleep]
            /\ UNCHANGED lastSweep
    /\ UNCHANGED <<vars, mailVars, peak, late, rung, mismarked, since>>

-----------------------------------------------------------------------------
\* The process dies and comes back: requests, mails and sweeps in flight are gone, and
\* onModuleInit sweeps at once.
Crash ==
    /\ faults < MaxFaults
    /\ faults' = faults + 1
    /\ req' = [h \in Handlers |-> Idle]
    /\ stale' = {}
    /\ bySeeker' = [h \in Handlers |-> FALSE]
    /\ outbox' = {}
    /\ sweep' = [r \in Runs |-> Asleep]
    /\ lastSweep' = [t \in Schedulers |-> now - SweepEvery]
    /\ UNCHANGED <<viewing, schedule, now, tainted, edited, calendar, rung, since>>
    /\ UNCHANGED <<peak, late, mismarked>>

\* Timers fire on time: the clock waits for a run that is due.
Clock ==
    /\ \A t \in Schedulers : now < lastSweep[t] + SweepEvery
    /\ Tick
    /\ UNCHANGED noticeVars

Publish == (\E sched \in Schedules : SetAvailability(sched)) /\ UNCHANGED noticeVars

NoticesNext ==
    \/ \E h \in Handlers :
         \/ Quiet(h)
         \/ Drop(h)
         \/ \E a \in Seekers \cup {Conductor, Owner}, v \in Ids : Ask(h, a, v)
         \/ \E v \in Ids : Move(h, v)
         \/ \E v \in Ids, e \in Events : Apply(h, v, e)
    \/ \E l \in outbox : Deliver(l)
    \/ \E t \in Schedulers, r \in Runs : SweepStart(t, r)
    \/ \E r \in InFlight :
         \/ SweepTurn(r)
         \/ \E d \in sweep[r].todo, delivered \in BOOLEAN : SweepNotify(r, d, delivered)
         \/ \E d \in sweep[r].cur : SweepMark(r, d) \/ SweepMarkFails(r, d)
    \/ SweepListFails
    \/ Crash
    \/ Clock
    \/ Publish

NoticesSpec == NoticesInit /\ [][NoticesNext]_allVars

-----------------------------------------------------------------------------
\* Properties

MailSet == [seq : Nat, start : Starts, live : BOOLEAN]
DueSet == [id : Ids, row : Row]
RunSet == [by : Schedulers, kind : Kinds, todo : SUBSET DueSet, cur : SUBSET DueSet]

\* Every variable has its type.
NoticesTypeOK ==
    /\ TypeOK
    /\ bySeeker \in [Handlers -> BOOLEAN]
    /\ outbox \subseteq [id : Ids, mail : MailSet]
    /\ calendar \in [Ids -> MailSet \cup {NoEntry}]
    /\ sweep \in [Runs -> {Asleep} \cup RunSet]
    /\ lastSweep \in [Schedulers -> (-SweepEvery)..MaxNow]
    /\ rung \in [Ids -> [Kinds -> Nat]]
    /\ peak \in Nat
    /\ mismarked \subseteq Ids \X Kinds
    /\ late \in BOOLEAN
    /\ since \in [Ids -> 0..MaxNow]
    /\ faults \in 0..MaxFaults

\* Everything that was, or is about to be, announced about viewing v.
Announced(v) ==
    {l.mail : l \in {m \in outbox : m.id = v}}
        \cup ({calendar[v]} \ {NoEntry})
        \cup {Mail(d.row, TRUE) :
                d \in {e \in UNION {sweep[r].todo \cup sweep[r].cur : r \in InFlight} : e.id = v}}

\* The SEQUENCE of an invitation identifies its start: although mails and reminders carry
\* the row as their sender saw it earlier, none announces a SEQUENCE ahead of the row's, nor
\* another start under the row's own ("stable UID + SEQUENCE", docs/ec-4-viewing-process.md).
SequenceFixesStart ==
    \A v \in Ids : \A m \in Announced(v) :
        /\ viewing[v] # Absent
        /\ m.seq <= viewing[v].seq
        /\ m.seq = viewing[v].seq => m.start = viewing[v].start

\* Whatever order the mails come in, a confirmed viewing all of whose mails have arrived is
\* in the seeker's calendar at the confirmed slot, as long as no handler wrote on stale data.
CalendarShowsConfirmed ==
    \A v \in Ids :
        (/\ viewing[v].status = "CONFIRMED"
         /\ ~tainted
         /\ faults = 0
         /\ \A l \in outbox : l.id # v)
            => calendar[v] = Mail(viewing[v], TRUE)

\* However runs overlap, of one scheduler or of several, a slot rings at most once for each run
\* that was in flight at the same time, and as often again per fault: once a reminder is marked,
\* only runs that had listed it before still ring.  Where runs do not overlap this is what the
\* scheduler promises, one reminder ("Idempotent via reminder_*_sent_at columns").
RingsAreBounded ==
    \A v \in Ids, k \in Kinds : rung[v][k] <= peak * (1 + faults)

\* "Idempotent via reminder_*_sent_at columns on the viewings row" (viewings-reminder.scheduler.ts)
\* of a single process: the promise without the count of runs, which no run checks: the timer
\* does not wait for the run before, and a second run rings before the first has marked.
RemindersAreIdempotent ==
    Cardinality(Schedulers) = 1 =>
        \A v \in Ids, k \in Kinds : rung[v][k] <= 1 + faults

\* A viewing that was confirmed before the window of a reminder opened, and still is when it
\* has closed, was not told of its slot, nor is it listed by a run.  2h reminders are not
\* expected where a run was late for them.
Missed(v, k) ==
    /\ viewing[v].status = "CONFIRMED"
    /\ since[v] < viewing[v].start - RemHi[k]
    /\ now > viewing[v].start - RemLo[k]
    /\ k = "2h" => ~late
    /\ rung[v][k] = 0
    /\ \A r \in InFlight : sweep[r].kind = k =>
          \A d \in sweep[r].todo : d.id = v => d.row.seq # viewing[v].seq

\* The seeker is reminded of the slot he has: no gap between two runs swallows a window, also
\* when the viewing moves while it is listed, except that the mark of its former slot, written
\* by id after the move, suppresses the reminder of the new one.  A fault may, too.
NoReminderWindowIsMissed ==
    faults = 0 /\ Schedulers # {} =>
        \A v \in Ids, k \in Kinds : <<v, k>> \notin mismarked => ~Missed(v, k)

\* "Fires 24h / 2h viewing reminders for CONFIRMED bookings" (viewings-reminder.scheduler.ts):
\* the promise without the proviso of the former slot's mark, which no run checks and which
\* that mark breaks.
ConfirmedAreReminded ==
    faults = 0 /\ Schedulers # {} => \A v \in Ids, k \in Kinds : ~Missed(v, k)

=============================================================================
