# EasyCasa: specifications of the API's concurrent core

EasyCasa is a property marketplace: a NestJS API (`apps/api`) over one
PostgreSQL database, a Meilisearch index and an object store, a stateless
Python service for OCR and language models (`services/ai`), and web, mobile
and admin clients. All the state worth arguing about is in the database, and
all the difficulty is in how API processes reach it: each HTTP handler,
webhook call and timer awaits several statements, usually outside a
transaction, and any number of them interleave.

The modules here model the parts of `apps/api/src` where that interleaving,
retries by others (Stripe, schedulers) or crashes decide whether the program
is right. TLC checks them on small instances, and TLAPS proves the safety
properties for every instance.

    tlc -workers 2 -config MCViewings.cfg MCViewings     (and likewise the others)
    tlapm ViewingsProofs.tla          (and ViewingNoticesProofs, AsteCreditsProofs,
                                       AstePipelineProofs, PaymentsProofs, AssignmentsProofs,
                                       EngagementsProofs, PublicationProofs)

## Inventory

| Component (under `apps/api/src`) | State | Operations and interactions | What is hard | What makes it correct |
|---|---|---|---|---|
| `viewings` bookings | `viewings`, `viewing_availability` | book, transition, reschedule by seeker or conductor, set availability | read, decide, write by id in three separate statements; a partial unique index is the only guard | no double booking of a seeker, capacities, the life cycle |
| `viewings` notices | mails and `.ics`, `ics_sequence`, `reminder_*_sent_at` | mails after each write, a reminder timer per process | mails overtaken or lost, crash between notify and mark, runs of the timer that overlap, a slot moved during a run | the calendar tells the truth, reminders in time and no more than the runs in flight |
| `aste` credits + Stripe webhook | `aste_credit_ledger`, `_balances`, `aste_report_unlocks`, `admin_audit_log` | grant on checkout, unlock a report, remove an analysis | webhook retries, double clicks, row locks, a second connection inside a transaction | credited once, paid once, never negative, answered only when committed |
| `aste` analysis pipeline | `aste_analyses`, `_documents`, `_doc_chunks` | create, upload, submit, claim, OCR, extract, embed, fail, recover, resubmit, rerun, remove | workers that die or are slow, no fencing token, check-then-act requests | exclusive claims, bounded attempts, complete results, progress |
| `payments`, `invoicing` | intents, webhook events, invoices | create an intent, webhook, refund, issue, transmit to SdI | event recorded before it is handled, double issue, two events of one intent, failure after create | every success invoiced once, nothing recorded that was not paid |
| `orders`, `mandate`, `aml`, `rentals` | orders, mandates, KYC cases, leases | order, request a signature, signature webhook, advance a case, register a lease | query-then-insert, a webhook that overtakes the request that caused it, escalations racing a registration | one paying side per property, no signature lost, no way round an escalation |
| `assignments`, `professionals`, `professional-me` | assignment status, load counters | assign (atomic), start, deliver, approve | double approve, capacity checked before the transaction | load is the work in hand and within the capacity |
| `listings` publication, `listing-boost`, `featured`, `search` | listing rows, boosts, the index | publish, unpublish, suspend, archive, checkout, refund, expire | two stores, rows overwritten on old reads, lazy expiry by readers | the index shows what is published, paid time is neither lost nor doubled |
| `billing` subscriptions | memberships | Stripe events | replayed and reordered events | entitlement follows the subscription |
| `listing-drafts`, `seller-quota`, saved searches | drafts, quota, alerts | create, edit, count | count-then-act quota | quota kept |
| `phone-verify` | challenges, users.phone | start, confirm | attempts counted by read-then-write, number changed under a verification | attempts bounded, verified number is the number |
| `whatsapp`, `messaging` | inbound dedupe, delivery statuses | webhook, post-processing, status updates | crash after dedupe, statuses out of order | every message handled |
| `privacy`, `fascicolo` | erasure outcomes, gates | fan-out over sources | partial failure | report says what was erased |
| `enquiries`, `crm`, `seller*`, `partners*`, `imports`, `media`, `avm`, `omi`, `users`, `authority`, `auth`, `analytics`, `notifications`, `email`, `config`, `demo`, `transactions`, `taxonomy` | rows of their own | mostly one statement per request | little | unit tests reach them |
| `services/ai`, `apps/web`, `apps/mobile`, `apps/admin`, `infra`, `migration` | none, or static | clients, containers, SQL | none of it concurrent state of its own | constraints in `migration/sql` are modelled where they are enforced |

The hazards, each at its line and with the properties aimed at it, are in
`PROJECT.json`.

## Modules

| Module | Models | Extends or uses |
|---|---|---|
| `Viewings` | booking handlers, one action per await | |
| `ViewingNotices` | composition: every action of `Viewings` with the mail it sends, the reminder scheduler, crashes | extends `Viewings` |
| `CreditLedger` | the abstract promise of the credits: three variables, two actions | |
| `AsteCredits` | the transactions, statement by statement | instantiates `CreditLedger` |
| `AstePipeline` | analyses, documents, workers, requests | |
| `Payments` | composition of intents, Stripe's webhook, refunds, invoices, SdI and the start of the order | |
| `Assignments` | tasks, assignments and load counters | |
| `Engagements` | composition of orders, mandates and their signature, KYC cases and lease registration | |
| `Publication` | composition of a listing's row, its document in the index, its boosts, Stripe's events for them and the expiry worker | |
| `ViewingsProofs`, `AsteCreditsProofs`, `AstePipelineProofs`, `PaymentsProofs`, `AssignmentsProofs`, `EngagementsProofs`, `PublicationProofs` | the proofs | the module of that name, TLAPS |
| `ViewingNoticesProofs` | the proofs about the composition | `ViewingNotices`, `ViewingsProofs` |
| `MC...` | constants for TLC | the module of that name |

Definitions preceded by a comment "Mutant" are wrong on purpose: variants of
one definition with a plausible bug. No action uses them; they show that the
property next to them can fail.

### Viewings: state and code

`viewing` is the table (`ABSENT` before the insert), `schedule` the weekly
availability flattened to a capacity per start (0 outside every window), `now`
the clock. `req[h]` is a request after its first await: the operation, the row
it acts on, the row as read, and what it has read since. A request of `book`
may read windows and occupancy in either order (`Promise.all`);
`RequestReschedule`/`RequestEvent` are the load of the row with the checks
made on it; `ReadWindows`, `ReadOccupancy` and `CountConfirmedAt` the reads;
`CommitBook`, `CommitReschedule`, `CommitEvent` the decision and the only
write, an update by id of whatever the row has become, which the unique index
of 0056 may refuse; `Refuse` is every error path and a dying process.
`validateBooking` is evaluated at the write because nothing is awaited between
them. Its `now` is the clock at the write: the code takes it in the same turn
of the event loop.

`stale`, `tainted` and `edited` are history variables: a handler is stale once
another one wrote while it was in flight, the state is tainted once a stale
handler wrote (from then on nobody is marked stale), `edited` once windows
changed under an active viewing or a request. Properties named `Isolated...`
hold while neither happened. That is a strong statement about the rules (they
suffice when requests do not overlap, and the abandoned and refused ones leave
nothing behind) and an honest one about the code, which takes no lock;
`ConfirmsFitCapacity` is the same promise without the proviso, and fails.

### ViewingNotices

`outbox` holds mails being sent, `calendar` the seeker's entry per viewing,
which takes a mail of the same or a later SEQUENCE. `Apply` mails the row as it
was read before the update, `Move` the row the update returned, as the code
does. `sweep[r]` is a run of `runOnce`, of the scheduler `by`. `SweepStart` is
the timer, which fires whatever earlier runs of its scheduler are doing, and
lists the 24h reminders; `SweepNotify`/`SweepMark` go through them one by one,
`SweepTurn` lists the 2h ones. `SweepMarkFails` and `SweepListFails` are the two
`catch` blocks. `Crash` empties everything that lives in a process; all
processes die together. The conductor's copies follow the same path and are not
modelled.

History: `rung` counts the reminders of the slot a viewing has now, `since` is
when it was confirmed, `peak` how many runs have been in flight at once.
`mismarked` are the marks that came to a viewing after it had moved since it
was listed, which suppress the reminder of the new slot. `late` says that a
timer fired while an earlier run of its scheduler was still at its 24h
reminders, so that its 2h ones were listed an interval or more after it began.

Assumed: timers fire on time (`Clock` waits for a timer that is due). `Runs`
bounds the runs in flight, so that TLC sees runs of up to that many intervals;
the theorems hold for any such set, hence for runs of any length.

### CreditLedger and AsteCredits

`tx[h]` is where a handler is in its transaction: `BEGIN` (waiting for a
connection), `CLAIM` (insert of the unique key, on conflict do nothing), `MOVE`
(upsert or conditional decrement of the balance), `RECORD` (ledger row of an
unlock), `AUDIT` (second connection), `COMMIT`, `REPLY`, or `SKIPPED`, a webhook
call that has no service to grant with. PostgreSQL at READ
COMMITTED is modelled by what these statements rely on: an insert of a key that
an open transaction inserted waits for it (`KeyIsFree`), an update of a balance
that an open transaction wrote waits (`BalanceIsFree`), and writes show at
`CommitTx`. `paid` and `acked` are Stripe's side: it calls until answered,
calls may overlap. `Wired` says whether `StripeService` was given an
`AsteCreditsService`; in the repository it is not (run `unwired`), which the
properties of the other runs do not depend on: they speak of what the service
returns and commits, and of calls being answered. The pool of the code is pg's,
of ten connections unless told otherwise, without a limit on waiting; requests
are not limited at all. `Exhausted` is a pool whose transactions all wait, for a
second connection or for the locks of one that does. `Fail` is a failed statement
or audit (rollback and a 500), `Crash` the death of the process. User deletion
is not modelled, and `Finish` is the pipeline as seen from here: an analysis
becomes ready once; a rerun of it does not concern the unlock.

### AstePipeline

`row` is the table, with the age of `processing_started_at` in place of the
time; `chunks[d]` counts the copies of a document's chunks, whole or partial.
A worker goes `claim`, `select`, `ocr`, `extract`, `wipe`, `embed`, `ready` or
`fail`, one await per step; each of them may throw (`Throw`), which leads to
`fail`. Requests are split at their
first read (`RequestUpload`, `RequestSubmit`, `RequestResubmit`,
`RequestRerun`) and their write (`InsertDoc`, `Submit`, `Reset`). A worker
starts no run while the previous one is going on, as the scheduler's `running`
flag has it. `disturbed` is history: analyses written to by someone who acted
on an earlier read while they had moved on, or reset or recovered while a
worker held them. Not modelled: the objects in MinIO, the lot label, and the
content of extractions.

### Payments

`orders`, `intents`, `claimed` and `invoices` are the tables (`claimed` is
`stripe_webhook_events`); `charge` and `events` are Stripe's side: the state of
its PaymentIntent, and the events it will call about until they are answered.
Calls for one event may overlap. `handlers[h].at` is the statement a handler
executes next: `claim` (the insert of the event id), `find`, `confirm` and
`settle` (the two `advance` calls), `lookup`, `create`, `transmit`, `protocol`
(`issueForOrder`), `read order`, `start` (`OrdersService.advance`, whose errors
the handler of a success swallows), and `refund`, `refunded` of
`PaymentsService.refund`. `Route` is what the branches and the transition table
make of a status found. A handler that throws ends unanswered, and the next
call finds the event claimed. `declined` is history. `OpenCharge` is one step:
nobody else knows the reference before the client has the secret. Amounts,
lines and VAT of a fattura are constant data and not modelled.

### Assignments

`rows` are the assignments by task, `load` is `active_assignments`. `ReadPro`
is `canAssign`; coverage, credentials and insurance are choices that may refuse.
`assignAtomic` is the transaction, `SetDeliverable`, `SetStatus` and `Unload`
the separate statements of deliver and approve, all by id. `outdated` collects
the professionals of rows written after they had changed since they were read,
`crowded` those whose load had grown between `canAssign` and the transaction.

### Engagements

One property and its lease; `orders` are the paid orders on it, whichever of
property and listing they name. `MandateService.requestSignature` is `envelope`
(the provider's call), `attach`, `sent`; `onSignatureCompleted` is `find`,
`mark`, `signed`, `open case`. The owner may sign as soon as the envelope
exists, and the provider calls until it is answered. `FindMandate` has three
outcomes: no mandate or DRAFT (an error, called again), SIGNED (answered), SENT.
`cases` are KYC cases by subject; `KycTransitions` is the table, `mustEscalate`
a sanctions hit. A registration checks the subjects one by one, opens the
tenant's case, submits, and stores the protocollo. `standing` is history inside
a registration: the cases that have been ESCALATED since before it began.
`raced`, `contended` and `doubled` say that two requests overlapped where the
code does not exclude it.

### Publication

One listing. `doc` is its document: whether a search shows it, and whether it
carries a boost weight. Publishing goes `update` (the row by id, which the
trigger of the first publication may refuse), `paused` and `resume` (each
paused boost by id), `weight`, `index`; unpublishing goes `update`, `active`
and `pause`, `remove`; a suspension of the owner skips the pause and an archive
touches the row only. Stripe's events insert or cancel a boost and patch the
document; they are claimed nowhere, so a second call does it all again. `Sweep`
and `SweepPatch` are the worker; `Look` is every reader that expires ended
boosts on its way. `used` is no column: it is what a boost has run so far, the
counterpart of `remaining_ms`. `history` names what the properties set apart:
boosts `outdated`, status changes that `crossed`, a `suspended` owner, an
expiry `swallowed` by a reader, a weight `blurred` because it was no longer
true when written.

## Runs

| Run | Instance | Shows |
|---|---|---|
| `bookings` | 2 viewings, 2 seekers, 2 starts closer than slot + buffer, 2 requests, one move each, clock to 1 | a seeker never holds a start twice; capacity-1 bookings do not overlap and the status follows TRANSITIONS unless a write was stale |
| `open_house` | 3 viewings, 3 seekers, one start of capacity 2 that the owner may turn into 1 and back, 2 requests | confirms fit the capacity unless stale or edited |
| `reminders` | 1 viewing, 1 request beside any number of mails, 1 move, 1 scheduler with 2 runs in flight, or with 1 and a fault, clock to 4 | a SEQUENCE names one start; a confirmed viewing is in the calendar; a slot rings once per run in flight and fault at most; it does ring, but for the mark of a former slot and late runs |
| `credits` | 1 user, 2 payments (packs of 1 and 3), 2 analyses, 2 handlers, 2 connections, 1 fault | the transactions implement `CreditLedger`; what is returned is committed, what is committed audited; every payment is answered in the end, unless the pool is exhausted |
| `unwired` | the same, `Wired = FALSE` | **violated**: answered and not granted |
| `pipeline` | 1 analysis, 2 documents, 2 workers, 2 requests in flight, 4 in all, 2 attempts, 1 stop | exclusive, bounded, complete, settled |
| `payments` | 1 order, 1 intent, 3 handlers, 1 invoice by hand, 1 fault | one fattura per payment, records backed by the charge, lawful statuses, and what is paid ends invoiced |
| `declined` | the same, 2 handlers, no fault | **violated**: a payment after a declined card is never settled |
| `assignments` | 2 tasks, professionals with room for 1 and for 2, 2 requests, 1 fault | load is the work in hand and fits, statuses are lawful |
| `engagements` | 1 mandate, 2 envelopes, 2 handlers, 4 requests, 1 fault | one side, cleared registrations, lawful mandates, no signature lost |
| `owner` | the same, no fault | **violated**: the owner's escalation does not stop the lease |
| `publication` | 1 checkout, 1 boost of 2 ticks, clock to 4, 3 status changes, 2 handlers, 1 fault | truthful search, one first publication, boost time kept |

Why the bounds are enough to be interesting. Every race in this code is
between a read and a write of one handler and the write of another, so two
requests in flight meet all of them pairwise; `payments` has three because two
calls for one success and one for a decline or a refund may be under way
together. Two starts are enough for an overlap and a move; capacity 2 with
three seekers is the smallest open house that can be overbooked. `Ids` bounds
the rows, and no booking is asked for once they are taken. One move gives two
SEQUENCE numbers, so that an old mail can meet a newer row. The reminder
windows of the `reminders` run are the narrowest that `WindowAssumption`
admits, two sweep intervals less one tick of the clock, which is one interval
where an interval is one tick; in the code they are four (2h) and eight (24h)
intervals wide. Two runs in flight are what it takes to ring twice and to be
late; a third one adds a ring of the same kind. `Bound` of `MCViewingNotices`
leaves out overlapping runs together with a fault or with mails that arrive, and
windows that change later on (the proofs leave out none of these). Two handlers
over two connections exhaust the pool in each way there is: both at their audit, or one
at its audit and one that waits for its locks. That a call waits for its first
connection takes a third handler; that instance, with one payment, passes too
and is left out for its length. Two payments and two analyses of one user contend
for one balance; one fault is enough to retry, and further ones repeat it. One
analysis is enough for claims, attempts and overtaking; that the oldest is
taken first is in the model and not exercised by that run. Two tasks and two
professionals let assignments compete for the last place and rows change hands.
Four requests of `engagements` are an order or a signature request with its
rival, an escalation and a registration. One boost pauses and resumes twice in
three changes; the instance with two boosts and a clock to 3 (3.9 million
states) passes too and is left out for its length, since boosts of one listing
meet only in the weight. `MaxRequests`, `MaxStops`, `MaxFaults`, `MaxNow`,
`MaxSeq`, `MaxManual`, `MaxEnvelopes`, `MaxTime`, `MaxBoosts` and `MaxChanges`
bound counters that only grow; `Runs`, `Handlers` and `Ids` what there may be at
once. Symmetry is used in safety runs only: `bookings`, `open_house`,
`reminders` and `publication`. Deadlock checking is off throughout: with bounded
clocks and counters, and with everything removed or answered, the systems may
really stop.

### Fairness

`AsteCredits`: strong fairness of each handler's next statement (the lock and
the pool queues are first in, first out, so a waiter that is repeatedly
possible is served) and of Stripe's deliveries (it retries until answered; the
faults are bounded, so some call meets none). Nothing is assumed of users, and
nothing of a pool that is exhausted.
`AstePipeline`: weak fairness of each worker's next step and of time: the timer
keeps firing, and every await of a run returns or throws. The calls to the AI
service have a timeout; reads from the object store set none, so for them it is
an assumption (a read that hangs leaves the scheduler's `running` flag set, and
that process claims nothing more). Users owe nothing: what is
submitted is settled without them, since the requests are bounded.
`Payments`: weak fairness of each handler's next statement, and of Stripe's
deliveries while some event is not answered. `Engagements`: weak fairness of
handlers' statements, and strong fairness of the provider's calls per envelope:
that every handler is busy at times is an effect of the bound on handlers, not
something the provider would give up on. Owners, clients and administrators owe
nothing. `Viewings`, `ViewingNotices`, `Assignments` and `Publication` state no
liveness: nothing obliges a party to act; that reminders are not missed is
stated as safety over the clock, and so is that the search catches up, as what
holds once the handlers are through.

## Proofs

`ViewingsProofs` (any sets of viewings, seekers, handlers, any schedules):

* `TypeCorrect`. `TypeOK` is not inductive alone, as a late `CommitEvent`
  writes a status decided on the row it had read. `Inv` adds `ActsOnRows` (a
  request acts on a row that exists, and rows never vanish) and
  `DecidedOnLegal` (what an event request saw has a transition for it). One
  lemma per writing action shows that the row it writes is well formed.
* `SeekerSlotUnique`, the one booking promise that survives every race: each
  of the three writes passes `uniqueIndexAdmits` for the row as it will be, and
  nothing else touches `viewing`.
* `LifecycleFollowed`, `ConfirmsFitCapacityIsolated` and
  `BookingsDoNotOverlapIsolated` need `Isolated`: `Inv`, finitely many rows (so
  that the occupancies that are counted are finite, however large `Ids` is) and
  `ReadsAreCurrent`. The latter says that, before the first write on stale
  data, whatever a handler that is not stale has read is still what the tables
  hold. A write keeps it because it makes every other handler stale, and an
  edit of the windows because the provisos name it. With it the decision of a
  write can be read as one about the present table.

`ViewingNoticesProofs` (the same, and any sets of schedulers and
runs, any intervals and windows that `WindowAssumption` admits):

* Every step of the composition takes the rows where a step of `Viewings` or a
  mark takes them, so `Inv` is kept. `NoticesInv` adds `Honest`: whatever a
  handler has seen, a letter says, a calendar shows or a scheduler has listed
  has at most the SEQUENCE of the row, and its start where they are equal. It
  holds at any degree of reordering, because rows only grow (`Grown`): a start
  changes only with a higher SEQUENCE. Types and honesty need each other, for a
  mark writes to a row because its reminder was listed from one.
  `NoticesTypeCorrect` and `InvitationsAreHonest` follow.
* `RingsBounded` adds `RungFor`. A run that has a viewing on its list, or one
  between its notification and its mark, is `Pending` for it; a run lists a
  viewing once (`ListsOnce`). While a reminder is not marked, whoever rang for it
  is at its mark still or has met a fault; once it is marked no run lists it
  again, so that only those that already had (`Ready`) can still ring.
* `CalendarsAreRight` adds `OnItsWay`: before the first write on stale data,
  handlers that are not stale decide on the present row, marks aside
  (`Fresh`); letters and entries about an active viewing are live (`Live`); and
  without faults the invitation to a confirmed viewing is in the calendar or in
  the outbox (`Told`).
* `NoWindowIsMissed` adds `OnTime`, that the clock waits for a timer that is
  due, `Earned`, that a mark which is no former slot's was rung for, and
  `Swept`: if a run listed since the window of a viewing opened, the seeker was
  told or a run is about to tell him (`Covered`). `LastListing` gives the
  earliest time of that listing; as the 2h list follows the 24h list of the same run, it may
  be an interval older than the timer's last call, unless the run was late,
  which `late` records. A window of two intervals therefore contains a listing,
  which is where `WindowAssumption` comes from.

`AsteCreditsProofs` (any users, payments, analyses, packs, handlers,
connections and faults, wired or not):

* `Inv` is `TypeOK` with `Exclusive` (handlers past their claim hold different
  keys, and handlers past the move belong to different users), `Fresh` (the key
  of a handler past its claim is not in the ledger yet, except that an unlock
  finds that out only at `RECORD`) and `Covered` (whoever holds a balance to
  spend a credit has one to spend). `TypeOK` says that balances are natural
  numbers, and a commit keeps them so only because of `Covered`, which in turn
  needs that nobody else moves the balance, `Exclusive`. A commit is the only
  step that moves credits; lemma `CommitEffect` says what it does, and
  `HoldNothing` and `MoveOn` dispatch the rest.
* `CreditsTypeCorrect`, `OpenReportsPaid` follow. `RepliesFollowCommits` says the
  same of the replies: a call replies on committing its key, or on finding it in
  a table, where only commits write and nothing takes a ledger row back, also
  when the report it opened is removed (`ReplyReached`). It holds with and
  without `Wired`; what the webhook makes of an absent service is the finding of
  the `unwired` run.
* `MovementsAreAudited` adds `Audited`: who is about to commit has its audit
  row. The row is written on another connection and survives a rollback, so
  that there may be more audit than ledger, never less.
* `BalanceCounted`. The sum of the ledger is stated as a count of single
  credits: `Bought(u)` pairs each grant with 1, 2, ... up to the size of its
  pack, `Spent(u)` are the unlocks. A sum over a set would be a recursion, and
  to prove something of it an induction over data; here a grant adds a set of
  as many pairs as its pack has, disjoint from what was there (`GrantCounts`,
  `PackSize`), and an unlock one key (`UnlockCounts`). `Counted` adds that both
  sets are finite.
* `LedgerImplemented`: a commit maps to `Grant` or `Open`, every other step to
  a stutter.

`AstePipelineProofs` (any analyses, documents, workers, requests and limits):

* `Inv` is `TypeOK`, `ClaimsAreExclusive` and three more. `TypeOK` alone is not
  inductive: `Ocr` writes the state of a document a worker read earlier, so
  `ClaimsAreOfDocs` says that such documents were inserted once, though they
  may be gone. `ClaimsAreOfRows` says the same of analyses, so that a new draft
  is nobody's work. `AttemptsAreLeft` says that an undisturbed analysis has at
  most the allowed attempts, fewer when it waits for a claim, none as a draft:
  that is what `Fail` and `RecoverStale` owe to the next `ClaimNext`, and
  `Fail` keeps it because the attempts it compares, those of its claim, are
  those of the row.
* Most steps claim nothing (`NoClaim`). `ClaimsKept` settles all of these at
  once: it is enough that an undisturbed analysis keeps status and attempts, is
  removed, or is written while nobody works on it. Only `ClaimNext` is done by
  hand. `WithinRun` says what the steps inside a run share.
* `PipelineTypeCorrect`, `ClaimsExclusive` and `AttemptsBounded` follow.
* `ReadyIndexedOnce` needs `IndexInv`. `HoldsOwn`: the documents of a worker are
  those of its analysis, removed ones aside. `OnCourse`: where nobody disturbed
  the analysis they are all of its documents, there is one, and each is as far
  as the worker's place says (`Far`: through OCR; wiped; embedded once). Every
  step of a run advances one document, and the exclusive claims of `Inv` keep
  the other workers off it; a request that touches documents of an analysis in
  work disturbs it. `ReadyIndexed` is what the last step of a run then leaves
  behind, and what no later step takes from an analysis that stays ready.

`PaymentsProofs` (any orders, intents, handlers, invoices by hand and faults):

* `Inv` is `Tables` (types), `EventsHappened` (an event that Stripe calls about
  tells the truth about the charge), `RecordsAreBacked` and `HandlersGood`.
  Neither `TypeOK` nor `RecordsAreBacked` is inductive alone: a handler writes
  SUCCEEDED, a fattura or the start of an order long after the event was sent,
  so `Good(r)` says that what a handler serves really happened, that a handler
  past the provider's refund has the money back at Stripe, and that the order
  it starts is the intent's. Charges, intents and declines never go back
  (`Grows`), so that good handlers stay good (`GoodStays`), and a step needs to
  be looked at only where it moves one handler (`MovesKeep`). The steps are
  grouped by what they write.
* `InvoicedOnce` adds `Claimed`: of all handlers of one success at most one is
  past its claim, its event is claimed, and while it is before the insert there
  is no invoice of the intent. Only `Claim` and `CreateInvoice` are more than
  bookkeeping.
* `UndeclinedFollows` adds `Fresh`: what a handler of an intent without a
  decline has decided is still lawful when it writes. `WriterIsAlone` is the
  point: before SUCCEEDED only the handler that holds the claim writes, after
  it only refunds do, and Stripe lets one of them through.

`AssignmentsProofs` (any finite sets of tasks and handlers, any professionals
and capacities):

* `Inv` is `Tables`, `HandlersSound` and `UncrowdedFitCapacity`. `Sound(r)`
  says that the event of a request is legal for the row it read, that a row
  which had a professional then still has one (`Unload` and `TypeOK` need it),
  and that who is about to assign has seen room: a load no higher than seen
  then fits after the increment, a higher one makes the professional crowded.
  `OutdatedOrLegal` is the lemma behind `UndisturbedFollows`: a write by id is
  decided on the row as it is, or the professionals it touches are in
  `outdated`.
* `LoadCounted` relates the counter to the cardinality of two sets, the work
  in hand and the approvals on their way. Each step changes each set by at most
  one element; `AssignCounts`, `StatusCounts` and `UnloadCounts` say which.

`EngagementsProofs` (any sets of mandates and handlers, any bounds):

* `Inv` is the types of the tables, `MandatesOK` (who is SENT or SIGNED may
  proceed and has an envelope, who is SIGNED has a date), `CasesOK` (a case
  with a sanctions hit is VERIFIED or CLEARED only after an escalation) and
  `Good(r)` for every handler: an order saw only orders of its own party, a
  signature request or signature webhook relies on what it found out about its
  mandate, an advance on the escalation it saw, a registration on there being
  no escalation that stands among the subjects it has looked up. None of it is
  taken back by the others (`GoodKept`), so that a step needs to be looked at
  where it moves one handler (`Combine`, `MoveOn`). `EngagementsTypeCorrect`
  follows.
* `OneSideHolds`: the orders that a handler saw are all there are unless a
  second one overlapped it, which is what `raced` records.
* `MandatesFollow` adds `Uncontended`: a mandate nobody contends for has one
  signature request at a time and stays DRAFT until it is through, so the write
  of SENT, by id, meets the DRAFT it was decided on. That of SIGNED does by
  `Good`.
* `RegistrationsAreCleared` adds `OneRegistration`: without overlap and faults
  there is one registration at a time, and nothing was submitted before it. The
  part about escalations is `Good`.

`PublicationProofs` (any sets of payments and handlers, any length of a boost,
any bounds):

* `Inv` is the types with `ListingOK` (a published listing has a first
  publication), `BoostsOK` (a boost runs no longer than its days, a paused one
  has a rest), `HandlersOK` and `Room`. A handler writes rows it read long ago,
  so `Sound(r)` says of those what `BoostsOK` says of the table, and `Task`
  that those it is to resume were paused and those it is to pause were running
  when it read them. `Room` counts the boosts about to be inserted and keeps
  the table within its bound. `PublicationTypeCorrect` and `PublicationDated`
  (with the trigger's refusal in `WriteRow`) follow.
* `SearchTells` is in two halves. What is shown: unless two status changes
  crossed, one handler changes the status at a time (`OneChanges`), the status
  is the one it wrote (`Settled`), and a document not about to be written shows
  it (`Shown`). What is ranked: a weight that nobody is about to correct has an
  active boost (`Earned`); most steps are settled by the lemmas that they touch
  neither (`Aside`, `Untouched`).
* `BoostTimeKept` adds `Kept` (used and remaining time make up the days, boosts
  written on old reads aside) and `PausedInTime`: after an unpublish a boost
  that still runs is one which a handler is about to pause, at the `now` it
  took when it started.

Every safety and every action property of the passing runs is a theorem, for
every value of the constants.

Only model-checked: liveness (`PaidIsAnswered`, `SubmittedIsSettled`,
`PaidIsFulfilled`, `SignedIsRecorded`), which TLAPS does not reach under
fairness, and the three violations, which are counterexamples.

Assumed by the proofs: the constants' assumptions, which TLC evaluates in each
run. `IntervalAssumption`, `ScheduleAssumption`, `CreditsAssumption`,
`PipelineAssumption`, `PaymentsAssumption`, `AssignmentsAssumption`,
`EngagementsAssumption`, `ReminderAssumption` and `PublicationAssumption` give
constants their types (`Schedulers`, `Runs`, `Payments`, `Users` and other sets
that are only ranged over are arbitrary; a clock has at least one tick in
`Publication`; packs hold at least one credit). `FiniteAssumption` says that the
tasks and handlers of `Assignments` are finitely many. `WindowAssumption` is the only one about values of the code: each reminder
window is at least two sweep intervals wide, less a tick.

## Findings

1. `unwired`: `import type` plus `@Optional()` leaves `StripeService` without
   the credits service; paid packs are answered and never granted.
2. `declined`: Stripe lets a client pay after a declined card, but the intent
   is FAILED by then, from where a success has no transition. The handler
   throws, the event is already claimed, and the payment is never recorded,
   invoiced or followed by the order's start.
3. `owner`: the case a signed mandate opens stands under
   `property:<id>:owner`; the registration of the lease asks for
   `property:<id>`, `lease:<id>` and the tenant, so that the owner's escalation
   does not stop it.

What the models showed besides, as counterexamples to the properties without the
provisos that now name these cases, and not kept as runs:

* `RemindersAreIdempotent` of `ViewingNotices`: `setInterval` starts a run
  whatever became of the one before, and a viewing is marked only after both
  recipients were notified. A run that lists it in between sends the reminder
  again, in one process and without a fault, where the scheduler's comment says
  "Idempotent via reminder_*_sent_at columns".
* `ConfirmedAreReminded` of `ViewingNotices`: the mark is an update by id. On a
  viewing that was moved since its reminder was listed it lands on the new slot,
  whose reminder is then never sent.
* `ConfirmsFitCapacity` of `Viewings`: two confirms each count before either
  writes, so an open house takes more visitors than 0056 allows.
* The audit row that `AsteCredits` writes on a second connection blocks a pool
  all of whose connections are held by such transactions for good (`Exhausted`,
  which `PaidIsAnswered` names as the only exception).
* A rerun may reset an analysis that has just become ready (`ReadyIsFinal` of
  `AstePipeline`), against its own refusal to do so.
* An overlapping second approval lowers a professional's load twice, and an
  approval that dies in between never lowers it.
* A lease is sent to the RLI twice by overlapping registrations, or after one
  that died before it stored the protocollo. A KYC case is lost when the
  process dies between SIGNED and its insert: the next call is answered.
* A reader that expires an ended boost takes it from the worker, which clears
  the rank only of what it expired itself. A redelivered checkout doubles a
  boost, also a refunded one. A resume on an old read revives a cancelled
  boost. The worker clears the rank of a listing whose next boost already runs.
  An archived listing stays in the index. A suspension pauses no boosts, and
  neither does an unpublish a boost that is paid while it runs.

## Not modelled

* Subscriptions (`syncSubscription` writes one row from each event; what an
  older event does when it comes last is listed as a hazard without a
  property), drafts and the quota of sellers, phone verification (attempts
  counted by a read and a write), WhatsApp and messaging (post-processing that a
  crash loses, statuses out of order): small state each, next in the plan.
* `charge.refunded` for packs of credits, the stored objects of analyses and
  media.
* Privacy erasure, fascicolo, valuation, OMI, imports, CRM, partners, seller
  journey, users, notifications: rows that one statement writes, pure functions
  and reads. Their correctness is about data, where unit tests reach.
* Clients, the AI service, containers, migration scripts, demo data: no
  concurrent state of their own. Constraints and triggers of the schema are
  modelled where a handler relies on them.

Most of the repository's lines are of the last two kinds; the modules cover
the services that hold state under concurrency.

## Plan

1. `Subscriptions`: memberships under replayed and reordered events. The quota
   of sellers beside `Publication`. Phone verification.
2. The stored objects of an analysis beside `AstePipeline`, and several
   analyses.
3. Proofs: further abstract promises with a refinement, such as a queue of jobs
   for `AstePipeline` or one record per payment for `Payments`, and the
   invariants of the modules of 1.
