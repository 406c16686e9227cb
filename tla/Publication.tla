---------------------------- MODULE Publication ----------------------------
(*****************************************************************************)
(* One listing between its row, the search index and its boosts              *)
(* (apps/api/src/listings, listing-boost, featured, search, billing): the    *)
(* owner publishes and unpublishes, which pauses and resumes paid boosts;    *)
(* Stripe's events create and cancel boosts; a worker and the readers        *)
(* expire them.  Every handler writes by id what it decided on an earlier    *)
(* read, and the index is written last, outside any transaction.             *)
(*****************************************************************************)
EXTENDS Integers, Sequences, FiniteSets

CONSTANTS
    Payments,   \* checkout sessions for a boost that may be opened
    Handlers,   \* requests and webhook calls in flight at once
    Days,       \* how long a boost lasts, in ticks
    MaxTime,    \* bound on the clock
    MaxBoosts,  \* bound on listing_boost rows
    MaxChanges, \* bound on requests to publish, unpublish or suspend
    MaxFaults   \* bound on processes that die and calls that fail

ASSUME PublicationAssumption ==
    /\ Days \in Nat \ {0} /\ MaxTime \in Nat \ {0}
    /\ MaxBoosts \in Nat
    /\ MaxChanges \in Nat /\ MaxFaults \in Nat

VARIABLES
    listing,    \* status, first_published_at and unpublished_at of the row
    boosts,     \* listing_boost, in the order of insertion
    doc,        \* the document in Meilisearch
    sessions,   \* external: the checkout sessions
    events,     \* external: events that Stripe has not had answered yet
    now,        \* the clock
    handlers,   \* what each handler is doing
    worker,     \* what ListingBoostExpireWorker is doing
    history,    \* history: what the properties set apart (see Init)
    changes,    \* how many requests to change the status there were
    faults      \* how many faults have happened

vars == <<listing, boosts, doc, sessions, events, now, handlers, worker, history, changes, faults>>
stripe == <<sessions, events>>
counters == <<changes, faults>>

null == 0

Init ==
    /\ listing = [status |-> "draft", first |-> null, unpublished |-> null]
    /\ boosts = <<>>
    /\ doc = [shown |-> FALSE, boosted |-> FALSE]
    /\ sessions = [p \in Payments |-> "none"]
    /\ events = {}
    /\ now = 1
    /\ handlers = [h \in Handlers |-> [at |-> "idle"]]
    /\ worker = "idle"
    /\ history = [outdated  |-> {},      \* boosts written on an outdated read
                  crossed   |-> FALSE,   \* two requests changed the status at once
                  suspended |-> FALSE,   \* the owner's suspension unpublished the listing
                  swallowed |-> FALSE,   \* a reader expired a boost, so that the worker did not
                  blurred   |-> FALSE]   \* a weight was written that was no longer true
    /\ changes = 0 /\ faults = 0

Idle == [at |-> "idle"]
Busy(h) == handlers[h] # Idle
At(h, place) == Busy(h) /\ handlers[h].at = place
\* A handler: its next statement, what it serves, the payment, the first publication as it read
\* it, its `now`, the boosts still to be written as it read them, and the weight it will write.
Handler(at, for, p, first, t) ==
    [at |-> at, for |-> for, payment |-> p, first |-> first, now |-> t,
     todo |-> {}, rows |-> <<>>, weight |-> FALSE]
GoTo(h, at) == handlers' = [handlers EXCEPT ![h].at = at]
End(h) == handlers' = [handlers EXCEPT ![h] = Idle]

Changing == {"publish", "unpublish", "suspend"}
IsChanging(h) == Busy(h) /\ handlers[h].for \in Changing
Cross == history' = [history EXCEPT !.crossed = @ \/ \E h \in Handlers : IsChanging(h)]

-----------------------------------------------------------------------------
\* Boosts: listingBoost.ts and the statements of ListingBoostService

isBoostActive(b, t) == b.status = "active" /\ b.starts <= t /\ t < b.ends
remainingBoostMs(b, t) == IF b.ends > t THEN b.ends - t ELSE 0
IsEnded(b) == b.status = "active" /\ b.ends < now
\* expireEnded: one update of every active row whose end has passed.
expireEnded ==
    boosts' = [i \in DOMAIN boosts |->
                  IF IsEnded(boosts[i]) THEN [boosts[i] EXCEPT !.status = "expired"] ELSE boosts[i]]
SomeEnded == \E i \in DOMAIN boosts : IsEnded(boosts[i])
IsBoosted == \E i \in DOMAIN boosts : isBoostActive(boosts[i], now)

\* The doc's boost fields are written: they are blurred when the weight is no longer true.
NoteWeight(w) == history' = [history EXCEPT !.blurred = @ \/ w # IsBoosted]

-----------------------------------------------------------------------------
\* The clock, Stripe, and readers

Tick ==
    /\ now < MaxTime
    /\ now' = now + 1
    /\ UNCHANGED <<listing, boosts, doc, stripe, handlers, worker, history, counters>>

\* featured checkout: the listing is published and not boosted (which expires what has ended).
\* The session may be paid at any later time, whatever was read before it was opened.
Checkout(p) ==
    /\ sessions[p] = "none"
    /\ listing.status = "published"
    /\ ~IsBoosted
    /\ sessions' = [sessions EXCEPT ![p] = "open"]
    /\ expireEnded
    /\ history' = [history EXCEPT !.swallowed = @ \/ SomeEnded]
    /\ UNCHANGED <<listing, doc, events, now, handlers, worker, counters>>

\* External: the client pays; support refunds.
Pay(p) ==
    /\ sessions[p] = "open"
    /\ sessions' = [sessions EXCEPT ![p] = "paid"]
    /\ events' = events \cup {[payment |-> p, type |-> "checkout"]}
    /\ UNCHANGED <<listing, boosts, doc, now, handlers, worker, history, counters>>

Refund(p) ==
    /\ sessions[p] = "paid"
    /\ sessions' = [sessions EXCEPT ![p] = "refunded"]
    /\ events' = events \cup {[payment |-> p, type |-> "refund"]}
    /\ UNCHANGED <<listing, boosts, doc, now, handlers, worker, history, counters>>

\* isListingBoosted and activeBoostForListing of the detail page and the seller's dashboard:
\* reads that expire what has ended, and tell the index nothing.
Look ==
    /\ SomeEnded
    /\ expireEnded
    /\ history' = [history EXCEPT !.swallowed = TRUE]
    /\ UNCHANGED <<listing, doc, stripe, now, handlers, worker, counters>>

-----------------------------------------------------------------------------
\* Publishing

\* findById and applyPublish
RequestPublish(h) ==
    /\ ~Busy(h)
    /\ changes < MaxChanges /\ changes' = changes + 1
    /\ listing.status \in {"draft", "unpublished"}
    /\ handlers' = [handlers EXCEPT ![h] = Handler("update", "publish", null, listing.first, now)]
    /\ Cross
    /\ UNCHANGED <<listing, boosts, doc, stripe, now, worker, faults>>

\* firstPublishedAt: existing.firstPublishedAt ?? now
FirstOf(h) == IF handlers[h].first = null THEN handlers[h].now ELSE handlers[h].first
\* listings_protect_first_published_at
TriggerAdmits(first) == listing.first \in {null, first}

\* Mutant of UpdatePublished: the database has no trigger.
UpdateWithoutTrigger(h) ==
    /\ At(h, "update") /\ handlers[h].for = "publish"
    /\ listing' = [status |-> "published", first |-> FirstOf(h), unpublished |-> null]
    /\ GoTo(h, "paused")
    /\ UNCHANGED <<boosts, doc, stripe, now, worker, history, counters>>

\* Mutant of UpdatePublished: the first publication is left to a later update.
PublishUndated(h) ==
    /\ At(h, "update") /\ handlers[h].for = "publish"
    /\ listing' = [listing EXCEPT !.status = "published", !.unpublished = null]
    /\ GoTo(h, "paused")
    /\ UNCHANGED <<boosts, doc, stripe, now, worker, history, counters>>

\* repo.update by id; the trigger may raise, and the request ends in an error.
UpdatePublished(h) ==
    /\ At(h, "update") /\ handlers[h].for = "publish"
    /\ \/ /\ TriggerAdmits(FirstOf(h))
          /\ listing' = [status |-> "published", first |-> FirstOf(h), unpublished |-> null]
          /\ handlers' = [handlers EXCEPT ![h] = Handler("paused", "publish", null, null, null)]
          /\ history' = [history EXCEPT !.suspended = FALSE]
       \/ /\ ~TriggerAdmits(FirstOf(h))
          /\ End(h)
          /\ UNCHANGED <<listing, history>>
    /\ UNCHANGED <<boosts, doc, stripe, now, worker, counters>>

\* resumeForListing reads its clock and the paused rows.
ReadPaused(h) ==
    /\ At(h, "paused")
    /\ LET paused == {i \in DOMAIN boosts : boosts[i].status = "paused"}
       IN  handlers' = [handlers EXCEPT ![h] =
               IF paused = {} THEN [@ EXCEPT !.at = "weight"]
               ELSE [@ EXCEPT !.at = "resume", !.now = now, !.todo = paused, !.rows = boosts]]
    /\ UNCHANGED <<listing, boosts, doc, stripe, now, worker, history, counters>>

\* One row of a loop is written by id, whatever it has become; the last one goes on to `next`.
WriteRow(h, i, row, next) ==
    /\ boosts' = [boosts EXCEPT ![i] = row]
    /\ history' = [history EXCEPT !.outdated =
                      IF boosts[i] = handlers[h].rows[i] THEN @ ELSE @ \cup {i}]
    /\ LET r == handlers[h]
       IN  handlers' = [handlers EXCEPT ![h] = IF r.todo = {i}
                                               THEN Handler(next, r.for, null, null, null)
                                               ELSE [r EXCEPT !.todo = @ \ {i}]]

\* Mutant of Resume: the boost starts again with its full length.
ResumeInFull(h, i) ==
    /\ At(h, "resume") /\ i \in handlers[h].todo
    /\ LET t == handlers[h].now
       IN  WriteRow(h, i, [boosts[i] EXCEPT !.status = "active", !.starts = t, !.ends = t + Days,
                                            !.remaining = null], "weight")
    /\ UNCHANGED <<listing, doc, stripe, now, worker, counters>>

Resume(h, i) ==
    /\ At(h, "resume") /\ i \in handlers[h].todo
    /\ LET t == handlers[h].now  remaining == handlers[h].rows[i].remaining
       IN  WriteRow(h, i, IF remaining = null
                          THEN [boosts[i] EXCEPT !.status = "expired", !.remaining = null]
                          ELSE [boosts[i] EXCEPT !.status = "active", !.starts = t,
                                                 !.ends = t + remaining, !.remaining = null],
                    "weight")
    /\ UNCHANGED <<listing, doc, stripe, now, worker, counters>>

\* boostWeightForListing, for the document of a published listing or a patch.  The call of
\* isListingBoosted that follows it in indexPublishedListing is a Look.
ReadWeight(h) ==
    /\ At(h, "weight")
    /\ expireEnded
    /\ handlers' = [handlers EXCEPT ![h].at = IF handlers[h].for = "publish" THEN "index" ELSE "patch",
                                    ![h].weight = IsBoosted]
    /\ UNCHANGED <<listing, doc, stripe, now, worker, history, counters>>

\* addDocuments: the whole document.
Index(h) ==
    /\ At(h, "index")
    /\ doc' = [shown |-> TRUE, boosted |-> handlers[h].weight]
    /\ NoteWeight(handlers[h].weight)
    /\ End(h)
    /\ UNCHANGED <<listing, boosts, stripe, now, worker, counters>>

-----------------------------------------------------------------------------
\* Unpublishing, by the owner or because an administrator suspends the owner; archiving

RequestUnpublish(h, for) ==
    /\ ~Busy(h)
    /\ changes < MaxChanges /\ changes' = changes + 1
    /\ listing.status = "published"
    /\ handlers' = [handlers EXCEPT ![h] = Handler("update", for, null, null, now)]
    /\ Cross
    /\ UNCHANGED <<listing, boosts, doc, stripe, now, worker, faults>>

\* By id, with the time read at the request; a suspension does not pause the boosts.
UpdateUnpublished(h) ==
    /\ At(h, "update") /\ handlers[h].for \in {"unpublish", "suspend"}
    /\ listing' = [listing EXCEPT !.status = "unpublished", !.unpublished = handlers[h].now]
    /\ GoTo(h, IF handlers[h].for = "unpublish" THEN "active" ELSE "remove")
    /\ history' = [history EXCEPT !.suspended = handlers[h].for = "suspend"]
    /\ UNCHANGED <<boosts, doc, stripe, now, worker, counters>>

\* pauseForListing reads the active rows, and passes over those not running at the request's time.
ReadActive(h) ==
    /\ At(h, "active")
    /\ LET running == {i \in DOMAIN boosts : isBoostActive(boosts[i], handlers[h].now)}
       IN  handlers' = [handlers EXCEPT ![h] =
               IF running = {} THEN [@ EXCEPT !.at = "remove", !.now = null]
               ELSE [@ EXCEPT !.at = "pause", !.todo = running, !.rows = boosts]]
    /\ UNCHANGED <<listing, boosts, doc, stripe, now, worker, history, counters>>

\* `used` is what of the boost has run so far; no column, but what remaining_ms leaves out.
Pause(h, i) ==
    /\ At(h, "pause") /\ i \in handlers[h].todo
    /\ LET t == handlers[h].now  row == handlers[h].rows[i]
       IN  WriteRow(h, i, [boosts[i] EXCEPT !.status = "paused", !.remaining = remainingBoostMs(row, t),
                                            !.used = @ + t - row.starts], "remove")
    /\ UNCHANGED <<listing, doc, stripe, now, worker, counters>>

\* deleteDocument
Remove(h) ==
    /\ At(h, "remove")
    /\ doc' = [shown |-> FALSE, boosted |-> FALSE]
    /\ End(h)
    /\ UNCHANGED <<listing, boosts, stripe, now, worker, history, counters>>

\* The administrator's archive, or a report decided as 'removed': the row only.
Archive ==
    /\ listing.status # "archived"
    /\ listing' = [listing EXCEPT !.status = "archived"]
    /\ Cross
    /\ UNCHANGED <<boosts, doc, stripe, now, handlers, worker, counters>>

-----------------------------------------------------------------------------
\* Stripe's webhook for boosts: no claim, so that a second call of one event does it all again

Inserting == {h \in Handlers : At(h, "insert")}

Deliver(h, e) ==
    /\ ~Busy(h)
    /\ e \in events
    /\ e.type = "checkout" => Len(boosts) + Cardinality(Inserting) < MaxBoosts
    /\ handlers' = [handlers EXCEPT ![h] =
          Handler(IF e.type = "checkout" THEN "insert" ELSE "cancel", e.type, e.payment, null, null)]
    /\ UNCHANGED <<listing, boosts, doc, stripe, now, worker, history, counters>>

Answer(h) ==
    /\ End(h)
    /\ events' = events \ {[payment |-> handlers[h].payment, type |-> handlers[h].for]}

\* activateFromPayment, whatever has become of the listing.
InsertBoost(h) ==
    /\ At(h, "insert")
    /\ boosts' = Append(boosts, [ref |-> handlers[h].payment, status |-> "active", starts |-> now,
                                 ends |-> now + Days, remaining |-> null, used |-> 0])
    /\ GoTo(h, "weight")
    /\ UNCHANGED <<listing, doc, stripe, now, worker, history, counters>>

\* Mutant of CancelByRef: the ranking is left to the next full index.
CancelUnpatched(h) ==
    /\ At(h, "cancel")
    /\ boosts' = [i \in DOMAIN boosts |->
                     IF boosts[i].ref = handlers[h].payment /\ boosts[i].status \in {"active", "paused"}
                     THEN [boosts[i] EXCEPT !.status = "cancelled", !.ends = now, !.remaining = null]
                     ELSE boosts[i]]
    /\ Answer(h)
    /\ UNCHANGED <<listing, doc, sessions, now, worker, history, counters>>

\* cancelByPaymentRef; the document is patched only when some row was cancelled.
CancelByRef(h) ==
    /\ At(h, "cancel")
    /\ LET cancelled == {i \in DOMAIN boosts : /\ boosts[i].ref = handlers[h].payment
                                               /\ boosts[i].status \in {"active", "paused"}}
       IN  /\ boosts' = [i \in DOMAIN boosts |->
                            IF i \in cancelled
                            THEN [boosts[i] EXCEPT !.status = "cancelled", !.ends = now, !.remaining = null]
                            ELSE boosts[i]]
           /\ IF cancelled = {} THEN Answer(h) ELSE GoTo(h, "patch") /\ UNCHANGED events
    /\ UNCHANGED <<listing, doc, sessions, now, worker, history, counters>>

\* Mutant of Patch: addDocuments instead of updateDocuments leaves nothing but the weight.
PatchReplaces(h) ==
    /\ At(h, "patch")
    /\ doc' = [shown |-> FALSE, boosted |-> handlers[h].weight]
    /\ NoteWeight(handlers[h].weight)
    /\ Answer(h)
    /\ UNCHANGED <<listing, boosts, sessions, now, worker, counters>>

\* patchBoost: a document that is not there comes to hold these fields alone, and no search,
\* which asks for status = published, shows it.
Patch(h) ==
    /\ At(h, "patch")
    /\ doc' = [doc EXCEPT !.boosted = handlers[h].weight]
    /\ NoteWeight(handlers[h].weight)
    /\ Answer(h)
    /\ UNCHANGED <<listing, boosts, sessions, now, worker, counters>>

-----------------------------------------------------------------------------
\* ListingBoostExpireWorker.tick

Sweep ==
    /\ worker = "idle"
    /\ SomeEnded
    /\ expireEnded
    /\ worker' = "patch"
    /\ UNCHANGED <<listing, doc, stripe, now, handlers, history, counters>>

\* The weight goes to 0 even if another boost has begun meanwhile.
SweepPatch ==
    /\ worker = "patch"
    /\ doc' = [doc EXCEPT !.boosted = FALSE]
    /\ NoteWeight(FALSE)
    /\ worker' = "idle"
    /\ UNCHANGED <<listing, boosts, stripe, now, handlers, counters>>

-----------------------------------------------------------------------------
\* Faults: a request or the worker dies, or a statement fails and ends it; Meilisearch or the
\* pause fails and an unpublish goes on; a failed patch of a webhook is answered all the same.

Fault == faults < MaxFaults /\ faults' = faults + 1

Die(h) ==
    /\ Busy(h)
    /\ Fault
    /\ End(h)
    /\ UNCHANGED <<listing, boosts, doc, stripe, now, worker, history, changes>>

PauseFails(h) ==
    /\ At(h, "active") \/ At(h, "pause")
    /\ Fault
    /\ GoTo(h, "remove")
    /\ UNCHANGED <<listing, boosts, doc, stripe, now, worker, history, changes>>

PatchFails(h) ==
    /\ At(h, "patch")
    /\ Fault
    /\ Answer(h)
    /\ UNCHANGED <<listing, boosts, doc, sessions, now, worker, history, changes>>

WorkerDies ==
    /\ worker = "patch"
    /\ Fault
    /\ worker' = "idle"
    /\ UNCHANGED <<listing, boosts, doc, stripe, now, handlers, history, changes>>

-----------------------------------------------------------------------------
Step(h) ==
    \/ UpdatePublished(h) \/ ReadPaused(h)
    \/ \E i \in DOMAIN boosts : Resume(h, i) \/ Pause(h, i)
    \/ ReadWeight(h) \/ Index(h)
    \/ UpdateUnpublished(h) \/ ReadActive(h) \/ Remove(h)
    \/ InsertBoost(h) \/ CancelByRef(h) \/ Patch(h)

Next ==
    \/ Tick \/ Look \/ Archive
    \/ \E p \in Payments : Checkout(p) \/ Pay(p) \/ Refund(p)
    \/ \E h \in Handlers :
          \/ RequestPublish(h)
          \/ \E for \in {"unpublish", "suspend"} : RequestUnpublish(h, for)
          \/ \E e \in events : Deliver(h, e)
          \/ Step(h)
          \/ Die(h) \/ PauseFails(h) \/ PatchFails(h)
    \/ Sweep \/ SweepPatch \/ WorkerDies

Spec == Init /\ [][Next]_vars

-----------------------------------------------------------------------------
\* Properties

Times == 0 .. MaxTime
ListingType ==
    [status : {"draft", "published", "unpublished", "archived"}, first : Times, unpublished : Times]
BoostType ==
    [ref : Payments, status : {"active", "paused", "cancelled", "expired"}, starts : Times,
     ends : 0 .. MaxTime + Days, remaining : 0 .. Days, used : Int]
HandlerType ==
    [at : {"update", "paused", "resume", "weight", "index", "active", "pause", "remove",
           "insert", "cancel", "patch"},
     for : Changing \cup {"checkout", "refund"}, payment : Payments \cup {null},
     first : Times, now : Times, todo : SUBSET (1 .. MaxBoosts), rows : Seq(BoostType),
     weight : BOOLEAN]

\* Every variable keeps its type, and what is published has a first publication.
TypeOK ==
    /\ listing \in ListingType
    /\ boosts \in Seq(BoostType) /\ Len(boosts) <= MaxBoosts
    /\ doc \in [shown : BOOLEAN, boosted : BOOLEAN]
    /\ sessions \in [Payments -> {"none", "open", "paid", "refunded"}]
    /\ events \subseteq [payment : Payments, type : {"checkout", "refund"}]
    /\ now \in Times
    /\ handlers \in [Handlers -> {Idle} \cup HandlerType]
    /\ worker \in {"idle", "patch"}
    /\ history \in [outdated : SUBSET (1 .. MaxBoosts), crossed : BOOLEAN, suspended : BOOLEAN,
                    swallowed : BOOLEAN, blurred : BOOLEAN]
    /\ changes \in 0 .. MaxChanges /\ faults \in 0 .. MaxFaults
    /\ listing.status = "published" => listing.first # null

Quiet == \A h \in Handlers : ~IsChanging(h)

ShownIsPublished ==
    Quiet /\ listing.status # "archived" => (doc.shown <=> listing.status = "published")
RankIsEarned ==
    /\ \A h \in Handlers : ~Busy(h)
    /\ worker = "idle" /\ events = {} /\ ~SomeEnded
    /\ ~(history.swallowed \/ history.blurred)
    => (doc.boosted => \E i \in DOMAIN boosts : boosts[i].status = "active")

\* What the search shows is what is published, and what it ranks is what is paid: rows and document
\* are written by different statements of requests, webhooks and the worker.  Once requests are
\* over, the document shows the listing iff it is published; once webhooks and the worker are too,
\* a document ranked for a boost has an active one.  Left out are requests that changed the
\* status at the same time, faults, archived listings, which the code leaves in the index,
\* weights that had changed since they were read, and boosts that a reader expired before the
\* worker saw them: nothing clears their rank, although the worker's comment has it drop within
\* 15 minutes.
SearchIsTruthful == ~history.crossed /\ faults = 0 => ShownIsPublished /\ RankIsEarned

\* first_published_at is written once, by whichever of two publications comes first
\* (publishLifecycle.ts: relists must not launder days on market).
FirstPublishedOnce ==
    [][listing.first # null => listing'.first = listing.first]_vars

\* A boost is worth what was paid: what it has run, is running and has left adds up to its days,
\* over every pause and resume ("Unpublish pauses remaining time; republish resumes",
\* docs/billing.md), unless a row was overwritten on an outdated read.  When the owner's
\* unpublish is over, what had begun before it and was running stands paused.
BoostTimeIsKept ==
    /\ \A i \in DOMAIN boosts \ history.outdated :
          /\ boosts[i].status = "active" => boosts[i].used + boosts[i].ends - boosts[i].starts = Days
          /\ boosts[i].status = "paused" => boosts[i].used + boosts[i].remaining = Days
    /\ Quiet /\ ~history.crossed /\ ~history.suspended /\ faults = 0 /\ listing.status = "unpublished" =>
          \A i \in DOMAIN boosts \ history.outdated :
             boosts[i].starts < listing.unpublished => ~isBoostActive(boosts[i], listing.unpublished)

=============================================================================
