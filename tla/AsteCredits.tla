----------------------------- MODULE AsteCredits -----------------------------
(*****************************************************************************)
(* Credits for Aste reports (apps/api/src/aste/aste-credits.service.ts):     *)
(* Stripe's webhook grants them, opening a report spends one.  Both are      *)
(* READ COMMITTED transactions, modelled statement by statement: a claim of  *)
(* a unique key waits for the transaction that inserted it first, a balance  *)
(* row stays locked until its writer ends, and what is written shows when    *)
(* it commits.  The audit row is written on a second connection while the    *)
(* transaction still holds the first.                                        *)
(*****************************************************************************)
EXTENDS Integers, FiniteSets

CONSTANTS
    Users, Payments, Analyses, Buyer, Pack, Reader,  \* as in CreditLedger
    Handlers,   \* requests and webhook calls that can be in flight at once
    Conns,      \* size of the pg pool
    Wired,      \* whether StripeService was given an AsteCreditsService
    MaxFaults   \* bound on crashes and failed statements

ASSUME CreditsAssumption ==
    /\ Buyer \in [Payments -> Users]
    /\ Pack \in [Payments -> Nat \ {0}]
    /\ Reader \in [Analyses -> Users]
    /\ Conns \in Nat \ {0}
    /\ Wired \in BOOLEAN
    /\ MaxFaults \in Nat

VARIABLES
    paid,      \* external: checkout sessions Stripe has completed
    acked,     \* external: sessions whose webhook call was answered 200
    status,    \* aste_analyses.status, "deleted" when the row is gone
    ledger,    \* aste_credit_ledger: the unique (op, of) each row stands for
    balance,   \* aste_credit_balances
    unlocks,   \* aste_report_unlocks
    audit,     \* admin_audit_log rows of grants and unlocks
    tx,        \* what each handler is doing
    faults     \* how many faults have happened

vars == <<paid, acked, status, ledger, balance, unlocks, audit, tx, faults>>
tables == <<status, ledger, balance, unlocks>>

-----------------------------------------------------------------------------
Idle == [op |-> "IDLE"]
Tx(op, of, at) == [op |-> op, of |-> of, at |-> at]

\* The idempotency_key of what a handler does, and whose balance it moves.
Key(t) == [op |-> t.op, of |-> t.of]
UserOf(k) == IF k.op = "GRANT" THEN Buyer[k.of] ELSE Reader[k.of]
Delta(k) == IF k.op = "GRANT" THEN Pack[k.of] ELSE -1

Busy(h) == tx[h] # Idle
At(h, places) == Busy(h) /\ tx[h].at \in places
User(h) == UserOf(Key(tx[h]))

\* Handlers inside a transaction hold a connection of the pool.
Open(h) == At(h, {"CLAIM", "MOVE", "RECORD", "AUDIT", "COMMIT"})
InUse == Cardinality({h \in Handlers : Open(h)})
FreeConnection == InUse < Conns

\* Uncommitted rows, which other transactions wait for.
HasClaimed(h) == At(h, {"MOVE", "RECORD", "AUDIT", "COMMIT"})
HasMoved(h) == At(h, {"RECORD", "AUDIT", "COMMIT"})
\* Mutant of KeyIsFree: a claim that does not wait.
ClaimsDoNotWait(h) == Busy(h)
KeyIsFree(h) == \A g \in Handlers : HasClaimed(g) => Key(tx[g]) # Key(tx[h])
BalanceIsFree(h) == \A g \in Handlers : HasMoved(g) => User(g) # User(h)

GoTo(h, at) == tx' = [tx EXCEPT ![h].at = at]
End(h) == tx' = [tx EXCEPT ![h] = Idle]

Init ==
    /\ paid = {}
    /\ acked = {}
    /\ status = [a \in Analyses |-> "processing"]
    /\ ledger = {}
    /\ balance = [u \in Users |-> 0]
    /\ unlocks = {}
    /\ audit = {}
    /\ tx = [h \in Handlers |-> Idle]
    /\ faults = 0

-----------------------------------------------------------------------------
\* Requests

\* External: a checkout session completes.
Pay(p) ==
    /\ p \notin paid
    /\ paid' = paid \cup {p}
    /\ UNCHANGED <<acked, tables, audit, tx, faults>>

\* handleWebhook: Stripe calls until it gets an answer, and calls may overlap.  Without an
\* AsteCreditsService nothing is granted, and the call is answered all the same.
Deliver(h, p) ==
    /\ p \in paid \ acked
    /\ ~Busy(h)
    /\ tx' = [tx EXCEPT ![h] = Tx("GRANT", p, IF Wired THEN "BEGIN" ELSE "SKIPPED")]
    /\ UNCHANGED <<paid, acked, tables, audit, faults>>

\* unlockReport: the reader of an analysis, which is read before the transaction.
RequestUnlock(h, a) ==
    /\ status[a] = "ready"
    /\ ~Busy(h)
    /\ tx' = [tx EXCEPT ![h] = Tx("UNLOCK", a, "BEGIN")]
    /\ UNCHANGED <<paid, acked, tables, audit, faults>>

\* db.transaction takes a connection of the pool.
Begin(h) ==
    /\ At(h, {"BEGIN"})
    /\ FreeConnection
    /\ GoTo(h, "CLAIM")
    /\ UNCHANGED <<paid, acked, tables, audit, faults>>

\* Mutant of ClaimGrant: a grant that does not look at what the insert returned.
GrantAgain(h) ==
    /\ At(h, {"CLAIM"})
    /\ tx[h].op = "GRANT"
    /\ KeyIsFree(h)
    /\ GoTo(h, "MOVE")
    /\ UNCHANGED <<paid, acked, tables, audit, faults>>

\* Mutant of ClaimGrant: a key that is taken is an error.
DuplicateThrows(h) ==
    /\ At(h, {"CLAIM"})
    /\ tx[h].op = "GRANT"
    /\ KeyIsFree(h)
    /\ IF Key(tx[h]) \in ledger THEN End(h) ELSE GoTo(h, "MOVE")
    /\ UNCHANGED <<paid, acked, tables, audit, faults>>

\* Insert of the ledger row of a grant, on conflict do nothing.
ClaimGrant(h) ==
    /\ At(h, {"CLAIM"})
    /\ tx[h].op = "GRANT"
    /\ KeyIsFree(h)
    /\ GoTo(h, IF Key(tx[h]) \in ledger THEN "REPLY" ELSE "MOVE")
    /\ UNCHANGED <<paid, acked, tables, audit, faults>>

\* Mutant of ClaimUnlock: the unlock row is inserted outside the transaction.
UnlockOutsideTx(h) ==
    /\ At(h, {"CLAIM"})
    /\ tx[h].op = "UNLOCK"
    /\ status[tx[h].of] # "deleted"
    /\ unlocks' = unlocks \cup {tx[h].of}
    /\ GoTo(h, IF tx[h].of \in unlocks THEN "REPLY" ELSE "MOVE")
    /\ UNCHANGED <<paid, acked, status, ledger, balance, audit, faults>>

\* Insert of the unlock row, on conflict do nothing; the analysis it refers to must exist.
ClaimUnlock(h) ==
    /\ At(h, {"CLAIM"})
    /\ tx[h].op = "UNLOCK"
    /\ KeyIsFree(h)
    /\ IF status[tx[h].of] = "deleted" THEN End(h)
       ELSE GoTo(h, IF tx[h].of \in unlocks THEN "REPLY" ELSE "MOVE")
    /\ UNCHANGED <<paid, acked, tables, audit, faults>>

\* Upsert of the balance of a grant.
AddCredits(h) ==
    /\ At(h, {"MOVE"})
    /\ tx[h].op = "GRANT"
    /\ BalanceIsFree(h)
    /\ GoTo(h, "AUDIT")
    /\ UNCHANGED <<paid, acked, tables, audit, faults>>

\* Mutant of DeductCredit: the update does not ask for balance >= 1.
DeductUnchecked(h) ==
    /\ At(h, {"MOVE"})
    /\ tx[h].op = "UNLOCK"
    /\ BalanceIsFree(h)
    /\ GoTo(h, "RECORD")
    /\ UNCHANGED <<paid, acked, tables, audit, faults>>

\* Mutant of DeductCredit: too few credits are reported and not thrown.
DeductOrReturn(h) ==
    /\ At(h, {"MOVE"})
    /\ tx[h].op = "UNLOCK"
    /\ BalanceIsFree(h)
    /\ GoTo(h, IF balance[User(h)] >= 1 THEN "RECORD" ELSE "REPLY")
    /\ UNCHANGED <<paid, acked, tables, audit, faults>>

\* UPDATE balance - 1 WHERE balance >= 1; no row, and the transaction is rolled back.
DeductCredit(h) ==
    /\ At(h, {"MOVE"})
    /\ tx[h].op = "UNLOCK"
    /\ BalanceIsFree(h)
    /\ IF balance[User(h)] >= 1 THEN GoTo(h, "RECORD") ELSE End(h)
    /\ UNCHANGED <<paid, acked, tables, audit, faults>>

\* Insert of the ledger row of an unlock, which fails when the key is taken.
RecordUnlock(h) ==
    /\ At(h, {"RECORD"})
    /\ IF Key(tx[h]) \in ledger THEN End(h) ELSE GoTo(h, "AUDIT")
    /\ UNCHANGED <<paid, acked, tables, audit, faults>>

\* Mutant of RecordAudit: a failed audit is ignored.
AuditIfPossible(h) ==
    /\ At(h, {"AUDIT"})
    /\ GoTo(h, "COMMIT")
    /\ audit' \in {audit, audit \cup {Key(tx[h])}}
    /\ UNCHANGED <<paid, acked, tables, faults>>

\* audit.record, on another connection: the row is there whatever becomes of the transaction.
RecordAudit(h) ==
    /\ At(h, {"AUDIT"})
    /\ FreeConnection
    /\ audit' = audit \cup {Key(tx[h])}
    /\ GoTo(h, "COMMIT")
    /\ UNCHANGED <<paid, acked, tables, faults>>

CommitTx(h) ==
    /\ At(h, {"COMMIT"})
    /\ ledger' = ledger \cup {Key(tx[h])}
    /\ balance' = [balance EXCEPT ![User(h)] = @ + Delta(Key(tx[h]))]
    /\ unlocks' = IF tx[h].op = "UNLOCK" THEN unlocks \cup {tx[h].of} ELSE unlocks
    /\ GoTo(h, "REPLY")
    /\ UNCHANGED <<paid, acked, status, audit, faults>>

Reply(h) ==
    /\ At(h, {"REPLY", "SKIPPED"})
    /\ acked' = IF tx[h].op = "GRANT" THEN acked \cup {tx[h].of} ELSE acked
    /\ End(h)
    /\ UNCHANGED <<paid, tables, audit, faults>>

-----------------------------------------------------------------------------
\* The surroundings

\* The pipeline finishes an analysis.
Finish(a) ==
    /\ status[a] = "processing"
    /\ status' = [status EXCEPT ![a] = "ready"]
    /\ UNCHANGED <<paid, acked, ledger, balance, unlocks, audit, tx, faults>>

\* remove, purgeOlderThan: the delete waits for transactions that refer to the row, and
\* takes its unlock along (ON DELETE CASCADE); the ledger stays (ON DELETE SET NULL).
Remove(a) ==
    /\ status[a] # "deleted"
    /\ \A h \in Handlers : HasClaimed(h) => Key(tx[h]) # [op |-> "UNLOCK", of |-> a]
    /\ status' = [status EXCEPT ![a] = "deleted"]
    /\ unlocks' = unlocks \ {a}
    /\ UNCHANGED <<paid, acked, ledger, balance, audit, tx, faults>>

\* A statement or the audit fails: the transaction is rolled back, the caller gets a 500.
Fail(h) ==
    /\ Busy(h)
    /\ faults < MaxFaults
    /\ faults' = faults + 1
    /\ End(h)
    /\ UNCHANGED <<paid, acked, tables, audit>>

\* The process dies; the database rolls back what was open.
Crash ==
    /\ faults < MaxFaults
    /\ \E h \in Handlers : Busy(h)
    /\ faults' = faults + 1
    /\ tx' = [h \in Handlers |-> Idle]
    /\ UNCHANGED <<paid, acked, tables, audit>>

Advance(h) ==
    \/ Begin(h) \/ ClaimGrant(h) \/ ClaimUnlock(h) \/ AddCredits(h) \/ DeductCredit(h)
    \/ RecordUnlock(h) \/ RecordAudit(h) \/ CommitTx(h) \/ Reply(h)

Next ==
    \/ \E p \in Payments : Pay(p)
    \/ \E h \in Handlers, p \in Payments : Deliver(h, p)
    \/ \E h \in Handlers, a \in Analyses : RequestUnlock(h, a)
    \/ \E h \in Handlers : Advance(h)
    \/ \E a \in Analyses : Finish(a) \/ Remove(a)
    \/ \E h \in Handlers : Fail(h)
    \/ Crash

Spec == Init /\ [][Next]_vars

\* The database and the pool serve waiters in turn, and Stripe keeps calling.
FairSpec ==
    /\ Spec
    /\ \A h \in Handlers : SF_vars(Advance(h))
    /\ \A p \in Payments : SF_vars(\E h \in Handlers : Deliver(h, p))

-----------------------------------------------------------------------------
\* Properties

Keys == [op : {"GRANT"}, of : Payments] \cup [op : {"UNLOCK"}, of : Analyses]
Places == {"BEGIN", "CLAIM", "MOVE", "RECORD", "AUDIT", "COMMIT", "REPLY", "SKIPPED"}

\* Every variable has its type; in particular no balance is ever negative, which
\* aste_credit_balances_nonneg would otherwise refuse at run time.
TypeOK ==
    /\ paid \subseteq Payments
    /\ acked \subseteq Payments
    /\ status \in [Analyses -> {"processing", "ready", "deleted"}]
    /\ ledger \subseteq Keys
    /\ balance \in [Users -> Nat]
    /\ unlocks \subseteq Analyses
    /\ audit \subseteq Keys
    /\ tx \in [Handlers -> {Idle} \cup [op : {"GRANT"}, of : Payments, at : Places]
                                  \cup [op : {"UNLOCK"}, of : Analyses, at : Places]]
    /\ faults \in 0..MaxFaults

\* The credits of the packs in a user's ledger rows, one by one, and the rows that spend one.
RowsOf(u) == {k \in ledger : UserOf(k) = u}
Bought(u) == UNION {{k} \X (1..Pack[k.of]) : k \in {j \in RowsOf(u) : j.op = "GRANT"}}
Spent(u) == {k \in RowsOf(u) : k.op = "UNLOCK"}

\* The balance and the ledger agree: replayed webhooks, double clicks, rollbacks and crashes
\* included, a balance is the sum of the ledger rows of its user.
BalanceIsLedgerSum ==
    \A u \in Users : balance[u] = Cardinality(Bought(u)) - Cardinality(Spent(u))

\* Every report that is open was paid for ("one row per (user, analysis)", 0066).
UnlocksArePaid == \A a \in unlocks : [op |-> "UNLOCK", of |-> a] \in ledger

\* No credit moves unaudited: the audit row is written before the ledger row commits, and on
\* another connection, so that a rollback leaves an audit row too many and never one too few.
LedgerIsAudited == ledger \subseteq audit

\* "Grant credits after verified Stripe checkout.session.completed webhook"
\* (aste-credits.service.ts): a session whose webhook call was answered, and that Stripe will
\* not send again, has been credited.
AckedIsGranted == \A p \in acked : [op |-> "GRANT", of |-> p] \in ledger

\* Whatever grantFromStripePurchase or unlockReport returns has been committed: a replay that
\* finds its key taken answers for the call that took it, which may yet have rolled back.
RepliesAreCommitted == \A h \in Handlers : At(h, {"REPLY"}) => Key(tx[h]) \in ledger

\* The pool is exhausted: each of its connections is held by a transaction that asks for a
\* second one to write its audit row, or that waits for the locks of another.  pg hands out no
\* connection and times nobody out, so that only the end of a process ends this.
Exhausted ==
    /\ InUse >= Conns
    /\ \E h \in Handlers : At(h, {"AUDIT"})
    /\ \A h \in Handlers : Open(h) => \/ At(h, {"AUDIT"})
                                      \/ At(h, {"CLAIM"}) /\ ~KeyIsFree(h)
                                      \/ At(h, {"MOVE"}) /\ ~BalanceIsFree(h)

\* Stripe gets its answer for every completed checkout, over failed calls, crashes and replays
\* of a grant that did commit: keys and balances are locked in an order that never closes a
\* circle, and an exhausted pool is the one thing that can hold every call forever.
PaidIsAnswered == \A p \in Payments : p \in paid ~> p \in acked \/ Exhausted

\* The transactions implement the atomic ledger.
Ledger == INSTANCE CreditLedger WITH
    credited <- {p \in Payments : [op |-> "GRANT", of |-> p] \in ledger},
    opened <- {a \in Analyses : [op |-> "UNLOCK", of |-> a] \in ledger},
    credits <- balance
ImplementsLedger == Ledger!LedgerSpec

=============================================================================
