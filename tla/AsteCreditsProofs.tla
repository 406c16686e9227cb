-------------------------- MODULE AsteCreditsProofs --------------------------
(*****************************************************************************)
(* Proofs about AsteCredits, for every set of users, payments, analyses and  *)
(* handlers, and every size of the connection pool.                          *)
(*****************************************************************************)
EXTENDS AsteCredits, FiniteSetTheorems, TLAPS

\* No two transactions hold the same key, nor the same balance row.
Exclusive ==
    \A g, h \in Handlers : g # h =>
        /\ HasClaimed(g) /\ HasClaimed(h) => Key(tx[g]) # Key(tx[h])
        /\ HasMoved(g) /\ HasMoved(h) => User(g) # User(h)

\* What is about to be recorded is not in the ledger yet.
Fresh ==
    \A h \in Handlers :
        (HasClaimed(h) /\ (tx[h].op = "GRANT" \/ At(h, {"AUDIT", "COMMIT"})))
            => Key(tx[h]) \notin ledger

\* Whoever holds the balance row to spend a credit has one to spend.
Covered ==
    \A h \in Handlers :
        (HasMoved(h) /\ tx[h].op = "UNLOCK") => balance[User(h)] >= 1

\* Whoever is about to commit has its audit row.
Audited ==
    \A h \in Handlers : At(h, {"COMMIT"}) => Key(tx[h]) \in audit

Inv == TypeOK /\ Exclusive /\ Fresh /\ Covered

-----------------------------------------------------------------------------
\* What a key stands for.
LEMMA KeyTypes ==
    ASSUME TypeOK, NEW h \in Handlers, Busy(h)
    PROVE  /\ Key(tx[h]) \in Keys
           /\ User(h) \in Users
           /\ Delta(Key(tx[h])) \in Int
           /\ tx[h].op = "GRANT" => Delta(Key(tx[h])) \in Nat
           /\ tx[h].op # "GRANT" => tx[h].op = "UNLOCK" /\ Delta(Key(tx[h])) = -1
           /\ Key(tx[h]).op = tx[h].op /\ Key(tx[h]).of = tx[h].of
           /\ tx[h].op = "GRANT" => tx[h].of \in Payments
           /\ tx[h].op = "UNLOCK" => tx[h].of \in Analyses
<1> tx[h] \in [op : {"GRANT"}, of : Payments, at : Places]
              \cup [op : {"UNLOCK"}, of : Analyses, at : Places]
  BY DEF TypeOK, Busy
<1>1. CASE tx[h] \in [op : {"GRANT"}, of : Payments, at : Places]
  BY <1>1, CreditsAssumption DEF Key, Keys, User, UserOf, Delta
<1>2. CASE tx[h] \in [op : {"UNLOCK"}, of : Analyses, at : Places]
  BY <1>2, CreditsAssumption DEF Key, Keys, User, UserOf, Delta
<1> QED BY <1>1, <1>2

LEMMA InitInv == Init => Inv
<1> SUFFICES ASSUME Init PROVE Inv
  OBVIOUS
<1>1. TypeOK
  BY CreditsAssumption DEF Init, TypeOK
<1>2. \A h \in Handlers : ~Busy(h)
  BY DEF Init, Busy
<1> QED BY <1>1, <1>2 DEF Inv, Exclusive, Fresh, Covered, HasClaimed, HasMoved, At

\* A handler moves on inside its transaction, holding no more than it may.
LEMMA MoveOn ==
    ASSUME Inv, NEW h \in Handlers, NEW at \in Places, Busy(h), GoTo(h, at),
           UNCHANGED <<ledger, balance>>, TypeOK',
           at \in {"MOVE", "RECORD", "AUDIT", "COMMIT"} => KeyIsFree(h) \/ HasClaimed(h),
           at \in {"RECORD", "AUDIT", "COMMIT"} => BalanceIsFree(h) \/ HasMoved(h),
           at \in {"MOVE", "RECORD", "AUDIT", "COMMIT"}
               /\ (tx[h].op = "GRANT" \/ at \in {"AUDIT", "COMMIT"})
                   => Key(tx[h]) \notin ledger,
           at \in {"RECORD", "AUDIT", "COMMIT"} /\ tx[h].op = "UNLOCK"
               => balance[User(h)] >= 1
    PROVE  Inv'
<1>1. /\ tx'[h].op = tx[h].op /\ tx'[h].of = tx[h].of /\ tx'[h].at = at
      /\ \A g \in Handlers \ {h} : tx'[g] = tx[g]
  BY DEF GoTo, Inv, TypeOK, Busy
<1>2. /\ Key(tx[h])' = Key(tx[h]) /\ User(h)' = User(h)
      /\ \A g \in Handlers \ {h} : Key(tx[g])' = Key(tx[g]) /\ User(g)' = User(g)
  BY <1>1 DEF Key, User
<1>3. \A g \in Handlers \ {h} : /\ HasClaimed(g)' = HasClaimed(g)
                                /\ HasMoved(g)' = HasMoved(g)
                                /\ At(g, {"AUDIT", "COMMIT"})' = At(g, {"AUDIT", "COMMIT"})
  BY <1>1 DEF HasClaimed, HasMoved, At, Busy
<1>4. /\ HasClaimed(h)' => at \in {"MOVE", "RECORD", "AUDIT", "COMMIT"}
      /\ HasMoved(h)' => at \in {"RECORD", "AUDIT", "COMMIT"}
      /\ At(h, {"AUDIT", "COMMIT"})' => at \in {"AUDIT", "COMMIT"}
  BY <1>1 DEF HasClaimed, HasMoved, At
<1>5. Exclusive'
  BY <1>2, <1>3, <1>4 DEF Inv, Exclusive, KeyIsFree, BalanceIsFree
<1>6. Fresh'
  BY <1>1, <1>2, <1>3, <1>4 DEF Inv, Fresh
<1>7. Covered'
  BY <1>1, <1>2, <1>3, <1>4 DEF Inv, Covered
<1> QED BY <1>5, <1>6, <1>7 DEF Inv

\* Handlers that end, or that begin, hold nothing.
LEMMA HoldNothing ==
    ASSUME Inv, UNCHANGED <<ledger, balance>>, TypeOK',
           \A h \in Handlers : tx'[h] = tx[h] \/ (~HasClaimed(h)' /\ ~HasMoved(h)')
    PROVE  Inv'
<1>1. \A h \in Handlers : HasClaimed(h)' \/ HasMoved(h)' => tx'[h] = tx[h]
  OBVIOUS
<1>2. \A h \in Handlers : tx'[h] = tx[h] =>
         /\ HasClaimed(h)' = HasClaimed(h)
         /\ HasMoved(h)' = HasMoved(h)
         /\ At(h, {"AUDIT", "COMMIT"})' = At(h, {"AUDIT", "COMMIT"})
         /\ Key(tx[h])' = Key(tx[h])
         /\ User(h)' = User(h)
  BY DEF HasClaimed, HasMoved, At, Busy, Key, User
<1>3. Exclusive'
  BY <1>1, <1>2 DEF Inv, Exclusive
<1>4. Fresh'
  BY <1>1, <1>2 DEF Inv, Fresh
<1>5. Covered'
  BY <1>1, <1>2 DEF Inv, Covered
<1> QED BY <1>3, <1>4, <1>5 DEF Inv

\* What a commit does to the tables.
LEMMA CommitEffect ==
    ASSUME Inv, NEW h \in Handlers, CommitTx(h)
    PROVE  /\ Busy(h) /\ HasClaimed(h) /\ HasMoved(h)
           /\ Key(tx[h]) \notin ledger
           /\ ledger' = ledger \cup {Key(tx[h])}
           /\ balance' = [balance EXCEPT ![User(h)] = @ + Delta(Key(tx[h]))]
           /\ tx[h].op = "UNLOCK" => balance[User(h)] >= 1
           /\ balance' \in [Users -> Nat]
<1>1. At(h, {"COMMIT"}) /\ Busy(h) /\ HasClaimed(h) /\ HasMoved(h)
  BY DEF CommitTx, At, HasClaimed, HasMoved
<1>2. At(h, {"AUDIT", "COMMIT"})
  BY <1>1 DEF At
<1>3. Key(tx[h]) \notin ledger
  BY <1>1, <1>2 DEF Inv, Fresh
<1>4. tx[h].op = "UNLOCK" => balance[User(h)] >= 1
  BY <1>1 DEF Inv, Covered
<1>5. balance[User(h)] + Delta(Key(tx[h])) \in Nat
  BY <1>1, <1>4, KeyTypes DEF Inv, TypeOK
<1>6. balance' \in [Users -> Nat]
  BY <1>1, <1>5, KeyTypes DEF Inv, TypeOK, CommitTx
<1> QED BY <1>1, <1>3, <1>4, <1>6 DEF CommitTx

LEMMA CommitInv ==
    ASSUME Inv, NEW h \in Handlers, CommitTx(h)
    PROVE  Inv'
<1>1. TypeOK'
  <2>1. Busy(h)
    BY CommitEffect
  <2>2. Key(tx[h]) \in Keys /\ (tx[h].op = "UNLOCK" => tx[h].of \in Analyses)
    BY <2>1, KeyTypes DEF Inv
  <2>3. ledger' \subseteq Keys /\ unlocks' \subseteq Analyses
    BY <2>2, CommitEffect DEF Inv, TypeOK, CommitTx
  <2>4. tx' \in [Handlers -> {Idle} \cup [op : {"GRANT"}, of : Payments, at : Places]
                                    \cup [op : {"UNLOCK"}, of : Analyses, at : Places]]
    BY <2>1 DEF Inv, TypeOK, CommitTx, GoTo, Busy, Places
  <2> QED BY <2>3, <2>4, CommitEffect DEF Inv, TypeOK, CommitTx
<1>2. ~HasClaimed(h)' /\ ~HasMoved(h)'
  BY CommitEffect DEF CommitTx, GoTo, HasClaimed, HasMoved, At, Busy, Inv, TypeOK
<1>3. \A g \in Handlers \ {h} :
         /\ HasClaimed(g)' = HasClaimed(g)
         /\ HasMoved(g)' = HasMoved(g)
         /\ At(g, {"AUDIT", "COMMIT"})' = At(g, {"AUDIT", "COMMIT"})
         /\ Key(tx[g])' = Key(tx[g])
         /\ User(g)' = User(g)
         /\ tx'[g] = tx[g]
  BY DEF CommitTx, GoTo, HasClaimed, HasMoved, At, Busy, Key, User, Inv, TypeOK
<1>4. Exclusive'
  BY <1>2, <1>3 DEF Inv, Exclusive
<1>5. Fresh'
  BY <1>2, <1>3, CommitEffect DEF Inv, Fresh, Exclusive
<1>6. Covered'
  <2>1. \A g \in Handlers \ {h} : HasMoved(g) => balance'[User(g)] = balance[User(g)]
    <3> SUFFICES ASSUME NEW g \in Handlers \ {h}, HasMoved(g)
                 PROVE  balance'[User(g)] = balance[User(g)]
      OBVIOUS
    <3>1. User(g) # User(h)
      BY CommitEffect DEF Inv, Exclusive
    <3> QED BY <3>1, CommitEffect, KeyTypes DEF Inv, TypeOK, HasMoved, At
  <2> QED BY <1>2, <1>3, <2>1 DEF Inv, Covered
<1> QED BY <1>1, <1>4, <1>5, <1>6 DEF Inv

\* Every step but a commit leaves the ledger and the balances alone.
LEMMA AdvanceInv ==
    ASSUME Inv, NEW h \in Handlers, Advance(h)
    PROVE  Inv'
<1> USE DEF Inv
<1>1. CASE Begin(h)
  <2>1. TypeOK' /\ ~HasClaimed(h)' /\ ~HasMoved(h)' /\ UNCHANGED <<ledger, balance>>
    BY <1>1 DEF Begin, GoTo, TypeOK, tables, Places, At, Busy, HasClaimed, HasMoved
  <2>2. \A g \in Handlers \ {h} : tx'[g] = tx[g]
    BY <1>1 DEF Begin, GoTo, TypeOK
  <2> QED BY <2>1, <2>2, HoldNothing
<1>2. CASE ClaimGrant(h)
  <2>1. TypeOK' /\ UNCHANGED <<ledger, balance>>
    BY <1>2 DEF ClaimGrant, GoTo, TypeOK, tables, Places, At, Busy
  <2>2. CASE Key(tx[h]) \in ledger
    <3>1. GoTo(h, "REPLY") /\ Busy(h)
      BY <1>2, <2>2 DEF ClaimGrant, At
    <3> QED BY <2>1, <3>1, MoveOn DEF Places
  <2>3. CASE Key(tx[h]) \notin ledger
    <3>1. GoTo(h, "MOVE") /\ Busy(h) /\ KeyIsFree(h)
      BY <1>2, <2>3 DEF ClaimGrant, At
    <3> QED BY <2>1, <2>3, <3>1, MoveOn DEF Places
  <2> QED BY <2>2, <2>3
<1>3. CASE ClaimUnlock(h)
  <2>1. UNCHANGED <<ledger, balance>> /\ Busy(h) /\ KeyIsFree(h) /\ tx[h].op = "UNLOCK"
    BY <1>3 DEF ClaimUnlock, tables, At
  <2>2. TypeOK'
    BY <1>3 DEF ClaimUnlock, GoTo, End, TypeOK, tables, Places, At, Busy
  <2>3. CASE End(h)
    BY <2>1, <2>2, <2>3, HoldNothing DEF End, TypeOK, HasClaimed, HasMoved, At, Busy
  <2>4. CASE GoTo(h, "REPLY")
    BY <2>1, <2>2, <2>4, MoveOn DEF Places
  <2>5. CASE GoTo(h, "MOVE")
    BY <2>1, <2>2, <2>5, MoveOn DEF Places
  <2> QED BY <1>3, <2>3, <2>4, <2>5 DEF ClaimUnlock
<1>4. CASE AddCredits(h)
  <2>1. TypeOK' /\ UNCHANGED <<ledger, balance>>
    BY <1>4 DEF AddCredits, GoTo, TypeOK, tables, Places, At, Busy
  <2>2. /\ GoTo(h, "AUDIT") /\ Busy(h) /\ HasClaimed(h) /\ BalanceIsFree(h)
        /\ tx[h].op = "GRANT"
    BY <1>4 DEF AddCredits, At, HasClaimed
  <2>3. Key(tx[h]) \notin ledger
    BY <2>2 DEF Fresh
  <2> QED BY <2>1, <2>2, <2>3, MoveOn DEF Places
<1>5. CASE DeductCredit(h)
  <2>1. /\ UNCHANGED <<ledger, balance>> /\ Busy(h) /\ HasClaimed(h) /\ BalanceIsFree(h)
        /\ tx[h].op = "UNLOCK"
    BY <1>5 DEF DeductCredit, tables, At, HasClaimed
  <2>2. TypeOK'
    BY <1>5 DEF DeductCredit, GoTo, End, TypeOK, tables, Places, At, Busy
  <2>3. CASE End(h)
    BY <2>1, <2>2, <2>3, HoldNothing DEF End, TypeOK, HasClaimed, HasMoved, At, Busy
  <2>4. CASE GoTo(h, "RECORD") /\ balance[User(h)] >= 1
    BY <2>1, <2>2, <2>4, MoveOn DEF Places
  <2> QED BY <1>5, <2>3, <2>4 DEF DeductCredit
<1>6. CASE RecordUnlock(h)
  <2>1. /\ UNCHANGED <<ledger, balance>> /\ Busy(h) /\ HasClaimed(h) /\ HasMoved(h)
    BY <1>6 DEF RecordUnlock, tables, At, HasClaimed, HasMoved
  <2>2. TypeOK'
    BY <1>6 DEF RecordUnlock, GoTo, End, TypeOK, tables, Places, At, Busy
  <2>3. CASE End(h)
    BY <2>1, <2>2, <2>3, HoldNothing DEF End, TypeOK, HasClaimed, HasMoved, At, Busy
  <2>4. CASE GoTo(h, "AUDIT") /\ Key(tx[h]) \notin ledger
    <3>1. tx[h].op = "UNLOCK" => balance[User(h)] >= 1
      BY <2>1 DEF Covered
    <3> QED BY <2>1, <2>2, <2>4, <3>1, MoveOn DEF Places
  <2> QED BY <1>6, <2>3, <2>4 DEF RecordUnlock
<1>7. CASE RecordAudit(h)
  <2>1. /\ UNCHANGED <<ledger, balance>> /\ Busy(h) /\ HasClaimed(h) /\ HasMoved(h)
        /\ GoTo(h, "COMMIT") /\ At(h, {"AUDIT", "COMMIT"})
    BY <1>7 DEF RecordAudit, tables, At, HasClaimed, HasMoved
  <2>2. TypeOK'
    <3>1. audit' \subseteq Keys
      BY <1>7, <2>1, KeyTypes DEF RecordAudit, TypeOK
    <3> QED BY <1>7, <2>1, <3>1 DEF RecordAudit, GoTo, TypeOK, tables, Places, Busy
  <2>3. Key(tx[h]) \notin ledger /\ (tx[h].op = "UNLOCK" => balance[User(h)] >= 1)
    BY <2>1 DEF Fresh, Covered
  <2> QED BY <2>1, <2>2, <2>3, MoveOn DEF Places
<1>8. CASE CommitTx(h)
  BY <1>8, CommitInv
<1>9. CASE Reply(h)
  <2>1. /\ UNCHANGED <<ledger, balance>> /\ Busy(h) /\ End(h)
    BY <1>9 DEF Reply, tables, At
  <2>2. TypeOK'
    <3>1. acked' \subseteq Payments
      BY <1>9, <2>1, KeyTypes DEF Reply, TypeOK
    <3> QED BY <1>9, <2>1, <3>1 DEF Reply, End, TypeOK, tables
  <2> QED BY <2>1, <2>2, HoldNothing DEF End, TypeOK, HasClaimed, HasMoved, At, Busy
<1> QED BY <1>1, <1>2, <1>3, <1>4, <1>5, <1>6, <1>7, <1>8, <1>9 DEF Advance

\* Every step preserves the invariant.
LEMMA NextInv == Inv /\ [Next]_vars => Inv'
<1> SUFFICES ASSUME Inv, [Next]_vars PROVE Inv'
  OBVIOUS
<1> USE DEF Inv
<1>1. ASSUME NEW p \in Payments, Pay(p) PROVE Inv'
  <2>1. TypeOK' /\ UNCHANGED <<tx, ledger, balance>>
    BY <1>1 DEF Pay, TypeOK, tables
  <2> QED BY <2>1, HoldNothing
<1>2. ASSUME NEW h \in Handlers, NEW p \in Payments, Deliver(h, p) PROVE Inv'
  <2>1. TypeOK' /\ UNCHANGED <<ledger, balance>>
    BY <1>2 DEF Deliver, Tx, TypeOK, tables, Places
  <2>2. ~HasClaimed(h)' /\ ~HasMoved(h)'
    BY <1>2 DEF Deliver, Tx, TypeOK, HasClaimed, HasMoved, At
  <2> QED BY <1>2, <2>1, <2>2, HoldNothing DEF Deliver, TypeOK
<1>3. ASSUME NEW h \in Handlers, NEW a \in Analyses, RequestUnlock(h, a) PROVE Inv'
  <2>1. TypeOK' /\ UNCHANGED <<ledger, balance>>
    BY <1>3 DEF RequestUnlock, Tx, TypeOK, tables, Places
  <2>2. ~HasClaimed(h)' /\ ~HasMoved(h)'
    BY <1>3 DEF RequestUnlock, Tx, TypeOK, HasClaimed, HasMoved, At
  <2> QED BY <1>3, <2>1, <2>2, HoldNothing DEF RequestUnlock, TypeOK
<1>4. ASSUME NEW a \in Analyses, Finish(a) \/ Remove(a) PROVE Inv'
  <2>1. TypeOK' /\ UNCHANGED <<tx, ledger, balance>>
    BY <1>4 DEF Finish, Remove, TypeOK
  <2> QED BY <2>1, HoldNothing
<1>5. ASSUME NEW h \in Handlers, Fail(h) PROVE Inv'
  <2>1. TypeOK' /\ UNCHANGED <<ledger, balance>>
    BY <1>5, CreditsAssumption DEF Fail, End, TypeOK, tables
  <2> QED BY <1>5, <2>1, HoldNothing DEF Fail, End, TypeOK, HasClaimed, HasMoved, At, Busy
<1>6. CASE Crash
  <2>1. TypeOK' /\ UNCHANGED <<ledger, balance>>
    BY <1>6, CreditsAssumption DEF Crash, TypeOK, tables
  <2> QED BY <1>6, <2>1, HoldNothing DEF Crash, HasClaimed, HasMoved, At, Busy
<1>7. CASE UNCHANGED vars
  <2>1. TypeOK' /\ UNCHANGED <<tx, ledger, balance>>
    BY <1>7 DEF vars, tables, TypeOK
  <2> QED BY <2>1, HoldNothing
<1> QED BY <1>1, <1>2, <1>3, <1>4, <1>5, <1>6, <1>7, AdvanceInv DEF Next

LEMMA InvHolds == Spec => []Inv
BY InitInv, NextInv, PTL DEF Spec

\* Every variable keeps its type: no balance is ever negative, however many unlocks race for
\* the last credit.
THEOREM CreditsTypeCorrect == Spec => []TypeOK
BY InvHolds, PTL DEF Inv

-----------------------------------------------------------------------------
\* Every report that is open was paid for: its unlock row commits with its ledger row, and
\* the ledger row outlives the analysis.
THEOREM OpenReportsPaid == Spec => []UnlocksArePaid
<1>1. Init => UnlocksArePaid
  BY DEF Init, UnlocksArePaid
<1>2. Inv /\ UnlocksArePaid /\ [Next]_vars => UnlocksArePaid'
  <2> SUFFICES ASSUME Inv, UnlocksArePaid, [Next]_vars PROVE UnlocksArePaid'
    OBVIOUS
  <2>1. ASSUME ledger' = ledger, unlocks' \subseteq unlocks PROVE UnlocksArePaid'
    BY <2>1 DEF UnlocksArePaid
  <2>2. ASSUME NEW h \in Handlers, CommitTx(h) PROVE UnlocksArePaid'
    BY <2>2 DEF CommitTx, Key, UnlocksArePaid
  <2>3. ASSUME NEW h \in Handlers, Advance(h), ~CommitTx(h)
        PROVE  UNCHANGED <<ledger, unlocks>>
    BY <2>3 DEF Advance, Begin, ClaimGrant, ClaimUnlock, AddCredits, DeductCredit,
                RecordUnlock, RecordAudit, Reply, tables
  <2>4. ASSUME ~\E h \in Handlers : Advance(h)
        PROVE  ledger' = ledger /\ unlocks' \subseteq unlocks
    BY <2>4 DEF Next, Pay, Deliver, RequestUnlock, Finish, Remove, Fail, Crash, vars, tables
  <2> QED BY <2>1, <2>2, <2>3, <2>4
<1> QED BY <1>1, <1>2, InvHolds, PTL DEF Spec

\* A handler that takes its place among the answers did so on committing its key, or on
\* finding it taken: a grant in the ledger, an unlock among the open reports.
LEMMA ReplyReached ==
    ASSUME Inv, UnlocksArePaid, [Next]_vars, NEW g \in Handlers,
           At(g, {"REPLY"})', tx'[g] # tx[g]
    PROVE  Key(tx[g])' \in ledger'
<1>1. CommitTx(g) \/ ClaimGrant(g) \/ ClaimUnlock(g)
  BY DEF Inv, TypeOK, Next, Pay, Deliver, RequestUnlock, Advance, Begin, AddCredits,
         DeductCredit, RecordUnlock, RecordAudit, CommitTx, ClaimGrant, ClaimUnlock, Reply,
         Finish, Remove, Fail, Crash, vars, GoTo, End, At, Busy, Idle, Tx
<1>2. /\ tx'[g].op = tx[g].op /\ tx'[g].of = tx[g].of /\ tx'[g].at = "REPLY"
      /\ Key(tx[g])' = Key(tx[g])
  <2>1. Busy(g) /\ (GoTo(g, "REPLY") \/ GoTo(g, "MOVE") \/ End(g))
    BY <1>1 DEF CommitTx, ClaimGrant, ClaimUnlock, At
  <2> QED BY <2>1 DEF Inv, TypeOK, GoTo, End, At, Busy, Key
<1>3. CASE CommitTx(g)
  BY <1>2, <1>3 DEF CommitTx
<1>4. CASE ClaimGrant(g)
  BY <1>2, <1>4 DEF ClaimGrant, GoTo, tables, Inv, TypeOK, At, Busy
<1>5. CASE ClaimUnlock(g)
  <2>1. tx[g].op = "UNLOCK" /\ tx[g].of \in unlocks /\ ledger' = ledger
    BY <1>2, <1>5 DEF ClaimUnlock, GoTo, End, tables, Inv, TypeOK, At, Busy
  <2> QED BY <1>2, <2>1 DEF UnlocksArePaid, Key
<1> QED BY <1>1, <1>3, <1>4, <1>5

\* Whatever a call returns has been committed, whoever else asks for the same key at the same
\* time and whether or not the analysis is removed under it.
THEOREM RepliesFollowCommits == Spec => []RepliesAreCommitted
<1>1. Init => RepliesAreCommitted
  BY DEF Init, RepliesAreCommitted, At, Busy
<1>2. Inv /\ UnlocksArePaid /\ RepliesAreCommitted /\ [Next]_vars => RepliesAreCommitted'
  <2> SUFFICES ASSUME Inv, UnlocksArePaid, RepliesAreCommitted, [Next]_vars,
                      NEW g \in Handlers, At(g, {"REPLY"})'
               PROVE  Key(tx[g])' \in ledger'
    BY DEF RepliesAreCommitted
  <2>1. ledger \subseteq ledger'
    BY DEF Next, Pay, Deliver, RequestUnlock, Advance, Begin, ClaimGrant, ClaimUnlock,
           AddCredits, DeductCredit, RecordUnlock, RecordAudit, CommitTx, Reply, Finish,
           Remove, Fail, Crash, vars, tables
  <2>2. CASE tx'[g] = tx[g]
    BY <2>1, <2>2 DEF RepliesAreCommitted, At, Busy, Key
  <2> QED BY <2>2, ReplyReached
<1> QED BY <1>1, <1>2, InvHolds, OpenReportsPaid, PTL DEF Spec

-----------------------------------------------------------------------------
\* No credit moves unaudited: a transaction reaches its commit through the audit, whose row
\* is never taken back, whatever fails after it.
THEOREM MovementsAreAudited == Spec => []LedgerIsAudited
<1>1. Init => Audited /\ LedgerIsAudited
  BY DEF Init, Audited, LedgerIsAudited, At, Busy
<1>2. Inv /\ Audited /\ LedgerIsAudited /\ [Next]_vars => Audited' /\ LedgerIsAudited'
  <2> SUFFICES ASSUME Inv, Audited, LedgerIsAudited, [Next]_vars
               PROVE  Audited' /\ LedgerIsAudited'
    OBVIOUS
  <2>1. audit \subseteq audit'
    BY DEF Next, Pay, Deliver, RequestUnlock, Advance, Begin, ClaimGrant, ClaimUnlock,
           AddCredits, DeductCredit, RecordUnlock, RecordAudit, CommitTx, Reply, Finish,
           Remove, Fail, Crash, vars, tables
  <2>2. ASSUME NEW g \in Handlers, At(g, {"COMMIT"})'
        PROVE  (Key(tx[g]) \in audit)'
    <3>1. CASE tx'[g] = tx[g]
      BY <2>1, <2>2, <3>1 DEF Audited, At, Busy, Key
    <3>2. CASE tx'[g] # tx[g]
      <4>1. RecordAudit(g)
        BY <2>2, <3>2 DEF Inv, TypeOK, Next, Pay, Deliver, RequestUnlock, Advance, Begin,
             ClaimUnlock, AddCredits, DeductCredit, RecordUnlock, RecordAudit, CommitTx,
             ClaimGrant, Reply, Finish, Remove, Fail, Crash, vars, GoTo, End, At, Busy, Idle, Tx
      <4>2. Key(tx[g])' = Key(tx[g])
        BY <4>1 DEF Inv, TypeOK, RecordAudit, GoTo, At, Busy, Key
      <4> QED BY <4>1, <4>2 DEF RecordAudit
    <3> QED BY <3>1, <3>2
  <2>3. ledger' \subseteq ledger \cup {Key(tx[h]) : h \in {g \in Handlers : At(g, {"COMMIT"})}}
    BY DEF Next, Pay, Deliver, RequestUnlock, Advance, Begin, ClaimGrant, ClaimUnlock,
           AddCredits, DeductCredit, RecordUnlock, RecordAudit, CommitTx, Reply, Finish,
           Remove, Fail, Crash, vars, tables
  <2>4. LedgerIsAudited'
    BY <2>1, <2>3 DEF Audited, LedgerIsAudited
  <2> QED BY <2>2, <2>4 DEF Audited
<1> QED BY <1>1, <1>2, InvHolds, PTL DEF Spec

-----------------------------------------------------------------------------
\* What was bought and spent can be counted, and the balance is the difference.
Counted ==
    /\ \A u \in Users : IsFiniteSet(Bought(u)) /\ IsFiniteSet(Spent(u))
    /\ BalanceIsLedgerSum

\* A pack of n holds n credits.
LEMMA PackSize ==
    ASSUME NEW k, NEW n \in Nat \ {0}
    PROVE  IsFiniteSet({k} \X (1..n)) /\ Cardinality({k} \X (1..n)) = n
<1> DEFINE S == {k}
           T == 1..n
<1>1. IsFiniteSet(S) /\ Cardinality(S) = 1
  BY FS_Singleton
<1>2. IsFiniteSet(T) /\ Cardinality(T) = n
  <2>1. 1 \in Int /\ n \in Int /\ ~(1 > n)
    OBVIOUS
  <2>2. IsFiniteSet(1..n) /\ Cardinality(1..n) = IF 1 > n THEN 0 ELSE n - 1 + 1
    BY <2>1, FS_Interval
  <2> QED BY <2>1, <2>2
<1> HIDE DEF S, T
<1>3. IsFiniteSet(S \X T) /\ Cardinality(S \X T) = Cardinality(S) * Cardinality(T)
  BY <1>1, <1>2, FS_Product
<1>4. Cardinality(S \X T) = n
  BY <1>1, <1>2, <1>3
<1> QED BY <1>3, <1>4 DEF S, T

\* A new grant adds the credits of its pack to those of its buyer.
LEMMA GrantCounts ==
    ASSUME NEW k \in Keys, k.op = "GRANT", k \notin ledger, ledger' = ledger \cup {k},
           NEW u \in Users, IsFiniteSet(Bought(u)),
           UserOf(k) = u
    PROVE  /\ IsFiniteSet(Bought(u)')
           /\ Cardinality(Bought(u)') = Cardinality(Bought(u)) + Pack[k.of]
           /\ Spent(u)' = Spent(u)
<1> DEFINE pack == {k} \X (1..Pack[k.of])
<1>1. Pack[k.of] \in Nat \ {0}
  BY CreditsAssumption DEF Keys
<1>2. IsFiniteSet(pack) /\ Cardinality(pack) = Pack[k.of]
  BY <1>1, PackSize
<1>3. RowsOf(u)' = RowsOf(u) \cup {k}
  BY DEF RowsOf, UserOf
<1>4. Bought(u)' = Bought(u) \cup pack
  <2>1. {j \in RowsOf(u)' : j.op = "GRANT"} = {j \in RowsOf(u) : j.op = "GRANT"} \cup {k}
    BY <1>3
  <2> QED BY <2>1 DEF Bought
<1>5. Bought(u) \cap pack = {}
  BY DEF Bought, RowsOf
<1>6. IsFiniteSet(Bought(u)')
  <2> HIDE DEF pack
  <2>1. IsFiniteSet(Bought(u) \cup pack)
    BY <1>2, FS_Union
  <2> QED BY <1>4, <2>1
<1>7. Cardinality(Bought(u)') = Cardinality(Bought(u)) + Pack[k.of]
  <2> HIDE DEF pack
  <2>1. Cardinality(Bought(u) \cup pack) =
            Cardinality(Bought(u)) + Cardinality(pack) - Cardinality({})
    BY <1>2, <1>5, FS_Union
  <2>2. Cardinality(Bought(u)) \in Nat /\ Cardinality({}) = 0
    BY FS_CardinalityType, FS_EmptySet
  <2> QED BY <1>1, <1>2, <1>4, <2>1, <2>2
<1>8. Spent(u)' = Spent(u)
  BY <1>3 DEF Spent
<1> QED BY <1>6, <1>7, <1>8

\* A new unlock adds one to what its reader spent.
LEMMA UnlockCounts ==
    ASSUME NEW k \in Keys, k.op = "UNLOCK", k \notin ledger, ledger' = ledger \cup {k},
           NEW u \in Users, IsFiniteSet(Spent(u)),
           UserOf(k) = u
    PROVE  /\ IsFiniteSet(Spent(u)')
           /\ Cardinality(Spent(u)') = Cardinality(Spent(u)) + 1
           /\ Bought(u)' = Bought(u)
<1>1. RowsOf(u)' = RowsOf(u) \cup {k}
  BY DEF RowsOf, UserOf
<1>2. Spent(u)' = Spent(u) \cup {k} /\ k \notin Spent(u)
  BY <1>1 DEF Spent, RowsOf
<1>3. {j \in RowsOf(u)' : j.op = "GRANT"} = {j \in RowsOf(u) : j.op = "GRANT"}
  BY <1>1
<1> QED BY <1>2, <1>3, FS_AddElement DEF Bought

\* A ledger row of one user counts for no other.
LEMMA OthersCount ==
    ASSUME NEW k, ledger' = ledger \cup {k}, NEW u \in Users, UserOf(k) # u
    PROVE  Bought(u)' = Bought(u) /\ Spent(u)' = Spent(u)
<1>1. RowsOf(u)' = RowsOf(u)
  BY DEF RowsOf, UserOf
<1> QED BY <1>1 DEF Bought, Spent

\* A balance is the sum of its user's ledger rows, for any packs, whatever is replayed, rolled
\* back or cut short: a row and its credits commit in one step, and no key commits twice.
THEOREM BalanceCounted == Spec => []BalanceIsLedgerSum
<1>1. Init => Counted
  <2> SUFFICES ASSUME Init PROVE Counted
    OBVIOUS
  <2>1. \A u \in Users : Bought(u) = {} /\ Spent(u) = {} /\ balance[u] = 0
    BY DEF Init, Bought, Spent, RowsOf
  <2> QED BY <2>1, FS_EmptySet DEF Counted, BalanceIsLedgerSum
<1>2. Inv /\ Counted /\ [Next]_vars => Counted'
  <2> SUFFICES ASSUME Inv, Counted, [Next]_vars PROVE Counted'
    OBVIOUS
  <2>1. ASSUME UNCHANGED <<ledger, balance>> PROVE Counted'
    BY <2>1 DEF Counted, BalanceIsLedgerSum, Bought, Spent, RowsOf
  <2>2. ASSUME NEW h \in Handlers, CommitTx(h) PROVE Counted'
    <3>1. PICK k \in Keys : k = Key(tx[h]) /\ UserOf(k) \in Users /\ k \notin ledger
      BY <2>2, CommitEffect, KeyTypes DEF Inv, User
    <3>2. /\ ledger' = ledger \cup {k}
          /\ balance' = [balance EXCEPT ![UserOf(k)] = @ + Delta(k)]
      BY <2>2, <3>1 DEF CommitTx, User
    <3>3. ASSUME NEW u \in Users
          PROVE  /\ IsFiniteSet(Bought(u)') /\ IsFiniteSet(Spent(u)')
                 /\ balance'[u] = Cardinality(Bought(u)') - Cardinality(Spent(u)')
      <4>1. /\ IsFiniteSet(Bought(u)) /\ IsFiniteSet(Spent(u))
            /\ balance[u] = Cardinality(Bought(u)) - Cardinality(Spent(u))
        BY DEF Counted, BalanceIsLedgerSum
      <4>2. Cardinality(Bought(u)) \in Nat /\ Cardinality(Spent(u)) \in Nat
        BY <4>1, FS_CardinalityType
      <4>3. CASE UserOf(k) # u
        <5>1. balance'[u] = balance[u]
          BY <3>2, <4>3 DEF Inv, TypeOK
        <5> QED BY <3>2, <4>1, <4>3, <5>1, OthersCount
      <4>4. CASE UserOf(k) = u /\ k.op = "GRANT"
        <5>1. balance'[u] = balance[u] + Pack[k.of] /\ Pack[k.of] \in Nat
          BY <3>1, <3>2, <4>4, CreditsAssumption DEF Inv, TypeOK, Delta, Keys
        <5>2. /\ IsFiniteSet(Bought(u)')
              /\ Cardinality(Bought(u)') = Cardinality(Bought(u)) + Pack[k.of]
              /\ Spent(u)' = Spent(u)
          BY <3>1, <3>2, <4>1, <4>4, GrantCounts
        <5> QED BY <4>1, <4>2, <5>1, <5>2
      <4>5. CASE UserOf(k) = u /\ k.op = "UNLOCK"
        <5>1. balance'[u] = balance[u] + (-1)
          BY <3>2, <4>5 DEF Inv, TypeOK, Delta
        <5>2. /\ IsFiniteSet(Spent(u)')
              /\ Cardinality(Spent(u)') = Cardinality(Spent(u)) + 1
              /\ Bought(u)' = Bought(u)
          BY <3>1, <3>2, <4>1, <4>5, UnlockCounts
        <5> QED BY <4>1, <4>2, <5>1, <5>2
      <4> QED BY <4>3, <4>4, <4>5 DEF Keys
    <3> QED BY <3>3 DEF Counted, BalanceIsLedgerSum
  <2>3. ASSUME NEW h \in Handlers, Advance(h), ~CommitTx(h)
        PROVE  UNCHANGED <<ledger, balance>>
    BY <2>3 DEF Advance, Begin, ClaimGrant, ClaimUnlock, AddCredits, DeductCredit,
                RecordUnlock, RecordAudit, Reply, tables
  <2>4. ASSUME ~\E h \in Handlers : Advance(h)
        PROVE  UNCHANGED <<ledger, balance>>
    BY <2>4 DEF Next, Pay, Deliver, RequestUnlock, Finish, Remove, Fail, Crash, vars, tables
  <2> QED BY <2>1, <2>2, <2>3, <2>4
<1>3. Counted => BalanceIsLedgerSum
  BY DEF Counted
<1> QED BY <1>1, <1>2, <1>3, InvHolds, PTL DEF Spec

-----------------------------------------------------------------------------
\* The transactions implement the atomic ledger: a commit is a Grant or an Open, and every
\* other step changes nothing that counts.
THEOREM LedgerImplemented == Spec => ImplementsLedger
<1>1. Init => Ledger!LedgerInit
  BY DEF Init, Ledger!LedgerInit
<1>2. Inv /\ [Next]_vars => [Ledger!LedgerNext]_(Ledger!ledgerVars)
  <2> SUFFICES ASSUME Inv, [Next]_vars
               PROVE  [Ledger!LedgerNext]_(Ledger!ledgerVars)
    OBVIOUS
  <2>1. ASSUME UNCHANGED <<ledger, balance>>
        PROVE  [Ledger!LedgerNext]_(Ledger!ledgerVars)
    BY <2>1 DEF Ledger!ledgerVars
  <2>2. ASSUME NEW h \in Handlers, CommitTx(h)
        PROVE  [Ledger!LedgerNext]_(Ledger!ledgerVars)
    <3>1. /\ Key(tx[h]).op = tx[h].op /\ Key(tx[h]).of = tx[h].of
          /\ Key(tx[h]) = [op |-> tx[h].op, of |-> tx[h].of]
          /\ Busy(h)
      BY <2>2, CommitEffect, KeyTypes DEF Inv, Key
    <3>2. CASE tx[h].op = "GRANT"
      <4>0. PICK p \in Payments : p = tx[h].of
        BY <3>1, <3>2, KeyTypes DEF Inv
      <4>1. User(h) = Buyer[p] /\ Delta(Key(tx[h])) = Pack[p]
        BY <3>1, <3>2, <4>0 DEF User, UserOf, Delta
      <4>2. Ledger!Grant(p)
        BY <2>2, <3>1, <3>2, <4>0, <4>1, CommitEffect DEF Ledger!Grant
      <4> QED BY <4>2 DEF Ledger!LedgerNext
    <3>3. CASE tx[h].op = "UNLOCK"
      <4>0. PICK a \in Analyses : a = tx[h].of
        BY <3>1, <3>3, KeyTypes DEF Inv
      <4>1. /\ User(h) = Reader[a] /\ Delta(Key(tx[h])) = -1
            /\ Reader[a] \in Users
        BY <3>1, <3>3, <4>0, KeyTypes DEF Inv, User, UserOf, Delta
      <4>2. balance[Reader[a]] \in Int
        BY <4>1, CreditsAssumption DEF Inv, TypeOK
      <4>3. balance[Reader[a]] + (-1) = balance[Reader[a]] - 1
        BY <4>2
      <4>4. Ledger!Open(a)
        BY <2>2, <3>1, <3>3, <4>0, <4>1, <4>3, CommitEffect DEF Ledger!Open
      <4> QED BY <4>4 DEF Ledger!LedgerNext
    <3> QED BY <3>1, <3>2, <3>3, KeyTypes DEF Inv
  <2>3. ASSUME NEW h \in Handlers, Advance(h), ~CommitTx(h)
        PROVE  UNCHANGED <<ledger, balance>>
    BY <2>3 DEF Advance, Begin, ClaimGrant, ClaimUnlock, AddCredits, DeductCredit,
                RecordUnlock, RecordAudit, Reply, tables
  <2>4. ASSUME ~\E h \in Handlers : Advance(h)
        PROVE  UNCHANGED <<ledger, balance>>
    BY <2>4 DEF Next, Pay, Deliver, RequestUnlock, Finish, Remove, Fail, Crash, vars, tables
  <2> QED BY <2>1, <2>2, <2>3, <2>4
<1> QED BY <1>1, <1>2, InvHolds, PTL DEF Spec, ImplementsLedger, Ledger!LedgerSpec

=============================================================================
