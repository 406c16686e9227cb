------------------------- MODULE PublicationProofs -------------------------
(*****************************************************************************)
(* Proofs about Publication, for every set of payments and handlers, every   *)
(* length of a boost and all bounds.                                         *)
(*****************************************************************************)
EXTENDS Publication, FiniteSetTheorems, SequenceTheorems, TLAPS

\* An active boost runs no longer than its days, and a paused one has some of them left.
BoostOK(b) ==
    /\ b.status = "active" => b.ends <= b.starts + Days
    /\ b.status = "paused" => b.remaining # null

\* What a handler does goes with where it is, and the boosts it is to write were paused, or
\* running at its `now`, when it read them.
Task(r) ==
    /\ r.at = "update" => r.for \in Changing /\ r.now # null
    /\ r.at \in {"paused", "resume", "index"} => r.for = "publish"
    /\ r.at = "weight" => r.for \in {"publish", "checkout"}
    /\ r.at \in {"active", "pause"} => r.for = "unpublish"
    /\ r.at = "remove" => r.for \in {"unpublish", "suspend"}
    /\ r.at = "insert" => r.for = "checkout"
    /\ r.at = "cancel" => r.for = "refund"
    /\ r.at = "patch" => r.for \in {"checkout", "refund"}
    /\ r.for \in {"checkout", "refund"} => r.payment \in Payments
    /\ r.at = "resume" => \A i \in r.todo : r.rows[i].status = "paused"
    /\ r.at = "pause" => \A i \in r.todo : isBoostActive(r.rows[i], r.now)

\* A handler r at time t, with n boosts in the table.
Sound(r, t, n) ==
    /\ r \in HandlerType
    /\ r.now <= t
    /\ Len(r.rows) <= n /\ r.todo \subseteq DOMAIN r.rows
    /\ \A i \in DOMAIN r.rows : BoostOK(r.rows[i])
    /\ Task(r)

ListingOK ==
    /\ listing \in ListingType
    /\ listing.status = "published" => listing.first # null
    /\ listing.unpublished <= now
BoostsOK == boosts \in Seq(BoostType) /\ \A i \in DOMAIN boosts : BoostOK(boosts[i])
HandlersOK ==
    /\ handlers \in [Handlers -> {Idle} \cup HandlerType]
    /\ \A h \in Handlers : Busy(h) => Sound(handlers[h], now, Len(boosts))
\* There is room for the boosts that are about to be inserted.
Room == IsFiniteSet(Inserting) /\ Len(boosts) + Cardinality(Inserting) <= MaxBoosts
RestOK ==
    /\ doc \in [shown : BOOLEAN, boosted : BOOLEAN]
    /\ sessions \in [Payments -> {"none", "open", "paid", "refunded"}]
    /\ events \subseteq [payment : Payments, type : {"checkout", "refund"}]
    /\ now \in 1 .. MaxTime
    /\ worker \in {"idle", "patch"}
    /\ history \in [outdated : SUBSET (1 .. MaxBoosts), crossed : BOOLEAN, suspended : BOOLEAN,
                    swallowed : BOOLEAN, blurred : BOOLEAN]
    /\ changes \in 0 .. MaxChanges /\ faults \in 0 .. MaxFaults

Inv == ListingOK /\ BoostsOK /\ HandlersOK /\ Room /\ RestOK

USE DEF null

LEMMA Bound == Inv => /\ Len(boosts) \in Nat /\ Len(boosts) <= MaxBoosts
                      /\ DOMAIN boosts = 1 .. Len(boosts)
                      /\ now \in Times
<1> SUFFICES ASSUME Inv PROVE /\ Len(boosts) \in Nat /\ Len(boosts) <= MaxBoosts
                              /\ DOMAIN boosts = 1 .. Len(boosts)
                              /\ now \in Times
  OBVIOUS
<1>1. Len(boosts) \in Nat /\ DOMAIN boosts = 1 .. Len(boosts)
  BY LenProperties DEF Inv, BoostsOK
<1>2. Cardinality(Inserting) \in Nat
  BY FS_CardinalityType DEF Inv, Room
<1> QED BY <1>1, <1>2, PublicationAssumption DEF Inv, Room, RestOK, Times

LEMMA InvTyped == Inv => TypeOK
BY Bound DEF Inv, ListingOK, BoostsOK, HandlersOK, RestOK, TypeOK

LEMMA InitInv == Init => Inv
<1> SUFFICES ASSUME Init PROVE Inv
  OBVIOUS
<1>1. ListingOK
  BY PublicationAssumption DEF Init, ListingOK, ListingType, Times
<1>2. BoostsOK
  BY EmptySeq DEF Init, BoostsOK
<1>3. HandlersOK
  BY DEF Init, HandlersOK, Busy, Idle
<1>4. Inserting = {}
  BY DEF Init, Inserting, At, Busy, Idle
<1>5. Room
  BY <1>4, FS_EmptySet, EmptySeq, PublicationAssumption DEF Room, Init
<1>6. RestOK
  BY PublicationAssumption DEF Init, RestOK
<1> QED BY <1>1, <1>2, <1>3, <1>5, <1>6 DEF Inv

-----------------------------------------------------------------------------
\* Handlers

LEMMA IdleIsNone == Idle \notin HandlerType
BY DEF Idle, HandlerType

\* Writing the place of a handler leaves the rest of it alone.
LEMMA Moved ==
    ASSUME NEW r \in HandlerType,
           NEW x \in {"update", "paused", "resume", "weight", "index", "active", "pause", "remove",
                      "insert", "cancel", "patch"}
    PROVE  LET s == [r EXCEPT !.at = x]
           IN  /\ s \in HandlerType /\ s.at = x
               /\ s.for = r.for /\ s.payment = r.payment /\ s.first = r.first /\ s.now = r.now
               /\ s.todo = r.todo /\ s.rows = r.rows /\ s.weight = r.weight
BY DEF HandlerType

\* A new handler has nothing to write yet.
LEMMA Fresh ==
    ASSUME NEW x \in {"update", "paused", "resume", "weight", "index", "active", "pause", "remove",
                      "insert", "cancel", "patch"},
           NEW f \in Changing \cup {"checkout", "refund"}, NEW p \in Payments \cup {null},
           NEW first \in Times, NEW t \in Times
    PROVE  /\ Handler(x, f, p, first, t) \in HandlerType
           /\ Handler(x, f, p, first, t).at = x
           /\ Handler(x, f, p, first, t).for = f
           /\ Handler(x, f, p, first, t).payment = p
           /\ Handler(x, f, p, first, t).first = first
           /\ Handler(x, f, p, first, t).now = t
           /\ Handler(x, f, p, first, t).todo = {}
           /\ Handler(x, f, p, first, t).rows = <<>>
           /\ ~Handler(x, f, p, first, t).weight
<1>1. <<>> \in Seq(BoostType)
  BY EmptySeq
<1> QED BY <1>1 DEF Handler, HandlerType

LEMMA FreshSound ==
    ASSUME NEW r \in HandlerType, r.todo = {}, r.rows = <<>>, NEW t, r.now <= t, NEW n \in Nat,
           Task(r)
    PROVE  Sound(r, t, n)
BY EmptySeq DEF Sound

LEMMA BusySound ==
    ASSUME Inv, NEW h \in Handlers, Busy(h)
    PROVE  handlers[h] \in HandlerType /\ Sound(handlers[h], now, Len(boosts))
BY DEF Inv, HandlersOK, Sound

\* Time goes on and boosts are added.
LEMMA SoundLater ==
    ASSUME NEW t \in Nat, NEW n \in Nat, NEW u \in Nat, NEW m \in Nat, t <= u, n <= m,
           NEW r, Sound(r, t, n)
    PROVE  Sound(r, u, m)
<1>1. r.now \in Nat /\ Len(r.rows) \in Nat
  BY PublicationAssumption, LenProperties DEF Sound, HandlerType, Times
<1> QED BY <1>1 DEF Sound

LEMMA InsertingMoves ==
    ASSUME Inv, NEW h \in Handlers, NEW r, handlers' = [handlers EXCEPT ![h] = r]
    PROVE  Inserting' = IF r # Idle /\ r.at = "insert" THEN Inserting \cup {h} ELSE Inserting \ {h}
BY DEF Inv, HandlersOK, Inserting, At, Busy

\* A step that changes one handler, which is not about to insert a boost.
LEMMA MoveOn ==
    ASSUME Inv, NEW h \in Handlers, NEW r, r = Idle \/ Sound(r, now, Len(boosts)),
           r = Idle \/ r.at # "insert",
           handlers' = [handlers EXCEPT ![h] = r], now' = now, Len(boosts') = Len(boosts)
    PROVE  HandlersOK' /\ Room'
<1>1. handlers' \in [Handlers -> {Idle} \cup HandlerType]
  BY DEF Inv, HandlersOK, Sound
<1>2. \A g \in Handlers : Busy(g)' => Sound(handlers'[g], now, Len(boosts))
  BY DEF Inv, HandlersOK, Busy
<1>3. Inserting' = Inserting \ {h}
  BY InsertingMoves
<1>4. IsFiniteSet(Inserting') /\ Cardinality(Inserting') <= Cardinality(Inserting)
  BY <1>3, FS_Subset DEF Inv, Room
<1>5. Cardinality(Inserting) \in Nat /\ Cardinality(Inserting') \in Nat
  BY <1>4, FS_CardinalityType DEF Inv, Room
<1>6. Room'
  BY <1>4, <1>5, Bound, PublicationAssumption DEF Inv, Room
<1> QED BY <1>1, <1>2, <1>6 DEF HandlersOK

\* A step that changes no handler.
LEMMA StayPut ==
    ASSUME Inv, UNCHANGED <<handlers, now>>, Len(boosts') = Len(boosts)
    PROVE  HandlersOK' /\ Room'
<1>1. Inserting' = Inserting
  BY DEF Inserting, At, Busy
<1> QED BY <1>1 DEF Inv, HandlersOK, Room, Busy

-----------------------------------------------------------------------------
\* Boosts

\* A table of rows with the same length.
LEMMA SameLength ==
    ASSUME NEW s \in Seq(BoostType), NEW t, t = [i \in DOMAIN s |-> t[i]],
           \A i \in DOMAIN s : t[i] \in BoostType
    PROVE  t \in Seq(BoostType) /\ Len(t) = Len(s) /\ DOMAIN t = DOMAIN s
<1>1. Len(s) \in Nat /\ DOMAIN s = 1 .. Len(s)
  BY LenProperties
<1>2. t \in [1 .. Len(s) -> BoostType]
  BY <1>1
<1>3. t \in Seq(BoostType)
  BY <1>1, <1>2, SeqDef
<1> QED BY <1>1, <1>2, <1>3

\* expireEnded only expires.
LEMMA Expired ==
    ASSUME Inv, expireEnded
    PROVE  /\ BoostsOK' /\ Len(boosts') = Len(boosts) /\ DOMAIN boosts' = DOMAIN boosts
           /\ \A i \in DOMAIN boosts :
                 \/ boosts'[i] = boosts[i] /\ ~IsEnded(boosts[i])
                 \/ boosts'[i] = [boosts[i] EXCEPT !.status = "expired"] /\ IsEnded(boosts[i])
<1>1. \A i \in DOMAIN boosts : boosts[i] \in BoostType
  BY LenProperties DEF Inv, BoostsOK
<1>2. \A i \in DOMAIN boosts :
         \/ boosts'[i] = boosts[i] /\ ~IsEnded(boosts[i])
         \/ boosts'[i] = [boosts[i] EXCEPT !.status = "expired"] /\ IsEnded(boosts[i])
  BY DEF expireEnded
<1>3. \A i \in DOMAIN boosts : boosts'[i] \in BoostType
  BY <1>1, <1>2 DEF BoostType
<1>4. boosts' = [i \in DOMAIN boosts |-> boosts'[i]]
  BY DEF expireEnded
<1>5. boosts' \in Seq(BoostType) /\ Len(boosts') = Len(boosts) /\ DOMAIN boosts' = DOMAIN boosts
  BY <1>3, <1>4, SameLength DEF Inv, BoostsOK
<1>6. \A i \in DOMAIN boosts : BoostOK(boosts'[i])
  BY <1>1, <1>2 DEF Inv, BoostsOK, BoostOK, BoostType
<1> QED BY <1>2, <1>5, <1>6 DEF BoostsOK

\* A loop is over.
LEMMA Restart ==
    ASSUME Inv, NEW next, NEW for,
           \/ next = "weight" /\ for = "publish"
           \/ next = "remove" /\ for = "unpublish"
    PROVE  LET s == Handler(next, for, null, null, null)
           IN  Sound(s, now, Len(boosts)) /\ s.at # "insert"
<1> DEFINE s == Handler(next, for, null, null, null)
<1>1. s = [at |-> next, for |-> for, payment |-> null, first |-> null, now |-> null,
           todo |-> {}, rows |-> <<>>, weight |-> FALSE]
  BY DEF Handler
<1>2. <<>> \in Seq(BoostType) /\ null \in Times
  BY EmptySeq, PublicationAssumption DEF Times
<1> HIDE DEF s
<1>3. s \in HandlerType /\ s.todo = {} /\ s.rows = <<>> /\ s.now <= now /\ s.at # "insert"
  BY <1>1, <1>2, Bound DEF HandlerType, Changing, Times
<1>4. Task(s)
  BY <1>1 DEF Task
<1> QED BY <1>3, <1>4, FreshSound, Bound DEF s

\* A loop writes one row.
LEMMA RowWritten ==
    ASSUME Inv, NEW h \in Handlers, NEW i, NEW row \in BoostType, NEW next,
           Busy(h), i \in handlers[h].todo, BoostOK(row), WriteRow(h, i, row, next),
           \/ next = "weight" /\ handlers[h].for = "publish"
           \/ next = "remove" /\ handlers[h].for = "unpublish",
           now' = now, handlers[h].at \in {"resume", "pause"}
    PROVE  /\ BoostsOK' /\ HandlersOK' /\ Room'
           /\ i \in DOMAIN boosts /\ DOMAIN boosts' = DOMAIN boosts
           /\ \A j \in DOMAIN boosts : boosts'[j] = IF j = i THEN row ELSE boosts[j]
           /\ history'.outdated \subseteq 1 .. MaxBoosts
<1> DEFINE r == handlers[h]
           s == IF r.todo = {i} THEN Handler(next, r.for, null, null, null)
                ELSE [r EXCEPT !.todo = @ \ {i}]
<1>1. r \in HandlerType /\ Sound(r, now, Len(boosts)) /\ Task(r)
  BY BusySound DEF Sound
<1>2. Len(r.rows) \in Nat /\ DOMAIN r.rows = 1 .. Len(r.rows)
  BY <1>1, LenProperties DEF HandlerType
<1>3. i \in 1 .. Len(boosts) /\ i \in DOMAIN boosts /\ i \in 1 .. MaxBoosts
  BY <1>1, <1>2, Bound, PublicationAssumption DEF Sound
<1>4. boosts' = [boosts EXCEPT ![i] = row]
  BY DEF WriteRow
<1>5. /\ boosts' \in Seq(BoostType) /\ Len(boosts') = Len(boosts)
      /\ \A j \in 1 .. Len(boosts) : boosts'[j] = IF j = i THEN row ELSE boosts[j]
  BY <1>3, <1>4, ExceptSeq DEF Inv, BoostsOK
<1>6. DOMAIN boosts' = DOMAIN boosts
  BY <1>4
<1>7. BoostsOK'
  BY <1>3, <1>5, <1>6, Bound DEF Inv, BoostsOK
<1>8. handlers' = [handlers EXCEPT ![h] = s]
  BY DEF WriteRow
<1>9. Sound(s, now, Len(boosts)) /\ s.at # "insert"
  <2>1. CASE r.todo = {i}
    BY <2>1, Restart
  <2>2. CASE r.todo # {i}
    <3>1. /\ s \in HandlerType /\ s.at = r.at /\ s.for = r.for /\ s.payment = r.payment
          /\ s.now = r.now /\ s.todo = r.todo \ {i} /\ s.rows = r.rows
      BY <1>1, <2>2 DEF HandlerType
    <3>2. Task(s)
      BY <1>1, <3>1 DEF Task
    <3> QED BY <1>1, <3>1, <3>2 DEF Sound
  <2> QED BY <2>1, <2>2
<1>10. HandlersOK' /\ Room'
  BY <1>5, <1>8, <1>9, MoveOn
<1>11. history'.outdated \subseteq 1 .. MaxBoosts
  <2>1. history.outdated \subseteq 1 .. MaxBoosts
    BY DEF Inv, RestOK
  <2>2. history'.outdated = IF boosts[i] = r.rows[i] THEN history.outdated
                            ELSE history.outdated \cup {i}
    BY DEF WriteRow, Inv, RestOK
  <2> QED BY <1>3, <2>1, <2>2
<1> QED BY <1>3, <1>5, <1>6, <1>7, <1>10, <1>11, Bound

LEMMA RowHistory ==
    ASSUME Inv, NEW h \in Handlers, NEW i, NEW row, NEW next, WriteRow(h, i, row, next),
           history'.outdated \subseteq 1 .. MaxBoosts
    PROVE  /\ history' \in [outdated : SUBSET (1 .. MaxBoosts), crossed : BOOLEAN,
                            suspended : BOOLEAN, swallowed : BOOLEAN, blurred : BOOLEAN]
           /\ history'.crossed = history.crossed /\ history'.suspended = history.suspended
           /\ history'.swallowed = history.swallowed /\ history'.blurred = history.blurred
           /\ history'.outdated = IF boosts[i] = handlers[h].rows[i] THEN history.outdated
                                  ELSE history.outdated \cup {i}
BY DEF WriteRow, Inv, RestOK

\* The rows a handler is to write are rows of the table.
LEMMA Read ==
    ASSUME Inv, NEW h \in Handlers, Busy(h)
    PROVE  \A i \in handlers[h].todo :
              /\ i \in DOMAIN boosts /\ i \in DOMAIN handlers[h].rows
              /\ boosts[i] \in BoostType /\ handlers[h].rows[i] \in BoostType
              /\ BoostOK(boosts[i]) /\ BoostOK(handlers[h].rows[i])
<1> DEFINE r == handlers[h]
<1>1. r \in HandlerType /\ Sound(r, now, Len(boosts))
  BY BusySound
<1>2. /\ Len(r.rows) \in Nat /\ DOMAIN r.rows = 1 .. Len(r.rows)
      /\ r.rows \in [1 .. Len(r.rows) -> BoostType]
  BY <1>1, LenProperties DEF HandlerType
<1>3. boosts \in [1 .. Len(boosts) -> BoostType]
  BY LenProperties DEF Inv, BoostsOK
<1> QED BY <1>1, <1>2, <1>3, Bound DEF Sound, Inv, BoostsOK

-----------------------------------------------------------------------------
\* Every step preserves the invariant.

LEMMA TickInv == Inv /\ Tick => Inv'
<1> SUFFICES ASSUME Inv, Tick PROVE Inv'
  OBVIOUS
<1>1. now' = now + 1 /\ now' \in 1 .. MaxTime
  BY PublicationAssumption DEF Tick, Inv, RestOK
<1>2. UNCHANGED <<listing, boosts, doc, sessions, events, handlers, worker, history, changes, faults>>
  BY DEF Tick, stripe, counters
<1>3. ListingOK'
  BY <1>1, <1>2, PublicationAssumption DEF Inv, ListingOK, ListingType, Times, RestOK
<1>4. HandlersOK'
  BY <1>1, <1>2, SoundLater, Bound DEF Inv, HandlersOK, Busy, RestOK
<1>5. Room'
  BY <1>2 DEF Inv, Room, Inserting, At, Busy
<1> QED BY <1>1, <1>2, <1>3, <1>4, <1>5 DEF Inv, BoostsOK, RestOK

LEMMA SettlingInv ==
    ASSUME Inv, Look \/ Archive \/ (\E p \in Payments : Checkout(p) \/ Pay(p) \/ Refund(p))
    PROVE  Inv'
<1>1. UNCHANGED <<handlers, now, worker, changes, faults>>
  BY DEF Look, Archive, Checkout, Pay, Refund, stripe, counters
<1>2. BoostsOK' /\ Len(boosts') = Len(boosts)
  BY Expired DEF Look, Archive, Checkout, Pay, Refund, Inv, BoostsOK
<1>3. HandlersOK' /\ Room'
  BY <1>1, <1>2, StayPut
<1>4. ListingOK'
  BY <1>1 DEF Look, Archive, Checkout, Pay, Refund, Inv, ListingOK, ListingType
<1>5. RestOK'
  <2>1. history' \in [outdated : SUBSET (1 .. MaxBoosts), crossed : BOOLEAN,
                      suspended : BOOLEAN, swallowed : BOOLEAN, blurred : BOOLEAN]
    BY DEF Look, Archive, Checkout, Pay, Refund, Inv, RestOK, Cross, IsChanging
  <2>2. sessions' \in [Payments -> {"none", "open", "paid", "refunded"}]
    BY DEF Look, Archive, Checkout, Pay, Refund, Inv, RestOK, stripe
  <2>3. events' \subseteq [payment : Payments, type : {"checkout", "refund"}]
    BY DEF Look, Archive, Checkout, Pay, Refund, Inv, RestOK, stripe
  <2>4. doc' = doc
    BY DEF Look, Archive, Checkout, Pay, Refund
  <2> QED BY <1>1, <2>1, <2>2, <2>3, <2>4 DEF Inv, RestOK
<1> QED BY <1>2, <1>3, <1>4, <1>5 DEF Inv

LEMMA RequestInv ==
    ASSUME Inv, NEW h \in Handlers,
           RequestPublish(h) \/ \E for \in {"unpublish", "suspend"} : RequestUnpublish(h, for)
    PROVE  Inv'
<1>1. UNCHANGED <<listing, boosts, doc, sessions, events, now, worker, faults>>
  BY DEF RequestPublish, RequestUnpublish, stripe
<1>2. PICK for \in Changing, first \in Times :
         handlers' = [handlers EXCEPT ![h] = Handler("update", for, null, first, now)]
  BY PublicationAssumption
     DEF RequestPublish, RequestUnpublish, Changing, Inv, ListingOK, ListingType, Times
<1> DEFINE s == Handler("update", for, null, first, now)
<1>3. s \in HandlerType /\ s.at = "update" /\ s.for = for /\ s.now = now /\ s.todo = {} /\ s.rows = <<>>
  <2>1. now \in Times /\ null \in Payments \cup {null} /\ for \in Changing \cup {"checkout", "refund"}
    BY Bound
  <2>2. s = Handler("update", for, null, first, now)
    OBVIOUS
  <2> HIDE DEF s
  <2>3. Handler("update", for, null, first, now) \in HandlerType
    BY <2>1, Fresh
  <2> QED BY <2>1, <2>2, Fresh
<1>4. Sound(s, now, Len(boosts))
  <2>1. s.now <= now /\ Len(boosts) \in Nat
    BY <1>3, Bound DEF Times
  <2>2. Task(s)
    <3>1. now # null /\ for \in Changing
      BY DEF Inv, RestOK
    <3> HIDE DEF s
    <3> QED BY <1>3, <3>1 DEF Task, Changing
  <2> HIDE DEF s
  <2> QED BY <1>3, <2>1, <2>2, FreshSound
<1>5. HandlersOK' /\ Room'
  BY <1>1, <1>2, <1>3, <1>4, MoveOn
<1>6. changes' \in 0 .. MaxChanges
  BY PublicationAssumption DEF RequestPublish, RequestUnpublish, Inv, RestOK
<1>7. history' \in [outdated : SUBSET (1 .. MaxBoosts), crossed : BOOLEAN,
                    suspended : BOOLEAN, swallowed : BOOLEAN, blurred : BOOLEAN]
  BY DEF RequestPublish, RequestUnpublish, Cross, IsChanging, Inv, RestOK
<1> QED BY <1>1, <1>5, <1>6, <1>7 DEF Inv, ListingOK, BoostsOK, RestOK

\* A step that ends a handler, or sends it to another place, with what it relies on.
LEMMA EndInv ==
    ASSUME Inv, NEW h \in Handlers, End(h), now' = now, Len(boosts') = Len(boosts)
    PROVE  HandlersOK' /\ Room'
BY MoveOn DEF End

LEMMA GoToInv ==
    ASSUME Inv, NEW h \in Handlers, Busy(h), NEW x,
           x \in {"weight", "remove", "patch", "active", "index"},
           GoTo(h, x), now' = now, Len(boosts') >= Len(boosts), Len(boosts') \in Nat,
           \/ x = "weight" /\ handlers[h].for \in {"publish", "checkout"}
           \/ x = "remove" /\ handlers[h].for \in {"unpublish", "suspend"}
           \/ x = "patch" /\ handlers[h].for \in {"checkout", "refund"}
           \/ x = "active" /\ handlers[h].for = "unpublish"
           \/ x = "index" /\ handlers[h].for = "publish"
    PROVE  /\ HandlersOK'
           /\ Len(boosts') = Len(boosts) => Room'
<1> DEFINE r == handlers[h]  s == [r EXCEPT !.at = x]
<1>1. r \in HandlerType /\ Sound(r, now, Len(boosts)) /\ Task(r)
  BY BusySound DEF Sound
<1>2. /\ s \in HandlerType /\ s.at = x /\ s.for = r.for /\ s.payment = r.payment
      /\ s.now = r.now /\ s.todo = r.todo /\ s.rows = r.rows
  BY <1>1 DEF HandlerType
<1>3. handlers' = [handlers EXCEPT ![h] = s]
  BY DEF GoTo
<1> HIDE DEF s
<1>4. Task(s)
  BY <1>1, <1>2 DEF Task
<1>5. Sound(s, now, Len(boosts)) /\ s.at # "insert"
  BY <1>1, <1>2, <1>4 DEF Sound
<1>6. now \in Nat /\ Len(boosts) \in Nat
  BY Bound, PublicationAssumption DEF Times
<1>7. \A g \in Handlers : Busy(g)' => Sound(handlers'[g], now, Len(boosts))
  BY <1>3, <1>5 DEF Inv, HandlersOK, Busy
<1>8. handlers' \in [Handlers -> {Idle} \cup HandlerType]
  BY <1>2, <1>3 DEF Inv, HandlersOK
<1>9. HandlersOK'
  BY <1>6, <1>7, <1>8, SoundLater DEF HandlersOK
<1>10. Len(boosts') = Len(boosts) => Room'
  BY <1>3, <1>5, MoveOn
<1> QED BY <1>9, <1>10

LEMMA UpdateInv ==
    ASSUME Inv, NEW h \in Handlers, UpdatePublished(h) \/ UpdateUnpublished(h)
    PROVE  Inv'
<1> DEFINE r == handlers[h]
<1>1. UNCHANGED <<boosts, doc, sessions, events, now, worker, changes, faults>>
  BY DEF UpdatePublished, UpdateUnpublished, stripe, counters
<1>2. Busy(h) /\ r.at = "update" /\ r \in HandlerType /\ Task(r) /\ r.now <= now /\ r.now # null
  BY BusySound DEF UpdatePublished, UpdateUnpublished, At, Sound, Task
<1>3. r.now \in Times /\ r.first \in Times /\ null \in Times
  BY <1>2, PublicationAssumption DEF HandlerType, Times
<1>4. history' \in [outdated : SUBSET (1 .. MaxBoosts), crossed : BOOLEAN,
                    suspended : BOOLEAN, swallowed : BOOLEAN, blurred : BOOLEAN]
  BY DEF UpdatePublished, UpdateUnpublished, Inv, RestOK
<1>5. RestOK'
  BY <1>1, <1>4 DEF Inv, RestOK
<1>6. BoostsOK'
  BY <1>1 DEF Inv, BoostsOK
<1>7. ListingOK'
  <2>1. CASE UpdatePublished(h)
    BY <1>1, <1>2, <1>3, <2>1, Bound DEF UpdatePublished, FirstOf, Inv, ListingOK, ListingType, Times
  <2>2. CASE UpdateUnpublished(h)
    BY <1>1, <1>2, <1>3, <2>2 DEF UpdateUnpublished, Inv, ListingOK, ListingType
  <2> QED BY <2>1, <2>2
<1>8. HandlersOK' /\ Room'
  <2>1. CASE UpdatePublished(h) /\ End(h)
    BY <1>1, <2>1, EndInv
  <2>2. CASE UpdatePublished(h) /\ ~End(h)
    <3> DEFINE s == Handler("paused", "publish", null, null, null)
    <3>1. s = [at |-> "paused", for |-> "publish", payment |-> null, first |-> null, now |-> null,
               todo |-> {}, rows |-> <<>>, weight |-> FALSE]
      BY DEF Handler
    <3>2. <<>> \in Seq(BoostType)
      BY EmptySeq
    <3>3. handlers' = [handlers EXCEPT ![h] = s]
      BY <2>2 DEF UpdatePublished
    <3> HIDE DEF s
    <3>4. s \in HandlerType /\ s.todo = {} /\ s.rows = <<>> /\ s.now <= now /\ s.at # "insert"
      BY <1>3, <3>1, <3>2, Bound DEF HandlerType, Changing, Times
    <3>5. Task(s)
      BY <3>1 DEF Task
    <3>6. Sound(s, now, Len(boosts))
      BY <3>4, <3>5, FreshSound, Bound
    <3> QED BY <1>1, <3>3, <3>4, <3>6, MoveOn
  <2>3. CASE UpdateUnpublished(h)
    <3>1. CASE r.for = "unpublish"
      BY <1>1, <1>2, <2>3, <3>1, GoToInv, Bound DEF UpdateUnpublished
    <3>2. CASE r.for = "suspend"
      BY <1>1, <1>2, <2>3, <3>2, GoToInv, Bound DEF UpdateUnpublished
    <3> QED BY <2>3, <3>1, <3>2 DEF UpdateUnpublished
  <2> QED BY <2>1, <2>2, <2>3
<1> QED BY <1>5, <1>6, <1>7, <1>8 DEF Inv

LEMMA ReadRowsInv ==
    ASSUME Inv, NEW h \in Handlers, ReadPaused(h) \/ ReadActive(h)
    PROVE  Inv'
<1> DEFINE r == handlers[h]
<1>1. UNCHANGED <<listing, boosts, doc, sessions, events, now, worker, history, changes, faults>>
  BY DEF ReadPaused, ReadActive, stripe, counters
<1>2. Busy(h) /\ r \in HandlerType /\ Sound(r, now, Len(boosts)) /\ Task(r)
  BY BusySound DEF ReadPaused, ReadActive, At, Sound
<1>3. PICK s : /\ handlers' = [handlers EXCEPT ![h] = s]
               /\ Sound(s, now, Len(boosts)) /\ s.at # "insert"
  <2>1. CASE ReadPaused(h)
    <3> DEFINE paused == {i \in DOMAIN boosts : boosts[i].status = "paused"}
    <3>1. r.at = "paused" /\ r.for = "publish"
      BY <1>2, <2>1 DEF ReadPaused, At, Task
    <3>2. CASE paused = {}
      <4> DEFINE s == [r EXCEPT !.at = "weight"]
      <4>1. handlers' = [handlers EXCEPT ![h] = s]
        BY <2>1, <3>2 DEF ReadPaused
      <4>2. /\ s \in HandlerType /\ s.at = "weight" /\ s.for = r.for /\ s.payment = r.payment
            /\ s.now = r.now /\ s.todo = r.todo /\ s.rows = r.rows
        BY <1>2, Moved
      <4> HIDE DEF s
      <4>3. Task(s)
        BY <1>2, <3>1, <4>2 DEF Task
      <4>4. Sound(s, now, Len(boosts)) /\ s.at # "insert"
        BY <1>2, <4>2, <4>3 DEF Sound
      <4> QED BY <4>1, <4>4
    <3>3. CASE paused # {}
      <4> DEFINE s == [r EXCEPT !.at = "resume", !.now = now, !.todo = paused, !.rows = boosts]
      <4>1. handlers' = [handlers EXCEPT ![h] = s]
        BY <2>1, <3>3 DEF ReadPaused
      <4>2. paused \in SUBSET (1 .. MaxBoosts) /\ boosts \in Seq(BoostType) /\ now \in Times
        BY Bound, PublicationAssumption DEF Inv, BoostsOK
      <4>3. paused \subseteq DOMAIN boosts /\ \A i \in paused : boosts[i].status = "paused"
        OBVIOUS
      <4> HIDE DEF paused
      <4>4. /\ s \in HandlerType /\ s.at = "resume" /\ s.for = r.for /\ s.payment = r.payment
            /\ s.now = now /\ s.todo = paused /\ s.rows = boosts
        BY <1>2, <4>2 DEF HandlerType
      <4> HIDE DEF s
      <4>5. Task(s)
        BY <1>2, <3>1, <4>3, <4>4 DEF Task
      <4>6. Sound(s, now, Len(boosts)) /\ s.at # "insert"
        BY <4>3, <4>4, <4>5, Bound DEF Sound, Inv, BoostsOK, Times
      <4> QED BY <4>1, <4>6
    <3> QED BY <3>2, <3>3
  <2>2. CASE ReadActive(h)
    <3> DEFINE running == {i \in DOMAIN boosts : isBoostActive(boosts[i], r.now)}
    <3>1. r.at = "active" /\ r.for = "unpublish"
      BY <1>2, <2>2 DEF ReadActive, At, Task
    <3>2. CASE running = {}
      <4> DEFINE s == [r EXCEPT !.at = "remove", !.now = null]
      <4>1. handlers' = [handlers EXCEPT ![h] = s]
        BY <2>2, <3>2 DEF ReadActive
      <4> HIDE DEF running
      <4>2. null \in Times
        BY PublicationAssumption DEF Times
      <4>3. /\ s \in HandlerType /\ s.at = "remove" /\ s.for = r.for /\ s.payment = r.payment
            /\ s.now = null /\ s.todo = r.todo /\ s.rows = r.rows
        BY <1>2, <4>2 DEF HandlerType
      <4> HIDE DEF s
      <4>4. Task(s)
        BY <1>2, <3>1, <4>3 DEF Task
      <4>5. Sound(s, now, Len(boosts)) /\ s.at # "insert"
        BY <1>2, <4>3, <4>4, Bound DEF Sound, Times
      <4> QED BY <4>1, <4>5
    <3>3. CASE running # {}
      <4> DEFINE s == [r EXCEPT !.at = "pause", !.todo = running, !.rows = boosts]
      <4>1. handlers' = [handlers EXCEPT ![h] = s]
        BY <2>2, <3>3 DEF ReadActive
      <4>2. running \in SUBSET (1 .. MaxBoosts) /\ boosts \in Seq(BoostType)
        BY Bound, PublicationAssumption DEF Inv, BoostsOK
      <4>3. running \subseteq DOMAIN boosts /\ \A i \in running : isBoostActive(boosts[i], r.now)
        OBVIOUS
      <4> HIDE DEF running
      <4>4. /\ s \in HandlerType /\ s.at = "pause" /\ s.for = r.for /\ s.payment = r.payment
            /\ s.now = r.now /\ s.todo = running /\ s.rows = boosts
        BY <1>2, <4>2 DEF HandlerType
      <4> HIDE DEF s
      <4>5. Task(s)
        BY <1>2, <3>1, <4>3, <4>4 DEF Task
      <4>6. Sound(s, now, Len(boosts)) /\ s.at # "insert"
        BY <1>2, <4>3, <4>4, <4>5, Bound DEF Sound, Inv, BoostsOK
      <4> QED BY <4>1, <4>6
    <3> QED BY <3>2, <3>3
  <2> QED BY <2>1, <2>2
<1>4. HandlersOK' /\ Room'
  BY <1>1, <1>3, MoveOn
<1> QED BY <1>1, <1>4 DEF Inv, ListingOK, BoostsOK, RestOK

LEMMA WriteInv ==
    ASSUME Inv, NEW h \in Handlers, NEW i, Resume(h, i) \/ Pause(h, i)
    PROVE  Inv'
<1> DEFINE r == handlers[h]
<1>1. UNCHANGED <<listing, doc, sessions, events, now, worker, changes, faults>>
  BY DEF Resume, Pause, stripe, counters
<1>2. Busy(h) /\ r \in HandlerType /\ Task(r) /\ i \in r.todo
  BY BusySound DEF Resume, Pause, At, Sound
<1>3. /\ boosts[i] \in BoostType /\ BoostOK(boosts[i])
      /\ r.rows[i] \in BoostType /\ BoostOK(r.rows[i])
  BY <1>2, Read
<1>4. PICK row \in BoostType, next \in {"weight", "remove"} :
         /\ BoostOK(row) /\ WriteRow(h, i, row, next)
         /\ \/ next = "weight" /\ r.for = "publish"
            \/ next = "remove" /\ r.for = "unpublish"
         /\ r.at \in {"resume", "pause"}
  <2> DEFINE t == r.now  remaining == r.rows[i].remaining
             over == [boosts[i] EXCEPT !.status = "expired", !.remaining = null]
             running == [boosts[i] EXCEPT !.status = "active", !.starts = t,
                                          !.ends = t + remaining, !.remaining = null]
             paused == [boosts[i] EXCEPT !.status = "paused",
                                         !.remaining = remainingBoostMs(r.rows[i], t),
                                         !.used = @ + t - r.rows[i].starts]
  <2>1. t \in Times /\ remaining \in 0 .. Days /\ null \in 0 .. Days
    <3>1. t \in Times
      BY <1>2 DEF HandlerType
    <3>2. remaining \in 0 .. Days
      BY <1>3 DEF BoostType
    <3>3. null \in 0 .. Days
      BY PublicationAssumption
    <3> QED BY <3>1, <3>2, <3>3
  <2>2. CASE Resume(h, i)
    <3>1. r.at = "resume" /\ r.for = "publish"
      BY <1>2, <2>2 DEF Resume, At, Task
    <3>2. over \in BoostType /\ BoostOK(over)
      BY <1>3, <2>1 DEF BoostType, BoostOK
    <3>3. running \in BoostType /\ BoostOK(running)
      <4> DEFINE end == t + remaining
      <4>1. end \in 0 .. MaxTime + Days /\ end <= t + Days
        BY <2>1, PublicationAssumption DEF Times
      <4> HIDE DEF t, remaining, end
      <4>2. running = [boosts[i] EXCEPT !.status = "active", !.starts = t, !.ends = end,
                                        !.remaining = null]
        BY DEF end
      <4> HIDE DEF running
      <4>3. /\ running \in BoostType
            /\ running.status = "active" /\ running.starts = t /\ running.ends = end
        BY <1>3, <2>1, <4>1, <4>2 DEF BoostType
      <4> QED BY <4>1, <4>3 DEF BoostOK
    <3>4. WriteRow(h, i, over, "weight") \/ WriteRow(h, i, running, "weight")
      BY <2>2 DEF Resume
    <3> QED BY <3>1, <3>2, <3>3, <3>4
  <2>3. CASE Pause(h, i)
    <3>1. r.at = "pause" /\ r.for = "unpublish" /\ isBoostActive(r.rows[i], t)
      BY <1>2, <2>3 DEF Pause, At, Task
    <3>2. remainingBoostMs(r.rows[i], t) \in 1 .. Days
      BY <1>3, <2>1, <3>1, PublicationAssumption
         DEF remainingBoostMs, isBoostActive, BoostType, BoostOK, Times
    <3>3. boosts[i].used + t - r.rows[i].starts \in Int
      BY <1>3, <2>1, PublicationAssumption DEF BoostType, Times
    <3>4. paused \in BoostType /\ BoostOK(paused)
      <4> DEFINE left == remainingBoostMs(r.rows[i], t)  used == boosts[i].used + t - r.rows[i].starts
      <4>1. left \in 0 .. Days /\ left # null /\ used \in Int
        BY <3>2, <3>3, PublicationAssumption
      <4>2. paused = [boosts[i] EXCEPT !.status = "paused", !.remaining = left, !.used = used]
        OBVIOUS
      <4> HIDE DEF left, used, paused
      <4>3. paused \in BoostType /\ paused.status = "paused" /\ paused.remaining = left
        BY <1>3, <4>1, <4>2 DEF BoostType
      <4> QED BY <4>1, <4>3 DEF BoostOK
    <3>5. WriteRow(h, i, paused, "remove")
      BY <2>3 DEF Pause
    <3> QED BY <3>1, <3>4, <3>5
  <2> QED BY <2>2, <2>3
<1>5. BoostsOK' /\ HandlersOK' /\ Room' /\ history'.outdated \subseteq 1 .. MaxBoosts
  BY <1>1, <1>2, <1>4, RowWritten
<1>6. RestOK'
  BY <1>1, <1>4, <1>5, RowHistory DEF Inv, RestOK
<1> QED BY <1>1, <1>5, <1>6 DEF Inv, ListingOK

LEMMA ReadWeightInv ==
    ASSUME Inv, NEW h \in Handlers, ReadWeight(h)
    PROVE  Inv'
<1> DEFINE r == handlers[h]
           x == IF r.for = "publish" THEN "index" ELSE "patch"
           s == [r EXCEPT !.at = x, !.weight = IsBoosted]
<1>1. UNCHANGED <<listing, doc, sessions, events, now, worker, history, changes, faults>>
  BY DEF ReadWeight, stripe, counters
<1>2. /\ Busy(h) /\ r \in HandlerType /\ Sound(r, now, Len(boosts)) /\ Task(r)
      /\ r.for \in {"publish", "checkout"}
  BY BusySound DEF ReadWeight, At, Sound, Task
<1>3. BoostsOK' /\ Len(boosts') = Len(boosts)
  BY Expired DEF ReadWeight
<1>4. handlers' = [handlers EXCEPT ![h] = s]
  BY DEF ReadWeight, Inv, HandlersOK
<1>5. IsBoosted \in BOOLEAN
  BY DEF IsBoosted
<1>6. /\ s \in HandlerType /\ s.at = x /\ s.for = r.for /\ s.payment = r.payment
      /\ s.now = r.now /\ s.todo = r.todo /\ s.rows = r.rows
  <2> DEFINE w == IsBoosted
  <2>1. w \in BOOLEAN
    BY <1>5
  <2>2. s = [r EXCEPT !.at = x, !.weight = w] /\ x \in {"index", "patch"}
    OBVIOUS
  <2> HIDE DEF w, s, x, r
  <2> QED BY <1>2, <2>1, <2>2 DEF HandlerType
<1> HIDE DEF s
<1>7. Task(s)
  BY <1>2, <1>6 DEF Task
<1>8. Sound(s, now, Len(boosts)) /\ s.at # "insert"
  BY <1>2, <1>6, <1>7 DEF Sound
<1>9. HandlersOK' /\ Room'
  BY <1>1, <1>3, <1>4, <1>8, MoveOn
<1> QED BY <1>1, <1>3, <1>9 DEF Inv, ListingOK, RestOK

LEMMA WriteDocInv ==
    ASSUME Inv, NEW h \in Handlers, Index(h) \/ Remove(h) \/ Patch(h) \/ PatchFails(h) \/ Die(h)
    PROVE  Inv'
<1>1. UNCHANGED <<listing, boosts, sessions, now, worker, changes>>
  BY DEF Index, Remove, Patch, PatchFails, Die, stripe, counters
<1>2. End(h)
  BY DEF Index, Remove, Patch, PatchFails, Die, Answer
<1>3. HandlersOK' /\ Room'
  BY <1>1, <1>2, EndInv
<1>4. history' \in [outdated : SUBSET (1 .. MaxBoosts), crossed : BOOLEAN,
                    suspended : BOOLEAN, swallowed : BOOLEAN, blurred : BOOLEAN]
  BY DEF Index, Remove, Patch, PatchFails, Die, NoteWeight, IsBoosted, Inv, RestOK
<1>5. doc' \in [shown : BOOLEAN, boosted : BOOLEAN]
  <2>1. Busy(h) /\ handlers[h] \in HandlerType /\ handlers[h].weight \in BOOLEAN
    BY BusySound DEF Index, Remove, Patch, PatchFails, Die, At, HandlerType
  <2>2. doc \in [shown : BOOLEAN, boosted : BOOLEAN]
    BY DEF Inv, RestOK
  <2>3. CASE Index(h)
    BY <2>1, <2>3 DEF Index
  <2>4. CASE Patch(h)
    BY <2>1, <2>2, <2>4 DEF Patch
  <2>5. CASE Remove(h)
    BY <2>5 DEF Remove
  <2>6. CASE PatchFails(h) \/ Die(h)
    BY <2>2, <2>6 DEF PatchFails, Die
  <2> QED BY <2>3, <2>4, <2>5, <2>6
<1>6. events' \subseteq events
  BY DEF Index, Remove, Patch, PatchFails, Die, Answer, stripe
<1>7. faults' \in 0 .. MaxFaults
  BY PublicationAssumption DEF Index, Remove, Patch, PatchFails, Die, Fault, counters, Inv, RestOK
<1> QED BY <1>1, <1>3, <1>4, <1>5, <1>6, <1>7 DEF Inv, ListingOK, BoostsOK, RestOK

LEMMA PauseFailsInv ==
    ASSUME Inv, NEW h \in Handlers, PauseFails(h)
    PROVE  Inv'
<1>1. UNCHANGED <<listing, boosts, doc, sessions, events, now, worker, history, changes>>
  BY DEF PauseFails, stripe
<1>2. Busy(h) /\ handlers[h].for = "unpublish"
  BY BusySound DEF PauseFails, At, Sound, Task
<1>3. HandlersOK' /\ Room'
  BY <1>1, <1>2, GoToInv, Bound DEF PauseFails
<1>4. faults' \in 0 .. MaxFaults
  BY PublicationAssumption DEF PauseFails, Fault, Inv, RestOK
<1> QED BY <1>1, <1>3, <1>4 DEF Inv, ListingOK, BoostsOK, RestOK

LEMMA DeliverInv ==
    ASSUME Inv, NEW h \in Handlers, NEW e \in events, Deliver(h, e)
    PROVE  Inv'
<1> DEFINE x == IF e.type = "checkout" THEN "insert" ELSE "cancel"
           s == Handler(x, e.type, e.payment, null, null)
<1>1. UNCHANGED <<listing, boosts, doc, sessions, events, now, worker, history, changes, faults>>
  BY DEF Deliver, stripe, counters
<1>2. ~Busy(h) /\ handlers' = [handlers EXCEPT ![h] = s]
  BY DEF Deliver
<1>3. e.payment \in Payments /\ e.type \in {"checkout", "refund"}
  BY DEF Inv, RestOK
<1>4. s = [at |-> x, for |-> e.type, payment |-> e.payment, first |-> null, now |-> null,
           todo |-> {}, rows |-> <<>>, weight |-> FALSE]
  BY DEF Handler
<1>5. <<>> \in Seq(BoostType) /\ null \in Times
  BY EmptySeq, PublicationAssumption DEF Times
<1> HIDE DEF s
<1>6. /\ s \in HandlerType /\ s.todo = {} /\ s.rows = <<>> /\ s.now <= now
      /\ s.at = x /\ s.for = e.type /\ s.payment = e.payment
  BY <1>3, <1>4, <1>5, Bound DEF HandlerType, Times
<1>7. Task(s)
  BY <1>3, <1>6 DEF Task, Changing
<1>8. Sound(s, now, Len(boosts))
  BY <1>6, <1>7, FreshSound, Bound
<1>9. handlers' \in [Handlers -> {Idle} \cup HandlerType]
  BY <1>2, <1>6 DEF Inv, HandlersOK
<1>10. HandlersOK'
  BY <1>1, <1>2, <1>8, <1>9 DEF Inv, HandlersOK, Busy
<1>11. Room'
  <2>1. h \notin Inserting
    BY <1>2 DEF Inserting, At
  <2>2. Inserting' = IF s # Idle /\ s.at = "insert" THEN Inserting \cup {h} ELSE Inserting \ {h}
    BY <1>2, InsertingMoves
  <2>3. Inserting' = IF x = "insert" THEN Inserting \cup {h} ELSE Inserting
    BY <1>6, <2>1, <2>2, IdleIsNone
  <2>4. CASE x = "insert"
    <3>1. Len(boosts) + Cardinality(Inserting) < MaxBoosts
      BY <2>4 DEF Deliver
    <3>2. IsFiniteSet(Inserting') /\ Cardinality(Inserting') = Cardinality(Inserting) + 1
      BY <2>1, <2>3, <2>4, FS_AddElement DEF Inv, Room
    <3>3. Cardinality(Inserting) \in Nat
      BY FS_CardinalityType DEF Inv, Room
    <3> QED BY <1>1, <3>1, <3>2, <3>3, Bound, PublicationAssumption DEF Room
  <2>5. CASE x # "insert"
    BY <1>1, <2>3, <2>5 DEF Inv, Room
  <2> QED BY <2>4, <2>5
<1> QED BY <1>1, <1>10, <1>11 DEF Inv, ListingOK, BoostsOK, RestOK

LEMMA InsertBoostInv ==
    ASSUME Inv, NEW h \in Handlers, InsertBoost(h)
    PROVE  Inv'
<1> DEFINE r == handlers[h]
           row == [ref |-> r.payment, status |-> "active", starts |-> now, ends |-> now + Days,
                   remaining |-> null, used |-> 0]
<1>1. UNCHANGED <<listing, doc, sessions, events, now, worker, history, changes, faults>>
  BY DEF InsertBoost, stripe, counters
<1>2. Busy(h) /\ r \in HandlerType /\ Task(r) /\ r.at = "insert" /\ r.for = "checkout"
  BY BusySound DEF InsertBoost, At, Sound, Task
<1>3. row \in BoostType /\ BoostOK(row)
  <2>1. r.payment \in Payments /\ now \in Times /\ now + Days \in 0 .. MaxTime + Days
    BY <1>2, Bound, PublicationAssumption DEF Task, Times
  <2> QED BY <2>1, PublicationAssumption DEF BoostType, BoostOK, Times
<1> HIDE DEF row
<1>4. boosts' = Append(boosts, row)
  BY DEF InsertBoost, row
<1>5. /\ boosts' \in Seq(BoostType) /\ Len(boosts') = Len(boosts) + 1
      /\ \A i \in 1 .. Len(boosts) : boosts'[i] = boosts[i]
      /\ boosts'[Len(boosts) + 1] = row
  BY <1>3, <1>4, AppendProperties DEF Inv, BoostsOK
<1>6. DOMAIN boosts' = 1 .. Len(boosts')
  BY <1>5, LenProperties
<1>7. BoostsOK'
  BY <1>3, <1>5, <1>6, Bound DEF Inv, BoostsOK
<1>8. HandlersOK'
  <2>1. GoTo(h, "weight")
    BY DEF InsertBoost
  <2>2. Len(boosts) \in Nat /\ Len(boosts') \in Nat /\ Len(boosts') >= Len(boosts)
    BY <1>5, Bound
  <2> QED BY <1>1, <1>2, <2>1, <2>2, GoToInv
<1>9. Room'
  <2>1. h \in Inserting
    BY <1>2 DEF Inserting, At
  <2>2. Inserting' = Inserting \ {h}
    BY <1>2 DEF InsertBoost, GoTo, Inserting, At, Busy, Inv, HandlersOK, HandlerType, Idle
  <2>3. IsFiniteSet(Inserting') /\ Cardinality(Inserting') = Cardinality(Inserting) - 1
    BY <2>1, <2>2, FS_RemoveElement DEF Inv, Room
  <2>4. Cardinality(Inserting) \in Nat /\ Cardinality(Inserting') \in Nat
    BY <2>3, FS_CardinalityType DEF Inv, Room
  <2> QED BY <1>5, <2>3, <2>4, Bound, PublicationAssumption DEF Inv, Room
<1> QED BY <1>1, <1>7, <1>8, <1>9 DEF Inv, ListingOK, RestOK

\* A refund cancels the rows of its payment.
LEMMA Cancelled ==
    ASSUME Inv, NEW h \in Handlers, CancelByRef(h)
    PROVE  /\ BoostsOK' /\ Len(boosts') = Len(boosts) /\ DOMAIN boosts' = DOMAIN boosts
           /\ \A i \in DOMAIN boosts :
                 boosts'[i] = boosts[i] \/ boosts'[i].status = "cancelled"
           /\ (boosts' = boosts /\ End(h)) \/ GoTo(h, "patch")
<1> DEFINE cancelled == {i \in DOMAIN boosts : /\ boosts[i].ref = handlers[h].payment
                                               /\ boosts[i].status \in {"active", "paused"}}
<1>1. \A i \in DOMAIN boosts : boosts[i] \in BoostType
  BY LenProperties DEF Inv, BoostsOK
<1>2. boosts' = [i \in DOMAIN boosts |->
                    IF i \in cancelled
                    THEN [boosts[i] EXCEPT !.status = "cancelled", !.ends = now, !.remaining = null]
                    ELSE boosts[i]]
  BY DEF CancelByRef
<1>3. (cancelled = {} /\ Answer(h)) \/ GoTo(h, "patch")
  BY DEF CancelByRef
<1> HIDE DEF cancelled
<1>4. now \in 0 .. MaxTime + Days /\ null \in 0 .. Days
  BY Bound, PublicationAssumption DEF Times
<1>5. \A i \in DOMAIN boosts :
         /\ boosts'[i] \in BoostType
         /\ boosts'[i] = boosts[i] \/ boosts'[i].status = "cancelled"
  <2> TAKE i \in DOMAIN boosts
  <2>1. CASE i \in cancelled
    <3>1. boosts'[i] = [boosts[i] EXCEPT !.status = "cancelled", !.ends = now, !.remaining = null]
      BY <1>2, <2>1
    <3> QED BY <1>1, <1>4, <3>1 DEF BoostType
  <2>2. CASE i \notin cancelled
    BY <1>1, <1>2, <2>2
  <2> QED BY <2>1, <2>2
<1>6. boosts' = [i \in DOMAIN boosts |-> boosts'[i]]
  BY <1>2
<1>7. boosts' \in Seq(BoostType) /\ Len(boosts') = Len(boosts) /\ DOMAIN boosts' = DOMAIN boosts
  BY <1>5, <1>6, SameLength DEF Inv, BoostsOK
<1>8. \A i \in DOMAIN boosts : BoostOK(boosts'[i])
  BY <1>5 DEF Inv, BoostsOK, BoostOK
<1>9. cancelled = {} => boosts' = boosts
  <2>1. boosts = [i \in DOMAIN boosts |-> boosts[i]]
    BY LenProperties DEF Inv, BoostsOK
  <2> QED BY <1>2, <2>1
<1> QED BY <1>3, <1>5, <1>7, <1>8, <1>9 DEF BoostsOK, Answer

LEMMA CancelByRefInv ==
    ASSUME Inv, NEW h \in Handlers, CancelByRef(h)
    PROVE  Inv'
<1>1. UNCHANGED <<listing, doc, sessions, now, worker, history, changes, faults>>
  BY DEF CancelByRef, counters
<1>2. Busy(h) /\ handlers[h].for = "refund"
  BY BusySound DEF CancelByRef, At, Sound, Task
<1>3. BoostsOK' /\ Len(boosts') = Len(boosts)
  BY Cancelled
<1>4. HandlersOK' /\ Room'
  <2>1. CASE End(h)
    BY <1>1, <1>3, <2>1, EndInv
  <2>2. CASE GoTo(h, "patch")
    BY <1>1, <1>2, <1>3, <2>2, GoToInv, Bound
  <2> QED BY <2>1, <2>2, Cancelled
<1>5. events' \subseteq events
  BY DEF CancelByRef, Answer
<1> QED BY <1>1, <1>3, <1>4, <1>5 DEF Inv, ListingOK, RestOK

LEMMA WorkerInv ==
    ASSUME Inv, Sweep \/ SweepPatch \/ WorkerDies
    PROVE  Inv'
<1>1. UNCHANGED <<listing, sessions, events, now, handlers, changes>>
  BY DEF Sweep, SweepPatch, WorkerDies, stripe, counters
<1>2. BoostsOK' /\ Len(boosts') = Len(boosts)
  BY Expired DEF Sweep, SweepPatch, WorkerDies, Inv, BoostsOK
<1>3. HandlersOK' /\ Room'
  BY <1>1, <1>2, StayPut
<1>4. history' \in [outdated : SUBSET (1 .. MaxBoosts), crossed : BOOLEAN,
                    suspended : BOOLEAN, swallowed : BOOLEAN, blurred : BOOLEAN]
  BY DEF Sweep, SweepPatch, WorkerDies, NoteWeight, IsBoosted, Inv, RestOK
<1>5. doc' \in [shown : BOOLEAN, boosted : BOOLEAN] /\ worker' \in {"idle", "patch"}
  BY DEF Sweep, SweepPatch, WorkerDies, Inv, RestOK
<1>6. faults' \in 0 .. MaxFaults
  <2>1. faults \in 0 .. MaxFaults /\ MaxFaults \in Nat
    BY PublicationAssumption DEF Inv, RestOK
  <2>2. faults' = faults \/ (faults < MaxFaults /\ faults' = faults + 1)
    BY DEF Sweep, SweepPatch, WorkerDies, Fault, counters
  <2> QED BY <2>1, <2>2
<1> QED BY <1>1, <1>2, <1>3, <1>4, <1>5, <1>6 DEF Inv, ListingOK, RestOK

LEMMA NextInv == Inv /\ [Next]_vars => Inv'
<1> SUFFICES ASSUME Inv, [Next]_vars PROVE Inv'
  OBVIOUS
<1>1. CASE UNCHANGED vars
  BY <1>1 DEF vars, stripe, counters, Inv, ListingOK, BoostsOK, HandlersOK, Room, RestOK, Busy,
              Inserting, At
<1>2. ASSUME NEW h \in Handlers, Step(h) PROVE Inv'
  BY <1>2, UpdateInv, ReadRowsInv, WriteInv, ReadWeightInv, WriteDocInv, InsertBoostInv,
     CancelByRefInv DEF Step
<1>3. ASSUME NEW h \in Handlers, NEW e \in events, Deliver(h, e) PROVE Inv'
  BY <1>3, DeliverInv
<1>4. CASE Next
  BY <1>2, <1>3, <1>4, TickInv, SettlingInv, RequestInv, WriteDocInv, PauseFailsInv, WorkerInv DEF Next
<1> QED BY <1>1, <1>4

LEMMA Invariance == Spec => []Inv
<1> QED BY InitInv, NextInv, PTL DEF Spec

\* Every variable keeps its type, however many boosts are bought and refunded and whoever writes
\* over whom: a boost never runs longer than its days, a webhook never inserts more boosts than
\* the bound leaves room for, and what is published has a first publication.
THEOREM PublicationTypeCorrect == Spec => []TypeOK
BY Invariance, InvTyped, PTL

-----------------------------------------------------------------------------
\* first_published_at is written once, by whichever of two publications comes first, whatever
\* the other one read before: the trigger refuses any other value.
THEOREM PublicationDated == Spec => FirstPublishedOnce
<1>1. Inv /\ [Next]_vars => [listing.first # null => listing'.first = listing.first]_vars
  <2> SUFFICES ASSUME Inv, Next, listing.first # null PROVE listing'.first = listing.first
    BY DEF vars, stripe, counters
  <2>1. CASE listing' = listing
    BY <2>1
  <2>2. CASE Archive
    BY <2>2 DEF Archive, Inv, ListingOK, ListingType
  <2>3. ASSUME NEW h \in Handlers, UpdatePublished(h) PROVE listing'.first = listing.first
    BY <2>3 DEF UpdatePublished, TriggerAdmits
  <2>4. ASSUME NEW h \in Handlers, UpdateUnpublished(h) PROVE listing'.first = listing.first
    BY <2>4 DEF UpdateUnpublished, Inv, ListingOK, ListingType
  <2>5. \/ listing' = listing \/ Archive
        \/ \E h \in Handlers : UpdatePublished(h) \/ UpdateUnpublished(h)
    BY DEF Next, Step, Tick, Look, Checkout, Pay, Refund, RequestPublish, RequestUnpublish, Deliver,
           ReadPaused, Resume, Pause, ReadWeight, Index, ReadActive, Remove, InsertBoost,
           CancelByRef, Patch, Die, PauseFails, PatchFails, Sweep, SweepPatch, WorkerDies
  <2> QED BY <2>1, <2>2, <2>3, <2>4, <2>5
<1> QED BY <1>1, Invariance, PTL DEF Spec, FirstPublishedOnce

-----------------------------------------------------------------------------
\* One handler changes the status at a time, unless two have crossed.

\* Handlers that have written the status.
Written(h) == IsChanging(h) /\ handlers[h].at # "update"

OneChanges == ~history.crossed => \A g, h \in Handlers : IsChanging(g) /\ IsChanging(h) => g = h
\* The status is still the one that such a handler wrote.
Settled ==
    ~history.crossed =>
        \A h \in Handlers : Written(h) =>
            listing.status = IF handlers[h].for = "publish" THEN "published" ELSE "unpublished"

\* A step that leaves the status, and the handlers that change it, alone.
Aside ==
    /\ listing' = listing /\ doc'.shown = doc.shown
    /\ history'.crossed = history.crossed /\ history'.suspended = history.suspended
    /\ history'.outdated = history.outdated
    /\ faults' = 0 => faults = 0
    /\ \A g \in Handlers :
          /\ IsChanging(g)' <=> IsChanging(g)
          /\ IsChanging(g) => handlers'[g] = handlers[g]

\* A step of a handler that has written the status to its next statement.
Onward(h) ==
    /\ UNCHANGED <<listing, doc>>
    /\ history'.crossed = history.crossed /\ history'.suspended = history.suspended
    /\ Written(h) /\ Written(h)' /\ handlers'[h].for = handlers[h].for
    /\ \A g \in Handlers \ {h} : handlers'[g] = handlers[g]

LEMMA ChangingMoves ==
    ASSUME Inv, NEW h \in Handlers, NEW r, handlers' = [handlers EXCEPT ![h] = r]
    PROVE  /\ \A g \in Handlers \ {h} : handlers'[g] = handlers[g] /\ (IsChanging(g)' <=> IsChanging(g))
           /\ handlers'[h] = r /\ (IsChanging(h)' <=> r # Idle /\ r.for \in Changing)
BY DEF Inv, HandlersOK, IsChanging, Busy

\* A step of a webhook.
LEMMA WebhookAside ==
    ASSUME Inv, NEW h \in Handlers, NEW r, handlers' = [handlers EXCEPT ![h] = r],
           r # Idle => r.for \notin Changing, ~IsChanging(h)
    PROVE  \A g \in Handlers :
              /\ IsChanging(g)' <=> IsChanging(g)
              /\ IsChanging(g) => handlers'[g] = handlers[g]
BY ChangingMoves

LEMMA AsideSteps ==
    ASSUME Inv, Inv',
           \/ Tick \/ Look \/ \E p \in Payments : Checkout(p) \/ Pay(p) \/ Refund(p)
           \/ Sweep \/ SweepPatch \/ WorkerDies
           \/ \E h \in Handlers :
                 \/ \E e \in events : Deliver(h, e)
                 \/ InsertBoost(h) \/ CancelByRef(h) \/ Patch(h) \/ PatchFails(h)
                 \/ ReadWeight(h) /\ handlers[h].for # "publish"
    PROVE  Aside
<1>1. CASE \/ Tick \/ Look \/ \E p \in Payments : Checkout(p) \/ Pay(p) \/ Refund(p)
           \/ Sweep \/ SweepPatch \/ WorkerDies
  <2>1. UNCHANGED <<listing, handlers>>
    BY <1>1 DEF Tick, Look, Checkout, Pay, Refund, Sweep, SweepPatch, WorkerDies
  <2>2. doc'.shown = doc.shown
    BY <1>1 DEF Tick, Look, Checkout, Pay, Refund, Sweep, SweepPatch, WorkerDies, Inv, RestOK
  <2>3. /\ history'.crossed = history.crossed /\ history'.suspended = history.suspended
        /\ history'.outdated = history.outdated
    BY <1>1 DEF Tick, Look, Checkout, Pay, Refund, Sweep, SweepPatch, WorkerDies, Inv, RestOK,
                NoteWeight
  <2>4. faults' = 0 => faults = 0
    <3>1. faults \in Nat
      BY PublicationAssumption DEF Inv, RestOK
    <3>2. faults' = faults \/ faults' = faults + 1
      BY <1>1
         DEF Tick, Look, Checkout, Pay, Refund, Sweep, SweepPatch, WorkerDies, Fault, counters
    <3> QED BY <3>1, <3>2
  <2> QED BY <2>1, <2>2, <2>3, <2>4 DEF Aside, IsChanging, Busy
<1>2. ASSUME NEW h \in Handlers, NEW e \in events, Deliver(h, e) PROVE Aside
  <2> DEFINE r == Handler(IF e.type = "checkout" THEN "insert" ELSE "cancel", e.type, e.payment, null, null)
  <2>1. ~Busy(h) /\ handlers' = [handlers EXCEPT ![h] = r]
    BY <1>2 DEF Deliver
  <2>2. r.for \notin Changing
    BY DEF Handler, Changing, Inv, RestOK
  <2> HIDE DEF r
  <2>3. UNCHANGED <<listing, doc, history, faults>>
    BY <1>2 DEF Deliver, counters
  <2> QED BY <2>1, <2>2, <2>3, WebhookAside DEF Aside, IsChanging
<1>3. ASSUME NEW h \in Handlers,
             \/ InsertBoost(h) \/ CancelByRef(h) \/ Patch(h) \/ PatchFails(h)
             \/ ReadWeight(h) /\ handlers[h].for # "publish"
      PROVE  Aside
  <2> DEFINE r == handlers[h]
  <2>1. Busy(h) /\ r \in HandlerType /\ r.for \notin Changing
    BY <1>3, BusySound
       DEF InsertBoost, CancelByRef, Patch, PatchFails, ReadWeight, At, Sound, Task, Changing
  <2>2. PICK s : handlers' = [handlers EXCEPT ![h] = s] /\ (s # Idle => s.for = r.for)
    <3>1. CASE handlers' = [handlers EXCEPT ![h] = Idle]
      BY <3>1
    <3>2. CASE \E x : GoTo(h, x)
      <4>1. PICK x : GoTo(h, x)
        BY <3>2
      <4>2. [r EXCEPT !.at = x].for = r.for
        BY <2>1 DEF HandlerType
      <4>3. handlers' = [handlers EXCEPT ![h] = [r EXCEPT !.at = x]]
        BY <4>1 DEF GoTo
      <4> QED BY <4>2, <4>3
    <3>3. CASE ReadWeight(h)
      <4> DEFINE s == [r EXCEPT !.at = IF r.for = "publish" THEN "index" ELSE "patch", !.weight = IsBoosted]
      <4>1. handlers' = [handlers EXCEPT ![h] = s]
        BY <3>3 DEF ReadWeight, Inv, HandlersOK
      <4>2. s.for = r.for
        BY <2>1 DEF HandlerType
      <4> QED BY <4>1, <4>2
    <3>4. CASE InsertBoost(h) \/ CancelByRef(h) \/ Patch(h) \/ PatchFails(h)
      <4>1. handlers' = [handlers EXCEPT ![h] = Idle] \/ \E x : GoTo(h, x)
        BY <3>4 DEF InsertBoost, CancelByRef, Patch, PatchFails, Answer, End
      <4> QED BY <3>1, <3>2, <4>1
    <3> QED BY <1>3, <3>3, <3>4
  <2>3. \A g \in Handlers : /\ IsChanging(g)' <=> IsChanging(g)
                            /\ IsChanging(g) => handlers'[g] = handlers[g]
    BY <2>1, <2>2, WebhookAside DEF IsChanging
  <2>4. /\ listing' = listing
        /\ history'.crossed = history.crossed /\ history'.suspended = history.suspended
        /\ history'.outdated = history.outdated
    BY <1>3 DEF InsertBoost, CancelByRef, Patch, PatchFails, ReadWeight, NoteWeight, Inv, RestOK
  <2>5. doc'.shown = doc.shown
    BY <1>3 DEF InsertBoost, CancelByRef, Patch, PatchFails, ReadWeight, Inv, RestOK
  <2>6. faults' = 0 => faults = 0
    <3>1. faults \in Nat
      BY PublicationAssumption DEF Inv, RestOK
    <3>2. faults' = faults \/ faults' = faults + 1
      BY <1>3 DEF InsertBoost, CancelByRef, Patch, PatchFails, ReadWeight, Fault, counters
    <3> QED BY <3>1, <3>2
  <2> QED BY <2>3, <2>4, <2>5, <2>6 DEF Aside
<1> QED BY <1>1, <1>2, <1>3

LEMMA OnwardSteps ==
    ASSUME Inv, NEW h \in Handlers,
           \/ ReadPaused(h) \/ ReadActive(h) \/ PauseFails(h)
           \/ \E i \in DOMAIN boosts : Resume(h, i) \/ Pause(h, i)
           \/ ReadWeight(h) /\ handlers[h].for = "publish"
    PROVE  Onward(h)
<1> DEFINE r == handlers[h]
<1>1. Busy(h) /\ r \in HandlerType /\ r.for \in Changing /\ r.at # "update"
  BY BusySound DEF ReadPaused, ReadActive, PauseFails, Resume, Pause, ReadWeight, At, Sound, Task, Changing
<1>2. PICK s : handlers' = [handlers EXCEPT ![h] = s] /\ s # Idle /\ s.for = r.for /\ s.at # "update"
  <2>1. CASE ReadPaused(h)
    <3> DEFINE paused == {i \in DOMAIN boosts : boosts[i].status = "paused"}
               s == IF paused = {} THEN [r EXCEPT !.at = "weight"]
                    ELSE [r EXCEPT !.at = "resume", !.now = now, !.todo = paused, !.rows = boosts]
    <3>1. handlers' = [handlers EXCEPT ![h] = s]
      BY <2>1 DEF ReadPaused
    <3> HIDE DEF paused
    <3>2. s.at \in {"weight", "resume"} /\ s.for = r.for
      BY <1>1 DEF HandlerType
    <3> QED BY <3>1, <3>2 DEF Idle
  <2>2. CASE ReadActive(h)
    <3> DEFINE running == {i \in DOMAIN boosts : isBoostActive(boosts[i], r.now)}
               s == IF running = {} THEN [r EXCEPT !.at = "remove", !.now = null]
                    ELSE [r EXCEPT !.at = "pause", !.todo = running, !.rows = boosts]
    <3>1. handlers' = [handlers EXCEPT ![h] = s]
      BY <2>2 DEF ReadActive
    <3> HIDE DEF running
    <3>2. s.at \in {"remove", "pause"} /\ s.for = r.for
      BY <1>1 DEF HandlerType
    <3> QED BY <3>1, <3>2 DEF Idle
  <2>3. CASE PauseFails(h)
    <3>1. handlers' = [handlers EXCEPT ![h] = [r EXCEPT !.at = "remove"]]
      BY <2>3 DEF PauseFails, GoTo
    <3>2. [r EXCEPT !.at = "remove"].at = "remove" /\ [r EXCEPT !.at = "remove"].for = r.for
      BY <1>1 DEF HandlerType
    <3> QED BY <3>1, <3>2 DEF Idle
  <2>4. ASSUME NEW i \in DOMAIN boosts, Resume(h, i) \/ Pause(h, i)
        PROVE  \E s : handlers' = [handlers EXCEPT ![h] = s] /\ s # Idle /\ s.for = r.for /\ s.at # "update"
    <3>1. PICK row, next : WriteRow(h, i, row, next) /\ next \in {"weight", "remove"}
      BY <2>4 DEF Resume, Pause
    <3> DEFINE s == IF r.todo = {i} THEN Handler(next, r.for, null, null, null)
                    ELSE [r EXCEPT !.todo = @ \ {i}]
    <3>2. handlers' = [handlers EXCEPT ![h] = s]
      BY <3>1 DEF WriteRow
    <3>3. s.at \in {next, r.at} /\ s.for = r.for
      BY <1>1 DEF HandlerType, Handler
    <3>4. r.at \in {"resume", "pause"}
      BY <2>4 DEF Resume, Pause, At
    <3> HIDE DEF s
    <3>5. s # Idle /\ s.at # "update"
      BY <3>1, <3>3, <3>4 DEF Idle
    <3> QED BY <3>2, <3>3, <3>5
  <2>5. CASE ReadWeight(h) /\ r.for = "publish"
    <3> DEFINE s == [r EXCEPT !.at = "index", !.weight = IsBoosted]
    <3>1. handlers' = [handlers EXCEPT ![h] = s]
      BY <2>5 DEF ReadWeight, Inv, HandlersOK
    <3>2. s.at = "index" /\ s.for = r.for
      BY <1>1 DEF HandlerType
    <3> QED BY <3>1, <3>2 DEF Idle
  <2> QED BY <2>1, <2>2, <2>3, <2>4, <2>5
<1>3. Written(h) /\ Written(h)' /\ handlers'[h].for = r.for
  BY <1>1, <1>2, ChangingMoves DEF Written, IsChanging
<1>4. UNCHANGED <<listing, doc>>
  BY DEF ReadPaused, ReadActive, PauseFails, Resume, Pause, ReadWeight
<1>5. history'.crossed = history.crossed /\ history'.suspended = history.suspended
  BY DEF ReadPaused, ReadActive, PauseFails, Resume, Pause, ReadWeight, WriteRow, Inv, RestOK
<1> QED BY <1>2, <1>3, <1>4, <1>5, ChangingMoves DEF Onward

\* The steps that are not of these two kinds, by name.
LEMMA Kinds ==
    ASSUME Inv, Inv', Next
    PROVE  \/ Aside
           \/ \E h \in Handlers :
                 \/ Onward(h) \/ UpdatePublished(h) \/ UpdateUnpublished(h) \/ Index(h)
                 \/ Remove(h) \/ Die(h)
                 \/ RequestPublish(h) \/ \E for \in {"unpublish", "suspend"} : RequestUnpublish(h, for)
           \/ Archive
BY AsideSteps, OnwardSteps DEF Next, Step

LEMMA Ends ==
    ASSUME Inv, NEW h \in Handlers, End(h)
    PROVE  /\ ~IsChanging(h)'
           /\ \A g \in Handlers \ {h} : handlers'[g] = handlers[g] /\ (IsChanging(g)' <=> IsChanging(g))
BY ChangingMoves DEF End

\* A publication or an unpublication that was written, and a request that begins.
LEMMA UpdateMoves ==
    ASSUME Inv, NEW h \in Handlers, UpdatePublished(h) \/ UpdateUnpublished(h), ~End(h)
    PROVE  /\ IsChanging(h) /\ Written(h)' /\ handlers'[h].for = handlers[h].for
           /\ listing'.status = IF handlers[h].for = "publish" THEN "published" ELSE "unpublished"
           /\ \A g \in Handlers \ {h} : handlers'[g] = handlers[g] /\ (IsChanging(g)' <=> IsChanging(g))
<1> DEFINE r == handlers[h]
<1>1. Busy(h) /\ r \in HandlerType /\ r.for \in Changing
  BY BusySound DEF UpdatePublished, UpdateUnpublished, At, Changing
<1>2. CASE UpdatePublished(h)
  <2> DEFINE s == Handler("paused", "publish", null, null, null)
  <2>1. handlers' = [handlers EXCEPT ![h] = s] /\ listing'.status = "published" /\ r.for = "publish"
    BY <1>2 DEF UpdatePublished
  <2>2. s.at = "paused" /\ s.for = "publish"
    BY DEF Handler
  <2> HIDE DEF s
  <2>3. s # Idle
    BY <2>2 DEF Idle
  <2>4. IsChanging(h) /\ "publish" \in Changing
    BY <1>1 DEF IsChanging, Changing
  <2>5. /\ handlers'[h] = s /\ IsChanging(h)'
        /\ \A g \in Handlers \ {h} : handlers'[g] = handlers[g] /\ (IsChanging(g)' <=> IsChanging(g))
    BY <2>1, <2>2, <2>3, <2>4, ChangingMoves
  <2> QED BY <2>1, <2>2, <2>4, <2>5 DEF Written
<1>3. CASE UpdateUnpublished(h)
  <2>1. PICK x \in {"active", "remove"} : GoTo(h, x)
    BY <1>3 DEF UpdateUnpublished
  <2> DEFINE s == [r EXCEPT !.at = x]
  <2>2. handlers' = [handlers EXCEPT ![h] = s]
    BY <2>1 DEF GoTo
  <2>3. s.at = x /\ s.for = r.for
    BY <1>1 DEF HandlerType
  <2> HIDE DEF s
  <2>4. s # Idle
    BY <2>1, <2>3 DEF Idle
  <2>5. listing'.status = "unpublished" /\ r.for # "publish"
    BY <1>3 DEF UpdateUnpublished, Inv, ListingOK, ListingType
  <2> QED BY <1>1, <2>1, <2>2, <2>3, <2>4, <2>5, ChangingMoves DEF Written, IsChanging
<1> QED BY <1>2, <1>3

LEMMA RequestMoves ==
    ASSUME Inv, NEW h \in Handlers,
           RequestPublish(h) \/ \E for \in {"unpublish", "suspend"} : RequestUnpublish(h, for)
    PROVE  /\ ~IsChanging(h) /\ ~Written(h)' /\ handlers'[h].at = "update"
           /\ \A g \in Handlers \ {h} : handlers'[g] = handlers[g] /\ (IsChanging(g)' <=> IsChanging(g))
           /\ ~history'.crossed => ~history.crossed /\ \A g \in Handlers : ~IsChanging(g)
           /\ history'.suspended = history.suspended
           /\ UNCHANGED <<listing, boosts, doc, faults>>
<1>1. PICK for, first : handlers' = [handlers EXCEPT ![h] = Handler("update", for, null, first, now)]
  BY DEF RequestPublish, RequestUnpublish
<1> DEFINE s == Handler("update", for, null, first, now)
<1>2. s.at = "update"
  BY DEF Handler
<1> HIDE DEF s
<1>3. /\ ~history'.crossed => ~history.crossed /\ \A g \in Handlers : ~IsChanging(g)
      /\ history'.suspended = history.suspended
  BY DEF RequestPublish, RequestUnpublish, Cross, Inv, RestOK
<1>4. ~Busy(h) /\ UNCHANGED <<listing, boosts, doc, faults>>
  BY DEF RequestPublish, RequestUnpublish
<1> QED BY <1>1, <1>2, <1>3, <1>4, ChangingMoves DEF Written, IsChanging, s

LEMMA DisciplineNext ==
    ASSUME Inv, Inv', Next, OneChanges, Settled
    PROVE  OneChanges' /\ Settled'
<1>1. CASE Aside
  BY <1>1 DEF Aside, OneChanges, Settled, Written
<1>2. ASSUME NEW h \in Handlers, Onward(h) PROVE OneChanges' /\ Settled'
  <2>1. \A g \in Handlers : IsChanging(g)' => IsChanging(g)
    BY <1>2 DEF Onward, Written, IsChanging, Busy
  <2>2. \A g \in Handlers : Written(g)' => Written(g) /\ handlers'[g].for = handlers[g].for
    BY <1>2 DEF Onward, Written, IsChanging, Busy
  <2> QED BY <1>2, <2>1, <2>2 DEF Onward, OneChanges, Settled
<1>3. ASSUME NEW h \in Handlers, End(h), listing' = listing, history'.crossed = history.crossed
      PROVE  OneChanges' /\ Settled'
  BY <1>3, Ends DEF OneChanges, Settled, Written
<1>4. ASSUME NEW h \in Handlers, UpdatePublished(h) \/ UpdateUnpublished(h), ~End(h)
      PROVE  OneChanges' /\ Settled'
  <2>1. history'.crossed = history.crossed
    BY <1>4 DEF UpdatePublished, UpdateUnpublished, Inv, RestOK
  <2> QED BY <1>4, <2>1, UpdateMoves DEF OneChanges, Settled, Written
<1>5. ASSUME NEW h \in Handlers,
             RequestPublish(h) \/ \E for \in {"unpublish", "suspend"} : RequestUnpublish(h, for)
      PROVE  OneChanges' /\ Settled'
  BY <1>5, RequestMoves DEF OneChanges, Settled, Written
<1>6. CASE Archive
  <2>1. handlers' = handlers
    BY <1>6 DEF Archive
  <2>2. ~history'.crossed => ~history.crossed /\ \A g \in Handlers : ~IsChanging(g)
    BY <1>6 DEF Archive, Cross, Inv, RestOK
  <2> QED BY <2>1, <2>2 DEF OneChanges, Settled, Written, IsChanging, Busy
<1>7. ASSUME NEW h \in Handlers,
             \/ Index(h) \/ Remove(h) \/ Die(h)
             \/ (UpdatePublished(h) \/ UpdateUnpublished(h)) /\ End(h)
      PROVE  OneChanges' /\ Settled'
  <2>1. End(h) /\ history'.crossed = history.crossed
    BY <1>7 DEF Index, Remove, Die, UpdatePublished, UpdateUnpublished, NoteWeight, Inv, RestOK
  <2>2. CASE listing' = listing
    BY <2>1, <2>2, <1>3
  <2>3. CASE listing' # listing
    <3>1. UpdatePublished(h) \/ UpdateUnpublished(h)
      BY <1>7, <2>3 DEF Index, Remove, Die
    <3>2. IsChanging(h)
      BY <3>1, BusySound DEF UpdatePublished, UpdateUnpublished, At, Changing, IsChanging
    <3> QED BY <2>1, <3>2, Ends DEF OneChanges, Settled, Written
  <2> QED BY <2>2, <2>3
<1> QED BY <1>1, <1>2, <1>4, <1>5, <1>6, <1>7, Kinds

-----------------------------------------------------------------------------
\* SearchIsTruthful: what is shown is published.

Shown ==
    ~history.crossed /\ faults = 0 /\ listing.status # "archived"
        /\ (\A h \in Handlers : ~Written(h))
    => (doc.shown <=> listing.status = "published")

LEMMA ShownNext ==
    ASSUME Inv, Inv', Next, Settled, Shown
    PROVE  Shown'
<1>1. CASE Aside
  BY <1>1 DEF Aside, Shown, Written
<1>2. ASSUME NEW h \in Handlers, Onward(h) PROVE Shown'
  BY <1>2 DEF Onward, Shown
<1>3. ASSUME NEW h \in Handlers, UpdatePublished(h) \/ UpdateUnpublished(h) PROVE Shown'
  <2>1. CASE End(h)
    <3>1. UpdatePublished(h) => ~Written(h)
      BY DEF UpdatePublished, Written, At
    <3>2. UpdateUnpublished(h) => \E x : GoTo(h, x)
      BY DEF UpdateUnpublished
    <3>3. UpdatePublished(h)
      <4> SUFFICES ASSUME UpdateUnpublished(h) PROVE FALSE
        BY <1>3
      <4>1. PICK x : GoTo(h, x)
        BY <3>2
      <4>2. handlers[h] \in HandlerType /\ handlers'[h] = [handlers[h] EXCEPT !.at = x]
        BY <4>1, BusySound DEF GoTo, UpdateUnpublished, At, Inv, HandlersOK
      <4>3. handlers'[h] = Idle
        BY <2>1 DEF End, Inv, HandlersOK
      <4> QED BY <4>2, <4>3 DEF Idle, HandlerType
    <3>4. listing' = listing /\ history' = history /\ doc' = doc /\ faults' = faults
      <4>1. handlers[h].for = "publish" /\ handlers'[h] = Idle
        BY <2>1, <3>3 DEF UpdatePublished, End, Inv, HandlersOK
      <4>2. handlers'[h] # Handler("paused", "publish", null, null, null)
        BY <4>1 DEF Idle, Handler
      <4>3. handlers' # [handlers EXCEPT ![h] = Handler("paused", "publish", null, null, null)]
        BY <4>2 DEF Inv, HandlersOK
      <4> QED BY <3>3, <4>3 DEF UpdatePublished, counters
    <3>5. \A g \in Handlers : Written(g) => Written(g)'
      BY <2>1, <3>1, <3>3, Ends DEF Written
    <3> QED BY <3>4, <3>5 DEF Shown
  <2>2. CASE ~End(h)
    BY <1>3, <2>2, UpdateMoves DEF Shown
  <2> QED BY <2>1, <2>2
<1>4. ASSUME NEW h \in Handlers,
             RequestPublish(h) \/ \E for \in {"unpublish", "suspend"} : RequestUnpublish(h, for)
      PROVE  Shown'
  BY <1>4, RequestMoves DEF Shown, Written
<1>5. CASE Archive
  BY <1>5 DEF Archive, Shown, Inv, ListingOK, ListingType
<1>6. ASSUME NEW h \in Handlers, Index(h) PROVE Shown'
  <2>1. Written(h) /\ handlers[h].for = "publish"
    BY <1>6, BusySound DEF Index, At, Sound, Task, Written, IsChanging, Changing
  <2>2. listing' = listing /\ doc'.shown /\ history'.crossed = history.crossed
    BY <1>6 DEF Index, NoteWeight, Inv, RestOK
  <2> QED BY <2>1, <2>2 DEF Shown, Settled
<1>7. ASSUME NEW h \in Handlers, Remove(h) PROVE Shown'
  <2>1. Written(h) /\ handlers[h].for # "publish"
    BY <1>7, BusySound DEF Remove, At, Sound, Task, Written, IsChanging, Changing
  <2>2. listing' = listing /\ ~doc'.shown /\ history'.crossed = history.crossed
    BY <1>7 DEF Remove
  <2> QED BY <2>1, <2>2 DEF Shown, Settled
<1>8. ASSUME NEW h \in Handlers, Die(h) PROVE Shown'
  <2>1. faults' # 0
    BY <1>8, PublicationAssumption DEF Die, Fault, Inv, RestOK
  <2> QED BY <2>1 DEF Shown
<1> QED BY <1>1, <1>2, <1>3, <1>4, <1>5, <1>6, <1>7, <1>8, Kinds

-----------------------------------------------------------------------------
\* SearchIsTruthful: what is ranked is paid.

\* Somebody is about to write the weight of the document, or to remove it.
Ranking ==
    worker = "patch" \/ \E h \in Handlers : Busy(h) /\ handlers[h].at \in {"index", "patch", "pause", "remove"}
SomeActive == \E i \in DOMAIN boosts : boosts[i].status = "active"

Earned ==
    faults = 0 /\ ~history.swallowed /\ ~history.blurred /\ ~Ranking /\ doc.boosted => SomeActive

\* A step after which active boosts are left, if there were any, and that ends no ranking.
Untouched ==
    /\ doc' = doc
    /\ history'.swallowed = history.swallowed /\ history'.blurred = history.blurred
    /\ faults' = 0 => faults = 0
    /\ Ranking => Ranking'
    /\ SomeActive => SomeActive'

LEMMA EarnedKept == Earned /\ Untouched => Earned'
BY DEF Earned, Untouched

\* A handler that is not about to write the weight does something else.
LEMMA RankingKept ==
    ASSUME Inv, NEW h \in Handlers, NEW r, handlers' = [handlers EXCEPT ![h] = r], worker' = worker,
           ~(Busy(h) /\ handlers[h].at \in {"index", "patch", "pause", "remove"})
    PROVE  Ranking => Ranking'
BY DEF Ranking, Busy, Inv, HandlersOK

\* Who sits at one of these places ranks.
LEMMA Ranks ==
    ASSUME Inv, NEW h \in Handlers, NEW r, handlers' = [handlers EXCEPT ![h] = r],
           r.at \in {"index", "patch", "pause", "remove"}
    PROVE  Ranking'
<1>1. r # Idle
  BY DEF Idle
<1> QED BY <1>1 DEF Ranking, Busy, Inv, HandlersOK

LEMMA EarnedLook ==
    ASSUME Inv, Earned, Look \/ \E p \in Payments : Checkout(p)
    PROVE  Earned'
<1>1. CASE SomeEnded
  <2>1. history'.swallowed
    BY <1>1 DEF Look, Checkout, Inv, RestOK
  <2> QED BY <2>1 DEF Earned
<1>2. CASE ~SomeEnded
  <2>1. UNCHANGED <<doc, handlers, worker, faults>>
    BY DEF Look, Checkout, counters
  <2>2. history'.swallowed = history.swallowed /\ history'.blurred = history.blurred
    BY <1>2 DEF Look, Checkout, Inv, RestOK
  <2>3. SomeActive => SomeActive'
    BY <1>2, Expired DEF Look, Checkout, SomeActive, SomeEnded
  <2> QED BY <2>1, <2>2, <2>3, EarnedKept DEF Untouched, Ranking, Busy
<1> QED BY <1>1, <1>2

LEMMA EarnedQuiet ==
    ASSUME Inv, Earned, Tick \/ Archive \/ \E p \in Payments : Pay(p) \/ Refund(p)
    PROVE  Earned'
<1>1. UNCHANGED <<boosts, doc, handlers, worker, faults>>
  BY DEF Tick, Archive, Pay, Refund, counters
<1>2. history'.swallowed = history.swallowed /\ history'.blurred = history.blurred
  BY DEF Tick, Archive, Pay, Refund, Cross, Inv, RestOK
<1> QED BY <1>1, <1>2, EarnedKept DEF Untouched, Ranking, Busy, SomeActive

LEMMA EarnedBegin ==
    ASSUME Inv, Earned, NEW h \in Handlers,
           \/ RequestPublish(h) \/ \E for \in {"unpublish", "suspend"} : RequestUnpublish(h, for)
           \/ \E e \in events : Deliver(h, e)
           \/ UpdatePublished(h) \/ UpdateUnpublished(h) \/ ReadPaused(h)
    PROVE  Earned'
<1>1. UNCHANGED <<boosts, doc, worker, faults>>
  BY DEF RequestPublish, RequestUnpublish, Deliver, UpdatePublished, UpdateUnpublished, ReadPaused,
         counters
<1>2. history'.swallowed = history.swallowed /\ history'.blurred = history.blurred
  BY DEF RequestPublish, RequestUnpublish, Deliver, UpdatePublished, UpdateUnpublished, ReadPaused,
         Cross, Inv, RestOK
<1>3. ~(Busy(h) /\ handlers[h].at \in {"index", "patch", "pause", "remove"})
  BY DEF RequestPublish, RequestUnpublish, Deliver, UpdatePublished, UpdateUnpublished, ReadPaused, At
<1>4. \E r : handlers' = [handlers EXCEPT ![h] = r]
  BY DEF RequestPublish, RequestUnpublish, Deliver, UpdatePublished, UpdateUnpublished, ReadPaused,
         GoTo, End
<1> QED BY <1>1, <1>2, <1>3, <1>4, RankingKept, EarnedKept DEF Untouched, SomeActive

LEMMA EarnedRead ==
    ASSUME Inv, NEW h \in Handlers, ReadActive(h) \/ ReadWeight(h)
    PROVE  Ranking'
<1> DEFINE r == handlers[h]
<1>1. Busy(h) /\ r \in HandlerType
  BY BusySound DEF ReadActive, ReadWeight, At
<1>2. CASE ReadActive(h)
  <2> DEFINE running == {i \in DOMAIN boosts : isBoostActive(boosts[i], r.now)}
             s == IF running = {} THEN [r EXCEPT !.at = "remove", !.now = null]
                  ELSE [r EXCEPT !.at = "pause", !.todo = running, !.rows = boosts]
  <2>1. handlers' = [handlers EXCEPT ![h] = s]
    BY <1>2 DEF ReadActive
  <2> HIDE DEF running
  <2>2. s.at \in {"remove", "pause"}
    BY <1>1 DEF HandlerType
  <2> HIDE DEF s
  <2> QED BY <2>1, <2>2, Ranks
<1>3. CASE ReadWeight(h)
  <2> DEFINE s == [r EXCEPT !.at = IF r.for = "publish" THEN "index" ELSE "patch", !.weight = IsBoosted]
  <2>1. handlers' = [handlers EXCEPT ![h] = s]
    BY <1>3 DEF ReadWeight, Inv, HandlersOK
  <2>2. s.at \in {"index", "patch"}
    BY <1>1 DEF HandlerType
  <2> HIDE DEF s
  <2> QED BY <2>1, <2>2, Ranks
<1> QED BY <1>2, <1>3

LEMMA EarnedWrite ==
    ASSUME Inv, Earned, NEW h \in Handlers, NEW i \in DOMAIN boosts, Resume(h, i) \/ Pause(h, i)
    PROVE  Earned'
<1> DEFINE r == handlers[h]
<1>1. Busy(h) /\ r \in HandlerType /\ Task(r) /\ i \in r.todo
  BY BusySound DEF Resume, Pause, At, Sound
<1>2. boosts[i] \in BoostType /\ r.rows[i] \in BoostType /\ BoostOK(r.rows[i])
  BY <1>1, Read
<1>3. UNCHANGED <<doc, worker, faults>>
  BY DEF Resume, Pause, counters
<1>4. CASE Resume(h, i)
  <2> DEFINE t == r.now  remaining == r.rows[i].remaining
             row == [boosts[i] EXCEPT !.status = "active", !.starts = t,
                                      !.ends = t + remaining, !.remaining = null]
  <2>1. r.at = "resume" /\ remaining # null
    BY <1>1, <1>2, <1>4 DEF Resume, At, Task, BoostOK
  <2>2. WriteRow(h, i, row, "weight")
    BY <1>4, <2>1 DEF Resume
  <2>3. row.status = "active"
    BY <1>2 DEF BoostType
  <2> HIDE DEF row
  <2>4. history'.swallowed = history.swallowed /\ history'.blurred = history.blurred
    BY <2>2 DEF WriteRow, Inv, RestOK
  <2>5. boosts'[i] = row /\ i \in DOMAIN boosts'
    BY <2>2 DEF WriteRow, Inv, BoostsOK
  <2>6. SomeActive'
    BY <2>3, <2>5 DEF SomeActive
  <2>7. Ranking => Ranking'
    BY <1>3, <2>1, <2>2, RankingKept DEF WriteRow
  <2> QED BY <1>3, <2>4, <2>6, <2>7, EarnedKept DEF Untouched
<1>5. CASE Pause(h, i)
  <2>1. r.at = "pause"
    BY <1>5 DEF Pause, At
  <2>2. PICK row : WriteRow(h, i, row, "remove")
    BY <1>5 DEF Pause
  <2> DEFINE s == IF r.todo = {i} THEN Handler("remove", r.for, null, null, null)
                  ELSE [r EXCEPT !.todo = @ \ {i}]
  <2>3. handlers' = [handlers EXCEPT ![h] = s]
    BY <2>2 DEF WriteRow
  <2>4. s.at \in {"remove", "pause"}
    BY <1>1, <2>1 DEF HandlerType, Handler
  <2> HIDE DEF s
  <2>5. Ranking'
    BY <2>3, <2>4, Ranks
  <2> QED BY <2>5 DEF Earned
<1> QED BY <1>4, <1>5

LEMMA EarnedInsert ==
    ASSUME Inv, Inv', Earned, NEW h \in Handlers, InsertBoost(h)
    PROVE  Earned'
<1> DEFINE row == [ref |-> handlers[h].payment, status |-> "active", starts |-> now,
                   ends |-> now + Days, remaining |-> null, used |-> 0]
<1>1. boosts' = Append(boosts, row) /\ row.status = "active"
  BY DEF InsertBoost
<1> HIDE DEF row
<1>2. Len(boosts) + 1 \in DOMAIN boosts' /\ boosts'[Len(boosts) + 1] = row
  BY <1>1, Bound DEF Inv, BoostsOK
<1>3. SomeActive'
  BY <1>1, <1>2 DEF SomeActive
<1>4. UNCHANGED <<doc, worker, history, faults>>
  BY DEF InsertBoost, counters
<1>5. Ranking => Ranking'
  BY <1>4, RankingKept DEF InsertBoost, At, GoTo
<1> QED BY <1>3, <1>4, <1>5, EarnedKept DEF Untouched

LEMMA EarnedCancel ==
    ASSUME Inv, Earned, NEW h \in Handlers, CancelByRef(h)
    PROVE  Earned'
<1>1. Busy(h) /\ handlers[h] \in HandlerType /\ handlers[h].at = "cancel"
  BY BusySound DEF CancelByRef, At
<1>2. UNCHANGED <<doc, worker, history, faults>>
  BY DEF CancelByRef, counters
<1>3. CASE boosts' = boosts /\ End(h)
  <2>1. Ranking => Ranking'
    BY <1>1, <1>2, <1>3, RankingKept DEF End
  <2> QED BY <1>2, <1>3, <2>1, EarnedKept DEF Untouched, SomeActive
<1>4. CASE GoTo(h, "patch")
  <2> DEFINE s == [handlers[h] EXCEPT !.at = "patch"]
  <2>1. handlers' = [handlers EXCEPT ![h] = s]
    BY <1>4 DEF GoTo
  <2>2. s.at = "patch"
    BY <1>1 DEF HandlerType
  <2> HIDE DEF s
  <2>3. Ranking'
    BY <2>1, <2>2, Ranks
  <2> QED BY <2>3 DEF Earned
<1> QED BY <1>3, <1>4, Cancelled

\* The document is written.
LEMMA EarnedRank ==
    ASSUME Inv, NEW h \in Handlers, Index(h) \/ Patch(h) \/ Remove(h)
    PROVE  Earned'
<1>1. CASE Index(h) \/ Patch(h)
  <2> DEFINE w == handlers[h].weight
  <2>1. boosts' = boosts /\ doc'.boosted = w
    BY <1>1 DEF Index, Patch, Inv, RestOK
  <2>2. ~history'.blurred => w = IsBoosted
    BY <1>1 DEF Index, Patch, NoteWeight, Inv, RestOK
  <2>3. IsBoosted => SomeActive'
    BY <2>1 DEF IsBoosted, isBoostActive, SomeActive
  <2> QED BY <2>1, <2>2, <2>3 DEF Earned
<1>2. CASE Remove(h)
  <2>1. ~doc'.boosted
    BY <1>2 DEF Remove
  <2> QED BY <2>1 DEF Earned
<1> QED BY <1>1, <1>2

LEMMA EarnedNext ==
    ASSUME Inv, Inv', Earned, Next
    PROVE  Earned'
<1>1. ASSUME NEW h \in Handlers, Step(h) PROVE Earned'
  <2>1. CASE ReadActive(h) \/ ReadWeight(h)
    BY <2>1, EarnedRead DEF Earned
  <2> QED BY <1>1, <2>1, EarnedBegin, EarnedWrite, EarnedInsert, EarnedCancel, EarnedRank DEF Step
<1>2. ASSUME Fault PROVE Earned'
  <2>1. faults' # 0
    BY <1>2, PublicationAssumption DEF Fault, Inv, RestOK
  <2> QED BY <2>1 DEF Earned
<1>3. ASSUME NEW h \in Handlers, Die(h) \/ PauseFails(h) \/ PatchFails(h) PROVE Earned'
  BY <1>2, <1>3 DEF Die, PauseFails, PatchFails
<1>4. CASE WorkerDies
  BY <1>2, <1>4 DEF WorkerDies
<1>5. CASE Sweep \/ SweepPatch
  <2>1. CASE Sweep
    BY <2>1 DEF Sweep, Earned, Ranking
  <2>2. CASE SweepPatch
    <3>1. ~doc'.boosted
      BY <2>2 DEF SweepPatch, Inv, RestOK
    <3> QED BY <3>1 DEF Earned
  <2> QED BY <1>5, <2>1, <2>2
<1> QED BY <1>1, <1>3, <1>4, <1>5, EarnedLook, EarnedQuiet, EarnedBegin DEF Next

LEMMA Truthful == Inv /\ Shown /\ Earned => SearchIsTruthful
<1> SUFFICES ASSUME Inv, Shown, Earned, ~history.crossed, faults = 0
             PROVE  ShownIsPublished /\ RankIsEarned
  BY DEF SearchIsTruthful
<1>1. ShownIsPublished
  BY DEF Shown, ShownIsPublished, Quiet, Written
<1>2. RankIsEarned
  BY DEF Earned, RankIsEarned, Ranking, SomeActive
<1> QED BY <1>1, <1>2

\* What the search shows is what is published and what it ranks is what is paid, up to the
\* provisos of the property: rows and document are written by different statements of any
\* number of requests and webhooks and of the worker, in any order.
THEOREM SearchTells == Spec => []SearchIsTruthful
<1> DEFINE I == Inv /\ OneChanges /\ Settled /\ Shown /\ Earned
<1>1. Init => I
  <2>1. Init => Inv
    BY InitInv
  <2>2. Init => OneChanges /\ Settled
    BY DEF Init, OneChanges, Settled, Written, IsChanging, Busy, Idle
  <2>3. Init => Shown /\ Earned
    BY DEF Init, Shown, Earned
  <2> QED BY <2>1, <2>2, <2>3
<1>2. I /\ [Next]_vars => I'
  <2> SUFFICES ASSUME I, [Next]_vars PROVE I'
    OBVIOUS
  <2>1. Inv'
    BY NextInv
  <2>2. CASE Next
    BY <2>1, <2>2, DisciplineNext, ShownNext, EarnedNext
  <2>3. CASE UNCHANGED vars
    <3>1. UNCHANGED <<listing, boosts, doc, handlers, worker, history, faults>>
      BY <2>3 DEF vars, counters
    <3> QED BY <2>1, <3>1 DEF OneChanges, Settled, Shown, Earned, Written, IsChanging, Busy, Ranking,
                              SomeActive
  <2> QED BY <2>2, <2>3
<1>3. I => SearchIsTruthful
  BY Truthful
<1> HIDE DEF I
<1> QED BY <1>1, <1>2, <1>3, PTL DEF Spec

-----------------------------------------------------------------------------
\* BoostTimeIsKept: the days of a boost.

KeptBoost(b) ==
    /\ b.status = "active" => b.used + b.ends - b.starts = Days
    /\ b.status = "paused" => b.used + b.remaining = Days
Kept == \A i \in DOMAIN boosts \ history.outdated : KeptBoost(boosts[i])

LEMMA KeptSame ==
    ASSUME Inv, Kept, history'.outdated = history.outdated, DOMAIN boosts' = DOMAIN boosts,
           \A i \in DOMAIN boosts : boosts'[i] = boosts[i] \/ boosts'[i].status \notin {"active", "paused"}
    PROVE  Kept'
BY DEF Kept, KeptBoost

LEMMA KeptExpired ==
    ASSUME Inv, Kept, expireEnded, history'.outdated = history.outdated
    PROVE  Kept'
<1>1. \A i \in DOMAIN boosts : boosts[i] \in BoostType
  BY LenProperties DEF Inv, BoostsOK
<1>2. \A i \in DOMAIN boosts : boosts'[i] = boosts[i] \/ boosts'[i].status = "expired"
  BY <1>1, Expired DEF BoostType
<1> QED BY <1>2, Expired, KeptSame

LEMMA KeptInsert ==
    ASSUME Inv, Inv', Kept, NEW h \in Handlers, InsertBoost(h)
    PROVE  Kept'
<1> DEFINE row == [ref |-> handlers[h].payment, status |-> "active", starts |-> now,
                   ends |-> now + Days, remaining |-> null, used |-> 0]
<1>1. boosts' = Append(boosts, row) /\ history' = history
  BY DEF InsertBoost
<1>2. KeptBoost(row)
  BY Bound, PublicationAssumption DEF KeptBoost, Times
<1> HIDE DEF row
<1>3. /\ DOMAIN boosts' = 1 .. (Len(boosts) + 1)
      /\ \A i \in 1 .. Len(boosts) : boosts'[i] = boosts[i]
      /\ boosts'[Len(boosts) + 1] = row
  BY <1>1, Bound DEF Inv, BoostsOK
<1>4. ASSUME NEW i \in DOMAIN boosts' \ history.outdated PROVE KeptBoost(boosts'[i])
  <2>1. CASE i = Len(boosts) + 1
    BY <1>2, <1>3, <2>1
  <2>2. CASE i # Len(boosts) + 1
    BY <1>3, <2>2, Bound DEF Kept
  <2> QED BY <2>1, <2>2
<1> QED BY <1>1, <1>4 DEF Kept

LEMMA KeptWrite ==
    ASSUME Inv, Inv', Kept, NEW h \in Handlers, NEW i \in DOMAIN boosts, Resume(h, i) \/ Pause(h, i)
    PROVE  Kept'
<1> DEFINE r == handlers[h]  t == r.now
<1>1. Busy(h) /\ r \in HandlerType /\ Task(r) /\ i \in r.todo
  BY BusySound DEF Resume, Pause, At, Sound
<1>2. boosts[i] \in BoostType /\ r.rows[i] \in BoostType /\ BoostOK(r.rows[i]) /\ t \in Times
  BY <1>1, Read DEF HandlerType
<1>3. PICK row, next : /\ WriteRow(h, i, row, next)
                       /\ boosts[i] = r.rows[i] /\ KeptBoost(boosts[i]) => KeptBoost(row)
  <2> DEFINE remaining == r.rows[i].remaining
             running == [boosts[i] EXCEPT !.status = "active", !.starts = t,
                                          !.ends = t + remaining, !.remaining = null]
             paused == [boosts[i] EXCEPT !.status = "paused",
                                         !.remaining = remainingBoostMs(r.rows[i], t),
                                         !.used = @ + t - r.rows[i].starts]
  <2>1. CASE Resume(h, i)
    <3>1. r.rows[i].status = "paused" /\ remaining # null
      BY <1>1, <1>2, <2>1 DEF Resume, At, Task, BoostOK
    <3>2. WriteRow(h, i, running, "weight")
      BY <2>1, <3>1 DEF Resume
    <3>3. /\ running.status = "active" /\ running.starts = t /\ running.ends = t + remaining
          /\ running.used = boosts[i].used
      BY <1>2 DEF BoostType
    <3> HIDE DEF running
    <3>4. boosts[i] = r.rows[i] /\ KeptBoost(boosts[i]) => KeptBoost(running)
      BY <1>2, <3>1, <3>3, PublicationAssumption DEF KeptBoost, BoostType, Times
    <3> QED BY <3>2, <3>4
  <2>2. CASE Pause(h, i)
    <3>1. isBoostActive(r.rows[i], t)
      BY <1>1, <2>2 DEF Pause, At, Task
    <3>2. WriteRow(h, i, paused, "remove")
      BY <2>2 DEF Pause
    <3>3. remainingBoostMs(r.rows[i], t) = r.rows[i].ends - t
      BY <3>1 DEF remainingBoostMs, isBoostActive
    <3>4. /\ paused.status = "paused" /\ paused.remaining = r.rows[i].ends - t
          /\ paused.used = boosts[i].used + t - r.rows[i].starts
      <4> DEFINE left == remainingBoostMs(r.rows[i], t)
                 used == boosts[i].used + t - r.rows[i].starts
      <4>1. paused = [boosts[i] EXCEPT !.status = "paused", !.remaining = left, !.used = used]
        OBVIOUS
      <4> HIDE DEF left, used, paused
      <4>2. paused.status = "paused" /\ paused.remaining = left /\ paused.used = used
        BY <1>2, <4>1 DEF BoostType
      <4> QED BY <3>3, <4>2 DEF left, used
    <3> HIDE DEF paused
    <3>5. boosts[i] = r.rows[i] /\ KeptBoost(boosts[i]) => KeptBoost(paused)
      BY <1>2, <3>1, <3>4, PublicationAssumption DEF KeptBoost, BoostType, Times, isBoostActive
    <3> QED BY <3>2, <3>5
  <2> QED BY <2>1, <2>2
<1>4. /\ boosts' = [boosts EXCEPT ![i] = row]
      /\ history'.outdated = IF boosts[i] = r.rows[i] THEN history.outdated
                             ELSE history.outdated \cup {i}
  BY <1>3 DEF WriteRow, Inv, RestOK
<1>5. ASSUME NEW j \in DOMAIN boosts' \ history'.outdated PROVE KeptBoost(boosts'[j])
  <2>1. j \in DOMAIN boosts \ history.outdated
    BY <1>4
  <2>2. CASE j = i
    BY <1>3, <1>4, <2>1, <2>2 DEF Kept
  <2>3. CASE j # i
    BY <1>4, <2>1, <2>3 DEF Kept
  <2> QED BY <2>2, <2>3
<1> QED BY <1>5 DEF Kept

LEMMA KeptNext ==
    ASSUME Inv, Inv', Kept, Next
    PROVE  Kept'
<1>1. CASE boosts' = boosts /\ history'.outdated = history.outdated
  BY <1>1, KeptSame
<1>2. ASSUME NEW h \in Handlers, Step(h) PROVE Kept'
  <2>1. CASE ReadWeight(h)
    <3>1. history' = history /\ expireEnded
      BY <2>1 DEF ReadWeight
    <3> QED BY <3>1, KeptExpired
  <2>2. CASE CancelByRef(h)
    <3>1. history' = history
      BY <2>2 DEF CancelByRef
    <3> QED BY <2>2, <3>1, Cancelled, KeptSame
  <2>3. CASE UpdatePublished(h) \/ ReadPaused(h) \/ Index(h) \/ UpdateUnpublished(h) \/ ReadActive(h)
             \/ Remove(h) \/ Patch(h)
    BY <1>1, <2>3 DEF UpdatePublished, ReadPaused, Index, UpdateUnpublished, ReadActive, Remove, Patch,
                      NoteWeight, Inv, RestOK
  <2> QED BY <1>2, <2>1, <2>2, <2>3, KeptWrite, KeptInsert DEF Step
<1>3. CASE Look \/ Sweep \/ \E p \in Payments : Checkout(p)
  <2>1. expireEnded /\ history'.outdated = history.outdated
    BY <1>3 DEF Look, Sweep, Checkout, Inv, RestOK
  <2> QED BY <2>1, KeptExpired
<1>4. CASE Tick \/ Archive \/ SweepPatch \/ WorkerDies \/ \E p \in Payments : Pay(p) \/ Refund(p)
  BY <1>1, <1>4 DEF Tick, Archive, SweepPatch, WorkerDies, Pay, Refund, Cross, NoteWeight, Inv, RestOK
<1>5. ASSUME NEW h \in Handlers,
             \/ RequestPublish(h) \/ \E for \in {"unpublish", "suspend"} : RequestUnpublish(h, for)
             \/ \E e \in events : Deliver(h, e)
             \/ Die(h) \/ PauseFails(h) \/ PatchFails(h)
      PROVE  Kept'
  BY <1>1, <1>5 DEF RequestPublish, RequestUnpublish, Deliver, Die, PauseFails, PatchFails, Cross,
                    Inv, RestOK
<1> QED BY <1>2, <1>3, <1>4, <1>5 DEF Next

-----------------------------------------------------------------------------
\* BoostTimeIsKept: an unpublish pauses what was running.

\* What had begun before the listing was unpublished and was running then.
Late(b) == b.starts < listing.unpublished /\ isBoostActive(b, listing.unpublished)
\* Handler h is going to pause row i.
Pausing(h, i) ==
    /\ IsChanging(h)
    /\ \/ handlers[h].at = "active" /\ handlers[h].now = listing.unpublished
       \/ handlers[h].at = "pause" /\ i \in handlers[h].todo
PausedInTime ==
    ~history.crossed /\ ~history.suspended /\ faults = 0 /\ listing.status = "unpublished" =>
        \A i \in DOMAIN boosts \ history.outdated :
            Late(boosts[i]) => \E h \in Handlers : Pausing(h, i)

\* A step after which no boost runs that did not before, but one that begins now.
NoneStarts ==
    \A i \in DOMAIN boosts' : boosts'[i].status = "active" =>
        \/ i \in DOMAIN boosts /\ boosts'[i] = boosts[i]
        \/ boosts'[i].starts >= now

LEMMA Begins ==
    ASSUME Inv, Inv', Next
    PROVE  NoneStarts \/ \E h \in Handlers, i \in DOMAIN boosts : Resume(h, i)
<1>1. boosts' = boosts => NoneStarts
  BY DEF NoneStarts
<1>2. expireEnded => NoneStarts
  <2>1. \A i \in DOMAIN boosts : boosts[i] \in BoostType
    BY LenProperties DEF Inv, BoostsOK
  <2> QED BY <2>1, Expired DEF NoneStarts, BoostType
<1>3. ASSUME NEW h \in Handlers, CancelByRef(h) PROVE NoneStarts
  BY <1>3, Cancelled DEF NoneStarts
<1>4. ASSUME NEW h \in Handlers, InsertBoost(h) PROVE NoneStarts
  <2> DEFINE row == [ref |-> handlers[h].payment, status |-> "active", starts |-> now,
                     ends |-> now + Days, remaining |-> null, used |-> 0]
  <2>1. boosts' = Append(boosts, row) /\ row.starts = now
    BY <1>4 DEF InsertBoost
  <2> HIDE DEF row
  <2>2. /\ DOMAIN boosts' = 1 .. (Len(boosts) + 1)
        /\ \A i \in 1 .. Len(boosts) : boosts'[i] = boosts[i]
        /\ boosts'[Len(boosts) + 1] = row
    BY <2>1, Bound DEF Inv, BoostsOK
  <2>3. now >= now
    BY Bound, PublicationAssumption DEF Times
  <2> QED BY <2>1, <2>2, <2>3, Bound DEF NoneStarts
<1>5. ASSUME NEW h \in Handlers, NEW i \in DOMAIN boosts, Pause(h, i) PROVE NoneStarts
  <2> DEFINE row == [boosts[i] EXCEPT !.status = "paused",
                                      !.remaining = remainingBoostMs(handlers[h].rows[i], handlers[h].now),
                                      !.used = @ + handlers[h].now - handlers[h].rows[i].starts]
  <2>1. boosts' = [boosts EXCEPT ![i] = row]
    BY <1>5 DEF Pause, WriteRow
  <2>2. row.status = "paused"
    <3>1. boosts[i] \in BoostType
      BY LenProperties DEF Inv, BoostsOK
    <3> QED BY <3>1 DEF BoostType
  <2> HIDE DEF row
  <2> QED BY <2>1, <2>2 DEF NoneStarts
<1>6. ASSUME NEW h \in Handlers, Step(h)
      PROVE  NoneStarts \/ \E i \in DOMAIN boosts : Resume(h, i)
  <2>1. CASE UpdatePublished(h) \/ ReadPaused(h) \/ Index(h) \/ UpdateUnpublished(h) \/ ReadActive(h)
             \/ Remove(h) \/ Patch(h) \/ ReadWeight(h)
    BY <1>1, <1>2, <2>1 DEF UpdatePublished, ReadPaused, Index, UpdateUnpublished, ReadActive, Remove,
                            Patch, ReadWeight
  <2> QED BY <1>3, <1>4, <1>5, <1>6, <2>1 DEF Step
<1>7. ASSUME NEW h \in Handlers,
             \/ RequestPublish(h) \/ \E for \in {"unpublish", "suspend"} : RequestUnpublish(h, for)
             \/ \E e \in events : Deliver(h, e)
             \/ Die(h) \/ PauseFails(h) \/ PatchFails(h)
      PROVE  NoneStarts
  BY <1>1, <1>7 DEF RequestPublish, RequestUnpublish, Deliver, Die, PauseFails, PatchFails
<1>8. CASE Tick \/ Archive \/ SweepPatch \/ WorkerDies \/ Look \/ Sweep
           \/ \E p \in Payments : Checkout(p) \/ Pay(p) \/ Refund(p)
  BY <1>1, <1>2, <1>8 DEF Tick, Archive, SweepPatch, WorkerDies, Look, Sweep, Checkout, Pay, Refund
<1> QED BY <1>6, <1>7, <1>8 DEF Next

LEMMA PausingKept ==
    ASSUME Inv, Inv', PausedInTime, NoneStarts, listing' = listing,
           history.outdated \subseteq history'.outdated,
           history'.crossed = FALSE => history.crossed = FALSE,
           history'.suspended = history.suspended,
           faults' = 0 => faults = 0,
           \A h \in Handlers, i \in DOMAIN boosts :
              Pausing(h, i) /\ Late(boosts[i]) => Pausing(h, i)' \/ boosts'[i].status # "active"
    PROVE  PausedInTime'
<1> SUFFICES ASSUME ~history'.crossed, ~history'.suspended, faults' = 0, listing.status = "unpublished",
                    NEW i \in DOMAIN boosts' \ history'.outdated, Late(boosts'[i])
             PROVE  \E h \in Handlers : Pausing(h, i)'
  BY DEF PausedInTime, Late
<1>1. history.crossed = FALSE /\ ~history.suspended /\ faults = 0
  BY DEF Inv, RestOK
<1>2. boosts'[i].status = "active" /\ boosts'[i].starts < listing.unpublished
  BY DEF Late, isBoostActive
<1>3. listing.unpublished <= now /\ listing.unpublished \in Int /\ now \in Int
  BY Bound, PublicationAssumption DEF Inv, ListingOK, ListingType, Times
<1>4. boosts'[i] \in BoostType /\ boosts'[i].starts \in Int
  <2>1. boosts'[i] \in BoostType
    BY LenProperties DEF Inv, BoostsOK
  <2> QED BY <2>1, PublicationAssumption DEF BoostType, Times
<1>5. i \in DOMAIN boosts /\ boosts'[i] = boosts[i]
  BY <1>2, <1>3, <1>4 DEF NoneStarts
<1>6. PICK h \in Handlers : Pausing(h, i)
  BY <1>1, <1>5 DEF PausedInTime
<1> QED BY <1>2, <1>5, <1>6

LEMMA PausedNext ==
    ASSUME Inv, Inv', Next, Settled, PausedInTime
    PROVE  PausedInTime'
<1>1. ASSUME NEW h \in Handlers, NEW i \in DOMAIN boosts, Resume(h, i) PROVE PausedInTime'
  <2>1. Onward(h) /\ handlers[h].for = "publish"
    BY <1>1, OnwardSteps, BusySound DEF Resume, At, Sound, Task
  <2> QED BY <2>1 DEF Onward, Settled, PausedInTime
<1> SUFFICES ASSUME NoneStarts PROVE PausedInTime'
  BY <1>1, Begins
<1>2. CASE Aside
  BY <1>2, PausingKept DEF Aside, Pausing
<1>3. ASSUME NEW h \in Handlers, handlers[h].at \notin {"active", "pause"} \/ ~IsChanging(h),
             \A g \in Handlers \ {h} : handlers'[g] = handlers[g] /\ (IsChanging(g)' <=> IsChanging(g)),
             listing' = listing, history'.outdated = history.outdated,
             history'.crossed = FALSE => history.crossed = FALSE,
             history'.suspended = history.suspended, faults' = faults
      PROVE  PausedInTime'
  BY <1>3, PausingKept DEF Pausing
<1>4. ASSUME NEW h \in Handlers,
             RequestPublish(h) \/ \E for \in {"unpublish", "suspend"} : RequestUnpublish(h, for)
      PROVE  PausedInTime'
  <2>1. history'.outdated = history.outdated
    BY <1>4 DEF RequestPublish, RequestUnpublish, Cross, Inv, RestOK
  <2>2. history'.crossed = FALSE => history.crossed = FALSE
    BY <1>4, RequestMoves DEF Inv, RestOK
  <2> QED BY <1>3, <1>4, <2>1, <2>2, RequestMoves
<1>5. ASSUME NEW h \in Handlers, Index(h) \/ Remove(h) PROVE PausedInTime'
  <2>1. End(h) /\ handlers[h].at \notin {"active", "pause"} /\ listing' = listing /\ faults' = faults
    BY <1>5 DEF Index, Remove, At, counters
  <2>2. /\ history'.outdated = history.outdated /\ history'.crossed = history.crossed
        /\ history'.suspended = history.suspended
    BY <1>5 DEF Index, Remove, NoteWeight, Inv, RestOK
  <2> QED BY <1>3, <2>1, <2>2, Ends
<1>6. ASSUME NEW h \in Handlers, ReadPaused(h) \/ (ReadWeight(h) /\ handlers[h].for = "publish")
      PROVE  PausedInTime'
  <2>1. Onward(h)
    BY <1>6, OnwardSteps
  <2>2. handlers[h].at \notin {"active", "pause"} /\ history' = history /\ faults' = faults
    BY <1>6 DEF ReadPaused, ReadWeight, At, counters
  <2>3. \A g \in Handlers \ {h} : handlers'[g] = handlers[g] /\ (IsChanging(g)' <=> IsChanging(g))
    BY <2>1 DEF Onward, IsChanging, Busy
  <2> QED BY <1>3, <2>1, <2>2, <2>3 DEF Onward
<1>7. ASSUME NEW h \in Handlers, UpdatePublished(h) PROVE PausedInTime'
  <2>1. CASE listing'.status = "published"
    BY <2>1 DEF PausedInTime
  <2>2. CASE listing'.status # "published"
    <3>1. End(h) /\ UNCHANGED <<listing, history, faults>>
      BY <1>7, <2>2 DEF UpdatePublished, counters
    <3>2. handlers[h].at = "update"
      BY <1>7 DEF UpdatePublished, At
    <3> QED BY <1>3, <3>1, <3>2, Ends
  <2> QED BY <2>1, <2>2
<1>8. ASSUME NEW h \in Handlers, UpdateUnpublished(h) PROVE PausedInTime'
  <2> DEFINE r == handlers[h]
  <2>1. Busy(h) /\ r \in HandlerType
    BY <1>8, BusySound DEF UpdateUnpublished, At
  <2>2. CASE r.for = "suspend"
    <3>1. history'.suspended
      BY <1>8, <2>2 DEF UpdateUnpublished, Inv, RestOK
    <3> QED BY <3>1 DEF PausedInTime
  <2>3. CASE r.for = "unpublish"
    <3> DEFINE s == [r EXCEPT !.at = "active"]
    <3>1. handlers' = [handlers EXCEPT ![h] = s]
      BY <1>8, <2>3 DEF UpdateUnpublished, GoTo
    <3>2. s.at = "active" /\ s.for = "unpublish" /\ s.now = r.now
      BY <2>1, <2>3 DEF HandlerType
    <3> HIDE DEF s
    <3>3. listing'.unpublished = r.now
      BY <1>8 DEF UpdateUnpublished, Inv, ListingOK, ListingType
    <3>4. s # Idle
      BY <3>2 DEF Idle
    <3>5. \A i : Pausing(h, i)'
      BY <3>1, <3>2, <3>3, <3>4, ChangingMoves DEF Pausing, Changing
    <3> QED BY <3>5 DEF PausedInTime
  <2> QED BY <1>8, <2>2, <2>3 DEF UpdateUnpublished
<1>9. ASSUME NEW h \in Handlers, ReadActive(h) PROVE PausedInTime'
  <2> DEFINE r == handlers[h]
             running == {i \in DOMAIN boosts : isBoostActive(boosts[i], r.now)}
             s == [r EXCEPT !.at = "pause", !.todo = running, !.rows = boosts]
  <2>1. Busy(h) /\ r \in HandlerType /\ r.at = "active" /\ Onward(h)
    BY <1>9, BusySound, OnwardSteps DEF ReadActive, At
  <2>2. UNCHANGED <<listing, boosts, history, faults>>
    BY <1>9 DEF ReadActive, counters
  <2>3. ASSUME NEW i \in DOMAIN boosts, Pausing(h, i), Late(boosts[i]) PROVE Pausing(h, i)'
    <3>1. i \in running
      BY <2>1, <2>3 DEF Pausing, Late
    <3>2. handlers' = [handlers EXCEPT ![h] = s]
      BY <1>9, <3>1 DEF ReadActive
    <3> HIDE DEF running
    <3>3. s.at = "pause" /\ s.todo = running
      BY <2>1 DEF HandlerType
    <3> HIDE DEF s
    <3>4. handlers'[h] = s
      BY <3>2, ChangingMoves
    <3> QED BY <2>1, <3>1, <3>3, <3>4 DEF Pausing, Onward, Written
  <2>4. \A g \in Handlers \ {h}, i \in DOMAIN boosts : Pausing(g, i) => Pausing(g, i)'
    BY <2>1, <2>2 DEF Onward, Pausing, IsChanging, Busy
  <2>5. \A g \in Handlers, i \in DOMAIN boosts : Pausing(g, i) /\ Late(boosts[i]) => Pausing(g, i)'
    BY <2>3, <2>4
  <2> QED BY <2>2, <2>5, PausingKept
<1>10. ASSUME NEW h \in Handlers, NEW j \in DOMAIN boosts, Pause(h, j) PROVE PausedInTime'
  <2> DEFINE r == handlers[h]
             row == [boosts[j] EXCEPT !.status = "paused", !.remaining = remainingBoostMs(r.rows[j], r.now),
                                      !.used = @ + r.now - r.rows[j].starts]
             s == [r EXCEPT !.todo = @ \ {j}]
  <2>1. Busy(h) /\ r \in HandlerType /\ r.at = "pause" /\ Onward(h)
    BY <1>10, BusySound, OnwardSteps DEF Pause, At
  <2>2. WriteRow(h, j, row, "remove") /\ faults' = faults
    BY <1>10 DEF Pause, counters
  <2>3. boosts[j] \in BoostType
    BY LenProperties DEF Inv, BoostsOK
  <2>4. row.status = "paused"
    BY <2>3 DEF BoostType
  <2> HIDE DEF row
  <2>5. boosts'[j].status # "active"
    BY <2>2, <2>4 DEF WriteRow, Inv, BoostsOK
  <2>6. ASSUME NEW i \in DOMAIN boosts, i # j, Pausing(h, i) PROVE Pausing(h, i)'
    <3>1. i \in r.todo
      BY <2>1, <2>6 DEF Pausing
    <3>2. handlers' = [handlers EXCEPT ![h] = s]
      BY <2>2, <2>6, <3>1 DEF WriteRow
    <3>3. s.at = "pause" /\ s.todo = r.todo \ {j}
      BY <2>1 DEF HandlerType
    <3> HIDE DEF s
    <3>4. handlers'[h] = s
      BY <3>2, ChangingMoves
    <3> QED BY <2>1, <2>6, <3>1, <3>3, <3>4 DEF Pausing, Onward, Written
  <2>7. \A g \in Handlers \ {h}, i \in DOMAIN boosts : Pausing(g, i) => Pausing(g, i)'
    BY <2>1 DEF Onward, Pausing, IsChanging, Busy
  <2>8. \A g \in Handlers, i \in DOMAIN boosts :
           Pausing(g, i) /\ Late(boosts[i]) => Pausing(g, i)' \/ boosts'[i].status # "active"
    BY <2>5, <2>6, <2>7
  <2>9. history.outdated \subseteq history'.outdated
    BY <2>2 DEF WriteRow, Inv, RestOK
  <2> QED BY <2>1, <2>2, <2>8, <2>9, PausingKept DEF Onward
<1>11. ASSUME Fault PROVE PausedInTime'
  <2>1. faults' # 0
    BY <1>11, PublicationAssumption DEF Fault, Inv, RestOK
  <2> QED BY <2>1 DEF PausedInTime
<1>12. CASE Archive
  <2>1. listing'.status = "archived"
    BY <1>12 DEF Archive, Inv, ListingOK, ListingType
  <2> QED BY <2>1 DEF PausedInTime
<1>13. ASSUME NEW h \in Handlers,
              \/ Step(h) \/ Die(h) \/ PauseFails(h) \/ PatchFails(h) \/ \E e \in events : Deliver(h, e)
       PROVE  PausedInTime'
  <2>1. CASE Die(h) \/ PauseFails(h) \/ PatchFails(h)
    BY <1>11, <2>1 DEF Die, PauseFails, PatchFails
  <2>2. CASE \/ InsertBoost(h) \/ CancelByRef(h) \/ Patch(h) \/ \E e \in events : Deliver(h, e)
             \/ ReadWeight(h) /\ handlers[h].for # "publish"
    BY <1>2, <2>2, AsideSteps
  <2> QED BY <1>1, <1>5, <1>6, <1>7, <1>8, <1>9, <1>10, <1>13, <2>1, <2>2 DEF Step
<1>14. CASE \/ Tick \/ Look \/ \E p \in Payments : Checkout(p) \/ Pay(p) \/ Refund(p)
            \/ Sweep \/ SweepPatch
  BY <1>2, <1>14, AsideSteps
<1> QED BY <1>4, <1>11, <1>12, <1>13, <1>14 DEF Next, WorkerDies

LEMMA TimeKept == Inv /\ Kept /\ PausedInTime => BoostTimeIsKept
BY DEF Kept, KeptBoost, PausedInTime, Late, Pausing, Quiet, BoostTimeIsKept

\* A boost is worth what was paid, over any number of pauses, resumes, refunds and expiries, and
\* an unpublish that is over has paused what was running, up to the provisos of the property.
THEOREM BoostTimeKept == Spec => []BoostTimeIsKept
<1> DEFINE I == Inv /\ OneChanges /\ Settled /\ Kept /\ PausedInTime
<1>1. Init => I
  <2>1. Init => Inv
    BY InitInv
  <2>2. Init => OneChanges /\ Settled
    BY DEF Init, OneChanges, Settled, Written, IsChanging, Busy, Idle
  <2>3. Init => Kept /\ PausedInTime
    BY DEF Init, Kept, PausedInTime
  <2> QED BY <2>1, <2>2, <2>3
<1>2. I /\ [Next]_vars => I'
  <2> SUFFICES ASSUME I, [Next]_vars PROVE I'
    OBVIOUS
  <2>1. Inv'
    BY NextInv
  <2>2. CASE Next
    BY <2>1, <2>2, DisciplineNext, KeptNext, PausedNext
  <2>3. CASE UNCHANGED vars
    <3>1. UNCHANGED <<listing, boosts, doc, handlers, worker, history, faults>>
      BY <2>3 DEF vars, counters
    <3> QED BY <2>1, <3>1 DEF OneChanges, Settled, Kept, PausedInTime, Written, IsChanging, Busy, Late,
                              Pausing
  <2> QED BY <2>2, <2>3
<1>3. I => BoostTimeIsKept
  BY TimeKept
<1> HIDE DEF I
<1> QED BY <1>1, <1>2, <1>3, PTL DEF Spec

=============================================================================
