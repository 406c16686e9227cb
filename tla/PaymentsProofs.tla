--------------------------- MODULE PaymentsProofs ---------------------------
(*****************************************************************************)
(* Proofs about Payments, for every set of orders, intents and handlers and  *)
(* any number of faults.                                                     *)
(*****************************************************************************)
EXTENDS Payments, TLAPS

Exists(i) == i \in Intents /\ intents[i] # NoIntent
Charged(i) == charge[i] \in {"paid", "refunded"}

\* What a handler may hold: it works on an intent that exists, or on an order for an invoice by
\* hand; what it serves really happened at Stripe.
Good(r) ==
    /\ r \in HandlerType
    /\ r.for = "invoice" => r.intent = Nobody /\ r.at \in {"create", "transmit", "protocol"}
    /\ r.for # "invoice" => Exists(r.intent) /\ intents[r.intent].order = r.order
    /\ r.for = "refund" <=> r.at \in {"refund", "refunded"}
    /\ r.for = "failed" => r.at \in {"claim", "find", "confirm", "settle"} /\ r.intent \in declined
    /\ r.for = "succeeded" => Charged(r.intent)
    /\ r.at = "refunded" => charge[r.intent] = "refunded"

InvoiceType ==
    [order : Orders, intent : Intents \cup {Nobody}, atSdI : BOOLEAN, protocollo : BOOLEAN]

Tables ==
    /\ orders \in [Orders -> {"CONFIRMED", "IN_PROGRESS"}]
    /\ intents \in [Intents -> {NoIntent} \cup [status : Statuses, order : Orders]]
    /\ charge \in [Intents -> {"none", "open", "paid", "refunded"}]
    /\ events \subseteq [intent : Intents, type : {"succeeded", "failed"}]
    /\ claimed \subseteq [intent : Intents, type : {"succeeded", "failed"}]
    /\ invoices \in Seq(InvoiceType)
    /\ declined \subseteq Intents
    /\ manual \in 0 .. MaxManual
    /\ faults \in 0 .. MaxFaults

EventsHappened ==
    /\ \A e \in events :
          /\ Exists(e.intent)
          /\ e.type = "succeeded" => Charged(e.intent)
          /\ e.type = "failed" => e.intent \in declined
    /\ \A i \in Intents : charge[i] # "none" => Exists(i)

HandlersGood ==
    /\ handlers \in [Handlers -> {Idle} \cup HandlerType]
    /\ \A h \in Handlers : Busy(h) => Good(handlers[h])

Inv == Tables /\ EventsHappened /\ RecordsAreBacked /\ HandlersGood

\* What no step takes back.
Grows ==
    /\ \A i \in Intents : Exists(i) => intents'[i] # NoIntent /\ intents'[i].order = intents[i].order
    /\ \A i \in Intents : Charged(i) => charge'[i] \in {"paid", "refunded"}
    /\ \A i \in Intents : charge[i] = "refunded" => charge'[i] = "refunded"
    /\ declined \subseteq declined'

\* What a step does to the handlers: one of them is idle or good afterwards.
Moves(h) == \E r : handlers' = [handlers EXCEPT ![h] = r] /\ (r = Idle \/ Good(r)')

-----------------------------------------------------------------------------
LEMMA GoodStays ==
    ASSUME NEW r, Good(r), Grows
    PROVE  Good(r)'
BY DEF Good, Grows, Exists, Charged, HandlerType

\* A handler that moves leaves every handler good.
LEMMA MovesKeep ==
    ASSUME HandlersGood, Grows, NEW h \in Handlers, Moves(h)
    PROVE  HandlersGood'
<1>1. PICK r : handlers' = [handlers EXCEPT ![h] = r] /\ (r = Idle \/ Good(r)')
  BY DEF Moves
<1>2. r \in {Idle} \cup HandlerType
  BY <1>1 DEF Good, HandlerType
<1>3. handlers' \in [Handlers -> {Idle} \cup HandlerType]
  BY <1>1, <1>2 DEF HandlersGood
<1>4. ASSUME NEW g \in Handlers, Busy(g)' PROVE Good(handlers[g])'
  <2>1. CASE g = h
    <3>1. handlers'[g] = r /\ r # Idle
      BY <1>1, <1>4, <2>1 DEF HandlersGood, Busy
    <3> QED BY <1>1, <3>1
  <2>2. CASE g # h
    <3>1. PICK s : s = handlers[g]
      OBVIOUS
    <3>2. handlers'[g] = s /\ Good(s)
      BY <1>1, <1>4, <2>2, <3>1 DEF HandlersGood, Busy
    <3>3. Good(s)'
      BY <3>2, GoodStays
    <3> QED BY <3>2, <3>3
  <2> QED BY <2>1, <2>2
<1> QED BY <1>3, <1>4 DEF HandlersGood

\* So does a step that moves none.
LEMMA StandingKeep ==
    ASSUME HandlersGood, Grows, UNCHANGED handlers
    PROVE  HandlersGood'
<1>1. ASSUME NEW h \in Handlers, Busy(h)' PROVE Good(handlers[h])'
  <2>1. PICK r : r = handlers[h] /\ r = handlers'[h]
    OBVIOUS
  <2>2. Good(r)
    BY <1>1, <2>1 DEF HandlersGood, Busy
  <2>3. Good(r)'
    BY <2>2, GoodStays
  <2> QED BY <2>1, <2>3
<1> QED BY <1>1 DEF HandlersGood

\* Records that are not written stay backed, and events that were not sent by this step known.
LEMMA RecordsStay ==
    ASSUME Inv, Grows, UNCHANGED <<orders, intents, invoices>>
    PROVE  RecordsAreBacked'
<1>1. \A i \in Intents : Charged(i) => Charged(i)'
  BY DEF Grows, Charged
<1>2. \A i \in Intents : charge[i] = "refunded" => charge'[i] = "refunded"
  BY DEF Grows
<1>3. \A n \in DOMAIN invoices : invoices[n] \in InvoiceType
  BY DEF Inv, Tables
<1>4. \A n \in DOMAIN invoices : invoices[n].intent \in Intents \cup {Nobody}
  BY <1>3 DEF InvoiceType
<1> QED BY <1>1, <1>2, <1>4 DEF Inv, RecordsAreBacked, Charged

LEMMA EventsStay ==
    ASSUME Inv, Grows, events' \subseteq events,
           \A i \in Intents : charge'[i] # "none" => charge[i] # "none"
    PROVE  EventsHappened'
BY DEF Inv, Tables, EventsHappened, Grows, Exists, Charged

\* A handler that goes on to a statement of its own request stays good.
LEMMA GoodGoesOn ==
    ASSUME NEW r, Good(r), Grows, NEW at, NEW n \in Nat,
           at \in {"claim", "find", "confirm", "settle", "lookup", "create", "transmit", "protocol",
                   "read order", "start", "refund", "refunded"},
           r.for = "invoice" => at \in {"create", "transmit", "protocol"},
           r.for = "refund" <=> at \in {"refund", "refunded"},
           r.for = "failed" => at \in {"claim", "find", "confirm", "settle"},
           at = "refunded" => charge'[r.intent] = "refunded"
    PROVE  /\ Good([r EXCEPT !.at = at])'
           /\ Good([r EXCEPT !.at = at, !.invoice = n])'
<1>1. Good(r)'
  BY GoodStays
<1> DEFINE q == [r EXCEPT !.at = at]
           s == [r EXCEPT !.at = at, !.invoice = n]
<1>2. /\ q \in HandlerType
      /\ q.at = at /\ q.for = r.for /\ q.intent = r.intent /\ q.order = r.order
      /\ s \in HandlerType
      /\ s.at = at /\ s.for = r.for /\ s.intent = r.intent /\ s.order = r.order
  BY DEF Good, HandlerType
<1> HIDE DEF q, s
<1>3. Good(q)' /\ Good(s)'
  BY <1>1, <1>2 DEF Good
<1> QED BY <1>3 DEF q, s

-----------------------------------------------------------------------------
\* Steps of the client and of Stripe
LEMMA ClientSteps ==
    ASSUME Inv
    PROVE  /\ \A o \in Orders, i \in Intents : CreateIntent(o, i) => Inv'
           /\ \A i \in Intents : OpenCharge(i) \/ Decline(i) \/ Pay(i) => Inv'
<1>1. ASSUME NEW o \in Orders, NEW i \in Intents, CreateIntent(o, i) PROVE Inv'
  <2> DEFINE new == [status |-> "REQUIRES_PAYMENT", order |-> o]
  <2>1. new \in [status : Statuses, order : Orders] /\ new # NoIntent
    BY DEF Statuses, NoIntent
  <2>2. /\ intents' = [intents EXCEPT ![i] = new] /\ ~Exists(i)
        /\ UNCHANGED <<orders, charge, events, declined, claimed, invoices, handlers, manual, faults>>
    BY <1>1 DEF CreateIntent, stripe, counters, Exists
  <2> HIDE DEF new
  <2>3. Tables'
    BY <2>1, <2>2 DEF Inv, Tables
  <2>4. Grows
    BY <2>2 DEF Inv, Tables, Grows, Exists, Charged
  <2>5. EventsHappened'
    BY <2>1, <2>2 DEF Inv, Tables, EventsHappened, Charged, Exists
  <2>6. RecordsAreBacked'
    <3>1. charge[i] = "none"
      BY <2>2 DEF Inv, Tables, EventsHappened
    <3>2. \A j \in Intents : j # i => intents'[j] = intents[j]
      BY <2>2 DEF Inv, Tables
    <3>3. intents'[i].status = "REQUIRES_PAYMENT"
      BY <2>2 DEF Inv, Tables, new
    <3> QED BY <2>2, <3>1, <3>2, <3>3 DEF Inv, RecordsAreBacked
  <2>7. HandlersGood'
    BY <2>2, <2>4, StandingKeep DEF Inv
  <2> QED BY <2>3, <2>5, <2>6, <2>7 DEF Inv
<1>2. ASSUME NEW i \in Intents, OpenCharge(i) PROVE Inv'
  <2>1. Tables'
    BY <1>2 DEF OpenCharge, Inv, Tables, counters
  <2>2. Grows
    BY <1>2 DEF OpenCharge, Inv, Tables, Grows, Exists, Charged
  <2>3. EventsHappened'
    BY <1>2 DEF OpenCharge, Inv, Tables, EventsHappened, Charged, Exists
  <2> QED BY <1>2, <2>1, <2>2, <2>3, RecordsStay, StandingKeep DEF Inv, OpenCharge
<1>3. ASSUME NEW i \in Intents, Decline(i) PROVE Inv'
  <2>1. Tables'
    BY <1>3 DEF Decline, Inv, Tables, counters
  <2>2. Grows
    BY <1>3 DEF Decline, Inv, Tables, Grows, Exists, Charged
  <2>3. EventsHappened'
    BY <1>3 DEF Decline, Inv, Tables, EventsHappened, Charged, Exists
  <2> QED BY <1>3, <2>1, <2>2, <2>3, RecordsStay, StandingKeep DEF Inv, Decline
<1>4. ASSUME NEW i \in Intents, Pay(i) PROVE Inv'
  <2>1. Tables'
    BY <1>4 DEF Pay, Inv, Tables, counters
  <2>2. Grows
    BY <1>4 DEF Pay, Inv, Tables, Grows, Exists, Charged
  <2>3. EventsHappened'
    BY <1>4 DEF Pay, Inv, Tables, EventsHappened, Charged, Exists
  <2> QED BY <1>4, <2>1, <2>2, <2>3, RecordsStay, StandingKeep DEF Inv, Pay
<1> QED BY <1>1, <1>2, <1>3, <1>4

-----------------------------------------------------------------------------
\* A step that writes no record but the claim keeps the invariant.
LEMMA PlainStep ==
    ASSUME Inv, NEW h \in Handlers, NEW r, handlers' = [handlers EXCEPT ![h] = r],
           r = Idle \/ Good(r)',
           UNCHANGED <<orders, intents, charge, declined, invoices>>, events' \subseteq events,
           claimed' \subseteq [intent : Intents, type : {"succeeded", "failed"}],
           manual' \in 0 .. MaxManual, faults' \in 0 .. MaxFaults
    PROVE  Inv'
<1>1. Tables'
  BY DEF Inv, Tables
<1>2. Grows
  BY DEF Inv, Tables, Grows, Exists, Charged
<1>3. HandlersGood'
  BY <1>2, MovesKeep DEF Inv, Moves
<1> QED BY <1>1, <1>2, <1>3, RecordsStay, EventsStay DEF Inv

\* Requests and webhook calls that begin
LEMMA BeginningSteps ==
    ASSUME Inv, NEW h \in Handlers
    PROVE  /\ \A e \in events : Deliver(h, e) => Inv'
           /\ \A o \in Orders : RequestInvoice(h, o) => Inv'
           /\ \A i \in Intents : RequestRefund(h, i) => Inv'
<1>1. ASSUME NEW e \in events, Deliver(h, e) PROVE Inv'
  <2> DEFINE r == Handler("claim", e.type, e.intent, intents[e.intent].order)
  <2>1. PICK q : q = r
    OBVIOUS
  <2>2. /\ e.type \in {"succeeded", "failed"} /\ e.intent \in Intents
        /\ Exists(e.intent) /\ intents[e.intent].order \in Orders
        /\ e.type = "succeeded" => Charged(e.intent)
        /\ e.type = "failed" => e.intent \in declined
    BY DEF Inv, Tables, EventsHappened, Exists
  <2>3. Good(q)
    BY <2>1, <2>2 DEF Good, Handler, HandlerType
  <2>4. Grows
    BY <1>1 DEF Deliver, Inv, Tables, Grows, Exists, Charged, stripe
  <2>5. Good(q)'
    BY <2>3, <2>4, GoodStays
  <2> QED BY <1>1, <2>1, <2>5, PlainStep DEF Deliver, stripe, counters, Inv, Tables
<1>2. ASSUME NEW o \in Orders, RequestInvoice(h, o) PROVE Inv'
  <2> DEFINE r == Handler("create", "invoice", Nobody, o)
  <2>1. Good(r)'
    BY DEF Good, Handler, HandlerType
  <2>2. manual' \in 0 .. MaxManual
    BY <1>2, PaymentsAssumption DEF RequestInvoice, Inv, Tables
  <2> QED BY <1>2, <2>1, <2>2, PlainStep DEF RequestInvoice, stripe, Inv, Tables
<1>3. ASSUME NEW i \in Intents, RequestRefund(h, i) PROVE Inv'
  <2>1. PICK q : q = Handler("refund", "refund", i, intents[i].order)
    OBVIOUS
  <2>2. Exists(i) /\ intents[i].order \in Orders
    BY <1>3 DEF RequestRefund, IsLegal, Transitions, NoIntent, Exists, Inv, Tables
  <2>3. Good(q)
    BY <2>1, <2>2 DEF Good, Handler, HandlerType
  <2>4. Grows
    BY <1>3 DEF RequestRefund, Inv, Tables, Grows, Exists, Charged, stripe
  <2>5. Good(q)'
    BY <2>3, <2>4, GoodStays
  <2> QED BY <1>3, <2>1, <2>5, PlainStep DEF RequestRefund, stripe, counters, Inv, Tables
<1> QED BY <1>1, <1>2, <1>3

-----------------------------------------------------------------------------
\* Steps of a handler that write no record
LEMMA ReadingSteps ==
    ASSUME Inv, NEW h \in Handlers,
           \/ Claim(h) \/ Find(h) \/ LookUpInvoice(h) \/ ReadOrder(h)
           \/ Die(h) \/ AdvanceThrows(h)
    PROVE  Inv'
<1>1. /\ UNCHANGED <<orders, intents, charge, declined, invoices, manual>>
      /\ faults' \in 0 .. MaxFaults
  <2>1. CASE Claim(h) \/ Find(h) \/ LookUpInvoice(h) \/ ReadOrder(h)
    BY <2>1 DEF Claim, Find, LookUpInvoice, ReadOrder, stripe, counters, Inv, Tables
  <2>2. CASE Die(h) \/ AdvanceThrows(h)
    <3>1. faults' = faults + 1 /\ faults < MaxFaults
      BY <2>2 DEF Die, AdvanceThrows
    <3>2. faults' \in 0 .. MaxFaults
      BY <3>1, PaymentsAssumption DEF Inv, Tables
    <3> QED BY <2>2, <3>2 DEF Die, AdvanceThrows, stripe
  <2> QED BY <2>1, <2>2
<1>2. events' \subseteq events
  BY DEF Claim, Find, LookUpInvoice, ReadOrder, Die, AdvanceThrows, stripe, Answer
<1>3. PICK r : r = handlers[h] /\ Good(r)
  BY DEF Claim, Find, LookUpInvoice, ReadOrder, Die, AdvanceThrows, At, Inv, HandlersGood
<1>4. Grows
  BY <1>1 DEF Inv, Tables, Grows, Exists, Charged
<1>5. claimed' \subseteq [intent : Intents, type : {"succeeded", "failed"}]
  <2>1. CASE Claim(h)
    <3>1. r.at = "claim" /\ r.for \in {"succeeded", "failed"} /\ r.intent \in Intents
      BY <1>3, <2>1 DEF Claim, At, Good, HandlerType, Exists
    <3> QED BY <1>3, <2>1, <3>1 DEF Claim, Event, Inv, Tables
  <2> QED BY <2>1 DEF Find, LookUpInvoice, ReadOrder, Die, AdvanceThrows, Inv, Tables
<1>6. Moves(h)
  <2>1. CASE handlers' = [handlers EXCEPT ![h] = Idle]
    BY <2>1 DEF Moves
  <2>2. ASSUME NEW at, handlers' = [handlers EXCEPT ![h].at = at],
               \/ r.for \in {"succeeded", "failed"} /\ at \in {"find", "confirm", "settle"}
               \/ r.for = "succeeded" /\ at \in {"read order", "create", "start"}
        PROVE  Moves(h)
    <3>1. handlers' = [handlers EXCEPT ![h] = [r EXCEPT !.at = at]]
      BY <1>3, <2>2
    <3>2. Good([r EXCEPT !.at = at])'
      BY <1>3, <1>4, <2>2, GoodGoesOn
    <3> QED BY <3>1, <3>2 DEF Moves
  <2>3. CASE Claim(h)
    BY <1>3, <2>1, <2>2, <2>3 DEF Claim, At, Answer, End, GoTo, Good, HandlerType
  <2>4. CASE Find(h)
    BY <1>3, <2>1, <2>2, <2>4 DEF Find, Route, At, Answer, End, GoTo, Good, HandlerType
  <2>5. CASE LookUpInvoice(h)
    BY <1>3, <2>1, <2>2, <2>5 DEF LookUpInvoice, At, GoTo, Good, HandlerType
  <2>6. CASE ReadOrder(h)
    BY <1>3, <2>1, <2>2, <2>6 DEF ReadOrder, At, Answer, End, GoTo, Good, HandlerType
  <2> QED BY <2>1, <2>3, <2>4, <2>5, <2>6 DEF Die, AdvanceThrows, Answer, End
<1>7. PICK q : handlers' = [handlers EXCEPT ![h] = q] /\ (q = Idle \/ Good(q)')
  BY <1>6 DEF Moves
<1> QED BY <1>1, <1>2, <1>5, <1>7, PlainStep DEF Inv, Tables

-----------------------------------------------------------------------------
\* Steps that write the status of an intent
LEMMA StatusWritten ==
    ASSUME Inv, NEW h \in Handlers, NEW r, r = handlers[h], Good(r), r.for # "invoice",
           NEW status \in Statuses, setStatus(h, status),
           status = "SUCCEEDED" => Charged(r.intent),
           status = "REFUNDED" => charge[r.intent] = "refunded",
           UNCHANGED <<orders, charge, declined, claimed, invoices, counters>>,
           events' \subseteq events
    PROVE  Tables' /\ Grows /\ EventsHappened' /\ RecordsAreBacked'
<1> DEFINE i == r.intent
           row == [intents[i] EXCEPT !.status = status]
<1>1. /\ i \in Intents /\ intents' = [intents EXCEPT ![i] = row]
      /\ row \in [status : Statuses, order : Orders] /\ row # NoIntent
      /\ row.status = status /\ row.order = intents[i].order
  BY DEF Good, Exists, setStatus, Inv, Tables, Statuses, NoIntent
<1> HIDE DEF row, i
<1>2. \A j \in Intents : intents'[j] = IF j = i THEN row ELSE intents[j]
  BY <1>1 DEF Inv, Tables
<1>3. Tables'
  BY <1>1 DEF Inv, Tables, counters
<1>4. Grows
  BY <1>1, <1>2 DEF Inv, Tables, Grows, Exists, Charged
<1>5. EventsHappened'
  BY <1>4, EventsStay
<1>6. RecordsAreBacked'
  <2>1. \A j \in Intents : /\ intents'[j].status = "SUCCEEDED" => charge[j] \in {"paid", "refunded"}
                           /\ intents'[j].status = "REFUNDED" => charge[j] = "refunded"
    BY <1>1, <1>2 DEF Inv, RecordsAreBacked, Charged, i
  <2>2. \A j \in Intents : intents'[j].order = intents[j].order
    BY <1>1, <1>2
  <2> QED BY <2>1, <2>2 DEF Inv, RecordsAreBacked
<1> QED BY <1>3, <1>4, <1>5, <1>6

LEMMA StatusSteps ==
    ASSUME Inv, NEW h \in Handlers, Confirm(h) \/ Settle(h) \/ MarkRefunded(h)
    PROVE  Inv'
<1>1. PICK r : r = handlers[h] /\ Good(r)
  BY DEF Confirm, Settle, MarkRefunded, At, Inv, HandlersGood
<1>2. CASE Confirm(h)
  <2>1. r.for \in {"succeeded", "failed"}
    BY <1>1, <1>2 DEF Confirm, At, Good, HandlerType
  <2>2. Tables' /\ Grows /\ EventsHappened' /\ RecordsAreBacked'
    BY <1>1, <1>2, <2>1, StatusWritten
       DEF Confirm, stripe, nextPaymentStatus, Transitions, Statuses
  <2>3. Good([r EXCEPT !.at = "settle"])'
    BY <1>1, <2>1, <2>2, GoodGoesOn
  <2>4. handlers' = [handlers EXCEPT ![h] = [r EXCEPT !.at = "settle"]]
    BY <1>1, <1>2 DEF Confirm, GoTo
  <2> QED BY <2>2, <2>3, <2>4, MovesKeep DEF Inv, Moves
<1>3. CASE Settle(h) /\ handlers[h].for = "succeeded"
  <2>1. r.for = "succeeded" /\ Charged(r.intent)
    BY <1>1, <1>3 DEF Good
  <2>2. Tables' /\ Grows /\ EventsHappened' /\ RecordsAreBacked'
    BY <1>1, <1>3, <2>1, StatusWritten DEF Settle, nextPaymentStatus, Transitions, Statuses
  <2>3. Good([r EXCEPT !.at = "lookup"])'
    BY <1>1, <2>1, <2>2, GoodGoesOn
  <2>4. handlers' = [handlers EXCEPT ![h] = [r EXCEPT !.at = "lookup"]]
    BY <1>1, <1>3 DEF Settle, GoTo
  <2> QED BY <2>2, <2>3, <2>4, MovesKeep DEF Inv, Moves
<1>4. CASE Settle(h) /\ handlers[h].for = "failed"
  <2>1. r.for = "failed"
    BY <1>1, <1>4
  <2>2. Tables' /\ Grows /\ EventsHappened' /\ RecordsAreBacked'
    BY <1>1, <1>4, <2>1, StatusWritten
       DEF Settle, nextPaymentStatus, Transitions, Statuses, Answer
  <2>3. handlers' = [handlers EXCEPT ![h] = Idle]
    BY <1>4 DEF Settle, Answer, End
  <2> QED BY <2>2, <2>3, MovesKeep DEF Inv, Moves
<1>5. CASE MarkRefunded(h)
  <2>1. r.for = "refund" /\ charge[r.intent] = "refunded"
    BY <1>1, <1>5 DEF MarkRefunded, At, Good
  <2>2. Tables' /\ Grows /\ EventsHappened' /\ RecordsAreBacked'
    BY <1>1, <1>5, <2>1, StatusWritten
       DEF MarkRefunded, nextPaymentStatus, Transitions, Statuses, stripe
  <2>3. handlers' = [handlers EXCEPT ![h] = Idle]
    BY <1>5 DEF MarkRefunded, End
  <2> QED BY <2>2, <2>3, MovesKeep DEF Inv, Moves
<1> QED BY <1>2, <1>3, <1>4, <1>5 DEF Settle

-----------------------------------------------------------------------------
\* Steps that write invoices, orders and charges
LEMMA InvoiceSteps ==
    ASSUME Inv, NEW h \in Handlers, CreateInvoice(h) \/ Transmit(h) \/ RecordProtocollo(h)
    PROVE  Inv'
<1>1. PICK r : r = handlers[h] /\ Good(r)
  BY DEF CreateInvoice, Transmit, RecordProtocollo, At, Inv, HandlersGood
<1>2. /\ r.order \in Orders /\ r.intent \in Intents \cup {Nobody} /\ r.at = handlers[h].at
      /\ r.intent # Nobody => r.intent \in Intents /\ r.for = "succeeded" /\ Charged(r.intent)
  BY <1>1, PaymentsAssumption
     DEF Good, HandlerType, CreateInvoice, Transmit, RecordProtocollo, At, Exists
<1>3. UNCHANGED <<orders, intents, charge, events, declined, claimed, manual, faults>>
  BY DEF CreateInvoice, Transmit, RecordProtocollo, stripe, counters
<1>4. Grows
  BY <1>3 DEF Inv, Tables, Grows, Exists, Charged
<1>5. ASSUME invoices' \in Seq(InvoiceType),
             \A n \in DOMAIN invoices' : invoices'[n].intent # Nobody =>
                invoices'[n].intent = r.intent
                \/ \E m \in DOMAIN invoices : invoices'[n].intent = invoices[m].intent
      PROVE  Tables' /\ EventsHappened' /\ RecordsAreBacked'
  <2>1. Tables'
    BY <1>3, <1>5 DEF Inv, Tables
  <2>2. EventsHappened'
    BY <1>3, <1>4, EventsStay
  <2>3. \A n \in DOMAIN invoices' : invoices'[n].intent # Nobody =>
           charge[invoices'[n].intent] \in {"paid", "refunded"}
    BY <1>2, <1>5 DEF Inv, RecordsAreBacked, Charged
  <2> QED BY <1>3, <2>1, <2>2, <2>3 DEF Inv, RecordsAreBacked
<1>6. CASE CreateInvoice(h)
  <2> DEFINE new == [order |-> r.order, intent |-> r.intent, atSdI |-> FALSE, protocollo |-> FALSE]
  <2>1. new \in InvoiceType /\ new.intent = r.intent
    BY <1>2 DEF InvoiceType
  <2>2. invoices' = Append(invoices, new) /\ invoices \in Seq(InvoiceType) /\ Len(invoices) \in Nat
    BY <1>1, <1>6 DEF CreateInvoice, Inv, Tables
  <2> HIDE DEF new
  <2>3. /\ invoices' \in Seq(InvoiceType)
        /\ \A n \in DOMAIN invoices' : \/ n \in DOMAIN invoices /\ invoices'[n] = invoices[n]
                                       \/ invoices'[n] = new
    BY <2>1, <2>2
  <2>4. Tables' /\ EventsHappened' /\ RecordsAreBacked'
    BY <1>5, <2>1, <2>3
  <2>5. handlers' = [handlers EXCEPT ![h] = [r EXCEPT !.at = "transmit", !.invoice = Len(invoices) + 1]]
    BY <1>1, <1>6 DEF CreateInvoice
  <2>6. r.for \in {"succeeded", "invoice"}
    BY <1>1, <1>6 DEF CreateInvoice, At, Good, HandlerType
  <2>7. PICK n \in Nat : n = Len(invoices) + 1
    BY <2>2
  <2>8. Good([r EXCEPT !.at = "transmit", !.invoice = n])'
    BY <1>1, <1>4, <2>6, GoodGoesOn
  <2> QED BY <1>4, <2>4, <2>5, <2>7, <2>8, MovesKeep DEF Inv, Moves
<1>7. ASSUME NEW k, NEW inv, invoices' = [invoices EXCEPT ![k] = inv],
             k \in DOMAIN invoices => inv \in InvoiceType /\ inv.intent = invoices[k].intent
      PROVE  Tables' /\ EventsHappened' /\ RecordsAreBacked'
  <2>1. invoices \in Seq(InvoiceType)
    BY DEF Inv, Tables
  <2>2. PICK m \in Nat : invoices \in [1 .. m -> InvoiceType]
    BY <2>1
  <2>3. invoices' \in [1 .. m -> InvoiceType]
    BY <1>7, <2>2
  <2>4. invoices' \in Seq(InvoiceType)
    BY <2>3
  <2>5. \A n \in DOMAIN invoices' : n \in DOMAIN invoices /\ invoices'[n].intent = invoices[n].intent
    BY <1>7, <2>2
  <2> QED BY <1>5, <2>4, <2>5
<1>8. CASE Transmit(h)
  <2> DEFINE k == r.invoice
             inv == [invoices[k] EXCEPT !.atSdI = TRUE]
  <2>1. invoices' = [invoices EXCEPT ![k] = inv]
    BY <1>1, <1>8 DEF Transmit
  <2>2. k \in DOMAIN invoices => invoices[k] \in InvoiceType
    BY DEF Inv, Tables
  <2>3. k \in DOMAIN invoices => inv \in InvoiceType /\ inv.intent = invoices[k].intent
    BY <2>2 DEF InvoiceType
  <2>4. Tables' /\ EventsHappened' /\ RecordsAreBacked'
    BY <1>7, <2>1, <2>3
  <2>5. handlers' = [handlers EXCEPT ![h] = [r EXCEPT !.at = "protocol"]]
    BY <1>1, <1>8 DEF Transmit, GoTo
  <2>6. r.for \in {"succeeded", "invoice"}
    BY <1>1, <1>8 DEF Transmit, At, Good, HandlerType
  <2>7. Good([r EXCEPT !.at = "protocol"])'
    BY <1>1, <1>4, <2>6, GoodGoesOn
  <2> QED BY <1>4, <2>4, <2>5, <2>7, MovesKeep DEF Inv, Moves
<1>9. CASE RecordProtocollo(h)
  <2> DEFINE k == r.invoice
             inv == [invoices[k] EXCEPT !.protocollo = TRUE]
  <2>1. invoices' = [invoices EXCEPT ![k] = inv]
    BY <1>1, <1>9 DEF RecordProtocollo
  <2>2. k \in DOMAIN invoices => invoices[k] \in InvoiceType
    BY DEF Inv, Tables
  <2>3. k \in DOMAIN invoices => inv \in InvoiceType /\ inv.intent = invoices[k].intent
    BY <2>2 DEF InvoiceType
  <2>4. Tables' /\ EventsHappened' /\ RecordsAreBacked'
    BY <1>7, <2>1, <2>3
  <2>5. CASE r.intent = Nobody
    <3>1. handlers' = [handlers EXCEPT ![h] = Idle]
      BY <1>1, <1>9, <2>5 DEF RecordProtocollo, End
    <3> QED BY <1>4, <2>4, <3>1, MovesKeep DEF Inv, Moves
  <2>6. CASE r.intent # Nobody
    <3>1. handlers' = [handlers EXCEPT ![h] = [r EXCEPT !.at = "read order"]]
      BY <1>1, <1>9, <2>6 DEF RecordProtocollo, GoTo
    <3>2. Good([r EXCEPT !.at = "read order"])'
      BY <1>1, <1>2, <1>4, <2>6, GoodGoesOn
    <3> QED BY <1>4, <2>4, <3>1, <3>2, MovesKeep DEF Inv, Moves
  <2> QED BY <2>5, <2>6
<1> QED BY <1>6, <1>8, <1>9

\* A started order has a payment that was taken, a refund was paid out.
LEMMA OrderAndRefundSteps ==
    ASSUME Inv, NEW h \in Handlers, StartOrder(h) \/ ProviderRefund(h)
    PROVE  Inv'
<1>1. PICK r : r = handlers[h] /\ Good(r)
  BY DEF StartOrder, ProviderRefund, At, Inv, HandlersGood
<1>2. CASE StartOrder(h)
  <2>1. r.for = "succeeded" /\ r.order \in Orders
    BY <1>1, <1>2 DEF StartOrder, At, Good, HandlerType
  <2>2. /\ orders' = [orders EXCEPT ![r.order] = "IN_PROGRESS"]
        /\ handlers' = [handlers EXCEPT ![h] = Idle] /\ events' \subseteq events
        /\ UNCHANGED <<intents, charge, declined, claimed, invoices, manual, faults>>
    BY <1>1, <1>2 DEF StartOrder, Answer, End, counters
  <2>3. Tables'
    BY <2>1, <2>2 DEF Inv, Tables
  <2>4. Grows
    BY <2>2 DEF Inv, Tables, Grows, Exists, Charged
  <2>5. EventsHappened'
    BY <2>2, <2>4, EventsStay
  <2>6. RecordsAreBacked'
    <3>1. r.intent \in Intents /\ intents[r.intent].order = r.order /\ Charged(r.intent)
      BY <1>1, <2>1 DEF Good, Exists
    <3>2. \A o \in Orders \ {r.order} : orders'[o] = orders[o]
      BY <2>2 DEF Inv, Tables
    <3> QED BY <2>2, <3>1, <3>2 DEF Inv, RecordsAreBacked, Charged
  <2>7. HandlersGood'
    BY <2>2, <2>4, MovesKeep DEF Inv, Moves
  <2> QED BY <2>3, <2>5, <2>6, <2>7 DEF Inv
<1>3. CASE ProviderRefund(h) /\ charge[r.intent] # "paid"
  <2>1. handlers' = [handlers EXCEPT ![h] = Idle]
    BY <1>1, <1>3 DEF ProviderRefund, End
  <2> QED BY <1>1, <1>3, <2>1, PlainStep DEF ProviderRefund, counters, Inv, Tables
<1>4. CASE ProviderRefund(h) /\ charge[r.intent] = "paid"
  <2>1. r.for = "refund" /\ r.intent \in Intents /\ Exists(r.intent)
    BY <1>1, <1>4 DEF ProviderRefund, At, Good, Exists
  <2>2. /\ charge' = [charge EXCEPT ![r.intent] = "refunded"]
        /\ handlers' = [handlers EXCEPT ![h] = [r EXCEPT !.at = "refunded"]]
        /\ UNCHANGED <<orders, intents, events, declined, claimed, invoices, manual, faults>>
    BY <1>1, <1>4 DEF ProviderRefund, GoTo, counters
  <2>3. Tables'
    BY <2>1, <2>2 DEF Inv, Tables
  <2>4. Grows
    BY <2>1, <2>2 DEF Inv, Tables, Grows, Exists, Charged
  <2>5. EventsHappened'
    BY <1>4, <2>1, <2>2, <2>4, EventsStay DEF Inv, Tables
  <2>6. RecordsAreBacked'
    BY <2>2, <2>4, RecordsStay
  <2>7. Good([r EXCEPT !.at = "refunded"])'
    BY <1>1, <2>1, <2>2, <2>4, GoodGoesOn DEF Inv, Tables
  <2>8. HandlersGood'
    BY <2>2, <2>4, <2>7, MovesKeep DEF Inv, Moves
  <2> QED BY <2>3, <2>5, <2>6, <2>8 DEF Inv
<1> QED BY <1>2, <1>3, <1>4

-----------------------------------------------------------------------------
LEMMA InitInv == Init => Inv
BY PaymentsAssumption
   DEF Init, Inv, Tables, EventsHappened, RecordsAreBacked, HandlersGood, NoIntent, Busy,
       Exists, Charged, Statuses

LEMMA NextInv == Inv /\ [Next]_vars => Inv'
<1> SUFFICES ASSUME Inv, [Next]_vars PROVE Inv'
  OBVIOUS
<1>1. CASE UNCHANGED vars
  <2>1. Grows
    BY <1>1 DEF vars, Inv, Tables, Grows, Exists, Charged
  <2>2. Tables' /\ EventsHappened' /\ RecordsAreBacked' /\ HandlersGood'
    BY <1>1, <2>1, RecordsStay, EventsStay, StandingKeep DEF vars, Inv, Tables
  <2> QED BY <2>2 DEF Inv
<1>2. ASSUME NEW h \in Handlers, Step(h) PROVE Inv'
  BY <1>2, ReadingSteps, StatusSteps, InvoiceSteps, OrderAndRefundSteps DEF Step
<1> QED BY <1>1, <1>2, ClientSteps, BeginningSteps, ReadingSteps DEF Next

LEMMA AlwaysInv == Spec => []Inv
BY InitInv, NextInv, PTL DEF Spec

\* Every variable of the payments keeps its type in every reachable state, for every set of
\* orders, intents and handlers: payment_intents, invoices and the requests in flight.
THEOREM PaymentsTypeCorrect == Spec => []TypeOK
<1>1. Inv => TypeOK
  BY DEF Inv, Tables, HandlersGood, TypeOK, InvoiceType
<1> QED BY <1>1, AlwaysInv, PTL

\* The records never say more than the money: SUCCEEDED and a fattura imply a charge, REFUNDED a
\* refund at Stripe, IN_PROGRESS a payment of the order, whatever calls overlap, repeat or die.
THEOREM RecordsBacked == Spec => []RecordsAreBacked
<1>1. Inv => RecordsAreBacked
  BY DEF Inv
<1> QED BY <1>1, AlwaysInv, PTL

-----------------------------------------------------------------------------
\* One fattura per payment: of the handlers of one success only one gets past the claim.  That
\* it is the only one, that the claim outlives it and that it has not inserted yet when it
\* inserts is what makes the property inductive.
Success(i) == [intent |-> i, type |-> "succeeded"]
Past(r, i) == r # Idle /\ r.for = "succeeded" /\ r.intent = i /\ r.at # "claim"
Before == {"find", "confirm", "settle", "lookup", "create"}

Claimed ==
    /\ \A i \in Intents, g, h \in Handlers :
          Past(handlers[g], i) /\ Past(handlers[h], i) => g = h
    /\ \A i \in Intents, h \in Handlers : Past(handlers[h], i) => Success(i) \in claimed
    /\ \A i \in Intents, n \in DOMAIN invoices : invoices[n].intent = i => Success(i) \in claimed
    /\ \A i \in Intents, h \in Handlers :
          Past(handlers[h], i) /\ handlers[h].at \in Before =>
             \A n \in DOMAIN invoices : invoices[n].intent # i

Unique == Claimed /\ InvoicedAtMostOnce

\* A handler goes to q without passing the claim, nor back to before the insert.
Onward(h, q) ==
    /\ handlers' = [handlers EXCEPT ![h] = q]
    /\ \A i \in Intents : Past(q, i) =>
          /\ Past(handlers[h], i)
          /\ q.at \in Before => handlers[h].at \in Before

\* The invoices stay those of the same intents.
SameIntents ==
    /\ DOMAIN invoices' = DOMAIN invoices
    /\ \A n \in DOMAIN invoices : invoices'[n].intent = invoices[n].intent

LEMMA OnwardKeeps ==
    ASSUME Inv, Unique, NEW h \in Handlers, NEW q, Onward(h, q), claimed' = claimed, SameIntents
    PROVE  Unique'
<1>1. \A g \in Handlers, i \in Intents : Past(handlers'[g], i) =>
         /\ Past(handlers[g], i)
         /\ handlers'[g].at \in Before => handlers[g].at \in Before
  BY DEF Onward, Inv, HandlersGood
<1>2. Claimed'
  BY <1>1 DEF Unique, Claimed, SameIntents, Past
<1>3. InvoicedAtMostOnce'
  BY DEF Unique, InvoicedAtMostOnce, SameIntents
<1> QED BY <1>2, <1>3 DEF Unique

LEMMA ClaimKeeps ==
    ASSUME Inv, Unique, NEW h \in Handlers, Claim(h)
    PROVE  Unique'
<1>1. PICK r : r = handlers[h] /\ r # Idle /\ r.at = "claim"
  BY DEF Claim, At, Busy
<1>2. SameIntents
  BY DEF Claim, SameIntents
<1>3. CASE Event(h) \in claimed
  <2>1. claimed' = claimed
    BY <1>3 DEF Claim
  <2>2. Onward(h, Idle)
    BY <1>3 DEF Claim, Answer, End, Onward, Past
  <2> QED BY <1>2, <2>1, <2>2, OnwardKeeps
<1>4. CASE Event(h) \notin claimed /\ r.for # "succeeded"
  <2> DEFINE q == [r EXCEPT !.at = "find"]
  <2>1. handlers' = [handlers EXCEPT ![h] = q] /\ claimed' = claimed \cup {Event(h)}
    BY <1>1, <1>4 DEF Claim, GoTo
  <2>2. r \in HandlerType
    BY <1>1 DEF Inv, HandlersGood
  <2>3. q.for = r.for
    BY <2>2 DEF HandlerType
  <2> HIDE DEF q
  <2>4. \A g \in Handlers, i \in Intents : Past(handlers'[g], i) =>
           g # h /\ handlers'[g] = handlers[g]
    BY <1>4, <2>1, <2>3 DEF Inv, HandlersGood, Past
  <2>5. Claimed'
    BY <1>2, <2>1, <2>4 DEF Unique, Claimed, SameIntents
  <2> QED BY <1>2, <2>5 DEF Unique, InvoicedAtMostOnce, SameIntents
<1>5. CASE Event(h) \notin claimed /\ r.for = "succeeded"
  <2> DEFINE q == [r EXCEPT !.at = "find"]
  <2>1. handlers' = [handlers EXCEPT ![h] = q] /\ claimed' = claimed \cup {Success(r.intent)}
    BY <1>1, <1>5 DEF Claim, GoTo, Event, Success
  <2>2. r \in HandlerType
    BY <1>1 DEF Inv, HandlersGood
  <2>3. q.for = r.for /\ q.intent = r.intent
    BY <2>2 DEF HandlerType
  <2>4. Success(r.intent) \notin claimed
    BY <1>1, <1>5 DEF Event, Success
  <2> HIDE DEF q
  <2>5. \A g \in Handlers, i \in Intents : Past(handlers'[g], i) =>
           \/ g = h /\ i = r.intent
           \/ g # h /\ i # r.intent /\ handlers'[g] = handlers[g]
    BY <2>1, <2>3, <2>4 DEF Inv, HandlersGood, Past, Unique, Claimed
  <2>6. \A n \in DOMAIN invoices : r.intent \in Intents => invoices[n].intent # r.intent
    BY <2>4 DEF Unique, Claimed
  <2>7. Claimed'
    BY <1>2, <2>1, <2>5, <2>6 DEF Unique, Claimed, SameIntents
  <2> QED BY <1>2, <2>7 DEF Unique, InvoicedAtMostOnce, SameIntents
<1> QED BY <1>3, <1>4, <1>5

LEMMA CreateKeeps ==
    ASSUME Inv, Unique, NEW h \in Handlers, CreateInvoice(h)
    PROVE  Unique'
<1>1. PICK r : r = handlers[h] /\ r # Idle /\ r.at = "create" /\ r \in HandlerType /\ Good(r)
  BY DEF CreateInvoice, At, Busy, Inv, HandlersGood
<1> DEFINE q == [r EXCEPT !.at = "transmit", !.invoice = Len(invoices) + 1]
           new == [order |-> r.order, intent |-> r.intent, atSdI |-> FALSE, protocollo |-> FALSE]
<1>2. /\ handlers' = [handlers EXCEPT ![h] = q] /\ claimed' = claimed
      /\ invoices' = Append(invoices, new) /\ new.intent = r.intent
      /\ q.at = "transmit" /\ q.for = r.for /\ q.intent = r.intent
  BY <1>1 DEF CreateInvoice, HandlerType
<1> HIDE DEF q, new
<1>3. PICK k \in Nat : k = Len(invoices) /\ DOMAIN invoices = 1 .. k
  BY DEF Inv, Tables
<1>4. /\ DOMAIN invoices' = 1 .. k + 1
      /\ \A n \in 1 .. k : invoices'[n] = invoices[n]
      /\ invoices'[k + 1] = new
  BY <1>2, <1>3 DEF Inv, Tables
<1>5. \A n \in DOMAIN invoices' :
         \/ n \in DOMAIN invoices /\ invoices'[n] = invoices[n]
         \/ n = k + 1 /\ invoices'[n].intent = r.intent
  <2>1. \A n \in 1 .. k + 1 : n \in 1 .. k \/ n = k + 1
    BY <1>3
  <2> QED BY <1>2, <1>3, <1>4, <2>1
<1>6. \A g \in Handlers, i \in Intents : Past(handlers'[g], i) =>
         /\ Past(handlers[g], i)
         /\ handlers'[g].at \in Before => g # h /\ handlers'[g].at = handlers[g].at
  BY <1>1, <1>2 DEF Inv, HandlersGood, Past, Before
<1>7. CASE r.intent = Nobody
  <2>1. Claimed'
    BY <1>2, <1>5, <1>6, <1>7, PaymentsAssumption DEF Unique, Claimed
  <2>2. InvoicedAtMostOnce'
    BY <1>5, <1>7 DEF Unique, InvoicedAtMostOnce
  <2> QED BY <2>1, <2>2 DEF Unique
<1>8. CASE r.intent # Nobody
  <2>1. r.intent \in Intents /\ Past(r, r.intent)
    BY <1>1, <1>8 DEF Good, HandlerType, Past
  <2>2. \A n \in DOMAIN invoices : invoices[n].intent # r.intent
    BY <1>1, <2>1 DEF Unique, Claimed, Before
  <2>3. Success(r.intent) \in claimed
    BY <1>1, <2>1 DEF Unique, Claimed
  <2>4. \A g \in Handlers : Past(handlers[g], r.intent) => g = h
    BY <1>1, <2>1 DEF Unique, Claimed
  <2>5. \A i \in Intents, n \in DOMAIN invoices' : invoices'[n].intent = i => Success(i) \in claimed'
    BY <1>2, <1>5, <2>3 DEF Unique, Claimed
  <2>6. \A i \in Intents, g \in Handlers : Past(handlers'[g], i) /\ handlers'[g].at \in Before =>
           \A n \in DOMAIN invoices' : invoices'[n].intent # i
    BY <1>5, <1>6, <2>4 DEF Unique, Claimed
  <2>7. Claimed'
    BY <1>2, <1>6, <2>5, <2>6 DEF Unique, Claimed
  <2>8. InvoicedAtMostOnce'
    BY <1>5, <2>2 DEF Unique, InvoicedAtMostOnce
  <2> QED BY <2>7, <2>8 DEF Unique
<1> QED BY <1>7, <1>8

LEMMA NextUnique == Inv /\ Unique /\ [Next]_vars => Unique'
<1> SUFFICES ASSUME Inv, Unique, [Next]_vars PROVE Unique'
  OBVIOUS
<1>1. ASSUME UNCHANGED <<claimed, handlers, invoices>> PROVE Unique'
  BY <1>1 DEF Unique, Claimed, InvoicedAtMostOnce
<1>2. CASE UNCHANGED vars
  BY <1>1, <1>2 DEF vars
<1>3. CASE \/ \E o \in Orders, i \in Intents : CreateIntent(o, i)
           \/ \E i \in Intents : OpenCharge(i) \/ Decline(i) \/ Pay(i)
  BY <1>1, <1>3 DEF CreateIntent, OpenCharge, Decline, Pay
<1>4. ASSUME NEW h \in Handlers,
             \/ \E e \in events : Deliver(h, e)
             \/ \E o \in Orders : RequestInvoice(h, o)
             \/ \E i \in Intents : RequestRefund(h, i)
      PROVE  Unique'
  <2>1. SameIntents /\ claimed' = claimed
    BY <1>4 DEF Deliver, RequestInvoice, RequestRefund, SameIntents
  <2>2. \E q : Onward(h, q)
    BY <1>4 DEF Deliver, RequestInvoice, RequestRefund, Onward, Past, Handler
  <2> QED BY <2>1, <2>2, OnwardKeeps
<1>5. ASSUME NEW h \in Handlers,
             handlers' = [handlers EXCEPT ![h] = Idle], claimed' = claimed, SameIntents
      PROVE  Unique'
  <2>1. Onward(h, Idle)
    BY <1>5 DEF Onward, Past
  <2> QED BY <1>5, <2>1, OnwardKeeps
<1>6. ASSUME NEW h \in Handlers, NEW at, handlers' = [handlers EXCEPT ![h].at = at],
             handlers[h] \in HandlerType, claimed' = claimed, SameIntents, handlers[h].at # "claim",
             at \in Before => handlers[h].at \in Before
      PROVE  Unique'
  <2> DEFINE q == [handlers[h] EXCEPT !.at = at]
  <2>1. handlers[h] # Idle
    <3>1. handlers[h].at # "idle" /\ Idle.at = "idle"
      BY <1>6 DEF HandlerType, Idle
    <3> QED BY <3>1
  <2>2. Onward(h, q)
    BY <1>6, <2>1 DEF Onward, Past, HandlerType
  <2> QED BY <1>6, <2>2, OnwardKeeps
<1>7. ASSUME NEW h \in Handlers, Step(h) PROVE Unique'
  <2>1. handlers[h] \in HandlerType
    BY <1>7 DEF Step, Claim, Find, Confirm, Settle, LookUpInvoice, CreateInvoice, Transmit,
       RecordProtocollo, ReadOrder, StartOrder, ProviderRefund, MarkRefunded, At, Busy, Inv, HandlersGood
  <2>2. CASE Find(h)
    BY <1>5, <1>6, <2>1, <2>2 DEF Find, At, Answer, End, GoTo, Route, Before, SameIntents
  <2>3. CASE Confirm(h) \/ Settle(h) \/ MarkRefunded(h)
    BY <1>5, <1>6, <2>1, <2>3
       DEF Confirm, Settle, MarkRefunded, At, Answer, End, GoTo, Before, SameIntents
  <2>4. CASE LookUpInvoice(h) \/ ReadOrder(h) \/ StartOrder(h) \/ ProviderRefund(h)
    BY <1>5, <1>6, <2>1, <2>4
       DEF LookUpInvoice, ReadOrder, StartOrder, ProviderRefund, At, Answer, End, GoTo, Before,
           SameIntents
  <2>5. CASE Transmit(h) \/ RecordProtocollo(h)
    <3>1. SameIntents
      <4>1. \A n \in DOMAIN invoices : invoices[n] \in InvoiceType
        BY DEF Inv, Tables
      <4>2. PICK k : \/ invoices' = [invoices EXCEPT ![k] = [invoices[k] EXCEPT !.atSdI = TRUE]]
                     \/ invoices' = [invoices EXCEPT ![k] = [invoices[k] EXCEPT !.protocollo = TRUE]]
        BY <2>5 DEF Transmit, RecordProtocollo
      <4> QED BY <4>1, <4>2 DEF SameIntents, InvoiceType
    <3> QED BY <1>5, <1>6, <2>1, <2>5, <3>1
            DEF Transmit, RecordProtocollo, At, End, GoTo, Before
  <2> QED BY <1>7, <2>2, <2>3, <2>4, <2>5, ClaimKeeps, CreateKeeps DEF Step
<1>8. ASSUME NEW h \in Handlers, Die(h) \/ AdvanceThrows(h) PROVE Unique'
  BY <1>5, <1>8 DEF Die, AdvanceThrows, Answer, End, SameIntents
<1> QED BY <1>2, <1>3, <1>4, <1>7, <1>8 DEF Next

\* A payment has one fattura, however often Stripe calls and whichever handlers overlap or die:
\* InvoiceOnPaymentSucceeded looks and inserts in two statements, the claim keeps others out.
THEOREM InvoicedOnce == Spec => []InvoicedAtMostOnce
<1>1. Init => Unique
  BY DEF Init, Unique, Claimed, InvoicedAtMostOnce, Past
<1>2. Unique => InvoicedAtMostOnce
  BY DEF Unique
<1> QED BY <1>1, <1>2, NextUnique, AlwaysInv, PTL DEF Spec

-----------------------------------------------------------------------------
\* On an intent without a declined card the status is still the one a handler has read: the only
\* other event is its own, and a refund begins when it is done.
Follows(r) ==
    r # Idle /\ r.intent \in Intents \ declined =>
        /\ r.at = "confirm" => intents[r.intent].status = "REQUIRES_PAYMENT"
        /\ r.at = "settle" => intents[r.intent].status = "PROCESSING"
        /\ r.at \in {"refund", "refunded"} => intents[r.intent].status \in Settled

Fresh == \A h \in Handlers : Follows(handlers[h])

FInv == Inv /\ Unique /\ Fresh

StatusFollows(i) ==
    \/ intents'[i].status = intents[i].status
    \/ intents[i] = NoIntent
    \/ \E event \in DOMAIN Transitions :
          /\ IsLegal(intents[i].status, event)
          /\ intents'[i].status = nextPaymentStatus(event)

\* A step that writes no intent and leaves one handler with something fresh.
LEMMA UnwrittenFollows ==
    ASSUME FInv, UNCHANGED intents, declined \subseteq declined', NEW h \in Handlers, NEW q,
           handlers' = [handlers EXCEPT ![h] = q], Follows(q)'
    PROVE  Fresh'
<1>1. ASSUME NEW g \in Handlers PROVE Follows(handlers[g])'
  <2>1. PICK r : r = handlers[g] /\ Follows(r)
    BY DEF FInv, Fresh
  <2>2. Follows(r)'
    BY <2>1 DEF Follows
  <2>3. handlers'[g] = IF g = h THEN q ELSE r
    BY <2>1 DEF FInv, Inv, HandlersGood
  <2>4. PICK s : s = handlers'[g] /\ (s = q \/ s = r)
    BY <2>3
  <2>5. Follows(s)'
    BY <2>2, <2>4
  <2> QED BY <2>4, <2>5
<1> QED BY <1>1 DEF Fresh

\* Nobody but the writer is about to write the status of an intent without a declined card.
LEMMA WriterIsAlone ==
    ASSUME FInv, NEW h \in Handlers, NEW g \in Handlers, g # h,
           At(h, "confirm") \/ At(h, "settle"),
           Busy(g), handlers[g].intent = handlers[h].intent,
           handlers[h].intent \in Intents \ declined
    PROVE  handlers[g].at \notin {"confirm", "settle", "refund", "refunded"}
<1>1. PICK r : r = handlers[h] /\ Good(r) /\ Follows(r) /\ r # Idle /\ r.at \in {"confirm", "settle"}
  BY DEF FInv, Fresh, Inv, HandlersGood, At, Busy
<1>2. PICK s : s = handlers[g] /\ Good(s) /\ Follows(s) /\ s # Idle /\ s.intent = r.intent
  BY <1>1 DEF FInv, Fresh, Inv, HandlersGood, Busy
<1>3. r.for = "succeeded" /\ intents[r.intent].status \notin Settled
  BY <1>1 DEF Good, HandlerType, Follows, Settled
<1>4. s.at \notin {"refund", "refunded"}
  BY <1>1, <1>2, <1>3 DEF Follows
<1>5. s.at \in {"confirm", "settle"} => Past(s, r.intent)
  BY <1>1, <1>2 DEF Good, HandlerType, Past
<1>6. Past(r, r.intent)
  BY <1>1, <1>3 DEF Past
<1> QED BY <1>1, <1>2, <1>4, <1>5, <1>6 DEF FInv, Unique, Claimed

\* A step of h that writes the status of its intent, and where it goes.
LEMMA WrittenFollows ==
    ASSUME FInv, NEW h \in Handlers, NEW r, r = handlers[h], Good(r), r # Idle, r.intent \in Intents,
           NEW status, setStatus(h, status), UNCHANGED declined,
           NEW q, handlers' = [handlers EXCEPT ![h] = q],
           \/ q = Idle
           \/ /\ q.intent = r.intent
              /\ q.at = "lookup" \/ (q.at = "settle" /\ status = "PROCESSING"),
           r.intent \notin declined =>
               \A g \in Handlers \ {h} :
                  Busy(g) /\ handlers[g].intent = r.intent =>
                      \/ handlers[g].at \notin {"confirm", "settle", "refund", "refunded"}
                      \/ handlers[g].at \in {"refund", "refunded"} /\ status \in Settled
    PROVE  Fresh'
<1>1. /\ \A i \in Intents : i # r.intent => intents'[i] = intents[i]
      /\ intents'[r.intent].status = status
  <2>1. intents[r.intent] \in [status : Statuses, order : Orders]
    BY PaymentsAssumption DEF Good, Exists, FInv, Inv, Tables
  <2> QED BY <2>1 DEF setStatus, FInv, Inv, Tables
<1>2. ASSUME NEW g \in Handlers PROVE Follows(handlers[g])'
  <2>1. CASE g = h
    <3>1. handlers'[g] = q
      BY <2>1 DEF FInv, Inv, HandlersGood
    <3>2. Follows(q)'
      BY <1>1 DEF Follows
    <3> QED BY <3>1, <3>2
  <2>2. CASE g # h
    <3>1. PICK s : s = handlers[g] /\ s = handlers'[g] /\ Follows(s)
      BY <2>2 DEF FInv, Inv, HandlersGood, Fresh
    <3>2. CASE s.intent = r.intent /\ r.intent \notin declined /\ s # Idle
      <4>1. \/ s.at \notin {"confirm", "settle", "refund", "refunded"}
            \/ s.at \in {"refund", "refunded"} /\ status \in Settled
        BY <2>2, <3>1, <3>2 DEF Busy
      <4>2. Follows(s)'
        BY <1>1, <3>2, <4>1 DEF Follows
      <4> QED BY <3>1, <4>2
    <3>3. CASE ~(s.intent = r.intent /\ r.intent \notin declined /\ s # Idle)
      <4>1. Follows(s)'
        BY <1>1, <3>1, <3>3 DEF Follows
      <4> QED BY <3>1, <4>1
    <3> QED BY <3>2, <3>3
  <2> QED BY <2>1, <2>2
<1> QED BY <1>2 DEF Fresh

LEMMA ConfirmFollows ==
    ASSUME FInv, NEW h \in Handlers, Confirm(h)
    PROVE  Fresh' /\ \A i \in Intents \ declined : StatusFollows(i)
<1>1. PICK r : r = handlers[h] /\ Good(r) /\ Follows(r) /\ r # Idle /\ r.at = "confirm"
  BY DEF Confirm, At, Busy, FInv, Inv, HandlersGood, Fresh
<1>2. r.for \in {"succeeded", "failed"} /\ r.intent \in Intents
  BY <1>1 DEF Good, HandlerType, Exists
<1> DEFINE q == [r EXCEPT !.at = "settle"]
<1>3. q.at = "settle" /\ q.intent = r.intent /\ handlers' = [handlers EXCEPT ![h] = q]
  BY <1>1 DEF Confirm, GoTo, Good, HandlerType
<1> HIDE DEF q
<1>4. setStatus(h, "PROCESSING") /\ UNCHANGED declined
  BY DEF Confirm, nextPaymentStatus, Transitions, stripe
<1>5. r.intent \notin declined =>
         \A g \in Handlers \ {h} : Busy(g) /\ handlers[g].intent = r.intent =>
            handlers[g].at \notin {"confirm", "settle", "refund", "refunded"}
  BY <1>1, <1>2, WriterIsAlone DEF Confirm
<1>6. Fresh'
  BY <1>1, <1>2, <1>3, <1>4, <1>5, WrittenFollows
<1>7. \A i \in Intents \ declined : StatusFollows(i)
  <2>1. TAKE i \in Intents \ declined
  <2>2. CASE i = r.intent
    <3>1. intents[i] \in [status : Statuses, order : Orders] /\ intents[i].status = "REQUIRES_PAYMENT"
      BY <1>1, <1>2, <2>2 DEF Good, Exists, FInv, Inv, Tables, Follows
    <3>2. intents'[i].status = "PROCESSING"
      BY <1>1, <1>4, <2>2, <3>1 DEF setStatus, FInv, Inv, Tables
    <3>3. IsLegal(intents[i].status, "CONFIRM") /\ nextPaymentStatus("CONFIRM") = "PROCESSING"
      BY <3>1 DEF IsLegal, nextPaymentStatus, Transitions
    <3>4. "CONFIRM" \in DOMAIN Transitions
      BY DEF Transitions
    <3> QED BY <3>2, <3>3, <3>4 DEF StatusFollows
  <2>3. CASE i # r.intent
    BY <1>1, <1>4, <2>3 DEF setStatus, FInv, Inv, Tables, StatusFollows
  <2> QED BY <2>2, <2>3
<1> QED BY <1>6, <1>7

LEMMA SettleFollows ==
    ASSUME FInv, NEW h \in Handlers, Settle(h)
    PROVE  Fresh' /\ \A i \in Intents \ declined : StatusFollows(i)
<1>1. PICK r : r = handlers[h] /\ Good(r) /\ Follows(r) /\ r # Idle /\ r.at = "settle"
  BY DEF Settle, At, Busy, FInv, Inv, HandlersGood, Fresh
<1>2. r.for \in {"succeeded", "failed"} /\ r.intent \in Intents
  BY <1>1 DEF Good, HandlerType, Exists
<1>3. r.for = "failed" => r.intent \in declined
  BY <1>1 DEF Good
<1>4. PICK status : /\ setStatus(h, status) /\ status = IF r.for = "succeeded" THEN "SUCCEEDED" ELSE "FAILED"
                    /\ UNCHANGED declined
  BY <1>1, <1>2 DEF Settle, nextPaymentStatus, Transitions
<1>5. r.intent \notin declined =>
         \A g \in Handlers \ {h} : Busy(g) /\ handlers[g].intent = r.intent =>
            handlers[g].at \notin {"confirm", "settle", "refund", "refunded"}
  BY <1>1, <1>2, WriterIsAlone DEF Settle
<1>6. Fresh'
  <2>1. PICK q : /\ handlers' = [handlers EXCEPT ![h] = q]
                 /\ q = Idle \/ (q.at = "lookup" /\ q.intent = r.intent)
    <3>1. CASE r.for = "succeeded"
      <4>1. handlers' = [handlers EXCEPT ![h] = [r EXCEPT !.at = "lookup"]]
        BY <1>1, <3>1 DEF Settle, GoTo
      <4>2. [r EXCEPT !.at = "lookup"].at = "lookup" /\ [r EXCEPT !.at = "lookup"].intent = r.intent
        BY <1>1 DEF Good, HandlerType
      <4> QED BY <4>1, <4>2
    <3>2. CASE r.for = "failed"
      <4>1. handlers' = [handlers EXCEPT ![h] = Idle]
        BY <1>1, <3>2 DEF Settle, Answer, End
      <4>2. PICK q : q = Idle
        OBVIOUS
      <4> QED BY <4>1, <4>2
    <3> QED BY <1>2, <3>1, <3>2
  <2> QED BY <1>1, <1>2, <1>4, <1>5, <2>1, WrittenFollows
<1>7. \A i \in Intents \ declined : StatusFollows(i)
  <2>1. TAKE i \in Intents \ declined
  <2>2. CASE i = r.intent
    <3>1. intents[i] \in [status : Statuses, order : Orders] /\ intents[i].status = "PROCESSING"
      BY <1>1, <1>2, <2>2 DEF Good, Exists, FInv, Inv, Tables, Follows
    <3>2. intents'[i].status = "SUCCEEDED"
      BY <1>1, <1>2, <1>3, <1>4, <2>2, <3>1 DEF setStatus, FInv, Inv, Tables
    <3>3. IsLegal(intents[i].status, "SUCCEED") /\ nextPaymentStatus("SUCCEED") = "SUCCEEDED"
      BY <3>1 DEF IsLegal, nextPaymentStatus, Transitions
    <3>4. "SUCCEED" \in DOMAIN Transitions
      BY DEF Transitions
    <3> QED BY <3>2, <3>3, <3>4 DEF StatusFollows
  <2>3. CASE i # r.intent
    BY <1>1, <1>4, <2>3 DEF setStatus, FInv, Inv, Tables, StatusFollows
  <2> QED BY <2>2, <2>3
<1> QED BY <1>6, <1>7

LEMMA RefundFollows ==
    ASSUME FInv, NEW h \in Handlers, MarkRefunded(h)
    PROVE  Fresh' /\ \A i \in Intents \ declined : StatusFollows(i)
<1>1. PICK r : r = handlers[h] /\ Good(r) /\ Follows(r) /\ r # Idle /\ r.at = "refunded"
  BY DEF MarkRefunded, At, Busy, FInv, Inv, HandlersGood, Fresh
<1>2. r.intent \in Intents
  BY <1>1 DEF Good, HandlerType, Exists
<1>3. setStatus(h, "REFUNDED") /\ UNCHANGED declined /\ handlers' = [handlers EXCEPT ![h] = Idle]
  BY DEF MarkRefunded, nextPaymentStatus, Transitions, stripe, End
<1>4. /\ \A i \in Intents : i # r.intent => intents'[i] = intents[i]
      /\ intents'[r.intent].status = "REFUNDED"
  <2>1. intents[r.intent] \in [status : Statuses, order : Orders]
    BY <1>1 DEF Good, Exists, FInv, Inv, Tables
  <2> QED BY <1>1, <1>2, <1>3, <2>1 DEF setStatus, FInv, Inv, Tables
<1>5. Fresh'
  <2>1. r.intent \notin declined =>
           \A g \in Handlers \ {h} : Busy(g) /\ handlers[g].intent = r.intent =>
              handlers[g].at \notin {"confirm", "settle"}
    BY <1>1, <1>2 DEF FInv, Fresh, Follows, Busy, Settled
  <2>2. PICK q, status : q = Idle /\ status = "REFUNDED"
    OBVIOUS
  <2>3. status \in Settled
    BY <2>2 DEF Settled
  <2>4. setStatus(h, status) /\ handlers' = [handlers EXCEPT ![h] = q]
    BY <1>3, <2>2
  <2>5. r.intent \notin declined =>
           \A g \in Handlers \ {h} : Busy(g) /\ handlers[g].intent = r.intent =>
              \/ handlers[g].at \notin {"confirm", "settle", "refund", "refunded"}
              \/ handlers[g].at \in {"refund", "refunded"} /\ status \in Settled
    BY <2>1, <2>3
  <2>6. q = Idle \/ (q.intent = r.intent /\ q.at = "lookup")
    BY <2>2
  <2>7. UNCHANGED declined
    BY <1>3
  <2> QED BY <1>1, <1>2, <2>4, <2>5, <2>6, <2>7, WrittenFollows
<1>6. \A i \in Intents \ declined : StatusFollows(i)
  <2>1. TAKE i \in Intents \ declined
  <2>2. CASE i = r.intent /\ intents[i].status = "SUCCEEDED"
    <3>1. IsLegal(intents[i].status, "REFUND") /\ nextPaymentStatus("REFUND") = "REFUNDED"
      BY <2>2 DEF IsLegal, nextPaymentStatus, Transitions
    <3>2. "REFUND" \in DOMAIN Transitions
      BY DEF Transitions
    <3> QED BY <1>4, <2>2, <3>1, <3>2 DEF StatusFollows
  <2>3. CASE i = r.intent /\ intents[i].status # "SUCCEEDED"
    BY <1>1, <1>2, <1>4, <2>3 DEF Follows, Settled, StatusFollows
  <2>4. CASE i # r.intent
    BY <1>4, <2>4 DEF StatusFollows
  <2> QED BY <2>2, <2>3, <2>4
<1> QED BY <1>5, <1>6

LEMMA NextFollows ==
    ASSUME FInv, [Next]_vars
    PROVE  Fresh' /\ \A i \in Intents \ declined : StatusFollows(i)
<1>1. ASSUME UNCHANGED <<intents, handlers>>, declined \subseteq declined'
      PROVE  Fresh' /\ \A i \in Intents \ declined : StatusFollows(i)
  <2>1. ASSUME NEW g \in Handlers PROVE Follows(handlers[g])'
    <3>1. PICK s : s = handlers[g] /\ s = handlers'[g] /\ Follows(s)
      BY <1>1 DEF FInv, Fresh
    <3>2. Follows(s)'
      BY <1>1, <3>1 DEF Follows
    <3> QED BY <3>1, <3>2
  <2> QED BY <1>1, <2>1 DEF Fresh, StatusFollows
<1>2. ASSUME NEW o \in Orders, NEW i \in Intents, CreateIntent(o, i)
      PROVE  Fresh' /\ \A j \in Intents \ declined : StatusFollows(j)
  <2>1. /\ UNCHANGED <<handlers, declined>> /\ intents[i] = NoIntent
        /\ \A j \in Intents \ {i} : intents'[j] = intents[j]
    BY <1>2 DEF CreateIntent, stripe, FInv, Inv, Tables
  <2>2. ASSUME NEW g \in Handlers PROVE Follows(handlers[g])'
    <3>1. PICK s : s = handlers[g] /\ s = handlers'[g] /\ Follows(s)
      BY <2>1 DEF FInv, Fresh
    <3>2. s # Idle => s.intent # i
      BY <2>1, <3>1, PaymentsAssumption DEF FInv, Inv, HandlersGood, Busy, Good, Exists
    <3>3. Follows(s)'
      BY <2>1, <3>1, <3>2 DEF Follows
    <3> QED BY <3>1, <3>3
  <2>3. \A j \in Intents \ declined : StatusFollows(j)
    BY <2>1 DEF StatusFollows
  <2> QED BY <2>2, <2>3 DEF Fresh
<1>3. ASSUME NEW h \in Handlers, UNCHANGED <<intents, declined>>,
             NEW q, handlers' = [handlers EXCEPT ![h] = q], Follows(q)'
      PROVE  Fresh' /\ \A i \in Intents \ declined : StatusFollows(i)
  BY <1>3, UnwrittenFollows DEF StatusFollows
<1>4. ASSUME NEW h \in Handlers,
             \/ \E e \in events : Deliver(h, e)
             \/ \E o \in Orders : RequestInvoice(h, o)
             \/ \E i \in Intents : RequestRefund(h, i)
      PROVE  Fresh' /\ \A i \in Intents \ declined : StatusFollows(i)
  <2>1. UNCHANGED <<intents, declined>>
    BY <1>4 DEF Deliver, RequestInvoice, RequestRefund, stripe
  <2>2. PICK q : /\ handlers' = [handlers EXCEPT ![h] = q]
                 /\ \/ q.at \in {"claim", "create"}
                    \/ q.at = "refund" /\ q.intent \in Intents /\ intents[q.intent].status \in Settled
    <3>1. CASE \E e \in events : Deliver(h, e)
      <4>1. PICK e \in events : Deliver(h, e)
        BY <3>1
      <4>2. Handler("claim", e.type, e.intent, intents[e.intent].order).at = "claim"
        BY DEF Handler
      <4> QED BY <4>1, <4>2 DEF Deliver
    <3>2. CASE \E o \in Orders : RequestInvoice(h, o)
      <4>1. PICK o \in Orders : RequestInvoice(h, o)
        BY <3>2
      <4>2. Handler("create", "invoice", Nobody, o).at = "create"
        BY DEF Handler
      <4> QED BY <4>1, <4>2 DEF RequestInvoice
    <3>3. CASE \E i \in Intents : RequestRefund(h, i)
      <4>1. PICK i \in Intents : RequestRefund(h, i)
        BY <3>3
      <4>2. PICK q : q = Handler("refund", "refund", i, intents[i].order)
        OBVIOUS
      <4>3. q.at = "refund" /\ q.intent = i
        BY <4>2 DEF Handler
      <4>4. intents[i].status \in Settled
        BY <4>1 DEF RequestRefund, IsLegal, Transitions, Settled
      <4> QED BY <4>1, <4>2, <4>3, <4>4 DEF RequestRefund
    <3> QED BY <1>4, <3>1, <3>2, <3>3
  <2>3. Follows(q)'
    BY <2>1, <2>2 DEF Follows
  <2> QED BY <1>3, <2>1, <2>2, <2>3
<1>5. ASSUME NEW h \in Handlers, Step(h) \/ Die(h) \/ AdvanceThrows(h),
             ~Confirm(h), ~Settle(h), ~MarkRefunded(h)
      PROVE  Fresh' /\ \A i \in Intents \ declined : StatusFollows(i)
  <2>1. UNCHANGED <<intents, declined>>
    BY <1>5 DEF Step, Claim, Find, LookUpInvoice, CreateInvoice, Transmit, RecordProtocollo,
       ReadOrder, StartOrder, ProviderRefund, Die, AdvanceThrows, stripe
  <2>2. PICK r : r = handlers[h] /\ Good(r) /\ Follows(r) /\ r # Idle
    BY <1>5 DEF Step, Claim, Find, LookUpInvoice, CreateInvoice, Transmit, RecordProtocollo,
       ReadOrder, StartOrder, ProviderRefund, Die, AdvanceThrows, At, Busy, FInv, Inv, HandlersGood,
       Fresh
  <2>3. ASSUME handlers' = [handlers EXCEPT ![h] = Idle]
        PROVE  Fresh' /\ \A i \in Intents \ declined : StatusFollows(i)
    <3>1. PICK q : q = Idle
      OBVIOUS
    <3>2. Follows(q)'
      BY <3>1 DEF Follows
    <3> QED BY <1>3, <2>1, <2>3, <3>1, <3>2
  <2>4. ASSUME NEW at, handlers' = [handlers EXCEPT ![h].at = at],
               \/ at \notin {"confirm", "settle", "refund", "refunded"}
               \/ at = "confirm" /\ intents[r.intent].status = "REQUIRES_PAYMENT"
               \/ at = "settle" /\ intents[r.intent].status = "PROCESSING"
               \/ at = "refunded" /\ r.at = "refund"
        PROVE  Fresh' /\ \A i \in Intents \ declined : StatusFollows(i)
    <3>1. PICK q : /\ q = [r EXCEPT !.at = at] /\ handlers' = [handlers EXCEPT ![h] = q]
                   /\ q.at = at /\ q.intent = r.intent
      <4>1. PICK q : q = [r EXCEPT !.at = at]
        OBVIOUS
      <4>2. q.at = at /\ q.intent = r.intent
        BY <2>2, <4>1 DEF Good, HandlerType
      <4> QED BY <2>2, <2>4, <4>1, <4>2
    <3>2. Follows(q)'
      BY <2>1, <2>2, <2>4, <3>1 DEF Follows
    <3> QED BY <1>3, <2>1, <3>1, <3>2
  <2>5. CASE Claim(h) \/ LookUpInvoice(h) \/ Transmit(h) \/ RecordProtocollo(h)
    BY <2>3, <2>4, <2>5 DEF Claim, LookUpInvoice, Transmit, RecordProtocollo, Answer, End, GoTo
  <2>6. CASE Find(h)
    BY <2>2, <2>3, <2>4, <2>6 DEF Find, Route, Answer, End, GoTo
  <2>7. CASE ReadOrder(h) \/ StartOrder(h) \/ ProviderRefund(h)
    BY <2>2, <2>3, <2>4, <2>7 DEF ReadOrder, StartOrder, ProviderRefund, At, Answer, End, GoTo
  <2>8. CASE Die(h) \/ AdvanceThrows(h)
    BY <2>3, <2>8 DEF Die, AdvanceThrows, Answer, End
  <2>9. CASE CreateInvoice(h)
    <3>1. PICK q : handlers' = [handlers EXCEPT ![h] = q] /\ q.at = "transmit"
      <4>1. [r EXCEPT !.at = "transmit", !.invoice = Len(invoices) + 1].at = "transmit"
        BY <2>2 DEF Good, HandlerType
      <4> QED BY <2>2, <2>9, <4>1 DEF CreateInvoice
    <3>2. Follows(q)'
      BY <3>1 DEF Follows
    <3> QED BY <1>3, <2>1, <3>1, <3>2
  <2> QED BY <1>5, <2>5, <2>6, <2>7, <2>8, <2>9 DEF Step
<1>6. CASE UNCHANGED vars
  BY <1>1, <1>6 DEF vars
<1>7. CASE \E i \in Intents : OpenCharge(i) \/ Decline(i) \/ Pay(i)
  BY <1>1, <1>7 DEF OpenCharge, Decline, Pay
<1> QED BY <1>2, <1>4, <1>5, <1>6, <1>7, ConfirmFollows, SettleFollows, RefundFollows DEF Next

\* Webhook calls and refunds decide on what they read and write by id, and still the status of an
\* intent without a declined card moves only along TRANSITIONS.
THEOREM UndeclinedFollows == Spec => UndeclinedFollowsTransitions
<1>1. Init => Unique /\ Fresh
  BY DEF Init, Unique, Claimed, InvoicedAtMostOnce, Past, Fresh, Follows
<1>2. FInv /\ [Next]_vars =>
         [\A i \in Intents \ declined :
             \/ intents'[i].status = intents[i].status
             \/ intents[i] = NoIntent
             \/ \E event \in DOMAIN Transitions :
                   /\ IsLegal(intents[i].status, event)
                   /\ intents'[i].status = nextPaymentStatus(event)]_vars
  BY NextFollows DEF StatusFollows
<1>3. FInv /\ [Next]_vars => FInv'
  BY NextInv, NextUnique, NextFollows DEF FInv
<1>4. Init => FInv
  BY <1>1, InitInv DEF FInv
<1> QED BY <1>2, <1>3, <1>4, PTL DEF Spec, UndeclinedFollowsTransitions

=============================================================================
