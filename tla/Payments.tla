------------------------------ MODULE Payments ------------------------------
(*****************************************************************************)
(* Card payments of service orders (apps/api/src/payments, invoicing): an    *)
(* intent per payment, Stripe's webhook, refunds, the fattura issued on      *)
(* success and its transmission to the SdI, and the start of the order.      *)
(* Handlers run one await at a time and in no transaction: every write goes  *)
(* by id and was decided on what an earlier statement returned.              *)
(*****************************************************************************)
EXTENDS Naturals, Sequences

CONSTANTS
    Orders,     \* service orders with a fixed fee, which a card can pay
    Intents,    \* payment_intents rows that may be created
    Handlers,   \* requests and webhook calls in flight at once
    Nobody,     \* no intent: the invoice was issued by hand
    MaxManual,  \* bound on invoices requested by hand
    MaxFaults   \* bound on processes that die and statements that fail

ASSUME PaymentsAssumption ==
    /\ Nobody \notin Intents
    /\ MaxManual \in Nat
    /\ MaxFaults \in Nat

VARIABLES
    orders,    \* service_orders.status
    intents,   \* payment_intents
    charge,    \* external: Stripe's PaymentIntent of each intent
    events,    \* external: events that Stripe has not had answered yet
    claimed,   \* stripe_webhook_events
    invoices,  \* invoices, in the order of their insertion
    handlers,  \* what each handler is doing
    declined,  \* history: intents on which a card was declined
    manual,    \* how many invoices were requested by hand
    faults     \* how many faults have happened

vars == <<orders, intents, charge, events, claimed, invoices, handlers, declined, manual, faults>>
stripe == <<charge, events, declined>>
counters == <<manual, faults>>

Statuses == {"REQUIRES_PAYMENT", "PROCESSING", "SUCCEEDED", "FAILED", "REFUNDED"}
Settled == {"SUCCEEDED", "REFUNDED"}
NoIntent == [status |-> "absent", order |-> Nobody]

\* TRANSITIONS; an event that has no entry throws.
Transitions ==
    [CONFIRM |-> [from |-> "REQUIRES_PAYMENT", to |-> "PROCESSING"],
     SUCCEED |-> [from |-> "PROCESSING", to |-> "SUCCEEDED"],
     FAIL    |-> [from |-> "PROCESSING", to |-> "FAILED"],
     RETRY   |-> [from |-> "FAILED", to |-> "REQUIRES_PAYMENT"],
     REFUND  |-> [from |-> "SUCCEEDED", to |-> "REFUNDED"]]
IsLegal(s, event) == s = Transitions[event].from
nextPaymentStatus(event) == Transitions[event].to

Idle == [at |-> "idle"]
Busy(h) == handlers[h] # Idle
At(h, place) == Busy(h) /\ handlers[h].at = place
\* A handler: where it is, for which event or request, on which order and intent, and which
\* invoice it has inserted.
Handler(at, for, i, o) == [at |-> at, for |-> for, intent |-> i, order |-> o, invoice |-> 0]
GoTo(h, at) == handlers' = [handlers EXCEPT ![h].at = at]
End(h) == handlers' = [handlers EXCEPT ![h] = Idle]
Event(h) == [intent |-> handlers[h].intent, type |-> handlers[h].for]

\* The webhook answers 200: Stripe stops calling.
Answer(h) == End(h) /\ events' = events \ {Event(h)}

\* Mutant of setStatus: the database's word, without toDbPaymentStatus's inverse.
setDbStatus(h, s) == intents' = [intents EXCEPT ![handlers[h].intent].status =
                                     IF s = "SUCCEEDED" THEN "succeeded" ELSE s]
\* repo.setStatus, by id
setStatus(h, s) == intents' = [intents EXCEPT ![handlers[h].intent].status = s]

Init ==
    /\ orders = [o \in Orders |-> "CONFIRMED"]
    /\ intents = [i \in Intents |-> NoIntent]
    /\ charge = [i \in Intents |-> "none"]
    /\ events = {}
    /\ claimed = {}
    /\ invoices = <<>>
    /\ handlers = [h \in Handlers |-> Idle]
    /\ declined = {}
    /\ manual = 0
    /\ faults = 0

-----------------------------------------------------------------------------
\* Creating an intent, and what Stripe does with it

\* createIntent as far as the row: the order is not asked for its status or for other intents.
CreateIntent(o, i) ==
    /\ intents[i] = NoIntent
    /\ intents' = [intents EXCEPT ![i] = [status |-> "REQUIRES_PAYMENT", order |-> o]]
    /\ UNCHANGED <<orders, stripe, claimed, invoices, handlers, counters>>

\* createIntent from the provider's call on.  Nobody else knows the reference before the client
\* has the secret, so that the call, setProviderRef and the response are one step; when one of
\* them fails the step does not happen, and the row stays without a reference.
OpenCharge(i) ==
    /\ intents[i] # NoIntent
    /\ charge[i] = "none"
    /\ charge' = [charge EXCEPT ![i] = "open"]
    /\ UNCHANGED <<orders, intents, events, claimed, invoices, handlers, declined, counters>>

\* External: a card is declined.  Stripe reports it and lets the client try another card.
Decline(i) ==
    /\ charge[i] = "open"
    /\ i \notin declined
    /\ declined' = declined \cup {i}
    /\ events' = events \cup {[intent |-> i, type |-> "failed"]}
    /\ UNCHANGED <<orders, intents, charge, claimed, invoices, handlers, counters>>

\* External: the client pays.
Pay(i) ==
    /\ charge[i] = "open"
    /\ charge' = [charge EXCEPT ![i] = "paid"]
    /\ events' = events \cup {[intent |-> i, type |-> "succeeded"]}
    /\ UNCHANGED <<orders, intents, claimed, invoices, handlers, declined, counters>>

-----------------------------------------------------------------------------
\* StripePaymentsWebhookHandler.handle and PaymentsService.handleWebhook

\* Stripe calls until it gets an answer; calls for one event may overlap.
Deliver(h, e) ==
    /\ ~Busy(h)
    /\ e \in events
    /\ handlers' = [handlers EXCEPT ![h] = Handler("claim", e.type, e.intent, intents[e.intent].order)]
    /\ UNCHANGED <<orders, intents, stripe, claimed, invoices, counters>>

\* Mutant of Claim: the row that onConflictDoNothing did not insert is not looked at.
ClaimAgain(h) ==
    /\ At(h, "claim")
    /\ claimed' = claimed \cup {Event(h)}
    /\ GoTo(h, "find")
    /\ UNCHANGED <<orders, intents, stripe, invoices, counters>>

\* insert(stripeWebhookEvents).onConflictDoNothing: a duplicate is answered and skipped.
Claim(h) ==
    /\ At(h, "claim")
    /\ claimed' = claimed \cup {Event(h)}
    /\ \/ Event(h) \notin claimed /\ GoTo(h, "find") /\ UNCHANGED events
       \/ Event(h) \in claimed /\ Answer(h)
    /\ UNCHANGED <<orders, intents, charge, declined, invoices, counters>>

\* Where findByProviderRef leads a handler that finds status s: advance CONFIRM first, settle at
\* once, answer an event that is no news, or throw because TRANSITIONS has no entry.
Route(for, s) ==
    IF s = "REQUIRES_PAYMENT" THEN "confirm"
    ELSE IF s = "PROCESSING" THEN "settle"
    ELSE IF s \in Settled \/ for = "failed" THEN "answer"
    ELSE "throw"

\* findByProviderRef; an unknown reference (no charge) is answered.
Find(h) ==
    /\ At(h, "find")
    /\ LET place == IF charge[handlers[h].intent] = "none" THEN "answer"
                    ELSE Route(handlers[h].for, intents[handlers[h].intent].status)
       IN  CASE place = "answer" -> Answer(h)
             [] place = "throw"  -> End(h) /\ UNCHANGED events
             [] OTHER            -> GoTo(h, place) /\ UNCHANGED events
    /\ UNCHANGED <<orders, intents, charge, declined, claimed, invoices, counters>>

\* advance(rec, 'CONFIRM')
Confirm(h) ==
    /\ At(h, "confirm")
    /\ setStatus(h, nextPaymentStatus("CONFIRM"))
    /\ GoTo(h, "settle")
    /\ UNCHANGED <<orders, stripe, claimed, invoices, counters>>

\* advance(processing, 'SUCCEED' or 'FAIL')
Settle(h) ==
    /\ At(h, "settle")
    /\ \/ /\ handlers[h].for = "succeeded"
          /\ setStatus(h, nextPaymentStatus("SUCCEED"))
          /\ GoTo(h, "lookup")
          /\ UNCHANGED events
       \/ /\ handlers[h].for = "failed"
          /\ setStatus(h, nextPaymentStatus("FAIL"))
          /\ Answer(h)
    /\ UNCHANGED <<orders, charge, declined, claimed, invoices, counters>>

-----------------------------------------------------------------------------
\* InvoiceOnPaymentSucceeded and InvoicingService.issueForOrder

\* Mutant of LookUpInvoice: any invoice of the order will do.
LookUpByOrder(h) ==
    /\ At(h, "lookup")
    /\ GoTo(h, IF \E n \in DOMAIN invoices : invoices[n].order = handlers[h].order
               THEN "read order" ELSE "create")
    /\ UNCHANGED <<orders, intents, stripe, claimed, invoices, counters>>

\* findByOrderAndPaymentIntent: an invoice that exists is not issued again, nor transmitted.
LookUpInvoice(h) ==
    /\ At(h, "lookup")
    /\ GoTo(h, IF \E n \in DOMAIN invoices :
                     /\ invoices[n].intent = handlers[h].intent
                     /\ invoices[n].order = handlers[h].order
               THEN "read order" ELSE "create")
    /\ UNCHANGED <<orders, intents, stripe, claimed, invoices, counters>>

\* POST invoices/orders/:orderId
RequestInvoice(h, o) ==
    /\ ~Busy(h)
    /\ manual < MaxManual
    /\ manual' = manual + 1
    /\ handlers' = [handlers EXCEPT ![h] = Handler("create", "invoice", Nobody, o)]
    /\ UNCHANGED <<orders, intents, stripe, claimed, invoices, faults>>

\* buildForOrder over the lines of the order, which nobody changes, and the insert.
CreateInvoice(h) ==
    /\ At(h, "create")
    /\ invoices' = Append(invoices, [order |-> handlers[h].order, intent |-> handlers[h].intent,
                                     atSdI |-> FALSE, protocollo |-> FALSE])
    /\ handlers' = [handlers EXCEPT ![h].at = "transmit", ![h].invoice = Len(invoices) + 1]
    /\ UNCHANGED <<orders, intents, stripe, claimed, counters>>

\* sdi.transmit
Transmit(h) ==
    /\ At(h, "transmit")
    /\ invoices' = [invoices EXCEPT ![handlers[h].invoice].atSdI = TRUE]
    /\ GoTo(h, "protocol")
    /\ UNCHANGED <<orders, intents, stripe, claimed, counters>>

\* setTransmission; an invoice issued by hand is done.
RecordProtocollo(h) ==
    /\ At(h, "protocol")
    /\ invoices' = [invoices EXCEPT ![handlers[h].invoice].protocollo = TRUE]
    /\ IF handlers[h].intent = Nobody THEN End(h) ELSE GoTo(h, "read order")
    /\ UNCHANGED <<orders, intents, stripe, claimed, counters>>

\* OrdersService.advance reads the order; an order that cannot START throws, which the
\* handler of the success swallows.
ReadOrder(h) ==
    /\ At(h, "read order")
    /\ \/ orders[handlers[h].order] = "CONFIRMED" /\ GoTo(h, "start") /\ UNCHANGED events
       \/ orders[handlers[h].order] # "CONFIRMED" /\ Answer(h)
    /\ UNCHANGED <<orders, intents, charge, declined, claimed, invoices, counters>>

StartOrder(h) ==
    /\ At(h, "start")
    /\ orders' = [orders EXCEPT ![handlers[h].order] = "IN_PROGRESS"]
    /\ Answer(h)
    /\ UNCHANGED <<intents, charge, declined, claimed, invoices, counters>>

-----------------------------------------------------------------------------
\* PaymentsService.refund

\* Mutant of RequestRefund: a refund of whatever is not yet refunded.
RefundUnsettled(h, i) ==
    /\ ~Busy(h)
    /\ intents[i].status \in {"PROCESSING", "SUCCEEDED"}
    /\ handlers' = [handlers EXCEPT ![h] = Handler("refund", "refund", i, intents[i].order)]
    /\ UNCHANGED <<orders, intents, stripe, claimed, invoices, counters>>

\* The record is read; a status that cannot be refunded throws before anything is called.
RequestRefund(h, i) ==
    /\ ~Busy(h)
    /\ IsLegal(intents[i].status, "REFUND")
    /\ handlers' = [handlers EXCEPT ![h] = Handler("refund", "refund", i, intents[i].order)]
    /\ UNCHANGED <<orders, intents, stripe, claimed, invoices, counters>>

\* Mutant of ProviderRefund: an error of the provider is taken for an earlier refund.
RefundQuietly(h) ==
    /\ At(h, "refund")
    /\ \/ charge' = [charge EXCEPT ![handlers[h].intent] = "refunded"]
       \/ UNCHANGED charge
    /\ GoTo(h, "refunded")
    /\ UNCHANGED <<orders, intents, events, declined, claimed, invoices, counters>>

\* provider.refund; Stripe refuses what is refunded already, and the request ends with its error.
ProviderRefund(h) ==
    /\ At(h, "refund")
    /\ \/ /\ charge[handlers[h].intent] = "paid"
          /\ charge' = [charge EXCEPT ![handlers[h].intent] = "refunded"]
          /\ GoTo(h, "refunded")
       \/ /\ charge[handlers[h].intent] # "paid"
          /\ End(h)
          /\ UNCHANGED charge
    /\ UNCHANGED <<orders, intents, events, declined, claimed, invoices, counters>>

\* repo.setStatus
MarkRefunded(h) ==
    /\ At(h, "refunded")
    /\ setStatus(h, nextPaymentStatus("REFUND"))
    /\ End(h)
    /\ UNCHANGED <<orders, stripe, claimed, invoices, counters>>

-----------------------------------------------------------------------------
\* Faults

\* The process dies, or a statement fails and the request ends with a 500: not an answer.
Die(h) ==
    /\ Busy(h)
    /\ faults < MaxFaults
    /\ faults' = faults + 1
    /\ End(h)
    /\ UNCHANGED <<orders, intents, stripe, claimed, invoices, manual>>

\* orders.advance fails, which onPaymentSucceeded swallows: the webhook is answered.
AdvanceThrows(h) ==
    /\ At(h, "read order") \/ At(h, "start")
    /\ faults < MaxFaults
    /\ faults' = faults + 1
    /\ Answer(h)
    /\ UNCHANGED <<orders, intents, charge, declined, claimed, invoices, manual>>

-----------------------------------------------------------------------------
Step(h) ==
    \/ Claim(h) \/ Find(h) \/ Confirm(h) \/ Settle(h)
    \/ LookUpInvoice(h) \/ CreateInvoice(h) \/ Transmit(h) \/ RecordProtocollo(h)
    \/ ReadOrder(h) \/ StartOrder(h)
    \/ ProviderRefund(h) \/ MarkRefunded(h)

Next ==
    \/ \E o \in Orders, i \in Intents : CreateIntent(o, i)
    \/ \E i \in Intents : OpenCharge(i) \/ Decline(i) \/ Pay(i)
    \/ \E h \in Handlers :
          \/ \E e \in events : Deliver(h, e)
          \/ \E o \in Orders : RequestInvoice(h, o)
          \/ \E i \in Intents : RequestRefund(h, i)
          \/ Step(h) \/ Die(h) \/ AdvanceThrows(h)

Spec == Init /\ [][Next]_vars

\* A handler that runs goes on, and Stripe calls again while an event is not answered.
Fairness ==
    /\ \A h \in Handlers : WF_vars(Step(h))
    /\ WF_vars(\E h \in Handlers, e \in events : Deliver(h, e))

FairSpec == Spec /\ Fairness

-----------------------------------------------------------------------------
\* Properties

HandlerType ==
    [at : {"claim", "find", "confirm", "settle", "lookup", "create", "transmit", "protocol",
           "read order", "start", "refund", "refunded"},
     for : {"succeeded", "failed", "invoice", "refund"},
     intent : Intents \cup {Nobody}, order : Orders, invoice : Nat]

\* Every variable keeps its type, and a handler works on an intent that exists.
TypeOK ==
    /\ orders \in [Orders -> {"CONFIRMED", "IN_PROGRESS"}]
    /\ intents \in [Intents -> {NoIntent} \cup [status : Statuses, order : Orders]]
    /\ charge \in [Intents -> {"none", "open", "paid", "refunded"}]
    /\ events \subseteq [intent : Intents, type : {"succeeded", "failed"}]
    /\ claimed \subseteq [intent : Intents, type : {"succeeded", "failed"}]
    /\ invoices \in Seq([order : Orders, intent : Intents \cup {Nobody},
                         atSdI : BOOLEAN, protocollo : BOOLEAN])
    /\ handlers \in [Handlers -> {Idle} \cup HandlerType]
    /\ declined \subseteq Intents
    /\ manual \in 0 .. MaxManual
    /\ faults \in 0 .. MaxFaults

\* However often Stripe calls, whatever calls overlap and whichever of them dies, a payment has
\* one fattura: findByOrderAndPaymentIntent and the insert are two statements and no index is
\* unique, so that only the claim of the event keeps a second handler out.
InvoicedAtMostOnce ==
    \A m, n \in DOMAIN invoices :
        invoices[m].intent # Nobody /\ invoices[m].intent = invoices[n].intent => m = n

\* The records never say more than the money: an intent that counts as SUCCEEDED or has a fattura
\* was charged, one that counts as REFUNDED was paid back at Stripe, and an order is started only
\* when a payment of it was taken.
RecordsAreBacked ==
    /\ \A i \in Intents :
          /\ intents[i].status = "SUCCEEDED" => charge[i] \in {"paid", "refunded"}
          /\ intents[i].status = "REFUNDED" => charge[i] = "refunded"
    /\ \A n \in DOMAIN invoices :
          invoices[n].intent # Nobody => charge[invoices[n].intent] \in {"paid", "refunded"}
    /\ \A o \in Orders : orders[o] = "IN_PROGRESS" =>
          \E i \in Intents : intents[i].order = o /\ charge[i] \in {"paid", "refunded"}

\* The status of an intent on which no card was declined follows TRANSITIONS, however webhook
\* calls and refunds interleave and although each of them writes by id what it decided earlier.
\* (After a decline two events act on one intent, and the writes of the one undo the other's.)
UndeclinedFollowsTransitions ==
    [][\A i \in Intents \ declined :
          \/ intents'[i].status = intents[i].status
          \/ intents[i] = NoIntent
          \/ \E event \in DOMAIN Transitions :
                /\ IsLegal(intents[i].status, event)
                /\ intents'[i].status = nextPaymentStatus(event)]_vars

\* What was paid without a declined card and without a fault ends as phase-17 draws it: intent
\* SUCCEEDED, fattura issued and its protocollo recorded, order started.
Fulfilled(i) ==
    /\ intents[i].status \in Settled
    /\ \E n \in DOMAIN invoices :
          invoices[n].intent = i /\ invoices[n].atSdI /\ invoices[n].protocollo
    /\ orders[intents[i].order] = "IN_PROGRESS"
PaidIsFulfilled ==
    \A i \in Intents : (charge[i] = "paid") ~> (Fulfilled(i) \/ i \in declined \/ faults > 0)

\* The same as far as the intent, and with no proviso for declined cards: what is charged in the
\* end counts as SUCCEEDED.  The code keeps it only without a decline before the payment.
PaidIsSettled ==
    \A i \in Intents : (charge[i] = "paid") ~> (intents[i].status \in Settled)

=============================================================================
