---------------------------- MODULE Engagements ----------------------------
(*****************************************************************************)
(* What a client signs up for (apps/api/src/orders, mandate, aml, rentals):  *)
(* service orders on one property, of which only one party may have paid     *)
(* ones; the mandate of an owner's order and its electronic signature; the   *)
(* KYC case that the signature opens; and the registration of the lease,     *)
(* which an escalated case is to stop.  The services share nothing but the   *)
(* database: each awaits one statement or call after the other.              *)
(*****************************************************************************)
EXTENDS Naturals, Sequences, FiniteSets

CONSTANTS
    Mandates,    \* mandates of the owner's orders
    Handlers,    \* requests and webhook calls in flight at once
    MaxEnvelopes,\* bound on signature requests
    MaxRequests, \* bound on requests other than webhook calls
    MaxFaults    \* bound on processes that die and calls that fail

ASSUME EngagementsAssumption ==
    /\ MaxEnvelopes \in Nat
    /\ MaxRequests \in Nat
    /\ MaxFaults \in Nat

VARIABLES
    orders,     \* service_orders on one property and its listing: the party of each, all CONFIRMED
    mandates,   \* mandates
    envelopes,  \* external: the provider's envelopes, in the order of their creation
    cases,      \* kyc_cases, in the order of their insertion
    lease,      \* the lease: whether it has a protocollo, how often it was sent to the RLI
    handlers,   \* what each handler is doing
    raced,      \* history: an order was inserted although another had come since the check
    contended,  \* history: mandates for which two signature requests ran at once
    doubled,    \* history: two registrations ran at once
    requests,   \* how many requests were made
    faults      \* how many faults have happened

vars == <<orders, mandates, envelopes, cases, lease, handlers,
          raced, contended, doubled, requests, faults>>
history == <<raced, contended, doubled>>
records == <<orders, mandates, envelopes, cases, lease>>

Parties == {"seller", "buyer"}
NoEnvelope == 0
NoMandate == [status |-> "ABSENT", canProceed |-> FALSE, envelope |-> NoEnvelope, signedAt |-> FALSE]
Form(state, m) == [state |-> state, mandate |-> m]

\* subject_ref: `property:id`, `lease:id`, the tenant's, and `property:id:owner`.
Subjects == {"property", "lease", "tenant", "owner"}

\* MANDATE; WITHDRAW and EXPIRE have entries there and no caller.
MandateTransitions == {<<"DRAFT", "SENT">>, <<"SENT", "SIGNED">>}
\* KYC
KycTransitions ==
    [VERIFY   |-> [from |-> {"OPEN"}, to |-> "VERIFIED"],
     ESCALATE |-> [from |-> {"OPEN", "VERIFIED"}, to |-> "ESCALATED"],
     CLEAR    |-> [from |-> {"VERIFIED", "ESCALATED"}, to |-> "CLEARED"],
     REOPEN   |-> [from |-> {"ESCALATED", "CLEARED"}, to |-> "OPEN"]]

Idle == [at |-> "idle"]
At(h, place) == handlers[h].at = place
GoTo(h, at) == handlers' = [handlers EXCEPT ![h].at = at]
End(h) == handlers' = [handlers EXCEPT ![h] = Idle]
\* A request takes a free handler.
Begin(h, state) ==
    /\ At(h, "idle")
    /\ requests < MaxRequests
    /\ requests' = requests + 1
    /\ handlers' = [handlers EXCEPT ![h] = state]

Init ==
    /\ orders = <<>>
    /\ mandates = [m \in Mandates |-> NoMandate]
    /\ envelopes = <<>>
    /\ cases = <<>>
    /\ lease = [protocollo |-> FALSE, submissions |-> 0]
    /\ handlers = [h \in Handlers |-> Idle]
    /\ raced = FALSE
    /\ contended = {}
    /\ doubled = FALSE
    /\ requests = 0
    /\ faults = 0

-----------------------------------------------------------------------------
\* Orders: OrdersService.create and createForListing, ServiceCatalogService.confirmQuote

\* loadPaidPartiesForSubject: an owner's order names the property, a buyer's only its listing;
\* all of them are found either way, and all are paid.
PaidParties == {orders[n] : n \in DOMAIN orders}

\* Mutant of assertOneSidePerProperty: one's own party is looked for.
OwnPartyIsFree(party) == party \notin PaidParties
\* No paid order of the other party.
assertOneSidePerProperty(party) == PaidParties \subseteq {party}

RequestOrder(h, party) ==
    /\ assertOneSidePerProperty(party)
    /\ Begin(h, [at |-> "order", party |-> party, seen |-> PaidParties])
    /\ UNCHANGED <<records, history, faults>>

\* orders.create
InsertOrder(h) ==
    /\ At(h, "order")
    /\ orders' = Append(orders, handlers[h].party)
    /\ raced' = (raced \/ PaidParties # handlers[h].seen)
    /\ End(h)
    /\ UNCHANGED <<mandates, envelopes, cases, lease, contended, doubled, requests, faults>>

-----------------------------------------------------------------------------
\* Mandates: MandateService

\* create: what deriveMandate finds in the items of the order is fixed here.
CreateMandate(m, canProceed) ==
    /\ mandates[m] = NoMandate
    /\ "seller" \in PaidParties
    /\ mandates' = [mandates EXCEPT ![m].status = "DRAFT", ![m].canProceed = canProceed]
    /\ UNCHANGED <<orders, envelopes, cases, lease, handlers, history, requests, faults>>

IsSignatureRequest(h, m) ==
    (At(h, "envelope") \/ At(h, "attach") \/ At(h, "sent")) /\ handlers[h].mandate = m

\* Mutant of RequestSignature: items that await their legal review do not stop it.
RequestUnreviewed(h, m) ==
    /\ mandates[m].status = "DRAFT"
    /\ Len(envelopes) + Cardinality({g \in Handlers : At(g, "envelope")}) < MaxEnvelopes
    /\ Begin(h, [at |-> "envelope", mandate |-> m, envelope |-> NoEnvelope])
    /\ contended' = contended \cup {n \in {m} : \E g \in Handlers : IsSignatureRequest(g, n)}
    /\ UNCHANGED <<records, raced, doubled, faults>>

\* requestSignature: a mandate that cannot proceed or is not DRAFT throws.
RequestSignature(h, m) ==
    /\ mandates[m].status = "DRAFT" /\ mandates[m].canProceed
    /\ Len(envelopes) + Cardinality({g \in Handlers : At(g, "envelope")}) < MaxEnvelopes
    /\ Begin(h, [at |-> "envelope", mandate |-> m, envelope |-> NoEnvelope])
    /\ contended' = contended \cup {n \in {m} : \E g \in Handlers : IsSignatureRequest(g, n)}
    /\ UNCHANGED <<records, raced, doubled, faults>>

\* signatures.createEnvelope; the owner can sign from now on.
CreateEnvelope(h) ==
    /\ At(h, "envelope")
    /\ envelopes' = Append(envelopes, Form("open", handlers[h].mandate))
    /\ handlers' = [handlers EXCEPT ![h].at = "attach", ![h].envelope = Len(envelopes) + 1]
    /\ UNCHANGED <<orders, mandates, cases, lease, history, requests, faults>>

AttachEnvelope(h) ==
    /\ At(h, "attach")
    /\ mandates' = [mandates EXCEPT ![handlers[h].mandate].envelope = handlers[h].envelope]
    /\ GoTo(h, "sent")
    /\ UNCHANGED <<orders, envelopes, cases, lease, history, requests, faults>>

\* setStatus(id, nextStatus), with the status decided on the row as it was read.
SetSent(h) ==
    /\ At(h, "sent")
    /\ mandates' = [mandates EXCEPT ![handlers[h].mandate].status = "SENT"]
    /\ End(h)
    /\ UNCHANGED <<orders, envelopes, cases, lease, history, requests, faults>>

\* External: the owner signs.
Sign(e) ==
    /\ envelopes[e].state = "open"
    /\ envelopes' = [envelopes EXCEPT ![e].state = "signed"]
    /\ UNCHANGED <<orders, mandates, cases, lease, handlers, history, requests, faults>>

\* External: the provider calls until it is answered; its calls may overlap.
CallWebhook(h, e) ==
    /\ e \in DOMAIN envelopes
    /\ envelopes[e].state = "signed"
    /\ At(h, "idle")
    /\ handlers' = [handlers EXCEPT ![h] = [at |-> "find", envelope |-> e]]
    /\ UNCHANGED <<records, history, requests, faults>>

\* The webhook answers 200.
Answer(h) ==
    /\ End(h)
    /\ envelopes' = [envelopes EXCEPT ![handlers[h].envelope].state = "answered"]

\* Mutant of FindMandate: whatever is not SIGNED is signed.
FindUnsigned(h) ==
    /\ At(h, "find")
    /\ LET found == {m \in Mandates : mandates[m].envelope = handlers[h].envelope}
       IN  \/ /\ found = {}
              /\ End(h)
              /\ UNCHANGED envelopes
           \/ \E m \in found :
                 /\ handlers' = [handlers EXCEPT ![h] =
                       [at |-> "mark", envelope |-> handlers[h].envelope, mandate |-> m]]
                 /\ UNCHANGED envelopes
    /\ UNCHANGED <<orders, mandates, cases, lease, history, requests, faults>>

\* Mutant of FindMandate: an event that comes too early is answered.
FindMandateOrAnswer(h) ==
    /\ At(h, "find")
    /\ LET found == {m \in Mandates : mandates[m].envelope = handlers[h].envelope}
       IN  \/ /\ \A m \in found : mandates[m].status # "SENT"
              /\ Answer(h)
           \/ \E m \in found :
                 /\ mandates[m].status = "SENT"
                 /\ handlers' = [handlers EXCEPT ![h] =
                       [at |-> "mark", envelope |-> handlers[h].envelope, mandate |-> m]]
                 /\ UNCHANGED envelopes
    /\ UNCHANGED <<orders, mandates, cases, lease, history, requests, faults>>

\* findByEnvelope: no mandate is a 404, SIGNED is answered, and DRAFT has no SIGN and throws.
FindMandate(h) ==
    /\ At(h, "find")
    /\ LET found == {m \in Mandates : mandates[m].envelope = handlers[h].envelope}
       IN  \/ /\ \A m \in found : mandates[m].status = "DRAFT"
              /\ End(h)
              /\ UNCHANGED envelopes
           \/ /\ \E m \in found : mandates[m].status = "SIGNED"
              /\ Answer(h)
           \/ \E m \in found :
                 /\ mandates[m].status = "SENT"
                 /\ handlers' = [handlers EXCEPT ![h] =
                       [at |-> "mark", envelope |-> handlers[h].envelope, mandate |-> m]]
                 /\ UNCHANGED envelopes
    /\ UNCHANGED <<orders, mandates, cases, lease, history, requests, faults>>

MarkSigned(h) ==
    /\ At(h, "mark")
    /\ mandates' = [mandates EXCEPT ![handlers[h].mandate].signedAt = TRUE]
    /\ GoTo(h, "signed")
    /\ UNCHANGED <<orders, envelopes, cases, lease, history, requests, faults>>

SetSigned(h) ==
    /\ At(h, "signed")
    /\ mandates' = [mandates EXCEPT ![handlers[h].mandate].status = "SIGNED"]
    /\ GoTo(h, "open case")
    /\ UNCHANGED <<orders, envelopes, cases, lease, history, requests, faults>>

-----------------------------------------------------------------------------
\* KYC: AmlService

\* open: screening, assessAmlRisk and the insert.  A sanctions hit makes mustEscalate.
Case(subject, hit) == [subject |-> subject, mustEscalate |-> hit, status |-> "OPEN", escalated |-> FALSE]
Open(subject, hit) == cases' = Append(cases, Case(subject, hit))

\* openForMandate, after which the webhook is answered.
OpenForMandate(h, hit) ==
    /\ At(h, "open case")
    /\ Open("owner", hit)
    /\ Answer(h)
    /\ UNCHANGED <<orders, mandates, lease, history, requests, faults>>

\* POST aml/cases; the owner's case is the one that the mandate opens.
OpenByHand(subject, hit) ==
    /\ requests < MaxRequests
    /\ requests' = requests + 1
    /\ Open(subject, hit)
    /\ UNCHANGED <<orders, mandates, envelopes, lease, handlers, history, faults>>

\* Mutant of nextKycStatus: mustEscalate is not asked for.
VerifyAnyhow(c, event) == c.status \in KycTransitions[event].from
\* nextKycStatus: whether an event is legal
nextKycStatus(c, event) ==
    /\ c.status \in KycTransitions[event].from
    /\ event = "VERIFY" => ~c.mustEscalate

\* advance
RequestAdvance(h, n, event) ==
    /\ nextKycStatus(cases[n], event)
    /\ Begin(h, [at |-> "advance", case |-> n, to |-> KycTransitions[event].to])
    /\ UNCHANGED <<records, history, faults>>

\* Registrations under way no longer have to mind a case that is ESCALATED no more.
SetKycStatus(h) ==
    /\ At(h, "advance")
    /\ LET n == handlers[h].case  to == handlers[h].to
       IN  /\ cases' = [cases EXCEPT ![n].status = to,
                                     ![n].escalated = @ \/ to = "ESCALATED"]
           /\ handlers' = [g \in Handlers |->
                 IF g = h THEN Idle
                 ELSE IF "standing" \in DOMAIN handlers[g] /\ to # "ESCALATED"
                      THEN [handlers[g] EXCEPT !.standing = @ \ {n}]
                      ELSE handlers[g]]
    /\ UNCHANGED <<orders, mandates, envelopes, lease, history, requests, faults>>

-----------------------------------------------------------------------------
\* Leases: RentalsService.register

IsRegistration(h) == "standing" \in DOMAIN handlers[h]
IsEscalated(n) == cases[n].status = "ESCALATED"

\* Mutant of checkedSubjects: the tenant's case is left out.
WithoutTenant(tenant) == <<"property", "lease">>
\* The subjects that are asked for, the tenant's when the request names one.
checkedSubjects(tenant) ==
    IF tenant THEN <<"property", "lease", "tenant">> ELSE <<"property", "lease">>

\* Mutant of RequestRegistration: a protocollo does not stop it.
RegisterAgain(h, tenant) ==
    /\ Begin(h, [at |-> "check", tenant |-> tenant, left |-> checkedSubjects(tenant),
                 standing |-> {n \in DOMAIN cases : IsEscalated(n)}])
    /\ doubled' = (doubled \/ \E g \in Handlers : IsRegistration(g))
    /\ UNCHANGED <<records, raced, contended, faults>>

\* A lease that has a protocollo throws.
RequestRegistration(h, tenant) ==
    /\ ~lease.protocollo
    /\ Begin(h, [at |-> "check", tenant |-> tenant, left |-> checkedSubjects(tenant),
                 standing |-> {n \in DOMAIN cases : IsEscalated(n)}])
    /\ doubled' = (doubled \/ \E g \in Handlers : IsRegistration(g))
    /\ UNCHANGED <<records, raced, contended, faults>>

\* hasOpenEscalation, one subject after the other
CheckSubject(h) ==
    /\ At(h, "check")
    /\ LET left == handlers[h].left
       IN  IF \E n \in DOMAIN cases : cases[n].subject = Head(left) /\ IsEscalated(n)
           THEN End(h)
           ELSE handlers' = [handlers EXCEPT
                   ![h].left = Tail(left),
                   ![h].at = IF Len(left) > 1 THEN "check"
                             ELSE IF handlers[h].tenant THEN "open tenant" ELSE "submit"]
    /\ UNCHANGED <<records, history, requests, faults>>

\* aml.open for the tenant
OpenForTenant(h, hit) ==
    /\ At(h, "open tenant")
    /\ Open("tenant", hit)
    /\ GoTo(h, "submit")
    /\ UNCHANGED <<orders, mandates, envelopes, lease, history, requests, faults>>

\* rli.submit
Submit(h) ==
    /\ At(h, "submit")
    /\ lease' = [lease EXCEPT !.submissions = @ + 1]
    /\ GoTo(h, "record")
    /\ UNCHANGED <<orders, mandates, envelopes, cases, history, requests, faults>>

\* setRegistration
SetRegistration(h) ==
    /\ At(h, "record")
    /\ lease' = [lease EXCEPT !.protocollo = TRUE]
    /\ End(h)
    /\ UNCHANGED <<orders, mandates, envelopes, cases, history, requests, faults>>

-----------------------------------------------------------------------------
\* Faults

\* The process dies, or a statement or a call fails: the request ends, a webhook unanswered.
Die(h) ==
    /\ ~At(h, "idle")
    /\ faults < MaxFaults
    /\ faults' = faults + 1
    /\ End(h)
    /\ UNCHANGED <<records, history, requests>>

\* openForMandate fails, which onSignatureCompleted swallows.
OpenForMandateThrows(h) ==
    /\ At(h, "open case")
    /\ faults < MaxFaults
    /\ faults' = faults + 1
    /\ Answer(h)
    /\ UNCHANGED <<orders, mandates, cases, lease, history, requests>>

-----------------------------------------------------------------------------
Step(h) ==
    \/ InsertOrder(h)
    \/ CreateEnvelope(h) \/ AttachEnvelope(h) \/ SetSent(h)
    \/ FindMandate(h) \/ MarkSigned(h) \/ SetSigned(h)
    \/ \E hit \in BOOLEAN : OpenForMandate(h, hit)
    \/ SetKycStatus(h)
    \/ CheckSubject(h) \/ \E hit \in BOOLEAN : OpenForTenant(h, hit)
    \/ Submit(h) \/ SetRegistration(h)

Next ==
    \/ \E m \in Mandates, canProceed \in BOOLEAN : CreateMandate(m, canProceed)
    \/ \E subject \in Subjects \ {"owner"}, hit \in BOOLEAN : OpenByHand(subject, hit)
    \/ \E e \in DOMAIN envelopes : Sign(e)
    \/ \E h \in Handlers :
          \/ \E party \in Parties : RequestOrder(h, party)
          \/ \E m \in Mandates : RequestSignature(h, m)
          \/ \E e \in DOMAIN envelopes : CallWebhook(h, e)
          \/ \E n \in DOMAIN cases, event \in DOMAIN KycTransitions : RequestAdvance(h, n, event)
          \/ \E tenant \in BOOLEAN : RequestRegistration(h, tenant)
          \/ Step(h) \/ Die(h) \/ OpenForMandateThrows(h)

Spec == Init /\ [][Next]_vars

\* A handler that runs goes on, and the provider calls again for every signature that is not
\* answered.  (That every handler is busy is an effect of the bound on handlers: hence SF.)
Fairness ==
    /\ \A h \in Handlers : WF_vars(Step(h))
    /\ \A e \in 1 .. MaxEnvelopes : SF_vars(\E h \in Handlers : CallWebhook(h, e))

FairSpec == Spec /\ Fairness

-----------------------------------------------------------------------------
\* Properties

MandateType == [status : {"ABSENT", "DRAFT", "SENT", "SIGNED"}, canProceed : BOOLEAN,
                envelope : {NoEnvelope} \cup DOMAIN envelopes, signedAt : BOOLEAN]
CaseType == [subject : Subjects, mustEscalate : BOOLEAN,
             status : {"OPEN", "VERIFIED", "ESCALATED", "CLEARED"}, escalated : BOOLEAN]
HandlerType ==
    {Idle}
    \cup [at : {"order"}, party : Parties, seen : SUBSET Parties]
    \cup [at : {"envelope"}, mandate : Mandates, envelope : {NoEnvelope}]
    \cup [at : {"attach", "sent"}, mandate : Mandates, envelope : DOMAIN envelopes]
    \cup [at : {"find"}, envelope : DOMAIN envelopes]
    \cup [at : {"mark", "signed", "open case"}, envelope : DOMAIN envelopes, mandate : Mandates]
    \cup [at : {"advance"}, case : DOMAIN cases, to : {"OPEN", "VERIFIED", "ESCALATED", "CLEARED"}]
    \cup [at : {"check", "open tenant", "submit", "record"}, tenant : BOOLEAN,
          left : {<<>>, <<"lease">>, <<"tenant">>, <<"lease", "tenant">>, <<"property", "lease">>,
                  <<"property", "lease", "tenant">>},
          standing : SUBSET DOMAIN cases]

\* Every variable keeps its type, and what was sent has an envelope, what was signed a date.
TypeOK ==
    /\ orders \in Seq(Parties)
    /\ mandates \in [Mandates -> MandateType]
    /\ envelopes \in Seq([state : {"open", "signed", "answered"}, mandate : Mandates])
    /\ cases \in Seq(CaseType)
    /\ lease \in [protocollo : BOOLEAN, submissions : Nat]
    /\ handlers \in [Handlers -> HandlerType]
    /\ raced \in BOOLEAN /\ contended \subseteq Mandates /\ doubled \in BOOLEAN
    /\ requests \in 0 .. MaxRequests
    /\ faults \in 0 .. MaxFaults
    /\ \A m \in Mandates :
          /\ mandates[m].status \in {"SENT", "SIGNED"} =>
                mandates[m].canProceed /\ mandates[m].envelope # NoEnvelope
          /\ mandates[m].status = "SIGNED" => mandates[m].signedAt

\* One property, one side (R2): paid orders of the owner and of a buyer exclude each other,
\* unless an order was inserted on an outdated check.
OneSide == ~raced => Cardinality(PaidParties) <= 1

\* A mandate goes from DRAFT to SENT to SIGNED and stays there, although its status is written
\* by id, unless two signature requests of it ran at once.
MandatesFollowTransitions ==
    [][\A m \in Mandates \ contended :
          \/ mandates'[m].status = mandates[m].status
          \/ mandates[m] = NoMandate
          \/ <<mandates[m].status, mandates'[m].status>> \in MandateTransitions]_vars

\* A signature is never lost: a mandate whose envelope was signed is SIGNED in the end and its
\* owner has a KYC case, also when the provider calls before requestSignature is through, and
\* however its calls overlap.  Faults are excluded (a screening that fails is swallowed), and
\* envelopes that a second request replaced.
SignedIsRecorded ==
    \A m \in Mandates :
        (\E e \in DOMAIN envelopes : envelopes[e] = Form("signed", m)) ~>
            \/ /\ mandates[m].status = "SIGNED"
               /\ \E n \in DOMAIN cases : cases[n].subject = "owner"
            \/ m \in contended
            \/ faults > 0

EscalatedFirst ==
    \A n \in DOMAIN cases :
        cases[n].mustEscalate /\ cases[n].status \in {"VERIFIED", "CLEARED"} => cases[n].escalated
BlockedByEscalation ==
    \A h \in Handlers : At(h, "submit") =>
        \A n \in handlers[h].standing :
            /\ cases[n].subject \notin {"property", "lease"}
            /\ cases[n].subject = "tenant" => ~handlers[h].tenant
RegisteredOnce == ~doubled /\ faults = 0 => lease.submissions <= 1

\* Nothing gets round an escalation: a case with a sanctions hit is never VERIFIED or CLEARED
\* before it was ESCALATED, whatever events race; a lease is not sent to the RLI while a case of
\* the property, the lease or the tenant has been ESCALATED since before the request; and it is
\* sent once, unless two registrations of it ran at once or one died before it could record the
\* protocollo.
RegistrationIsCleared == EscalatedFirst /\ BlockedByEscalation /\ RegisteredOnce

\* "Registration is blocked while any relevant subject has an unresolved ESCALATED case"
\* (docs/phase-12.md), the owner, whose case the mandate opened, among them.
OwnerEscalationBlocks ==
    \A h \in Handlers : At(h, "submit") =>
        \A n \in handlers[h].standing : cases[n].subject # "owner"

=============================================================================
