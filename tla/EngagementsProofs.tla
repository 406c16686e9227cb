-------------------------- MODULE EngagementsProofs --------------------------
(*****************************************************************************)
(* Proofs about Engagements, for every set of mandates and handlers and all  *)
(* bounds.                                                                   *)
(*****************************************************************************)
EXTENDS Engagements, FiniteSetTheorems, SequenceTheorems, TLAPS

SignaturePlaces == {"envelope", "attach", "sent"}
SigningPlaces == {"mark", "signed", "open case"}
RegistrationPlaces == {"check", "open tenant", "submit", "record"}

\* The subjects a registration is to look up, and those it has still to look up.
Asked(r) == IF r.tenant THEN {"property", "lease", "tenant"} ELSE {"property", "lease"}
Pending(r) == {r.left[n] : n \in DOMAIN r.left}

\* What a handler r relies on, where the mandates are ms and the cases cs: an order was checked
\* against the orders it saw; a mandate keeps what was found out about it; whoever is about to
\* verify or clear a case with a sanctions hit saw it escalated; and the subjects a
\* registration has looked up had no escalation that stands.
Good(r, ms, cs) ==
    /\ r.at = "order" => r.seen \subseteq {r.party}
    /\ r.at \in SignaturePlaces => ms[r.mandate].canProceed
    /\ r.at = "sent" => ms[r.mandate].envelope # NoEnvelope
    /\ r.at \in SigningPlaces => ms[r.mandate].status \in {"SENT", "SIGNED"}
    /\ r.at = "signed" => ms[r.mandate].signedAt
    /\ r.at = "advance" /\ r.to \in {"VERIFIED", "CLEARED"} /\ cs[r.case].mustEscalate =>
          cs[r.case].escalated
    /\ r.at \in RegistrationPlaces =>
          /\ r.at = "check" <=> r.left # <<>>
          /\ \A n \in r.standing :
                /\ cs[n].status = "ESCALATED"
                /\ cs[n].subject \in Asked(r) => cs[n].subject \in Pending(r)

\* The records have their types, and cases that were escalated say so.
EnvelopeType == [state : {"open", "signed", "answered"}, mandate : Mandates]
MandateOK(m) ==
    /\ mandates[m].status \in {"SENT", "SIGNED"} =>
          mandates[m].canProceed /\ mandates[m].envelope # NoEnvelope
    /\ mandates[m].status = "SIGNED" => mandates[m].signedAt
CaseOK(c) ==
    /\ c.mustEscalate /\ c.status \in {"VERIFIED", "CLEARED"} => c.escalated
    /\ c.status = "ESCALATED" => c.escalated
MandatesOK == mandates \in [Mandates -> MandateType] /\ \A m \in Mandates : MandateOK(m)
CasesOK == cases \in Seq(CaseType) /\ \A n \in DOMAIN cases : CaseOK(cases[n])
RestOK ==
    /\ orders \in Seq(Parties)
    /\ envelopes \in Seq(EnvelopeType)
    /\ lease \in [protocollo : BOOLEAN, submissions : Nat]
    /\ raced \in BOOLEAN /\ contended \subseteq Mandates /\ doubled \in BOOLEAN
    /\ requests \in 0 .. MaxRequests
    /\ faults \in 0 .. MaxFaults

Inv ==
    /\ RestOK /\ MandatesOK /\ CasesOK
    /\ handlers \in [Handlers -> HandlerType]
    /\ \A h \in Handlers : Good(handlers[h], mandates, cases)

LEMMA InvTyped == Inv => TypeOK
BY DEF Inv, RestOK, MandatesOK, CasesOK, MandateOK, EnvelopeType, TypeOK

LEMMA InitInv == Init => Inv
<1> SUFFICES ASSUME Init PROVE Inv
  OBVIOUS
<1>1. RestOK
  <2>1. 0 \in 0 .. MaxRequests /\ 0 \in 0 .. MaxFaults
    BY EngagementsAssumption
  <2>2. lease \in [protocollo : BOOLEAN, submissions : Nat]
    BY DEF Init
  <2> QED BY <2>1, <2>2, EmptySeq DEF Init, RestOK
<1>2. MandatesOK /\ CasesOK
  BY DEF Init, MandatesOK, MandateType, MandateOK, NoMandate, CasesOK
<1>3. handlers \in [Handlers -> HandlerType]
  BY DEF Init, HandlerType
<1>4. \A h \in Handlers : Good(handlers[h], mandates, cases)
  BY DEF Init, Good, Idle, SignaturePlaces, SigningPlaces, RegistrationPlaces
<1> QED BY <1>1, <1>2, <1>3, <1>4 DEF Inv

-----------------------------------------------------------------------------
\* The kinds of handlers.
Lefts == {<<>>, <<"lease">>, <<"tenant">>, <<"lease", "tenant">>, <<"property", "lease">>,
          <<"property", "lease", "tenant">>}
OrderHandler == [at : {"order"}, party : Parties, seen : SUBSET Parties]
RequestHandler == [at : {"envelope"}, mandate : Mandates, envelope : {NoEnvelope}]
SignatureHandler == [at : {"attach", "sent"}, mandate : Mandates, envelope : DOMAIN envelopes]
FindHandler == [at : {"find"}, envelope : DOMAIN envelopes]
SigningHandler == [at : SigningPlaces, envelope : DOMAIN envelopes, mandate : Mandates]
AdvanceHandler ==
    [at : {"advance"}, case : DOMAIN cases, to : {"OPEN", "VERIFIED", "ESCALATED", "CLEARED"}]
RegistrationHandler ==
    [at : RegistrationPlaces, tenant : BOOLEAN, left : Lefts, standing : SUBSET DOMAIN cases]

LEMMA HandlerKinds ==
    HandlerType = {Idle} \cup OrderHandler \cup RequestHandler \cup SignatureHandler
                  \cup FindHandler \cup SigningHandler \cup AdvanceHandler \cup RegistrationHandler
BY DEF HandlerType, OrderHandler, RequestHandler, SignatureHandler, FindHandler, SigningHandler,
       AdvanceHandler, RegistrationHandler, SigningPlaces, RegistrationPlaces, Lefts

\* The place of a handler tells its kind.
LEMMA Shape ==
    ASSUME NEW r \in HandlerType
    PROVE  /\ r.at = "order" => r \in OrderHandler
           /\ r.at = "envelope" => r \in RequestHandler
           /\ r.at \in {"attach", "sent"} => r \in SignatureHandler
           /\ r.at = "find" => r \in FindHandler
           /\ r.at \in SigningPlaces => r \in SigningHandler
           /\ r.at = "advance" => r \in AdvanceHandler
           /\ r.at \in RegistrationPlaces => r \in RegistrationHandler
           /\ "standing" \in DOMAIN r <=> r.at \in RegistrationPlaces
<1> USE DEF SigningPlaces, RegistrationPlaces
<1>1. CASE r = Idle
  BY <1>1 DEF Idle
<1>2. CASE r \in OrderHandler
  BY <1>2 DEF OrderHandler
<1>3. CASE r \in RequestHandler
  BY <1>3 DEF RequestHandler
<1>4. CASE r \in SignatureHandler
  BY <1>4 DEF SignatureHandler
<1>5. CASE r \in FindHandler
  BY <1>5 DEF FindHandler
<1>6. CASE r \in SigningHandler
  BY <1>6 DEF SigningHandler
<1>7. CASE r \in AdvanceHandler
  BY <1>7 DEF AdvanceHandler
<1>8. CASE r \in RegistrationHandler
  BY <1>8 DEF RegistrationHandler
<1> QED BY <1>1, <1>2, <1>3, <1>4, <1>5, <1>6, <1>7, <1>8, HandlerKinds

\* Handlers keep their type when envelopes and cases are added.
LEMMA TypeGrows ==
    ASSUME DOMAIN envelopes \subseteq DOMAIN envelopes', DOMAIN cases \subseteq DOMAIN cases'
    PROVE  HandlerType \subseteq HandlerType'
<1> DEFINE E == DOMAIN envelopes  F == DOMAIN envelopes'  C == DOMAIN cases  D == DOMAIN cases'
<1>1. E \subseteq F /\ C \subseteq D
  OBVIOUS
<1> HIDE DEF E, F, C, D
<1>2. SUBSET C \subseteq SUBSET D
  BY <1>1
<1> SUFFICES ASSUME NEW r \in HandlerType PROVE r \in HandlerType'
  OBVIOUS
<1> QED BY <1>1, <1>2 DEF HandlerType, E, F, C, D

\* What a handler relies on outlives the writes of the others.
LEMMA GoodKept ==
    ASSUME Inv,
           \A m \in Mandates :
              /\ mandates[m].canProceed => mandates'[m].canProceed
              /\ mandates[m].envelope # NoEnvelope => mandates'[m].envelope # NoEnvelope
              /\ mandates[m].signedAt => mandates'[m].signedAt
              /\ mandates[m].status \in {"SENT", "SIGNED"} => mandates'[m].status \in {"SENT", "SIGNED"},
           \A n \in DOMAIN cases :
              /\ cases'[n].subject = cases[n].subject
              /\ cases'[n].mustEscalate = cases[n].mustEscalate
              /\ cases[n].escalated => cases'[n].escalated
              /\ cases[n].status = "ESCALATED" => cases'[n].status = "ESCALATED"
    PROVE  \A r \in HandlerType : Good(r, mandates, cases) => Good(r, mandates', cases')
<1> SUFFICES ASSUME NEW r \in HandlerType, Good(r, mandates, cases)
             PROVE  Good(r, mandates', cases')
  OBVIOUS
<1>1. CASE r.at \in SignaturePlaces \cup SigningPlaces
  BY <1>1, Shape DEF Good, SignaturePlaces, SigningPlaces, RegistrationPlaces,
                     RequestHandler, SignatureHandler, SigningHandler
<1>2. CASE r.at = "advance"
  BY <1>2, Shape DEF Good, SignaturePlaces, SigningPlaces, RegistrationPlaces, AdvanceHandler
<1>3. CASE r.at \in RegistrationPlaces
  <2>1. r \in RegistrationHandler /\ r.standing \subseteq DOMAIN cases
    BY <1>3, Shape DEF RegistrationHandler
  <2> QED BY <1>3, <2>1 DEF Good, SignaturePlaces, SigningPlaces, RegistrationPlaces
<1> QED BY <1>1, <1>2, <1>3 DEF Good, SignaturePlaces, SigningPlaces

\* A step that only adds and moves on one handler, if any, preserves the invariant.
LEMMA Combine ==
    ASSUME Inv, RestOK', MandatesOK', CasesOK',
           DOMAIN envelopes \subseteq DOMAIN envelopes', DOMAIN cases \subseteq DOMAIN cases',
           \A r \in HandlerType : Good(r, mandates, cases) => Good(r, mandates', cases'),
           \/ handlers' = handlers
           \/ \E h \in Handlers, r \in HandlerType' :
                 Good(r, mandates', cases') /\ handlers' = [handlers EXCEPT ![h] = r]
    PROVE  Inv'
<1>1. HandlerType \subseteq HandlerType'
  BY TypeGrows
<1>2. handlers' \in [Handlers -> HandlerType']
  BY <1>1 DEF Inv
<1>3. \A h \in Handlers : Good(handlers'[h], mandates', cases')
  BY DEF Inv
<1> QED BY <1>2, <1>3 DEF Inv

\* The usual case: a step that changes a handler and leaves the records alone.
LEMMA MoveOn ==
    ASSUME Inv, RestOK', UNCHANGED <<mandates, cases, envelopes>>,
           \E h \in Handlers, r \in HandlerType :
               Good(r, mandates, cases) /\ handlers' = [handlers EXCEPT ![h] = r]
    PROVE  Inv'
<1>1. MandatesOK' /\ CasesOK' /\ HandlerType' = HandlerType
  BY DEF Inv, MandatesOK, MandateOK, MandateType, CasesOK, HandlerType
<1> QED BY <1>1, Combine

\* Ending a handler.
LEMMA IdleGood ==
    /\ Idle \in HandlerType
    /\ \A ms, cs : Good(Idle, ms, cs)
BY DEF HandlerType, Good, Idle, SignaturePlaces, SigningPlaces, RegistrationPlaces

\* A write that takes nothing back from a mandate.
LEMMA WriteMandate ==
    ASSUME Inv, UNCHANGED <<orders, envelopes, cases, lease, raced, contended, doubled>>, RestOK',
           NEW m \in Mandates, NEW x \in MandateType, mandates' = [mandates EXCEPT ![m] = x],
           x.status \in {"SENT", "SIGNED"} => x.canProceed /\ x.envelope # NoEnvelope,
           x.status = "SIGNED" => x.signedAt,
           mandates[m].canProceed => x.canProceed,
           mandates[m].envelope # NoEnvelope => x.envelope # NoEnvelope,
           mandates[m].signedAt => x.signedAt,
           mandates[m].status \in {"SENT", "SIGNED"} => x.status \in {"SENT", "SIGNED"},
           \/ handlers' = handlers
           \/ \E h \in Handlers, r \in HandlerType :
                 Good(r, mandates', cases) /\ handlers' = [handlers EXCEPT ![h] = r]
    PROVE  Inv'
<1>1. /\ mandates'[m] = x
      /\ \A n \in Mandates \ {m} : mandates'[n] = mandates[n]
  BY DEF Inv, MandatesOK
<1>2. MandateType' = MandateType /\ HandlerType' = HandlerType
  BY DEF MandateType, HandlerType
<1>3. MandatesOK'
  BY <1>1, <1>2 DEF Inv, MandatesOK, MandateOK
<1>4. CasesOK'
  BY DEF Inv, CasesOK
<1>5. \A r \in HandlerType : Good(r, mandates, cases) => Good(r, mandates', cases')
  BY <1>1, GoodKept DEF Inv, MandatesOK
<1> QED BY <1>2, <1>3, <1>4, <1>5, Combine

\* The mandates keep their type when envelopes are added.
LEMMA MandatesKept ==
    ASSUME Inv, UNCHANGED mandates, DOMAIN envelopes \subseteq DOMAIN envelopes'
    PROVE  MandatesOK'
<1>1. MandateType \subseteq MandateType'
  BY DEF MandateType
<1> QED BY <1>1 DEF Inv, MandatesOK, MandateOK

\* A case that is opened.
LEMMA OpenCase ==
    ASSUME Inv, NEW subject \in Subjects, NEW hit \in BOOLEAN, Open(subject, hit), UNCHANGED mandates
    PROVE  /\ CasesOK'
           /\ DOMAIN cases \subseteq DOMAIN cases'
           /\ \A n \in DOMAIN cases : cases'[n] = cases[n]
           /\ \A r \in HandlerType : Good(r, mandates, cases) => Good(r, mandates', cases')
<1>1. cases \in Seq(CaseType) /\ Case(subject, hit) \in CaseType
  BY DEF Inv, CasesOK, Case, CaseType
<1>2. /\ cases' \in Seq(CaseType)
      /\ DOMAIN cases = 1 .. Len(cases) /\ Len(cases) \in Nat
      /\ DOMAIN cases' = 1 .. Len(cases) + 1
      /\ \A n \in 1 .. Len(cases) : cases'[n] = cases[n]
      /\ cases'[Len(cases) + 1] = Case(subject, hit)
  BY <1>1, AppendProperties, LenProperties DEF Open
<1>3. CaseOK(Case(subject, hit))
  BY DEF CaseOK, Case
<1>4. CasesOK'
  BY <1>2, <1>3 DEF Inv, CasesOK
<1>5. \A r \in HandlerType : Good(r, mandates, cases) => Good(r, mandates', cases')
  BY <1>2, GoodKept
<1> QED BY <1>2, <1>4, <1>5

\* An envelope that is answered or signed keeps its place.
LEMMA MarkEnvelope ==
    ASSUME Inv, NEW e \in DOMAIN envelopes, NEW state \in {"signed", "answered"},
           envelopes' = [envelopes EXCEPT ![e].state = state]
    PROVE  /\ envelopes' \in Seq(EnvelopeType)
           /\ DOMAIN envelopes' = DOMAIN envelopes
<1>1. envelopes \in Seq(EnvelopeType)
  BY DEF Inv, RestOK
<1>2. DOMAIN envelopes = 1 .. Len(envelopes) /\ envelopes[e] \in EnvelopeType
  BY <1>1, LenProperties, ElementOfSeq
<1>3. [envelopes[e] EXCEPT !.state = state] \in EnvelopeType
  BY <1>2 DEF EnvelopeType
<1>4. envelopes' = [envelopes EXCEPT ![e] = [envelopes[e] EXCEPT !.state = state]]
  OBVIOUS
<1> QED BY <1>1, <1>2, <1>3, <1>4, ExceptSeq, LenProperties

\* Answering a webhook.
LEMMA AnswerInv ==
    ASSUME Inv, NEW h \in Handlers, handlers[h].envelope \in DOMAIN envelopes, Answer(h),
           UNCHANGED mandates,
           UNCHANGED cases \/ \E hit \in BOOLEAN : Open("owner", hit),
           UNCHANGED <<orders, lease, raced, contended, doubled>>,
           requests' \in 0 .. MaxRequests, faults' \in 0 .. MaxFaults
    PROVE  Inv'
<1>1. envelopes' \in Seq(EnvelopeType) /\ DOMAIN envelopes' = DOMAIN envelopes
  BY MarkEnvelope DEF Answer
<1>2. RestOK'
  BY <1>1 DEF Inv, RestOK
<1>3. MandatesOK'
  BY <1>1, MandatesKept
<1>4. CASE UNCHANGED cases
  <2>1. CasesOK'
    BY <1>4 DEF Inv, CasesOK
  <2>2. \A r \in HandlerType : Good(r, mandates, cases) => Good(r, mandates', cases')
    BY <1>4
  <2>3. HandlerType \subseteq HandlerType'
    BY <1>1, <1>4, TypeGrows
  <2> QED BY <1>1, <1>2, <1>3, <1>4, <2>1, <2>2, <2>3, IdleGood, Combine DEF Answer, End
<1>5. ASSUME NEW hit \in BOOLEAN, Open("owner", hit) PROVE Inv'
  <2>1. /\ CasesOK' /\ DOMAIN cases \subseteq DOMAIN cases'
        /\ \A r \in HandlerType : Good(r, mandates, cases) => Good(r, mandates', cases')
    BY <1>5, OpenCase DEF Subjects
  <2>2. HandlerType \subseteq HandlerType'
    BY <1>1, <2>1, TypeGrows
  <2> QED BY <1>1, <1>2, <1>3, <2>1, <2>2, IdleGood, Combine DEF Answer, End
<1> QED BY <1>4, <1>5

-----------------------------------------------------------------------------
\* Requests

LEMMA RequestsCount ==
    ASSUME Inv, requests < MaxRequests, requests' = requests + 1
    PROVE  requests' \in 0 .. MaxRequests
BY EngagementsAssumption DEF Inv, RestOK

LEMMA OrderInv ==
    ASSUME Inv, NEW h \in Handlers, NEW party \in Parties, RequestOrder(h, party)
    PROVE  Inv'
<1> DEFINE r == [at |-> "order", party |-> party, seen |-> PaidParties]
<1>1. PaidParties \subseteq Parties
  BY LenProperties DEF PaidParties, Inv, RestOK
<1>2. r \in OrderHandler /\ Good(r, mandates, cases)
  BY <1>1 DEF OrderHandler, Good, SignaturePlaces, SigningPlaces, RegistrationPlaces,
              RequestOrder, assertOneSidePerProperty
<1>3. r \in HandlerType
  BY <1>2, HandlerKinds
<1>4. RestOK' /\ UNCHANGED <<mandates, cases, envelopes>>
  BY RequestsCount DEF RequestOrder, Begin, records, history, Inv, RestOK
<1> QED BY <1>2, <1>3, <1>4, MoveOn DEF RequestOrder, Begin

LEMMA SignatureRequestInv ==
    ASSUME Inv, NEW h \in Handlers, NEW m \in Mandates, RequestSignature(h, m)
    PROVE  Inv'
<1> DEFINE r == [at |-> "envelope", mandate |-> m, envelope |-> NoEnvelope]
<1>1. r \in RequestHandler /\ Good(r, mandates, cases)
  BY DEF RequestHandler, Good, SignaturePlaces, SigningPlaces, RegistrationPlaces, RequestSignature
<1>2. r \in HandlerType
  BY <1>1, HandlerKinds
<1>3. RestOK' /\ UNCHANGED <<mandates, cases, envelopes>>
  BY RequestsCount DEF RequestSignature, Begin, records, Inv, RestOK
<1> QED BY <1>1, <1>2, <1>3, MoveOn DEF RequestSignature, Begin

LEMMA WebhookInv ==
    ASSUME Inv, NEW h \in Handlers, NEW e \in DOMAIN envelopes, CallWebhook(h, e)
    PROVE  Inv'
<1> DEFINE r == [at |-> "find", envelope |-> e]
<1>1. r \in FindHandler /\ Good(r, mandates, cases)
  BY DEF FindHandler, Good, SignaturePlaces, SigningPlaces, RegistrationPlaces
<1>2. r \in HandlerType
  BY <1>1, HandlerKinds
<1>3. RestOK' /\ UNCHANGED <<mandates, cases, envelopes>>
  BY DEF CallWebhook, records, history, Inv, RestOK
<1> QED BY <1>1, <1>2, <1>3, MoveOn DEF CallWebhook

\* Whoever may verify a case has no sanctions hit before him, or an escalation behind him.
LEMMA AdvanceInv ==
    ASSUME Inv, NEW h \in Handlers, NEW n \in DOMAIN cases, NEW event \in DOMAIN KycTransitions,
           RequestAdvance(h, n, event)
    PROVE  Inv'
<1> DEFINE to == KycTransitions[event].to
           r == [at |-> "advance", case |-> n, to |-> to]
<1>1. /\ to \in {"OPEN", "VERIFIED", "ESCALATED", "CLEARED"}
      /\ nextKycStatus(cases[n], event)
      /\ to = "VERIFIED" => ~cases[n].mustEscalate
      /\ to = "CLEARED" => cases[n].status \in {"VERIFIED", "ESCALATED"}
  BY DEF KycTransitions, RequestAdvance, nextKycStatus
<1>2. CaseOK(cases[n])
  BY DEF Inv, CasesOK
<1> HIDE DEF to
<1>3. r \in AdvanceHandler /\ Good(r, mandates, cases)
  BY <1>1, <1>2 DEF AdvanceHandler, Good, CaseOK, SignaturePlaces, SigningPlaces, RegistrationPlaces
<1>4. r \in HandlerType
  BY <1>3, HandlerKinds
<1>5. RestOK' /\ UNCHANGED <<mandates, cases, envelopes>>
  BY RequestsCount DEF RequestAdvance, Begin, records, history, Inv, RestOK
<1> QED BY <1>3, <1>4, <1>5, MoveOn DEF RequestAdvance, Begin, to

LEMMA RegistrationRequestInv ==
    ASSUME Inv, NEW h \in Handlers, NEW tenant \in BOOLEAN, RequestRegistration(h, tenant)
    PROVE  Inv'
<1> DEFINE standing == {n \in DOMAIN cases : IsEscalated(n)}
           left == checkedSubjects(tenant)
           r == [at |-> "check", tenant |-> tenant, left |-> left, standing |-> standing]
<1>1. left \in Lefts /\ left # <<>> /\ {left[n] : n \in DOMAIN left} = Asked(r)
  <2>1. CASE tenant
    BY <2>1 DEF checkedSubjects, Lefts, Asked
  <2>2. CASE ~tenant
    BY <2>2 DEF checkedSubjects, Lefts, Asked
  <2> QED BY <2>1, <2>2
<1>2. \A n \in standing : cases[n].status = "ESCALATED"
  BY DEF IsEscalated
<1> HIDE DEF left, standing
<1>3. standing \subseteq DOMAIN cases
  BY DEF standing
<1>4. r \in RegistrationHandler /\ Good(r, mandates, cases)
  BY <1>1, <1>2, <1>3 DEF RegistrationHandler, Good, SignaturePlaces, SigningPlaces,
     RegistrationPlaces, Pending
<1>5. r \in HandlerType
  BY <1>4, HandlerKinds
<1>6. RestOK' /\ UNCHANGED <<mandates, cases, envelopes>>
  BY RequestsCount DEF RequestRegistration, Begin, records, Inv, RestOK
<1> QED BY <1>4, <1>5, <1>6, MoveOn DEF RequestRegistration, Begin, left, standing

\* Whoever asks for something other than a write by a running handler.
LEMMA SurroundingsInv ==
    ASSUME Inv
    PROVE  /\ \A m \in Mandates, p \in BOOLEAN : CreateMandate(m, p) => Inv'
           /\ \A s \in Subjects, hit \in BOOLEAN : OpenByHand(s, hit) => Inv'
           /\ \A e \in DOMAIN envelopes : Sign(e) => Inv'
           /\ \A h \in Handlers : Die(h) => Inv'
<1>1. ASSUME NEW m \in Mandates, NEW p \in BOOLEAN, CreateMandate(m, p) PROVE Inv'
  <2> DEFINE x == [mandates[m] EXCEPT !.status = "DRAFT", !.canProceed = p]
  <2>1. x \in MandateType /\ x.status = "DRAFT" /\ mandates[m] = NoMandate
        /\ mandates' = [mandates EXCEPT ![m] = x]
    BY <1>1 DEF CreateMandate, Inv, MandatesOK, MandateType, NoMandate
  <2>2. RestOK'
    BY <1>1 DEF CreateMandate, history, Inv, RestOK
  <2> HIDE DEF x
  <2>3. /\ mandates[m].status = "ABSENT" /\ mandates[m].envelope = NoEnvelope
        /\ ~mandates[m].canProceed /\ ~mandates[m].signedAt
    BY <2>1 DEF NoMandate
  <2>4. UNCHANGED <<orders, envelopes, cases, lease, raced, contended, doubled, handlers>>
    BY <1>1 DEF CreateMandate, history
  <2> QED BY <2>1, <2>2, <2>3, <2>4, WriteMandate
<1>2. ASSUME NEW s \in Subjects, NEW hit \in BOOLEAN, OpenByHand(s, hit) PROVE Inv'
  <2>1. /\ CasesOK' /\ DOMAIN cases \subseteq DOMAIN cases'
        /\ \A r \in HandlerType : Good(r, mandates, cases) => Good(r, mandates', cases')
    BY <1>2, OpenCase DEF OpenByHand
  <2>2. RestOK'
    BY <1>2, RequestsCount DEF OpenByHand, history, Inv, RestOK
  <2>3. MandatesOK' /\ UNCHANGED <<handlers, envelopes>>
    BY <1>2, MandatesKept DEF OpenByHand
  <2> QED BY <2>1, <2>2, <2>3, Combine
<1>3. ASSUME NEW e \in DOMAIN envelopes, Sign(e) PROVE Inv'
  <2>1. envelopes' \in Seq(EnvelopeType) /\ DOMAIN envelopes' = DOMAIN envelopes
    BY <1>3, MarkEnvelope DEF Sign
  <2>2. RestOK'
    BY <1>3, <2>1 DEF Sign, history, Inv, RestOK
  <2>3. MandatesOK' /\ CasesOK' /\ UNCHANGED <<handlers, cases, mandates>>
    BY <1>3, <2>1, MandatesKept DEF Sign, Inv, CasesOK
  <2> QED BY <2>1, <2>2, <2>3, Combine
<1>4. ASSUME NEW h \in Handlers, Die(h) PROVE Inv'
  <2>1. RestOK' /\ UNCHANGED <<mandates, cases, envelopes>>
    BY <1>4, EngagementsAssumption DEF Die, records, history, Inv, RestOK
  <2> QED BY <1>4, <2>1, IdleGood, MoveOn DEF Die, End
<1> QED BY <1>1, <1>2, <1>3, <1>4

-----------------------------------------------------------------------------
\* Handlers that run

LEMMA InsertOrderInv ==
    ASSUME Inv, NEW h \in Handlers, InsertOrder(h)
    PROVE  Inv'
<1>1. handlers[h].party \in Parties
  BY Shape DEF InsertOrder, At, Inv, OrderHandler
<1>2. orders' \in Seq(Parties)
  BY <1>1, AppendProperties DEF InsertOrder, Inv, RestOK
<1>3. RestOK' /\ UNCHANGED <<mandates, cases, envelopes>>
  BY <1>2 DEF InsertOrder, Inv, RestOK
<1> QED BY <1>3, IdleGood, MoveOn DEF InsertOrder, End

LEMMA CreateEnvelopeInv ==
    ASSUME Inv, NEW h \in Handlers, CreateEnvelope(h)
    PROVE  Inv'
<1> DEFINE r == handlers[h]
           new == [r EXCEPT !.at = "attach", !.envelope = Len(envelopes) + 1]
<1>1. r \in RequestHandler /\ Good(r, mandates, cases)
  BY Shape DEF CreateEnvelope, At, Inv
<1>2. envelopes \in Seq(EnvelopeType) /\ Form("open", r.mandate) \in EnvelopeType
  BY <1>1 DEF Inv, RestOK, RequestHandler, Form, EnvelopeType
<1>3. /\ envelopes' \in Seq(EnvelopeType)
      /\ DOMAIN envelopes \subseteq DOMAIN envelopes'
      /\ Len(envelopes) + 1 \in DOMAIN envelopes'
  <2>1. envelopes' \in Seq(EnvelopeType) /\ Len(envelopes') = Len(envelopes) + 1
    BY <1>2, AppendProperties DEF CreateEnvelope
  <2>2. Len(envelopes) \in Nat /\ DOMAIN envelopes = 1 .. Len(envelopes)
        /\ DOMAIN envelopes' = 1 .. Len(envelopes')
    BY <1>2, <2>1, LenProperties
  <2> QED BY <2>1, <2>2
<1>4. /\ new \in [at : {"attach", "sent"}, mandate : Mandates, envelope : DOMAIN envelopes']
      /\ new.at = "attach" /\ new.mandate = r.mandate
  BY <1>1, <1>3 DEF RequestHandler
<1>5. Good(new, mandates, cases)
  BY <1>1, <1>4 DEF Good, RequestHandler, SignaturePlaces, SigningPlaces, RegistrationPlaces
<1>6. new \in HandlerType'
  BY <1>4 DEF HandlerType
<1>7. RestOK' /\ MandatesOK' /\ CasesOK' /\ UNCHANGED <<mandates, cases>>
  BY <1>3, MandatesKept DEF CreateEnvelope, history, Inv, RestOK, CasesOK
<1> QED BY <1>3, <1>5, <1>6, <1>7, Combine DEF CreateEnvelope

LEMMA AttachEnvelopeInv ==
    ASSUME Inv, NEW h \in Handlers, AttachEnvelope(h)
    PROVE  Inv'
<1> DEFINE r == handlers[h]  m == r.mandate
           x == [mandates[m] EXCEPT !.envelope = r.envelope]
           new == [r EXCEPT !.at = "sent"]
<1>1. r \in SignatureHandler /\ m \in Mandates /\ Good(r, mandates, cases) /\ r.at = "attach"
  BY Shape DEF AttachEnvelope, At, Inv, SignatureHandler
<1>2. r.envelope # NoEnvelope /\ r.envelope \in DOMAIN envelopes
  BY <1>1, LenProperties DEF SignatureHandler, NoEnvelope, Inv, RestOK
<1>3. mandates[m] \in MandateType /\ MandateOK(m) /\ mandates[m].canProceed
  BY <1>1 DEF Inv, MandatesOK, Good, SignaturePlaces
<1>4. /\ x \in MandateType /\ x.envelope = r.envelope /\ x.status = mandates[m].status
      /\ x.canProceed = mandates[m].canProceed /\ x.signedAt = mandates[m].signedAt
  BY <1>2, <1>3 DEF MandateType
<1>5. /\ mandates' = [mandates EXCEPT ![m] = x]
      /\ handlers' = [handlers EXCEPT ![h] = new]
      /\ UNCHANGED <<orders, envelopes, cases, lease, raced, contended, doubled>>
      /\ RestOK'
  BY DEF AttachEnvelope, GoTo, history, Inv, RestOK
<1>6. new \in SignatureHandler /\ new.at = "sent" /\ new.mandate = m
  BY <1>1 DEF SignatureHandler
<1>7. mandates'[m] = x
  BY <1>1, <1>5 DEF Inv, MandatesOK
<1> HIDE DEF x
<1>8. Good(new, mandates', cases)
  BY <1>2, <1>3, <1>4, <1>6, <1>7 DEF Good, SignaturePlaces, SigningPlaces, RegistrationPlaces
<1>9. new \in HandlerType
  BY <1>6, HandlerKinds
<1> HIDE DEF new
<1> QED BY <1>1, <1>2, <1>3, <1>4, <1>5, <1>8, <1>9, WriteMandate DEF MandateOK

LEMMA SetSentInv ==
    ASSUME Inv, NEW h \in Handlers, SetSent(h)
    PROVE  Inv'
<1> DEFINE r == handlers[h]  m == r.mandate
           x == [mandates[m] EXCEPT !.status = "SENT"]
<1>1. r \in SignatureHandler /\ m \in Mandates /\ Good(r, mandates, cases) /\ r.at = "sent"
  BY Shape DEF SetSent, At, Inv, SignatureHandler
<1>2. /\ mandates[m] \in MandateType /\ mandates[m].canProceed
      /\ mandates[m].envelope # NoEnvelope
  BY <1>1 DEF Inv, MandatesOK, Good, SignaturePlaces
<1>3. /\ x \in MandateType /\ x.envelope = mandates[m].envelope /\ x.status = "SENT"
      /\ x.canProceed = mandates[m].canProceed /\ x.signedAt = mandates[m].signedAt
  BY <1>2 DEF MandateType
<1>4. /\ mandates' = [mandates EXCEPT ![m] = x]
      /\ handlers' = [handlers EXCEPT ![h] = Idle]
      /\ UNCHANGED <<orders, envelopes, cases, lease, raced, contended, doubled>>
      /\ RestOK'
  BY DEF SetSent, End, history, Inv, RestOK
<1> HIDE DEF x
<1> QED BY <1>1, <1>2, <1>3, <1>4, IdleGood, WriteMandate

LEMMA FindMandateInv ==
    ASSUME Inv, NEW h \in Handlers, FindMandate(h)
    PROVE  Inv'
<1>1. handlers[h] \in FindHandler /\ handlers[h].envelope \in DOMAIN envelopes
  BY Shape DEF FindMandate, At, Inv, FindHandler
<1>2. UNCHANGED <<orders, mandates, cases, lease, history, requests, faults>>
  BY DEF FindMandate
<1>3. CASE End(h) /\ UNCHANGED envelopes
  BY <1>2, <1>3, IdleGood, MoveOn DEF End, history, Inv, RestOK
<1>4. CASE Answer(h)
  <2>1. requests' \in 0 .. MaxRequests /\ faults' \in 0 .. MaxFaults
    BY <1>2 DEF Inv, RestOK
  <2> QED BY <1>1, <1>2, <1>4, <2>1, AnswerInv DEF history
<1>5. ASSUME NEW m \in Mandates, mandates[m].status = "SENT", UNCHANGED envelopes,
             handlers' = [handlers EXCEPT ![h] =
                 [at |-> "mark", envelope |-> handlers[h].envelope, mandate |-> m]]
      PROVE  Inv'
  <2> DEFINE new == [at |-> "mark", envelope |-> handlers[h].envelope, mandate |-> m]
  <2>1. new \in SigningHandler /\ Good(new, mandates, cases)
    BY <1>1, <1>5 DEF SigningHandler, Good, SignaturePlaces, SigningPlaces, RegistrationPlaces
  <2>2. new \in HandlerType
    BY <2>1, HandlerKinds
  <2>3. RestOK' /\ UNCHANGED <<mandates, cases, envelopes>>
    BY <1>2, <1>5 DEF history, Inv, RestOK
  <2> QED BY <1>5, <2>1, <2>2, <2>3, MoveOn
<1> QED BY <1>3, <1>4, <1>5 DEF FindMandate

LEMMA SigningInv ==
    ASSUME Inv, NEW h \in Handlers, MarkSigned(h) \/ SetSigned(h)
    PROVE  Inv'
<1> DEFINE r == handlers[h]  m == r.mandate
           to == IF r.at = "mark" THEN "signed" ELSE "open case"
           x == IF r.at = "mark" THEN [mandates[m] EXCEPT !.signedAt = TRUE]
                ELSE [mandates[m] EXCEPT !.status = "SIGNED"]
           new == [r EXCEPT !.at = to]
<1>1. r \in SigningHandler /\ m \in Mandates /\ Good(r, mandates, cases) /\ r.at \in {"mark", "signed"}
  <2>1. r \in HandlerType /\ r.at \in {"mark", "signed"} /\ Good(r, mandates, cases)
    BY DEF MarkSigned, SetSigned, At, Inv
  <2>2. r \in SigningHandler
    BY <2>1, Shape DEF SigningPlaces
  <2> QED BY <2>1, <2>2 DEF SigningHandler
<1>2. /\ mandates[m] \in MandateType /\ MandateOK(m)
      /\ mandates[m].status \in {"SENT", "SIGNED"}
      /\ r.at = "signed" => mandates[m].signedAt
  BY <1>1 DEF Inv, MandatesOK, Good, SigningPlaces
<1>3. /\ x \in MandateType /\ x.envelope = mandates[m].envelope /\ x.signedAt
      /\ x.canProceed = mandates[m].canProceed /\ x.status \in {"SENT", "SIGNED"}
  BY <1>1, <1>2 DEF MandateType
<1>4. /\ mandates' = [mandates EXCEPT ![m] = x]
      /\ handlers' = [handlers EXCEPT ![h] = new]
      /\ UNCHANGED <<orders, envelopes, cases, lease, raced, contended, doubled>>
      /\ RestOK'
  BY DEF MarkSigned, SetSigned, GoTo, At, history, Inv, RestOK
<1>5. new \in SigningHandler /\ new.at \in {"signed", "open case"} /\ new.mandate = m
  BY <1>1 DEF SigningHandler, SigningPlaces
<1>6. mandates'[m] = x
  BY <1>1, <1>4 DEF Inv, MandatesOK
<1> HIDE DEF x, to
<1>7. Good(new, mandates', cases)
  BY <1>2, <1>3, <1>5, <1>6 DEF Good, SignaturePlaces, SigningPlaces, RegistrationPlaces
<1>8. new \in HandlerType
  BY <1>5, HandlerKinds
<1> HIDE DEF new
<1> QED BY <1>1, <1>2, <1>3, <1>4, <1>7, <1>8, WriteMandate DEF MandateOK

\* The owner's case is opened, or cannot be, and the webhook is answered.
LEMMA OpenForMandateInv ==
    ASSUME Inv, NEW h \in Handlers,
           OpenForMandateThrows(h) \/ \E hit \in BOOLEAN : OpenForMandate(h, hit)
    PROVE  Inv'
<1>1. handlers[h].envelope \in DOMAIN envelopes
  BY Shape DEF OpenForMandate, OpenForMandateThrows, At, Inv, SigningHandler, SigningPlaces
<1>2. requests' \in 0 .. MaxRequests /\ faults' \in 0 .. MaxFaults
  <2>1. CASE OpenForMandateThrows(h)
    <3>1. faults < MaxFaults /\ faults' = faults + 1 /\ requests' = requests
      BY <2>1 DEF OpenForMandateThrows
    <3>2. faults \in 0 .. MaxFaults /\ requests \in 0 .. MaxRequests
      BY DEF Inv, RestOK
    <3> QED BY <3>1, <3>2, EngagementsAssumption
  <2>2. ASSUME NEW hit \in BOOLEAN, OpenForMandate(h, hit)
        PROVE  UNCHANGED <<requests, faults>>
    BY <2>2 DEF OpenForMandate
  <2> QED BY <2>1, <2>2 DEF Inv, RestOK
<1> QED BY <1>1, <1>2, AnswerInv DEF OpenForMandate, OpenForMandateThrows, history

-----------------------------------------------------------------------------
\* The status of a case is set, and registrations need not mind the case any more once it is
\* not ESCALATED: a step that changes several handlers.
LEMMA SetKycStatusInv ==
    ASSUME Inv, NEW h \in Handlers, SetKycStatus(h)
    PROVE  Inv'
<1> DEFINE a == handlers[h]  n == a.case  to == a.to
           c == [cases[n] EXCEPT !.status = to, !.escalated = @ \/ to = "ESCALATED"]
<1>1. a \in AdvanceHandler /\ Good(a, mandates, cases) /\ a.at = "advance"
  BY Shape DEF SetKycStatus, At, Inv
<1>2. /\ n \in DOMAIN cases /\ to \in {"OPEN", "VERIFIED", "ESCALATED", "CLEARED"}
      /\ to \in {"VERIFIED", "CLEARED"} /\ cases[n].mustEscalate => cases[n].escalated
  BY <1>1 DEF AdvanceHandler, Good
<1>3. /\ cases \in Seq(CaseType) /\ DOMAIN cases = 1 .. Len(cases)
      /\ \A k \in DOMAIN cases : cases[k] \in CaseType /\ CaseOK(cases[k])
  BY LenProperties, ElementOfSeq DEF Inv, CasesOK
<1>4. /\ c \in CaseType /\ c.subject = cases[n].subject
      /\ c.mustEscalate = cases[n].mustEscalate /\ c.status = to
      /\ c.escalated = (cases[n].escalated \/ to = "ESCALATED")
  BY <1>2, <1>3 DEF CaseType
<1>5. cases' = [cases EXCEPT ![n] = c]
  BY DEF SetKycStatus
<1> HIDE DEF c
<1>6. /\ cases' \in Seq(CaseType) /\ DOMAIN cases' = DOMAIN cases
      /\ cases'[n] = c
      /\ \A k \in DOMAIN cases \ {n} : cases'[k] = cases[k]
  BY <1>2, <1>3, <1>4, <1>5, ExceptSeq, LenProperties
<1>7. CasesOK'
  BY <1>2, <1>3, <1>4, <1>6 DEF CasesOK, CaseOK
<1>8. UNCHANGED <<orders, mandates, envelopes, lease, history, requests, faults>>
  BY DEF SetKycStatus
<1>9. RestOK' /\ MandatesOK'
  BY <1>8, MandatesKept DEF history, Inv, RestOK
<1>10. HandlerType' = HandlerType
  BY <1>6, <1>8 DEF HandlerType
<1>11. ASSUME NEW r \in HandlerType, Good(r, mandates, cases), r.at \notin RegistrationPlaces
       PROVE  Good(r, mandates', cases')
  <2>1. r.at = "advance" => r.case \in DOMAIN cases
    BY Shape DEF AdvanceHandler
  <2> QED BY <1>4, <1>6, <1>8, <1>11, <2>1 DEF Good
<1>12. ASSUME NEW r \in HandlerType, Good(r, mandates, cases), r.at \in RegistrationPlaces
       PROVE  LET s == IF to # "ESCALATED" THEN [r EXCEPT !.standing = @ \ {n}] ELSE r
              IN  s \in HandlerType /\ Good(s, mandates', cases')
  <2> DEFINE s == IF to # "ESCALATED" THEN [r EXCEPT !.standing = @ \ {n}] ELSE r
  <2>1. r \in RegistrationHandler
    BY <1>12, Shape
  <2>2. /\ s \in RegistrationHandler /\ s.at = r.at /\ s.left = r.left /\ s.tenant = r.tenant
        /\ s.standing \subseteq r.standing
        /\ to # "ESCALATED" => n \notin s.standing
        /\ r.standing \subseteq DOMAIN cases
    BY <2>1 DEF RegistrationHandler
  <2> HIDE DEF s
  <2>3. s \in HandlerType /\ Asked(s) = Asked(r) /\ Pending(s) = Pending(r)
    BY <2>2, HandlerKinds DEF Asked, Pending
  <2>4. \A k \in s.standing : cases'[k].status = "ESCALATED" /\ cases'[k].subject = cases[k].subject
    BY <1>4, <1>6, <1>12, <2>2 DEF Good
  <2>5. Good(s, mandates', cases')
    BY <1>12, <2>2, <2>3, <2>4 DEF Good, SignaturePlaces, SigningPlaces, RegistrationPlaces
  <2> QED BY <2>3, <2>5 DEF s
<1>13. \A g \in Handlers :
          /\ handlers'[g] \in HandlerType
          /\ Good(handlers'[g], mandates', cases')
  <2> SUFFICES ASSUME NEW g \in Handlers
               PROVE  handlers'[g] \in HandlerType /\ Good(handlers'[g], mandates', cases')
    OBVIOUS
  <2>1. handlers[g] \in HandlerType /\ Good(handlers[g], mandates, cases)
    BY DEF Inv
  <2>2. "standing" \in DOMAIN handlers[g] <=> handlers[g].at \in RegistrationPlaces
    BY <2>1, Shape
  <2>3. handlers'[g] = IF g = h THEN Idle
                       ELSE IF "standing" \in DOMAIN handlers[g] /\ to # "ESCALATED"
                            THEN [handlers[g] EXCEPT !.standing = @ \ {n}]
                            ELSE handlers[g]
    BY DEF SetKycStatus
  <2>4. CASE g = h
    BY <2>3, <2>4, IdleGood
  <2>5. CASE g # h /\ handlers[g].at \in RegistrationPlaces
    BY <1>12, <2>1, <2>2, <2>3, <2>5
  <2>6. CASE g # h /\ handlers[g].at \notin RegistrationPlaces
    BY <1>11, <2>1, <2>2, <2>3, <2>6
  <2> QED BY <2>4, <2>5, <2>6
<1>14. handlers' \in [Handlers -> HandlerType']
  BY <1>10, <1>13 DEF SetKycStatus
<1> QED BY <1>7, <1>9, <1>13, <1>14 DEF Inv

-----------------------------------------------------------------------------
\* What remains of a list of subjects when its head has been looked up.
LEMMA Remaining ==
    ASSUME NEW left \in Lefts, left # <<>>
    PROVE  /\ Tail(left) \in Lefts
           /\ Tail(left) # <<>> <=> Len(left) > 1
           /\ {left[k] : k \in DOMAIN left} \subseteq
                 {Head(left)} \cup {Tail(left)[k] : k \in DOMAIN Tail(left)}
<1>1. CASE left = <<"lease">>
  BY <1>1 DEF Lefts
<1>2. CASE left = <<"tenant">>
  BY <1>2 DEF Lefts
<1>3. CASE left = <<"lease", "tenant">>
  BY <1>3 DEF Lefts
<1>4. CASE left = <<"property", "lease">>
  BY <1>4 DEF Lefts
<1>5. CASE left = <<"property", "lease", "tenant">>
  BY <1>5 DEF Lefts
<1> QED BY <1>1, <1>2, <1>3, <1>4, <1>5 DEF Lefts

\* A subject that is looked up has no escalation that stands, or the registration ends.
LEMMA CheckSubjectInv ==
    ASSUME Inv, NEW h \in Handlers, CheckSubject(h)
    PROVE  Inv'
<1> DEFINE r == handlers[h]  left == r.left
           at == IF Len(left) > 1 THEN "check" ELSE IF r.tenant THEN "open tenant" ELSE "submit"
           new == [r EXCEPT !.left = Tail(left), !.at = at]
<1>1. r \in RegistrationHandler /\ Good(r, mandates, cases) /\ r.at = "check"
  BY Shape DEF CheckSubject, At, Inv, RegistrationPlaces
<1>2. left \in Lefts /\ left # <<>>
  BY <1>1 DEF RegistrationHandler, Good, RegistrationPlaces
<1>3. RestOK' /\ UNCHANGED <<mandates, cases, envelopes>>
  BY DEF CheckSubject, records, history, Inv, RestOK
<1>4. CASE End(h)
  BY <1>3, <1>4, IdleGood, MoveOn DEF End
<1>5. CASE /\ ~\E n \in DOMAIN cases : cases[n].subject = Head(left) /\ IsEscalated(n)
           /\ handlers' = [handlers EXCEPT ![h] = new]
  <2>1. /\ Tail(left) \in Lefts
        /\ Tail(left) # <<>> <=> at = "check"
        /\ at \in {"check", "open tenant", "submit"}
    BY <1>2, Remaining
  <2>2. /\ new \in RegistrationHandler /\ new.at = at /\ new.left = Tail(left)
        /\ new.tenant = r.tenant /\ new.standing = r.standing
    BY <1>1, <2>1 DEF RegistrationHandler, RegistrationPlaces
  <2> HIDE DEF new, at
  <2>3. /\ Asked(new) = Asked(r)
        /\ Pending(r) \subseteq {Head(left)} \cup Pending(new)
    BY <1>2, <2>2, Remaining DEF Asked, Pending
  <2>4. \A n \in r.standing :
            n \in DOMAIN cases /\ cases[n].status = "ESCALATED" /\ cases[n].subject # Head(left)
    BY <1>1, <1>5 DEF RegistrationHandler, Good, RegistrationPlaces, IsEscalated
  <2>5. Good(new, mandates, cases)
    BY <1>1, <2>1, <2>2, <2>3, <2>4 DEF Good, SignaturePlaces, SigningPlaces, RegistrationPlaces
  <2>6. new \in HandlerType
    BY <2>2, HandlerKinds
  <2> QED BY <1>3, <1>5, <2>5, <2>6, MoveOn
<1> QED BY <1>4, <1>5 DEF CheckSubject

\* A registration whose checks are behind it.
LEMMA RegistrationInv ==
    ASSUME Inv, NEW h \in Handlers,
           (\E hit \in BOOLEAN : OpenForTenant(h, hit)) \/ Submit(h) \/ SetRegistration(h)
    PROVE  Inv'
<1> DEFINE r == handlers[h]
<1>1. /\ r \in RegistrationHandler /\ Good(r, mandates, cases)
      /\ r.at \in {"open tenant", "submit", "record"}
  <2>1. r \in HandlerType /\ Good(r, mandates, cases)
        /\ r.at \in {"open tenant", "submit", "record"}
    BY DEF OpenForTenant, Submit, SetRegistration, At, Inv
  <2> QED BY <2>1, Shape DEF RegistrationPlaces
<1>2. ASSUME NEW at \in {"submit", "record"}
      PROVE  LET new == [r EXCEPT !.at = at] IN new \in HandlerType /\ Good(new, mandates, cases)
  <2> DEFINE new == [r EXCEPT !.at = at]
  <2>1. /\ new \in RegistrationHandler /\ new.at = at /\ new.left = r.left
        /\ new.tenant = r.tenant /\ new.standing = r.standing
    BY <1>1 DEF RegistrationHandler, RegistrationPlaces
  <2> HIDE DEF new
  <2>2. Asked(new) = Asked(r) /\ Pending(new) = Pending(r)
    BY <2>1 DEF Asked, Pending
  <2>3. Good(new, mandates, cases)
    BY <1>1, <2>1, <2>2 DEF Good, SignaturePlaces, SigningPlaces, RegistrationPlaces
  <2>4. new \in HandlerType
    BY <2>1, HandlerKinds
  <2> QED BY <2>3, <2>4 DEF new
<1>3. ASSUME NEW hit \in BOOLEAN, OpenForTenant(h, hit) PROVE Inv'
  <2>1. /\ CasesOK' /\ DOMAIN cases \subseteq DOMAIN cases'
        /\ \A q \in HandlerType : Good(q, mandates, cases) => Good(q, mandates', cases')
    BY <1>3, OpenCase DEF OpenForTenant, Subjects
  <2>2. RestOK' /\ UNCHANGED <<mandates, envelopes>>
    BY <1>3 DEF OpenForTenant, history, Inv, RestOK
  <2>3. MandatesOK' /\ HandlerType \subseteq HandlerType'
    BY <2>1, <2>2, MandatesKept, TypeGrows
  <2>4. handlers' = [handlers EXCEPT ![h] = [r EXCEPT !.at = "submit"]]
    BY <1>3 DEF OpenForTenant, GoTo
  <2> QED BY <1>2, <2>1, <2>2, <2>3, <2>4, Combine
<1>4. CASE Submit(h)
  <2>1. RestOK' /\ UNCHANGED <<mandates, cases, envelopes>>
    BY <1>4 DEF Submit, history, Inv, RestOK
  <2>2. handlers' = [handlers EXCEPT ![h] = [r EXCEPT !.at = "record"]]
    BY <1>4 DEF Submit, GoTo
  <2> QED BY <1>2, <2>1, <2>2, MoveOn
<1>5. CASE SetRegistration(h)
  <2>1. RestOK' /\ UNCHANGED <<mandates, cases, envelopes>>
    BY <1>5 DEF SetRegistration, history, Inv, RestOK
  <2> QED BY <1>5, <2>1, IdleGood, MoveOn DEF SetRegistration, End
<1> QED BY <1>3, <1>4, <1>5

LEMMA StepInv ==
    ASSUME Inv, NEW h \in Handlers, Step(h)
    PROVE  Inv'
BY InsertOrderInv, CreateEnvelopeInv, AttachEnvelopeInv, SetSentInv, FindMandateInv, SigningInv,
   OpenForMandateInv, SetKycStatusInv, CheckSubjectInv, RegistrationInv DEF Step

\* Every step preserves the invariant.
LEMMA NextInv == Inv /\ [Next]_vars => Inv'
<1> SUFFICES ASSUME Inv, [Next]_vars PROVE Inv'
  OBVIOUS
<1>1. CASE UNCHANGED vars
  <2>1. RestOK' /\ UNCHANGED <<mandates, cases, envelopes, handlers>>
    BY <1>1 DEF vars, Inv, RestOK
  <2> QED BY <2>1, Combine DEF Inv, MandatesOK, MandateOK, MandateType, CasesOK
<1>2. CASE Next
  BY <1>2, SurroundingsInv, OrderInv, SignatureRequestInv, WebhookInv, AdvanceInv,
     RegistrationRequestInv, StepInv, OpenForMandateInv DEF Next
<1> QED BY <1>1, <1>2

LEMMA InvHolds == Spec => []Inv
BY InitInv, NextInv, PTL DEF Spec

\* Every variable keeps its type: what was sent has an envelope, what was signed a date.
THEOREM EngagementsTypeCorrect == Spec => []TypeOK
BY InvHolds, InvTyped, PTL

-----------------------------------------------------------------------------
\* One property, one side (R2): paid orders of the owner and of a buyer exclude each other,
\* unless an order was inserted on an outdated check.
THEOREM OneSideHolds == Spec => []OneSide
<1>1. Init => OneSide
  <2> SUFFICES ASSUME Init PROVE OneSide
    OBVIOUS
  <2>1. PaidParties = {}
    BY DEF Init, PaidParties
  <2> QED BY <2>1, FS_EmptySet DEF OneSide
<1>2. Inv /\ OneSide /\ [Next]_vars => OneSide'
  <2> SUFFICES ASSUME Inv, OneSide, [Next]_vars PROVE OneSide'
    OBVIOUS
  <2>1. ASSUME UNCHANGED <<orders, raced>> PROVE OneSide'
    BY <2>1 DEF OneSide, PaidParties
  <2>2. ASSUME NEW h \in Handlers, InsertOrder(h), ~raced' PROVE Cardinality(PaidParties') <= 1
    <3> DEFINE party == handlers[h].party
    <3>1. /\ orders \in Seq(Parties) /\ party \in Parties
          /\ PaidParties \subseteq {party}
      <4>1. /\ handlers[h] \in HandlerType /\ handlers[h].at = "order"
            /\ Good(handlers[h], mandates, cases) /\ orders \in Seq(Parties)
        BY <2>2 DEF InsertOrder, At, Inv, RestOK
      <4>2. party \in Parties /\ handlers[h].seen \subseteq {party}
        BY <4>1, Shape DEF OrderHandler, Good
      <4>3. PaidParties = handlers[h].seen
        BY <2>2 DEF InsertOrder
      <4> QED BY <4>1, <4>2, <4>3
    <3>2. PaidParties' \in SUBSET {party}
      <4>1. /\ orders' = Append(orders, party)
            /\ DOMAIN orders = 1 .. Len(orders) /\ Len(orders) \in Nat
            /\ DOMAIN orders' = 1 .. Len(orders) + 1
            /\ orders'[Len(orders) + 1] = party
            /\ \A n \in 1 .. Len(orders) : orders'[n] = orders[n]
        BY <2>2, <3>1, AppendProperties, LenProperties DEF InsertOrder
      <4> HIDE DEF party
      <4> QED BY <3>1, <4>1 DEF PaidParties
    <3>3. IsFiniteSet({party}) /\ Cardinality({party}) = 1
      BY FS_Singleton
    <3> QED BY <3>2, <3>3, FS_Subset
  <2>3. ASSUME ~\E h \in Handlers : InsertOrder(h)
        PROVE  UNCHANGED <<orders, raced>>
    BY <2>3 DEF Next, CreateMandate, OpenByHand, Sign, RequestOrder, RequestSignature,
         CallWebhook, RequestAdvance, RequestRegistration, Step, CreateEnvelope, AttachEnvelope,
         SetSent, FindMandate, MarkSigned, SetSigned, OpenForMandate, SetKycStatus, CheckSubject,
         OpenForTenant, Submit, SetRegistration, Die, OpenForMandateThrows, vars, history, records
  <2> QED BY <2>1, <2>2, <2>3 DEF OneSide
<1> QED BY <1>1, <1>2, InvHolds, PTL DEF Spec

-----------------------------------------------------------------------------
\* What a handler itself may take up or go on with.
Acts(h) ==
    \/ \E party \in Parties : RequestOrder(h, party)
    \/ \E m \in Mandates : RequestSignature(h, m)
    \/ \E e \in DOMAIN envelopes : CallWebhook(h, e)
    \/ \E n \in DOMAIN cases, event \in DOMAIN KycTransitions : RequestAdvance(h, n, event)
    \/ \E tenant \in BOOLEAN : RequestRegistration(h, tenant)
    \/ Step(h) \/ Die(h) \/ OpenForMandateThrows(h)

\* A step moves one handler; another's registration may lose an escalation that stands.
LEMMA OthersWait ==
    ASSUME Inv, NEW h \in Handlers, handlers' # handlers, Acts(h)
    PROVE  \A g \in Handlers \ {h} :
              /\ handlers'[g].at = handlers[g].at
              /\ handlers[g].at \notin RegistrationPlaces => handlers'[g] = handlers[g]
<1>1. CASE \E r : handlers' = [handlers EXCEPT ![h] = r]
  BY <1>1 DEF Inv
<1>2. CASE SetKycStatus(h)
  <2> SUFFICES ASSUME NEW g \in Handlers \ {h}
               PROVE  /\ handlers'[g].at = handlers[g].at
                      /\ handlers[g].at \notin RegistrationPlaces => handlers'[g] = handlers[g]
    OBVIOUS
  <2>1. handlers[g] \in HandlerType
    BY DEF Inv
  <2>2. "standing" \in DOMAIN handlers[g] <=> handlers[g].at \in RegistrationPlaces
    BY <2>1, Shape
  <2>3. \/ handlers'[g] = handlers[g]
        \/ /\ handlers[g].at \in RegistrationPlaces
           /\ handlers'[g] = [handlers[g] EXCEPT !.standing = @ \ {handlers[h].case}]
    BY <1>2, <2>2 DEF SetKycStatus
  <2>4. CASE handlers[g].at \in RegistrationPlaces
    <3>1. handlers[g] \in RegistrationHandler
      BY <2>1, <2>4, Shape
    <3> QED BY <2>3, <2>4, <3>1 DEF RegistrationHandler
  <2> QED BY <2>3, <2>4
<1>3. CASE ~SetKycStatus(h)
  <2>1. \E r : handlers' = [handlers EXCEPT ![h] = r]
    BY <1>3 DEF Acts, RequestOrder, RequestSignature, CallWebhook, RequestAdvance,
         RequestRegistration, Step, Begin, GoTo, End, Answer, InsertOrder, CreateEnvelope,
         AttachEnvelope, SetSent, FindMandate, MarkSigned, SetSigned, OpenForMandate,
         CheckSubject, OpenForTenant, Submit, SetRegistration, Die, OpenForMandateThrows
  <2> QED BY <2>1, <1>1
<1> QED BY <1>2, <1>3

LEMMA IdleElsewhere ==
    /\ Idle.at = "idle"
    /\ "idle" \notin SignaturePlaces \cup SigningPlaces \cup RegistrationPlaces
BY DEF Idle, SignaturePlaces, SigningPlaces, RegistrationPlaces

\* Only RequestSignature makes a handler ask for a signature, and SetSent is its last step; only
\* RequestRegistration makes it register, and Submit alone leads to "record".
LEMMA OwnStep ==
    ASSUME Inv, NEW h \in Handlers, Acts(h)
    PROVE  /\ handlers'[h].at \in SignaturePlaces =>
                 \/ \E m \in Mandates : RequestSignature(h, m) /\ handlers'[h].mandate = m
                 \/ /\ CreateEnvelope(h) \/ AttachEnvelope(h)
                    /\ handlers'[h].mandate = handlers[h].mandate
           /\ handlers'[h].at \in RegistrationPlaces =>
                 \/ (\E tenant \in BOOLEAN : RequestRegistration(h, tenant))
                       /\ handlers'[h].at = "check"
                 \/ /\ CheckSubject(h) \/ \E hit \in BOOLEAN : OpenForTenant(h, hit)
                    /\ handlers'[h].at # "record"
                 \/ Submit(h) /\ handlers'[h].at = "record"
<1> DEFINE r == handlers[h]
<1> USE DEF SignaturePlaces, SigningPlaces, RegistrationPlaces
<1>1. r \in HandlerType /\ handlers \in [Handlers -> HandlerType]
  BY DEF Inv
<1>2. CASE handlers'[h] = Idle
  BY <1>2, IdleElsewhere
<1>3. CASE \/ InsertOrder(h) \/ SetSent(h) \/ \E hit \in BOOLEAN : OpenForMandate(h, hit)
           \/ SetKycStatus(h) \/ SetRegistration(h) \/ Die(h) \/ OpenForMandateThrows(h)
  <2>1. CASE SetKycStatus(h)
    BY <1>2, <2>1 DEF SetKycStatus
  <2>2. CASE ~SetKycStatus(h)
    <3>1. handlers' = [handlers EXCEPT ![h] = Idle]
      BY <1>3, <2>2 DEF InsertOrder, SetSent, OpenForMandate, SetRegistration, Die,
         OpenForMandateThrows, End, Answer
    <3> QED BY <1>1, <1>2, <3>1
  <2> QED BY <2>1, <2>2
<1>4. CASE FindMandate(h)
  <2>1. \/ handlers'[h] = Idle
        \/ handlers'[h].at = "mark"
    BY <1>1, <1>4 DEF FindMandate, End, Answer
  <2> QED BY <1>2, <2>1
<1>5. CASE CreateEnvelope(h)
  <2> DEFINE new == [r EXCEPT !.at = "attach", !.envelope = Len(envelopes) + 1]
  <2>1. r \in RequestHandler
    BY <1>1, <1>5, Shape DEF CreateEnvelope, At
  <2>2. new.at = "attach" /\ new.mandate = r.mandate
    BY <2>1 DEF RequestHandler
  <2>3. handlers'[h] = new
    BY <1>1, <1>5 DEF CreateEnvelope
  <2> QED BY <1>5, <2>2, <2>3
<1>6. CASE AttachEnvelope(h)
  <2>1. r \in SignatureHandler
    BY <1>1, <1>6, Shape DEF AttachEnvelope, At
  <2>2. handlers'[h].at = "sent" /\ handlers'[h].mandate = r.mandate
    BY <1>1, <1>6, <2>1 DEF AttachEnvelope, GoTo, SignatureHandler
  <2> QED BY <1>6, <2>2
<1>7. CASE MarkSigned(h) \/ SetSigned(h)
  <2>1. r \in SigningHandler
    BY <1>1, <1>7, Shape DEF MarkSigned, SetSigned, At
  <2>2. handlers'[h].at \in {"signed", "open case"}
    BY <1>1, <1>7, <2>1 DEF MarkSigned, SetSigned, GoTo, SigningHandler
  <2> QED BY <2>2
<1>8. CASE CheckSubject(h)
  <2> DEFINE at == IF Len(r.left) > 1 THEN "check" ELSE IF r.tenant THEN "open tenant" ELSE "submit"
             new == [r EXCEPT !.left = Tail(r.left), !.at = at]
  <2>1. r \in RegistrationHandler
    BY <1>1, <1>8, Shape DEF CheckSubject, At
  <2>2. new.at = at /\ at \in {"check", "open tenant", "submit"}
    BY <2>1 DEF RegistrationHandler
  <2>3. handlers' = [handlers EXCEPT ![h] = Idle] \/ handlers' = [handlers EXCEPT ![h] = new]
    BY <1>8 DEF CheckSubject, End
  <2> HIDE DEF new, at
  <2>4. handlers'[h] = Idle \/ handlers'[h] = new
    BY <1>1, <2>3
  <2> QED BY <1>2, <1>8, <2>2, <2>4
<1>9. ASSUME NEW hit \in BOOLEAN, OpenForTenant(h, hit) PROVE handlers'[h].at = "submit"
  <2>1. r \in RegistrationHandler
    BY <1>1, <1>9, Shape DEF OpenForTenant, At
  <2> QED BY <1>1, <1>9, <2>1 DEF OpenForTenant, GoTo, RegistrationHandler
<1>10. CASE Submit(h)
  <2>1. r \in RegistrationHandler
    BY <1>1, <1>10, Shape DEF Submit, At
  <2>2. handlers'[h].at = "record"
    BY <1>1, <1>10, <2>1 DEF Submit, GoTo, RegistrationHandler
  <2> QED BY <1>10, <2>2
<1>11. ASSUME \/ \E party \in Parties : RequestOrder(h, party)
              \/ \E e \in DOMAIN envelopes : CallWebhook(h, e)
              \/ \E n \in DOMAIN cases, event \in DOMAIN KycTransitions : RequestAdvance(h, n, event)
       PROVE  handlers'[h].at \in {"order", "find", "advance"}
  <2>1. CASE \E party \in Parties : RequestOrder(h, party)
    BY <1>1, <2>1 DEF RequestOrder, Begin
  <2>2. CASE \E e \in DOMAIN envelopes : CallWebhook(h, e)
    BY <1>1, <2>2 DEF CallWebhook
  <2>3. ASSUME NEW n, NEW event, RequestAdvance(h, n, event) PROVE handlers'[h].at = "advance"
    BY <1>1, <2>3 DEF RequestAdvance, Begin
  <2> QED BY <1>11, <2>1, <2>2, <2>3
<1>12. ASSUME NEW m \in Mandates, RequestSignature(h, m)
       PROVE  handlers'[h].at = "envelope" /\ handlers'[h].mandate = m
  BY <1>1, <1>12 DEF RequestSignature, Begin
<1>13. ASSUME NEW tenant \in BOOLEAN, RequestRegistration(h, tenant)
       PROVE  handlers'[h].at = "check"
  BY <1>1, <1>13 DEF RequestRegistration, Begin
<1> QED BY <1>3, <1>4, <1>5, <1>6, <1>7, <1>8, <1>9, <1>10, <1>11, <1>12, <1>13 DEF Acts, Step

\* A step that moves a handler is its own.
LEMMA MovesByItself ==
    ASSUME Inv, [Next]_vars, NEW g \in Handlers, handlers'[g].at # handlers[g].at
    PROVE  Acts(g)
<1>1. PICK h \in Handlers : Acts(h)
  BY DEF Next, CreateMandate, OpenByHand, Sign, vars, Acts
<1> QED BY <1>1, OthersWait DEF Acts

-----------------------------------------------------------------------------
\* What a mandate's step is, as far as its status goes.
LEMMA StatusWrites ==
    ASSUME Inv, NEW m \in Mandates, mandates'[m].status # mandates[m].status, [Next]_vars
    PROVE  \/ mandates[m] = NoMandate /\ \A h \in Handlers : ~IsSignatureRequest(h, m)
           \/ \E h \in Handlers :
                 SetSent(h) /\ handlers[h].mandate = m /\ mandates'[m].status = "SENT"
           \/ \E h \in Handlers :
                 /\ SetSigned(h) /\ handlers[h].mandate = m /\ mandates'[m].status = "SIGNED"
                 /\ mandates[m].status \in {"SENT", "SIGNED"}
<1>1. CASE \E n \in Mandates, p \in BOOLEAN : CreateMandate(n, p)
  <2>1. mandates[m] = NoMandate
    BY <1>1 DEF CreateMandate, Inv, MandatesOK
  <2>2. \A h \in Handlers : ~IsSignatureRequest(h, m)
    BY <2>1 DEF IsSignatureRequest, At, Inv, Good, SignaturePlaces, NoMandate
  <2> QED BY <2>1, <2>2
<1>2. ASSUME NEW h \in Handlers, SetSent(h)
      PROVE  handlers[h].mandate = m /\ mandates'[m].status = "SENT"
  BY <1>2 DEF SetSent, Inv, MandatesOK
<1>3. ASSUME NEW h \in Handlers, SetSigned(h)
      PROVE  /\ handlers[h].mandate = m /\ mandates'[m].status = "SIGNED"
             /\ mandates[m].status \in {"SENT", "SIGNED"}
  <2>1. /\ handlers[h].at = "signed" /\ Good(handlers[h], mandates, cases)
        /\ mandates' = [mandates EXCEPT ![handlers[h].mandate].status = "SIGNED"]
    BY <1>3 DEF SetSigned, At, Inv
  <2>2. handlers[h].mandate = m /\ mandates'[m].status = "SIGNED"
    BY <2>1 DEF Inv, MandatesOK, MandateType
  <2> QED BY <2>1, <2>2 DEF Good, SigningPlaces
<1>4. ASSUME NEW h \in Handlers, AttachEnvelope(h) \/ MarkSigned(h)
      PROVE  mandates'[m].status = mandates[m].status
  <2>1. mandates \in [Mandates -> MandateType]
    BY DEF Inv, MandatesOK
  <2>2. CASE AttachEnvelope(h)
    BY <2>1, <2>2 DEF AttachEnvelope, MandateType
  <2>3. CASE MarkSigned(h)
    BY <2>1, <2>3 DEF MarkSigned, MandateType
  <2> QED BY <1>4, <2>2, <2>3
<1>5. ASSUME ~\E n \in Mandates, p \in BOOLEAN : CreateMandate(n, p),
             ~\E h \in Handlers : SetSent(h) \/ SetSigned(h) \/ AttachEnvelope(h) \/ MarkSigned(h)
      PROVE  UNCHANGED mandates
  BY <1>5 DEF Next, OpenByHand, Sign, RequestOrder, RequestSignature, CallWebhook,
     RequestAdvance, RequestRegistration, Step, InsertOrder, CreateEnvelope, FindMandate,
     OpenForMandate, SetKycStatus, CheckSubject, OpenForTenant, Submit, SetRegistration, Die,
     OpenForMandateThrows, vars, records
<1> QED BY <1>1, <1>2, <1>3, <1>4, <1>5

\* A mandate that is not contended has one signature request at a time, and stays DRAFT until
\* that request is through.
Uncontended ==
    \A m \in Mandates \ contended, h \in Handlers : IsSignatureRequest(h, m) =>
        /\ mandates[m].status = "DRAFT"
        /\ \A g \in Handlers : IsSignatureRequest(g, m) => g = h

\* A handler that asks for a signature has just begun or did so before.
LEMMA SignatureRequests ==
    ASSUME Inv, [Next]_vars, NEW g \in Handlers, NEW m \in Mandates, IsSignatureRequest(g, m)'
    PROVE  \/ RequestSignature(g, m)
           \/ IsSignatureRequest(g, m) /\ ~SetSent(g)
<1>1. handlers'[g].at \in SignaturePlaces /\ handlers'[g].mandate = m
  BY DEF IsSignatureRequest, At, SignaturePlaces
<1>2. ~SetSent(g)
  BY <1>1, IdleElsewhere DEF SetSent, End, Inv
<1>3. CASE Acts(g)
  BY <1>1, <1>2, <1>3, OwnStep DEF CreateEnvelope, AttachEnvelope, IsSignatureRequest
<1>4. CASE ~Acts(g)
  <2>1. handlers'[g].at = handlers[g].at
    BY <1>4, MovesByItself
  <2>2. handlers'[g] = handlers[g]
    <3>1. CASE handlers' = handlers
      BY <3>1
    <3>2. CASE handlers' # handlers
      <4>1. PICK h \in Handlers : Acts(h)
        BY <3>2 DEF Next, CreateMandate, OpenByHand, Sign, vars, Acts
      <4>2. handlers[g].at \notin RegistrationPlaces
        BY <1>1, <2>1 DEF SignaturePlaces, RegistrationPlaces
      <4> QED BY <1>4, <3>2, <4>1, <4>2, OthersWait
    <3> QED BY <3>1, <3>2
  <2> QED BY <1>1, <1>2, <2>2 DEF IsSignatureRequest, At, SignaturePlaces
<1> QED BY <1>3, <1>4

LEMMA UncontendedKept ==
    ASSUME Inv, Uncontended, [Next]_vars
    PROVE  Uncontended'
<1>1. contended \subseteq contended'
  BY DEF Next, CreateMandate, OpenByHand, Sign, RequestOrder, RequestSignature,
     CallWebhook, RequestAdvance, RequestRegistration, Step, InsertOrder, CreateEnvelope,
     AttachEnvelope, SetSent, FindMandate, MarkSigned, SetSigned, OpenForMandate, SetKycStatus,
     CheckSubject, OpenForTenant, Submit, SetRegistration, Die, OpenForMandateThrows, vars, history
<1> SUFFICES ASSUME NEW m \in Mandates \ contended', NEW h \in Handlers, IsSignatureRequest(h, m)'
             PROVE  /\ mandates'[m].status = "DRAFT"
                    /\ \A g \in Handlers : IsSignatureRequest(g, m)' => g = h
  BY DEF Uncontended
<1>2. CASE IsSignatureRequest(h, m)
  <2>1. /\ mandates[m].status = "DRAFT"
        /\ \A g \in Handlers : IsSignatureRequest(g, m) => g = h
    BY <1>1, <1>2 DEF Uncontended
  <2>2. ~\E g \in Handlers : RequestSignature(g, m)
    BY <1>2 DEF RequestSignature
  <2>3. ~SetSent(h)
    BY <2>2, SignatureRequests
  <2>4. mandates'[m].status = mandates[m].status
    <3>1. ~\E g \in Handlers : SetSent(g) /\ handlers[g].mandate = m
      BY <2>1, <2>3 DEF SetSent, IsSignatureRequest
    <3> QED BY <1>2, <2>1, <3>1, StatusWrites
  <2>5. \A g \in Handlers : IsSignatureRequest(g, m)' => g = h
    BY <2>1, <2>2, SignatureRequests
  <2> QED BY <2>1, <2>4, <2>5
<1>3. CASE ~IsSignatureRequest(h, m)
  <2>1. RequestSignature(h, m)
    BY <1>3, SignatureRequests
  <2>2. mandates'[m].status = "DRAFT"
    BY <2>1 DEF RequestSignature, records
  <2>3. \A g \in Handlers : ~IsSignatureRequest(g, m)
    BY <2>1 DEF RequestSignature
  <2>4. \A g \in Handlers : RequestSignature(g, m) => g = h
    BY <2>1 DEF RequestSignature, Begin, At, Inv
  <2> QED BY <2>2, <2>3, <2>4, SignatureRequests
<1> QED BY <1>2, <1>3

\* A mandate goes from DRAFT to SENT to SIGNED and stays there, although its status is written
\* by id, unless two signature requests of it ran at once.
THEOREM MandatesFollow == Spec => MandatesFollowTransitions
<1>1. Init => Uncontended
  BY DEF Init, Uncontended, IsSignatureRequest, At, Idle
<1>2. Inv /\ Uncontended /\ [Next]_vars => Uncontended'
  BY UncontendedKept
<1>3. Inv /\ Uncontended /\ [Next]_vars =>
         [\A m \in Mandates \ contended :
             \/ mandates'[m].status = mandates[m].status
             \/ mandates[m] = NoMandate
             \/ <<mandates[m].status, mandates'[m].status>> \in MandateTransitions]_vars
  <2> SUFFICES ASSUME Inv, Uncontended, [Next]_vars, NEW m \in Mandates \ contended,
                      mandates'[m].status # mandates[m].status, mandates[m] # NoMandate
               PROVE  <<mandates[m].status, mandates'[m].status>> \in MandateTransitions
    OBVIOUS
  <2>1. ASSUME NEW h \in Handlers, SetSent(h), handlers[h].mandate = m
        PROVE  mandates[m].status = "DRAFT"
    BY <2>1 DEF Uncontended, SetSent, IsSignatureRequest
  <2> QED BY <2>1, StatusWrites DEF MandateTransitions
<1> QED BY <1>1, <1>2, <1>3, InvHolds, PTL DEF Spec, MandatesFollowTransitions

-----------------------------------------------------------------------------
Registers(h) == handlers[h].at \in RegistrationPlaces

\* A handler that registers has just begun or did so before.
LEMMA Registrations ==
    ASSUME Inv, [Next]_vars, NEW g \in Handlers, Registers(g)'
    PROVE  \/ (\E tenant \in BOOLEAN : RequestRegistration(g, tenant)) /\ ~At(g, "record")'
           \/ /\ Registers(g) /\ ~SetRegistration(g)
              /\ Submit(g) \/ (At(g, "record")' <=> At(g, "record"))
<1>1. ~SetRegistration(g)
  BY IdleElsewhere DEF SetRegistration, End, Inv, Registers
<1>2. CASE Acts(g) /\ handlers'[g].at # handlers[g].at
  BY <1>1, <1>2, OwnStep DEF CheckSubject, OpenForTenant, Submit, Registers, At,
     RegistrationPlaces
<1>3. CASE handlers'[g].at = handlers[g].at
  BY <1>1, <1>3 DEF Registers, At
<1> QED BY <1>2, <1>3, MovesByItself

\* One registration at a time, which submits once.
OneRegistration ==
    ~doubled /\ faults = 0 =>
        /\ lease.submissions <= 1
        /\ \A g, h \in Handlers : Registers(g) /\ Registers(h) => g = h
        /\ \A h \in Handlers : Registers(h) /\ ~At(h, "record") => lease.submissions = 0
        /\ (\A h \in Handlers : ~Registers(h)) /\ ~lease.protocollo => lease.submissions = 0

LEMMA RegistrationsTold ==
    Inv => \A h \in Handlers : IsRegistration(h) <=> Registers(h)
BY Shape DEF Inv, IsRegistration, Registers

LEMMA OneRegistrationKept ==
    ASSUME Inv, OneRegistration, [Next]_vars
    PROVE  OneRegistration'
<1>1. (~doubled' => ~doubled) /\ (faults' = 0 => faults = 0 /\ \A h \in Handlers : ~Die(h))
  <2>1. faults \in Nat /\ doubled \in BOOLEAN
    BY EngagementsAssumption DEF Inv, RestOK
  <2>2. UNCHANGED faults \/ faults' = faults + 1
    BY DEF Next, CreateMandate, OpenByHand, Sign, RequestOrder, RequestSignature,
       CallWebhook, RequestAdvance, RequestRegistration, Step, InsertOrder, CreateEnvelope,
       AttachEnvelope, SetSent, FindMandate, MarkSigned, SetSigned, OpenForMandate, SetKycStatus,
       CheckSubject, OpenForTenant, Submit, SetRegistration, Die, OpenForMandateThrows, vars
  <2>3. UNCHANGED doubled \/ \E h \in Handlers, tenant \in BOOLEAN : RequestRegistration(h, tenant)
    BY DEF Next, CreateMandate, OpenByHand, Sign, RequestOrder, RequestSignature,
       CallWebhook, RequestAdvance, Step, InsertOrder, CreateEnvelope,
       AttachEnvelope, SetSent, FindMandate, MarkSigned, SetSigned, OpenForMandate, SetKycStatus,
       CheckSubject, OpenForTenant, Submit, SetRegistration, Die, OpenForMandateThrows, vars, history
  <2>4. ASSUME NEW h \in Handlers, Die(h) PROVE faults' # 0
    BY <2>1, <2>4 DEF Die
  <2>5. ASSUME NEW h \in Handlers, NEW tenant \in BOOLEAN, RequestRegistration(h, tenant)
        PROVE  doubled => doubled'
    BY <2>5 DEF RequestRegistration
  <2>6. ~doubled' => ~doubled
    BY <2>3, <2>5
  <2>7. faults' = 0 => faults = 0
    BY <2>1, <2>2
  <2> QED BY <2>4, <2>6, <2>7
<1> SUFFICES ASSUME ~doubled', faults' = 0
             PROVE  /\ lease'.submissions <= 1
                    /\ \A g, h \in Handlers : Registers(g)' /\ Registers(h)' => g = h
                    /\ \A h \in Handlers : Registers(h)' /\ ~At(h, "record")' => lease'.submissions = 0
                    /\ (\A h \in Handlers : ~Registers(h)') /\ ~lease'.protocollo =>
                          lease'.submissions = 0
  BY DEF OneRegistration
<1>2. /\ lease.submissions <= 1
      /\ \A g, h \in Handlers : Registers(g) /\ Registers(h) => g = h
      /\ \A h \in Handlers : Registers(h) /\ ~At(h, "record") => lease.submissions = 0
      /\ (\A h \in Handlers : ~Registers(h)) /\ ~lease.protocollo => lease.submissions = 0
  BY <1>1 DEF OneRegistration
<1>3. lease \in [protocollo : BOOLEAN, submissions : Nat] /\ handlers \in [Handlers -> HandlerType]
  BY DEF Inv, RestOK
<1>4. ASSUME NEW k \in Handlers, NEW tenant \in BOOLEAN, RequestRegistration(k, tenant)
      PROVE  /\ UNCHANGED lease /\ lease.submissions = 0
             /\ \A h \in Handlers : Registers(h)' <=> h = k
  <2>1. ~doubled' => \A g \in Handlers : ~IsRegistration(g)
    BY <1>4 DEF RequestRegistration
  <2>2. \A g \in Handlers : ~Registers(g)
    BY <2>1, RegistrationsTold
  <2>3. /\ handlers'[k].at = "check"
        /\ \A g \in Handlers \ {k} : handlers'[g] = handlers[g]
    BY <1>3, <1>4 DEF RequestRegistration, Begin
  <2>4. UNCHANGED lease /\ ~lease.protocollo
    BY <1>4 DEF RequestRegistration, records
  <2> QED BY <1>2, <2>2, <2>3, <2>4 DEF Registers, RegistrationPlaces
<1>5. ASSUME NEW k \in Handlers, Submit(k) \/ SetRegistration(k)
      PROVE  /\ Registers(k)
             /\ \A g \in Handlers \ {k} : ~Registers(g)'
  <2>1. Registers(k)
    BY <1>5 DEF Submit, SetRegistration, At, Registers, RegistrationPlaces
  <2>2. \A g \in Handlers \ {k} : handlers'[g] = handlers[g]
    BY <1>3, <1>5 DEF Submit, SetRegistration, GoTo, End
  <2> QED BY <1>2, <2>1, <2>2 DEF Registers
<1>6. ASSUME NEW k \in Handlers, Submit(k)
      PROVE  lease.submissions = 0 /\ lease'.submissions = 1 /\ Registers(k)' /\ At(k, "record")'
  <2>1. lease.submissions = 0
    BY <1>2, <1>5, <1>6 DEF Submit, At
  <2>2. handlers[k] \in RegistrationHandler
    BY <1>3, <1>6, Shape DEF Submit, At, RegistrationPlaces
  <2>3. handlers'[k].at = "record"
    BY <1>3, <1>6, <2>2 DEF Submit, GoTo, RegistrationHandler
  <2> QED BY <1>3, <1>6, <2>1, <2>3 DEF Submit, Registers, At, RegistrationPlaces
<1>7. ASSUME NEW k \in Handlers, SetRegistration(k)
      PROVE  /\ lease'.submissions = lease.submissions /\ lease'.protocollo
             /\ ~Registers(k)'
  BY <1>3, <1>7, IdleElsewhere DEF SetRegistration, End, Registers
<1>8. ASSUME \A k \in Handlers : ~Submit(k) /\ ~SetRegistration(k),
             \A k \in Handlers, tenant \in BOOLEAN : ~RequestRegistration(k, tenant)
      PROVE  /\ UNCHANGED lease
             /\ \A h \in Handlers : Registers(h)' => Registers(h) /\ (At(h, "record")' <=> At(h, "record"))
             /\ \A h \in Handlers : At(h, "record") => Registers(h)'
  <2>1. UNCHANGED lease
    BY <1>8 DEF Next, CreateMandate, OpenByHand, Sign, RequestOrder, RequestSignature,
       CallWebhook, RequestAdvance, Step, InsertOrder, CreateEnvelope,
       AttachEnvelope, SetSent, FindMandate, MarkSigned, SetSigned, OpenForMandate, SetKycStatus,
       CheckSubject, OpenForTenant, Die, OpenForMandateThrows, vars, records
  <2>2. \A h \in Handlers : Registers(h)' => Registers(h) /\ (At(h, "record")' <=> At(h, "record"))
    BY <1>8, Registrations
  <2>3. ASSUME NEW h \in Handlers, At(h, "record") PROVE Registers(h)'
    <3>1. ~Acts(h)
      BY <1>1, <1>8, <2>3 DEF Acts, RequestOrder, RequestSignature, CallWebhook, RequestAdvance,
         Begin, Step, InsertOrder, CreateEnvelope, AttachEnvelope, SetSent, FindMandate,
         MarkSigned, SetSigned, OpenForMandate, SetKycStatus, CheckSubject, OpenForTenant,
         OpenForMandateThrows, At
    <3>2. handlers'[h].at = "record"
      BY <2>3, <3>1, MovesByItself DEF At
    <3> QED BY <3>2 DEF Registers, RegistrationPlaces
  <2> QED BY <2>1, <2>2, <2>3
<1>9. CASE \E k \in Handlers, tenant \in BOOLEAN : RequestRegistration(k, tenant)
  BY <1>4, <1>9
<1>10. CASE \E k \in Handlers : Submit(k)
  BY <1>5, <1>6, <1>10
<1>11. CASE \E k \in Handlers : SetRegistration(k)
  BY <1>2, <1>5, <1>7, <1>11
<1>12. CASE /\ \A k \in Handlers : ~Submit(k) /\ ~SetRegistration(k)
            /\ \A k \in Handlers, tenant \in BOOLEAN : ~RequestRegistration(k, tenant)
  BY <1>2, <1>8, <1>12
<1> QED BY <1>9, <1>10, <1>11, <1>12

\* Nothing gets round an escalation: a case with a sanctions hit is never VERIFIED or CLEARED
\* before it was ESCALATED, a lease is not sent to the RLI while a case that is asked for has
\* been ESCALATED since before the request, and it is sent once.
THEOREM RegistrationsAreCleared == Spec => []RegistrationIsCleared
<1>1. Init => OneRegistration
  BY IdleElsewhere DEF Init, OneRegistration, Registers
<1>2. Inv /\ OneRegistration /\ [Next]_vars => OneRegistration'
  BY OneRegistrationKept
<1>3. Inv /\ OneRegistration => RegistrationIsCleared
  <2> SUFFICES ASSUME Inv, OneRegistration PROVE RegistrationIsCleared
    OBVIOUS
  <2>1. EscalatedFirst
    BY DEF Inv, CasesOK, CaseOK, EscalatedFirst
  <2>2. ASSUME NEW h \in Handlers, At(h, "submit"), NEW n \in handlers[h].standing
        PROVE  /\ cases[n].subject \notin {"property", "lease"}
               /\ cases[n].subject = "tenant" => ~handlers[h].tenant
    <3>1. /\ handlers[h].left = <<>>
          /\ cases[n].subject \in Asked(handlers[h]) => cases[n].subject \in Pending(handlers[h])
      BY <2>2 DEF Inv, Good, At, RegistrationPlaces
    <3>2. Pending(handlers[h]) = {}
      BY <3>1 DEF Pending
    <3> QED BY <3>1, <3>2 DEF Asked
  <2>3. RegisteredOnce
    BY DEF OneRegistration, RegisteredOnce
  <2> QED BY <2>1, <2>2, <2>3 DEF RegistrationIsCleared, BlockedByEscalation
<1> QED BY <1>1, <1>2, <1>3, InvHolds, PTL DEF Spec

=============================================================================
