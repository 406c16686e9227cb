-------------------------- MODULE AstePipelineProofs --------------------------
(*****************************************************************************)
(* Proofs about AstePipeline, for every set of analyses, documents, workers  *)
(* and requests, and every value of the limits.                              *)
(*****************************************************************************)
EXTENDS AstePipeline, TLAPS

Rows ==
    [status : {"draft", "uploaded", "processing", "ready", "failed"},
     attempts : Nat, age : {Null} \cup 0..(Stale + 1)]

Works ==
    [at : Places, a : Analyses, attempts : Nat \ {0}, mine : SUBSET Docs,
     todo : SUBSET Docs, forced : BOOLEAN]

Requests == [op : {"UPLOAD", "SUBMIT", "RESET"}, a : Analyses]

\* Workers only work on documents that were inserted.
ClaimsAreOfDocs ==
    \A w \in Workers : worker[w].at \in Places =>
        \A d \in worker[w].mine \cup worker[w].todo : doc[d] # NoDoc

\* Workers only work on analyses that were created.
ClaimsAreOfRows == \A w \in Workers, a \in Analyses : WorksOn(w, a) => row[a] # Absent

\* An analysis was not tried too often, and one that waits for a worker may be tried again.
Calm(a) ==
    Exists(a) =>
        /\ row[a].attempts <= MaxAttempts
        /\ row[a].status = "draft" => row[a].attempts = 0
        /\ row[a].status = "uploaded" => row[a].attempts < MaxAttempts

AttemptsAreLeft == \A a \in Analyses \ disturbed : Calm(a)

Inv ==
    /\ TypeOK
    /\ ClaimsAreOfDocs
    /\ ClaimsAreOfRows
    /\ ClaimsAreExclusive
    /\ AttemptsAreLeft

-----------------------------------------------------------------------------
\* What the types say of a row, a worker and a request.

LEMMA RowType ==
    ASSUME TypeOK, NEW a \in Analyses
    PROVE  /\ Exists(a) <=> row[a] \in Rows
           /\ Exists(a) <=> row[a].status \in
                 {"draft", "uploaded", "processing", "ready", "failed"}
           /\ Exists(a) => /\ row[a].attempts \in Nat
                           /\ row[a].age \in {Null} \cup 0..(Stale + 1)
BY DEF TypeOK, Exists, Rows, Absent, Removed

LEMMA WorkerType ==
    ASSUME TypeOK, NEW w \in Workers, worker[w].at \in Places
    PROVE  /\ worker[w] \in Works
           /\ WorksOn(w, worker[w].a)
           /\ \A at \in Places, todo \in SUBSET Docs :
                 [worker[w] EXCEPT !.at = at, !.todo = todo] \in Works
           /\ \A forced \in BOOLEAN :
                 [worker[w] EXCEPT !.at = "fail", !.forced = forced] \in Works
<1>1. worker[w] \in Works
  BY DEF TypeOK, Works, Places, Idle
<1>2. WorksOn(w, worker[w].a)
  BY DEF WorksOn, Places
<1> QED BY <1>1, <1>2 DEF Works, Places

LEMMA RequestType ==
    ASSUME TypeOK, NEW h \in Handlers, req[h].op \in {"UPLOAD", "SUBMIT", "RESET"}
    PROVE  req[h] \in Requests /\ req[h].a \in Analyses
BY DEF TypeOK, Requests, NoRequest

-----------------------------------------------------------------------------
\* Type correctness

LEMMA InitInv == Init => Inv
<1> SUFFICES ASSUME Init PROVE Inv
  OBVIOUS
<1> USE PipelineAssumption DEF Init
<1>1. TypeOK
  BY DEF TypeOK
<1>2. \A w \in Workers, a \in Analyses : ~WorksOn(w, a)
  BY DEF WorksOn, Idle
<1>3. \A a \in Analyses : row[a] = Absent
  OBVIOUS
<1>4. ClaimsAreOfDocs /\ ClaimsAreOfRows /\ ClaimsAreExclusive
  BY <1>2 DEF ClaimsAreOfDocs, ClaimsAreOfRows, ClaimsAreExclusive, Idle, Places
<1>5. AttemptsAreLeft
  BY <1>3 DEF AttemptsAreLeft, Calm, Exists
<1> QED BY <1>1, <1>4, <1>5 DEF Inv

\* An update by id keeps the table typed.
LEMMA UpdateType ==
    ASSUME TypeOK, NEW a \in Analyses, NEW new, Exists(a) => new \in Rows, UpdateRow(a, new)
    PROVE  row' \in [Analyses -> {Absent, Removed} \cup Rows]
BY DEF TypeOK, UpdateRow, Rows

LEMMA RequestsType ==
    ASSUME TypeOK, NEW h \in Handlers, Request(h)
    PROVE  TypeOK'
<1> USE PipelineAssumption
<1>1. ASSUME NEW op \in {"UPLOAD", "SUBMIT", "RESET"}, NEW a \in Analyses, Ask(h, op, a)
      PROVE  TypeOK'
  BY <1>1 DEF Ask, TypeOK, tables
<1>2. ASSUME NEW d \in Docs, InsertDoc(h, d)
      PROVE  TypeOK'
  BY <1>2, RequestType DEF InsertDoc, Answer, TypeOK, counters
<1>3. ASSUME Submit(h)
      PROVE  TypeOK'
  <2> DEFINE a == req[h].a
  <2>1. a \in Analyses
    BY <1>3, RequestType DEF Submit
  <2>2. Exists(a) => [row[a] EXCEPT !.status = "uploaded"] \in Rows
    BY <2>1, RowType DEF Rows
  <2>3. row' \in [Analyses -> {Absent, Removed} \cup Rows]
    BY <1>3, <2>1, <2>2, UpdateType DEF Submit
  <2> QED BY <1>3, <2>1, <2>3 DEF Submit, Answer, TypeOK, counters, Rows
<1>4. ASSUME Reset(h)
      PROVE  TypeOK'
  <2> DEFINE a == req[h].a
  <2>1. a \in Analyses
    BY <1>4, RequestType DEF Reset
  <2>2. Row("uploaded", 0, Null) \in Rows
    BY DEF Rows, Row
  <2>3. row' \in [Analyses -> {Absent, Removed} \cup Rows]
    BY <1>4, <2>1, <2>2, UpdateType DEF Reset
  <2> QED BY <1>4, <2>1, <2>3 DEF Reset, Answer, TypeOK, counters, Rows
<1>5. ASSUME Abandon(h)
      PROVE  TypeOK'
  BY <1>5 DEF Abandon, Answer, TypeOK, tables, counters
<1> QED BY <1>1, <1>2, <1>3, <1>4, <1>5
        DEF Request, RequestUpload, RequestSubmit, RequestResubmit, RequestRerun

\* The rest of the system but the workers.
LEMMA OthersType ==
    ASSUME TypeOK
    PROVE  /\ \A a \in Analyses : Create(a) \/ Remove(a) => TypeOK'
           /\ \A w \in Workers : Stop(w) => TypeOK'
           /\ Tick => TypeOK'
<1> USE PipelineAssumption
<1>1. ASSUME NEW a \in Analyses, Create(a)
      PROVE  TypeOK'
  BY <1>1 DEF Create, TypeOK, Row
<1>2. ASSUME NEW a \in Analyses, Remove(a)
      PROVE  TypeOK'
  BY <1>2 DEF Remove, TypeOK
<1>3. ASSUME NEW w \in Workers, Stop(w)
      PROVE  TypeOK'
  BY <1>3 DEF Stop, Rest, TypeOK, tables
<1>4. ASSUME Tick
      PROVE  TypeOK'
  <2>1. ASSUME NEW a \in Analyses, Exists(a), row[a].age \in 0..Stale
        PROVE  [row[a] EXCEPT !.age = @ + 1] \in Rows
    BY <2>1, RowType DEF Rows
  <2>2. row' \in [Analyses -> {Absent, Removed} \cup Rows]
    BY <1>4, <2>1 DEF Tick, TypeOK, Rows
  <2> QED BY <1>4, <2>2 DEF Tick, TypeOK, counters, Rows
<1> QED BY <1>1, <1>2, <1>3, <1>4

\* The step of a worker that starts or ends a run.
LEMMA RunsType ==
    ASSUME TypeOK, NEW w \in Workers,
           RecoverStale(w) \/ ClaimNext(w) \/ MarkReady(w) \/ Fail(w)
    PROVE  TypeOK'
<1> USE PipelineAssumption
<1>1. CASE RecoverStale(w)
  <2>1. \A a \in Analyses : row[a].status = "processing" => row[a].attempts \in Nat
    BY RowType
  <2>2. row' \in [Analyses -> {Absent, Removed} \cup Rows]
    BY <1>1, <2>1 DEF RecoverStale, TypeOK, Rows, Row
  <2> QED BY <1>1, <2>2 DEF RecoverStale, TypeOK, counters, Rows
<1>2. CASE ClaimNext(w)
  <2>1. CASE Rest(w) /\ UNCHANGED row
    BY <1>2, <2>1 DEF ClaimNext, Rest, TypeOK, counters
  <2>2. ASSUME NEW a \in Analyses, row[a].status = "uploaded",
               row' = [row EXCEPT ![a] = Row("processing", @.attempts + 1, 0)],
               worker' = [worker EXCEPT ![w] =
                 [at |-> "select", a |-> a, attempts |-> row[a].attempts + 1,
                  mine |-> {}, todo |-> {}, forced |-> FALSE]]
        PROVE  TypeOK'
    <3>1. row[a].attempts \in Nat
      BY <2>2, RowType
    <3>2. row' \in [Analyses -> {Absent, Removed} \cup Rows]
      BY <2>2, <3>1 DEF TypeOK, Rows, Row
    <3>3. [at |-> "select", a |-> a, attempts |-> row[a].attempts + 1,
           mine |-> {}, todo |-> {}, forced |-> FALSE] \in Works
      BY <3>1 DEF Works, Places
    <3> QED BY <1>2, <2>2, <3>2, <3>3 DEF ClaimNext, TypeOK, counters, Rows, Works
  <2> QED BY <1>2, <2>1, <2>2 DEF ClaimNext
<1>3. CASE MarkReady(w)
  <2> DEFINE a == worker[w].a
  <2>0. worker[w].at \in Places
    BY <1>3 DEF MarkReady, Places
  <2>1. a \in Analyses
    BY <2>0, WorkerType DEF Works
  <2>2. Exists(a) => Row("ready", row[a].attempts, Null) \in Rows
    BY <2>1, RowType DEF Rows, Row
  <2>3. row' \in [Analyses -> {Absent, Removed} \cup Rows]
    BY <1>3, <2>1, <2>2, UpdateType DEF MarkReady
  <2> QED BY <1>3, <2>3 DEF MarkReady, Rest, TypeOK, counters, Rows
<1>4. CASE Fail(w)
  <2> DEFINE a == worker[w].a
             exhausted == worker[w].forced \/ worker[w].attempts >= MaxAttempts
             new == Row(IF exhausted THEN "failed" ELSE "uploaded", row[a].attempts, Null)
  <2>0. worker[w].at \in Places
    BY <1>4 DEF Fail, Places
  <2>1. a \in Analyses
    BY <2>0, WorkerType DEF Works
  <2>2. Exists(a) => new \in Rows
    BY <2>1, RowType DEF Rows, Row
  <2>3. UpdateRow(a, new)
    BY <1>4 DEF Fail
  <2>4. row' \in [Analyses -> {Absent, Removed} \cup Rows]
    BY <2>1, <2>2, <2>3, UpdateType
  <2> QED BY <1>4, <2>4 DEF Fail, Rest, TypeOK, counters, Rows
<1> QED BY <1>1, <1>2, <1>3, <1>4

\* The steps within a run: the row stays, the worker goes on or fails.
Within(w) ==
    \/ SelectDocs(w) \/ Extract(w) \/ Throw(w)
    \/ \E d \in Docs : Ocr(w, d) \/ Wipe(w, d) \/ Embed(w, d)

\* Documents a worker holds, or may take.
Known(w, d) ==
    \/ worker[w].at \in Places /\ d \in worker[w].mine \cup worker[w].todo
    \/ doc[d] # NoDoc

\* A worker within a run keeps its analysis and its attempts.
LEMMA WithinRun ==
    ASSUME TypeOK, NEW w \in Workers, Within(w)
    PROVE  /\ worker[w] \in Works
           /\ \E new \in Works : /\ worker' = [worker EXCEPT ![w] = new]
                                 /\ new.a = worker[w].a
                                 /\ new.attempts = worker[w].attempts
                                 /\ \A d \in new.mine \cup new.todo : Known(w, d)
           /\ UNCHANGED <<row, req, disturbed, requests, stops>>
<1> DEFINE Goes == \E new \in Works : /\ worker' = [worker EXCEPT ![w] = new]
                                      /\ new.a = worker[w].a
                                      /\ new.attempts = worker[w].attempts
                                      /\ \A d \in new.mine \cup new.todo : Known(w, d)
<1>1. worker[w].at \in Places
  BY DEF Within, SelectDocs, Extract, Throw, Ocr, Wipe, Embed, Places
<1>2. worker[w] \in Works
  BY <1>1, WorkerType
<1>3. worker \in [Workers -> {worker[v] : v \in Workers}]
  BY DEF TypeOK
<1>4. ASSUME NEW at \in Places, NEW todo \in SUBSET Docs, GoTo(w, at, todo),
             todo \subseteq worker[w].mine \cup worker[w].todo
      PROVE  Goes
  <2>1. worker' = [worker EXCEPT ![w] = [worker[w] EXCEPT !.at = at, !.todo = todo]]
    BY <1>2, <1>3, <1>4 DEF GoTo, Works
  <2>2. [worker[w] EXCEPT !.at = at, !.todo = todo] \in Works
    BY <1>1, <1>4, WorkerType
  <2> QED BY <1>1, <1>2, <1>4, <2>1, <2>2 DEF Works, Known
<1>5. ASSUME NEW forced \in BOOLEAN, FailWith(w, forced)
      PROVE  Goes
  <2>1. worker' = [worker EXCEPT ![w] = [worker[w] EXCEPT !.at = "fail", !.forced = forced]]
    BY <1>2, <1>3, <1>5 DEF FailWith, Works
  <2>2. [worker[w] EXCEPT !.at = "fail", !.forced = forced] \in Works
    BY <1>1, <1>5, WorkerType
  <2> QED BY <1>1, <1>2, <2>1, <2>2 DEF Works, Known
<1>6. worker[w].mine \in SUBSET Docs /\ worker[w].todo \in SUBSET Docs
  BY <1>2 DEF Works
<1>7. CASE SelectDocs(w)
  <2> DEFINE mine == DocsOf(worker[w].a)
  <2>1. CASE FailWith(w, FALSE)
    BY <1>2, <1>5, <1>7, <2>1 DEF SelectDocs, tables, counters
  <2>2. CASE worker' = [worker EXCEPT ![w].at = "ocr", ![w].mine = mine, ![w].todo = mine]
    <3>1. [worker[w] EXCEPT !.at = "ocr", !.mine = mine, !.todo = mine] \in Works
      BY <1>2 DEF Works, Places, DocsOf
    <3>2. worker' = [worker EXCEPT ![w] = [worker[w] EXCEPT !.at = "ocr", !.mine = mine,
                                                             !.todo = mine]]
      BY <1>2, <1>3, <2>2 DEF Works
    <3>3. Goes
      BY <1>2, <3>1, <3>2 DEF Works, Known, DocsOf
    <3> QED BY <1>2, <1>7, <3>3 DEF SelectDocs, tables, counters
  <2> QED BY <1>7, <2>1, <2>2 DEF SelectDocs
<1>8. CASE Extract(w)
  <2>1. GoTo(w, "wipe", worker[w].mine) \/ (\E forced \in BOOLEAN : FailWith(w, forced))
    BY <1>8 DEF Extract
  <2>2. "wipe" \in Places
    BY DEF Places
  <2>3. ASSUME GoTo(w, "wipe", worker[w].mine) PROVE Goes
    BY <1>4, <1>6, <2>2, <2>3
  <2>4. ASSUME NEW forced \in BOOLEAN, FailWith(w, forced) PROVE Goes
    BY <1>5, <2>4
  <2>5. Goes
    BY <2>1, <2>3, <2>4
  <2> QED BY <1>2, <1>8, <2>5 DEF Extract, tables, counters
<1>9. ASSUME NEW d \in Docs, Ocr(w, d)
      PROVE  Goes /\ UNCHANGED <<row, req, disturbed, requests, stops>>
  <2>1. GoTo(w, "extract", {}) \/ GoTo(w, "ocr", worker[w].todo \ {d}) \/ FailWith(w, FALSE)
    BY <1>9 DEF Ocr
  <2>2. ASSUME GoTo(w, "extract", {}) PROVE Goes
    <3>1. "extract" \in Places /\ {} \in SUBSET Docs
      BY <1>6 DEF Places
    <3> QED BY <1>4, <2>2, <3>1
  <2>3. ASSUME GoTo(w, "ocr", (worker[w].todo \ {d})) PROVE Goes
    <3>1. "ocr" \in Places /\ (worker[w].todo \ {d}) \in SUBSET Docs
      BY <1>6 DEF Places
    <3> QED BY <1>4, <2>3, <3>1
  <2>4. ASSUME FailWith(w, FALSE) PROVE Goes
    BY <1>5, <2>4
  <2> QED BY <1>9, <2>1, <2>2, <2>3, <2>4 DEF Ocr, counters
<1>10. ASSUME NEW d \in Docs, Wipe(w, d)
       PROVE  Goes /\ UNCHANGED <<row, req, disturbed, requests, stops>>
  <2>1. GoTo(w, "embed", worker[w].mine) \/ GoTo(w, "wipe", worker[w].todo \ {d})
    BY <1>10 DEF Wipe
  <2>2. ASSUME GoTo(w, "embed", worker[w].mine) PROVE Goes
    <3>1. "embed" \in Places /\ worker[w].mine \in SUBSET Docs
      BY <1>6 DEF Places
    <3> QED BY <1>4, <2>2, <3>1
  <2>3. ASSUME GoTo(w, "wipe", (worker[w].todo \ {d})) PROVE Goes
    <3>1. "wipe" \in Places /\ (worker[w].todo \ {d}) \in SUBSET Docs
      BY <1>6 DEF Places
    <3> QED BY <1>4, <2>3, <3>1
  <2> QED BY <1>10, <2>1, <2>2, <2>3 DEF Wipe, counters
<1>11. ASSUME NEW d \in Docs, Embed(w, d)
       PROVE  Goes /\ UNCHANGED <<row, req, disturbed, requests, stops>>
  <2>1. \/ GoTo(w, "ready", worker[w].todo \ {d}) \/ GoTo(w, "embed", worker[w].todo \ {d})
        \/ FailWith(w, FALSE)
    BY <1>11 DEF Embed
  <2>2. ASSUME GoTo(w, "ready", (worker[w].todo \ {d})) PROVE Goes
    <3>1. "ready" \in Places /\ (worker[w].todo \ {d}) \in SUBSET Docs
      BY <1>6 DEF Places
    <3> QED BY <1>4, <2>2, <3>1
  <2>3. ASSUME GoTo(w, "embed", (worker[w].todo \ {d})) PROVE Goes
    <3>1. "embed" \in Places /\ (worker[w].todo \ {d}) \in SUBSET Docs
      BY <1>6 DEF Places
    <3> QED BY <1>4, <2>3, <3>1
  <2>4. ASSUME FailWith(w, FALSE) PROVE Goes
    BY <1>5, <2>4
  <2> QED BY <1>11, <2>1, <2>2, <2>3, <2>4 DEF Embed, counters
<1>12. CASE Throw(w)
  <2>1. Goes
    BY <1>5, <1>12 DEF Throw
  <2> QED BY <1>2, <1>12, <2>1 DEF Throw, tables, counters
<1> QED BY <1>2, <1>7, <1>8, <1>9, <1>10, <1>11, <1>12 DEF Within

\* The documents and the chunks a run writes.
LEMMA WithinType ==
    ASSUME TypeOK, ClaimsAreOfDocs, NEW w \in Workers, Within(w)
    PROVE  TypeOK'
<1> DEFINE DocType == {NoDoc, RemovedDoc} \cup [ocr : {"pending", "done", "failed"}, of : Analyses]
<1>1. PICK new \in Works : worker' = [worker EXCEPT ![w] = new]
  BY WithinRun
<1>2. UNCHANGED <<row, req, disturbed, requests, stops>>
  BY WithinRun
<1>3. doc' \in [Docs -> DocType]
  <2>1. CASE UNCHANGED doc
    BY <2>1 DEF TypeOK
  <2>2. ASSUME NEW d \in Docs, Ocr(w, d), doc' # doc
        PROVE  doc' \in [Docs -> DocType]
    <3>1. PICK ocr \in {"done", "failed"} : doc' = [doc EXCEPT ![d].ocr = ocr]
      BY <2>2 DEF Ocr
    <3>2. doc[d] \notin {NoDoc, RemovedDoc}
      BY <2>2 DEF Ocr, ClaimsAreOfDocs, Places
    <3>3. doc[d] \in [ocr : {"pending", "done", "failed"}, of : Analyses]
      BY <3>2 DEF TypeOK
    <3>4. [doc[d] EXCEPT !.ocr = ocr] \in [ocr : {"pending", "done", "failed"}, of : Analyses]
      BY <3>3
    <3> QED BY <3>1, <3>4 DEF TypeOK
  <2> QED BY <2>1, <2>2 DEF Within, SelectDocs, Extract, Throw, Wipe, Embed, tables
<1>4. chunks' \in [Docs -> Nat]
  <2>1. CASE UNCHANGED chunks
    BY <2>1 DEF TypeOK
  <2>2. ASSUME NEW d \in Docs, NEW n \in Nat, chunks' = [chunks EXCEPT ![d] = n]
        PROVE  chunks' \in [Docs -> Nat]
    BY <2>2 DEF TypeOK
  <2>3. ASSUME NEW d \in Docs, Wipe(w, d)
        PROVE  chunks' = [chunks EXCEPT ![d] = 0]
    BY <2>3 DEF Wipe
  <2>4. ASSUME NEW d \in Docs, Embed(w, d), chunks' # chunks
        PROVE  chunks' = [chunks EXCEPT ![d] = chunks[d] + 1] /\ chunks[d] + 1 \in Nat
    <3>1. chunks' = [chunks EXCEPT ![d] = chunks[d] + 1]
      BY <2>4 DEF Embed
    <3> QED BY <3>1 DEF TypeOK
  <2> QED BY <2>1, <2>2, <2>3, <2>4 DEF Within, SelectDocs, Extract, Throw, Ocr, tables
<1> QED BY <1>1, <1>2, <1>3, <1>4 DEF TypeOK, Works

LEMMA NextType == TypeOK /\ ClaimsAreOfDocs /\ [Next]_vars => TypeOK'
<1> SUFFICES ASSUME TypeOK, ClaimsAreOfDocs, [Next]_vars PROVE TypeOK'
  OBVIOUS
<1>1. CASE UNCHANGED vars
  BY <1>1 DEF vars, TypeOK
<1>2. ASSUME NEW w \in Workers, Advance(w)
      PROVE  TypeOK'
  BY <1>2, RunsType, WithinType DEF Advance, Within
<1> QED BY <1>1, <1>2, RequestsType, OthersType DEF Next

-----------------------------------------------------------------------------
\* What claims rest on

\* Rows and documents, once there, never become absent again.
LEMMA NothingIsForgotten ==
    ASSUME TypeOK, ClaimsAreOfDocs, [Next]_vars
    PROVE  /\ \A a \in Analyses : row[a] # Absent => row'[a] # Absent
           /\ \A d \in Docs : doc[d] # NoDoc => doc'[d] # NoDoc
<1>1. ASSUME NEW h \in Handlers, Request(h)
      PROVE  /\ \A a \in Analyses : row[a] # Absent => row'[a] # Absent
             /\ \A d \in Docs : doc[d] # NoDoc => doc'[d] # NoDoc
  <2>1. CASE UNCHANGED <<row, doc>>
    BY <2>1
  <2>2. ASSUME NEW d \in Docs, InsertDoc(h, d)
        PROVE  UNCHANGED row /\ doc'[d] # NoDoc /\ \A e \in Docs : e # d => doc'[e] = doc[e]
    BY <2>2 DEF InsertDoc, TypeOK, NoDoc
  <2>3. CASE Submit(h)
    <3> DEFINE a == req[h].a
    <3>1. UpdateRow(a, [row[a] EXCEPT !.status = "uploaded"]) /\ UNCHANGED doc
      BY <2>3 DEF Submit
    <3>2. a \in Analyses
      BY <2>3, RequestType DEF Submit
    <3>3. Exists(a) => [row[a] EXCEPT !.status = "uploaded"] # Absent
      BY <3>2, RowType DEF Rows, Absent
    <3> QED BY <3>1, <3>2, <3>3 DEF UpdateRow, TypeOK
  <2>4. CASE Reset(h)
    BY <2>4 DEF Reset, UpdateRow, Row, TypeOK, Absent
  <2> QED BY <1>1, <2>1, <2>2, <2>3, <2>4
          DEF Request, RequestUpload, RequestSubmit, RequestResubmit, RequestRerun, Ask,
              Abandon, tables
<1>2. ASSUME NEW a \in Analyses, Create(a) \/ Remove(a)
      PROVE  /\ \A b \in Analyses : row[b] # Absent => row'[b] # Absent
             /\ \A d \in Docs : doc[d] # NoDoc => doc'[d] # NoDoc
  BY <1>2 DEF Create, Remove, Row, TypeOK, Absent, Removed, NoDoc, RemovedDoc
<1>3. ASSUME NEW w \in Workers, RecoverStale(w) \/ ClaimNext(w) \/ MarkReady(w) \/ Fail(w)
      PROVE  /\ \A a \in Analyses : row[a] # Absent => row'[a] # Absent
             /\ UNCHANGED doc
  <2>1. CASE RecoverStale(w)
    BY <2>1 DEF RecoverStale, Row, TypeOK, Absent
  <2>2. CASE ClaimNext(w)
    BY <2>2 DEF ClaimNext, Row, TypeOK, Absent
  <2>3. CASE MarkReady(w)
    BY <2>3 DEF MarkReady, UpdateRow, Row, TypeOK, Absent
  <2>4. CASE Fail(w)
    BY <2>4 DEF Fail, UpdateRow, Row, TypeOK, Absent
  <2> QED BY <1>3, <2>1, <2>2, <2>3, <2>4
<1>4. ASSUME NEW w \in Workers, Within(w)
      PROVE  /\ UNCHANGED row
             /\ \A d \in Docs : doc[d] # NoDoc => doc'[d] # NoDoc
  <2>1. UNCHANGED row
    BY <1>4, WithinRun
  <2>2. ASSUME NEW d \in Docs, Ocr(w, d)
        PROVE  \A e \in Docs : doc[e] # NoDoc => doc'[e] # NoDoc
    <3>1. doc[d] = RemovedDoc \/ doc[d] \in [ocr : {"pending", "done", "failed"}, of : Analyses]
      BY <2>2 DEF Ocr, TypeOK, ClaimsAreOfDocs, Places
    <3>2. UNCHANGED doc \/ \E ocr \in {"done", "failed"} : doc' = [doc EXCEPT ![d] = [doc[d] EXCEPT !.ocr = ocr]]
      BY <2>2 DEF Ocr
    <3>3. doc[d] # RemovedDoc => \A ocr \in {"done", "failed"} : [doc[d] EXCEPT !.ocr = ocr] # NoDoc
      BY <3>1 DEF NoDoc
    <3>4. doc[d] = RemovedDoc => UNCHANGED doc
      BY <2>2 DEF Ocr
    <3> QED BY <3>2, <3>3, <3>4 DEF TypeOK
  <2> QED BY <1>4, <2>1, <2>2 DEF Within, SelectDocs, Extract, Throw, Wipe, Embed, tables
<1>5. ASSUME NEW w \in Workers, Stop(w)
      PROVE  UNCHANGED <<row, doc>>
  BY <1>5 DEF Stop, tables
<1>6. CASE Tick
  <2>1. \A a \in Analyses : Exists(a) => [row[a] EXCEPT !.age = @ + 1] # Absent
    BY RowType DEF Rows, Absent
  <2> QED BY <1>6, <2>1 DEF Tick, TypeOK
<1>7. CASE UNCHANGED vars
  BY <1>7 DEF vars
<1> QED BY <1>1, <1>2, <1>3, <1>4, <1>5, <1>6, <1>7 DEF Next, Advance, Within

\* The step claims nothing: who works on an analysis afterwards did so before.
NoClaim ==
    \A w \in Workers, a \in Analyses :
        WorksOn(w, a)' => WorksOn(w, a) /\ worker'[w].attempts = worker[w].attempts

\* A step that claims nothing keeps the claims exclusive, where it leaves an analysis as it
\* is, removes it, or writes it while nobody works on it.
LEMMA ClaimsKept ==
    ASSUME Inv, TypeOK', NoClaim, disturbed \subseteq disturbed',
           \A a \in Analyses \ disturbed' :
               \/ row'[a].status = row[a].status /\ (Exists(a) => row'[a].attempts = row[a].attempts)
               \/ ~Exists(a)'
               \/ ~InWork(a)' /\ Calm(a)'
    PROVE  ClaimsAreExclusive' /\ AttemptsAreLeft'
<1> SUFFICES ASSUME NEW a \in Analyses \ disturbed', Exists(a)'
             PROVE  /\ Calm(a)'
                    /\ \A w \in Workers : WorksOn(w, a)' =>
                         /\ row'[a].status = "processing"
                         /\ row'[a].attempts = worker'[w].attempts
                         /\ \A v \in Workers \ {w} : ~WorksOn(v, a)'
  BY DEF ClaimsAreExclusive, AttemptsAreLeft, Calm, Exists
<1>1. CASE ~InWork(a)' /\ Calm(a)'
  BY <1>1 DEF InWork
<1>2. CASE row'[a].status = row[a].status /\ (Exists(a) => row'[a].attempts = row[a].attempts)
  <2>1. row'[a].status \in {"draft", "uploaded", "processing", "ready", "failed"}
    BY DEF TypeOK, Exists
  <2>2. Exists(a)
    BY <1>2, <2>1, RowType DEF Inv
  <2>3. Calm(a)'
    BY <1>2, <2>2 DEF Inv, AttemptsAreLeft, Calm
  <2>4. \A w \in Workers : WorksOn(w, a) =>
            /\ row[a].status = "processing"
            /\ row[a].attempts = worker[w].attempts
            /\ \A v \in Workers \ {w} : ~WorksOn(v, a)
    BY <2>2 DEF Inv, ClaimsAreExclusive
  <2> QED BY <1>2, <2>2, <2>3, <2>4 DEF NoClaim
<1> QED BY <1>1, <1>2

\* Nobody works on an analysis that is not being processed, nor on one that is not there yet.
LEMMA FreeWhenNotProcessing ==
    ASSUME Inv, NEW a \in Analyses \ disturbed
    PROVE  /\ Exists(a) /\ row[a].status # "processing" => ~InWork(a)
           /\ row[a] = Absent => ~InWork(a)
BY DEF Inv, ClaimsAreExclusive, ClaimsAreOfRows, InWork

-----------------------------------------------------------------------------
\* Each action keeps the claims.

LEMMA RequestsKeepClaims ==
    ASSUME Inv, TypeOK', NEW h \in Handlers, Request(h)
    PROVE  NoClaim /\ ClaimsAreExclusive' /\ AttemptsAreLeft'
<1>1. UNCHANGED worker
  BY DEF Request, RequestUpload, RequestSubmit, RequestResubmit, RequestRerun, Ask, InsertDoc,
         Submit, Reset, Abandon
<1>2. NoClaim
  BY <1>1 DEF NoClaim, WorksOn
<1>3. \A a \in Analyses : InWork(a)' <=> InWork(a)
  BY <1>1 DEF InWork, WorksOn
<1>4. CASE UNCHANGED row /\ disturbed \subseteq disturbed'
  BY <1>2, <1>4, ClaimsKept
<1>5. CASE Submit(h)
  <2> DEFINE b == req[h].a
  <2>1. /\ b \in Analyses
        /\ UpdateRow(b, [row[b] EXCEPT !.status = "uploaded"])
        /\ disturbed' = IF row[b].status = "draft" THEN disturbed ELSE disturbed \cup {b}
    BY <1>5, RequestType DEF Submit, Inv
  <2>2. ASSUME NEW a \in Analyses \ disturbed', row'[a] # row[a]
        PROVE  ~InWork(a)' /\ Calm(a)'
    <3>1. a = b /\ Exists(b) /\ row[b].status = "draft" /\ a \in Analyses \ disturbed
      BY <2>1, <2>2 DEF UpdateRow, Inv, TypeOK
    <3>2. ~InWork(a)'
      BY <1>3, <3>1, FreeWhenNotProcessing
    <3>3. row[a] \in Rows /\ row'[a] = [row[a] EXCEPT !.status = "uploaded"]
      BY <2>1, <3>1, RowType DEF UpdateRow, Inv, TypeOK
    <3>4. row'[a].status = "uploaded" /\ row'[a].attempts = row[a].attempts
      BY <3>3 DEF Rows
    <3>5. row[a].attempts = 0
      BY <3>1 DEF Inv, AttemptsAreLeft, Calm
    <3> QED BY <3>2, <3>4, <3>5, PipelineAssumption DEF Calm
  <2>3. disturbed \subseteq disturbed'
    BY <2>1
  <2>4. \A a \in Analyses \ disturbed' :
            \/ row'[a].status = row[a].status /\ (Exists(a) => row'[a].attempts = row[a].attempts)
            \/ ~InWork(a)' /\ Calm(a)'
    BY <2>2
  <2> QED BY <1>2, <2>3, <2>4, ClaimsKept
<1>6. CASE Reset(h)
  <2> DEFINE b == req[h].a
  <2>1. /\ b \in Analyses
        /\ UpdateRow(b, Row("uploaded", 0, Null))
        /\ disturbed' = IF InWork(b) THEN disturbed \cup {b} ELSE disturbed
    BY <1>6, RequestType DEF Reset, Inv
  <2>2. ASSUME NEW a \in Analyses \ disturbed', row'[a] # row[a]
        PROVE  ~InWork(a)' /\ Calm(a)'
    <3>1. a = b /\ ~InWork(a)
      BY <2>1, <2>2 DEF UpdateRow, Inv, TypeOK
    <3>2. row'[a] = Row("uploaded", 0, Null)
      BY <2>1, <2>2, <3>1 DEF UpdateRow, Inv, TypeOK
    <3> QED BY <1>3, <3>1, <3>2, PipelineAssumption DEF Calm, Row
  <2>3. disturbed \subseteq disturbed'
    BY <2>1
  <2>4. \A a \in Analyses \ disturbed' :
            \/ row'[a].status = row[a].status /\ (Exists(a) => row'[a].attempts = row[a].attempts)
            \/ ~InWork(a)' /\ Calm(a)'
    BY <2>2
  <2> QED BY <1>2, <2>3, <2>4, ClaimsKept
<1> QED BY <1>2, <1>4, <1>5, <1>6
        DEF Request, RequestUpload, RequestSubmit, RequestResubmit, RequestRerun, Ask, InsertDoc,
            Abandon, tables

LEMMA OthersKeepClaims ==
    ASSUME Inv, TypeOK',
           \/ \E a \in Analyses : Create(a) \/ Remove(a)
           \/ \E w \in Workers : Stop(w)
           \/ Tick
           \/ UNCHANGED vars
    PROVE  NoClaim /\ ClaimsAreExclusive' /\ AttemptsAreLeft'
<1>1. ASSUME NEW b \in Analyses, Create(b)
      PROVE  NoClaim /\ ClaimsAreExclusive' /\ AttemptsAreLeft'
  <2>1. NoClaim /\ UNCHANGED disturbed
    BY <1>1 DEF Create, NoClaim, WorksOn
  <2>2. row' = [row EXCEPT ![b] = Row("draft", 0, Null)] /\ row[b] = Absent
    BY <1>1 DEF Create
  <2>3. b \notin disturbed => ~InWork(b)'
    BY <1>1, <2>2, FreeWhenNotProcessing DEF Create, InWork, WorksOn
  <2>4. Calm(b)'
    BY <2>2, PipelineAssumption DEF Calm, Row, Inv, TypeOK
  <2>5. \A a \in Analyses : a # b => row'[a] = row[a]
    BY <2>2 DEF Inv, TypeOK
  <2> QED BY <2>1, <2>3, <2>4, <2>5, ClaimsKept
<1>2. ASSUME NEW b \in Analyses, Remove(b)
      PROVE  NoClaim /\ ClaimsAreExclusive' /\ AttemptsAreLeft'
  <2>1. NoClaim /\ UNCHANGED disturbed
    BY <1>2 DEF Remove, NoClaim, WorksOn
  <2>2. row' = [row EXCEPT ![b] = Removed]
    BY <1>2 DEF Remove
  <2>3. ~Exists(b)'
    BY <2>2 DEF Exists, Inv, TypeOK
  <2>4. \A a \in Analyses : a # b => row'[a] = row[a]
    BY <2>2 DEF Inv, TypeOK
  <2> QED BY <2>1, <2>3, <2>4, ClaimsKept
<1>3. ASSUME NEW w \in Workers, Stop(w)
      PROVE  NoClaim /\ ClaimsAreExclusive' /\ AttemptsAreLeft'
  <2>1. NoClaim
    BY <1>3 DEF Stop, Rest, NoClaim, WorksOn, Inv, TypeOK, Idle
  <2> QED BY <1>3, <2>1, ClaimsKept DEF Stop, tables
<1>4. CASE Tick
  <2>1. NoClaim /\ UNCHANGED disturbed
    BY <1>4 DEF Tick, NoClaim, WorksOn
  <2>2. ASSUME NEW a \in Analyses
        PROVE  row'[a].status = row[a].status /\ (Exists(a) => row'[a].attempts = row[a].attempts)
    <3>1. \/ row'[a] = row[a]
          \/ Exists(a) /\ row'[a] = [row[a] EXCEPT !.age = @ + 1]
      BY <1>4 DEF Tick
    <3>2. Exists(a) => row[a] \in Rows
      BY RowType DEF Inv
    <3> QED BY <3>1, <3>2 DEF Rows
  <2> QED BY <2>1, <2>2, ClaimsKept
<1>5. CASE UNCHANGED vars
  <2>1. NoClaim
    BY <1>5 DEF vars, NoClaim, WorksOn
  <2> QED BY <1>5, <2>1, ClaimsKept DEF vars
<1> QED BY <1>1, <1>2, <1>3, <1>4, <1>5

LEMMA WorkersKeepClaims ==
    ASSUME Inv, TypeOK', NEW w \in Workers, Advance(w)
    PROVE  ClaimsAreExclusive' /\ AttemptsAreLeft' /\ (~ClaimNext(w) => NoClaim)
<1>1. CASE Within(w)
  <2>1. PICK new \in Works : /\ worker' = [worker EXCEPT ![w] = new]
                             /\ new.a = worker[w].a
                             /\ new.attempts = worker[w].attempts
    BY <1>1, WithinRun DEF Inv
  <2>2. worker[w] \in Works /\ UNCHANGED <<row, disturbed>>
    BY <1>1, WithinRun DEF Inv
  <2>3. NoClaim
    BY <2>1, <2>2 DEF NoClaim, WorksOn, Works, Places, Inv, TypeOK
  <2> QED BY <2>2, <2>3, ClaimsKept
<1>2. CASE RecoverStale(w)
  <2> DEFINE stale == {a \in Analyses : row[a].status = "processing" /\ row[a].age > Stale}
  <2>1. NoClaim
    BY <1>2 DEF RecoverStale, NoClaim, WorksOn, Inv, TypeOK
  <2>2. disturbed' = disturbed \cup {a \in stale : InWork(a)}
    BY <1>2 DEF RecoverStale
  <2>3. \A a \in Analyses \ stale : row'[a] = row[a]
    BY <1>2 DEF RecoverStale
  <2>4. ASSUME NEW a \in stale, a \notin disturbed'
        PROVE  ~InWork(a)' /\ Calm(a)'
    <3>1. ~InWork(a)'
      BY <2>1, <2>2, <2>4 DEF NoClaim, InWork
    <3>2. Exists(a) /\ a \in Analyses \ disturbed
      BY <2>2, <2>4, RowType DEF Inv
    <3>3. row[a].attempts \in Nat /\ row[a].attempts <= MaxAttempts
      BY <3>2, RowType DEF Inv, AttemptsAreLeft, Calm
    <3>4. row'[a] = Row(IF row[a].attempts >= MaxAttempts THEN "failed" ELSE "uploaded",
                        row[a].attempts, Null)
      BY <1>2 DEF RecoverStale
    <3> QED BY <3>1, <3>3, <3>4, PipelineAssumption DEF Calm, Row
  <2> QED BY <2>1, <2>2, <2>3, <2>4, ClaimsKept
<1>3. CASE MarkReady(w) \/ Fail(w)
  <2>0. worker[w].at \in Places
    BY <1>3 DEF MarkReady, Fail, Places
  <2>1. PICK b \in Analyses : b = worker[w].a /\ WorksOn(w, b)
    BY <2>0, WorkerType DEF Inv, Works
  <2>2. worker' = [worker EXCEPT ![w] = Idle] /\ UNCHANGED disturbed
    BY <1>3 DEF MarkReady, Fail, Rest
  <2>3. NoClaim
    BY <2>2 DEF NoClaim, WorksOn, Idle, Inv, TypeOK
  <2>4. ~Exists(b) => UNCHANGED row
    BY <1>3, <2>1 DEF MarkReady, Fail, UpdateRow
  <2>5. \A a \in Analyses : a # b => row'[a] = row[a]
    BY <1>3, <2>1 DEF MarkReady, Fail, UpdateRow, Inv, TypeOK
  <2>6. ASSUME Exists(b), b \notin disturbed
        PROVE  ~InWork(b)' /\ Calm(b)'
    <3>1. /\ row[b].attempts = worker[w].attempts
          /\ \A v \in Workers \ {w} : ~WorksOn(v, b)
      BY <2>1, <2>6 DEF Inv, ClaimsAreExclusive
    <3>2. ~InWork(b)'
      BY <2>1, <2>2, <2>3, <3>1 DEF InWork, WorksOn, NoClaim, Idle, Inv, TypeOK
    <3>3. row[b].attempts \in Nat /\ row[b].attempts <= MaxAttempts
      BY <2>1, <2>6, RowType DEF Inv, AttemptsAreLeft, Calm
    <3>4. CASE MarkReady(w)
      <4>1. row'[b] = Row("ready", row[b].attempts, Null)
        BY <2>1, <2>6, <3>4 DEF MarkReady, UpdateRow, Inv, TypeOK
      <4> QED BY <3>2, <3>3, <4>1 DEF Calm, Row
    <3>5. CASE Fail(w)
      <4> DEFINE exhausted == worker[w].forced \/ worker[w].attempts >= MaxAttempts
      <4>1. row'[b] = Row(IF exhausted THEN "failed" ELSE "uploaded", row[b].attempts, Null)
        BY <2>1, <2>6, <3>5 DEF Fail, UpdateRow, Inv, TypeOK
      <4>2. ~exhausted => row[b].attempts < MaxAttempts
        BY <3>1, <3>3, PipelineAssumption
      <4> QED BY <3>2, <3>3, <4>1, <4>2 DEF Calm, Row
    <3> QED BY <1>3, <3>4, <3>5
  <2> QED BY <2>2, <2>3, <2>4, <2>5, <2>6, ClaimsKept
<1>4. CASE ClaimNext(w)
  <2>0. worker[w].at = "claim" /\ UNCHANGED disturbed
    BY <1>4 DEF ClaimNext
  <2>1. CASE Rest(w) /\ UNCHANGED row
    <3>1. NoClaim
      BY <2>1 DEF Rest, NoClaim, WorksOn, Idle, Inv, TypeOK
    <3> QED BY <1>4, <2>0, <2>1, <3>1, ClaimsKept
  <2>2. ASSUME NEW b \in Analyses, row[b].status = "uploaded",
               row' = [row EXCEPT ![b] = Row("processing", @.attempts + 1, 0)],
               worker' = [worker EXCEPT ![w] =
                 [at |-> "select", a |-> b, attempts |-> row[b].attempts + 1,
                  mine |-> {}, todo |-> {}, forced |-> FALSE]]
        PROVE  ClaimsAreExclusive' /\ AttemptsAreLeft'
    <3>1. row'[b] = Row("processing", row[b].attempts + 1, 0)
      BY <2>2 DEF Inv, TypeOK
    <3>2. \A a \in Analyses : a # b => row'[a] = row[a]
      BY <2>2 DEF Inv, TypeOK
    <3>3. /\ WorksOn(w, b)' /\ worker'[w].attempts = row[b].attempts + 1
          /\ \A a \in Analyses : a # b => ~WorksOn(w, a)'
      BY <2>2 DEF WorksOn, Inv, TypeOK
    <3>4. \A v \in Workers \ {w} : worker'[v] = worker[v]
      BY <2>2 DEF Inv, TypeOK
    <3>5. \A v \in Workers \ {w}, a \in Analyses : WorksOn(v, a)' <=> WorksOn(v, a)
      BY <3>4 DEF WorksOn
    <3>6. Exists(b) /\ row[b].attempts \in Nat
      BY <2>2, RowType DEF Inv
    <3>7. b \notin disturbed => ~InWork(b) /\ row[b].attempts < MaxAttempts
      BY <2>2, <3>6, FreeWhenNotProcessing DEF Inv, AttemptsAreLeft, Calm
    <3>8. ClaimsAreExclusive'
      <4> SUFFICES ASSUME NEW a \in Analyses \ disturbed', NEW v \in Workers,
                          Exists(a)', WorksOn(v, a)'
                   PROVE  /\ row'[a].status = "processing"
                          /\ row'[a].attempts = worker'[v].attempts
                          /\ \A u \in Workers \ {v} : ~WorksOn(u, a)'
        BY DEF ClaimsAreExclusive
      <4>1. CASE a = b
        <5>1. v = w /\ \A u \in Workers \ {w} : ~WorksOn(u, a)'
          BY <2>0, <3>5, <3>7, <4>1 DEF InWork
        <5> QED BY <3>1, <3>3, <4>1, <5>1 DEF Row
      <4>2. CASE a # b
        <5>1. v # w /\ WorksOn(v, a) /\ Exists(a)
          BY <3>2, <3>3, <3>5, <4>2 DEF Exists
        <5>2. /\ row[a].status = "processing"
              /\ row[a].attempts = worker[v].attempts
              /\ \A u \in Workers \ {v} : ~WorksOn(u, a)
          BY <2>0, <5>1 DEF Inv, ClaimsAreExclusive
        <5> QED BY <3>2, <3>3, <3>4, <3>5, <4>2, <5>1, <5>2
      <4> QED BY <4>1, <4>2
    <3>9. AttemptsAreLeft'
      <4> SUFFICES ASSUME NEW a \in Analyses \ disturbed' PROVE Calm(a)'
        BY DEF AttemptsAreLeft
      <4>1. CASE a = b
        BY <2>0, <3>1, <3>6, <3>7, <4>1, PipelineAssumption DEF Calm, Row
      <4>2. CASE a # b
        BY <2>0, <3>2, <4>2 DEF Calm, Exists, Inv, AttemptsAreLeft
      <4> QED BY <4>1, <4>2
    <3> QED BY <3>8, <3>9
  <2> QED BY <1>4, <2>1, <2>2 DEF ClaimNext
<1> QED BY <1>1, <1>2, <1>3, <1>4 DEF Advance, Within

\* A claim is of an analysis that was created, and documents are read before they are held.
LEMMA ClaimsAreKnown ==
    ASSUME Inv, TypeOK', [Next]_vars
    PROVE  ClaimsAreOfRows' /\ ClaimsAreOfDocs'
<1> DEFINE Kept == \A v \in Workers : worker'[v].at \in Places =>
                       \A d \in worker'[v].mine \cup worker'[v].todo : Known(v, d)
<1>1. /\ \A a \in Analyses : row[a] # Absent => row'[a] # Absent
      /\ \A d \in Docs : doc[d] # NoDoc => doc'[d] # NoDoc
  BY NothingIsForgotten DEF Inv
<1>2. ASSUME NoClaim PROVE ClaimsAreOfRows'
  BY <1>1, <1>2 DEF NoClaim, ClaimsAreOfRows, Inv
<1>3. ASSUME Kept PROVE ClaimsAreOfDocs'
  <2> SUFFICES ASSUME NEW v \in Workers, worker'[v].at \in Places,
                      NEW d \in worker'[v].mine \cup worker'[v].todo
               PROVE  doc'[d] # NoDoc
    BY DEF ClaimsAreOfDocs
  <2>1. d \in Docs
    BY DEF TypeOK, Places, Idle
  <2>2. Known(v, d)
    BY <1>3
  <2>3. doc[d] # NoDoc
    BY <2>2 DEF Known, ClaimsAreOfDocs, Inv
  <2> QED BY <1>1, <2>1, <2>3
<1>4. ASSUME UNCHANGED worker PROVE Kept
  BY <1>4 DEF Known
<1>5. ASSUME NEW w \in Workers, NEW new, worker' = [worker EXCEPT ![w] = new],
             new.at \in Places => \A d \in new.mine \cup new.todo : Known(w, d)
      PROVE  Kept
  BY <1>5 DEF Known, Inv, TypeOK
<1>6. ASSUME NEW h \in Handlers, Request(h)
      PROVE  ClaimsAreOfRows' /\ ClaimsAreOfDocs'
  <2>1. UNCHANGED worker
    BY <1>6 DEF Request, RequestUpload, RequestSubmit, RequestResubmit, RequestRerun, Ask,
                InsertDoc, Submit, Reset, Abandon
  <2> QED BY <1>2, <1>3, <1>4, <1>6, <2>1, RequestsKeepClaims
<1>7. ASSUME \/ \E a \in Analyses : Create(a) \/ Remove(a)
             \/ Tick
             \/ UNCHANGED vars
      PROVE  ClaimsAreOfRows' /\ ClaimsAreOfDocs'
  <2>1. UNCHANGED worker
    BY <1>7 DEF Create, Remove, Tick, vars
  <2> QED BY <1>2, <1>3, <1>4, <1>7, <2>1, OthersKeepClaims
<1>8. ASSUME NEW w \in Workers, Stop(w)
      PROVE  ClaimsAreOfRows' /\ ClaimsAreOfDocs'
  <2>1. Kept
    BY <1>5, <1>8 DEF Stop, Rest, Idle, Places
  <2> QED BY <1>2, <1>3, <1>8, <2>1, OthersKeepClaims
<1>9. ASSUME NEW w \in Workers, Within(w)
      PROVE  ClaimsAreOfRows' /\ ClaimsAreOfDocs'
  <2>1. Kept
    BY <1>5, <1>9, WithinRun DEF Inv
  <2>2. Advance(w) /\ ~ClaimNext(w)
    BY <1>9 DEF Advance, Within, ClaimNext, SelectDocs, Extract, Throw, Ocr, Wipe, Embed,
                Places
  <2> QED BY <1>2, <1>3, <2>1, <2>2, WorkersKeepClaims
<1>10. ASSUME NEW w \in Workers, RecoverStale(w) \/ MarkReady(w) \/ Fail(w)
       PROVE  ClaimsAreOfRows' /\ ClaimsAreOfDocs'
  <2>1. Kept
    <3>1. \E new \in {Idle, [at |-> "claim"]} : worker' = [worker EXCEPT ![w] = new]
      BY <1>10 DEF RecoverStale, MarkReady, Fail, Rest
    <3> QED BY <1>5, <3>1 DEF Idle, Places
  <2>2. Advance(w) /\ ~ClaimNext(w)
    BY <1>10 DEF Advance, ClaimNext, RecoverStale, MarkReady, Fail, Idle
  <2> QED BY <1>2, <1>3, <2>1, <2>2, WorkersKeepClaims
<1>11. ASSUME NEW w \in Workers, ClaimNext(w)
       PROVE  ClaimsAreOfRows' /\ ClaimsAreOfDocs'
  <2>1. CASE Rest(w) /\ UNCHANGED row
    <3>1. Kept
      BY <1>5, <2>1 DEF Rest, Idle, Places
    <3>2. NoClaim
      BY <2>1 DEF Rest, NoClaim, WorksOn, Idle, Inv, TypeOK
    <3> QED BY <1>2, <1>3, <3>1, <3>2
  <2>2. ASSUME NEW b \in Analyses, row[b].status = "uploaded",
               worker' = [worker EXCEPT ![w] =
                 [at |-> "select", a |-> b, attempts |-> row[b].attempts + 1,
                  mine |-> {}, todo |-> {}, forced |-> FALSE]]
        PROVE  ClaimsAreOfRows' /\ ClaimsAreOfDocs'
    <3>1. Kept
      BY <1>5, <2>2
    <3>2. row[b] # Absent
      BY <2>2, RowType DEF Inv, Exists
    <3>3. \A v \in Workers, a \in Analyses : WorksOn(v, a)' => WorksOn(v, a) \/ a = b
      BY <2>2 DEF WorksOn, Inv, TypeOK
    <3>4. ClaimsAreOfRows'
      BY <1>1, <3>2, <3>3 DEF ClaimsAreOfRows, Inv
    <3> QED BY <1>3, <3>1, <3>4
  <2> QED BY <1>11, <2>1, <2>2 DEF ClaimNext
<1> QED BY <1>6, <1>7, <1>8, <1>9, <1>10, <1>11 DEF Next, Advance, Within

LEMMA NextInv == Inv /\ [Next]_vars => Inv'
<1> SUFFICES ASSUME Inv, [Next]_vars PROVE Inv'
  OBVIOUS
<1>1. TypeOK'
  BY NextType DEF Inv
<1>2. ClaimsAreOfRows' /\ ClaimsAreOfDocs'
  BY <1>1, ClaimsAreKnown
<1>3. ClaimsAreExclusive' /\ AttemptsAreLeft'
  BY <1>1, RequestsKeepClaims, OthersKeepClaims, WorkersKeepClaims DEF Next
<1> QED BY <1>1, <1>2, <1>3 DEF Inv

\* In every reachable state Inv holds.
LEMMA InvHolds == Spec => []Inv
BY InitInv, NextInv, PTL DEF Spec

-----------------------------------------------------------------------------
\* Every variable of the pipeline has its type, whatever is removed under a worker.
THEOREM PipelineTypeCorrect == Spec => []TypeOK
<1>1. Inv => TypeOK
  BY DEF Inv
<1> QED BY <1>1, InvHolds, PTL

\* claimNext gives an analysis to one worker at a time, and its row says which attempt that
\* is, for any number of processes and in spite of every stop, retry and recovery, unless
\* somebody wrote on what he had read earlier.
THEOREM ClaimsExclusive == Spec => []ClaimsAreExclusive
<1>1. Inv => ClaimsAreExclusive
  BY DEF Inv
<1> QED BY <1>1, InvHolds, PTL

\* No analysis is tried more than ASTE_PIPELINE_MAX_ATTEMPTS times, under that proviso: fail
\* and recoverStale leave none submitted that is out of attempts.
THEOREM AttemptsBounded == Spec => []AttemptsAreBounded
<1>1. Inv => AttemptsAreBounded
  BY DEF Inv, AttemptsAreLeft, Calm, AttemptsAreBounded
<1> QED BY <1>1, InvHolds, PTL

-----------------------------------------------------------------------------
\* What is ready is indexed

\* What a worker holds are documents of its analysis, unless they were removed since.
HoldsOwn(w) ==
    worker[w].at \in Places =>
        /\ worker[w].todo \subseteq worker[w].mine
        /\ \A d \in worker[w].mine :
              doc[d] # NoDoc /\ (doc[d] = RemovedDoc \/ doc[d].of = worker[w].a)

\* The worker has read the documents of its analysis.
UnderWay(w) == worker[w].at \in {"ocr", "extract", "wipe", "embed", "ready"}

\* How far document d is for a worker that is at this place, and past d in it or not.
Far(d, at, past) ==
    /\ at # "ocr" \/ past => doc[d].ocr = "done"
    /\ at = "wipe" /\ past => chunks[d] = 0
    /\ at = "embed" => chunks[d] = IF past THEN 1 ELSE 0
    /\ at = "ready" => chunks[d] = 1

\* A worker whose analysis nobody disturbed has all of its documents, each as far as it says.
OnCourse(w) ==
    (UnderWay(w) /\ Exists(worker[w].a) /\ worker[w].a \notin disturbed) =>
        /\ worker[w].mine = DocsOf(worker[w].a)
        /\ worker[w].mine # {}
        /\ \A d \in worker[w].mine : Far(d, worker[w].at, d \notin worker[w].todo)

\* The documents of an analysis all went through OCR, and each is indexed once.
Indexed(a) ==
    /\ DocsOf(a) # {}
    /\ \A d \in DocsOf(a) : doc[d].ocr = "done" /\ chunks[d] = 1

ReadyIndexed == \A a \in Analyses \ disturbed : row[a].status = "ready" => Indexed(a)

IndexInv ==
    /\ Inv
    /\ \A w \in Workers : HoldsOwn(w) /\ OnCourse(w)
    /\ ReadyIndexed

\* A step leaves the documents of a and their chunks as they are.
Untouched(a) ==
    /\ DocsOf(a)' = DocsOf(a)
    /\ \A d \in DocsOf(a) : doc'[d] = doc[d] /\ chunks'[d] = chunks[d]

LEMMA InitIndex == Init => IndexInv
<1> SUFFICES ASSUME Init PROVE IndexInv
  OBVIOUS
<1>1. \A w \in Workers : HoldsOwn(w) /\ OnCourse(w)
  BY DEF Init, HoldsOwn, OnCourse, UnderWay, Idle, Places
<1>2. ReadyIndexed
  BY DEF Init, ReadyIndexed, Absent
<1> QED BY <1>1, <1>2, InitInv DEF IndexInv

\* A worker that moves on keeps its analysis and the documents it read.
LEMMA GoToMeans ==
    ASSUME TypeOK, NEW w \in Workers, worker[w].at \in Places, NEW at, NEW todo, GoTo(w, at, todo)
    PROVE  /\ worker'[w].at = at /\ worker'[w].todo = todo
           /\ worker'[w].mine = worker[w].mine /\ worker'[w].a = worker[w].a
           /\ \A v \in Workers \ {w} : worker'[v] = worker[v]
<1>1. worker[w] \in Works
  BY WorkerType
<1> QED BY <1>1 DEF GoTo, Works, TypeOK

LEMMA FailMeans ==
    ASSUME TypeOK, NEW w \in Workers, worker[w].at \in Places, NEW forced, FailWith(w, forced)
    PROVE  /\ worker'[w].at = "fail" /\ worker'[w].todo = worker[w].todo
           /\ worker'[w].mine = worker[w].mine /\ worker'[w].a = worker[w].a
           /\ \A v \in Workers \ {w} : worker'[v] = worker[v]
<1>1. worker[w] \in Works
  BY WorkerType
<1> QED BY <1>1 DEF FailWith, Works, TypeOK

LEMMA SelectMeans ==
    ASSUME TypeOK, NEW w \in Workers, worker[w].at \in Places, NEW mine,
           worker' = [worker EXCEPT ![w].at = "ocr", ![w].mine = mine, ![w].todo = mine]
    PROVE  /\ worker'[w].at = "ocr" /\ worker'[w].todo = mine
           /\ worker'[w].mine = mine /\ worker'[w].a = worker[w].a
           /\ \A v \in Workers \ {w} : worker'[v] = worker[v]
<1>1. worker[w] \in Works
  BY WorkerType
<1> QED BY <1>1 DEF Works, TypeOK

\* A document stays with its analysis until it is removed with it.
LEMMA DocsStay ==
    ASSUME Inv, [Next]_vars, NEW d \in Docs, doc[d] # NoDoc
    PROVE  /\ doc'[d] # NoDoc
           /\ doc'[d] = RemovedDoc \/ (doc[d] # RemovedDoc /\ doc'[d].of = doc[d].of)
<1>1. doc'[d] # NoDoc
  BY NothingIsForgotten DEF Inv
<1>2. CASE doc'[d] = doc[d]
  BY <1>1, <1>2
<1>3. ASSUME NEW a \in Analyses, Remove(a)
      PROVE  doc'[d] = doc[d] \/ doc'[d] = RemovedDoc
  BY <1>3 DEF Remove
<1>4. ASSUME NEW h \in Handlers, Request(h)
      PROVE  doc'[d] = doc[d]
  <2>1. ASSUME NEW e \in Docs, InsertDoc(h, e)
        PROVE  doc'[d] = doc[d]
    BY <2>1 DEF InsertDoc, Inv, TypeOK
  <2> QED BY <1>4, <2>1 DEF Request, RequestUpload, RequestSubmit, RequestResubmit,
                            RequestRerun, Ask, Submit, Reset, Abandon, tables
<1>5. ASSUME NEW w \in Workers, NEW e \in Docs, Ocr(w, e), doc'[d] # doc[d]
      PROVE  doc[d] # RemovedDoc /\ doc'[d].of = doc[d].of
  <2>1. PICK ocr \in {"done", "failed"} :
          doc' = IF doc[e] = RemovedDoc THEN doc ELSE [doc EXCEPT ![e].ocr = ocr]
    BY <1>5 DEF Ocr
  <2>2. doc[e] # RemovedDoc /\ doc' = [doc EXCEPT ![e].ocr = ocr] /\ d = e
    BY <1>5, <2>1 DEF Inv, TypeOK
  <2>3. doc[d] \in [ocr : {"pending", "done", "failed"}, of : Analyses]
    BY <2>2 DEF Inv, TypeOK
  <2> QED BY <2>2, <2>3 DEF Inv, TypeOK
<1>6. ASSUME NEW w \in Workers, Advance(w) \/ Stop(w)
      PROVE  doc'[d] = doc[d] \/ (doc[d] # RemovedDoc /\ doc'[d].of = doc[d].of)
  BY <1>5, <1>6 DEF Advance, RecoverStale, ClaimNext, SelectDocs, Extract, Throw, Wipe, Embed,
                    MarkReady, Fail, Stop, tables
<1>7. ASSUME NEW a \in Analyses, Create(a)
      PROVE  UNCHANGED doc
  BY <1>7 DEF Create
<1>8. Tick \/ UNCHANGED vars => UNCHANGED doc
  BY DEF Tick, vars
<1> QED BY <1>1, <1>2, <1>3, <1>4, <1>6, <1>7, <1>8 DEF Next

\* After the step, v holds what it held, what it has just read, or nothing.
KeepsDocs(v) ==
    worker'[v].at \in Places =>
        /\ worker'[v].todo \subseteq worker'[v].mine
        /\ \/ worker'[v].mine = {}
           \/ worker'[v].a = worker[v].a /\ worker'[v].mine = DocsOf(worker[v].a)
           \/ /\ worker'[v].a = worker[v].a /\ worker'[v].mine = worker[v].mine
              /\ worker[v].at \in Places

LEMMA StepsKeepDocs ==
    ASSUME IndexInv, [Next]_vars, NEW v \in Workers
    PROVE  KeepsDocs(v)
<1>1. CASE worker'[v] = worker[v]
  BY <1>1 DEF KeepsDocs, IndexInv, HoldsOwn
<1>2. ASSUME NEW w \in Workers, RecoverStale(w) \/ MarkReady(w) \/ Fail(w) \/ Stop(w), v = w
      PROVE  KeepsDocs(v)
  BY <1>2 DEF RecoverStale, MarkReady, Fail, Stop, Rest, Idle, KeepsDocs, Places, IndexInv, Inv,
              TypeOK
<1>3. ASSUME NEW w \in Workers, ClaimNext(w), v = w
      PROVE  KeepsDocs(v)
  <2>1. CASE Rest(w)
    BY <1>3, <2>1 DEF Rest, Idle, KeepsDocs, Places, IndexInv, Inv, TypeOK
  <2>2. ASSUME NEW b \in Analyses,
               worker' = [worker EXCEPT ![w] =
                 [at |-> "select", a |-> b, attempts |-> row[b].attempts + 1,
                  mine |-> {}, todo |-> {}, forced |-> FALSE]]
        PROVE  KeepsDocs(v)
    <3>1. worker'[v].todo = {} /\ worker'[v].mine = {}
      BY <1>3, <2>2 DEF IndexInv, Inv, TypeOK
    <3> QED BY <3>1 DEF KeepsDocs
  <2> QED BY <1>3, <2>1, <2>2 DEF ClaimNext
<1>4. ASSUME NEW w \in Workers, Within(w), v = w
      PROVE  KeepsDocs(v)
  <2>1. /\ worker[w].at \in Places /\ TypeOK
        /\ worker[w].todo \subseteq worker[w].mine
    BY <1>4 DEF IndexInv, Inv, HoldsOwn, Within, SelectDocs, Extract, Throw, Ocr, Wipe, Embed,
                Places
  <2>2. ASSUME NEW forced, FailWith(w, forced)
        PROVE  KeepsDocs(v)
    BY <1>4, <2>1, <2>2, FailMeans DEF KeepsDocs
  <2>3. ASSUME NEW at, NEW todo \in SUBSET worker[w].mine, GoTo(w, at, todo)
        PROVE  KeepsDocs(v)
    BY <1>4, <2>1, <2>3, GoToMeans DEF KeepsDocs
  <2>4. CASE SelectDocs(w)
    <3> DEFINE mine == DocsOf(worker[w].a)
    <3>1. CASE worker' = [worker EXCEPT ![w].at = "ocr", ![w].mine = mine, ![w].todo = mine]
      <4> HIDE DEF mine
      <4>1. /\ worker'[w].todo = mine /\ worker'[w].mine = mine
            /\ worker'[w].a = worker[w].a
        BY <2>1, <3>1, SelectMeans
      <4> QED BY <1>4, <4>1 DEF KeepsDocs, mine
    <3> QED BY <2>2, <2>4, <3>1 DEF SelectDocs
  <2>5. CASE Extract(w)
    BY <2>2, <2>3, <2>5 DEF Extract
  <2>9. CASE Throw(w)
    BY <2>2, <2>9 DEF Throw
  <2>6. ASSUME NEW d \in Docs, Ocr(w, d)
        PROVE  KeepsDocs(v)
    <3>1. {} \in SUBSET worker[w].mine /\ (worker[w].todo \ {d}) \in SUBSET worker[w].mine
      BY <2>1
    <3>2. GoTo(w, "extract", {}) \/ GoTo(w, "ocr", worker[w].todo \ {d}) \/ FailWith(w, FALSE)
      BY <2>6 DEF Ocr
    <3>3. GoTo(w, "extract", {}) => KeepsDocs(v)
      BY <2>3, <3>1
    <3>4. GoTo(w, "ocr", worker[w].todo \ {d}) => KeepsDocs(v)
      BY <2>3, <3>1
    <3> QED BY <2>2, <3>2, <3>3, <3>4
  <2>7. ASSUME NEW d \in Docs, Wipe(w, d)
        PROVE  KeepsDocs(v)
    <3>1. /\ worker[w].mine \in SUBSET worker[w].mine
          /\ (worker[w].todo \ {d}) \in SUBSET worker[w].mine
      BY <2>1
    <3>2. GoTo(w, "embed", worker[w].mine) \/ GoTo(w, "wipe", worker[w].todo \ {d})
      BY <2>7 DEF Wipe
    <3>3. GoTo(w, "embed", worker[w].mine) => KeepsDocs(v)
      BY <2>3, <3>1
    <3>4. GoTo(w, "wipe", worker[w].todo \ {d}) => KeepsDocs(v)
      BY <2>3, <3>1
    <3> QED BY <3>2, <3>3, <3>4
  <2>8. ASSUME NEW d \in Docs, Embed(w, d)
        PROVE  KeepsDocs(v)
    <3>1. (worker[w].todo \ {d}) \in SUBSET worker[w].mine
      BY <2>1
    <3>2. (\E at \in {"ready", "embed"} : GoTo(w, at, worker[w].todo \ {d})) \/ FailWith(w, FALSE)
      BY <2>8 DEF Embed
    <3>3. \A at \in {"ready", "embed"} : GoTo(w, at, worker[w].todo \ {d}) => KeepsDocs(v)
      BY <2>3, <3>1
    <3> QED BY <2>2, <3>2, <3>3
  <2> QED BY <1>4, <2>4, <2>5, <2>6, <2>7, <2>8, <2>9 DEF Within
<1>5. ASSUME NEW w \in Workers, Advance(w) \/ Stop(w), v # w
      PROVE  worker'[v] = worker[v]
  <2>1. \E new : worker' = [worker EXCEPT ![w] = new]
    <3>1. CASE Within(w)
      BY <3>1, WithinRun DEF IndexInv, Inv
    <3>2. CASE RecoverStale(w) \/ ClaimNext(w) \/ MarkReady(w) \/ Fail(w) \/ Stop(w)
      BY <3>2 DEF RecoverStale, ClaimNext, MarkReady, Fail, Stop, Rest
    <3> QED BY <1>5, <3>1, <3>2 DEF Advance, Within
  <2> QED BY <1>5, <2>1 DEF IndexInv, Inv, TypeOK
<1>6. ASSUME NEW a \in Analyses, Create(a) \/ Remove(a) \/ Tick \/ UNCHANGED vars
      PROVE  UNCHANGED worker
  BY <1>6 DEF Create, Remove, Tick, vars
<1>7. ASSUME NEW h \in Handlers, Request(h)
      PROVE  UNCHANGED worker
  BY <1>7 DEF Request, RequestUpload, RequestSubmit, RequestResubmit, RequestRerun, Ask,
              InsertDoc, Submit, Reset, Abandon
<1>8. Tick \/ UNCHANGED vars => UNCHANGED worker
  BY DEF Tick, vars
<1> QED BY <1>1, <1>2, <1>3, <1>4, <1>5, <1>6, <1>7, <1>8 DEF Next, Advance, Within

LEMMA HoldsOwnKept ==
    ASSUME IndexInv, TypeOK', [Next]_vars, NEW v \in Workers
    PROVE  HoldsOwn(v)'
<1> SUFFICES ASSUME worker'[v].at \in Places
             PROVE  /\ worker'[v].todo \subseteq worker'[v].mine
                    /\ \A d \in worker'[v].mine :
                          doc'[d] # NoDoc /\ (doc'[d] = RemovedDoc \/ doc'[d].of = worker'[v].a)
  BY DEF HoldsOwn
<1>1. KeepsDocs(v)
  BY StepsKeepDocs
<1>2. worker'[v].mine \subseteq Docs
  BY DEF TypeOK, Places, Idle
<1>3. ASSUME NEW d \in worker'[v].mine
      PROVE  doc[d] # NoDoc /\ (doc[d] = RemovedDoc \/ doc[d].of = worker'[v].a)
  <2>1. CASE worker'[v].a = worker[v].a /\ worker'[v].mine = DocsOf(worker[v].a)
    BY <1>3, <2>1 DEF DocsOf
  <2>2. CASE /\ worker'[v].a = worker[v].a /\ worker'[v].mine = worker[v].mine
             /\ worker[v].at \in Places
    BY <1>3, <2>2 DEF IndexInv, HoldsOwn
  <2> QED BY <1>1, <1>3, <2>1, <2>2 DEF KeepsDocs
<1>4. ASSUME NEW d \in worker'[v].mine
      PROVE  doc'[d] # NoDoc /\ (doc'[d] = RemovedDoc \/ doc'[d].of = worker'[v].a)
  BY <1>2, <1>3, <1>4, DocsStay DEF IndexInv
<1> QED BY <1>1, <1>4 DEF KeepsDocs

\* A worker that does not move stays on course, if the documents of its analysis are left alone.
LEMMA CourseFrame ==
    ASSUME NEW v \in Workers, worker'[v] = worker[v], OnCourse(v), NEW a, a = worker[v].a,
           UnderWay(v) /\ Exists(a)' /\ a \notin disturbed' =>
               Exists(a) /\ a \notin disturbed /\ Untouched(a)
    PROVE  OnCourse(v)'
<1>1. CASE ~UnderWay(v) \/ ~Exists(a)' \/ a \in disturbed'
  BY <1>1 DEF OnCourse, UnderWay, Exists
<1>2. CASE UnderWay(v) /\ Exists(a)' /\ a \notin disturbed'
  <2>1. Exists(a) /\ a \notin disturbed /\ Untouched(a)
    BY <1>2
  <2>2. /\ worker[v].mine = DocsOf(a)
        /\ worker[v].mine # {}
        /\ \A d \in worker[v].mine : Far(d, worker[v].at, d \notin worker[v].todo)
    BY <1>2, <2>1 DEF OnCourse
  <2>3. worker'[v].a = a /\ worker'[v].mine = DocsOf(a)' /\ worker'[v].mine # {}
    BY <2>1, <2>2 DEF Untouched
  <2>4. \A d \in worker'[v].mine : doc'[d] = doc[d] /\ chunks'[d] = chunks[d]
    BY <2>1, <2>2 DEF Untouched
  <2> QED BY <2>2, <2>3, <2>4 DEF OnCourse, Far, DocsOf
<1> QED BY <1>1, <1>2

\* A step that takes no worker further, and leaves the documents of an analysis alone unless
\* nobody works on it and it is not ready, keeps the index complete.
LEMMA IndexFrame ==
    ASSUME IndexInv, TypeOK', disturbed \subseteq disturbed',
           \A v \in Workers : worker'[v] = worker[v] \/ ~UnderWay(v)',
           \A a \in Analyses \ disturbed' : Exists(a)' =>
               \/ Exists(a) /\ Untouched(a) /\ (row'[a].status = "ready" => row[a].status = "ready")
               \/ row'[a].status # "ready" /\ ~InWork(a)
    PROVE  (\A v \in Workers : OnCourse(v)') /\ ReadyIndexed'
<1>1. ASSUME NEW v \in Workers PROVE OnCourse(v)'
  <2>1. CASE ~UnderWay(v)'
    BY <2>1 DEF OnCourse
  <2>2. CASE worker'[v] = worker[v] /\ UnderWay(v)
    <3>1. worker[v].at \in Places
      BY <2>2 DEF UnderWay, Places
    <3>2. PICK a \in Analyses : a = worker[v].a /\ InWork(a)
      BY <3>1, WorkerType DEF IndexInv, Inv, Works, InWork
    <3>3. Exists(a)' /\ a \notin disturbed' => Exists(a) /\ a \notin disturbed /\ Untouched(a)
      BY <3>2
    <3>4. OnCourse(v)
      BY DEF IndexInv
    <3> QED BY <2>2, <3>2, <3>3, <3>4, CourseFrame
  <2>3. worker'[v] = worker[v] => (UnderWay(v)' = UnderWay(v))
    BY DEF UnderWay
  <2> QED BY <2>1, <2>2, <2>3
<1>2. ASSUME NEW a \in Analyses \ disturbed', row'[a].status = "ready" PROVE Indexed(a)'
  <2>1. Exists(a)'
    BY <1>2 DEF Exists, Absent, Removed
  <2>2. row[a].status = "ready" /\ Untouched(a)
    BY <1>2, <2>1
  <2>3. Indexed(a)
    BY <2>2 DEF IndexInv, ReadyIndexed
  <2> QED BY <2>2, <2>3 DEF Indexed, Untouched
<1> QED BY <1>1, <1>2 DEF ReadyIndexed

LEMMA RequestsKeepIndex ==
    ASSUME IndexInv, TypeOK', NEW h \in Handlers, Request(h)
    PROVE  (\A v \in Workers : OnCourse(v)') /\ ReadyIndexed'
<1>1. UNCHANGED worker
  BY DEF Request, RequestUpload, RequestSubmit, RequestResubmit, RequestRerun, Ask,
         InsertDoc, Submit, Reset, Abandon
<1>2. disturbed \subseteq disturbed'
  BY DEF Request, RequestUpload, RequestSubmit, RequestResubmit, RequestRerun, Ask,
         InsertDoc, Submit, Reset, Abandon
<1>3. CASE UNCHANGED <<row, doc, chunks>>
  BY <1>1, <1>2, <1>3, IndexFrame DEF Exists, Untouched, DocsOf
<1>4. ASSUME NEW d \in Docs, InsertDoc(h, d)
      PROVE  (\A v \in Workers : OnCourse(v)') /\ ReadyIndexed'
  <2>1. PICK b \in Analyses :
          /\ doc[d] = NoDoc /\ doc' = [doc EXCEPT ![d] = [ocr |-> "pending", of |-> b]]
          /\ UNCHANGED <<row, chunks>>
          /\ disturbed' = IF row[b].status = "draft" THEN disturbed ELSE disturbed \cup {b}
    BY <1>4, RequestType DEF InsertDoc, IndexInv, Inv
  <2>2. ASSUME NEW a \in Analyses \ disturbed', Exists(a)', a # b
        PROVE  Untouched(a)
    <3>1. DocsOf(a)' = DocsOf(a)
      BY <2>1, <2>2 DEF DocsOf, IndexInv, Inv, TypeOK
    <3>2. d \notin DocsOf(a)
      BY <2>1 DEF DocsOf
    <3> QED BY <2>1, <3>1, <3>2 DEF Untouched, DocsOf, IndexInv, Inv, TypeOK
  <2>3. ASSUME b \notin disturbed', Exists(b)'
        PROVE  row'[b].status # "ready" /\ ~InWork(b)
    <3>1. row[b].status = "draft" /\ b \in Analyses \ disturbed /\ Exists(b)
      BY <2>1, <2>3 DEF Exists
    <3> QED BY <2>1, <3>1, FreeWhenNotProcessing DEF IndexInv
  <2>4. \A a \in Analyses : Exists(a)' = Exists(a)
    BY <2>1 DEF Exists
  <2> QED BY <1>1, <1>2, <2>1, <2>2, <2>3, <2>4, IndexFrame
<1>5. CASE Submit(h) \/ Reset(h)
  <2>1. UNCHANGED <<doc, chunks>>
    BY <1>5 DEF Submit, Reset
  <2>2. \A a \in Analyses : Untouched(a)
    BY <2>1 DEF Untouched, DocsOf
  <2>3. ASSUME NEW a \in Analyses, Exists(a)'
        PROVE  Exists(a) /\ (row'[a] = row[a] \/ row'[a].status = "uploaded")
    <3>1. PICK b \in Analyses : b = req[h].a
      BY <1>5, RequestType DEF Submit, Reset, IndexInv, Inv
    <3>2. PICK new : UpdateRow(b, new) /\ (Exists(b) => new.status = "uploaded")
      <4>1. Exists(b) => [row[b] EXCEPT !.status = "uploaded"].status = "uploaded"
        BY RowType DEF IndexInv, Inv, Rows
      <4>2. Row("uploaded", 0, Null).status = "uploaded"
        BY DEF Row
      <4> QED BY <1>5, <3>1, <4>1, <4>2 DEF Submit, Reset
    <3> QED BY <2>3, <3>2 DEF UpdateRow, Exists, IndexInv, Inv, TypeOK
  <2> QED BY <1>1, <1>2, <2>2, <2>3, IndexFrame
<1> QED BY <1>3, <1>4, <1>5
        DEF Request, RequestUpload, RequestSubmit, RequestResubmit, RequestRerun, Ask, Abandon,
            tables

LEMMA OthersKeepIndex ==
    ASSUME IndexInv, TypeOK',
           \/ \E a \in Analyses : Create(a) \/ Remove(a)
           \/ \E w \in Workers : Stop(w)
           \/ Tick
           \/ UNCHANGED vars
    PROVE  (\A v \in Workers : OnCourse(v)') /\ ReadyIndexed'
<1>1. ASSUME NEW b \in Analyses, Create(b)
      PROVE  (\A v \in Workers : OnCourse(v)') /\ ReadyIndexed'
  <2>1. /\ row[b] = Absent /\ row' = [row EXCEPT ![b] = Row("draft", 0, Null)]
        /\ UNCHANGED <<doc, chunks, worker, disturbed>>
    BY <1>1 DEF Create
  <2>2. \A a \in Analyses : Untouched(a)
    BY <2>1 DEF Untouched, DocsOf
  <2>3. b \notin disturbed => row'[b].status # "ready" /\ ~InWork(b)
    BY <2>1, FreeWhenNotProcessing DEF Row, IndexInv, Inv, TypeOK
  <2>4. \A a \in Analyses : a # b => row'[a] = row[a] /\ Exists(a)' = Exists(a)
    BY <2>1 DEF Exists, IndexInv, Inv, TypeOK
  <2> QED BY <2>1, <2>2, <2>3, <2>4, IndexFrame
<1>2. ASSUME NEW b \in Analyses, Remove(b)
      PROVE  (\A v \in Workers : OnCourse(v)') /\ ReadyIndexed'
  <2>1. /\ row' = [row EXCEPT ![b] = Removed]
        /\ doc' = [d \in Docs |-> IF d \in DocsOf(b) THEN RemovedDoc ELSE doc[d]]
        /\ chunks' = [d \in Docs |-> IF d \in DocsOf(b) THEN 0 ELSE chunks[d]]
        /\ UNCHANGED <<worker, disturbed>>
    BY <1>2 DEF Remove
  <2>2. ~Exists(b)'
    BY <2>1 DEF Exists, IndexInv, Inv, TypeOK
  <2>3. ASSUME NEW a \in Analyses, a # b
        PROVE  Untouched(a) /\ row'[a] = row[a] /\ Exists(a)' = Exists(a)
    <3>1. row'[a] = row[a] /\ Exists(a)' = Exists(a)
      BY <2>1, <2>3 DEF Exists, IndexInv, Inv, TypeOK
    <3>2. \A d \in DocsOf(a) : d \in Docs /\ d \notin DocsOf(b)
      BY <2>3 DEF DocsOf
    <3>3. \A d \in DocsOf(a) : doc'[d] = doc[d] /\ chunks'[d] = chunks[d]
      BY <2>1, <3>2
    <3>4. DocsOf(a)' = DocsOf(a)
      BY <2>1, <2>3 DEF DocsOf
    <3> QED BY <3>1, <3>3, <3>4 DEF Untouched
  <2> QED BY <2>1, <2>2, <2>3, IndexFrame
<1>3. ASSUME NEW w \in Workers, Stop(w)
      PROVE  (\A v \in Workers : OnCourse(v)') /\ ReadyIndexed'
  <2>1. UNCHANGED <<row, doc, chunks, disturbed>> /\ worker' = [worker EXCEPT ![w] = Idle]
    BY <1>3 DEF Stop, Rest, tables
  <2>2. \A v \in Workers : worker'[v] = worker[v] \/ ~UnderWay(v)'
    BY <2>1 DEF UnderWay, Idle, IndexInv, Inv, TypeOK
  <2>3. \A a \in Analyses : Untouched(a) /\ Exists(a)' = Exists(a)
    BY <2>1 DEF Untouched, DocsOf, Exists
  <2> QED BY <2>1, <2>2, <2>3, IndexFrame
<1>4. CASE Tick
  <2>1. UNCHANGED <<doc, chunks, worker, disturbed>>
    BY <1>4 DEF Tick
  <2>2. \A a \in Analyses : Untouched(a)
    BY <2>1 DEF Untouched, DocsOf
  <2>3. ASSUME NEW a \in Analyses, Exists(a)'
        PROVE  Exists(a) /\ row'[a].status = row[a].status
    <3>1. \/ row'[a] = row[a]
          \/ Exists(a) /\ row'[a] = [row[a] EXCEPT !.age = @ + 1]
      BY <1>4 DEF Tick
    <3>2. Exists(a) => row[a] \in Rows
      BY RowType DEF IndexInv, Inv
    <3> QED BY <2>3, <3>1, <3>2 DEF Rows, Exists
  <2> QED BY <2>1, <2>2, <2>3, IndexFrame
<1>5. CASE UNCHANGED vars
  <2>1. UNCHANGED <<row, doc, chunks, worker, disturbed>>
    BY <1>5 DEF vars
  <2>2. \A a \in Analyses : Untouched(a) /\ Exists(a)' = Exists(a)
    BY <2>1 DEF Untouched, DocsOf, Exists
  <2> QED BY <2>1, <2>2, IndexFrame
<1> QED BY <1>1, <1>2, <1>3, <1>4, <1>5

\* The step of a worker that starts a run, or ends one.
LEMMA RunsKeepIndex ==
    ASSUME IndexInv, TypeOK', NEW w \in Workers,
           RecoverStale(w) \/ ClaimNext(w) \/ MarkReady(w) \/ Fail(w)
    PROVE  (\A v \in Workers : OnCourse(v)') /\ ReadyIndexed'
<1>1. UNCHANGED <<doc, chunks>> /\ disturbed \subseteq disturbed'
  BY DEF RecoverStale, ClaimNext, MarkReady, Fail
<1>2. \A a \in Analyses : Untouched(a)
  BY <1>1 DEF Untouched, DocsOf
<1>3. CASE RecoverStale(w)
  <2>1. worker' = [worker EXCEPT ![w] = [at |-> "claim"]]
    BY <1>3 DEF RecoverStale
  <2>2. \A v \in Workers : worker'[v] = worker[v] \/ ~UnderWay(v)'
    BY <2>1 DEF UnderWay, IndexInv, Inv, TypeOK
  <2>3. ASSUME NEW a \in Analyses
        PROVE  row'[a] = row[a] \/ (Exists(a) /\ row'[a].status \in {"failed", "uploaded"})
    <3>1. \/ row'[a] = row[a]
          \/ /\ row[a].status = "processing"
             /\ \E s \in {"failed", "uploaded"} : row'[a] = Row(s, row[a].attempts, Null)
      BY <1>3 DEF RecoverStale
    <3> QED BY <3>1, RowType DEF Row, IndexInv, Inv
  <2>4. \A a \in Analyses : Exists(a)' =>
            Exists(a) /\ (row'[a].status = "ready" => row[a].status = "ready")
    BY <2>3 DEF Exists
  <2> QED BY <1>1, <1>2, <2>2, <2>4, IndexFrame
<1>4. CASE ClaimNext(w)
  <2>1. CASE Rest(w) /\ UNCHANGED row
    <3>1. \A v \in Workers : worker'[v] = worker[v] \/ ~UnderWay(v)'
      BY <2>1 DEF Rest, Idle, UnderWay, IndexInv, Inv, TypeOK
    <3>2. \A a \in Analyses : Exists(a)' = Exists(a)
      BY <2>1 DEF Exists
    <3> QED BY <1>1, <1>2, <2>1, <3>1, <3>2, IndexFrame
  <2>2. ASSUME NEW b \in Analyses, row[b].status = "uploaded",
               row' = [row EXCEPT ![b] = Row("processing", @.attempts + 1, 0)],
               worker' = [worker EXCEPT ![w] =
                 [at |-> "select", a |-> b, attempts |-> row[b].attempts + 1,
                  mine |-> {}, todo |-> {}, forced |-> FALSE]]
        PROVE  (\A v \in Workers : OnCourse(v)') /\ ReadyIndexed'
    <3>1. \A v \in Workers : worker'[v] = worker[v] \/ ~UnderWay(v)'
      BY <2>2 DEF UnderWay, IndexInv, Inv, TypeOK
    <3>2. row'[b].status = "processing" /\ Exists(b)
      BY <2>2, RowType DEF Row, IndexInv, Inv, TypeOK
    <3>3. \A a \in Analyses : a # b => row'[a] = row[a] /\ Exists(a)' = Exists(a)
      BY <2>2 DEF Exists, IndexInv, Inv, TypeOK
    <3> QED BY <1>1, <1>2, <3>1, <3>2, <3>3, IndexFrame
  <2> QED BY <1>4, <2>1, <2>2 DEF ClaimNext
<1>5. CASE MarkReady(w) \/ Fail(w)
  <2>1. PICK b \in Analyses : b = worker[w].a /\ WorksOn(w, b)
    <3>1. worker[w].at \in Places
      BY <1>5 DEF MarkReady, Fail, Places
    <3> QED BY <3>1, WorkerType DEF IndexInv, Inv, Works
  <2>2. worker' = [worker EXCEPT ![w] = Idle] /\ UNCHANGED disturbed
    BY <1>5 DEF MarkReady, Fail, Rest
  <2>3. \A v \in Workers : worker'[v] = worker[v] \/ ~UnderWay(v)'
    BY <2>2 DEF Idle, UnderWay, IndexInv, Inv, TypeOK
  <2>4. PICK status \in {"ready", "failed", "uploaded"} :
          /\ UpdateRow(b, Row(status, row[b].attempts, Null))
          /\ status = "ready" => MarkReady(w)
    BY <1>5, <2>1 DEF MarkReady, Fail
  <2>5. \A a \in Analyses : a # b => row'[a] = row[a] /\ Exists(a)' = Exists(a)
    BY <2>4 DEF UpdateRow, Exists, IndexInv, Inv, TypeOK
  <2>6. Exists(b)' => Exists(b) /\ row'[b].status = status
    BY <2>4 DEF UpdateRow, Row, Exists, IndexInv, Inv, TypeOK
  <2>7. CASE status # "ready"
    BY <1>1, <1>2, <2>3, <2>5, <2>6, <2>7, IndexFrame
  <2>8. CASE MarkReady(w)
    <3>1. ASSUME Exists(b), b \notin disturbed PROVE Indexed(b)'
      <4>1. UnderWay(w) /\ worker[w].at = "ready" /\ OnCourse(w)
        BY <2>8 DEF MarkReady, UnderWay, IndexInv
      <4>2. Indexed(b)
        BY <2>1, <3>1, <4>1 DEF OnCourse, Far, Indexed
      <4> QED BY <1>2, <4>2 DEF Indexed, Untouched
    <3>2. ASSUME NEW v \in Workers PROVE OnCourse(v)'
      <4>1. CASE ~UnderWay(v)'
        BY <4>1 DEF OnCourse
      <4>2. CASE worker'[v] = worker[v] /\ UnderWay(v)
        <5>1. worker[v].at \in Places
          BY <4>2 DEF UnderWay, Places
        <5>2. PICK a \in Analyses : a = worker[v].a
          BY <5>1, WorkerType DEF IndexInv, Inv, Works
        <5>3. Exists(a)' => Exists(a)
          BY <2>5, <2>6
        <5>4. Exists(a)' /\ a \notin disturbed' => Exists(a) /\ a \notin disturbed /\ Untouched(a)
          BY <1>2, <2>2, <5>3
        <5>5. OnCourse(v)
          BY DEF IndexInv
        <5> QED BY <4>2, <5>2, <5>4, <5>5, CourseFrame
      <4>3. worker'[v] = worker[v] => (UnderWay(v)' = UnderWay(v))
        BY DEF UnderWay
      <4> QED BY <2>3, <4>1, <4>2, <4>3
    <3>3. ASSUME NEW a \in Analyses \ disturbed', row'[a].status = "ready" PROVE Indexed(a)'
      <4>1. Exists(a)'
        BY <3>3 DEF Exists, Absent, Removed
      <4>2. CASE a = b
        BY <2>2, <2>6, <3>1, <4>1, <4>2
      <4>3. CASE a # b
        <5>1. Indexed(a)
          BY <2>2, <2>5, <3>3, <4>3 DEF IndexInv, ReadyIndexed
        <5> QED BY <1>2, <5>1 DEF Indexed, Untouched
      <4> QED BY <4>2, <4>3
    <3> QED BY <3>2, <3>3 DEF ReadyIndexed
  <2> QED BY <2>4, <2>7, <2>8
<1> QED BY <1>3, <1>4, <1>5

\* Within a run a worker writes on the documents of its own analysis only.
LEMMA WithinOwn ==
    ASSUME IndexInv, NEW w \in Workers, Within(w), NEW a \in Analyses, a # worker[w].a
    PROVE  Untouched(a)
<1> DEFINE Own(d) == doc[d] # NoDoc /\ (doc[d] = RemovedDoc \/ doc[d].of = worker[w].a)
<1>1. CASE UNCHANGED <<doc, chunks>>
  BY <1>1 DEF Untouched, DocsOf
<1>2. worker[w].at \in Places
  BY DEF Within, SelectDocs, Extract, Throw, Ocr, Wipe, Embed, Places
<1>3. \A d \in worker[w].todo : Own(d) /\ d \notin DocsOf(a)
  BY <1>2 DEF IndexInv, HoldsOwn, DocsOf
<1>4. ASSUME NEW d \in Docs, Ocr(w, d)
      PROVE  Untouched(a)
  <2>1. Own(d) /\ d \notin DocsOf(a) /\ UNCHANGED chunks
    BY <1>3, <1>4 DEF Ocr
  <2>2. PICK ocr \in {"done", "failed"} :
          doc' = IF doc[d] = RemovedDoc THEN doc ELSE [doc EXCEPT ![d].ocr = ocr]
    BY <1>4 DEF Ocr
  <2>3. \A e \in Docs \ {d} : doc'[e] = doc[e]
    BY <2>2 DEF IndexInv, Inv, TypeOK
  <2>4. d \notin DocsOf(a)'
    <3>1. CASE doc[d] = RemovedDoc
      BY <2>2, <3>1 DEF DocsOf
    <3>2. CASE doc[d] # RemovedDoc
      <4>1. doc[d] \in [ocr : {"pending", "done", "failed"}, of : Analyses]
        BY <2>1, <3>2 DEF IndexInv, Inv, TypeOK
      <4>2. doc'[d] = [doc[d] EXCEPT !.ocr = ocr]
        BY <2>2, <3>2 DEF IndexInv, Inv, TypeOK
      <4>3. doc'[d].of = worker[w].a
        BY <2>1, <3>2, <4>1, <4>2
      <4> QED BY <4>3 DEF DocsOf
    <3> QED BY <3>1, <3>2
  <2>5. DocsOf(a)' = DocsOf(a)
    BY <2>1, <2>3, <2>4 DEF DocsOf
  <2> QED BY <2>1, <2>3, <2>5 DEF Untouched, DocsOf
<1>5. ASSUME NEW d \in Docs, Wipe(w, d) \/ Embed(w, d)
      PROVE  Untouched(a)
  <2>1. d \notin DocsOf(a) /\ UNCHANGED doc
    BY <1>3, <1>5 DEF Wipe, Embed
  <2>2. UNCHANGED chunks \/ \E n : chunks' = [chunks EXCEPT ![d] = n]
    BY <1>5 DEF Wipe, Embed
  <2>3. \A e \in Docs \ {d} : chunks'[e] = chunks[e]
    BY <2>2 DEF IndexInv, Inv, TypeOK
  <2> QED BY <2>1, <2>3 DEF Untouched, DocsOf
<1> QED BY <1>1, <1>4, <1>5 DEF Within, SelectDocs, Extract, Throw, tables

\* What OnCourse says of the worker after the step, its row and disturbed being as they were.
LEMMA CourseAfter ==
    ASSUME NEW w \in Workers, NEW a, worker'[w].a = a, UNCHANGED <<row, disturbed>>,
           (UnderWay(w)' /\ Exists(a) /\ a \notin disturbed) =>
               /\ worker'[w].mine = DocsOf(a)'
               /\ worker'[w].mine # {}
               /\ \A d \in worker'[w].mine : \A at, past :
                     at = worker'[w].at /\ past = (d \notin worker'[w].todo) => Far(d, at, past)'
    PROVE  OnCourse(w)'
<1>1. Exists(a)' = Exists(a)
  BY DEF Exists
<1> QED BY <1>1 DEF OnCourse, Far, DocsOf, Exists

\* A worker stays on course within its run.
LEMMA WithinOnCourse ==
    ASSUME IndexInv, NEW w \in Workers, Within(w)
    PROVE  OnCourse(w)'
<1>1. worker[w].at \in Places /\ TypeOK
  BY DEF IndexInv, Inv, Within, SelectDocs, Extract, Throw, Ocr, Wipe, Embed, Places
<1>2. PICK a \in Analyses : a = worker[w].a
  BY <1>1, WorkerType DEF Works
<1>3. UNCHANGED <<row, disturbed>>
  BY <1>1, WithinRun
<1>4. ASSUME NEW forced, FailWith(w, forced)
      PROVE  OnCourse(w)'
  <2>1. worker'[w].at = "fail"
    BY <1>1, <1>4, FailMeans
  <2> QED BY <2>1 DEF OnCourse, UnderWay
<1>5. \A d \in DocsOf(a) : d \in Docs /\ doc[d] \notin {NoDoc, RemovedDoc}
  BY DEF DocsOf
<1>6. ASSUME UnderWay(w), Exists(a), a \notin disturbed
      PROVE  /\ worker[w].mine = DocsOf(a)
             /\ worker[w].mine # {}
             /\ \A d \in worker[w].mine : Far(d, worker[w].at, d \notin worker[w].todo)
  BY <1>2, <1>6 DEF IndexInv, OnCourse
<1>7. CASE SelectDocs(w)
  <2> DEFINE mine == DocsOf(worker[w].a)
  <2>1. ASSUME worker' = [worker EXCEPT ![w].at = "ocr", ![w].mine = mine, ![w].todo = mine],
               mine # {}
        PROVE  OnCourse(w)'
    <3> HIDE DEF mine
    <3>1. /\ worker'[w].at = "ocr" /\ worker'[w].todo = mine
          /\ worker'[w].mine = mine /\ worker'[w].a = a
      BY <1>1, <1>2, <2>1, SelectMeans
    <3>2. mine = DocsOf(a)'
      BY <1>2, <1>7 DEF mine, SelectDocs, tables, DocsOf
    <3> QED BY <1>3, <2>1, <3>1, <3>2, CourseAfter DEF Far
  <2> QED BY <1>4, <1>7, <2>1 DEF SelectDocs
<1>8. CASE Extract(w)
  <2>1. ASSUME GoTo(w, "wipe", worker[w].mine)
        PROVE  OnCourse(w)'
    <3>1. /\ worker'[w].at = "wipe" /\ worker'[w].todo = worker[w].mine
          /\ worker'[w].mine = worker[w].mine /\ worker'[w].a = a
      BY <1>1, <1>2, <2>1, GoToMeans
    <3>2. UnderWay(w) /\ worker[w].at = "extract"
      BY <1>8 DEF Extract, UnderWay
    <3>3. UNCHANGED <<doc, chunks>> /\ DocsOf(a)' = DocsOf(a)
      BY <1>8 DEF Extract, tables, DocsOf
    <3> QED BY <1>3, <1>6, <3>1, <3>2, <3>3, CourseAfter DEF Far
  <2> QED BY <1>4, <1>8, <2>1 DEF Extract
<1>9. ASSUME NEW d \in Docs, Ocr(w, d)
      PROVE  OnCourse(w)'
  <2>1. worker[w].at = "ocr" /\ UnderWay(w) /\ UNCHANGED chunks
    BY <1>9 DEF Ocr, UnderWay
  <2>2. ASSUME NEW at \in {"ocr", "extract"}, NEW todo, GoTo(w, at, todo),
               todo = worker[w].todo \ {d}, at = "extract" => todo = {},
               doc' = IF doc[d] = RemovedDoc THEN doc ELSE [doc EXCEPT ![d].ocr = "done"]
        PROVE  OnCourse(w)'
    <3>1. /\ worker'[w].at = at /\ worker'[w].todo = todo
          /\ worker'[w].mine = worker[w].mine /\ worker'[w].a = a
      BY <1>1, <1>2, <2>2, GoToMeans
    <3>2. ASSUME Exists(a), a \notin disturbed
          PROVE  /\ worker[w].mine = DocsOf(a)'
                 /\ \A e \in worker[w].mine : e \notin todo => doc'[e].ocr = "done"
      <4>1. d \in DocsOf(a)
        BY <1>1, <1>6, <1>9, <2>1, <3>2 DEF Ocr, IndexInv, HoldsOwn
      <4>2. doc[d] \in [ocr : {"pending", "done", "failed"}, of : Analyses]
        BY <1>1, <1>5, <4>1 DEF TypeOK
      <4>3. /\ doc'[d] = [doc[d] EXCEPT !.ocr = "done"]
            /\ \A e \in Docs \ {d} : doc'[e] = doc[e]
        BY <1>1, <1>5, <2>2, <4>1 DEF TypeOK
      <4>4. doc'[d].ocr = "done" /\ doc'[d].of = doc[d].of /\ doc'[d] \notin {NoDoc, RemovedDoc}
        BY <4>2, <4>3 DEF NoDoc, RemovedDoc
      <4>5. DocsOf(a)' = DocsOf(a)
        BY <4>1, <4>3, <4>4 DEF DocsOf
      <4>6. ASSUME NEW e \in worker[w].mine, e \notin todo, e # d PROVE doc'[e].ocr = "done"
        <5>1. e \notin worker[w].todo /\ e \in Docs
          BY <1>5, <1>6, <2>1, <2>2, <3>2, <4>6
        <5>2. doc[e].ocr = "done"
          BY <1>6, <2>1, <3>2, <4>6, <5>1 DEF Far
        <5> QED BY <4>3, <4>6, <5>1, <5>2
      <4> QED BY <1>6, <2>1, <3>2, <4>4, <4>5, <4>6
    <3>3. ASSUME UnderWay(w)', Exists(a), a \notin disturbed,
                 NEW e \in worker'[w].mine, NEW past, past = (e \notin worker'[w].todo)
          PROVE  Far(e, at, past)'
      <4>1. e \in worker[w].mine /\ past = (e \notin todo)
        BY <3>1, <3>3
      <4>2. at # "ocr" \/ past => e \notin todo
        BY <2>2, <4>1
      <4>3. at # "ocr" \/ past => doc'[e].ocr = "done"
        BY <3>2, <3>3, <4>1, <4>2
      <4> QED BY <4>3 DEF Far
    <3> QED BY <1>3, <1>6, <2>1, <3>1, <3>2, <3>3, CourseAfter
  <2>3. PICK ocr \in {"done", "failed"} :
          /\ doc' = IF doc[d] = RemovedDoc THEN doc ELSE [doc EXCEPT ![d].ocr = ocr]
          /\ IF ocr = "failed" THEN FailWith(w, FALSE)
             ELSE IF worker[w].todo = {d} THEN GoTo(w, "extract", {})
             ELSE GoTo(w, "ocr", worker[w].todo \ {d})
    BY <1>9 DEF Ocr
  <2>4. CASE ocr = "failed"
    BY <1>4, <2>3, <2>4
  <2>5. CASE ocr = "done" /\ worker[w].todo = {d}
    BY <2>2, <2>3, <2>5
  <2>6. CASE ocr = "done" /\ worker[w].todo # {d}
    <3>1. GoTo(w, "ocr", worker[w].todo \ {d})
      BY <2>3, <2>6
    <3> QED BY <2>2, <2>3, <2>6, <3>1
  <2> QED BY <2>4, <2>5, <2>6
<1>10. ASSUME NEW d \in Docs, Wipe(w, d) \/ Embed(w, d)
       PROVE  /\ UnderWay(w) /\ UNCHANGED doc /\ DocsOf(a)' = DocsOf(a)
              /\ d \in worker[w].todo /\ worker[w].todo \subseteq worker[w].mine
  BY <1>1, <1>10 DEF Wipe, Embed, UnderWay, DocsOf, IndexInv, HoldsOwn
<1>11. ASSUME NEW d \in Docs, Wipe(w, d)
       PROVE  OnCourse(w)'
  <2>1. worker[w].at = "wipe" /\ chunks' = [chunks EXCEPT ![d] = 0]
    BY <1>11 DEF Wipe
  <2>2. ASSUME NEW at, NEW todo, GoTo(w, at, todo),
               \/ at = "embed" /\ todo = worker[w].mine /\ worker[w].todo = {d}
               \/ at = "wipe" /\ todo = worker[w].todo \ {d}
        PROVE  OnCourse(w)'
    <3>1. /\ worker'[w].at = at /\ worker'[w].todo = todo
          /\ worker'[w].mine = worker[w].mine /\ worker'[w].a = a
      BY <1>1, <1>2, <2>2, GoToMeans
    <3>2. ASSUME UnderWay(w)', Exists(a), a \notin disturbed,
                 NEW e \in worker'[w].mine, NEW past, past = (e \notin worker'[w].todo)
          PROVE  Far(e, at, past)'
      <4>1. e \in worker[w].mine /\ past = (e \notin todo) /\ e \in Docs
        BY <1>5, <1>6, <1>10, <1>11, <3>1, <3>2
      <4>2. Far(e, "wipe", e \notin worker[w].todo)
        BY <1>6, <1>10, <1>11, <2>1, <3>2, <4>1
      <4>3. doc'[e].ocr = "done"
        BY <1>10, <1>11, <4>2 DEF Far
      <4>4. e = d \/ e \notin worker[w].todo => chunks'[e] = 0
        BY <1>1, <2>1, <4>1, <4>2 DEF Far, TypeOK
      <4>5. CASE at = "embed"
        BY <2>2, <4>1, <4>3, <4>4, <4>5 DEF Far
      <4>6. CASE at = "wipe"
        BY <2>2, <4>1, <4>3, <4>4, <4>6 DEF Far
      <4> QED BY <2>2, <4>5, <4>6
    <3> QED BY <1>3, <1>6, <1>10, <1>11, <3>1, <3>2, CourseAfter
  <2>3. CASE worker[w].todo = {d} /\ GoTo(w, "embed", worker[w].mine)
    BY <2>2, <2>3
  <2>4. CASE GoTo(w, "wipe", worker[w].todo \ {d})
    BY <2>2, <2>4
  <2> QED BY <1>11, <2>3, <2>4 DEF Wipe
<1>12. ASSUME NEW d \in Docs, Embed(w, d)
       PROVE  OnCourse(w)'
  <2>1. worker[w].at = "embed"
    BY <1>12 DEF Embed
  <2>2. ASSUME NEW at, GoTo(w, at, worker[w].todo \ {d}),
               at = IF worker[w].todo = {d} THEN "ready" ELSE "embed",
               chunks' = [chunks EXCEPT ![d] = @ + 1]
        PROVE  OnCourse(w)'
    <3>1. /\ worker'[w].at = at /\ worker'[w].todo = worker[w].todo \ {d}
          /\ worker'[w].mine = worker[w].mine /\ worker'[w].a = a
      BY <1>1, <1>2, <2>2, GoToMeans
    <3>2. ASSUME UnderWay(w)', Exists(a), a \notin disturbed,
                 NEW e \in worker'[w].mine, NEW past, past = (e \notin worker'[w].todo)
          PROVE  Far(e, at, past)'
      <4>1. e \in worker[w].mine /\ past = (e \notin worker[w].todo \ {d}) /\ e \in Docs
        BY <1>5, <1>6, <1>10, <1>12, <3>1, <3>2
      <4>2. Far(e, "embed", e \notin worker[w].todo)
        BY <1>6, <1>10, <1>12, <2>1, <3>2, <4>1
      <4>3. doc'[e].ocr = "done"
        BY <1>10, <1>12, <4>2 DEF Far
      <4>4. chunks'[e] = IF e = d THEN chunks[e] + 1 ELSE chunks[e]
        BY <1>1, <2>2, <4>1 DEF TypeOK
      <4>5. chunks[e] = IF e \notin worker[w].todo THEN 1 ELSE 0
        BY <4>2 DEF Far
      <4>6. chunks'[e] = IF e \notin worker[w].todo \ {d} THEN 1 ELSE 0
        BY <1>10, <1>12, <4>4, <4>5
      <4>7. at = "ready" => e \notin worker[w].todo \ {d}
        BY <2>2
      <4>8. at \in {"ready", "embed"}
        BY <2>2
      <4> QED BY <4>1, <4>3, <4>6, <4>7, <4>8 DEF Far
    <3> QED BY <1>3, <1>6, <1>10, <1>12, <3>1, <3>2, CourseAfter
  <2>3. CASE FailWith(w, FALSE)
    BY <1>4, <2>3
  <2> QED BY <1>12, <2>2, <2>3 DEF Embed
<1>13. CASE Throw(w)
  BY <1>4, <1>13 DEF Throw
<1> QED BY <1>7, <1>8, <1>9, <1>11, <1>12, <1>13 DEF Within

\* A step within a run disturbs no other worker, and nothing that is ready.
LEMMA WithinKeepsIndex ==
    ASSUME IndexInv, NEW w \in Workers, Within(w)
    PROVE  (\A v \in Workers : OnCourse(v)') /\ ReadyIndexed'
<1>1. worker[w].at \in Places /\ TypeOK
  BY DEF IndexInv, Inv, Within, SelectDocs, Extract, Throw, Ocr, Wipe, Embed, Places
<1>2. PICK b \in Analyses : b = worker[w].a /\ WorksOn(w, b)
  BY <1>1, WorkerType DEF Works
<1>3. PICK new \in Works : worker' = [worker EXCEPT ![w] = new]
  BY <1>1, WithinRun
<1>4. UNCHANGED <<row, disturbed>>
  BY <1>1, WithinRun
<1>5. Exists(b) /\ b \notin disturbed => /\ row[b].status = "processing"
                                         /\ \A v \in Workers \ {w} : ~WorksOn(v, b)
  BY <1>2 DEF IndexInv, Inv, ClaimsAreExclusive
<1>6. \A a \in Analyses : a # b => Untouched(a)
  BY <1>2, WithinOwn
<1>7. ASSUME NEW v \in Workers \ {w} PROVE OnCourse(v)'
  <2>1. worker'[v] = worker[v] /\ OnCourse(v)
    BY <1>1, <1>3, <1>7 DEF TypeOK, IndexInv
  <2>2. CASE ~UnderWay(v)
    BY <2>1, <2>2 DEF OnCourse, UnderWay
  <2>3. CASE UnderWay(v)
    <3>1. worker[v].at \in Places
      BY <2>3 DEF UnderWay, Places
    <3>2. PICK a \in Analyses : a = worker[v].a /\ WorksOn(v, a)
      BY <1>1, <3>1, WorkerType DEF Works
    <3>3. Exists(a)' /\ a \notin disturbed' => Exists(a) /\ a \notin disturbed /\ a # b
      BY <1>4, <1>5, <1>7, <3>2 DEF Exists
    <3> QED BY <1>6, <2>1, <3>2, <3>3, CourseFrame
  <2> QED BY <2>2, <2>3
<1>8. ASSUME NEW a \in Analyses \ disturbed', row'[a].status = "ready" PROVE Indexed(a)'
  <2>1. Exists(a) /\ a # b
    BY <1>4, <1>5, <1>8 DEF Exists, Absent, Removed
  <2>2. Indexed(a) /\ Untouched(a)
    BY <1>4, <1>6, <1>8, <2>1 DEF IndexInv, ReadyIndexed
  <2> QED BY <2>2 DEF Indexed, Untouched
<1> QED BY <1>7, <1>8, WithinOnCourse DEF ReadyIndexed

LEMMA NextIndex == IndexInv /\ [Next]_vars => IndexInv'
<1> SUFFICES ASSUME IndexInv, [Next]_vars PROVE IndexInv'
  OBVIOUS
<1>1. Inv' /\ TypeOK'
  BY NextInv DEF IndexInv, Inv
<1>2. \A v \in Workers : HoldsOwn(v)'
  BY <1>1, HoldsOwnKept
<1>3. ASSUME NEW w \in Workers, Advance(w)
      PROVE  (\A v \in Workers : OnCourse(v)') /\ ReadyIndexed'
  BY <1>1, <1>3, RunsKeepIndex, WithinKeepsIndex DEF Advance, Within
<1>4. (\A v \in Workers : OnCourse(v)') /\ ReadyIndexed'
  BY <1>1, <1>3, RequestsKeepIndex, OthersKeepIndex DEF Next
<1> QED BY <1>1, <1>2, <1>4 DEF IndexInv

\* An analysis that is ready has been through OCR in full and each of its documents is indexed
\* once, for any number of workers and whatever failures, stops, retries and resubmissions came
\* before, unless somebody wrote on what he had read earlier: a run holds the documents of its
\* analysis and no others, and wipes all chunks before it embeds any.
THEOREM ReadyIndexedOnce == Spec => []ReadyIsIndexed
<1>1. IndexInv => ReadyIsIndexed
  BY DEF IndexInv, ReadyIndexed, Indexed, ReadyIsIndexed
<1> QED BY <1>1, InitIndex, NextIndex, PTL DEF Spec
=============================================================================
