----------------------------- MODULE AstePipeline -----------------------------
(*****************************************************************************)
(* The analyses of auction documents (apps/api/src/aste): users upload       *)
(* documents and submit, and one worker per API process claims the oldest    *)
(* submitted analysis and takes it through OCR, extraction and embedding.    *)
(* A claim is a status and a start time, with no token of its holder: a      *)
(* worker that is slow, or whose analysis was reset under it, writes all     *)
(* the same.  Storage and the AI service show only as steps that may fail,   *)
(* and a document's chunks as the number of copies of them, whole or not.    *)
(*****************************************************************************)
EXTENDS Integers, FiniteSets

CONSTANTS
    Analyses,    \* numbered in the order of created_at
    Docs,        \* ids of aste_documents rows
    Workers,     \* AstePipelineService instances, one per API process
    Handlers,    \* requests that can be in flight at once
    MaxFiles,    \* MAX_FILES
    MaxAttempts, \* ASTE_PIPELINE_MAX_ATTEMPTS
    Stale,       \* ASTE_PIPELINE_STALE_MS
    MaxRequests, \* bound on the requests of users and administrators
    MaxStops     \* bound on the times a worker stops in the middle

ASSUME PipelineAssumption ==
    /\ Analyses \subseteq Nat
    /\ {MaxFiles, MaxAttempts, Stale, MaxRequests, MaxStops} \subseteq Nat
    /\ MaxAttempts > 0

VARIABLES
    row,       \* the aste_analyses rows
    doc,       \* the aste_documents rows
    chunks,    \* how many copies of a document's chunks aste_doc_chunks holds
    worker,    \* what each worker is doing
    req,       \* what each request has read so far, or Idle
    disturbed, \* history: analyses written to by someone who read them earlier
    requests,  \* history: how many requests were made
    stops      \* history: how often a worker stopped in the middle

vars == <<row, doc, chunks, worker, req, disturbed, requests, stops>>
tables == <<row, doc, chunks>>
counters == <<requests, stops>>

-----------------------------------------------------------------------------
Absent == [status |-> "absent"]   \* not created yet
Removed == [status |-> "removed"]
NoDoc == [ocr |-> "absent"]
RemovedDoc == [ocr |-> "removed"]
Null == -1
Idle == [at |-> "idle"]
NoRequest == [op |-> "none"]

\* processing_started_at is modelled by its age, Null when it is NULL.
Row(status, attempts, age) == [status |-> status, attempts |-> attempts, age |-> age]

Exists(a) == row[a] \notin {Absent, Removed}
DocsOf(a) == {d \in Docs : doc[d] \notin {NoDoc, RemovedDoc} /\ doc[d].of = a}
WorksOn(w, a) == worker[w].at \notin {"idle", "claim"} /\ worker[w].a = a
InWork(a) == \E w \in Workers : WorksOn(w, a)

\* An update by id: nothing happens when the row is gone.
UpdateRow(a, new) == row' = IF Exists(a) THEN [row EXCEPT ![a] = new] ELSE row

\* Where a run can be.
Places == {"select", "ocr", "extract", "wipe", "embed", "ready", "fail"}

GoTo(w, at, todo) == worker' = [worker EXCEPT ![w].at = at, ![w].todo = todo]
FailWith(w, forced) == worker' = [worker EXCEPT ![w].at = "fail", ![w].forced = forced]
Rest(w) == worker' = [worker EXCEPT ![w] = Idle]

Init ==
    /\ row = [a \in Analyses |-> Absent]
    /\ doc = [d \in Docs |-> NoDoc]
    /\ chunks = [d \in Docs |-> 0]
    /\ worker = [w \in Workers |-> Idle]
    /\ req = [h \in Handlers |-> NoRequest]
    /\ disturbed = {}
    /\ requests = 0
    /\ stops = 0

-----------------------------------------------------------------------------
\* Users and administrators

Ask(h, op, a) ==
    /\ req[h] = NoRequest
    /\ requests < MaxRequests
    /\ requests' = requests + 1
    /\ req' = [req EXCEPT ![h] = [op |-> op, a |-> a]]
    /\ UNCHANGED <<tables, worker, disturbed, stops>>

Answer(h) == req' = [req EXCEPT ![h] = NoRequest]

\* create; ids are given in the order of creation.
Create(a) ==
    /\ row[a] = Absent
    /\ \A b \in Analyses : b < a => row[b] # Absent
    /\ requests < MaxRequests
    /\ requests' = requests + 1
    /\ row' = [row EXCEPT ![a] = Row("draft", 0, Null)]
    /\ UNCHANGED <<doc, chunks, worker, req, disturbed, stops>>

\* uploadDocument: the status and the number of files are read, the file is stored ...
RequestUpload(h, a) ==
    /\ row[a].status = "draft"
    /\ Cardinality(DocsOf(a)) < MaxFiles
    /\ Ask(h, "UPLOAD", a)

\* ... and the document inserted, whatever the analysis has become.
InsertDoc(h, d) ==
    /\ req[h].op = "UPLOAD"
    /\ Exists(req[h].a)
    /\ doc[d] = NoDoc
    /\ doc' = [doc EXCEPT ![d] = [ocr |-> "pending", of |-> req[h].a]]
    /\ disturbed' = IF row[req[h].a].status = "draft" THEN disturbed
                    ELSE disturbed \cup {req[h].a}
    /\ Answer(h)
    /\ UNCHANGED <<row, chunks, worker, counters>>

RequestSubmit(h, a) ==
    /\ row[a].status = "draft"
    /\ DocsOf(a) # {}
    /\ Ask(h, "SUBMIT", a)

\* Mutant of Submit: a status that is not in the enumeration.
SubmitMisnamed(h) ==
    /\ req[h].op = "SUBMIT"
    /\ UpdateRow(req[h].a, [row[req[h].a] EXCEPT !.status = "submitted"])
    /\ Answer(h)
    /\ UNCHANGED <<doc, chunks, worker, disturbed, counters>>

\* submit: the update sets nothing but the status.
Submit(h) ==
    /\ req[h].op = "SUBMIT"
    /\ LET a == req[h].a IN
         /\ UpdateRow(a, [row[a] EXCEPT !.status = "uploaded"])
         /\ disturbed' = IF row[a].status = "draft" THEN disturbed ELSE disturbed \cup {a}
    /\ Answer(h)
    /\ UNCHANGED <<doc, chunks, worker, counters>>

RequestResubmit(h, a) ==
    /\ row[a].status = "failed"
    /\ DocsOf(a) # {}
    /\ Ask(h, "RESET", a)

RequestRerun(h, a) ==
    /\ row[a].status \in {"failed", "processing"}
    /\ Ask(h, "RESET", a)

\* resubmit, rerun: both end in the same update.
Reset(h) ==
    /\ req[h].op = "RESET"
    /\ LET a == req[h].a IN
         /\ UpdateRow(a, Row("uploaded", 0, Null))
         /\ disturbed' = IF InWork(a) THEN disturbed \cup {a} ELSE disturbed
    /\ Answer(h)
    /\ UNCHANGED <<doc, chunks, worker, counters>>

\* The request fails, or its process dies.
Abandon(h) ==
    /\ req[h] # NoRequest
    /\ Answer(h)
    /\ UNCHANGED <<tables, worker, disturbed, counters>>

\* remove, purgeOlderThan, eraseForUser: documents and chunks go along (ON DELETE CASCADE).
Remove(a) ==
    /\ Exists(a)
    /\ requests < MaxRequests
    /\ requests' = requests + 1
    /\ row' = [row EXCEPT ![a] = Removed]
    /\ doc' = [d \in Docs |-> IF d \in DocsOf(a) THEN RemovedDoc ELSE doc[d]]
    /\ chunks' = [d \in Docs |-> IF d \in DocsOf(a) THEN 0 ELSE chunks[d]]
    /\ UNCHANGED <<worker, req, disturbed, stops>>

-----------------------------------------------------------------------------
\* The worker: tick

\* Mutant of RecoverStale: stale rows are always submitted again.
RecoverWithoutEnd(w) ==
    /\ worker[w] = Idle
    /\ LET stale == {a \in Analyses : row[a].status = "processing" /\ row[a].age > Stale} IN
         /\ row' = [a \in Analyses |->
                      IF a \in stale THEN Row("uploaded", row[a].attempts, Null) ELSE row[a]]
         /\ disturbed' = disturbed \cup {a \in stale : InWork(a)}
    /\ worker' = [worker EXCEPT ![w] = [at |-> "claim"]]
    /\ UNCHANGED <<doc, chunks, req, counters>>

\* Mutant of RecoverStale: rows out of attempts are left as they are.
RecoverUnexhausted(w) ==
    /\ worker[w] = Idle
    /\ LET stale == {a \in Analyses : /\ row[a].status = "processing" /\ row[a].age > Stale
                                      /\ row[a].attempts < MaxAttempts} IN
         /\ row' = [a \in Analyses |->
                      IF a \in stale THEN Row("uploaded", row[a].attempts, Null) ELSE row[a]]
         /\ disturbed' = disturbed \cup {a \in stale : InWork(a)}
    /\ worker' = [worker EXCEPT ![w] = [at |-> "claim"]]
    /\ UNCHANGED <<doc, chunks, req, counters>>

\* recoverStale, one update of all stale rows, when the previous run of this worker is over.
RecoverStale(w) ==
    /\ worker[w] = Idle
    /\ LET stale == {a \in Analyses : row[a].status = "processing" /\ row[a].age > Stale} IN
         /\ row' = [a \in Analyses |->
                      IF a \notin stale THEN row[a]
                      ELSE Row(IF row[a].attempts >= MaxAttempts THEN "failed" ELSE "uploaded",
                               row[a].attempts, Null)]
         /\ disturbed' = disturbed \cup {a \in stale : InWork(a)}
    /\ worker' = [worker EXCEPT ![w] = [at |-> "claim"]]
    /\ UNCHANGED <<doc, chunks, req, counters>>

\* Mutant of ClaimNext: the claim does not change the status.
ClaimUnmarked(w) ==
    /\ worker[w].at = "claim"
    /\ \E a \in Analyses :
         /\ row[a].status = "uploaded"
         /\ row' = [row EXCEPT ![a] = Row("uploaded", @.attempts + 1, 0)]
         /\ worker' = [worker EXCEPT ![w] =
              [at |-> "select", a |-> a, attempts |-> row[a].attempts + 1,
               mine |-> {}, todo |-> {}, forced |-> FALSE]]
    /\ UNCHANGED <<doc, chunks, req, disturbed, counters>>

\* claimNext: the oldest submitted analysis, or none.
ClaimNext(w) ==
    /\ worker[w].at = "claim"
    /\ LET uploaded == {a \in Analyses : row[a].status = "uploaded"} IN
         IF uploaded = {} THEN Rest(w) /\ UNCHANGED row
         ELSE \E a \in uploaded :
                /\ \A b \in uploaded : a <= b
                /\ row' = [row EXCEPT ![a] = Row("processing", @.attempts + 1, 0)]
                /\ worker' = [worker EXCEPT ![w] =
                     [at |-> "select", a |-> a, attempts |-> row[a].attempts + 1,
                      mine |-> {}, todo |-> {}, forced |-> FALSE]]
    /\ UNCHANGED <<doc, chunks, req, disturbed, counters>>

\* runClaimed reads the documents once.
SelectDocs(w) ==
    /\ worker[w].at = "select"
    /\ LET mine == DocsOf(worker[w].a) IN
         IF mine = {} THEN FailWith(w, FALSE)
         ELSE worker' = [worker EXCEPT ![w].at = "ocr", ![w].mine = mine, ![w].todo = mine]
    /\ UNCHANGED <<tables, req, disturbed, counters>>

\* One document goes through OCR, or fails to and takes the analysis with it.
Ocr(w, d) ==
    /\ worker[w].at = "ocr"
    /\ d \in worker[w].todo
    /\ \E ocr \in {"done", "failed"} :
         /\ doc' = IF doc[d] = RemovedDoc THEN doc ELSE [doc EXCEPT ![d].ocr = ocr]
         /\ IF ocr = "failed" THEN FailWith(w, FALSE)
            ELSE IF worker[w].todo = {d} THEN GoTo(w, "extract", {})
            ELSE GoTo(w, "ocr", worker[w].todo \ {d})
    /\ UNCHANGED <<row, chunks, req, disturbed, counters>>

\* The extraction succeeds, fails, or finds lots it was not asked for: that failure is final.
Extract(w) ==
    /\ worker[w].at = "extract"
    /\ GoTo(w, "wipe", worker[w].mine) \/ (\E forced \in BOOLEAN : FailWith(w, forced))
    /\ UNCHANGED <<tables, req, disturbed, counters>>

\* Mutant of Wipe: the chunks of an earlier attempt stay.
WipeNothing(w, d) ==
    /\ worker[w].at = "wipe"
    /\ d \in worker[w].todo
    /\ IF worker[w].todo = {d} THEN GoTo(w, "embed", worker[w].mine)
       ELSE GoTo(w, "wipe", worker[w].todo \ {d})
    /\ UNCHANGED <<tables, req, disturbed, counters>>

\* The chunks of an earlier attempt are deleted, document by document.
Wipe(w, d) ==
    /\ worker[w].at = "wipe"
    /\ d \in worker[w].todo
    /\ chunks' = [chunks EXCEPT ![d] = 0]
    /\ IF worker[w].todo = {d} THEN GoTo(w, "embed", worker[w].mine)
       ELSE GoTo(w, "wipe", worker[w].todo \ {d})
    /\ UNCHANGED <<row, doc, req, disturbed, counters>>

\* Then the new ones are inserted, all or some; a document that is gone refuses them.
Embed(w, d) ==
    /\ worker[w].at = "embed"
    /\ d \in worker[w].todo
    /\ \/ /\ doc[d] # RemovedDoc
          /\ chunks' = [chunks EXCEPT ![d] = @ + 1]
          /\ GoTo(w, IF worker[w].todo = {d} THEN "ready" ELSE "embed", worker[w].todo \ {d})
       \/ /\ FailWith(w, FALSE)
          /\ chunks' \in {chunks} \cup
               (IF doc[d] = RemovedDoc THEN {} ELSE {[chunks EXCEPT ![d] = @ + 1]})
    /\ UNCHANGED <<row, doc, req, disturbed, counters>>

\* The update that ends a run well.
MarkReady(w) ==
    /\ worker[w].at = "ready"
    /\ LET a == worker[w].a IN UpdateRow(a, Row("ready", row[a].attempts, Null))
    /\ Rest(w)
    /\ UNCHANGED <<doc, chunks, req, disturbed, counters>>

\* The catch of runClaimed: wherever a run is, its next await may throw and leave no trace.
Throw(w) ==
    /\ worker[w].at \in Places \ {"fail"}
    /\ FailWith(w, FALSE)
    /\ UNCHANGED <<tables, req, disturbed, counters>>

\* fail: the attempts are those of the claim.
Fail(w) ==
    /\ worker[w].at = "fail"
    /\ LET a == worker[w].a
           exhausted == worker[w].forced \/ worker[w].attempts >= MaxAttempts
       IN UpdateRow(a, Row(IF exhausted THEN "failed" ELSE "uploaded", row[a].attempts, Null))
    /\ Rest(w)
    /\ UNCHANGED <<doc, chunks, req, disturbed, counters>>

\* The process dies, or the update of fail, recoverStale or claimNext fails: nothing is written.
Stop(w) ==
    /\ worker[w] # Idle
    /\ stops < MaxStops
    /\ stops' = stops + 1
    /\ Rest(w)
    /\ UNCHANGED <<tables, req, disturbed, requests>>

Tick ==
    /\ \E a \in Analyses : row[a].status = "processing" /\ row[a].age <= Stale
    /\ row' = [a \in Analyses |->
                 IF Exists(a) /\ row[a].age \in 0..Stale THEN [row[a] EXCEPT !.age = @ + 1]
                 ELSE row[a]]
    /\ UNCHANGED <<doc, chunks, worker, req, disturbed, counters>>

-----------------------------------------------------------------------------
Advance(w) ==
    \/ RecoverStale(w) \/ ClaimNext(w) \/ SelectDocs(w) \/ Extract(w) \/ MarkReady(w)
    \/ Throw(w) \/ Fail(w)
    \/ \E d \in Docs : Ocr(w, d) \/ Wipe(w, d) \/ Embed(w, d)

Request(h) ==
    \/ \E a \in Analyses : \/ RequestUpload(h, a) \/ RequestSubmit(h, a)
                            \/ RequestResubmit(h, a) \/ RequestRerun(h, a)
    \/ \E d \in Docs : InsertDoc(h, d)
    \/ Submit(h) \/ Reset(h) \/ Abandon(h)

Next ==
    \/ \E a \in Analyses : Create(a) \/ Remove(a)
    \/ \E h \in Handlers : Request(h)
    \/ \E w \in Workers : Advance(w) \/ Stop(w)
    \/ Tick

Spec == Init /\ [][Next]_vars

\* The timer of a worker keeps firing, its awaits return (the clients have timeouts), and
\* time passes.
FairSpec == Spec /\ WF_vars(Tick) /\ \A w \in Workers : WF_vars(Advance(w))

-----------------------------------------------------------------------------
\* Properties

\* Every variable has its type.
TypeOK ==
    /\ row \in [Analyses -> {Absent, Removed} \cup
                  [status : {"draft", "uploaded", "processing", "ready", "failed"},
                   attempts : Nat, age : {Null} \cup 0..(Stale + 1)]]
    /\ doc \in [Docs -> {NoDoc, RemovedDoc} \cup
                  [ocr : {"pending", "done", "failed"}, of : Analyses]]
    /\ chunks \in [Docs -> Nat]
    /\ worker \in [Workers -> {Idle, [at |-> "claim"]} \cup
                     [at : Places, a : Analyses, attempts : Nat \ {0}, mine : SUBSET Docs,
                      todo : SUBSET Docs, forced : BOOLEAN]]
    /\ req \in [Handlers -> {NoRequest} \cup
                  [op : {"UPLOAD", "SUBMIT", "RESET"}, a : Analyses]]
    /\ disturbed \subseteq Analyses
    /\ requests \in 0..MaxRequests
    /\ stops \in 0..MaxStops

\* What is ready is complete: each of its documents went through OCR and is indexed once,
\* after whatever failures, stops, retries and resubmissions, as long as nobody wrote on what
\* he had read earlier.
ReadyIsIndexed ==
    \A a \in Analyses \ disturbed : row[a].status = "ready" =>
        /\ DocsOf(a) # {}
        /\ \A d \in DocsOf(a) : doc[d].ocr = "done" /\ chunks[d] = 1

\* An analysis is tried ASTE_PIPELINE_MAX_ATTEMPTS times, stops included, under that proviso.
AttemptsAreBounded ==
    \A a \in Analyses \ disturbed : Exists(a) => row[a].attempts <= MaxAttempts

\* One worker at a time holds an analysis, and the row says so, under that proviso
\* (FOR UPDATE SKIP LOCKED, and a stale time that outlasts every run).
ClaimsAreExclusive ==
    \A a \in Analyses \ disturbed : \A w \in Workers : (Exists(a) /\ WorksOn(w, a)) =>
        /\ row[a].status = "processing"
        /\ row[a].attempts = worker[w].attempts
        /\ \A v \in Workers \ {w} : ~WorksOn(v, a)

\* What was submitted is settled in the end, whoever stops, is slow or is overtaken.
SubmittedIsSettled ==
    \A a \in Analyses : row[a].status = "uploaded" ~> row[a].status \notin {"uploaded", "processing"}

\* "Cannot re-run a ready analysis" (aste-admin.service.ts): what is ready stays ready.
\* No run checks it, as it fails: rerun reads the status, the worker writes 'ready', rerun resets it.
ReadyIsFinal ==
    [][\A a \in Analyses : row[a].status = "ready" => row'[a].status \in {"ready", "removed"}]_vars

=============================================================================
