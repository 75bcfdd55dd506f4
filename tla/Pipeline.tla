------------------------------ MODULE Pipeline ------------------------------
(***************************************************************************)
(* One book on its way through the stages extract, ocr, chunk, embed,      *)
(* publish and resume (worker.py, extraction/store.py, extraction/pdf.py): *)
(* which stage queues which job, which one waits for which, what each      *)
(* leaves in the database and in the artifact files, and how the reconcile *)
(* pass of a starting worker closes the gaps a crash leaves.               *)
(*                                                                         *)
(* Abstraction.  One active revision and its one extraction run.  A job    *)
(* row keeps its stage, its task key and its state; leases and attempts    *)
(* are JobQueue's subject, so here a job is held while its thread lives,   *)
(* is claimable again after a crash, and a transient failure may or may    *)
(* not have been the last attempt.  A text is the source it was taken      *)
(* from, a digest the value digested, a corpus epoch a number; the steps   *)
(* inside a publication are Publication's subject.                         *)
(***************************************************************************)
EXTENDS Naturals, FiniteSets, Sequences

CONSTANTS
    Pages,      \* page units of the book
    Scanned,    \* those routed to OCR
    Threads,    \* handler threads of the worker process
    Settings,   \* chunking settings the configuration file may hold
    FirstSettings,
    NoPage, NoArt, NoUnit, NoFP, NoChunks, NoPub,
    LiveMigrate,   \* migrate --execute may run next to the worker
    MaxCrashes, MaxFailures, MaxRetries, MaxEdits, MaxEpoch,   \* bounds
    MaxTroubles   \* on crashes, failures, retries and edits together

ASSUME PipelineAssumption ==
    /\ IsFiniteSet(Pages) /\ Pages # {} /\ Scanned \subseteq Pages
    /\ FirstSettings \in Settings
    /\ NoPage \notin Pages /\ LiveMigrate \in BOOLEAN
    /\ {MaxCrashes, MaxFailures, MaxRetries, MaxEdits, MaxEpoch, MaxTroubles} \subseteq Nat

Text == {"native", "ocr"}
Art == [ocr : BOOLEAN, norm : Text \cup {"no"}]   \* a unit artifact's payload
Unit == [art : Art, ocr : {"none", "pending", "done", "failed"}]
FP == [arts : [Pages -> Art \cup {NoArt}], cut : Settings]
Chunks == [text : [Pages -> Text \cup {"no"}], cut : Settings]
Epoch == 0 .. MaxEpoch                            \* 0: no epoch recorded yet
Stage == {"extract", "ocr", "chunk", "embed", "publish", "resume"}

ASSUME NothingAssumption ==   \* what stands for nothing is not a value
    /\ NoArt \notin Art /\ NoUnit \notin Unit /\ NoFP \notin FP
    /\ NoPub \notin [epoch : Nat, chunks : Chunks \cup {NoChunks}]

VARIABLES
    settings,   \* chunking settings in the configuration
    run,        \* extraction_runs: the run's state and chunk_fingerprint
    unit,       \* source_units: page -> its row
    file,       \* artifact files: page -> what is on disk
    chunks,     \* chunk rows of the run
    vectors,    \* the chunks whose vectors are checkpointed
    pub,        \* the active publication: its epoch and the chunks it serves
    gens,       \* epochs under which the run is or was published
    record,     \* recorded corpus epoch
    resume,     \* the book has a stored resume
    jobs,       \* job rows in job_id order
    up,         \* the worker runs
    at,         \* thread -> its handler's step, job and local variables
    crashes, failures, retries, edits

book == <<unit, file>>
index == <<pub, gens, record, resume>>
bounds == <<crashes, failures, retries, edits>>
vars == <<settings, run, book, chunks, vectors, index, jobs, up, at, bounds>>

NoArts == [p \in Pages |-> NoArt]
Within(n, max) == n < max /\ crashes + failures + retries + edits < MaxTroubles

Idle == [step |-> "idle", job |-> 0, page |-> NoPage, arts |-> NoArts,
         text |-> NoArts, fp |-> NoFP, chunks |-> NoChunks, epoch |-> 0]

Init ==
    /\ settings = FirstSettings
    /\ run = [state |-> "none", fp |-> NoFP]
    /\ unit = [p \in Pages |-> NoUnit] /\ file = NoArts
    /\ chunks = NoChunks /\ vectors = NoChunks
    /\ pub = NoPub /\ gens = {} /\ record = 0 /\ resume = FALSE
    /\ jobs = << [stage |-> "extract", key |-> NoPage, state |-> "pending"] >>
    /\ up = FALSE
    /\ at = [w \in Threads |-> Idle]
    /\ crashes = 0 /\ failures = 0 /\ retries = 0 /\ edits = 0

-----------------------------------------------------------------------------
(* What the code reads and computes.                                       *)

Fresh == [ocr |-> FALSE, norm |-> "no"]

IsOpen(row) == row.state \in {"pending", "running", "retryable_failed"}
OpenIn(js, stages) == \E i \in DOMAIN js : js[i].stage \in stages /\ IsOpen(js[i])
Open(stages) == OpenIn(jobs, stages)

HasKey(js, stage, key) == \E i \in DOMAIN js : js[i].stage = stage /\ js[i].key = key

\* INSERT OR IGNORE on the task key.
Inserted(js, stage, key) ==
    IF HasKey(js, stage, key) THEN js
    ELSE Append(js, [stage |-> stage, key |-> key, state |-> "pending"])

\* chunk_fingerprint_for_run
Fingerprint ==
    [arts |-> [p \in Pages |-> IF unit[p] = NoUnit THEN NoArt ELSE unit[p].art],
     cut  |-> settings]

\* A unit row whose file has the recorded checksum.
Verified(p) == unit[p] # NoUnit /\ file[p] = unit[p].art

\* _effective_text
Effective(p) == IF unit[p].ocr = "done" /\ file[p].ocr THEN "ocr" ELSE "native"

\* _corpus_stats_for_publish: an active revision joins the recorded epoch, a new one
\* makes a new epoch.
EpochFor == IF pub # NoPub THEN record ELSE record + 1

-----------------------------------------------------------------------------
(* The reconcile pass.                                                     *)

\* _reconcile_chunks
ChunksReconciled(js) ==
    IF run.state = "succeeded" /\ ~OpenIn(js, {"ocr"}) /\ run.fp # Fingerprint
    THEN Inserted(js, "chunk", Fingerprint) ELSE js

\* _reconcile_index: it counts the checkpoint rows and does not compare what is in them.
IndexReconciled(js) ==
    IF \/ run.state # "succeeded" \/ OpenIn(js, {"ocr", "chunk", "embed"})
       \/ run.fp # Fingerprint
    THEN js
    ELSE LET embed == IF vectors = NoChunks THEN Inserted(js, "embed", run.fp) ELSE js
         IN  IF pub = NoPub THEN Inserted(embed, "publish", record) ELSE embed

\* _reconcile_resumes, with resumes enabled and an answer model configured
SlipResumesReconciled(js) == js
ResumesReconciled(js) ==
    IF run.state = "succeeded" /\ pub # NoPub /\ ~resume
    THEN Inserted(js, "resume", NoPage) ELSE js

-----------------------------------------------------------------------------
(* Threads: claiming and letting go of a job.                              *)

Row(w) == jobs[at[w].job]
At(w, step) == at[w].step = step
Go(w, step) == at' = [at EXCEPT ![w].step = step]
Queue(stage, key) == jobs' = Inserted(jobs, stage, key)

Orphan(i) == jobs[i].state = "running" /\ \A w \in Threads : at[w].job # i

\* claim(): the lowest job_id among the pending rows, the retryable rows that are due
\* and the running rows whose lease ran out; the last two at a time of their choosing.
Claim(w, i) ==
    /\ up /\ At(w, "idle")
    /\ jobs[i].state \in {"pending", "retryable_failed"} \/ Orphan(i)
    /\ \A k \in 1 .. (i - 1) : jobs[k].state # "pending"
    /\ jobs' = [jobs EXCEPT ![i].state = "running"]
    /\ at' = [at EXCEPT ![w] = [Idle EXCEPT !.step = jobs[i].stage, !.job = i]]
    /\ UNCHANGED <<settings, run, book, chunks, vectors, index, up, bounds>>

LetGo(w, state) ==
    /\ jobs' = [jobs EXCEPT ![at[w].job].state = state]
    /\ at' = [at EXCEPT ![w] = Idle]

LeaveBook == UNCHANGED <<settings, run, book, chunks, vectors, index, up>>
Leave == LeaveBook /\ UNCHANGED bounds

Succeed(w) == At(w, "succeed") /\ LetGo(w, "succeeded") /\ Leave
Defer(w) == LetGo(w, "retryable_failed") /\ Leave
FailForGood(w) == LetGo(w, "permanent_failed") /\ Leave

\* A transient failure is retried while attempts are left: not after MaxFailures.
FailTransiently(w) ==
    /\ \/ /\ Within(failures, MaxFailures) /\ failures' = failures + 1
          /\ \E s \in {"retryable_failed", "permanent_failed"} : LetGo(w, s)
       \/ ~Within(failures, MaxFailures) /\ UNCHANGED failures /\ LetGo(w, "permanent_failed")
    /\ LeaveBook /\ UNCHANGED <<crashes, retries, edits>>

\* What the handlers report as worker_error, publication_error, qdrant_unavailable or
\* answer_model_unavailable.
WorkerError(w) ==
    /\ at[w].step \in {"page", "ocr_page", "normalize", "chunk_commit", "embed_batch",
                       "switch", "resume"}
    /\ Within(failures, MaxFailures)
    /\ FailTransiently(w)

-----------------------------------------------------------------------------
(* extract                                                                 *)

\* start_run: a run that already succeeded is left alone.
StartRun(w) ==
    /\ At(w, "extract")
    /\ IF run.state = "succeeded"
       THEN Go(w, "queue_ocr") /\ UNCHANGED run
       ELSE Go(w, "page") /\ run' = [run EXCEPT !.state = "running"]
    /\ UNCHANGED <<settings, book, chunks, vectors, index, jobs, up, bounds>>

\* A source that cannot be opened: fail the job, then the run.
SourceUnreadable(w) ==
    /\ At(w, "extract")
    /\ Within(failures, MaxFailures) /\ failures' = failures + 1
    /\ jobs' = [jobs EXCEPT ![at[w].job].state = "permanent_failed"]
    /\ at' = [at EXCEPT ![w] = [Idle EXCEPT !.step = "fail_run"]]
    /\ LeaveBook /\ UNCHANGED <<crashes, retries, edits>>

FailRun(w) ==
    /\ At(w, "fail_run") /\ Go(w, "idle")
    /\ run' = IF run.state = "none" THEN run ELSE [run EXCEPT !.state = "failed"]
    /\ UNCHANGED <<settings, book, chunks, vectors, index, jobs, up, bounds>>

\* The next page without a verified unit: its artifact, its row, its OCR job.
PageArtifact(w, p) ==
    /\ At(w, "page") /\ ~Verified(p)
    /\ file' = [file EXCEPT ![p] = Fresh]
    /\ at' = [at EXCEPT ![w].step = "page_row", ![w].page = p]
    /\ UNCHANGED <<settings, run, unit, chunks, vectors, index, jobs, up, bounds>>

PageRow(w) ==
    LET p == at[w].page
    IN  /\ At(w, "page_row")
        /\ unit' = [unit EXCEPT ![p] = [art |-> Fresh,
                                        ocr |-> IF p \in Scanned THEN "pending" ELSE "none"]]
        /\ Go(w, IF p \in Scanned THEN "page_ocr" ELSE "page")
        /\ UNCHANGED <<settings, run, file, chunks, vectors, index, jobs, up, bounds>>

QueuePageOcr(w) ==
    At(w, "page_ocr") /\ Queue("ocr", at[w].page) /\ Go(w, "page") /\ Leave

FinishRun(w) ==
    /\ At(w, "page") /\ \A p \in Pages : Verified(p)
    /\ run' = [run EXCEPT !.state = "succeeded"]
    /\ Go(w, "queue_ocr")
    /\ UNCHANGED <<settings, book, chunks, vectors, index, jobs, up, bounds>>

\* _requeue_ocr_units, one page at a time
QueueOcr(w) ==
    LET missing == {p \in Scanned : unit[p] # NoUnit /\ ~HasKey(jobs, "ocr", p)}
    IN  /\ At(w, "queue_ocr")
        /\ \/ \E p \in missing : Queue("ocr", p) /\ UNCHANGED at
           \/ missing = {} /\ UNCHANGED jobs /\ Go(w, "queue_chunk")
        /\ Leave

QueueChunk(w) ==
    At(w, "queue_chunk") /\ Queue("chunk", Fingerprint) /\ Go(w, "succeed") /\ Leave

-----------------------------------------------------------------------------
(* ocr: a failed run still has pages worth reading, so only a running one  *)
(* is waited for.                                                          *)

Page(w) == Row(w).key

OcrWaits(w) == At(w, "ocr") /\ run.state = "running" /\ Defer(w)

OcrUnreadable(w) ==
    At(w, "ocr") /\ run.state # "running" /\ ~Verified(Page(w)) /\ FailForGood(w)

OcrBegins(w) ==
    LET p == Page(w)
    IN  /\ At(w, "ocr") /\ run.state # "running" /\ Verified(p)
        /\ IF unit[p].ocr = "done" /\ file[p].ocr
           THEN Go(w, "succeed")
           ELSE at' = [at EXCEPT ![w].step = "ocr_page", ![w].arts[p] = file[p]]
        /\ UNCHANGED jobs /\ Leave

OcrArtifact(w) ==
    LET p == Page(w)
        art == [at[w].arts[p] EXCEPT !.ocr = TRUE]
    IN  /\ At(w, "ocr_page")
        /\ file' = [file EXCEPT ![p] = art]
        /\ at' = [at EXCEPT ![w].step = "ocr_row", ![w].arts[p] = art]
        /\ UNCHANGED <<settings, run, unit, chunks, vectors, index, jobs, up, bounds>>

OcrRow(w) ==
    LET p == Page(w)
    IN  /\ At(w, "ocr_row")
        /\ unit' = [unit EXCEPT ![p] = [art |-> at[w].arts[p], ocr |-> "done"]]
        /\ Go(w, "succeed")
        /\ UNCHANGED <<settings, run, file, chunks, vectors, index, jobs, up, bounds>>

\* No Tesseract: the attempt is recorded on the unit, which keeps its text layer.
OcrImpossible(w) ==
    LET p == Page(w)
    IN  /\ At(w, "ocr_page")
        /\ Within(failures, MaxFailures) /\ failures' = failures + 1
        /\ unit' = [unit EXCEPT ![p] = [art |-> at[w].arts[p], ocr |-> "failed"]]
        /\ Go(w, "fail")
        /\ UNCHANGED <<settings, run, file, chunks, vectors, index, jobs, up,
                       crashes, retries, edits>>

Fail(w) == At(w, "fail") /\ FailForGood(w)

-----------------------------------------------------------------------------
(* chunk and embed wait for the run, then for the stages before them; a run *)
(* that failed is waited for only while its extract job may still finish it. *)

Doomed == run.state = "failed" /\ ~Open({"extract"})
Waits(stages) ==
    \/ run.state = "running"
    \/ run.state = "failed" /\ Open({"extract"})
    \/ run.state = "succeeded" /\ Open(stages)

ChunkWaits(w) == At(w, "chunk") /\ Waits({"ocr"}) /\ Defer(w)
ChunkDoomed(w) == At(w, "chunk") /\ Doomed /\ FailForGood(w)

SlipChunkReady(w) == At(w, "chunk") /\ run.state = "succeeded"
ChunkReady(w) == At(w, "chunk") /\ run.state = "succeeded" /\ ~Waits({"ocr"})

\* The recorded fingerprint matches: only the hand-over is repeated.
ChunkReplays(w) ==
    /\ ChunkReady(w) /\ run.fp = Fingerprint
    /\ at' = [at EXCEPT ![w].step = "rekey", ![w].fp = Fingerprint]
    /\ UNCHANGED jobs /\ Leave

ChunkUnreadable(w) ==
    /\ ChunkReady(w) /\ run.fp # Fingerprint
    /\ \E p \in Pages : ~Verified(p)
    /\ FailForGood(w)

ChunkLoads(w) ==
    /\ ChunkReady(w) /\ run.fp # Fingerprint
    /\ \A p \in Pages : Verified(p)
    /\ at' = [at EXCEPT ![w].step = IF \E p \in Pages : file[p].norm = "no"
                                    THEN "normalize" ELSE "chunk_commit",
                        ![w].arts = file,
                        ![w].text = [p \in Pages |-> Effective(p)],
                        ![w].fp = Fingerprint]
    /\ UNCHANGED jobs /\ Leave

\* An artifact that was never normalized is rewritten, then its row.
NormalizeArtifact(w, p) ==
    LET art == [at[w].arts[p] EXCEPT !.norm = at[w].text[p]]
    IN  /\ At(w, "normalize") /\ at[w].arts[p].norm = "no"
        /\ file' = [file EXCEPT ![p] = art]
        /\ at' = [at EXCEPT ![w].step = "norm_row", ![w].page = p, ![w].arts[p] = art]
        /\ UNCHANGED <<settings, run, unit, chunks, vectors, index, jobs, up, bounds>>

NormalizeRow(w) ==
    LET p == at[w].page
    IN  /\ At(w, "norm_row")
        /\ unit' = [unit EXCEPT ![p].art = at[w].arts[p]]
        /\ Go(w, "normalize")
        /\ UNCHANGED <<settings, run, file, chunks, vectors, index, jobs, up, bounds>>

\* The artifacts changed: the fingerprint is computed again before it is recorded.
SlipNormalized(w) ==
    /\ At(w, "normalize") /\ \A p \in Pages : at[w].arts[p].norm # "no"
    /\ Go(w, "chunk_commit")
    /\ UNCHANGED jobs /\ Leave
Normalized(w) ==
    /\ At(w, "normalize") /\ \A p \in Pages : at[w].arts[p].norm # "no"
    /\ at' = [at EXCEPT ![w].step = "chunk_commit", ![w].fp = Fingerprint]
    /\ UNCHANGED jobs /\ Leave

\* One transaction: the chunk rows and the run's fingerprint.
ChunkCommit(w) ==
    /\ At(w, "chunk_commit")
    /\ chunks' = [text |-> [p \in Pages |-> at[w].arts[p].norm], cut |-> settings]
    /\ run' = [run EXCEPT !.fp = at[w].fp]
    /\ Go(w, "rekey")
    /\ UNCHANGED <<settings, book, vectors, index, jobs, up, bounds>>

\* _rekey_chunk_job
Rekey(w) ==
    /\ At(w, "rekey")
    /\ jobs' = IF HasKey(jobs, "chunk", at[w].fp) THEN jobs
               ELSE [jobs EXCEPT ![at[w].job].key = at[w].fp]
    /\ Go(w, "queue_embed")
    /\ Leave

SlipQueueEmbed(w) == At(w, "queue_embed") /\ UNCHANGED jobs /\ Go(w, "succeed") /\ Leave
QueueEmbed(w) ==
    At(w, "queue_embed") /\ Queue("embed", at[w].fp) /\ Go(w, "succeed") /\ Leave

SlipBeforeEmbed == {"ocr", "chunk", "embed"}
BeforeEmbed == {"ocr", "chunk"}
EmbedReady(w) == At(w, "embed") /\ ~Doomed /\ ~Waits(BeforeEmbed)

EmbedWaits(w) ==
    /\ At(w, "embed")
    /\ Waits(BeforeEmbed) \/ (EmbedReady(w) /\ run.fp # Fingerprint)
    /\ Defer(w)
EmbedDoomed(w) == At(w, "embed") /\ Doomed /\ FailForGood(w)

EmbedBegins(w) ==
    /\ EmbedReady(w) /\ run.fp = Fingerprint
    /\ at' = [at EXCEPT ![w].step = "embed_batch", ![w].chunks = chunks]
    /\ UNCHANGED jobs /\ Leave

\* Checkpoints that do not name these chunks are made again.
EmbedBatch(w) ==
    /\ At(w, "embed_batch")
    /\ vectors' = at[w].chunks
    /\ Go(w, "queue_publish")
    /\ UNCHANGED <<settings, run, book, chunks, index, jobs, up, bounds>>

QueuePublish(w) ==
    At(w, "queue_publish") /\ Queue("publish", record) /\ Go(w, "succeed") /\ Leave

-----------------------------------------------------------------------------
(* publish and resume                                                      *)

Publishing(w) == at[w].step \in {"switch", "queue_resume"}

PublishWaits(w) ==
    /\ At(w, "publish")
    /\ \/ run.state # "succeeded"
       \/ Row(w).key \notin gens /\ \E v \in Threads : Publishing(v)   \* lock held
    /\ Defer(w)

PublishNoop(w) ==
    /\ At(w, "publish") /\ run.state = "succeeded"
    /\ \/ Row(w).key \in gens
       \/ EpochFor \in gens /\ \A v \in Threads : ~Publishing(v)
    /\ Go(w, "succeed")
    /\ UNCHANGED jobs /\ Leave

PublishReady(w) ==
    /\ At(w, "publish") /\ run.state = "succeeded"
    /\ {Row(w).key, EpochFor} \cap gens = {}
    /\ \A v \in Threads : ~Publishing(v)

\* _load_run_vectors: a chunk without a vector.
PublishIncomplete(w) == PublishReady(w) /\ vectors # chunks /\ FailTransiently(w)

PublishBegins(w) ==
    /\ PublishReady(w) /\ vectors = chunks
    /\ at' = [at EXCEPT ![w].step = "switch", ![w].chunks = chunks, ![w].epoch = EpochFor]
    /\ UNCHANGED jobs /\ Leave

Switch(w) ==
    /\ At(w, "switch")
    /\ pub' = [epoch |-> at[w].epoch, chunks |-> at[w].chunks]
    /\ gens' = gens \cup {at[w].epoch}
    /\ record' = at[w].epoch
    /\ Go(w, "queue_resume")
    /\ UNCHANGED <<settings, run, book, chunks, vectors, resume, jobs, up, bounds>>

QueueResume(w) ==
    At(w, "queue_resume") /\ Queue("resume", NoPage) /\ Go(w, "succeed") /\ Leave

ResumeWaits(w) == At(w, "resume") /\ run.state # "succeeded" /\ Defer(w)

StoreResume(w) ==
    /\ At(w, "resume") /\ run.state = "succeeded"
    /\ resume' = TRUE
    /\ Go(w, "succeed")
    /\ UNCHANGED <<settings, run, book, chunks, vectors, pub, gens, record, jobs, up, bounds>>

-----------------------------------------------------------------------------
(* The process, the operator, and the other books.                         *)

Reconciled(js) == ResumesReconciled(IndexReconciled(ChunksReconciled(js)))

LeaveWork == UNCHANGED <<run, book, chunks, vectors, index>>

Start ==
    /\ ~up /\ up' = TRUE
    /\ jobs' = Reconciled(jobs)
    /\ LeaveWork /\ UNCHANGED <<settings, at, bounds>>

\* run_worker returns: no handler is in flight.
Stop ==
    /\ up /\ up' = FALSE
    /\ \A w \in Threads : At(w, "idle")
    /\ LeaveWork /\ UNCHANGED <<settings, jobs, at, bounds>>

\* Killed with a handler in flight; otherwise it is a Stop.
Crash ==
    /\ up /\ up' = FALSE
    /\ \E w \in Threads : ~At(w, "idle")
    /\ Within(crashes, MaxCrashes) /\ crashes' = crashes + 1
    /\ at' = [w \in Threads |-> Idle]
    /\ LeaveWork /\ UNCHANGED <<settings, jobs, failures, retries, edits>>

\* retry --include-permanent
Retry ==
    /\ Within(retries, MaxRetries) /\ retries' = retries + 1
    /\ \E i \in DOMAIN jobs : jobs[i].state \in {"retryable_failed", "permanent_failed"}
    /\ jobs' = [i \in DOMAIN jobs |->
                    IF jobs[i].state \in {"retryable_failed", "permanent_failed"}
                    THEN [jobs[i] EXCEPT !.state = "pending"] ELSE jobs[i]]
    /\ LeaveWork /\ UNCHANGED <<settings, up, at, crashes, failures, edits>>

\* The configuration is read when a process starts.
EditSettings(s) ==
    /\ ~up /\ s # settings
    /\ Within(edits, MaxEdits) /\ edits' = edits + 1
    /\ settings' = s
    /\ LeaveWork /\ UNCHANGED <<jobs, up, at, crashes, failures, retries>>

\* migrate --execute
Migrate ==
    /\ up => LiveMigrate
    /\ jobs' = IndexReconciled(ChunksReconciled(jobs))
    /\ LeaveWork /\ UNCHANGED <<settings, up, at, bounds>>

\* Another book is published: a new epoch, and _enqueue_epoch_republishes reaches
\* this one.
OtherBook ==
    /\ up /\ \A w \in Threads : ~Publishing(w)
    /\ record + (IF pub = NoPub THEN 1 ELSE 0) < MaxEpoch
    /\ record' = record + 1
    /\ IF pub # NoPub THEN Queue("publish", record') ELSE UNCHANGED jobs
    /\ UNCHANGED <<settings, run, book, chunks, vectors, pub, gens, resume, up, at, bounds>>

Extract(w) ==
    \/ StartRun(w) \/ SourceUnreadable(w) \/ FailRun(w)
    \/ \E p \in Pages : PageArtifact(w, p)
    \/ PageRow(w) \/ QueuePageOcr(w) \/ FinishRun(w) \/ QueueOcr(w) \/ QueueChunk(w)
Ocr(w) ==
    \/ OcrWaits(w) \/ OcrUnreadable(w) \/ OcrBegins(w) \/ OcrArtifact(w) \/ OcrRow(w)
    \/ OcrImpossible(w)
Chunk(w) ==
    \/ ChunkWaits(w) \/ ChunkDoomed(w) \/ ChunkReplays(w) \/ ChunkUnreadable(w)
    \/ ChunkLoads(w) \/ \E p \in Pages : NormalizeArtifact(w, p)
    \/ NormalizeRow(w) \/ Normalized(w) \/ ChunkCommit(w) \/ Rekey(w) \/ QueueEmbed(w)
Embed(w) ==
    EmbedWaits(w) \/ EmbedDoomed(w) \/ EmbedBegins(w) \/ EmbedBatch(w) \/ QueuePublish(w)
Publish(w) ==
    \/ PublishWaits(w) \/ PublishNoop(w) \/ PublishIncomplete(w) \/ PublishBegins(w)
    \/ Switch(w) \/ QueueResume(w)
Resume(w) == ResumeWaits(w) \/ StoreResume(w)

Handle(w) ==
    \/ Extract(w) \/ Ocr(w) \/ Chunk(w) \/ Embed(w) \/ Publish(w) \/ Resume(w)
    \/ Succeed(w) \/ Fail(w)

Next ==
    \/ \E w \in Threads : \/ \E i \in DOMAIN jobs : Claim(w, i)
                          \/ Handle(w) \/ WorkerError(w)
    \/ Start \/ Stop \/ Crash \/ Retry \/ Migrate \/ OtherBook
    \/ \E s \in Settings : EditSettings(s)

Spec == Init /\ [][Next]_vars

\* A stopped worker is started again; a handler goes on; a pending job is claimed, because
\* a deferred or failed job is not due before its delay is over and an orphan not before
\* its lease is; and those are due in the end, so that every stage that has one has one
\* claimed.
ClaimIn(rows) == \E i \in rows, w \in Threads : Claim(w, i)
Pending == {i \in DOMAIN jobs : jobs[i].state = "pending"}
OfStage(stage) == {i \in DOMAIN jobs : jobs[i].stage = stage}
FairSpec ==
    /\ Spec
    /\ WF_vars(Start)
    /\ \A w \in Threads : WF_vars(Handle(w))
    /\ SF_vars(ClaimIn(Pending))
    /\ \A stage \in Stage : SF_vars(ClaimIn(OfStage(stage)))

-----------------------------------------------------------------------------
(* Properties.                                                             *)

Step == {"idle", "succeed", "fail", "fail_run", "page", "page_row", "page_ocr", "queue_ocr",
         "queue_chunk", "ocr_page", "ocr_row", "normalize", "norm_row", "chunk_commit",
         "rekey", "queue_embed", "embed_batch", "queue_publish", "switch", "queue_resume"}
            \cup Stage
JobState == {"pending", "running", "retryable_failed", "succeeded", "permanent_failed"}
Keys(stage) == CASE stage = "ocr" -> Scanned
                 [] stage \in {"chunk", "embed"} -> FP
                 [] stage = "publish" -> Epoch
                 [] OTHER -> {NoPage}

\* Every variable keeps its type; a job row's key is of its stage's kind, and a thread
\* between claim and commit works on an existing row.
TypeOK ==
    /\ settings \in Settings
    /\ run.state \in {"none", "running", "failed", "succeeded"}
    /\ run.fp = NoFP \/ run.fp \in FP
    /\ \A p \in Pages : /\ unit[p] = NoUnit \/ unit[p] \in Unit
                        /\ file[p] = NoArt \/ file[p] \in Art
    /\ \A c \in {chunks, vectors} : c = NoChunks \/ c \in Chunks
    /\ pub = NoPub \/ pub \in [epoch : Epoch, chunks : Chunks]
    /\ gens \subseteq Epoch /\ record \in Epoch /\ resume \in BOOLEAN
    /\ \A i \in DOMAIN jobs : /\ jobs[i].stage \in Stage /\ jobs[i].state \in JobState
                              /\ jobs[i].key \in Keys(jobs[i].stage)
    /\ up \in BOOLEAN
    /\ \A w \in Threads : /\ at[w].step \in Step
                          /\ at[w].step \notin {"idle", "fail_run"} => Row(w).state = "running"

Quiescent == \A i \in DOMAIN jobs : ~IsOpen(jobs[i])
NoneFailed == \A i \in DOMAIN jobs : jobs[i].state # "permanent_failed"
Drained == Quiescent /\ NoneFailed

\* When every job has succeeded, the index serves the run's chunk rows: no hand-over
\* from one stage to the next is lost to a crash, a retry or a replay.
ServedIsChunked == Drained => pub # NoPub /\ pub.chunks = chunks

\* When every job has succeeded, a page whose OCR is done is chunked from its OCR text,
\* and the recorded fingerprint is that of the units as they are.
OcrIsChunked ==
    Drained => /\ run.fp = Fingerprint
               /\ \A p \in Pages : unit[p].ocr = "done" => chunks.text[p] = "ocr"

\* When every job has succeeded, the published book has a resume, although the publish
\* job queues it after the switch and a replayed publish job does not.
ResumeFollows == Drained => resume

\* The recorded fingerprint names the artifacts and the settings the chunk rows were
\* made from, whatever ran next to the chunk job.
FingerprintIsOfChunks ==
    run.fp # NoFP => /\ chunks.cut = run.fp.cut
                     /\ \A p \in Pages : chunks.text[p] = run.fp.arts[p].norm

\* The stages wait for one another, but not in a circle.  In the end every job is settled,
\* but for two ways to wait for what nobody will do: the extract job gave up and left its
\* run "running", or the chunk stage settled on chunks that are not those of the units and
\* settings of now, which an embed job waits for.
Abandoned ==
    /\ ~Open({"extract"})
    /\ run.state = "running" \/ (run.state = "failed" /\ Open({"publish", "resume"}))
Adrift == run.fp # Fingerprint /\ ~Open({"ocr", "chunk"}) /\ Open({"embed"})
WaitingEnds == <>[](Quiescent \/ Abandoned \/ Adrift)
=============================================================================
