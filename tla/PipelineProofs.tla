--------------------------- MODULE PipelineProofs ---------------------------
(***************************************************************************)
(* Theorems about Pipeline: for any pages, threads, settings and epochs,   *)
(* any number of failures and, where a theorem does not say otherwise, of  *)
(* crashes.  Three layers: Base, the types and who holds which job; the    *)
(* chain of hand-overs from one stage to the next; what the chunk stage    *)
(* reads and commits while others work next to it.                         *)
(***************************************************************************)
EXTENDS Pipeline, SequenceTheorems, TLAPS

AnyKey == Pages \cup {NoPage, NoFP} \cup FP \cup Nat
JobRow == [stage : Stage, key : AnyKey, state : JobState]
Local == [step : Step, job : Nat, page : Pages \cup {NoPage},
          arts : [Pages -> Art \cup {NoArt}], text : [Pages -> Text \cup {NoArt}],
          fp : FP \cup {NoFP}, chunks : Chunks \cup {NoChunks}, epoch : Nat]
Publication == [epoch : Nat, chunks : Chunks \cup {NoChunks}]

RunInv ==
    run \in [state : {"none", "running", "failed", "succeeded"}, fp : FP \cup {NoFP}]
BookInv ==
    unit \in [Pages -> Unit \cup {NoUnit}] /\ file \in [Pages -> Art \cup {NoArt}]
IndexInv ==
    /\ chunks \in Chunks \cup {NoChunks} /\ vectors \in Chunks \cup {NoChunks}
    /\ pub \in Publication \cup {NoPub} /\ gens \subseteq Nat /\ record \in Nat
    /\ resume \in BOOLEAN
JobsInv == jobs \in Seq(JobRow)
AtInv == at \in [Threads -> Local]
ScalarInv ==
    /\ settings \in Settings /\ up \in BOOLEAN
    /\ crashes \in Nat /\ failures \in Nat /\ retries \in Nat /\ edits \in Nat

\* The steps of a stage's handler.
StepsOf(stage) ==
    CASE stage = "extract" -> {"extract", "page", "page_row", "page_ocr", "queue_ocr",
                               "queue_chunk", "succeed"}
      [] stage = "ocr"     -> {"ocr", "ocr_page", "ocr_row", "fail", "succeed"}
      [] stage = "chunk"   -> {"chunk", "normalize", "norm_row", "chunk_commit", "rekey",
                               "queue_embed", "succeed"}
      [] stage = "embed"   -> {"embed", "embed_batch", "queue_publish", "succeed"}
      [] stage = "publish" -> {"publish", "switch", "queue_resume", "succeed"}
      [] OTHER             -> {"resume", "succeed"}

Holding(w) == at[w].step \notin {"idle", "fail_run"}
Held(w) ==
    IF Holding(w)
    THEN /\ at[w].job \in DOMAIN jobs
         /\ Row(w).state = "running"
         /\ at[w].step \in StepsOf(Row(w).stage)
    ELSE at[w].job = 0
Alone(v, w) == Holding(w) /\ at[v].job = at[w].job => v = w

\* A handler's job is running, of the stage its step belongs to, and nobody else's.
HeldInv == (\A w \in Threads : Held(w)) /\ \A v, w \in Threads : Alone(v, w)

\* The extract job is the first one, and there is no other.
FirstInv == jobs # <<>> /\ \A i \in DOMAIN jobs : jobs[i].stage = "extract" <=> i = 1

DownInv == ~up => \A w \in Threads : At(w, "idle")

OcrKeysInv == \A i \in DOMAIN jobs : jobs[i].stage = "ocr" => jobs[i].key \in Scanned

ChunkWork == {"normalize", "norm_row", "chunk_commit"}
AllUnits == \A p \in Pages : unit[p] # NoUnit
Carries(w) ==
    /\ at[w].step \in {"page_row", "page_ocr", "norm_row"} => at[w].page \in Pages
    /\ At(w, "page_ocr") => at[w].page \in Scanned
    /\ at[w].step \in {"ocr_page", "ocr_row"} => at[w].arts[Page(w)] \in Art
    /\ at[w].step \in ChunkWork => at[w].arts \in [Pages -> Art] /\ at[w].text \in [Pages -> Text]

\* What a handler carries from one step to the next is there.
CarryInv == \A w \in Threads : Carries(w)

Chunked == \E i \in DOMAIN jobs : jobs[i].stage = "chunk"
GaveUp == jobs[1].state = "permanent_failed"
Phase(w) ==
    /\ at[w].step \in {"page", "page_row", "page_ocr"} => run.state = "running"
    /\ at[w].step \in {"queue_ocr", "queue_chunk"} => run.state = "succeeded"
    /\ At(w, "fail_run") => GaveUp

\* The run is where its extract job is; a chunk job finds all pages there.
PhaseInv ==
    /\ \A w \in Threads : Phase(w)
    /\ run.state = "failed" => GaveUp
    /\ run.state = "succeeded" => AllUnits
    /\ Chunked => run.state \in {"succeeded", "failed"} /\ AllUnits

Base ==
    /\ RunInv /\ BookInv /\ IndexInv /\ JobsInv /\ AtInv /\ ScalarInv
    /\ HeldInv /\ FirstInv /\ DownInv /\ OcrKeysInv /\ CarryInv /\ PhaseInv

-----------------------------------------------------------------------------
(* What happens to the job rows.                                           *)

\* The rows are kept, but for the key of a chunk job; new ones are pending.
Follows(old, new) ==
    /\ new \in Seq(JobRow) /\ Len(old) \leq Len(new)
    /\ \A i \in 1 .. Len(old) : /\ new[i].stage = old[i].stage /\ new[i].state = old[i].state
                                /\ old[i].stage # "chunk" => new[i] = old[i]
    /\ \A i \in 1 .. Len(new) : i > Len(old) =>
           /\ new[i].state = "pending" /\ new[i].stage # "extract"
           /\ new[i].stage = "ocr" => new[i].key \in Scanned

LEMMA FollowsItself ==
    ASSUME NEW js \in Seq(JobRow)
    PROVE  Follows(js, js)
  BY DEF Follows

LEMMA FollowsOn ==
    ASSUME NEW a \in Seq(JobRow), NEW b, NEW c, Follows(a, b), Follows(b, c)
    PROVE  Follows(a, c)
<1>1. b \in Seq(JobRow) /\ c \in Seq(JobRow)
  BY DEF Follows
<1>2. Len(a) \in Nat /\ Len(b) \in Nat /\ Len(c) \in Nat /\ Len(a) \leq Len(b) /\ Len(b) \leq Len(c)
  BY <1>1 DEF Follows
<1>3. \A i \in 1 .. Len(a) : /\ c[i].stage = a[i].stage /\ c[i].state = a[i].state
                             /\ a[i].stage # "chunk" => c[i] = a[i]
  BY <1>2 DEF Follows
<1>4. ASSUME NEW i \in 1 .. Len(c), i > Len(a)
      PROVE  /\ c[i].state = "pending" /\ c[i].stage # "extract"
             /\ c[i].stage = "ocr" => c[i].key \in Scanned
  <2>1. CASE i > Len(b)
    BY <2>1 DEF Follows
  <2>2. CASE i \in 1 .. Len(b)
    BY <1>4, <2>2 DEF Follows
  <2> QED
    BY <1>2, <2>1, <2>2
<1> QED
  BY <1>1, <1>2, <1>3, <1>4 DEF Follows

\* INSERT OR IGNORE leaves the rows alone and the key in the table.
LEMMA InsertedRows ==
    ASSUME NEW js \in Seq(JobRow), NEW stage \in Stage \ {"extract"}, NEW key \in AnyKey,
           stage = "ocr" => key \in Scanned
    PROVE  LET new == Inserted(js, stage, key)
           IN  /\ Follows(js, new)
               /\ \A i \in 1 .. Len(js) : new[i] = js[i]
               /\ \A i \in 1 .. Len(new) : i > Len(js) => /\ new[i].stage = stage
                                                          /\ new[i].key = key
               /\ HasKey(new, stage, key)
<1>1. CASE HasKey(js, stage, key)
  BY <1>1, FollowsItself DEF Inserted
<1>2. CASE ~HasKey(js, stage, key)
  <2> DEFINE row == [stage |-> stage, key |-> key, state |-> "pending"]
             new == Append(js, row)
  <2>1. row \in JobRow
    BY DEF JobRow, JobState
  <2>2. /\ new \in Seq(JobRow) /\ Len(new) = Len(js) + 1
        /\ \A i \in 1 .. Len(js) : new[i] = js[i]
        /\ new[Len(js) + 1] = row
    BY <2>1
  <2>3. Len(js) \in Nat /\ DOMAIN new = 1 .. Len(new)
    BY <2>2
  <2>4. \A i \in 1 .. Len(new) : i > Len(js) => new[i] = row
    BY <2>2, <2>3
  <2>5. HasKey(new, stage, key)
    BY <2>2, <2>3 DEF HasKey
  <2>6. Follows(js, new)
    BY <2>2, <2>3, <2>4 DEF Follows
  <2> QED
    BY <1>2, <2>2, <2>4, <2>5, <2>6 DEF Inserted
<1> QED
  BY <1>1, <1>2

-----------------------------------------------------------------------------
(* What happens to the threads.                                            *)

Same(w) == \A v \in Threads : v # w => at'[v] = at[v]

\* A handler goes on.
Advances(w) ==
    /\ Holding(w) /\ at' \in [Threads -> Local] /\ Same(w) /\ up' = up
    /\ at'[w].job = at[w].job /\ at'[w].step \in StepsOf(Row(w).stage)
    /\ Follows(jobs, jobs')

\* A handler lets go of its job.
Ends(w) ==
    /\ Holding(w) /\ at' \in [Threads -> Local] /\ Same(w) /\ up' = up
    /\ at'[w].job = 0 /\ at'[w].step \in {"idle", "fail_run"}
    /\ \E s \in JobState : jobs' = [jobs EXCEPT ![at[w].job].state = s]

\* Rows are added while the threads stand still.
Grows ==
    UNCHANGED at /\ Follows(jobs, jobs') /\ up' \in {up, TRUE}

LEMMA StepsAreOfStages ==
    ASSUME NEW stage \in Stage
    PROVE  /\ StepsOf(stage) \subseteq Step \ {"idle", "fail_run"}
           /\ stage \in StepsOf(stage) /\ "succeed" \in StepsOf(stage)
  BY DEF StepsOf, Stage, Step

LEMMA RowsAreTyped ==
    ASSUME JobsInv, NEW i \in DOMAIN jobs
    PROVE  jobs[i] \in JobRow
  BY DEF JobsInv

\* The step tells the stage of the job that is held.
LEMMA StageOfStep ==
    ASSUME JobsInv, HeldInv, NEW w \in Threads, NEW stage \in Stage, Holding(w),
           at[w].step \in StepsOf(stage) \ {"succeed"}
    PROVE  Row(w).stage = stage
<1>1. at[w].job \in DOMAIN jobs /\ at[w].step \in StepsOf(Row(w).stage)
  BY DEF HeldInv, Held
<1>2. Row(w).stage \in Stage
  BY <1>1, RowsAreTyped DEF Row, JobRow
<1> QED
  BY <1>1, <1>2 DEF StepsOf, Stage

\* The extract job has one holder, and while it has, the job has not been given up.
LEMMA ExtractIsAlone ==
    ASSUME Base, NEW w \in Threads, NEW v \in Threads,
           at[w].step \in StepsOf("extract") \ {"succeed"},
           at[v].step \in StepsOf("extract") \ {"succeed"}
    PROVE  v = w /\ at[w].job = 1 /\ jobs[1].state = "running"
<1>1. Holding(w) /\ Holding(v)
  BY DEF Holding, StepsOf
<1>2. Row(w).stage = "extract" /\ Row(v).stage = "extract"
  BY <1>1, StageOfStep DEF Base, Stage
<1>3. at[w].job \in DOMAIN jobs /\ at[v].job \in DOMAIN jobs /\ Row(w).state = "running"
  BY <1>1 DEF Base, HeldInv, Held
<1>4. at[w].job = 1 /\ at[v].job = 1
  BY <1>2, <1>3 DEF Base, FirstInv, Row
<1> QED
  BY <1>1, <1>3, <1>4 DEF Base, HeldInv, Alone, Row

LEMMA AdvancesKeeps ==
    ASSUME Base, NEW w \in Threads, Advances(w)
    PROVE  JobsInv' /\ AtInv' /\ HeldInv' /\ FirstInv' /\ DownInv' /\ OcrKeysInv'
<1>1. /\ jobs \in Seq(JobRow) /\ jobs' \in Seq(JobRow) /\ Len(jobs) \in Nat /\ Len(jobs') \in Nat
      /\ Len(jobs) \leq Len(jobs') /\ DOMAIN jobs = 1 .. Len(jobs) /\ DOMAIN jobs' = 1 .. Len(jobs')
  BY DEF Base, JobsInv, Advances, Follows
<1>2. \A i \in DOMAIN jobs : /\ i \in DOMAIN jobs' /\ jobs'[i].stage = jobs[i].stage
                              /\ jobs'[i].state = jobs[i].state
  BY <1>1 DEF Advances, Follows
<1>3. ASSUME NEW v \in Threads
      PROVE  Held(v)'
  <2>1. Held(v) /\ Held(w)
    BY DEF Base, HeldInv
  <2>2. CASE v = w
    <3>0. at[w].job \in DOMAIN jobs /\ Row(w).state = "running"
      BY <2>1 DEF Held, Advances
    <3>1. Row(w).stage \in Stage
      BY <3>0, RowsAreTyped DEF Row, JobRow, Base
    <3>2. at'[w].step \notin {"idle", "fail_run"}
      BY <3>1, StepsAreOfStages DEF Advances
    <3> QED
      BY <1>2, <2>2, <3>0, <3>2 DEF Held, Holding, Row, Advances
  <2>3. CASE v # w
    BY <1>2, <2>1, <2>3 DEF Held, Holding, Row, Advances, Same
  <2> QED
    BY <2>2, <2>3
<1>4. ASSUME NEW v \in Threads, NEW u \in Threads
      PROVE  Alone(v, u)'
  BY DEF Alone, Holding, Base, HeldInv, Advances, Same
<1>5. FirstInv'
  BY <1>1, <1>2 DEF FirstInv, Base, Advances, Follows
<1>6. DownInv'
  BY DEF DownInv, Base, Advances, Holding, At
<1>7. OcrKeysInv'
  BY <1>1, <1>2 DEF OcrKeysInv, Base, Advances, Follows
<1> QED
  BY <1>1, <1>3, <1>4, <1>5, <1>6, <1>7 DEF JobsInv, AtInv, HeldInv, Advances

LEMMA EndsKeeps ==
    ASSUME Base, NEW w \in Threads, Ends(w)
    PROVE  JobsInv' /\ AtInv' /\ HeldInv' /\ FirstInv' /\ DownInv' /\ OcrKeysInv'
<1> PICK s \in JobState : jobs' = [jobs EXCEPT ![at[w].job].state = s]
  BY DEF Ends
<1>1. Held(w) /\ Holding(w)
  BY DEF Base, HeldInv, Ends
<1>2. jobs \in Seq(JobRow) /\ at[w].job \in DOMAIN jobs /\ Row(w).state = "running"
  BY <1>1 DEF Base, JobsInv, Held
<1>3. [jobs[at[w].job] EXCEPT !.state = s] \in JobRow
  <2>1. jobs[at[w].job] \in JobRow
    BY <1>2, RowsAreTyped DEF Base
  <2> QED
    BY <2>1 DEF JobRow
<1>4. jobs' \in Seq(JobRow) /\ DOMAIN jobs' = DOMAIN jobs
  BY <1>2, <1>3
<1>5. \A i \in DOMAIN jobs : /\ jobs'[i].stage = jobs[i].stage /\ jobs'[i].key = jobs[i].key
                              /\ i # at[w].job => jobs'[i] = jobs[i]
  BY <1>2 DEF JobRow
<1>6. ASSUME NEW v \in Threads
      PROVE  Held(v)'
  <2>1. CASE v = w
    BY <2>1 DEF Held, Holding, Ends
  <2>2. CASE v # w /\ ~Holding(v)
    BY <2>2 DEF Held, Holding, Ends, Same, Base, HeldInv
  <2>3. CASE v # w /\ Holding(v)
    <3>1. Held(v) /\ Alone(w, v)
      BY DEF Base, HeldInv
    <3>2. at[v].job # at[w].job
      BY <2>3, <3>1 DEF Alone
    <3> QED
      BY <1>4, <1>5, <2>3, <3>1, <3>2 DEF Held, Holding, Row, Ends, Same
  <2> QED
    BY <2>1, <2>2, <2>3
<1>7. ASSUME NEW v \in Threads, NEW u \in Threads
      PROVE  Alone(v, u)'
  <2>1. Held(u)' /\ Alone(v, u)
    BY <1>6 DEF Base, HeldInv
  <2>2. 0 \notin DOMAIN jobs'
    BY <1>4
  <2> QED
    BY <2>1, <2>2 DEF Alone, Held, Holding, Ends, Same
<1>8. FirstInv'
  BY <1>2, <1>4, <1>5 DEF FirstInv, Base
<1>9. DownInv'
  BY <1>1 DEF DownInv, Base, Ends, Holding, At
<1>10. OcrKeysInv'
  BY <1>4, <1>5 DEF OcrKeysInv, Base
<1> QED
  BY <1>4, <1>6, <1>7, <1>8, <1>9, <1>10 DEF JobsInv, AtInv, HeldInv, Ends

LEMMA GrowsKeeps ==
    ASSUME Base, Grows
    PROVE  JobsInv' /\ AtInv' /\ HeldInv' /\ FirstInv' /\ DownInv' /\ OcrKeysInv'
<1>1. /\ jobs \in Seq(JobRow) /\ jobs' \in Seq(JobRow) /\ Len(jobs) \in Nat /\ Len(jobs') \in Nat
      /\ Len(jobs) \leq Len(jobs') /\ DOMAIN jobs = 1 .. Len(jobs) /\ DOMAIN jobs' = 1 .. Len(jobs')
  BY DEF Base, JobsInv, Grows, Follows
<1>2. \A i \in DOMAIN jobs : /\ i \in DOMAIN jobs' /\ jobs'[i].stage = jobs[i].stage
                              /\ jobs'[i].state = jobs[i].state
  BY <1>1 DEF Grows, Follows
<1>3. ASSUME NEW v \in Threads
      PROVE  Held(v)'
  BY <1>2 DEF Held, Holding, Row, Grows, Base, HeldInv
<1>4. ASSUME NEW v \in Threads, NEW u \in Threads
      PROVE  Alone(v, u)'
  BY DEF Alone, Holding, Base, HeldInv, Grows
<1>5. FirstInv'
  BY <1>1, <1>2 DEF FirstInv, Base, Grows, Follows
<1>6. DownInv'
  <2> SUFFICES ASSUME ~up'
               PROVE  ~up
    BY DEF DownInv, Base, Grows, At
  <2> QED
    BY DEF Base, Grows, ScalarInv
<1>7. OcrKeysInv'
  BY <1>1, <1>2 DEF OcrKeysInv, Base, Grows, Follows
<1> QED
  BY <1>1, <1>3, <1>4, <1>5, <1>6, <1>7 DEF JobsInv, AtInv, HeldInv, Grows, Base

-----------------------------------------------------------------------------
(* Base is kept: what the steps have in common.                            *)

\* The rest of the state keeps its types.
Values == RunInv /\ BookInv /\ IndexInv /\ ScalarInv

LEMMA AdvancesBase ==
    ASSUME Base, NEW w \in Threads, Advances(w), Values', Carries(w)', PhaseInv'
    PROVE  Base'
<1>1. ASSUME NEW v \in Threads, v # w
      PROVE  Carries(v)'
  <2>1. at'[v] = at[v] /\ Carries(v) /\ Held(v)
    BY <1>1 DEF Advances, Same, Base, CarryInv, HeldInv
  <2>2. CASE at[v].step \in {"ocr_page", "ocr_row"}
    <3>1. Holding(v) /\ at[v].step \in StepsOf("ocr") \ {"succeed"} /\ "ocr" \in Stage
      BY <2>2 DEF Holding, StepsOf, Stage
    <3>2. Row(v).stage = "ocr" /\ at[v].job \in DOMAIN jobs
      BY <2>1, <3>1, StageOfStep DEF Base, Held
    <3>3. jobs'[at[v].job] = jobs[at[v].job]
      BY <3>2 DEF Advances, Follows, Row, Base, JobsInv
    <3> QED
      BY <2>1, <2>2, <3>3 DEF Carries, Page, Row, At, ChunkWork
  <2>3. CASE at[v].step \notin {"ocr_page", "ocr_row"}
    BY <2>1, <2>3 DEF Carries, At
  <2> QED
    BY <2>2, <2>3
<1>2. CarryInv'
  BY <1>1 DEF CarryInv
<1> QED
  BY <1>2, AdvancesKeeps DEF Base, Values

\* A handler that leaves the run alone, and queues a chunk job only if it succeeded.
LEMMA WorkBase ==
    ASSUME Base, NEW w \in Threads, Advances(w), Values', Carries(w)', Phase(w)',
           run'.state = run.state, AllUnits => AllUnits',
           Chunked' => Chunked \/ run.state = "succeeded"
    PROVE  Base'
<1>1. jobs \in Seq(JobRow) /\ 1 \in DOMAIN jobs
  BY DEF Base, JobsInv, FirstInv
<1>2. jobs'[1].state = jobs[1].state
  BY <1>1 DEF Advances, Follows
<1>3. \A v \in Threads : Phase(v)'
  BY <1>2 DEF Advances, Same, Base, PhaseInv, Phase, GaveUp, At
<1>4. PhaseInv'
  BY <1>2, <1>3 DEF PhaseInv, Base, GaveUp
<1> QED
  BY <1>4, AdvancesBase

LEMMA GrowsBase ==
    ASSUME Base, Grows, Values', UNCHANGED <<run, book>>,
           Chunked' => Chunked \/ run.state = "succeeded"
    PROVE  Base'
<1>1. jobs \in Seq(JobRow) /\ 1 \in DOMAIN jobs
  BY DEF Base, JobsInv, FirstInv
<1>2. jobs'[1].state = jobs[1].state
  BY <1>1 DEF Grows, Follows
<1>3. \A v \in Threads : Phase(v)'
  BY <1>2 DEF Grows, Base, PhaseInv, Phase, GaveUp, At
<1>4. PhaseInv'
  BY <1>2, <1>3 DEF PhaseInv, Base, GaveUp, AllUnits, book
<1>5. ASSUME NEW v \in Threads
      PROVE  Carries(v)'
  <2>1. at'[v] = at[v] /\ Carries(v) /\ Held(v)
    BY DEF Grows, Base, CarryInv, HeldInv
  <2>2. CASE at[v].step \in {"ocr_page", "ocr_row"}
    <3>1. Holding(v) /\ at[v].step \in StepsOf("ocr") \ {"succeed"} /\ "ocr" \in Stage
      BY <2>2 DEF Holding, StepsOf, Stage
    <3>2. Row(v).stage = "ocr" /\ at[v].job \in DOMAIN jobs
      BY <2>1, <3>1, StageOfStep DEF Base, Held
    <3>3. jobs'[at[v].job] = jobs[at[v].job]
      BY <3>2 DEF Grows, Follows, Row, Base, JobsInv
    <3> QED
      BY <2>1, <2>2, <3>3 DEF Carries, Page, Row, At, ChunkWork
  <2>3. CASE at[v].step \notin {"ocr_page", "ocr_row"}
    BY <2>1, <2>3 DEF Carries, At
  <2> QED
    BY <2>2, <2>3
<1>6. CarryInv'
  BY <1>5 DEF CarryInv
<1> QED
  BY <1>4, <1>6, GrowsKeeps DEF Base, Values

LEMMA EndsBase ==
    ASSUME Base, NEW w \in Threads, Ends(w), Values', UNCHANGED run, AllUnits => AllUnits',
           At(w, "fail_run")' => GaveUp'
    PROVE  Base'
<1> PICK s \in JobState : jobs' = [jobs EXCEPT ![at[w].job].state = s]
  BY DEF Ends
<1>1. Held(w) /\ Holding(w)
  BY DEF Base, HeldInv, Ends
<1>2. jobs \in Seq(JobRow) /\ at[w].job \in DOMAIN jobs /\ Row(w).state = "running"
  BY <1>1 DEF Base, JobsInv, Held
<1>3. 1 \in DOMAIN jobs /\ DOMAIN jobs' = DOMAIN jobs
  BY <1>2 DEF Base, FirstInv
<1>4. \A i \in DOMAIN jobs : /\ jobs'[i].stage = jobs[i].stage /\ jobs'[i].key = jobs[i].key
                              /\ i # at[w].job => jobs'[i] = jobs[i]
  <2>1. \A i \in DOMAIN jobs : jobs[i] \in JobRow
    BY RowsAreTyped DEF Base
  <2> QED
    BY <1>2, <2>1 DEF JobRow
<1>5. GaveUp => GaveUp'
  BY <1>2, <1>3, <1>4 DEF GaveUp, Row
<1>6. ASSUME NEW v \in Threads
      PROVE  Phase(v)' /\ Carries(v)'
  <2>1. Phase(v) /\ Carries(v) /\ Held(v)
    BY DEF Base, PhaseInv, CarryInv, HeldInv
  <2>2. CASE v = w
    BY <2>2 DEF Phase, Carries, Ends, At, ChunkWork
  <2>3. CASE v # w
    <3>1. at'[v] = at[v]
      BY <2>3 DEF Ends, Same
    <3>2. Phase(v)'
      BY <1>5, <2>1, <3>1 DEF Phase, At
    <3>3. CASE at[v].step \in {"ocr_page", "ocr_row"}
      <4>1. at[v].job \in DOMAIN jobs
        BY <2>1, <3>3 DEF Held, Holding
      <4> QED
        BY <1>4, <2>1, <3>1, <3>2, <3>3, <4>1 DEF Carries, Page, Row, At, ChunkWork
    <3>4. CASE at[v].step \notin {"ocr_page", "ocr_row"}
      BY <2>1, <3>1, <3>2, <3>4 DEF Carries, At
    <3> QED
      BY <3>2, <3>3, <3>4
  <2> QED
    BY <2>2, <2>3
<1>7. Chunked' => Chunked
  BY <1>3, <1>4 DEF Chunked
<1>8. PhaseInv' /\ CarryInv'
  BY <1>5, <1>6, <1>7 DEF Base, PhaseInv, CarryInv
<1> QED
  BY <1>8, EndsKeeps DEF Base, Values

LEMMA ClaimBase ==
    ASSUME Base, NEW w \in Threads, NEW i \in DOMAIN jobs, Claim(w, i)
    PROVE  Base'
<1>1. jobs \in Seq(JobRow) /\ jobs[i] \in JobRow /\ at[w] \in Local /\ i \in Nat
  BY RowsAreTyped DEF Base, JobsInv, AtInv
<1>2. [jobs[i] EXCEPT !.state = "running"] \in JobRow
  BY <1>1 DEF JobRow, JobState
<1>3. /\ jobs' \in Seq(JobRow) /\ DOMAIN jobs' = DOMAIN jobs
      /\ jobs'[i] = [jobs[i] EXCEPT !.state = "running"]
      /\ \A k \in DOMAIN jobs : k # i => jobs'[k] = jobs[k]
  BY <1>1, <1>2 DEF Claim
<1>4. /\ jobs'[i].state = "running" /\ jobs'[i].stage = jobs[i].stage
      /\ jobs'[i].key = jobs[i].key
  BY <1>1, <1>3 DEF JobRow
<1>5. \A k \in DOMAIN jobs : jobs'[k].stage = jobs[k].stage /\ jobs'[k].key = jobs[k].key
  BY <1>3, <1>4
<1> DEFINE new == [Idle EXCEPT !.step = jobs[i].stage, !.job = i]
<1>6. new \in Local /\ new.step = jobs[i].stage /\ new.job = i /\ jobs[i].stage \in Stage
  BY <1>1 DEF Idle, Local, NoArts, JobRow, Step
<1>7. at' \in [Threads -> Local] /\ at'[w] = new /\ Same(w) /\ up /\ ~Holding(w)
  BY <1>6 DEF Claim, Base, AtInv, Same, Holding, At
<1> HIDE DEF new
<1>8. i \notin {at[v].job : v \in {u \in Threads : Holding(u)}}
  <2> SUFFICES ASSUME NEW v \in Threads, Holding(v), at[v].job = i
               PROVE  FALSE
    OBVIOUS
  <2>1. jobs[i].state = "running"
    BY DEF Base, HeldInv, Held, Row
  <2> QED
    BY <2>1 DEF Claim, Orphan
<1>9. Held(w)' /\ Holding(w)'
  BY <1>3, <1>4, <1>6, <1>7, StepsAreOfStages DEF Held, Holding, Row
<1>10. ASSUME NEW v \in Threads, v # w
       PROVE  Held(v)'
  BY <1>3, <1>7, <1>8, <1>10 DEF Held, Holding, Row, Same, Base, HeldInv
<1>11. ASSUME NEW v \in Threads, NEW u \in Threads
       PROVE  Alone(v, u)'
  <2>1. Held(v) /\ Held(u) /\ Alone(v, u)
    BY DEF Base, HeldInv
  <2>2. ASSUME NEW x \in Threads, x # w
        PROVE  at'[x] = at[x] /\ at[x].job # i
    BY <1>1, <1>7, <1>8, <2>2 DEF Same, Base, HeldInv, Held
  <2> QED
    BY <1>6, <1>7, <2>1, <2>2 DEF Alone, Holding
<1>12. FirstInv' /\ OcrKeysInv' /\ DownInv'
  BY <1>3, <1>5, <1>7 DEF FirstInv, OcrKeysInv, DownInv, Base, Claim
<1>13. GaveUp => GaveUp'
  <2>1. 1 \in DOMAIN jobs
    BY <1>1 DEF Base, FirstInv
  <2> QED
    BY <1>3, <2>1 DEF GaveUp, Claim, Orphan
<1>14. ASSUME NEW v \in Threads
       PROVE  Phase(v)' /\ Carries(v)'
  <2>1. Phase(v) /\ Carries(v) /\ Held(v)
    BY DEF Base, PhaseInv, CarryInv, HeldInv
  <2>2. UNCHANGED run
    BY DEF Claim
  <2>3. CASE v = w
    BY <1>6, <1>7, <2>3 DEF Phase, Carries, At, ChunkWork, Stage
  <2>4. CASE v # w
    <3>1. at'[v] = at[v]
      BY <1>7, <2>4 DEF Same
    <3>2. Phase(v)'
      BY <1>13, <2>1, <2>2, <3>1 DEF Phase, At
    <3>3. CASE at[v].step \in {"ocr_page", "ocr_row"}
      <4>1. at[v].job \in DOMAIN jobs
        BY <2>1, <3>3 DEF Held, Holding
      <4> QED
        BY <1>5, <2>1, <3>1, <3>2, <3>3, <4>1 DEF Carries, Page, Row, At, ChunkWork
    <3>4. CASE at[v].step \notin {"ocr_page", "ocr_row"}
      BY <2>1, <3>1, <3>2, <3>4 DEF Carries, At
    <3> QED
      BY <3>2, <3>3, <3>4
  <2> QED
    BY <2>3, <2>4
<1>15. Chunked' => Chunked
  BY <1>3, <1>5 DEF Chunked
<1>16. PhaseInv' /\ CarryInv'
  BY <1>13, <1>14, <1>15 DEF Base, PhaseInv, CarryInv, Claim, AllUnits, book
<1>17. Values'
  BY DEF Base, Values, RunInv, BookInv, IndexInv, ScalarInv, Claim, book, index, bounds
<1>18. HeldInv'
  BY <1>9, <1>10, <1>11 DEF HeldInv
<1> QED
  BY <1>3, <1>7, <1>12, <1>16, <1>17, <1>18 DEF Base, Values, JobsInv, AtInv

\* A handler that lets go of its job and leaves the book alone.
LEMMA LeavesBase ==
    ASSUME Base, NEW w \in Threads, Holding(w), NEW s \in JobState, LetGo(w, s), LeaveBook,
           ScalarInv'
    PROVE  Ends(w) /\ Base'
<1>1. Idle \in Local /\ Idle.job = 0 /\ Idle.step = "idle"
  BY DEF Idle, Local, NoArts, Step
<1>2. Ends(w) /\ at'[w] = Idle
  BY <1>1 DEF Ends, LetGo, Same, Base, AtInv, LeaveBook
<1>3. Values' /\ UNCHANGED run /\ (AllUnits => AllUnits')
  BY DEF LeaveBook, Base, Values, RunInv, BookInv, IndexInv, book, index, AllUnits
<1>4. ~At(w, "fail_run")'
  BY <1>1, <1>2 DEF At
<1> QED
  BY <1>2, <1>3, <1>4, EndsBase

LEMMA QueueFollows ==
    ASSUME Base, NEW stage \in Stage \ {"extract"}, NEW key \in AnyKey,
           stage = "ocr" => key \in Scanned, Queue(stage, key)
    PROVE  /\ Follows(jobs, jobs')
           /\ Chunked' => Chunked \/ stage = "chunk"
<1>1. jobs \in Seq(JobRow) /\ jobs' = Inserted(jobs, stage, key)
  BY DEF Base, JobsInv, Queue
<1>2. Follows(jobs, jobs')
  BY <1>1, InsertedRows
<1>3. /\ \A i \in 1 .. Len(jobs) : jobs'[i] = jobs[i]
      /\ \A i \in 1 .. Len(jobs') : i > Len(jobs) => jobs'[i].stage = stage
  BY <1>1, InsertedRows
<1>4. Len(jobs) \in Nat /\ Len(jobs') \in Nat /\ DOMAIN jobs = 1 .. Len(jobs)
      /\ DOMAIN jobs' = 1 .. Len(jobs')
  BY <1>1, <1>2 DEF Follows
<1> QED
  BY <1>2, <1>3, <1>4 DEF Chunked

LEMMA FingerprintIsTyped ==
    ASSUME Base
    PROVE  Fingerprint \in FP /\ Fingerprint # NoFP
<1>1. \A p \in Pages : unit[p] \in Unit \cup {NoUnit}
  BY DEF Base, BookInv
<1>2. \A p \in Pages : (IF unit[p] = NoUnit THEN NoArt ELSE unit[p].art) \in Art \cup {NoArt}
  BY <1>1 DEF Unit
<1>3. Fingerprint \in FP
  BY <1>2 DEF Fingerprint, FP, Base, ScalarInv
<1> QED
  BY <1>3, NothingAssumption

\* An action that goes on to a step of its stage, and touches no local but the step.
LEMMA GoAdvances ==
    ASSUME Base, NEW w \in Threads, NEW stage \in Stage,
           at[w].step \in StepsOf(stage) \ {"succeed"}, NEW step \in StepsOf(stage),
           Go(w, step), Follows(jobs, jobs'), up' = up
    PROVE  Advances(w) /\ at'[w] = [at[w] EXCEPT !.step = step]
<1>1. Holding(w)
  BY StepsAreOfStages DEF Holding
<1>2. Row(w).stage = stage
  BY <1>1, StageOfStep DEF Base
<1>3. step \in Step /\ at \in [Threads -> Local] /\ at[w] \in Local
  BY StepsAreOfStages DEF Base, AtInv
<1>4. at'[w] = [at[w] EXCEPT !.step = step] /\ Same(w)
  BY <1>3 DEF Go, Same
<1>5. at' \in [Threads -> Local] /\ at'[w].job = at[w].job /\ at'[w].step = step
  <2>1. [at[w] EXCEPT !.step = step] \in Local
    BY <1>3 DEF Local
  <2>2. at' = [at EXCEPT ![w] = [at[w] EXCEPT !.step = step]]
    BY <1>3 DEF Go
  <2> QED
    BY <1>3, <1>4, <2>1, <2>2 DEF Local
<1> QED
  BY <1>1, <1>2, <1>4, <1>5 DEF Advances

\* An action that sets several locals.
LEMMA SetAdvances ==
    ASSUME Base, NEW w \in Threads, NEW stage \in Stage,
           at[w].step \in StepsOf(stage) \ {"succeed"}, NEW l \in Local,
           l.job = at[w].job, l.step \in StepsOf(stage),
           at' = [at EXCEPT ![w] = l], Follows(jobs, jobs'), up' = up
    PROVE  Advances(w) /\ at'[w] = l
<1>1. Holding(w)
  BY StepsAreOfStages DEF Holding
<1>2. Row(w).stage = stage
  BY <1>1, StageOfStep DEF Base
<1>3. at \in [Threads -> Local]
  BY DEF Base, AtInv
<1> QED
  BY <1>1, <1>2, <1>3 DEF Advances, Same

-----------------------------------------------------------------------------
(* Base is kept by the extract handler.                                    *)

LEMMA StartRunBase ==
    ASSUME Base, NEW w \in Threads, StartRun(w)
    PROVE  Advances(w) /\ Base'
<1> DEFINE step == IF run.state = "succeeded" THEN "queue_ocr" ELSE "page"
<1>1. step \in StepsOf("extract") /\ at[w].step \in StepsOf("extract") \ {"succeed"}
  BY DEF StartRun, At, StepsOf
<1>2. Go(w, step) /\ Follows(jobs, jobs') /\ up' = up
  BY FollowsItself DEF StartRun, Base, JobsInv
<1>3. Advances(w) /\ at'[w].step = step
  <2>1. Advances(w) /\ at'[w] = [at[w] EXCEPT !.step = step]
    BY <1>1, <1>2, GoAdvances DEF Stage
  <2> QED
    BY <2>1 DEF Base, AtInv, Local
<1>4. Values'
  BY DEF StartRun, Base, Values, RunInv, BookInv, IndexInv, ScalarInv, book, index, bounds
<1>5. Carries(w)'
  BY <1>3 DEF Carries, At, ChunkWork
<1>6. at[w].job = 1 /\ jobs[1].state = "running" /\ ~GaveUp
  BY <1>1, ExtractIsAlone DEF GaveUp
<1>7. jobs' = jobs /\ AllUnits' = AllUnits
  BY DEF StartRun, AllUnits, book
<1>8. ASSUME NEW v \in Threads
      PROVE  Phase(v)'
  <2>1. CASE v = w
    <3>1. run.state = "succeeded" => run'.state = "succeeded"
      BY DEF StartRun
    <3>2. run.state # "succeeded" => run'.state = "running"
      BY DEF StartRun, Base, RunInv
    <3> QED
      BY <1>3, <2>1, <3>1, <3>2 DEF Phase, At
  <2>2. CASE v # w
    <3>1. at'[v] = at[v] /\ Phase(v)
      BY <1>3, <2>2 DEF Advances, Same, Base, PhaseInv
    <3>2. at[v].step \notin StepsOf("extract") \ {"succeed"}
      BY <1>1, <2>2, ExtractIsAlone
    <3> QED
      BY <1>7, <3>1, <3>2 DEF Phase, At, StepsOf, GaveUp
  <2> QED
    BY <2>1, <2>2
<1>9. PhaseInv'
  <2>1. CASE run.state = "succeeded"
    BY <1>6, <1>7, <1>8, <2>1 DEF PhaseInv, Base, StartRun, Chunked
  <2>2. CASE run.state # "succeeded"
    <3>1. run'.state = "running" /\ run.state # "failed"
      BY <1>6, <2>2 DEF StartRun, Base, RunInv, PhaseInv
    <3> QED
      BY <1>6, <1>7, <1>8, <2>2, <3>1 DEF PhaseInv, Base, Chunked
  <2> QED
    BY <2>1, <2>2
<1> QED
  BY <1>3, <1>4, <1>5, <1>9, AdvancesBase

LEMMA SourceUnreadableBase ==
    ASSUME Base, NEW w \in Threads, SourceUnreadable(w)
    PROVE  Ends(w) /\ Base'
<1>1. at[w].step \in StepsOf("extract") \ {"succeed"} /\ Holding(w)
  BY DEF SourceUnreadable, At, StepsOf, Holding
<1>2. at[w].job = 1 /\ 1 \in DOMAIN jobs /\ jobs \in Seq(JobRow)
  BY <1>1, ExtractIsAlone DEF Base, FirstInv, JobsInv
<1> DEFINE new == [Idle EXCEPT !.step = "fail_run"]
<1>3. new \in Local /\ new.job = 0 /\ new.step = "fail_run"
  BY DEF Idle, Local, NoArts, Step
<1>4. at' = [at EXCEPT ![w] = new] /\ at \in [Threads -> Local]
  BY DEF SourceUnreadable, Base, AtInv
<1> HIDE DEF new
<1>5. at' \in [Threads -> Local] /\ at'[w] = new /\ Same(w)
  BY <1>3, <1>4 DEF Same
<1>6. jobs' = [jobs EXCEPT ![at[w].job].state = "permanent_failed"] /\ up' = up
  BY DEF SourceUnreadable, LeaveBook
<1>7. Ends(w)
  BY <1>1, <1>3, <1>5, <1>6 DEF Ends, JobState
<1>8. GaveUp'
  <2>1. jobs[1] \in JobRow
    BY <1>2
  <2> QED
    BY <1>2, <1>6, <2>1 DEF GaveUp, JobRow
<1>9. Values' /\ UNCHANGED run /\ (AllUnits => AllUnits')
  BY DEF SourceUnreadable, LeaveBook, Base, Values, RunInv, BookInv, IndexInv, ScalarInv, book,
         index, AllUnits, Within
<1> QED
  BY <1>7, <1>8, <1>9, EndsBase

LEMMA FailRunBase ==
    ASSUME Base, NEW w \in Threads, FailRun(w)
    PROVE  Base'
<1>1. at \in [Threads -> Local] /\ at[w] \in Local /\ at[w].step = "fail_run"
  BY DEF Base, AtInv, FailRun, At
<1>2. at[w].job = 0 /\ GaveUp
  BY <1>1 DEF Base, HeldInv, Held, Holding, PhaseInv, Phase, At
<1>3. /\ at' \in [Threads -> Local] /\ Same(w)
      /\ at'[w].step = "idle" /\ at'[w].job = 0
  <2>1. [at[w] EXCEPT !.step = "idle"] \in Local
    BY <1>1 DEF Local, Step
  <2>2. at' = [at EXCEPT ![w] = [at[w] EXCEPT !.step = "idle"]]
    BY <1>1 DEF FailRun, Go
  <2> QED
    BY <1>1, <1>2, <2>1, <2>2 DEF Same, Local
<1>4. UNCHANGED <<jobs, up, unit, file>> /\ AllUnits' = AllUnits
  BY DEF FailRun, book, AllUnits
<1>5. \A v \in Threads : at[v].step \notin StepsOf("extract") \ {"succeed"}
  BY <1>2, ExtractIsAlone DEF GaveUp
<1>6. HeldInv'
  <2>1. \A v \in Threads : Held(v)'
    BY <1>3, <1>4 DEF Same, Base, HeldInv, Held, Holding, Row
  <2>2. 0 \notin DOMAIN jobs
    BY DEF Base, JobsInv
  <2>3. \A v, u \in Threads : Alone(v, u)'
    BY <1>3, <1>4, <2>1, <2>2 DEF Same, Base, HeldInv, Held, Holding, Row, Alone
  <2> QED
    BY <2>1, <2>3 DEF HeldInv
<1>7. FirstInv' /\ OcrKeysInv' /\ DownInv' /\ JobsInv'
  BY <1>3, <1>4 DEF FirstInv, OcrKeysInv, DownInv, Base, JobsInv, Same, At
<1>8. CarryInv'
  <2> SUFFICES ASSUME NEW v \in Threads
               PROVE  Carries(v)'
    BY DEF CarryInv
  <2>1. CASE v = w
    BY <1>3, <2>1 DEF Carries, At, ChunkWork
  <2>2. CASE v # w
    BY <1>3, <1>4, <2>2 DEF Carries, At, ChunkWork, Base, CarryInv, Same, Page, Row
  <2> QED
    BY <2>1, <2>2
<1>9. Values'
  BY DEF FailRun, Base, Values, RunInv, BookInv, IndexInv, ScalarInv, book, index, bounds
<1>10. PhaseInv'
  <2>1. \A v \in Threads : Phase(v)'
    <3> SUFFICES ASSUME NEW v \in Threads
                 PROVE  Phase(v)'
      OBVIOUS
    <3>1. CASE v = w
      BY <1>3, <3>1 DEF Phase, At
    <3>2. CASE v # w
      BY <1>2, <1>3, <1>4, <1>5, <3>2 DEF Phase, Same, StepsOf, GaveUp
    <3> QED
      BY <3>1, <3>2
  <2>2. run'.state \in {"none", "failed"} /\ (run'.state = "none" => run.state = "none")
    BY DEF FailRun, Base, RunInv
  <2> QED
    BY <1>2, <1>4, <2>1, <2>2 DEF PhaseInv, Base, GaveUp, Chunked
<1> QED
  BY <1>3, <1>6, <1>7, <1>8, <1>9, <1>10 DEF Base, Values, AtInv

\* Nothing but the handler's own step, and rows added to the table.
LEMMA LeaveValues ==
    ASSUME Base, Leave
    PROVE  Values' /\ UNCHANGED <<run, unit, file, up>> /\ AllUnits' = AllUnits
  BY DEF Leave, LeaveBook, Base, Values, RunInv, BookInv, IndexInv, ScalarInv, book, index,
         bounds, AllUnits

\* Steps in which a handler carries nothing that Base is about.
Light == {"succeed", "fail", "rekey", "queue_embed", "embed_batch", "queue_publish", "switch",
          "queue_resume"}

LEMMA LightBase ==
    ASSUME Base, NEW w \in Threads, Advances(w), at'[w].step \in Light,
           Values', run'.state = run.state, AllUnits => AllUnits',
           Chunked' => Chunked \/ run.state = "succeeded"
    PROVE  Base'
<1>1. Carries(w)' /\ Phase(w)'
  BY DEF Carries, Phase, At, ChunkWork, Light
<1> QED
  BY <1>1, WorkBase

LEMMA GoBase ==
    ASSUME Base, NEW w \in Threads, NEW stage \in Stage,
           at[w].step \in StepsOf(stage) \ {"succeed"}, NEW step \in StepsOf(stage) \cap Light,
           Go(w, step), Follows(jobs, jobs'), Leave,
           Chunked' => Chunked \/ run.state = "succeeded"
    PROVE  Advances(w) /\ at'[w] = [at[w] EXCEPT !.step = step] /\ Base'
<1>1. Values' /\ UNCHANGED <<run, unit, file, up>> /\ AllUnits' = AllUnits
  BY LeaveValues
<1>2. Advances(w) /\ at'[w] = [at[w] EXCEPT !.step = step]
  BY <1>1, GoAdvances
<1>3. at'[w].step = step
  BY <1>2 DEF Base, AtInv, Local
<1> QED
  BY <1>1, <1>2, <1>3, LightBase

LEMMA PageArtifactBase ==
    ASSUME Base, NEW w \in Threads, NEW p \in Pages, PageArtifact(w, p)
    PROVE  Advances(w) /\ Base'
<1> DEFINE l == [at[w] EXCEPT !.step = "page_row", !.page = p]
<1>1. at \in [Threads -> Local] /\ at[w] \in Local
  BY DEF Base, AtInv
<1>2. l \in Local /\ l.job = at[w].job /\ l.step = "page_row" /\ l.page = p
  BY <1>1 DEF Local, Step
<1>3. at' = [at EXCEPT ![w] = l]
  BY <1>1 DEF PageArtifact
<1> HIDE DEF l
<1>4. at[w].step \in StepsOf("extract") \ {"succeed"} /\ l.step \in StepsOf("extract")
  BY <1>2 DEF PageArtifact, At, StepsOf
<1>5. Follows(jobs, jobs') /\ up' = up
  BY FollowsItself DEF PageArtifact, Base, JobsInv
<1>6. Advances(w) /\ at'[w] = l
  BY <1>2, <1>3, <1>4, <1>5, SetAdvances DEF Stage
<1>7. Values'
  <2>1. BookInv'
    BY DEF PageArtifact, Base, BookInv, Fresh, Art, Text
  <2> QED
    BY <2>1 DEF PageArtifact, Base, Values, RunInv, IndexInv, ScalarInv, index, bounds
<1>8. Carries(w)' /\ Phase(w)'
  BY <1>2, <1>6 DEF Carries, Phase, At, ChunkWork, PageArtifact, Base, PhaseInv
<1>9. UNCHANGED <<run, jobs, unit>>
  BY DEF PageArtifact
<1> QED
  BY <1>6, <1>7, <1>8, <1>9, WorkBase DEF AllUnits, Chunked

LEMMA PageRowBase ==
    ASSUME Base, NEW w \in Threads, PageRow(w)
    PROVE  /\ Advances(w) /\ Base' /\ at[w].page \in Pages
           /\ at'[w] = [at[w] EXCEPT !.step = IF at[w].page \in Scanned THEN "page_ocr"
                                                                       ELSE "page"]
<1> DEFINE p == at[w].page
           step == IF p \in Scanned THEN "page_ocr" ELSE "page"
           row == [art |-> Fresh, ocr |-> IF p \in Scanned THEN "pending" ELSE "none"]
<1>1. p \in Pages /\ at[w].step = "page_row" /\ run.state = "running"
  BY DEF Base, CarryInv, Carries, PageRow, At, PhaseInv, Phase
<1>2. at[w].step \in StepsOf("extract") \ {"succeed"} /\ step \in StepsOf("extract")
  BY <1>1 DEF StepsOf
<1>3. Go(w, step) /\ Follows(jobs, jobs') /\ up' = up
  BY FollowsItself DEF PageRow, Base, JobsInv
<1>4. Advances(w) /\ at'[w] = [at[w] EXCEPT !.step = step]
  BY <1>2, <1>3, GoAdvances DEF Stage
<1>5. at'[w].step = step /\ at'[w].page = p
  BY <1>4 DEF Base, AtInv, Local
<1>6. row \in Unit
  BY DEF Unit, Fresh, Art
<1>7. unit' = [unit EXCEPT ![p] = row] /\ unit \in [Pages -> Unit \cup {NoUnit}]
  BY DEF PageRow, Base, BookInv
<1>8. unit' \in [Pages -> Unit \cup {NoUnit}] /\ (AllUnits => AllUnits')
  BY <1>1, <1>6, <1>7, NothingAssumption DEF AllUnits
<1>9. Values' /\ UNCHANGED <<run, jobs>>
  BY <1>8 DEF PageRow, Base, Values, RunInv, BookInv, IndexInv, ScalarInv, index, bounds
<1>10. Carries(w)' /\ Phase(w)'
  BY <1>1, <1>5, <1>9 DEF Carries, Phase, At, ChunkWork
<1> QED
  BY <1>1, <1>4, <1>8, <1>9, <1>10, WorkBase DEF Chunked

LEMMA QueuePageOcrBase ==
    ASSUME Base, NEW w \in Threads, QueuePageOcr(w)
    PROVE  /\ Advances(w) /\ Base' /\ at'[w] = [at[w] EXCEPT !.step = "page"]
           /\ HasKey(jobs', "ocr", at[w].page) /\ at[w].page \in Scanned
<1>1. at[w].page \in Scanned /\ at[w].step = "page_ocr" /\ run.state = "running"
  BY DEF Base, CarryInv, Carries, QueuePageOcr, At, PhaseInv, Phase
<1>2. at[w].page \in AnyKey
  BY <1>1, PipelineAssumption DEF AnyKey
<1>3. Follows(jobs, jobs') /\ (Chunked' => Chunked)
  BY <1>1, <1>2, QueueFollows DEF QueuePageOcr, Stage
<1>4. HasKey(jobs', "ocr", at[w].page)
  BY <1>1, <1>2, InsertedRows DEF QueuePageOcr, Queue, Stage, Base, JobsInv
<1>5. at[w].step \in StepsOf("extract") \ {"succeed"} /\ "page" \in StepsOf("extract")
  BY <1>1 DEF StepsOf
<1>6. Values' /\ UNCHANGED <<run, unit, file, up>> /\ AllUnits' = AllUnits
  BY LeaveValues DEF QueuePageOcr
<1>7. Advances(w) /\ at'[w] = [at[w] EXCEPT !.step = "page"]
  BY <1>3, <1>5, <1>6, GoAdvances DEF QueuePageOcr, Stage
<1>8. at'[w].step = "page"
  BY <1>7 DEF Base, AtInv, Local
<1>9. Carries(w)' /\ Phase(w)'
  BY <1>1, <1>6, <1>8 DEF Carries, Phase, At, ChunkWork
<1> QED
  BY <1>1, <1>3, <1>4, <1>6, <1>7, <1>9, WorkBase

LEMMA FinishRunBase ==
    ASSUME Base, NEW w \in Threads, FinishRun(w)
    PROVE  Advances(w) /\ Base' /\ at'[w] = [at[w] EXCEPT !.step = "queue_ocr"]
<1>1. at[w].step = "page" /\ at[w].step \in StepsOf("extract") \ {"succeed"}
  BY DEF FinishRun, At, StepsOf
<1>2. Go(w, "queue_ocr") /\ Follows(jobs, jobs') /\ up' = up /\ "queue_ocr" \in StepsOf("extract")
  BY FollowsItself DEF FinishRun, Base, JobsInv, StepsOf
<1>3. Advances(w) /\ at'[w] = [at[w] EXCEPT !.step = "queue_ocr"]
  BY <1>1, <1>2, GoAdvances DEF Stage
<1>4. at'[w].step = "queue_ocr"
  BY <1>3 DEF Base, AtInv, Local
<1>5. Values' /\ run'.state = "succeeded" /\ UNCHANGED <<jobs, unit>>
  BY DEF FinishRun, Base, Values, RunInv, BookInv, IndexInv, ScalarInv, book, index, bounds
<1>6. AllUnits
  BY DEF FinishRun, Verified, AllUnits
<1>7. Carries(w)'
  BY <1>4 DEF Carries, At, ChunkWork
<1>8. ASSUME NEW v \in Threads
      PROVE  Phase(v)'
  <2>1. CASE v = w
    BY <1>4, <1>5, <2>1 DEF Phase, At
  <2>2. CASE v # w
    <3>1. at'[v] = at[v] /\ Phase(v) /\ at[v].step \notin StepsOf("extract") \ {"succeed"}
      BY <1>1, <1>3, <2>2, ExtractIsAlone DEF Advances, Same, Base, PhaseInv
    <3> QED
      BY <1>5, <3>1 DEF Phase, At, StepsOf, GaveUp
  <2> QED
    BY <2>1, <2>2
<1>9. PhaseInv'
  BY <1>5, <1>6, <1>8 DEF PhaseInv, AllUnits
<1> QED
  BY <1>3, <1>5, <1>7, <1>9, AdvancesBase

LEMMA QueueOcrBase ==
    ASSUME Base, NEW w \in Threads, QueueOcr(w)
    PROVE  Base' /\ (Advances(w) \/ Grows)
<1> DEFINE missing == {p \in Scanned : unit[p] # NoUnit /\ ~HasKey(jobs, "ocr", p)}
<1>1. /\ at[w].step = "queue_ocr" /\ run.state = "succeeded"
      /\ at[w].step \in StepsOf("extract") \ {"succeed"} /\ "queue_chunk" \in StepsOf("extract")
  BY DEF Base, QueueOcr, At, PhaseInv, Phase, StepsOf
<1>2. Values' /\ UNCHANGED <<run, unit, file, up>> /\ AllUnits' = AllUnits
  BY LeaveValues DEF QueueOcr
<1>3. CASE \E p \in missing : Queue("ocr", p) /\ UNCHANGED at
  <2> PICK p \in missing : Queue("ocr", p) /\ UNCHANGED at
    BY <1>3
  <2>1. p \in Scanned /\ p \in AnyKey
    BY PipelineAssumption DEF AnyKey
  <2>2. Grows /\ (Chunked' => Chunked)
    BY <1>2, <2>1, QueueFollows DEF Grows, Stage
  <2> QED
    BY <1>2, <2>2, GrowsBase DEF book
<1>4. CASE UNCHANGED jobs /\ Go(w, "queue_chunk")
  <2>1. Follows(jobs, jobs')
    BY <1>4, FollowsItself DEF Base, JobsInv
  <2>2. Advances(w) /\ at'[w] = [at[w] EXCEPT !.step = "queue_chunk"]
    BY <1>1, <1>2, <1>4, <2>1, GoAdvances DEF Stage
  <2>3. at'[w].step = "queue_chunk"
    BY <2>2 DEF Base, AtInv, Local
  <2>4. Carries(w)' /\ Phase(w)'
    BY <1>1, <1>2, <2>3 DEF Carries, Phase, At, ChunkWork
  <2> QED
    BY <1>2, <1>4, <2>2, <2>4, WorkBase DEF Chunked
<1> QED
  BY <1>3, <1>4 DEF QueueOcr

LEMMA QueueChunkBase ==
    ASSUME Base, NEW w \in Threads, QueueChunk(w)
    PROVE  Advances(w) /\ Base' /\ at'[w] = [at[w] EXCEPT !.step = "succeed"]
<1>1. /\ at[w].step = "queue_chunk" /\ run.state = "succeeded"
      /\ at[w].step \in StepsOf("extract") \ {"succeed"}
      /\ "succeed" \in StepsOf("extract") \cap Light
  BY DEF Base, QueueChunk, At, PhaseInv, Phase, StepsOf, Light
<1>2. Fingerprint \in AnyKey
  BY FingerprintIsTyped DEF AnyKey
<1>3. Follows(jobs, jobs')
  BY <1>2, QueueFollows DEF QueueChunk, Stage
<1> QED
  BY <1>1, <1>3, GoBase DEF QueueChunk, Stage

-----------------------------------------------------------------------------
(* ... by the ocr handler.                                                 *)

LEMMA TransientBase ==
    ASSUME Base, NEW w \in Threads, Holding(w), FailTransiently(w)
    PROVE  Ends(w) /\ Base' /\ LeaveBook
<1>1. LeaveBook /\ ScalarInv'
  BY DEF FailTransiently, LeaveBook, Base, ScalarInv
<1>2. \E s \in {"retryable_failed", "permanent_failed"} : LetGo(w, s)
  BY DEF FailTransiently
<1> QED
  BY <1>1, <1>2, LeavesBase DEF JobState

LEMMA LeaveScalars ==
    ASSUME Base, Leave
    PROVE  LeaveBook /\ ScalarInv'
  BY DEF Leave, LeaveBook, Base, ScalarInv, bounds

LEMMA DeferBase ==
    ASSUME Base, NEW w \in Threads, Holding(w), Defer(w) \/ FailForGood(w)
    PROVE  Ends(w) /\ Base' /\ LeaveBook
<1>1. LeaveBook /\ ScalarInv'
  BY LeaveScalars DEF Defer, FailForGood
<1>2. \E s \in {"retryable_failed", "permanent_failed"} : LetGo(w, s)
  BY DEF Defer, FailForGood
<1> QED
  BY <1>1, <1>2, LeavesBase DEF JobState

LEMMA SucceedBase ==
    ASSUME Base, NEW w \in Threads, Succeed(w)
    PROVE  Ends(w) /\ Base' /\ LeaveBook
<1>1. LeaveBook /\ ScalarInv' /\ Holding(w)
  BY LeaveScalars DEF Succeed, Holding, At
<1> QED
  BY <1>1, LeavesBase DEF JobState, Succeed

LEMMA FailBase ==
    ASSUME Base, NEW w \in Threads, Fail(w)
    PROVE  Ends(w) /\ Base' /\ LeaveBook
<1>1. Holding(w)
  BY DEF Fail, Holding, At
<1> QED
  BY <1>1, DeferBase DEF Fail

\* The page of an OCR job.
LEMMA OcrPages ==
    ASSUME Base, NEW w \in Threads, at[w].step \in StepsOf("ocr") \ {"succeed"}
    PROVE  /\ Holding(w) /\ Page(w) \in Pages /\ Row(w).stage = "ocr"
           /\ Row(w) = jobs[at[w].job] /\ at[w].job \in DOMAIN jobs
<1>1. Holding(w) /\ Row(w).stage = "ocr"
  BY StageOfStep DEF Base, Holding, StepsOf, Stage
<1>2. at[w].job \in DOMAIN jobs
  BY <1>1 DEF Base, HeldInv, Held
<1> QED
  BY <1>1, <1>2, PipelineAssumption DEF Page, Row, Base, OcrKeysInv

LEMMA OcrEndsBase ==
    ASSUME Base, NEW w \in Threads, OcrWaits(w) \/ OcrUnreadable(w)
    PROVE  Ends(w) /\ Base' /\ LeaveBook
<1>1. Holding(w)
  BY DEF OcrWaits, OcrUnreadable, Holding, At
<1> QED
  BY <1>1, DeferBase DEF OcrWaits, OcrUnreadable

LEMMA OcrBeginsBase ==
    ASSUME Base, NEW w \in Threads, OcrBegins(w)
    PROVE  Advances(w) /\ Base' /\ at'[w].step \in {"succeed", "ocr_page"}
<1> DEFINE p == Page(w)
<1>1. /\ at[w].step = "ocr" /\ at[w].step \in StepsOf("ocr") \ {"succeed"}
      /\ at \in [Threads -> Local] /\ at[w] \in Local
  BY DEF OcrBegins, At, StepsOf, Base, AtInv
<1>2. p \in Pages /\ Row(w).stage = "ocr"
  BY <1>1, OcrPages
<1>3. file[p] \in Art
  BY <1>2 DEF OcrBegins, Verified, Base, BookInv, Unit
<1>4. Values' /\ UNCHANGED <<run, unit, file, up, jobs>> /\ AllUnits' = AllUnits
  BY LeaveValues DEF OcrBegins
<1>5. Follows(jobs, jobs')
  BY <1>4, FollowsItself DEF Base, JobsInv
<1>6. CASE Go(w, "succeed")
  <2>1. "succeed" \in StepsOf("ocr") \cap Light
    BY DEF StepsOf, Light
  <2>2. Advances(w) /\ at'[w] = [at[w] EXCEPT !.step = "succeed"] /\ Base'
    BY <1>1, <1>4, <1>5, <1>6, <2>1, GoBase DEF Stage, OcrBegins, Chunked
  <2> QED
    BY <1>1, <2>2 DEF Local
<1>7. CASE at' = [at EXCEPT ![w].step = "ocr_page", ![w].arts[p] = file[p]]
  <2> DEFINE arts == [at[w].arts EXCEPT ![p] = file[p]]
             l == [at[w] EXCEPT !.step = "ocr_page", !.arts = arts]
  <2>1. arts \in [Pages -> Art \cup {NoArt}] /\ arts[p] = file[p]
    BY <1>1, <1>2, <1>3 DEF Local
  <2> HIDE DEF arts
  <2>2. l \in Local /\ l.job = at[w].job /\ l.step = "ocr_page" /\ l.arts = arts
    BY <1>1, <2>1 DEF Local, Step
  <2>3. at' = [at EXCEPT ![w] = l]
    BY <1>1, <1>7 DEF arts, Local
  <2> HIDE DEF l
  <2>4. l.step \in StepsOf("ocr")
    BY <2>2 DEF StepsOf
  <2>5. Advances(w) /\ at'[w] = l
    BY <1>1, <1>4, <1>5, <2>2, <2>3, <2>4, SetAdvances DEF Stage
  <2>6. Page(w)' = p
    BY <1>4, <2>2, <2>5 DEF Page, Row
  <2>7. Carries(w)' /\ Phase(w)'
    BY <1>3, <2>1, <2>2, <2>5, <2>6 DEF Carries, Phase, At, ChunkWork
  <2> QED
    BY <1>4, <2>2, <2>5, <2>7, WorkBase DEF Chunked
<1> QED
  BY <1>6, <1>7 DEF OcrBegins

LEMMA OcrArtifactBase ==
    ASSUME Base, NEW w \in Threads, OcrArtifact(w)
    PROVE  /\ Advances(w) /\ Base' /\ at'[w].step = "ocr_row" /\ Page(w)' = Page(w)
           /\ Page(w) \in Pages /\ at[w].arts[Page(w)] \in Art
           /\ at'[w].arts[Page(w)] = [at[w].arts[Page(w)] EXCEPT !.ocr = TRUE]
<1> DEFINE p == Page(w)
           art == [at[w].arts[p] EXCEPT !.ocr = TRUE]
           arts == [at[w].arts EXCEPT ![p] = art]
           l == [at[w] EXCEPT !.step = "ocr_row", !.arts = arts]
<1>1. /\ at[w].step = "ocr_page" /\ at[w].step \in StepsOf("ocr") \ {"succeed"}
      /\ at \in [Threads -> Local] /\ at[w] \in Local
  BY DEF OcrArtifact, At, StepsOf, Base, AtInv
<1>2. p \in Pages /\ Row(w).stage = "ocr"
  BY <1>1, OcrPages
<1>3. at[w].arts[p] \in Art
  BY <1>1 DEF Base, CarryInv, Carries
<1>4. art \in Art
  BY <1>3 DEF Art
<1>5. /\ at' = [at EXCEPT ![w].step = "ocr_row", ![w].arts[p] = art]
      /\ file' = [file EXCEPT ![p] = art]
      /\ UNCHANGED <<settings, run, unit, chunks, vectors, index, jobs, up, bounds>>
  BY DEF OcrArtifact
<1> HIDE DEF art
<1>6. arts \in [Pages -> Art \cup {NoArt}] /\ arts[p] = art
  BY <1>1, <1>2, <1>4 DEF Local
<1> HIDE DEF arts
<1>7. l \in Local /\ l.job = at[w].job /\ l.step = "ocr_row" /\ l.arts = arts
  BY <1>1, <1>6 DEF Local, Step
<1>8. at' = [at EXCEPT ![w] = l]
  BY <1>1, <1>5 DEF arts, Local
<1> HIDE DEF l
<1>9. l.step \in StepsOf("ocr")
  BY <1>7 DEF StepsOf
<1>10. Follows(jobs, jobs') /\ up' = up
  BY <1>5, FollowsItself DEF Base, JobsInv
<1>11. Advances(w) /\ at'[w] = l
  BY <1>1, <1>7, <1>8, <1>9, <1>10, SetAdvances DEF Stage
<1>12. Page(w)' = p
  BY <1>5, <1>7, <1>11 DEF Page, Row
<1>13. Carries(w)' /\ Phase(w)'
  BY <1>4, <1>6, <1>7, <1>11, <1>12 DEF Carries, Phase, At, ChunkWork
<1>14. BookInv'
  BY <1>2, <1>4, <1>5 DEF Base, BookInv
<1>15. Values'
  BY <1>5, <1>14 DEF Base, Values, RunInv, IndexInv, ScalarInv, index, bounds
<1> QED
  BY <1>2, <1>3, <1>5, <1>6, <1>7, <1>11, <1>12, <1>13, <1>15, WorkBase DEF Chunked, AllUnits, art

LEMMA OcrRowBase ==
    ASSUME Base, NEW w \in Threads, OcrRow(w)
    PROVE  /\ Advances(w) /\ Base' /\ at'[w] = [at[w] EXCEPT !.step = "succeed"]
           /\ Page(w) \in Pages /\ at[w].arts[Page(w)] \in Art
<1>1. /\ at[w].step = "ocr_row" /\ at[w].step \in StepsOf("ocr") \ {"succeed"}
      /\ "succeed" \in StepsOf("ocr") /\ "succeed" \in Light
  BY DEF OcrRow, At, StepsOf, Light
<1>2. Page(w) \in Pages /\ at[w].arts[Page(w)] \in Art
  BY <1>1, OcrPages DEF Base, CarryInv, Carries
<1>3. [art |-> at[w].arts[Page(w)], ocr |-> "done"] \in Unit
  BY <1>2 DEF Unit
<1>4. BookInv' /\ (AllUnits => AllUnits')
  BY <1>2, <1>3, NothingAssumption DEF OcrRow, Base, BookInv, AllUnits
<1>5. Values' /\ UNCHANGED <<jobs, up, run>>
  BY <1>4 DEF OcrRow, Base, Values, RunInv, IndexInv, ScalarInv, index, bounds
<1>6. Follows(jobs, jobs')
  BY <1>5, FollowsItself DEF Base, JobsInv
<1>7. Advances(w) /\ at'[w] = [at[w] EXCEPT !.step = "succeed"]
  BY <1>1, <1>5, <1>6, GoAdvances DEF OcrRow, Stage
<1>8. at'[w].step = "succeed"
  BY <1>7 DEF Base, AtInv, Local
<1> QED
  BY <1>1, <1>2, <1>4, <1>5, <1>7, <1>8, LightBase DEF Chunked

LEMMA OcrImpossibleBase ==
    ASSUME Base, NEW w \in Threads, OcrImpossible(w)
    PROVE  /\ Advances(w) /\ Base' /\ at'[w] = [at[w] EXCEPT !.step = "fail"]
           /\ Page(w) \in Pages /\ at[w].arts[Page(w)] \in Art
<1>1. /\ at[w].step = "ocr_page" /\ at[w].step \in StepsOf("ocr") \ {"succeed"}
      /\ "fail" \in StepsOf("ocr") /\ "fail" \in Light
  BY DEF OcrImpossible, At, StepsOf, Light
<1>2. Page(w) \in Pages /\ at[w].arts[Page(w)] \in Art
  BY <1>1, OcrPages DEF Base, CarryInv, Carries
<1>3. [art |-> at[w].arts[Page(w)], ocr |-> "failed"] \in Unit
  BY <1>2 DEF Unit
<1>4. BookInv' /\ (AllUnits => AllUnits')
  BY <1>2, <1>3, NothingAssumption DEF OcrImpossible, Base, BookInv, AllUnits
<1>5. Values' /\ UNCHANGED <<jobs, up, run>>
  BY <1>4 DEF OcrImpossible, Base, Values, RunInv, IndexInv, ScalarInv, index, bounds
<1>6. Follows(jobs, jobs')
  BY <1>5, FollowsItself DEF Base, JobsInv
<1>7. Advances(w) /\ at'[w] = [at[w] EXCEPT !.step = "fail"]
  BY <1>1, <1>5, <1>6, GoAdvances DEF OcrImpossible, Stage
<1>8. at'[w].step = "fail"
  BY <1>7 DEF Base, AtInv, Local
<1> QED
  BY <1>1, <1>2, <1>4, <1>5, <1>7, <1>8, LightBase DEF Chunked

-----------------------------------------------------------------------------
(* ... by the chunk handler.                                               *)

LEMMA ChunkEndsBase ==
    ASSUME Base, NEW w \in Threads, ChunkWaits(w) \/ ChunkDoomed(w) \/ ChunkUnreadable(w)
    PROVE  Ends(w) /\ Base' /\ LeaveBook
<1>1. Holding(w)
  BY DEF ChunkWaits, ChunkDoomed, ChunkUnreadable, ChunkReady, Holding, At
<1> QED
  BY <1>1, DeferBase DEF ChunkWaits, ChunkDoomed, ChunkUnreadable

LEMMA ChunkReplaysBase ==
    ASSUME Base, NEW w \in Threads, ChunkReplays(w)
    PROVE  /\ Advances(w) /\ Base'
           /\ at'[w] = [at[w] EXCEPT !.step = "rekey", !.fp = Fingerprint]
<1> DEFINE l == [at[w] EXCEPT !.step = "rekey", !.fp = Fingerprint]
<1>1. /\ at[w].step = "chunk" /\ at[w].step \in StepsOf("chunk") \ {"succeed"}
      /\ at \in [Threads -> Local] /\ at[w] \in Local /\ Fingerprint \in FP
  BY FingerprintIsTyped DEF ChunkReplays, ChunkReady, At, StepsOf, Base, AtInv
<1>2. l \in Local /\ l.job = at[w].job /\ l.step = "rekey"
  BY <1>1 DEF Local, Step
<1>3. at' = [at EXCEPT ![w] = l]
  BY <1>1 DEF ChunkReplays
<1> HIDE DEF l
<1>4. l.step \in StepsOf("chunk") /\ l.step \in Light
  BY <1>2 DEF StepsOf, Light
<1>5. Values' /\ UNCHANGED <<run, unit, file, up, jobs>> /\ AllUnits' = AllUnits
  BY LeaveValues DEF ChunkReplays
<1>6. Follows(jobs, jobs')
  BY <1>5, FollowsItself DEF Base, JobsInv
<1>7. Advances(w) /\ at'[w] = l
  BY <1>1, <1>2, <1>3, <1>4, <1>5, <1>6, SetAdvances DEF Stage
<1> QED
  BY <1>4, <1>5, <1>7, LightBase DEF Chunked, l

LEMMA ChunkLoadsBase ==
    ASSUME Base, NEW w \in Threads, ChunkLoads(w)
    PROVE  /\ Advances(w) /\ Base' /\ file \in [Pages -> Art]
           /\ at'[w].step = IF \E p \in Pages : file[p].norm = "no"
                            THEN "normalize" ELSE "chunk_commit"
           /\ at'[w].arts = file /\ at'[w].text = [p \in Pages |-> Effective(p)]
           /\ at'[w].fp = Fingerprint
<1> DEFINE step == IF \E p \in Pages : file[p].norm = "no" THEN "normalize" ELSE "chunk_commit"
           text == [p \in Pages |-> Effective(p)]
           l == [at[w] EXCEPT !.step = step, !.arts = file, !.text = text, !.fp = Fingerprint]
<1>1. /\ at[w].step = "chunk" /\ at[w].step \in StepsOf("chunk") \ {"succeed"}
      /\ at \in [Threads -> Local] /\ at[w] \in Local /\ Fingerprint \in FP
  BY FingerprintIsTyped DEF ChunkLoads, ChunkReady, At, StepsOf, Base, AtInv
<1>2. file \in [Pages -> Art]
  BY DEF ChunkLoads, Verified, Base, BookInv, Unit
<1>3. text \in [Pages -> Text]
  BY DEF Effective, Text
<1>4. step \in {"normalize", "chunk_commit"}
  OBVIOUS
<1>5. at' = [at EXCEPT ![w].step = step, ![w].arts = file, ![w].text = text,
                       ![w].fp = Fingerprint]
  BY DEF ChunkLoads
<1> HIDE DEF step, text
<1>6. /\ l \in Local /\ l.job = at[w].job /\ l.step = step /\ l.arts = file /\ l.text = text
      /\ l.fp = Fingerprint
  BY <1>1, <1>2, <1>3, <1>4 DEF Local, Step
<1>7. at' = [at EXCEPT ![w] = l]
  BY <1>1, <1>5
<1> HIDE DEF l
<1>8. l.step \in StepsOf("chunk")
  BY <1>4, <1>6 DEF StepsOf
<1>9. Values' /\ UNCHANGED <<run, unit, file, up, jobs>> /\ AllUnits' = AllUnits
  BY LeaveValues DEF ChunkLoads
<1>10. Follows(jobs, jobs')
  BY <1>9, FollowsItself DEF Base, JobsInv
<1>11. Advances(w) /\ at'[w] = l
  BY <1>1, <1>6, <1>7, <1>8, <1>9, <1>10, SetAdvances DEF Stage
<1>12. Carries(w)' /\ Phase(w)'
  BY <1>2, <1>3, <1>4, <1>6, <1>11 DEF Carries, Phase, At, ChunkWork
<1> QED
  BY <1>2, <1>6, <1>9, <1>11, <1>12, WorkBase DEF Chunked, step, text

\* A chunk handler at work finds all units.
LEMMA ChunkPages ==
    ASSUME Base, NEW w \in Threads, at[w].step \in StepsOf("chunk") \ {"succeed"}
    PROVE  /\ Holding(w) /\ Row(w).stage = "chunk" /\ at[w].job \in DOMAIN jobs
           /\ Chunked /\ AllUnits /\ unit \in [Pages -> Unit]
<1>1. Holding(w) /\ Row(w).stage = "chunk"
  BY StageOfStep DEF Base, Holding, StepsOf, Stage
<1>2. at[w].job \in DOMAIN jobs
  BY <1>1 DEF Base, HeldInv, Held
<1>3. Chunked
  BY <1>1, <1>2 DEF Chunked, Row
<1>4. AllUnits
  BY <1>3 DEF Base, PhaseInv
<1> QED
  BY <1>1, <1>2, <1>3, <1>4 DEF AllUnits, Base, BookInv

LEMMA NormalizeArtifactBase ==
    ASSUME Base, NEW w \in Threads, NEW p \in Pages, NormalizeArtifact(w, p)
    PROVE  LET art == [at[w].arts[p] EXCEPT !.norm = at[w].text[p]]
           IN  /\ Advances(w) /\ Base' /\ at'[w].step = "norm_row" /\ at'[w].page = p
               /\ at'[w].arts = [at[w].arts EXCEPT ![p] = art] /\ at'[w].text = at[w].text
               /\ at[w].arts \in [Pages -> Art] /\ at[w].text \in [Pages -> Text] /\ art \in Art
<1> DEFINE art == [at[w].arts[p] EXCEPT !.norm = at[w].text[p]]
           arts == [at[w].arts EXCEPT ![p] = art]
           l == [at[w] EXCEPT !.step = "norm_row", !.page = p, !.arts = arts]
<1>1. /\ at[w].step = "normalize" /\ at[w].step \in StepsOf("chunk") \ {"succeed"}
      /\ at \in [Threads -> Local] /\ at[w] \in Local
  BY DEF NormalizeArtifact, At, StepsOf, Base, AtInv
<1>2. at[w].arts \in [Pages -> Art] /\ at[w].text \in [Pages -> Text]
  BY <1>1 DEF Base, CarryInv, Carries, ChunkWork
<1>3. art \in Art
  BY <1>2 DEF Art
<1>4. /\ at' = [at EXCEPT ![w].step = "norm_row", ![w].page = p, ![w].arts[p] = art]
      /\ file' = [file EXCEPT ![p] = art]
      /\ UNCHANGED <<settings, run, unit, chunks, vectors, index, jobs, up, bounds>>
  BY DEF NormalizeArtifact
<1> HIDE DEF art
<1>5. arts \in [Pages -> Art] /\ arts \in [Pages -> Art \cup {NoArt}]
  BY <1>2, <1>3
<1> HIDE DEF arts
<1>6. /\ l \in Local /\ l.job = at[w].job /\ l.step = "norm_row" /\ l.arts = arts
      /\ l.page = p /\ l.text = at[w].text
  BY <1>1, <1>5 DEF Local, Step
<1>7. at' = [at EXCEPT ![w] = l]
  BY <1>1, <1>4 DEF arts, Local
<1> HIDE DEF l
<1>8. l.step \in StepsOf("chunk")
  BY <1>6 DEF StepsOf
<1>9. Follows(jobs, jobs') /\ up' = up
  BY <1>4, FollowsItself DEF Base, JobsInv
<1>10. Advances(w) /\ at'[w] = l
  BY <1>1, <1>6, <1>7, <1>8, <1>9, SetAdvances DEF Stage
<1>11. Carries(w)' /\ Phase(w)'
  BY <1>2, <1>5, <1>6, <1>10 DEF Carries, Phase, At, ChunkWork
<1>12. BookInv'
  BY <1>3, <1>4 DEF Base, BookInv
<1>13. Values'
  BY <1>4, <1>12 DEF Base, Values, RunInv, IndexInv, ScalarInv, index, bounds
<1> QED
  BY <1>2, <1>3, <1>4, <1>6, <1>10, <1>11, <1>13, WorkBase DEF Chunked, AllUnits, art, arts

LEMMA NormalizeRowBase ==
    ASSUME Base, NEW w \in Threads, NormalizeRow(w)
    PROVE  /\ Advances(w) /\ Base' /\ at'[w] = [at[w] EXCEPT !.step = "normalize"]
           /\ at[w].page \in Pages /\ at[w].arts[at[w].page] \in Art
<1>1. /\ at[w].step = "norm_row" /\ at[w].step \in StepsOf("chunk") \ {"succeed"}
      /\ "normalize" \in StepsOf("chunk") /\ at[w] \in Local
  BY DEF NormalizeRow, At, StepsOf, Base, AtInv
<1>2. /\ at[w].page \in Pages /\ at[w].arts \in [Pages -> Art] /\ at[w].text \in [Pages -> Text]
  BY <1>1 DEF Base, CarryInv, Carries, ChunkWork
<1>3. unit \in [Pages -> Unit] /\ AllUnits
  BY <1>1, ChunkPages
<1>4. [unit[at[w].page] EXCEPT !.art = at[w].arts[at[w].page]] \in Unit
  BY <1>2, <1>3 DEF Unit
<1>5. unit' = [unit EXCEPT ![at[w].page] =
                   [unit[at[w].page] EXCEPT !.art = at[w].arts[at[w].page]]]
  BY <1>2, <1>3 DEF NormalizeRow
<1>6. unit' \in [Pages -> Unit]
  BY <1>2, <1>3, <1>4, <1>5
<1>7. BookInv' /\ AllUnits'
  BY <1>6, NothingAssumption DEF NormalizeRow, Base, BookInv, AllUnits
<1>8. Values' /\ UNCHANGED <<jobs, up, run>>
  BY <1>7 DEF NormalizeRow, Base, Values, RunInv, IndexInv, ScalarInv, index, bounds
<1>9. Follows(jobs, jobs')
  BY <1>8, FollowsItself DEF Base, JobsInv
<1>10. Advances(w) /\ at'[w] = [at[w] EXCEPT !.step = "normalize"]
  BY <1>1, <1>8, <1>9, GoAdvances DEF NormalizeRow, Stage
<1>11. at'[w].step = "normalize" /\ at'[w].arts = at[w].arts /\ at'[w].text = at[w].text
  BY <1>1, <1>10 DEF Local
<1>12. Carries(w)' /\ Phase(w)'
  BY <1>2, <1>11 DEF Carries, Phase, At, ChunkWork
<1> QED
  BY <1>2, <1>7, <1>8, <1>10, <1>12, WorkBase DEF Chunked

LEMMA NormalizedBase ==
    ASSUME Base, NEW w \in Threads, Normalized(w)
    PROVE  /\ Advances(w) /\ Base'
           /\ at'[w] = [at[w] EXCEPT !.step = "chunk_commit", !.fp = Fingerprint]
<1> DEFINE l == [at[w] EXCEPT !.step = "chunk_commit", !.fp = Fingerprint]
<1>1. /\ at[w].step = "normalize" /\ at[w].step \in StepsOf("chunk") \ {"succeed"}
      /\ at \in [Threads -> Local] /\ at[w] \in Local /\ Fingerprint \in FP
  BY FingerprintIsTyped DEF Normalized, At, StepsOf, Base, AtInv
<1>2. /\ l \in Local /\ l.job = at[w].job /\ l.step = "chunk_commit"
      /\ l.arts = at[w].arts /\ l.text = at[w].text
  BY <1>1 DEF Local, Step
<1>3. at' = [at EXCEPT ![w] = l]
  BY <1>1 DEF Normalized
<1> HIDE DEF l
<1>4. l.step \in StepsOf("chunk")
  BY <1>2 DEF StepsOf
<1>5. Values' /\ UNCHANGED <<run, unit, file, up, jobs>> /\ AllUnits' = AllUnits
  BY LeaveValues DEF Normalized
<1>6. Follows(jobs, jobs')
  BY <1>5, FollowsItself DEF Base, JobsInv
<1>7. Advances(w) /\ at'[w] = l
  BY <1>1, <1>2, <1>3, <1>4, <1>5, <1>6, SetAdvances DEF Stage
<1>8. Carries(w)
  BY DEF Base, CarryInv
<1>9. Carries(w)' /\ Phase(w)'
  BY <1>1, <1>2, <1>7, <1>8 DEF Carries, Phase, At, ChunkWork
<1> QED
  BY <1>5, <1>7, <1>9, WorkBase DEF Chunked, l

LEMMA ChunkCommitBase ==
    ASSUME Base, NEW w \in Threads, ChunkCommit(w)
    PROVE  /\ Advances(w) /\ Base' /\ at'[w] = [at[w] EXCEPT !.step = "rekey"]
           /\ at[w].arts \in [Pages -> Art] /\ run' = [run EXCEPT !.fp = at[w].fp]
<1>1. /\ at[w].step = "chunk_commit" /\ at[w].step \in StepsOf("chunk") \ {"succeed"}
      /\ "rekey" \in StepsOf("chunk") /\ "rekey" \in Light /\ at[w] \in Local
  BY DEF ChunkCommit, At, StepsOf, Light, Base, AtInv
<1>2. at[w].arts \in [Pages -> Art]
  BY <1>1 DEF Base, CarryInv, Carries, ChunkWork
<1>3. [text |-> [p \in Pages |-> at[w].arts[p].norm], cut |-> settings] \in Chunks
  BY <1>2 DEF Chunks, Base, ScalarInv, Art
<1>4. IndexInv'
  BY <1>3 DEF ChunkCommit, Base, IndexInv, index
<1>5. RunInv' /\ run'.state = run.state
  BY <1>1 DEF ChunkCommit, Base, RunInv, Local
<1>6. Values' /\ UNCHANGED <<jobs, up, unit>>
  BY <1>4, <1>5 DEF ChunkCommit, Base, Values, BookInv, ScalarInv, book, bounds
<1>7. Follows(jobs, jobs')
  BY <1>6, FollowsItself DEF Base, JobsInv
<1>8. Advances(w) /\ at'[w] = [at[w] EXCEPT !.step = "rekey"]
  BY <1>1, <1>6, <1>7, GoAdvances DEF ChunkCommit, Stage
<1>9. at'[w].step = "rekey"
  BY <1>1, <1>8 DEF Local
<1> QED
  BY <1>1, <1>2, <1>5, <1>6, <1>8, <1>9, LightBase DEF Chunked, AllUnits, ChunkCommit

LEMMA RekeyBase ==
    ASSUME Base, NEW w \in Threads, Rekey(w)
    PROVE  Advances(w) /\ Base' /\ at'[w] = [at[w] EXCEPT !.step = "queue_embed"]
<1>1. /\ at[w].step = "rekey" /\ at[w].step \in StepsOf("chunk") \ {"succeed"}
      /\ "queue_embed" \in StepsOf("chunk") \cap Light /\ at[w] \in Local
  BY DEF Rekey, At, StepsOf, Light, Base, AtInv
<1>2. Row(w).stage = "chunk" /\ at[w].job \in DOMAIN jobs /\ jobs \in Seq(JobRow) /\ Chunked
  BY <1>1, ChunkPages DEF Base, JobsInv
<1>3. Follows(jobs, jobs')
  <2>1. CASE jobs' = jobs
    BY <1>2, <2>1, FollowsItself
  <2>2. CASE jobs' = [jobs EXCEPT ![at[w].job].key = at[w].fp]
    <3>1. jobs[at[w].job] \in JobRow /\ at[w].fp \in AnyKey
      BY <1>1, <1>2 DEF Local, AnyKey
    <3>2. [jobs[at[w].job] EXCEPT !.key = at[w].fp] \in JobRow
      BY <3>1 DEF JobRow
    <3> QED
      BY <1>2, <2>2, <3>1, <3>2 DEF Follows, Row, JobRow
  <2> QED
    BY <2>1, <2>2 DEF Rekey
<1> QED
  BY <1>1, <1>2, <1>3, GoBase DEF Rekey, Stage

LEMMA QueueEmbedBase ==
    ASSUME Base, NEW w \in Threads, QueueEmbed(w)
    PROVE  /\ Advances(w) /\ Base' /\ at'[w] = [at[w] EXCEPT !.step = "succeed"]
           /\ HasKey(jobs', "embed", at[w].fp)
<1>1. /\ at[w].step = "queue_embed" /\ at[w].step \in StepsOf("chunk") \ {"succeed"}
      /\ "succeed" \in StepsOf("chunk") \cap Light /\ at[w].fp \in AnyKey
  BY DEF QueueEmbed, At, StepsOf, Light, Base, AtInv, Local, AnyKey
<1>2. Follows(jobs, jobs') /\ (Chunked' => Chunked)
  BY <1>1, QueueFollows DEF QueueEmbed, Stage
<1>3. HasKey(jobs', "embed", at[w].fp)
  BY <1>1, InsertedRows DEF QueueEmbed, Queue, Stage, Base, JobsInv
<1> QED
  BY <1>1, <1>2, <1>3, GoBase DEF QueueEmbed, Stage

-----------------------------------------------------------------------------
(* ... by the embed, publish and resume handlers.                          *)

LEMMA EmbedEndsBase ==
    ASSUME Base, NEW w \in Threads, EmbedWaits(w) \/ EmbedDoomed(w)
    PROVE  Ends(w) /\ Base' /\ LeaveBook
<1>1. Holding(w)
  BY DEF EmbedWaits, EmbedDoomed, Holding, At
<1> QED
  BY <1>1, DeferBase DEF EmbedWaits, EmbedDoomed

LEMMA EmbedBeginsBase ==
    ASSUME Base, NEW w \in Threads, EmbedBegins(w)
    PROVE  /\ Advances(w) /\ Base'
           /\ at'[w] = [at[w] EXCEPT !.step = "embed_batch", !.chunks = chunks]
<1> DEFINE l == [at[w] EXCEPT !.step = "embed_batch", !.chunks = chunks]
<1>1. /\ at[w].step = "embed" /\ at[w].step \in StepsOf("embed") \ {"succeed"}
      /\ at \in [Threads -> Local] /\ at[w] \in Local
  BY DEF EmbedBegins, EmbedReady, At, StepsOf, Base, AtInv
<1>2. l \in Local /\ l.job = at[w].job /\ l.step = "embed_batch"
  BY <1>1 DEF Local, Step, Base, IndexInv
<1>3. at' = [at EXCEPT ![w] = l]
  BY <1>1 DEF EmbedBegins
<1> HIDE DEF l
<1>4. l.step \in StepsOf("embed") /\ l.step \in Light
  BY <1>2 DEF StepsOf, Light
<1>5. Values' /\ UNCHANGED <<run, unit, file, up, jobs>> /\ AllUnits' = AllUnits
  BY LeaveValues DEF EmbedBegins
<1>6. Follows(jobs, jobs')
  BY <1>5, FollowsItself DEF Base, JobsInv
<1>7. Advances(w) /\ at'[w] = l
  BY <1>1, <1>2, <1>3, <1>4, <1>5, <1>6, SetAdvances DEF Stage
<1> QED
  BY <1>4, <1>5, <1>7, LightBase DEF Chunked, l

LEMMA EmbedBatchBase ==
    ASSUME Base, NEW w \in Threads, EmbedBatch(w)
    PROVE  Advances(w) /\ Base' /\ at'[w] = [at[w] EXCEPT !.step = "queue_publish"]
<1>1. /\ at[w].step = "embed_batch" /\ at[w].step \in StepsOf("embed") \ {"succeed"}
      /\ "queue_publish" \in StepsOf("embed") /\ "queue_publish" \in Light /\ at[w] \in Local
  BY DEF EmbedBatch, At, StepsOf, Light, Base, AtInv
<1>2. IndexInv'
  BY <1>1 DEF EmbedBatch, Base, IndexInv, Local, index
<1>3. Values' /\ UNCHANGED <<jobs, up, run, unit>>
  BY <1>2 DEF EmbedBatch, Base, Values, RunInv, BookInv, ScalarInv, book, bounds
<1>4. Follows(jobs, jobs')
  BY <1>3, FollowsItself DEF Base, JobsInv
<1>5. Advances(w) /\ at'[w] = [at[w] EXCEPT !.step = "queue_publish"]
  BY <1>1, <1>3, <1>4, GoAdvances DEF EmbedBatch, Stage
<1>6. at'[w].step = "queue_publish"
  BY <1>1, <1>5 DEF Local
<1> QED
  BY <1>1, <1>3, <1>5, <1>6, LightBase DEF Chunked, AllUnits

LEMMA QueuePublishBase ==
    ASSUME Base, NEW w \in Threads, QueuePublish(w)
    PROVE  /\ Advances(w) /\ Base' /\ at'[w] = [at[w] EXCEPT !.step = "succeed"]
           /\ HasKey(jobs', "publish", record)
<1>1. /\ at[w].step = "queue_publish" /\ at[w].step \in StepsOf("embed") \ {"succeed"}
      /\ "succeed" \in StepsOf("embed") \cap Light /\ record \in AnyKey
  BY DEF QueuePublish, At, StepsOf, Light, Base, IndexInv, AnyKey
<1>2. Follows(jobs, jobs') /\ (Chunked' => Chunked)
  BY <1>1, QueueFollows DEF QueuePublish, Stage
<1>3. HasKey(jobs', "publish", record)
  BY <1>1, InsertedRows DEF QueuePublish, Queue, Stage, Base, JobsInv
<1> QED
  BY <1>1, <1>2, <1>3, GoBase DEF QueuePublish, Stage

LEMMA PublishEndsBase ==
    ASSUME Base, NEW w \in Threads, PublishWaits(w) \/ PublishIncomplete(w) \/ ResumeWaits(w)
    PROVE  Ends(w) /\ Base' /\ LeaveBook
<1>1. Holding(w)
  BY DEF PublishWaits, PublishIncomplete, PublishReady, ResumeWaits, Holding, At
<1> QED
  BY <1>1, DeferBase, TransientBase DEF PublishWaits, PublishIncomplete, ResumeWaits

LEMMA PublishNoopBase ==
    ASSUME Base, NEW w \in Threads, PublishNoop(w)
    PROVE  Advances(w) /\ Base' /\ at'[w] = [at[w] EXCEPT !.step = "succeed"]
<1>1. /\ at[w].step = "publish" /\ at[w].step \in StepsOf("publish") \ {"succeed"}
      /\ "succeed" \in StepsOf("publish") \cap Light
  BY DEF PublishNoop, At, StepsOf, Light
<1>2. Follows(jobs, jobs') /\ jobs' = jobs
  BY FollowsItself DEF PublishNoop, Base, JobsInv
<1> QED
  BY <1>1, <1>2, GoBase DEF PublishNoop, Stage, Chunked

LEMMA PublishBeginsBase ==
    ASSUME Base, NEW w \in Threads, PublishBegins(w)
    PROVE  /\ Advances(w) /\ Base'
           /\ at'[w] = [at[w] EXCEPT !.step = "switch", !.chunks = chunks, !.epoch = EpochFor]
<1> DEFINE l == [at[w] EXCEPT !.step = "switch", !.chunks = chunks, !.epoch = EpochFor]
<1>1. /\ at[w].step = "publish" /\ at[w].step \in StepsOf("publish") \ {"succeed"}
      /\ at \in [Threads -> Local] /\ at[w] \in Local
  BY DEF PublishBegins, PublishReady, At, StepsOf, Base, AtInv
<1>2. EpochFor \in Nat
  BY DEF EpochFor, Base, IndexInv
<1>3. at' = [at EXCEPT ![w].step = "switch", ![w].chunks = chunks, ![w].epoch = EpochFor]
  BY DEF PublishBegins
<1>4. l \in Local /\ l.job = at[w].job /\ l.step = "switch"
  BY <1>1, <1>2 DEF Local, Step, Base, IndexInv
<1>5. at' = [at EXCEPT ![w] = l]
  BY <1>1, <1>3
<1> HIDE DEF l
<1>6. l.step \in StepsOf("publish") /\ l.step \in Light
  BY <1>4 DEF StepsOf, Light
<1>7. Values' /\ UNCHANGED <<run, unit, file, up, jobs>> /\ AllUnits' = AllUnits
  BY LeaveValues DEF PublishBegins
<1>8. Follows(jobs, jobs')
  BY <1>7, FollowsItself DEF Base, JobsInv
<1>9. Advances(w) /\ at'[w] = l
  BY <1>1, <1>4, <1>5, <1>6, <1>7, <1>8, SetAdvances DEF Stage
<1> QED
  BY <1>6, <1>7, <1>9, LightBase DEF Chunked, l

LEMMA SwitchBase ==
    ASSUME Base, NEW w \in Threads, Switch(w)
    PROVE  Advances(w) /\ Base' /\ at'[w] = [at[w] EXCEPT !.step = "queue_resume"]
<1>1. /\ at[w].step = "switch" /\ at[w].step \in StepsOf("publish") \ {"succeed"}
      /\ "queue_resume" \in StepsOf("publish") /\ "queue_resume" \in Light /\ at[w] \in Local
  BY DEF Switch, At, StepsOf, Light, Base, AtInv
<1>2. IndexInv'
  BY <1>1 DEF Switch, Base, IndexInv, Local, Publication
<1>3. Values' /\ UNCHANGED <<jobs, up, run, unit>>
  BY <1>2 DEF Switch, Base, Values, RunInv, BookInv, ScalarInv, book, bounds
<1>4. Follows(jobs, jobs')
  BY <1>3, FollowsItself DEF Base, JobsInv
<1>5. Advances(w) /\ at'[w] = [at[w] EXCEPT !.step = "queue_resume"]
  BY <1>1, <1>3, <1>4, GoAdvances DEF Switch, Stage
<1>6. at'[w].step = "queue_resume"
  BY <1>1, <1>5 DEF Local
<1> QED
  BY <1>1, <1>3, <1>5, <1>6, LightBase DEF Chunked, AllUnits

LEMMA QueueResumeBase ==
    ASSUME Base, NEW w \in Threads, QueueResume(w)
    PROVE  /\ Advances(w) /\ Base' /\ at'[w] = [at[w] EXCEPT !.step = "succeed"]
           /\ HasKey(jobs', "resume", NoPage)
<1>1. /\ at[w].step = "queue_resume" /\ at[w].step \in StepsOf("publish") \ {"succeed"}
      /\ "succeed" \in StepsOf("publish") \cap Light /\ NoPage \in AnyKey
  BY DEF QueueResume, At, StepsOf, Light, AnyKey
<1>2. Follows(jobs, jobs') /\ (Chunked' => Chunked)
  BY <1>1, QueueFollows DEF QueueResume, Stage
<1>3. HasKey(jobs', "resume", NoPage)
  BY <1>1, InsertedRows DEF QueueResume, Queue, Stage, Base, JobsInv
<1> QED
  BY <1>1, <1>2, <1>3, GoBase DEF QueueResume, Stage

LEMMA StoreResumeBase ==
    ASSUME Base, NEW w \in Threads, StoreResume(w)
    PROVE  Advances(w) /\ Base' /\ at'[w] = [at[w] EXCEPT !.step = "succeed"]
<1>1. /\ at[w].step = "resume" /\ at[w].step \in StepsOf("resume") \ {"succeed"}
      /\ "succeed" \in StepsOf("resume") /\ "succeed" \in Light /\ at[w] \in Local
  BY DEF StoreResume, At, StepsOf, Light, Base, AtInv
<1>2. Values' /\ UNCHANGED <<jobs, up, run, unit>>
  BY DEF StoreResume, Base, Values, RunInv, BookInv, IndexInv, ScalarInv, book, bounds
<1>3. Follows(jobs, jobs')
  BY <1>2, FollowsItself DEF Base, JobsInv
<1>4. Advances(w) /\ at'[w] = [at[w] EXCEPT !.step = "succeed"]
  BY <1>1, <1>2, <1>3, GoAdvances DEF StoreResume, Stage
<1>5. at'[w].step = "succeed"
  BY <1>1, <1>4 DEF Local
<1> QED
  BY <1>1, <1>2, <1>4, <1>5, LightBase DEF Chunked, AllUnits

-----------------------------------------------------------------------------
(* ... and by the process, its reconcile pass and the operator.            *)

\* Rows that a reconcile pass may add.
Mended(old, new) ==
    /\ Follows(old, new)
    /\ \A i \in 1 .. Len(old) : new[i] = old[i]
    /\ \A i \in 1 .. Len(new) : i > Len(old) =>
           /\ run.state = "succeeded" /\ new[i].stage \in {"chunk", "embed", "publish", "resume"}
           /\ new[i].stage = "chunk" => ~OpenIn(old, {"ocr"})
           /\ new[i].stage \in {"embed", "publish"} => run.fp = Fingerprint

LEMMA MendedItself ==
    ASSUME NEW js \in Seq(JobRow)
    PROVE  Mended(js, js)
  BY FollowsItself DEF Mended

\* Adding a row of one stage.
LEMMA MendedByOne ==
    ASSUME NEW js \in Seq(JobRow), NEW stage \in {"chunk", "embed", "publish", "resume"},
           NEW key \in AnyKey, run.state = "succeeded",
           stage = "chunk" => ~OpenIn(js, {"ocr"}),
           stage \in {"embed", "publish"} => run.fp = Fingerprint
    PROVE  Mended(js, Inserted(js, stage, key)) /\ HasKey(Inserted(js, stage, key), stage, key)
<1>1. stage \in Stage \ {"extract"} /\ stage # "ocr"
  BY DEF Stage
<1> DEFINE new == Inserted(js, stage, key)
<1>2. /\ Follows(js, new) /\ HasKey(new, stage, key)
      /\ \A i \in 1 .. Len(js) : new[i] = js[i]
      /\ \A i \in 1 .. Len(new) : i > Len(js) => new[i].stage = stage
  BY <1>1, InsertedRows
<1> HIDE DEF new
<1>3. Mended(js, new)
  BY <1>2 DEF Mended
<1> QED
  BY <1>2, <1>3 DEF new

LEMMA MendedOn ==
    ASSUME NEW a \in Seq(JobRow), NEW b, NEW c, Mended(a, b), Mended(b, c)
    PROVE  Mended(a, c)
<1>1. Follows(a, b) /\ Follows(b, c) /\ Follows(a, c)
  BY FollowsOn DEF Mended
<1>2. b \in Seq(JobRow) /\ c \in Seq(JobRow)
  BY <1>1 DEF Follows
<1>3. Len(a) \in Nat /\ Len(b) \in Nat /\ Len(c) \in Nat /\ Len(a) \leq Len(b) /\ Len(b) \leq Len(c)
  BY <1>1, <1>2 DEF Follows
<1>4. \A i \in 1 .. Len(a) : c[i] = a[i]
  BY <1>3 DEF Mended
<1>5. ~OpenIn(b, {"ocr"}) => ~OpenIn(a, {"ocr"})
  <2> SUFFICES ASSUME NEW i \in DOMAIN a, a[i].stage \in {"ocr"}, IsOpen(a[i])
               PROVE  OpenIn(b, {"ocr"})
    BY DEF OpenIn
  <2>1. i \in DOMAIN b /\ b[i] = a[i]
    BY <1>2, <1>3 DEF Mended
  <2> QED
    BY <2>1 DEF OpenIn
<1>6. ASSUME NEW i \in 1 .. Len(c), i > Len(a)
      PROVE  /\ run.state = "succeeded" /\ c[i].stage \in {"chunk", "embed", "publish", "resume"}
             /\ c[i].stage = "chunk" => ~OpenIn(a, {"ocr"})
             /\ c[i].stage \in {"embed", "publish"} => run.fp = Fingerprint
  <2>1. CASE i > Len(b)
    BY <1>5, <2>1 DEF Mended
  <2>2. CASE i \in 1 .. Len(b)
    <3>1. c[i] = b[i]
      BY <2>2 DEF Mended
    <3> QED
      BY <1>6, <2>2, <3>1 DEF Mended
  <2> QED
    BY <1>3, <2>1, <2>2
<1> QED
  BY <1>1, <1>4, <1>6 DEF Mended

LEMMA ChunksMended ==
    ASSUME Base, NEW js \in Seq(JobRow)
    PROVE  Mended(js, ChunksReconciled(js)) /\ ChunksReconciled(js) \in Seq(JobRow)
<1>1. CASE run.state = "succeeded" /\ ~OpenIn(js, {"ocr"}) /\ run.fp # Fingerprint
  <2>1. Fingerprint \in AnyKey
    BY FingerprintIsTyped DEF AnyKey
  <2> QED
    BY <1>1, <2>1, MendedByOne DEF ChunksReconciled, Mended, Follows
<1>2. CASE ~(run.state = "succeeded" /\ ~OpenIn(js, {"ocr"}) /\ run.fp # Fingerprint)
  BY <1>2, MendedItself DEF ChunksReconciled
<1> QED
  BY <1>1, <1>2

LEMMA IndexMended ==
    ASSUME Base, NEW js \in Seq(JobRow)
    PROVE  Mended(js, IndexReconciled(js)) /\ IndexReconciled(js) \in Seq(JobRow)
<1> DEFINE idle == \/ run.state # "succeeded" \/ OpenIn(js, {"ocr", "chunk", "embed"})
                  \/ run.fp # Fingerprint
           embed == IF vectors = NoChunks THEN Inserted(js, "embed", run.fp) ELSE js
           new == IF pub = NoPub THEN Inserted(embed, "publish", record) ELSE embed
<1>1. CASE idle
  BY <1>1, MendedItself DEF IndexReconciled
<1>2. CASE ~idle
  <2>1. run.fp \in AnyKey /\ record \in AnyKey
    BY DEF Base, RunInv, IndexInv, AnyKey
  <2>2. Mended(js, embed) /\ embed \in Seq(JobRow)
    <3>1. CASE vectors = NoChunks
      <4>1. Mended(js, Inserted(js, "embed", run.fp))
        BY <1>2, <2>1, MendedByOne
      <4> QED
        BY <3>1, <4>1 DEF Mended, Follows
    <3>2. CASE vectors # NoChunks
      BY <3>2, MendedItself
    <3> QED
      BY <3>1, <3>2
  <2> HIDE DEF embed
  <2>3. Mended(embed, new) /\ new \in Seq(JobRow)
    <3>1. CASE pub = NoPub
      <4>1. Mended(embed, Inserted(embed, "publish", record))
        BY <1>2, <2>1, <2>2, MendedByOne
      <4> QED
        BY <3>1, <4>1 DEF Mended, Follows
    <3>2. CASE pub # NoPub
      BY <2>2, <3>2, MendedItself
    <3> QED
      BY <3>1, <3>2
  <2> HIDE DEF new
  <2>4. Mended(js, new)
    BY <2>2, <2>3, MendedOn
  <2> QED
    BY <1>2, <2>3, <2>4 DEF IndexReconciled, embed, new
<1> QED
  BY <1>1, <1>2

LEMMA ResumesMended ==
    ASSUME Base, NEW js \in Seq(JobRow)
    PROVE  /\ Mended(js, ResumesReconciled(js)) /\ ResumesReconciled(js) \in Seq(JobRow)
           /\ run.state = "succeeded" /\ pub # NoPub /\ ~resume
                 => HasKey(ResumesReconciled(js), "resume", NoPage)
<1>1. CASE run.state = "succeeded" /\ pub # NoPub /\ ~resume
  <2>1. NoPage \in AnyKey
    BY DEF AnyKey
  <2> QED
    BY <1>1, <2>1, MendedByOne DEF ResumesReconciled, Mended, Follows
<1>2. CASE ~(run.state = "succeeded" /\ pub # NoPub /\ ~resume)
  BY <1>2, MendedItself DEF ResumesReconciled
<1> QED
  BY <1>1, <1>2

LEMMA StartMends ==
    ASSUME Base, Start
    PROVE  /\ Mended(jobs, jobs')
           /\ run.state = "succeeded" /\ pub # NoPub /\ ~resume => HasKey(jobs', "resume", NoPage)
<1>1. jobs \in Seq(JobRow)
  BY DEF Base, JobsInv
<1> DEFINE a == ChunksReconciled(jobs)
           b == IndexReconciled(a)
           c == ResumesReconciled(b)
<1>2. jobs' = c
  BY DEF Start, Reconciled
<1>3. Mended(jobs, a) /\ a \in Seq(JobRow)
  BY <1>1, ChunksMended
<1> HIDE DEF a
<1>4. Mended(a, b) /\ b \in Seq(JobRow)
  BY <1>3, IndexMended
<1> HIDE DEF b
<1>5. /\ Mended(b, c)
      /\ run.state = "succeeded" /\ pub # NoPub /\ ~resume => HasKey(c, "resume", NoPage)
  BY <1>4, ResumesMended
<1> HIDE DEF c
<1>6. Mended(jobs, b)
  BY <1>1, <1>3, <1>4, MendedOn
<1>7. Mended(jobs, c)
  BY <1>1, <1>5, <1>6, MendedOn
<1> QED
  BY <1>2, <1>5, <1>7

LEMMA MigrateMends ==
    ASSUME Base, Migrate
    PROVE  Mended(jobs, jobs')
<1>1. jobs \in Seq(JobRow)
  BY DEF Base, JobsInv
<1> DEFINE a == ChunksReconciled(jobs)
<1>2. jobs' = IndexReconciled(a)
  BY DEF Migrate
<1>3. Mended(jobs, a) /\ a \in Seq(JobRow)
  BY <1>1, ChunksMended
<1> HIDE DEF a
<1>4. Mended(a, jobs')
  BY <1>2, <1>3, IndexMended
<1> QED
  BY <1>1, <1>3, <1>4, MendedOn

LEMMA MendedChunks ==
    ASSUME Base, Mended(jobs, jobs')
    PROVE  Chunked' => Chunked \/ (run.state = "succeeded" /\ ~Open({"ocr"}))
<1> SUFFICES ASSUME NEW i \in DOMAIN jobs', jobs'[i].stage = "chunk"
             PROVE  Chunked \/ (run.state = "succeeded" /\ ~Open({"ocr"}))
  BY DEF Chunked
<1>1. jobs \in Seq(JobRow) /\ jobs' \in Seq(JobRow) /\ i \in 1 .. Len(jobs') /\ Len(jobs) \in Nat
  BY DEF Base, JobsInv, Mended, Follows
<1>2. CASE i > Len(jobs)
  BY <1>1, <1>2 DEF Mended, Open
<1>3. CASE i \in 1 .. Len(jobs)
  <2>1. i \in DOMAIN jobs /\ jobs[i].stage = "chunk"
    BY <1>1, <1>3 DEF Mended
  <2> QED
    BY <2>1 DEF Chunked
<1> QED
  BY <1>1, <1>2, <1>3

LEMMA StartBase ==
    ASSUME Base, Start
    PROVE  Grows /\ Base'
<1>1. Mended(jobs, jobs')
  BY StartMends
<1>2. Grows
  BY <1>1 DEF Grows, Start, Mended
<1>3. Values' /\ UNCHANGED <<run, book>>
  BY DEF Start, LeaveWork, Base, Values, RunInv, BookInv, IndexInv, ScalarInv, book, index, bounds
<1> QED
  BY <1>1, <1>2, <1>3, MendedChunks, GrowsBase

LEMMA MigrateBase ==
    ASSUME Base, Migrate
    PROVE  Grows /\ Base'
<1>1. Mended(jobs, jobs')
  BY MigrateMends
<1>2. Grows
  BY <1>1 DEF Grows, Migrate, Mended
<1>3. Values' /\ UNCHANGED <<run, book>>
  BY DEF Migrate, LeaveWork, Base, Values, RunInv, BookInv, IndexInv, ScalarInv, book, index,
         bounds
<1> QED
  BY <1>1, <1>2, <1>3, MendedChunks, GrowsBase

LEMMA OtherBookBase ==
    ASSUME Base, OtherBook
    PROVE  Grows /\ Base' /\ (Chunked' => Chunked)
<1>1. record' = record + 1 /\ record \in Nat /\ record' \in AnyKey
  BY DEF OtherBook, Base, IndexInv, AnyKey
<1>2. Follows(jobs, jobs') /\ (Chunked' => Chunked)
  <2>1. CASE Queue("publish", record')
    BY <1>1, <2>1, QueueFollows DEF Stage
  <2>2. CASE UNCHANGED jobs
    BY <2>2, FollowsItself DEF Base, JobsInv, Chunked
  <2> QED
    BY <2>1, <2>2 DEF OtherBook
<1>3. Grows
  BY <1>2 DEF Grows, OtherBook
<1>4. Values' /\ UNCHANGED <<run, book>>
  BY <1>1 DEF OtherBook, Base, Values, RunInv, BookInv, IndexInv, ScalarInv, book, bounds
<1> QED
  BY <1>2, <1>3, <1>4, GrowsBase

LEMMA EditSettingsBase ==
    ASSUME Base, NEW s \in Settings, EditSettings(s)
    PROVE  Grows /\ Base'
<1>1. UNCHANGED <<run, book, jobs, up, at>>
  BY DEF EditSettings, LeaveWork
<1>2. Grows
  BY <1>1, FollowsItself DEF Grows, Base, JobsInv
<1>3. Values'
  BY DEF EditSettings, LeaveWork, Base, Values, RunInv, BookInv, IndexInv, ScalarInv, book, index
<1> QED
  BY <1>1, <1>2, <1>3, GrowsBase DEF Chunked

LEMMA StopBase ==
    ASSUME Base, Stop
    PROVE  Base'
<1>1. UNCHANGED <<run, unit, file, jobs, at>> /\ \A v \in Threads : At(v, "idle")
  BY DEF Stop, LeaveWork, book
<1>2. Values'
  BY DEF Stop, LeaveWork, Base, Values, RunInv, BookInv, IndexInv, ScalarInv, book, index, bounds
<1>3. HeldInv' /\ FirstInv' /\ OcrKeysInv' /\ DownInv' /\ JobsInv' /\ AtInv'
  BY <1>1 DEF Base, HeldInv, Held, Holding, Row, Alone, FirstInv, OcrKeysInv, DownInv, JobsInv,
             AtInv, At
<1>4. PhaseInv' /\ CarryInv'
  BY <1>1 DEF Base, PhaseInv, Phase, GaveUp, Chunked, AllUnits, At, CarryInv, Carries, ChunkWork
<1> QED
  BY <1>2, <1>3, <1>4 DEF Base, Values

LEMMA CrashBase ==
    ASSUME Base, Crash
    PROVE  Base' /\ UNCHANGED <<run, unit, file, jobs>> /\ \A v \in Threads : at'[v] = Idle
<1>1. Idle \in Local /\ Idle.job = 0 /\ Idle.step = "idle"
  BY DEF Idle, Local, NoArts, Step
<1>2. UNCHANGED <<run, unit, file, jobs>> /\ at' = [v \in Threads |-> Idle]
  BY DEF Crash, LeaveWork, book
<1>3. at' \in [Threads -> Local] /\ \A v \in Threads : at'[v] = Idle
  BY <1>1, <1>2
<1>4. Values'
  <2>1. ScalarInv'
    <3>1. up' \in BOOLEAN
      BY Zenon DEF Crash
    <3>2. crashes' = crashes + 1 /\ UNCHANGED <<settings, failures, retries, edits>>
      BY DEF Crash
    <3> QED
      BY <3>1, <3>2 DEF Base, ScalarInv
  <2> QED
    BY <2>1 DEF Crash, LeaveWork, Base, Values, RunInv, BookInv, IndexInv, book, index
<1>5. HeldInv' /\ FirstInv' /\ OcrKeysInv' /\ DownInv' /\ JobsInv' /\ AtInv'
  BY <1>1, <1>2, <1>3 DEF Base, HeldInv, Held, Holding, Row, Alone, FirstInv, OcrKeysInv, DownInv,
             JobsInv, AtInv, At
<1>6. PhaseInv' /\ CarryInv'
  BY <1>1, <1>2, <1>3 DEF Base, PhaseInv, Phase, GaveUp, Chunked, AllUnits, At, CarryInv, Carries,
             ChunkWork
<1> QED
  BY <1>2, <1>3, <1>4, <1>5, <1>6 DEF Base, Values

LEMMA WorkerErrorBase ==
    ASSUME Base, NEW w \in Threads, WorkerError(w)
    PROVE  Ends(w) /\ Base' /\ LeaveBook
<1>1. Holding(w) /\ FailTransiently(w)
  BY DEF WorkerError, Holding
<1> QED
  BY <1>1, TransientBase

LEMMA InitBase == Init => Base
<1> SUFFICES ASSUME Init
             PROVE  Base
  OBVIOUS
<1> DEFINE row == [stage |-> "extract", key |-> NoPage, state |-> "pending"]
<1>1. row \in JobRow /\ row.stage = "extract" /\ row.state = "pending"
  BY DEF JobRow, Stage, AnyKey, JobState
<1>2. jobs = <<row>>
  BY DEF Init
<1> HIDE DEF row
<1>3. jobs \in Seq(JobRow) /\ DOMAIN jobs = {1} /\ jobs[1] = row /\ jobs # <<>>
  BY <1>1, <1>2
<1>4. Idle \in Local /\ Idle.job = 0 /\ Idle.step = "idle"
  BY DEF Idle, Local, NoArts, Step
<1>5. at \in [Threads -> Local] /\ \A v \in Threads : at[v] = Idle
  BY <1>4 DEF Init
<1>6. RunInv /\ BookInv /\ IndexInv /\ ScalarInv
  BY PipelineAssumption DEF Init, RunInv, BookInv, IndexInv, ScalarInv, NoArts
<1>7. HeldInv /\ CarryInv /\ DownInv
  BY <1>4, <1>5 DEF HeldInv, Held, Holding, Alone, CarryInv, Carries, DownInv, At, ChunkWork
<1>8. FirstInv /\ OcrKeysInv
  BY <1>1, <1>3 DEF FirstInv, OcrKeysInv
<1>9. PhaseInv
  <2>1. run.state = "none"
    BY DEF Init
  <2> QED
    BY <1>1, <1>3, <1>4, <1>5, <2>1 DEF PhaseInv, Phase, Chunked, At
<1> QED
  BY <1>3, <1>5, <1>6, <1>7, <1>8, <1>9 DEF Base, JobsInv, AtInv

-----------------------------------------------------------------------------
(* The steps of the pipeline, by what they do to the threads and the rows. *)

\* A handler lets go of its job, at a step where it may; only one that is done settles
\* it as succeeded.
Leaves(w) ==
    /\ Ends(w) /\ LeaveBook /\ UNCHANGED crashes
    /\ at[w].step \in Stage \cup {"succeed", "fail", "page", "ocr_page", "normalize",
                                  "chunk_commit", "embed_batch", "switch"}
    /\ jobs'[at[w].job].state = "succeeded" => At(w, "succeed")

\* A handler goes on, by stage.
Extracts(w) ==
    \/ StartRun(w) \/ \E p \in Pages : PageArtifact(w, p)
    \/ PageRow(w) \/ QueuePageOcr(w) \/ FinishRun(w) \/ QueueOcr(w) \/ QueueChunk(w)
Reads(w) == OcrBegins(w) \/ OcrArtifact(w) \/ OcrRow(w) \/ OcrImpossible(w)
Cuts(w) ==
    \/ ChunkReplays(w) \/ ChunkLoads(w) \/ \E p \in Pages : NormalizeArtifact(w, p)
    \/ NormalizeRow(w) \/ Normalized(w) \/ ChunkCommit(w) \/ Rekey(w) \/ QueueEmbed(w)
Embeds(w) == EmbedBegins(w) \/ EmbedBatch(w) \/ QueuePublish(w)
Publishes(w) ==
    \/ PublishNoop(w) \/ PublishBegins(w) \/ Switch(w) \/ QueueResume(w) \/ StoreResume(w)

Steps(w) ==
    \/ \E i \in DOMAIN jobs : Claim(w, i)
    \/ Leaves(w) \/ FailRun(w)
    \/ Extracts(w) \/ Reads(w) \/ Cuts(w) \/ Embeds(w) \/ Publishes(w)

Process == Start \/ Stop \/ Crash \/ Migrate \/ OtherBook \/ \E s \in Settings : EditSettings(s)

LEMMA LetGoIsNoSuccess ==
    ASSUME Base, NEW w \in Threads, Holding(w),
           \E s \in {"retryable_failed", "permanent_failed"} : LetGo(w, s)
    PROVE  jobs'[at[w].job].state # "succeeded"
<1> PICK s \in {"retryable_failed", "permanent_failed"} : LetGo(w, s)
  OBVIOUS
<1>1. at[w].job \in DOMAIN jobs /\ jobs \in Seq(JobRow)
  BY DEF Base, HeldInv, Held, JobsInv
<1>2. jobs[at[w].job] \in JobRow
  BY <1>1
<1> QED
  BY <1>1, <1>2 DEF LetGo, JobRow

LEMMA DeferLeaves ==
    ASSUME Base, NEW w \in Threads, Defer(w) \/ FailForGood(w) \/ FailTransiently(w),
           at[w].step \in Stage \cup {"succeed", "fail", "page", "ocr_page", "normalize",
                                     "chunk_commit", "embed_batch", "switch"}
    PROVE  Leaves(w) /\ Base'
<1> Holding(w)
  BY DEF Holding, Stage
<1>1. \E s \in {"retryable_failed", "permanent_failed"} : LetGo(w, s)
  BY DEF Defer, FailForGood, FailTransiently
<1>2. UNCHANGED crashes
  BY DEF Defer, FailForGood, FailTransiently, Leave, bounds
<1> QED
  BY <1>1, <1>2, LetGoIsNoSuccess, DeferBase, TransientBase DEF Leaves

LEMMA SourceUnreadableLeaves ==
    ASSUME Base, NEW w \in Threads, SourceUnreadable(w)
    PROVE  Leaves(w) /\ Base'
<1>1. Holding(w)
  BY DEF SourceUnreadable, Holding, At
<1>2. at[w].job \in DOMAIN jobs /\ jobs \in Seq(JobRow)
  BY <1>1 DEF Base, HeldInv, Held, JobsInv
<1>3. jobs[at[w].job] \in JobRow
  BY <1>2
<1>4. jobs'[at[w].job].state # "succeeded"
  BY <1>2, <1>3 DEF SourceUnreadable, JobRow
<1> QED
  BY <1>4, SourceUnreadableBase DEF Leaves, SourceUnreadable, At, Stage

LEMMA HandleSteps ==
    ASSUME Base, NEW w \in Threads, Handle(w) \/ WorkerError(w)
    PROVE  Steps(w) /\ Base'
<1> USE DEF Steps, Extracts, Reads, Cuts, Embeds, Publishes
<1>1. CASE Extract(w)
  BY <1>1, StartRunBase, SourceUnreadableLeaves, FailRunBase, PageArtifactBase, PageRowBase,
     QueuePageOcrBase, FinishRunBase, QueueOcrBase, QueueChunkBase DEF Extract
<1>2. CASE Ocr(w)
  <2>1. CASE OcrWaits(w) \/ OcrUnreadable(w)
    <3>1. at[w].step \in Stage
      BY <2>1 DEF OcrWaits, OcrUnreadable, Stage, At
    <3> QED
      BY <2>1, <3>1, DeferLeaves DEF OcrWaits, OcrUnreadable
  <2>2. CASE OcrBegins(w) \/ OcrArtifact(w) \/ OcrRow(w) \/ OcrImpossible(w)
    BY <2>2, OcrBeginsBase, OcrArtifactBase, OcrRowBase, OcrImpossibleBase
  <2> QED
    BY <1>2, <2>1, <2>2 DEF Ocr
<1>3. CASE Chunk(w)
  <2>1. CASE ChunkWaits(w) \/ ChunkDoomed(w) \/ ChunkUnreadable(w)
    <3>1. at[w].step \in Stage
      BY <2>1 DEF ChunkWaits, ChunkDoomed, ChunkUnreadable, ChunkReady, Stage, At
    <3> QED
      BY <2>1, <3>1, DeferLeaves DEF ChunkWaits, ChunkDoomed, ChunkUnreadable
  <2>2. CASE ChunkReplays(w) \/ ChunkLoads(w) \/ (\E p \in Pages : NormalizeArtifact(w, p))
    BY <2>2, ChunkReplaysBase, ChunkLoadsBase, NormalizeArtifactBase
  <2>3. CASE NormalizeRow(w) \/ Normalized(w) \/ ChunkCommit(w) \/ Rekey(w) \/ QueueEmbed(w)
    BY <2>3, NormalizeRowBase, NormalizedBase, ChunkCommitBase, RekeyBase, QueueEmbedBase
  <2> QED
    BY <1>3, <2>1, <2>2, <2>3 DEF Chunk
<1>4. CASE Embed(w)
  <2>1. CASE EmbedWaits(w) \/ EmbedDoomed(w)
    <3>1. at[w].step \in Stage
      BY <2>1 DEF EmbedWaits, EmbedDoomed, Stage, At
    <3> QED
      BY <2>1, <3>1, DeferLeaves DEF EmbedWaits, EmbedDoomed
  <2>2. CASE EmbedBegins(w) \/ EmbedBatch(w) \/ QueuePublish(w)
    BY <2>2, EmbedBeginsBase, EmbedBatchBase, QueuePublishBase
  <2> QED
    BY <1>4, <2>1, <2>2 DEF Embed
<1>5. CASE Publish(w) \/ Resume(w)
  <2>1. CASE PublishWaits(w) \/ PublishIncomplete(w) \/ ResumeWaits(w)
    <3>1. at[w].step \in Stage
      BY <2>1 DEF PublishWaits, PublishIncomplete, PublishReady, ResumeWaits, Stage, At
    <3> QED
      BY <2>1, <3>1, DeferLeaves DEF PublishWaits, PublishIncomplete, ResumeWaits
  <2>2. CASE PublishNoop(w) \/ PublishBegins(w) \/ Switch(w) \/ QueueResume(w) \/ StoreResume(w)
    BY <2>2, PublishNoopBase, PublishBeginsBase, SwitchBase, QueueResumeBase, StoreResumeBase
  <2> QED
    BY <1>5, <2>1, <2>2 DEF Publish, Resume
<1>6. CASE Succeed(w)
  BY <1>6, SucceedBase DEF Leaves, Succeed, At, Leave, bounds
<1>7. CASE Fail(w) \/ WorkerError(w)
  <2>1. at[w].step \in {"fail", "page", "ocr_page", "normalize", "chunk_commit", "embed_batch",
                        "switch", "resume"}
    BY <1>7 DEF Fail, WorkerError, At
  <2> QED
    BY <1>7, <2>1, DeferLeaves DEF Fail, WorkerError, Stage
<1> QED
  BY <1>1, <1>2, <1>3, <1>4, <1>5, <1>6, <1>7 DEF Handle

\* Without a retry, every step is one of these, and keeps Base.
LEMMA StepsAndBase ==
    ASSUME MaxRetries = 0, Base, [Next]_vars
    PROVE  Base' /\ (Process \/ (\E w \in Threads : Steps(w)) \/ UNCHANGED vars)
<1>1. CASE UNCHANGED vars
  <2>1. Values' /\ JobsInv' /\ AtInv'
    BY <1>1 DEF vars, book, index, bounds, Base, Values, RunInv, BookInv, IndexInv, ScalarInv,
               JobsInv, AtInv
  <2>2. HeldInv' /\ FirstInv' /\ DownInv' /\ OcrKeysInv'
    BY <1>1 DEF vars, Base, HeldInv, Held, Holding, Row, Alone, FirstInv, DownInv, OcrKeysInv, At
  <2>3. CarryInv' /\ PhaseInv'
    BY <1>1 DEF vars, book, Base, CarryInv, Carries, Page, Row, At, PhaseInv, Phase, GaveUp, Chunked,
               AllUnits
  <2> QED
    BY <1>1, <2>1, <2>2, <2>3 DEF Base, Values
<1>2. ASSUME NEW w \in Threads, NEW i \in DOMAIN jobs, Claim(w, i)
      PROVE  Base' /\ Steps(w)
  BY <1>2, ClaimBase DEF Steps
<1>3. ASSUME NEW w \in Threads, Handle(w) \/ WorkerError(w)
      PROVE  Base' /\ Steps(w)
  BY <1>3, HandleSteps
<1>4. CASE Process
  BY <1>4, StartBase, StopBase, CrashBase, MigrateBase, OtherBookBase, EditSettingsBase DEF Process
<1>5. ~Retry
  BY DEF Retry, Within, Base, ScalarInv
<1> QED
  BY <1>1, <1>2, <1>3, <1>4, <1>5 DEF Next, Process

-----------------------------------------------------------------------------
(* The chain of hand-overs: what is done has its successor.                *)

Done(i) == jobs[i].state = "succeeded" \/ \E w \in Threads : At(w, "succeed") /\ at[w].job = i
HasStage(stage) == \E i \in DOMAIN jobs : jobs[i].stage = stage
After(stage) ==
    CASE stage = "extract" -> HasStage("chunk")
      [] stage = "chunk"   -> HasStage("embed")
      [] stage = "embed"   -> HasStage("publish")
      [] stage = "publish" -> pub # NoPub
      [] stage = "resume"  -> resume
      [] OTHER             -> TRUE
RunStands == run.state = "succeeded" \/ GaveUp
Publisher(w) ==
    /\ At(w, "switch") => RunStands
    /\ At(w, "queue_resume") => pub # NoPub

ChainInv ==
    /\ \A i \in DOMAIN jobs, stage \in Stage :
          Done(i) /\ jobs[i].stage = stage => After(stage)
    /\ \A w \in Threads : Publisher(w)
    /\ gens # {} => pub # NoPub
    /\ pub # NoPub => RunStands
    /\ resume => HasStage("resume")

\* A published book without a resume job: its publisher is about to queue it, or was killed
\* before and the next start does.
ResumeInv ==
    pub # NoPub /\ ~HasStage("resume") /\ ~GaveUp =>
        \/ \E w \in Threads : At(w, "queue_resume")
        \/ ~up /\ \E i \in DOMAIN jobs : jobs[i].stage = "publish" /\ jobs[i].state = "running"

LEMMA StagesLast ==
    ASSUME Base, Follows(jobs, jobs')
    PROVE  /\ \A i \in DOMAIN jobs : /\ i \in DOMAIN jobs' /\ jobs'[i].stage = jobs[i].stage
                                     /\ jobs'[i].state = jobs[i].state
           /\ \A i \in DOMAIN jobs' : i \notin DOMAIN jobs => jobs'[i].state = "pending"
           /\ \A stage \in Stage : HasStage(stage) => HasStage(stage)'
           /\ GaveUp' = GaveUp
<1>1. /\ jobs \in Seq(JobRow) /\ jobs' \in Seq(JobRow) /\ Len(jobs) \in Nat /\ Len(jobs') \in Nat
      /\ Len(jobs) \leq Len(jobs') /\ DOMAIN jobs = 1 .. Len(jobs) /\ DOMAIN jobs' = 1 .. Len(jobs')
  BY DEF Base, JobsInv, Follows
<1>2. \A i \in DOMAIN jobs : /\ i \in DOMAIN jobs' /\ jobs'[i].stage = jobs[i].stage
                              /\ jobs'[i].state = jobs[i].state
  BY <1>1 DEF Follows
<1>3. \A i \in DOMAIN jobs' : i \notin DOMAIN jobs => jobs'[i].state = "pending"
  BY <1>1 DEF Follows
<1>4. 1 \in DOMAIN jobs
  BY DEF Base, FirstInv
<1>5. (GaveUp' = GaveUp) /\ \A stage \in Stage : HasStage(stage) => HasStage(stage)'
  BY <1>2, <1>4 DEF GaveUp, HasStage
<1> QED
  BY <1>2, <1>3, <1>5

\* The only job that becomes done by an advance is the one at hand.
LEMMA DoneByAdvance ==
    ASSUME Base, NEW w \in Threads, Advances(w), NEW i \in DOMAIN jobs', Done(i)'
    PROVE  /\ i \in DOMAIN jobs /\ jobs'[i].stage = jobs[i].stage
           /\ Done(i) \/ (i = at[w].job /\ at'[w].step = "succeed")
<1>1. CASE jobs'[i].state = "succeeded"
  BY <1>1, StagesLast DEF Advances, Done
<1>2. CASE \E v \in Threads : At(v, "succeed")' /\ at'[v].job = i
  <2> PICK v \in Threads : At(v, "succeed")' /\ at'[v].job = i
    BY <1>2
  <2>1. at'[v].job = at[v].job /\ Held(v) /\ Held(w) /\ Holding(w)
    BY DEF Advances, Same, Base, HeldInv
  <2>2. CASE v = w
    BY <2>1, <2>2, StagesLast DEF At, Held, Advances
  <2>3. CASE v # w
    <3>1. at[v].step = "succeed" /\ at[v].job = i
      BY <2>1, <2>3 DEF At, Advances, Same
    <3> QED
      BY <2>1, <3>1, StagesLast DEF Held, Holding, At, Done, Advances
  <2> QED
    BY <2>2, <2>3
<1> QED
  BY <1>1, <1>2 DEF Done

Resumes(w) == At(w, "queue_resume")

\* A handler that goes on, publishes nothing and leaves the resume alone.
LEMMA ChainAdvances ==
    ASSUME Base, ChainInv, ResumeInv, NEW w \in Threads, Advances(w),
           UNCHANGED <<pub, gens, resume>>, run.state = "succeeded" => run'.state = "succeeded",
           ~Resumes(w), ~Resumes(w)',
           at'[w].step = "switch" => run'.state = "succeeded",
           NEW stage \in Stage, Row(w).stage = stage, at'[w].step = "succeed" => After(stage)'
    PROVE  ChainInv' /\ ResumeInv'
<1>1. Follows(jobs, jobs') /\ Same(w) /\ up' = up
  BY DEF Advances
<1>2. \A s \in Stage : After(s) => After(s)'
  BY <1>1, StagesLast DEF After, Stage
<1>3. ASSUME NEW i \in DOMAIN jobs', NEW s \in Stage, Done(i)', jobs'[i].stage = s
      PROVE  After(s)'
  <2>1. i \in DOMAIN jobs /\ jobs[i].stage = s
    BY <1>3, DoneByAdvance
  <2>2. CASE Done(i)
    BY <1>2, <2>1, <2>2 DEF ChainInv
  <2>3. CASE i = at[w].job /\ at'[w].step = "succeed"
    BY <2>1, <2>3 DEF Row
  <2> QED
    BY <1>3, <2>2, <2>3, DoneByAdvance
<1>4. RunStands => RunStands'
  BY <1>1, StagesLast DEF RunStands
<1>5. ASSUME NEW v \in Threads
      PROVE  Publisher(v)'
  <2>1. CASE v = w
    BY <2>1 DEF Publisher, At, RunStands, Resumes
  <2>2. CASE v # w
    BY <1>1, <1>4, <2>2 DEF Publisher, At, Same, ChainInv
  <2> QED
    BY <2>1, <2>2
<1>6. HasStage("resume") => HasStage("resume")'
  BY <1>1, StagesLast DEF Stage
<1>7. ChainInv'
  BY <1>3, <1>4, <1>5, <1>6 DEF ChainInv
<1>8. ResumeInv'
  <2> SUFFICES ASSUME pub # NoPub, ~HasStage("resume")', ~GaveUp'
               PROVE  \/ \E v \in Threads : At(v, "queue_resume")'
                      \/ ~up' /\ \E i \in DOMAIN jobs' : jobs'[i].stage = "publish"
                                                       /\ jobs'[i].state = "running"
    BY DEF ResumeInv
  <2>1. ~HasStage("resume") /\ ~GaveUp
    BY <1>1, <1>6, StagesLast
  <2>2. CASE \E v \in Threads : At(v, "queue_resume")
    BY <1>1, <2>2 DEF Resumes, Same, At
  <2>3. CASE ~up /\ \E i \in DOMAIN jobs : jobs[i].stage = "publish" /\ jobs[i].state = "running"
    BY <1>1, <2>3, StagesLast
  <2> QED
    BY <2>1, <2>2, <2>3 DEF ResumeInv
<1> QED
  BY <1>7, <1>8

LEMMA ChainGrows ==
    ASSUME Base, ChainInv, ResumeInv, Grows, UNCHANGED <<pub, gens, resume, run>>,
           up' = up \/ (pub # NoPub /\ ~GaveUp => HasStage("resume")')
    PROVE  ChainInv' /\ ResumeInv'
<1>1. Follows(jobs, jobs') /\ UNCHANGED at
  BY DEF Grows
<1>2. \A s \in Stage : After(s) => After(s)'
  BY <1>1, StagesLast DEF After, Stage
<1>3. ASSUME NEW i \in DOMAIN jobs', NEW s \in Stage, Done(i)', jobs'[i].stage = s
      PROVE  After(s)'
  <2>1. i \in DOMAIN jobs
    <3>1. CASE jobs'[i].state = "succeeded"
      BY <1>1, <3>1, StagesLast
    <3>2. CASE \E v \in Threads : At(v, "succeed")' /\ at'[v].job = i
      BY <1>1, <3>2 DEF At, Base, HeldInv, Held, Holding
    <3> QED
      BY <1>3, <3>1, <3>2 DEF Done
  <2>2. jobs[i].stage = s /\ Done(i)
    BY <1>1, <1>3, <2>1, StagesLast DEF Done, At
  <2> QED
    BY <1>2, <2>1, <2>2 DEF ChainInv
<1>4. RunStands => RunStands'
  BY <1>1, StagesLast DEF RunStands
<1>5. \A v \in Threads : Publisher(v)'
  BY <1>1, <1>4 DEF Publisher, At, ChainInv
<1>6. HasStage("resume") => HasStage("resume")'
  BY <1>1, StagesLast DEF Stage
<1>7. ChainInv'
  BY <1>3, <1>4, <1>5, <1>6 DEF ChainInv
<1>8. ResumeInv'
  <2> SUFFICES ASSUME pub # NoPub, ~HasStage("resume")', ~GaveUp'
               PROVE  \/ \E v \in Threads : At(v, "queue_resume")'
                      \/ ~up' /\ \E i \in DOMAIN jobs' : jobs'[i].stage = "publish"
                                                       /\ jobs'[i].state = "running"
    BY DEF ResumeInv
  <2>1. ~HasStage("resume") /\ ~GaveUp /\ up' = up
    BY <1>1, <1>6, StagesLast
  <2>2. CASE \E v \in Threads : At(v, "queue_resume")
    BY <1>1, <2>2 DEF At
  <2>3. CASE ~up /\ \E i \in DOMAIN jobs : jobs[i].stage = "publish" /\ jobs[i].state = "running"
    BY <1>1, <2>1, <2>3, StagesLast
  <2> QED
    BY <2>1, <2>2, <2>3 DEF ResumeInv
<1> QED
  BY <1>7, <1>8

\* What ends and claims do to the rows.
LEMMA EndsRows ==
    ASSUME Base, NEW w \in Threads, Ends(w)
    PROVE  /\ at[w].job \in DOMAIN jobs /\ jobs[at[w].job].state = "running"
           /\ DOMAIN jobs' = DOMAIN jobs
           /\ \A i \in DOMAIN jobs : /\ jobs'[i].stage = jobs[i].stage /\ jobs'[i].key = jobs[i].key
                                     /\ i # at[w].job => jobs'[i] = jobs[i]
           /\ \A s \in Stage : HasStage(s)' = HasStage(s)
           /\ GaveUp => GaveUp'
<1> PICK s \in JobState : jobs' = [jobs EXCEPT ![at[w].job].state = s]
  BY DEF Ends
<1>1. Held(w) /\ Holding(w)
  BY DEF Base, HeldInv, Ends
<1>2. jobs \in Seq(JobRow) /\ at[w].job \in DOMAIN jobs /\ jobs[at[w].job].state = "running"
  BY <1>1 DEF Base, JobsInv, Held, Row
<1>3. 1 \in DOMAIN jobs /\ DOMAIN jobs' = DOMAIN jobs
  BY <1>2 DEF Base, FirstInv
<1>4. \A i \in DOMAIN jobs : /\ jobs'[i].stage = jobs[i].stage /\ jobs'[i].key = jobs[i].key
                              /\ i # at[w].job => jobs'[i] = jobs[i]
  <2>1. \A i \in DOMAIN jobs : jobs[i] \in JobRow
    BY RowsAreTyped DEF Base
  <2> QED
    BY <1>2, <2>1 DEF JobRow
<1>5. GaveUp => GaveUp'
  BY <1>2, <1>3, <1>4 DEF GaveUp
<1>6. \A x \in Stage : HasStage(x)' = HasStage(x)
  <2> SUFFICES ASSUME NEW x \in Stage
               PROVE  HasStage(x)' <=> HasStage(x)
    BY Zenon DEF HasStage
  <2> QED
    BY <1>3, <1>4 DEF HasStage
<1> QED
  BY <1>2, <1>3, <1>4, <1>5, <1>6

LEMMA ClaimRows ==
    ASSUME Base, NEW w \in Threads, NEW i \in DOMAIN jobs, Claim(w, i)
    PROVE  /\ DOMAIN jobs' = DOMAIN jobs /\ ~Holding(w) /\ up /\ up'
           /\ \A k \in DOMAIN jobs : /\ jobs'[k].stage = jobs[k].stage /\ jobs'[k].key = jobs[k].key
                                     /\ k # i => jobs'[k] = jobs[k]
           /\ jobs'[i].state = "running" /\ IsOpen(jobs[i])
           /\ \A s \in Stage : HasStage(s)' = HasStage(s)
           /\ GaveUp => GaveUp'
           /\ Same(w) /\ at'[w].step = jobs[i].stage /\ at'[w].step \in Stage
           /\ UNCHANGED <<settings, run, unit, file, chunks, vectors, pub, gens, record, resume>>
<1>1. jobs \in Seq(JobRow) /\ jobs[i] \in JobRow /\ at[w] \in Local
  BY RowsAreTyped DEF Base, JobsInv, AtInv
<1>2. /\ DOMAIN jobs' = DOMAIN jobs /\ jobs'[i] = [jobs[i] EXCEPT !.state = "running"]
      /\ \A k \in DOMAIN jobs : k # i => jobs'[k] = jobs[k]
  BY <1>1 DEF Claim
<1>3. /\ jobs'[i].state = "running" /\ jobs'[i].stage = jobs[i].stage
      /\ jobs'[i].key = jobs[i].key
  BY <1>1, <1>2 DEF JobRow
<1>4. IsOpen(jobs[i]) /\ jobs[i].state # "permanent_failed"
  BY DEF Claim, Orphan, IsOpen
<1>5. GaveUp => GaveUp'
  <2>1. 1 \in DOMAIN jobs
    BY DEF Base, FirstInv
  <2> QED
    BY <1>2, <1>4, <2>1 DEF GaveUp
<1>6. \A x \in Stage : HasStage(x)' = HasStage(x)
  <2> SUFFICES ASSUME NEW x \in Stage
               PROVE  HasStage(x)' <=> HasStage(x)
    BY Zenon DEF HasStage
  <2> QED
    BY <1>2, <1>3 DEF HasStage
<1>7. Same(w) /\ at'[w] = [Idle EXCEPT !.step = jobs[i].stage, !.job = i] /\ ~Holding(w)
  BY DEF Claim, Same, Base, AtInv, Holding, At
<1>8. at'[w].step = jobs[i].stage /\ at'[w].step \in Stage
  BY <1>1, <1>7 DEF Idle, JobRow
<1>9. UNCHANGED <<settings, run, unit, file, chunks, vectors, pub, gens, record, resume, up>> /\ up
  BY DEF Claim, book, index
<1> QED
  BY <1>2, <1>3, <1>4, <1>5, <1>6, <1>7, <1>8, <1>9

LEMMA ChainLeaves ==
    ASSUME Base, ChainInv, ResumeInv, NEW w \in Threads, Leaves(w)
    PROVE  ChainInv' /\ ResumeInv'
<1>1. /\ UNCHANGED <<run, pub, gens, resume, up>> /\ Same(w) /\ Ends(w)
      /\ at'[w].step \in {"idle", "fail_run"} /\ at'[w].job = 0 /\ at[w].step # "queue_resume"
  BY DEF Leaves, LeaveBook, index, Ends, Stage
<1>2. \A s \in Stage : After(s) => After(s)'
  BY <1>1, EndsRows DEF After, Stage
<1>3. ASSUME NEW i \in DOMAIN jobs', NEW s \in Stage, Done(i)', jobs'[i].stage = s
      PROVE  After(s)'
  <2>1. i \in DOMAIN jobs /\ jobs[i].stage = s
    BY <1>1, <1>3, EndsRows
  <2>2. Done(i)
    <3>1. CASE jobs'[i].state = "succeeded"
      BY <1>1, <2>1, <3>1, EndsRows DEF Done, Leaves
    <3>2. CASE \E v \in Threads : At(v, "succeed")' /\ at'[v].job = i
      BY <1>1, <3>2 DEF At, Same, Done
    <3> QED
      BY <1>3, <3>1, <3>2 DEF Done
  <2> QED
    BY <1>2, <2>1, <2>2 DEF ChainInv
<1>4. RunStands => RunStands'
  BY <1>1, EndsRows DEF RunStands
<1>5. \A v \in Threads : Publisher(v)'
  BY <1>1, <1>4 DEF Publisher, At, ChainInv, Same
<1>6. HasStage("resume") = HasStage("resume")'
  BY <1>1, EndsRows DEF Stage
<1>7. ChainInv'
  BY <1>1, <1>3, <1>4, <1>5, <1>6 DEF ChainInv
<1>8. ResumeInv'
  <2> SUFFICES ASSUME pub # NoPub, ~HasStage("resume")', ~GaveUp'
               PROVE  \E v \in Threads : At(v, "queue_resume")'
    BY <1>1 DEF ResumeInv
  <2>1. ~HasStage("resume") /\ ~GaveUp /\ up
    BY <1>1, <1>6, EndsRows DEF Ends, Base, DownInv, Holding, At
  <2>2. PICK v \in Threads : At(v, "queue_resume")
    BY <2>1 DEF ResumeInv
  <2> QED
    BY <1>1, <2>2 DEF At, Same
<1> QED
  BY <1>7, <1>8

LEMMA ChainClaims ==
    ASSUME Base, ChainInv, ResumeInv, NEW w \in Threads, NEW i \in DOMAIN jobs, Claim(w, i)
    PROVE  ChainInv' /\ ResumeInv'
<1>1. /\ UNCHANGED <<run, pub, gens, resume>> /\ Same(w) /\ ~Holding(w) /\ up
      /\ at'[w].step \in Stage
  BY ClaimRows
<1>2. \A s \in Stage : After(s) => After(s)'
  BY <1>1, ClaimRows DEF After, Stage
<1>3. ASSUME NEW k \in DOMAIN jobs', NEW s \in Stage, Done(k)', jobs'[k].stage = s
      PROVE  After(s)'
  <2>1. k \in DOMAIN jobs /\ jobs[k].stage = s
    BY <1>3, ClaimRows
  <2>2. Done(k)
    <3>1. CASE jobs'[k].state = "succeeded"
      BY <2>1, <3>1, ClaimRows DEF Done
    <3>2. CASE \E v \in Threads : At(v, "succeed")' /\ at'[v].job = k
      BY <1>1, <3>2 DEF At, Same, Done, Stage
    <3> QED
      BY <1>3, <3>1, <3>2 DEF Done
  <2> QED
    BY <1>2, <2>1, <2>2 DEF ChainInv
<1>4. RunStands => RunStands'
  BY <1>1, ClaimRows DEF RunStands
<1>5. \A v \in Threads : Publisher(v)'
  BY <1>1, <1>4 DEF Publisher, At, ChainInv, Same, Stage
<1>6. HasStage("resume") = HasStage("resume")'
  BY ClaimRows DEF Stage
<1>7. ChainInv'
  BY <1>1, <1>3, <1>4, <1>5, <1>6 DEF ChainInv
<1>8. ResumeInv'
  <2> SUFFICES ASSUME pub # NoPub, ~HasStage("resume")', ~GaveUp'
               PROVE  \E v \in Threads : At(v, "queue_resume")'
    BY <1>1 DEF ResumeInv
  <2>1. ~HasStage("resume") /\ ~GaveUp
    BY <1>6, ClaimRows
  <2>2. PICK v \in Threads : At(v, "queue_resume")
    BY <1>1, <2>1 DEF ResumeInv
  <2> QED
    BY <1>1, <2>2 DEF At, Same, Holding
<1> QED
  BY <1>7, <1>8

LEMMA ChainFailRun ==
    ASSUME Base, ChainInv, ResumeInv, NEW w \in Threads, FailRun(w)
    PROVE  ChainInv' /\ ResumeInv'
<1>1. at[w].step = "fail_run" /\ GaveUp
  BY DEF FailRun, At, Base, PhaseInv, Phase
<1>2. UNCHANGED <<jobs, pub, gens, resume>> /\ GaveUp'
  BY <1>1 DEF FailRun, index, GaveUp
<1>3. at'[w].step = "idle" /\ Same(w)
  BY DEF FailRun, Go, Same, Base, AtInv, Local
<1>4. \A s \in Stage : After(s) => After(s)'
  BY <1>2 DEF After, HasStage, Stage
<1>5. ASSUME NEW i \in DOMAIN jobs', NEW s \in Stage, Done(i)', jobs'[i].stage = s
      PROVE  After(s)'
  <2>1. Done(i)
    BY <1>2, <1>3, <1>5 DEF Done, At, Same
  <2> QED
    BY <1>2, <1>4, <1>5, <2>1 DEF ChainInv
<1>6. \A v \in Threads : Publisher(v)'
  BY <1>2, <1>3 DEF Publisher, At, ChainInv, Same, RunStands
<1> QED
  BY <1>2, <1>5, <1>6 DEF ChainInv, ResumeInv, RunStands, HasStage

LEMMA ChainProcess ==
    ASSUME Base, ChainInv, ResumeInv, Process
    PROVE  ChainInv' /\ ResumeInv'
<1>1. CASE Start
  <2>1. Grows /\ UNCHANGED <<pub, gens, resume, run>> /\ Mended(jobs, jobs')
    BY <1>1, StartBase, StartMends DEF Start, LeaveWork, index
  <2>2. ASSUME pub # NoPub, ~GaveUp
        PROVE  HasStage("resume")'
    <3>1. CASE resume
      <4>1. HasStage("resume")
        BY <3>1 DEF ChainInv
      <4> QED
        BY <2>1, <4>1, StagesLast DEF Stage, Mended
    <3>2. CASE ~resume
      <4>1. run.state = "succeeded"
        BY <2>2 DEF ChainInv, RunStands
      <4>2. HasKey(jobs', "resume", NoPage)
        BY <1>1, <2>2, <3>2, <4>1, StartMends
      <4> QED
        BY <4>2 DEF HasKey, HasStage
    <3> QED
      BY <3>1, <3>2
  <2> QED
    BY <2>1, <2>2, ChainGrows
<1>2. CASE Migrate \/ (\E s \in Settings : EditSettings(s))
  <2>1. Grows /\ UNCHANGED <<pub, gens, resume, run, up>>
    BY <1>2, MigrateBase, EditSettingsBase DEF Migrate, EditSettings, LeaveWork, index
  <2> QED
    BY <2>1, ChainGrows
<1>3. CASE OtherBook
  <2>1. Grows /\ UNCHANGED <<pub, gens, resume, run, up>>
    BY <1>3, OtherBookBase DEF OtherBook
  <2> QED
    BY <2>1, ChainGrows
<1>4. CASE Stop
  <2>1. UNCHANGED <<jobs, at, pub, gens, resume, run>>
    BY <1>4 DEF Stop, LeaveWork, index
  <2>2. up /\ \A v \in Threads : ~At(v, "queue_resume")
    BY <1>4 DEF Stop, At
  <2>3. ChainInv'
    BY <2>1 DEF ChainInv, Done, At, After, HasStage, Publisher, RunStands, GaveUp, Stage
  <2>4. ~(pub # NoPub /\ ~HasStage("resume") /\ ~GaveUp)
    BY <2>2 DEF ResumeInv
  <2> QED
    BY <2>1, <2>3, <2>4 DEF ResumeInv, HasStage, GaveUp
<1>5. CASE Crash
  <2>1. UNCHANGED <<jobs, pub, gens, resume, run>> /\ \A v \in Threads : at'[v] = Idle
    BY <1>5, CrashBase DEF Crash, LeaveWork, index
  <2>2. \A v \in Threads : at'[v].step = "idle"
    BY <2>1 DEF Idle
  <2>3. ChainInv'
    BY <2>1, <2>2 DEF ChainInv, Done, At, After, HasStage, Publisher, RunStands, GaveUp, Stage
  <2>4. up
    BY <1>5 DEF Crash
  <2>5. ~up'
    BY <1>5 DEF Crash
  <2>6. ResumeInv'
    <3> SUFFICES ASSUME pub # NoPub, ~HasStage("resume"), ~GaveUp
                 PROVE  \E i \in DOMAIN jobs : jobs[i].stage = "publish" /\ jobs[i].state = "running"
      BY <2>1, <2>5 DEF ResumeInv, HasStage, GaveUp
    <3>1. PICK v \in Threads : At(v, "queue_resume")
      BY <2>4 DEF ResumeInv
    <3>2. Holding(v) /\ at[v].step \in StepsOf("publish") \ {"succeed"} /\ "publish" \in Stage
      BY <3>1 DEF Holding, At, StepsOf, Stage
    <3>3. Row(v).stage = "publish" /\ Held(v)
      BY <3>2, StageOfStep DEF Base, HeldInv
    <3> QED
      BY <3>2, <3>3 DEF Held, Row
  <2> QED
    BY <2>3, <2>6
<1> QED
  BY <1>1, <1>2, <1>3, <1>4, <1>5 DEF Process

\* A handler's step that is none of publish's keeps what was published.
Unpublished == UNCHANGED <<pub, gens, resume>>

LEMMA ChainExtracts ==
    ASSUME Base, ChainInv, ResumeInv, NEW w \in Threads, Extracts(w)
    PROVE  ChainInv' /\ ResumeInv'
<1>1. /\ at[w].step \in StepsOf("extract") \ {"succeed"} /\ "extract" \in Stage
      /\ ~Resumes(w) /\ Unpublished /\ (run.state = "succeeded" => run'.state = "succeeded")
  <2>1. at[w].step \in StepsOf("extract") \ {"succeed"}
    BY DEF Extracts, StartRun, PageArtifact, PageRow, QueuePageOcr, FinishRun, QueueOcr, QueueChunk,
           At, StepsOf
  <2>2. Unpublished
    BY DEF Extracts, StartRun, PageArtifact, PageRow, QueuePageOcr, FinishRun, QueueOcr, QueueChunk,
           Unpublished, index, Leave, LeaveBook
  <2>3. run.state = "succeeded" => run'.state = "succeeded"
    BY DEF Extracts, StartRun, PageArtifact, PageRow, QueuePageOcr, FinishRun, QueueOcr, QueueChunk,
           Leave, LeaveBook, Base, RunInv
  <2> QED
    BY <2>1, <2>2, <2>3 DEF Resumes, At, StepsOf, Stage
<1>2. Row(w).stage = "extract"
  BY <1>1, StageOfStep, StepsAreOfStages DEF Base, Holding
<1>3. CASE Advances(w)
  <2>1. at'[w].step \in StepsOf("extract")
    BY <1>2, <1>3 DEF Advances
  <2>2. at'[w].step # "switch" /\ ~Resumes(w)'
    BY <2>1 DEF StepsOf, Resumes, At
  <2>3. at'[w].step = "succeed" => After("extract")'
    <3> SUFFICES ASSUME at'[w].step = "succeed"
                 PROVE  HasStage("chunk")'
      BY DEF After
    <3>1. QueueChunk(w)
      BY DEF Extracts, StartRun, PageArtifact, PageRow, QueuePageOcr, FinishRun, QueueOcr, Go, Base,
             AtInv, Local, At
    <3>2. Fingerprint \in AnyKey
      BY FingerprintIsTyped DEF AnyKey
    <3>3. HasKey(jobs', "chunk", Fingerprint)
      BY <3>1, <3>2, InsertedRows DEF QueueChunk, Queue, Base, JobsInv, Stage
    <3> QED
      BY <3>3 DEF HasKey, HasStage
  <2> QED
    BY <1>1, <1>2, <1>3, <2>2, <2>3, ChainAdvances DEF Unpublished
<1>4. CASE ~Advances(w)
  <2>1. QueueOcr(w)
    BY <1>4, StartRunBase, PageArtifactBase, PageRowBase, QueuePageOcrBase, FinishRunBase,
       QueueChunkBase DEF Extracts
  <2>2. Grows /\ UNCHANGED <<run, up>>
    BY <1>4, <2>1, QueueOcrBase, LeaveValues DEF QueueOcr
  <2> QED
    BY <1>1, <2>2, ChainGrows DEF Unpublished
<1> QED
  BY <1>3, <1>4

LEMMA ChainReads ==
    ASSUME Base, ChainInv, ResumeInv, NEW w \in Threads, Reads(w)
    PROVE  ChainInv' /\ ResumeInv'
<1>1. /\ at[w].step \in StepsOf("ocr") \ {"succeed"} /\ "ocr" \in Stage
      /\ ~Resumes(w) /\ Unpublished /\ run' = run
  BY DEF Reads, OcrBegins, OcrArtifact, OcrRow, OcrImpossible, At, StepsOf, Unpublished, index, Leave,
         LeaveBook, Resumes, Stage
<1>2. Row(w).stage = "ocr"
  BY <1>1, OcrPages
<1>3. Advances(w)
  BY OcrBeginsBase, OcrArtifactBase, OcrRowBase, OcrImpossibleBase DEF Reads
<1>4. at'[w].step # "switch" /\ ~Resumes(w)'
  BY <1>2, <1>3 DEF Advances, StepsOf, Resumes, At
<1>5. After("ocr")'
  BY DEF After
<1> QED
  BY <1>1, <1>2, <1>3, <1>4, <1>5, ChainAdvances DEF Unpublished

LEMMA ChainCuts ==
    ASSUME Base, ChainInv, ResumeInv, NEW w \in Threads, Cuts(w)
    PROVE  ChainInv' /\ ResumeInv'
<1>1. at[w].step \in StepsOf("chunk") \ {"succeed"} /\ "chunk" \in Stage /\ ~Resumes(w)
  BY DEF Cuts, ChunkReplays, ChunkLoads, NormalizeArtifact, NormalizeRow, Normalized, ChunkCommit,
         Rekey, QueueEmbed, ChunkReady, At, StepsOf, Resumes, Stage
<1>2. Unpublished
  BY DEF Cuts, ChunkReplays, ChunkLoads, NormalizeArtifact, NormalizeRow, Normalized, ChunkCommit,
         Rekey, QueueEmbed, Unpublished, index, Leave, LeaveBook
<1>3. run'.state = run.state
  BY DEF Cuts, ChunkReplays, ChunkLoads, NormalizeArtifact, NormalizeRow, Normalized, ChunkCommit,
         Rekey, QueueEmbed, Leave, LeaveBook, Base, RunInv
<1>4. Row(w).stage = "chunk"
  BY <1>1, ChunkPages
<1>5. Advances(w)
  BY ChunkReplaysBase, ChunkLoadsBase, NormalizeArtifactBase, NormalizeRowBase, NormalizedBase,
     ChunkCommitBase, RekeyBase, QueueEmbedBase DEF Cuts
<1>6. at'[w].step # "switch" /\ ~Resumes(w)'
  BY <1>4, <1>5 DEF Advances, StepsOf, Resumes, At
<1>7. at'[w].step = "succeed" => After("chunk")'
  <2> SUFFICES ASSUME at'[w].step = "succeed"
               PROVE  HasStage("embed")'
    BY DEF After
  <2>1. at[w] \in Local
    BY DEF Base, AtInv
  <2>2. ~ChunkReplays(w) /\ ~ChunkLoads(w) /\ ~Normalized(w)
    BY <2>1, ChunkReplaysBase, ChunkLoadsBase, NormalizedBase DEF Local
  <2>3. (\A p \in Pages : ~NormalizeArtifact(w, p)) /\ ~NormalizeRow(w)
    <3>1. ASSUME NEW p \in Pages, NormalizeArtifact(w, p) PROVE FALSE
      <4>1. at'[w].step = "norm_row"
        BY <2>1, <3>1, NormalizeArtifactBase DEF Local
      <4> QED
        BY <4>1
    <3>2. ASSUME NormalizeRow(w) PROVE FALSE
      <4>1. at'[w].step = "normalize"
        BY <2>1, <3>2, NormalizeRowBase DEF Local
      <4> QED
        BY <4>1
    <3> QED
      BY <3>1, <3>2
  <2>4. ~ChunkCommit(w) /\ ~Rekey(w)
    <3>1. ASSUME ChunkCommit(w) PROVE FALSE
      <4>1. at'[w].step = "rekey"
        BY <2>1, <3>1, ChunkCommitBase DEF Local
      <4> QED
        BY <4>1
    <3>2. ASSUME Rekey(w) PROVE FALSE
      <4>1. at'[w].step = "queue_embed"
        BY <2>1, <3>2, RekeyBase DEF Local
      <4> QED
        BY <4>1
    <3> QED
      BY <3>1, <3>2
  <2>5. QueueEmbed(w)
    BY <2>2, <2>3, <2>4 DEF Cuts
  <2>6. HasKey(jobs', "embed", at[w].fp)
    BY <2>5, QueueEmbedBase
  <2> QED
    BY <2>6 DEF HasKey, HasStage
<1> QED
  BY <1>1, <1>2, <1>3, <1>4, <1>5, <1>6, <1>7, ChainAdvances DEF Unpublished

LEMMA ChainEmbeds ==
    ASSUME Base, ChainInv, ResumeInv, NEW w \in Threads, Embeds(w)
    PROVE  ChainInv' /\ ResumeInv'
<1>1. /\ at[w].step \in StepsOf("embed") \ {"succeed"} /\ "embed" \in Stage
      /\ ~Resumes(w) /\ Unpublished /\ run' = run
  BY DEF Embeds, EmbedBegins, EmbedReady, EmbedBatch, QueuePublish, At, StepsOf, Unpublished, index,
         Leave, LeaveBook, Resumes, Stage
<1>2. Row(w).stage = "embed"
  BY <1>1, StageOfStep, StepsAreOfStages DEF Base, Holding
<1>3. Advances(w)
  BY EmbedBeginsBase, EmbedBatchBase, QueuePublishBase DEF Embeds
<1>4. at'[w].step # "switch" /\ ~Resumes(w)'
  BY <1>2, <1>3 DEF Advances, StepsOf, Resumes, At
<1>5. at'[w].step = "succeed" => After("embed")'
  <2> SUFFICES ASSUME at'[w].step = "succeed"
               PROVE  HasStage("publish")'
    BY DEF After
  <2>1. QueuePublish(w)
    BY DEF Embeds, EmbedBegins, EmbedBatch, Go, Base, AtInv, Local
  <2>2. HasKey(jobs', "publish", record)
    BY <2>1, QueuePublishBase
  <2> QED
    BY <2>2 DEF HasKey, HasStage
<1> QED
  BY <1>1, <1>2, <1>3, <1>4, <1>5, ChainAdvances DEF Unpublished

LEMMA ChainPublishes ==
    ASSUME Base, ChainInv, ResumeInv, NEW w \in Threads,
           PublishNoop(w) \/ PublishBegins(w)
    PROVE  ChainInv' /\ ResumeInv'
<1>1. /\ at[w].step \in StepsOf("publish") \ {"succeed"} /\ "publish" \in Stage
      /\ ~Resumes(w) /\ Unpublished /\ run' = run /\ run.state = "succeeded"
  BY DEF PublishNoop, PublishBegins, PublishReady, At, StepsOf, Unpublished, index,
         Leave, LeaveBook, Resumes, Stage
<1>2. Row(w).stage = "publish"
  BY <1>1, StageOfStep, StepsAreOfStages DEF Base, Holding
<1>3. Advances(w)
  BY PublishNoopBase, PublishBeginsBase
<1>4. at'[w].step \in {"switch", "succeed"}
  BY DEF PublishNoop, PublishBegins, Go, Base, AtInv, Local
<1>5. at'[w].step = "succeed" => After("publish")'
  <2> SUFFICES ASSUME at'[w].step = "succeed"
               PROVE  pub' # NoPub
    BY DEF After
  <2>1. PublishNoop(w)
    BY DEF PublishBegins, Base, AtInv, Local
  <2>2. gens # {}
    BY <2>1 DEF PublishNoop
  <2> QED
    BY <1>1, <2>2 DEF ChainInv, Unpublished
<1> QED
  BY <1>1, <1>2, <1>3, <1>4, <1>5, ChainAdvances DEF Unpublished, Resumes, At

LEMMA ChainSwitch ==
    ASSUME Base, ChainInv, ResumeInv, NEW w \in Threads, Switch(w)
    PROVE  ChainInv' /\ ResumeInv'
<1>1. /\ at[w].step = "switch" /\ at[w] \in Local /\ at'[w].step = "queue_resume" /\ Same(w)
      /\ UNCHANGED <<jobs, run, resume, up>> /\ Advances(w)
      /\ pub' = [epoch |-> at[w].epoch, chunks |-> at[w].chunks]
  <2>1. /\ at[w].step = "switch" /\ at[w] \in Local /\ UNCHANGED <<jobs, run, resume, up>>
        /\ pub' = [epoch |-> at[w].epoch, chunks |-> at[w].chunks]
    BY DEF Switch, At, Base, AtInv
  <2>2. Advances(w) /\ Same(w) /\ at'[w] = [at[w] EXCEPT !.step = "queue_resume"]
    BY SwitchBase DEF Advances
  <2> QED
    BY <2>1, <2>2 DEF Local
<1>2. pub' # NoPub
  <2>1. pub' \in Publication
    BY <1>1 DEF Local, Publication
  <2> QED
    BY <2>1, NothingAssumption DEF Publication
<1>3. RunStands /\ RunStands' = RunStands
  BY <1>1 DEF ChainInv, Publisher, At, RunStands, GaveUp
<1>4. ASSUME NEW i \in DOMAIN jobs', NEW s \in Stage, Done(i)', jobs'[i].stage = s
      PROVE  After(s)'
  <2>1. Done(i)
    BY <1>1, <1>4 DEF Done, At, Same
  <2>2. After(s)
    BY <1>1, <1>4, <2>1 DEF ChainInv
  <2> QED
    BY <1>1, <1>2, <2>2 DEF After, HasStage, Stage
<1>5. \A v \in Threads : Publisher(v)'
  BY <1>1, <1>2, <1>3 DEF Publisher, At, ChainInv, Same
<1>6. resume' => HasStage("resume")'
  BY <1>1 DEF ChainInv, HasStage
<1>7. \E v \in Threads : At(v, "queue_resume")'
  BY <1>1 DEF At
<1> QED
  BY <1>2, <1>3, <1>4, <1>5, <1>6, <1>7 DEF ChainInv, ResumeInv

LEMMA ChainQueueResume ==
    ASSUME Base, ChainInv, ResumeInv, NEW w \in Threads, QueueResume(w) \/ StoreResume(w)
    PROVE  ChainInv' /\ ResumeInv'
<1>1. /\ Advances(w) /\ at'[w].step = "succeed" /\ UNCHANGED <<run, pub, gens>>
      /\ Follows(jobs, jobs') /\ Same(w) /\ (resume => resume')
  <2>1. at[w] \in Local /\ UNCHANGED <<run, pub, gens>> /\ (resume => resume')
    BY DEF QueueResume, StoreResume, Leave, LeaveBook, index, Base, AtInv
  <2>2. Advances(w) /\ Same(w) /\ Follows(jobs, jobs') /\ at'[w] = [at[w] EXCEPT !.step = "succeed"]
    BY QueueResumeBase, StoreResumeBase DEF Advances
  <2> QED
    BY <2>1, <2>2 DEF Local
<1>2. HasStage("resume")'
  <2>1. CASE QueueResume(w)
    BY <2>1, QueueResumeBase DEF HasKey, HasStage
  <2>2. CASE StoreResume(w)
    <3>1. Holding(w) /\ at[w].step \in StepsOf("resume") \ {"succeed"} /\ "resume" \in Stage
      BY <2>2 DEF StoreResume, At, StepsOf, Holding, Stage
    <3>2. Row(w).stage = "resume" /\ at[w].job \in DOMAIN jobs
      BY <3>1, StageOfStep DEF Base, HeldInv, Held
    <3>3. HasStage("resume")
      BY <3>2 DEF HasStage, Row
    <3> QED
      BY <1>1, <3>1, <3>3, StagesLast
  <2> QED
    BY <2>1, <2>2
<1>3. \A s \in Stage : After(s) => After(s)'
  BY <1>1, StagesLast DEF After, Stage
<1>4. /\ QueueResume(w) => Row(w).stage = "publish" /\ pub # NoPub
      /\ StoreResume(w) => Row(w).stage = "resume" /\ resume'
  <2>1. CASE QueueResume(w)
    <3>1. Holding(w) /\ at[w].step \in StepsOf("publish") \ {"succeed"} /\ "publish" \in Stage
      BY <2>1 DEF QueueResume, At, StepsOf, Holding, Stage
    <3> QED
      BY <2>1, <3>1, StageOfStep DEF Base, ChainInv, Publisher, QueueResume, At, StoreResume
  <2>2. CASE StoreResume(w)
    <3>1. Holding(w) /\ at[w].step \in StepsOf("resume") \ {"succeed"} /\ "resume" \in Stage
      BY <2>2 DEF StoreResume, At, StepsOf, Holding, Stage
    <3>2. Row(w).stage = "resume"
      BY <3>1, StageOfStep DEF Base
    <3> QED
      BY <2>2, <3>2 DEF QueueResume, StoreResume, At
  <2> QED
    BY <2>1, <2>2
<1>5. ASSUME NEW i \in DOMAIN jobs', NEW s \in Stage, Done(i)', jobs'[i].stage = s
      PROVE  After(s)'
  <2>1. i \in DOMAIN jobs /\ jobs[i].stage = s
    BY <1>1, <1>5, DoneByAdvance
  <2>2. CASE Done(i)
    BY <1>3, <2>1, <2>2 DEF ChainInv
  <2>3. CASE i = at[w].job
    BY <1>1, <1>4, <2>1, <2>3 DEF Row, After
  <2> QED
    BY <1>1, <1>5, <2>2, <2>3, DoneByAdvance
<1>6. RunStands => RunStands'
  BY <1>1, StagesLast DEF RunStands
<1>7. \A v \in Threads : Publisher(v)'
  BY <1>1, <1>6 DEF Publisher, At, ChainInv, Same
<1> QED
  BY <1>1, <1>2, <1>5, <1>6, <1>7 DEF ChainInv, ResumeInv

\* What Base and the chain together are inductive for.
LEMMA ChainStep ==
    ASSUME MaxRetries = 0, Base, ChainInv, ResumeInv, [Next]_vars
    PROVE  ChainInv' /\ ResumeInv'
<1>1. CASE Process
  BY <1>1, ChainProcess
<1>2. ASSUME NEW w \in Threads, Steps(w)
      PROVE  ChainInv' /\ ResumeInv'
  BY <1>2, ChainClaims, ChainLeaves, ChainFailRun, ChainExtracts, ChainReads, ChainCuts, ChainEmbeds,
     ChainPublishes, ChainSwitch, ChainQueueResume DEF Steps, Publishes
<1>3. CASE UNCHANGED vars
  BY <1>3 DEF vars, index, ChainInv, ResumeInv, Done, At, HasStage, After, Publisher, RunStands,
              GaveUp, Stage
<1> QED
  BY <1>1, <1>2, <1>3, StepsAndBase

LEMMA ChainInit == Init => ChainInv /\ ResumeInv
<1> SUFFICES ASSUME Init
             PROVE  ChainInv /\ ResumeInv
  OBVIOUS
<1>1. pub = NoPub /\ gens = {} /\ ~resume
  BY DEF Init
<1>2. \A i \in DOMAIN jobs : ~Done(i)
  BY DEF Init, Done, At, Idle
<1>3. \A w \in Threads : Publisher(w)
  BY DEF Init, Publisher, At, Idle
<1> QED
  BY <1>1, <1>2, <1>3 DEF ChainInv, ResumeInv

\* When every job has succeeded, each stage has had its job.
LEMMA DrainedChain ==
    ASSUME Base, ChainInv, Drained
    PROVE  /\ ~GaveUp /\ pub # NoPub /\ HasStage("chunk") /\ HasStage("embed") /\ HasStage("publish")
           /\ \A i \in DOMAIN jobs : jobs[i].state = "succeeded"
<1>1. \A i \in DOMAIN jobs : jobs[i].state = "succeeded"
  <2> SUFFICES ASSUME NEW i \in DOMAIN jobs
               PROVE  jobs[i].state = "succeeded"
    OBVIOUS
  <2>1. jobs[i] \in JobRow
    BY RowsAreTyped DEF Base
  <2> QED
    BY <2>1 DEF Drained, Quiescent, NoneFailed, IsOpen, JobRow, JobState
<1>2. 1 \in DOMAIN jobs /\ jobs[1].stage = "extract"
  BY DEF Base, JobsInv, FirstInv
<1>3. HasStage("chunk")
  BY <1>1, <1>2 DEF ChainInv, Done, After, Stage
<1>4. HasStage("embed")
  BY <1>1, <1>3 DEF ChainInv, Done, After, Stage, HasStage
<1>5. HasStage("publish")
  BY <1>1, <1>4 DEF ChainInv, Done, After, Stage, HasStage
<1>6. pub # NoPub
  BY <1>1, <1>5 DEF ChainInv, Done, After, Stage, HasStage
<1> QED
  BY <1>1, <1>2, <1>3, <1>4, <1>5, <1>6 DEF GaveUp

\* When every job has succeeded, the book has a resume: whatever crashes, fails or is migrated,
\* a published book without a resume job has a publisher that is about to queue it or a start
\* that will.
THEOREM EveryBookHasItsResume ==
    ASSUME MaxRetries = 0
    PROVE  Spec => []ResumeFollows
<1>1. Init => Base /\ ChainInv /\ ResumeInv
  BY InitBase, ChainInit
<1>2. Base /\ ChainInv /\ ResumeInv /\ [Next]_vars => (Base /\ ChainInv /\ ResumeInv)'
  BY StepsAndBase, ChainStep
<1>3. Base /\ ChainInv /\ ResumeInv => ResumeFollows
  <2> SUFFICES ASSUME Base, ChainInv, ResumeInv, Drained
               PROVE  resume
    BY DEF ResumeFollows
  <2>1. /\ ~GaveUp /\ pub # NoPub
        /\ \A i \in DOMAIN jobs : jobs[i].state = "succeeded"
    BY DrainedChain
  <2>2. \A v \in Threads : ~At(v, "queue_resume")
    BY <2>1 DEF Base, HeldInv, Held, Holding, At, Row
  <2>3. HasStage("resume")
    BY <2>1, <2>2 DEF ResumeInv
  <2>4. PICK i \in DOMAIN jobs : jobs[i].stage = "resume"
    BY <2>3 DEF HasStage
  <2>5. After("resume")
    BY <2>1, <2>4 DEF ChainInv, Done, Stage
  <2> QED
    BY <2>5 DEF After
<1> QED
  BY <1>1, <1>2, <1>3, PTL DEF Spec

-----------------------------------------------------------------------------
(* The pages to be read: none is forgotten before the pages are chunked.   *)

\* Retries, and a second crash, are beyond these theorems, and so is a migrate --execute next
\* to a worker that crashes: each can leave a page without its OCR job while the chunk stage
\* goes ahead, and the job that comes later changes the page under the chunks.
OcrInTime == Scanned = {} \/ MaxCrashes = 0 \/ (MaxCrashes = 1 /\ ~LiveMigrate)

Missing == {p \in Scanned : unit[p] # NoUnit /\ ~HasKey(jobs, "ocr", p)}
MissInv ==
    /\ crashes = 0 => \A p \in Missing : \E w \in Threads : At(w, "page_ocr") /\ at[w].page = p
    /\ run.state = "succeeded" /\ Missing # {} => \E w \in Threads : At(w, "queue_ocr")
    /\ Chunked => Missing = {}
    /\ crashes \leq MaxCrashes

LEMMA MissKept ==
    ASSUME Base, MissInv, Missing' \subseteq Missing, crashes' = crashes,
           run'.state = "succeeded" => run.state = "succeeded",
           \A v \in Threads : at[v].step \in {"page_ocr", "queue_ocr"} /\ Missing' # {} => at'[v] = at[v],
           Chunked' => Chunked \/ Missing' = {}
    PROVE  MissInv'
<1>1. crashes' = 0 => \A p \in Missing' : \E v \in Threads : At(v, "page_ocr")' /\ at'[v].page = p
  <2> SUFFICES ASSUME crashes = 0, NEW p \in Missing'
               PROVE  \E v \in Threads : At(v, "page_ocr")' /\ at'[v].page = p
    OBVIOUS
  <2>1. PICK v \in Threads : At(v, "page_ocr") /\ at[v].page = p
    BY DEF MissInv
  <2> QED
    BY <2>1 DEF At
<1>2. run'.state = "succeeded" /\ Missing' # {} => \E v \in Threads : At(v, "queue_ocr")'
  <2> SUFFICES ASSUME run'.state = "succeeded", Missing' # {}
               PROVE  \E v \in Threads : At(v, "queue_ocr")'
    OBVIOUS
  <2>1. PICK v \in Threads : At(v, "queue_ocr")
    BY DEF MissInv
  <2> QED
    BY <2>1 DEF At
<1> QED
  BY <1>1, <1>2 DEF MissInv

LEMMA OcrKeysLast ==
    ASSUME Base,
           Follows(jobs, jobs')
             \/ (/\ DOMAIN jobs' = DOMAIN jobs
                 /\ \A i \in DOMAIN jobs : jobs'[i].stage = jobs[i].stage /\ jobs'[i].key = jobs[i].key),
           NEW p, HasKey(jobs, "ocr", p)
    PROVE  HasKey(jobs', "ocr", p)
<1>1. PICK i \in DOMAIN jobs : jobs[i].stage = "ocr" /\ jobs[i].key = p
  BY DEF HasKey
<1>2. i \in DOMAIN jobs' /\ jobs'[i].stage = "ocr" /\ jobs'[i].key = p
  BY <1>1 DEF Follows, Base, JobsInv
<1> QED
  BY <1>2 DEF HasKey

\* No page is missing where the run has succeeded and nobody is about to queue the pages' jobs.
LEMMA NoneIsMissing ==
    ASSUME Base, MissInv, run.state = "succeeded", \A v \in Threads : ~At(v, "queue_ocr")
    PROVE  Missing = {}
  BY DEF MissInv

\* ... or where nothing has crashed yet.
LEMMA NoneIsMissed ==
    ASSUME Base, MissInv, run.state = "succeeded", crashes = 0
    PROVE  Missing = {}
<1>1. \A v \in Threads : ~At(v, "page_ocr")
  BY DEF Base, PhaseInv, Phase, At
<1> QED
  BY <1>1 DEF MissInv

LEMMA MissProcess ==
    ASSUME Base, MissInv, OcrInTime, Scanned # {}, Process
    PROVE  MissInv'
<1>1. CASE Grows /\ UNCHANGED <<unit, run, crashes>> /\ (Chunked' => Chunked \/ Missing = {})
  <2>1. Missing' \subseteq Missing
    BY <1>1, OcrKeysLast DEF Missing, Grows
  <2> QED
    BY <1>1, <2>1, MissKept DEF Grows
<1>2. CASE Start
  <2>1. Grows /\ UNCHANGED <<unit, run, crashes>> /\ Mended(jobs, jobs')
    BY <1>2, StartBase, StartMends DEF Start, LeaveWork, bounds, book
  <2>2. \A v \in Threads : ~At(v, "queue_ocr")
    BY <1>2 DEF Start, Base, DownInv, At
  <2> QED
    BY <1>1, <2>1, <2>2, MendedChunks, NoneIsMissing
<1>3. CASE Migrate
  <2>1. Grows /\ UNCHANGED <<unit, run, crashes>> /\ Mended(jobs, jobs')
    BY <1>3, MigrateBase, MigrateMends DEF Migrate, LeaveWork, bounds, book
  <2>2. CASE ~up
    <3>1. \A v \in Threads : ~At(v, "queue_ocr")
      BY <2>2 DEF Base, DownInv, At
    <3> QED
      BY <1>1, <2>1, <3>1, MendedChunks, NoneIsMissing
  <2>3. CASE up
    <3>1. crashes = 0
      BY <1>3, <2>3 DEF Migrate, OcrInTime, MissInv, Base, ScalarInv
    <3> QED
      BY <1>1, <2>1, <3>1, MendedChunks, NoneIsMissed
  <2> QED
    BY <2>2, <2>3
<1>4. CASE OtherBook
  BY <1>1, <1>4, OtherBookBase DEF OtherBook, bounds, book
<1>5. ASSUME NEW s \in Settings, EditSettings(s)
      PROVE  MissInv'
  <2>1. Grows /\ UNCHANGED <<unit, run, crashes, jobs>>
    BY <1>5, EditSettingsBase DEF EditSettings, LeaveWork, book
  <2> QED
    BY <1>1, <2>1 DEF Chunked
<1>6. CASE Stop
  <2>1. UNCHANGED <<unit, run, crashes, jobs, at>>
    BY <1>6 DEF Stop, LeaveWork, bounds, book
  <2> QED
    BY <2>1 DEF MissInv, Missing, Chunked, HasKey, At
<1>7. CASE Crash
  <2>1. UNCHANGED <<unit, run, jobs>> /\ crashes = 0 /\ crashes' = 1 /\ MaxCrashes = 1
    BY <1>7 DEF Crash, Within, LeaveWork, book, OcrInTime, Base, ScalarInv
  <2>2. Missing' = Missing /\ Chunked' = Chunked
    BY <2>1 DEF Missing, HasKey, Chunked
  <2>3. run.state = "succeeded" => Missing = {}
    BY <2>1, NoneIsMissed
  <2> QED
    BY <2>1, <2>2, <2>3 DEF MissInv
<1> QED
  BY <1>2, <1>3, <1>4, <1>5, <1>6, <1>7 DEF Process

LEMMA MissClaims ==
    ASSUME Base, MissInv, NEW w \in Threads,
           Leaves(w) \/ FailRun(w) \/ \E i \in DOMAIN jobs : Claim(w, i)
    PROVE  MissInv'
<1>1. CASE /\ Same(w) /\ at[w].step \notin {"page_ocr", "queue_ocr"} /\ DOMAIN jobs' = DOMAIN jobs
           /\ UNCHANGED <<unit, crashes>> /\ (run'.state = "succeeded" => run.state = "succeeded")
           /\ \A i \in DOMAIN jobs : jobs'[i].stage = jobs[i].stage /\ jobs'[i].key = jobs[i].key
  <2>1. Missing' \subseteq Missing
    BY <1>1, OcrKeysLast DEF Missing
  <2>2. Chunked' => Chunked
    BY <1>1 DEF Chunked
  <2> QED
    BY <1>1, <2>1, <2>2, MissKept DEF Same
<1>2. CASE Leaves(w)
  <2>1. Ends(w) /\ UNCHANGED <<unit, run>> /\ at[w].step \notin {"page_ocr", "queue_ocr"}
    BY <1>2 DEF Leaves, LeaveBook, book, Stage
  <2>2. UNCHANGED crashes
    BY <1>2 DEF Leaves
  <2> QED
    BY <1>1, <2>1, <2>2, EndsRows DEF Ends
<1>3. CASE FailRun(w)
  <2>1. Same(w) /\ at[w].step = "fail_run" /\ UNCHANGED <<unit, jobs, crashes>>
    BY <1>3 DEF FailRun, Go, Same, At, book, bounds, Base, AtInv
  <2>2. run'.state = "succeeded" => run.state = "succeeded"
    BY <1>3 DEF FailRun, Base, RunInv
  <2> QED
    BY <1>1, <2>1, <2>2
<1>4. ASSUME NEW i \in DOMAIN jobs, Claim(w, i)
      PROVE  MissInv'
  <2>1. UNCHANGED crashes /\ ~Holding(w) /\ at[w].step \notin {"page_ocr", "queue_ocr"}
    BY <1>4 DEF Claim, bounds, At, Holding
  <2> QED
    BY <1>1, <1>4, <2>1, ClaimRows
<1> QED
  BY <1>2, <1>3, <1>4

\* A handler of a later stage goes on.
LEMMA MissAdvances ==
    ASSUME Base, MissInv, NEW w \in Threads, Advances(w), UNCHANGED crashes,
           run'.state = run.state, at[w].step \notin {"page_ocr", "queue_ocr"},
           \A p \in Scanned : unit'[p] # NoUnit => unit[p] # NoUnit \/ HasKey(jobs, "ocr", p),
           Chunked' => Chunked \/ Missing = {}
    PROVE  MissInv'
<1>1. Missing' \subseteq Missing
  BY OcrKeysLast DEF Missing, Advances
<1> QED
  BY <1>1, MissKept DEF Advances, Same

LEMMA MissExtracts ==
    ASSUME Base, MissInv, NEW w \in Threads, Extracts(w)
    PROVE  MissInv'
<1> USE DEF Extracts
<1>1. CASE StartRun(w)
  <2>1. UNCHANGED <<unit, jobs, crashes>> /\ At(w, "extract")
    BY <1>1 DEF StartRun, book, bounds
  <2>2. run'.state = "succeeded" => run.state = "succeeded"
    BY <1>1 DEF StartRun, Base, RunInv
  <2>3. Missing' = Missing /\ Chunked' = Chunked
    BY <2>1 DEF Missing, HasKey, Chunked
  <2> QED
    BY <1>1, <2>1, <2>2, <2>3, StartRunBase, MissKept DEF Advances, Same, At
<1>2. ASSUME NEW p \in Pages, PageArtifact(w, p)
      PROVE  MissInv'
  <2>1. UNCHANGED <<unit, jobs, crashes, run>> /\ At(w, "page")
    BY <1>2 DEF PageArtifact, bounds
  <2> QED
    BY <1>2, <2>1, PageArtifactBase, MissAdvances DEF At, Chunked
<1>3. CASE PageRow(w)
  <2> DEFINE p == at[w].page
  <2>1. /\ UNCHANGED <<jobs, crashes, run>> /\ At(w, "page_row") /\ p \in Pages
        /\ unit \in [Pages -> Unit \cup {NoUnit}]
        /\ \E u \in Unit \cup {NoUnit} : unit' = [unit EXCEPT ![p] = u]
    <3>1. unit' \in [Pages -> Unit \cup {NoUnit}] /\ unit \in [Pages -> Unit \cup {NoUnit}]
      BY <1>3, PageRowBase DEF Base, BookInv
    <3>2. p \in Pages
      BY <1>3, PageRowBase
    <3>3. unit'[p] \in Unit \cup {NoUnit} /\ unit' = [unit EXCEPT ![p] = unit'[p]]
      BY <1>3, <3>1, <3>2 DEF PageRow
    <3> QED
      BY <1>3, <3>1, <3>2, <3>3 DEF PageRow, bounds, book
  <2>2. run.state = "running"
    BY <2>1 DEF Base, PhaseInv, Phase, At
  <2>3. ~Chunked /\ Chunked' = Chunked
    BY <2>1, <2>2 DEF Base, PhaseInv, Chunked
  <2>4. Missing' \subseteq Missing \cup {p}
    BY <2>1 DEF Missing, HasKey
  <2>5. p \in Missing' => p \in Scanned /\ At(w, "page_ocr")' /\ at'[w].page = p
    <3> SUFFICES ASSUME p \in Scanned
                 PROVE  At(w, "page_ocr")' /\ at'[w].page = p
      BY DEF Missing
    <3>1. at[w] \in Local /\ at'[w] = [at[w] EXCEPT !.step = "page_ocr"]
      BY <1>3, PageRowBase DEF Base, AtInv
    <3> QED
      BY <3>1 DEF At, Local
  <2>6. \A v \in Threads : ~At(v, "page_ocr")
    BY <2>1, ExtractIsAlone DEF StepsOf, At
  <2>7. crashes = 0 => Missing = {}
    BY <2>6 DEF MissInv
  <2>8. crashes' = 0 => \A q \in Missing' : \E v \in Threads : At(v, "page_ocr")' /\ at'[v].page = q
    BY <2>1, <2>4, <2>5, <2>7
  <2> QED
    BY <2>1, <2>2, <2>3, <2>8 DEF MissInv
<1>4. CASE QueuePageOcr(w)
  <2>1. UNCHANGED <<unit, run, crashes>> /\ At(w, "page_ocr")
    BY <1>4 DEF QueuePageOcr, Leave, LeaveBook, bounds, book
  <2>2. run.state = "running" /\ ~Chunked
    BY <2>1 DEF Base, PhaseInv, Phase, At
  <2>3. HasKey(jobs', "ocr", at[w].page) /\ Follows(jobs, jobs')
    BY <1>4, QueuePageOcrBase DEF Advances
  <2>4. Missing' \subseteq Missing /\ at[w].page \notin Missing'
    BY <2>1, <2>3, OcrKeysLast DEF Missing
  <2>5. crashes = 0 => Missing' = {}
    <3> SUFFICES ASSUME crashes = 0, NEW q \in Missing'
                 PROVE  FALSE
      OBVIOUS
    <3>1. PICK v \in Threads : At(v, "page_ocr") /\ at[v].page = q
      BY <2>4 DEF MissInv
    <3>2. v = w
      BY <2>1, <3>1, ExtractIsAlone DEF StepsOf, At
    <3> QED
      BY <2>4, <3>1, <3>2
  <2>6. ~Chunked'
    <3>1. at[w].page \in Scanned
      BY <1>4, QueuePageOcrBase
    <3>2. Base'
      BY <1>4, QueuePageOcrBase
    <3> QED
      BY <2>1, <2>2, <3>2 DEF Base, PhaseInv
  <2> QED
    BY <2>1, <2>2, <2>5, <2>6 DEF MissInv
<1>5. CASE FinishRun(w)
  <2>1. UNCHANGED <<unit, jobs, crashes>> /\ At(w, "page")
    BY <1>5 DEF FinishRun, book, bounds
  <2>2. run.state = "running"
    BY <2>1 DEF Base, PhaseInv, Phase, At
  <2>3. Missing' = Missing /\ Chunked' = Chunked /\ ~Chunked
    BY <2>1, <2>2 DEF Missing, HasKey, Chunked, Base, PhaseInv
  <2>4. \A v \in Threads : ~At(v, "page_ocr")
    BY <2>1, ExtractIsAlone DEF StepsOf, At
  <2>5. crashes = 0 => Missing = {}
    BY <2>4 DEF MissInv
  <2>6. At(w, "queue_ocr")'
    BY <1>5, FinishRunBase DEF At, Base, AtInv, Local
  <2> QED
    BY <2>1, <2>3, <2>5, <2>6 DEF MissInv
<1>6. CASE QueueOcr(w)
  <2>1. UNCHANGED <<unit, run, crashes>> /\ At(w, "queue_ocr")
    BY <1>6 DEF QueueOcr, Leave, LeaveBook, bounds, book
  <2>2. Follows(jobs, jobs')
    BY <1>6, QueueOcrBase DEF Advances, Grows
  <2>3. Missing' \subseteq Missing
    BY <2>1, <2>2, OcrKeysLast DEF Missing
  <2>4. (UNCHANGED at /\ \E p \in Missing : Queue("ocr", p)) \/ (Missing = {} /\ UNCHANGED jobs)
    BY <1>6 DEF QueueOcr, Missing
  <2>5. Chunked' => Chunked
    <3>1. ASSUME NEW p \in Missing, Queue("ocr", p)
          PROVE  Chunked' => Chunked
      <4>1. p \in AnyKey /\ p \in Scanned /\ "ocr" \in Stage \ {"extract"}
        BY PipelineAssumption DEF Missing, AnyKey, Stage
      <4> QED
        BY <3>1, <4>1, QueueFollows
    <3> QED
      BY <2>4, <3>1 DEF Chunked
  <2>6. Same(w)
    BY <1>6, QueueOcrBase DEF Advances, Grows, Same
  <2>7. \A v \in Threads : at[v].step \in {"page_ocr", "queue_ocr"} /\ Missing' # {} => at'[v] = at[v]
    BY <2>3, <2>4
  <2> QED
    BY <2>1, <2>3, <2>5, <2>7, MissKept
<1>7. CASE QueueChunk(w)
  <2>1. UNCHANGED <<unit, run, crashes>> /\ At(w, "queue_chunk")
    BY <1>7 DEF QueueChunk, Leave, LeaveBook, bounds, book
  <2>2. run.state = "succeeded"
    BY <2>1 DEF Base, PhaseInv, Phase, At
  <2>3. \A v \in Threads : ~At(v, "queue_ocr")
    BY <2>1, ExtractIsAlone DEF StepsOf, At
  <2> QED
    BY <1>7, <2>1, <2>2, <2>3, NoneIsMissing, QueueChunkBase, MissAdvances DEF At
<1> QED
  BY <1>1, <1>2, <1>3, <1>4, <1>5, <1>6, <1>7

LEMMA MissReads ==
    ASSUME Base, MissInv, NEW w \in Threads, Reads(w)
    PROVE  MissInv'
<1>1. at[w].step \in StepsOf("ocr") \ {"succeed"}
  BY DEF Reads, OcrBegins, OcrArtifact, OcrRow, OcrImpossible, At, StepsOf
<1>2. UNCHANGED <<run, jobs, crashes>>
  BY DEF Reads, OcrBegins, OcrArtifact, OcrRow, OcrImpossible, Leave, LeaveBook, bounds
<1>3. Advances(w)
  BY OcrBeginsBase, OcrArtifactBase, OcrRowBase, OcrImpossibleBase DEF Reads
<1>4. HasKey(jobs, "ocr", Page(w))
  BY <1>1, OcrPages DEF HasKey, Page
<1>5. \A p \in Scanned : p # Page(w) => unit'[p] = unit[p]
  BY PipelineAssumption DEF Reads, OcrBegins, OcrArtifact, OcrRow, OcrImpossible, Leave, LeaveBook, book,
     Base, BookInv
<1>6. Chunked' = Chunked
  BY <1>2 DEF Chunked
<1> QED
  BY <1>1, <1>2, <1>3, <1>4, <1>5, <1>6, MissAdvances DEF StepsOf

LEMMA MissCuts ==
    ASSUME Base, MissInv, NEW w \in Threads, Cuts(w)
    PROVE  MissInv'
<1>1. at[w].step \in StepsOf("chunk") \ {"succeed"}
  BY DEF Cuts, ChunkReplays, ChunkLoads, NormalizeArtifact, NormalizeRow, Normalized, ChunkCommit,
         Rekey, QueueEmbed, ChunkReady, At, StepsOf
<1>2. UNCHANGED crashes
  BY DEF Cuts, ChunkReplays, ChunkLoads, NormalizeArtifact, NormalizeRow, Normalized, ChunkCommit,
         Rekey, QueueEmbed, Leave, bounds
<1>3. run'.state = run.state
  BY DEF Cuts, ChunkReplays, ChunkLoads, NormalizeArtifact, NormalizeRow, Normalized, ChunkCommit,
         Rekey, QueueEmbed, Leave, LeaveBook, Base, RunInv
<1>4. Advances(w)
  BY ChunkReplaysBase, ChunkLoadsBase, NormalizeArtifactBase, NormalizeRowBase, NormalizedBase,
     ChunkCommitBase, RekeyBase, QueueEmbedBase DEF Cuts
<1>5. \A p \in Scanned : unit[p] # NoUnit
  BY <1>1, ChunkPages, PipelineAssumption DEF AllUnits
<1>6. Chunked
  BY <1>1, ChunkPages
<1> QED
  BY <1>1, <1>2, <1>3, <1>4, <1>5, <1>6, MissAdvances DEF StepsOf

LEMMA MissServes ==
    ASSUME Base, MissInv, NEW w \in Threads, Embeds(w) \/ Publishes(w)
    PROVE  MissInv'
<1>1. /\ at[w].step \in {"embed", "embed_batch", "queue_publish", "publish", "switch",
                         "queue_resume", "resume"}
      /\ UNCHANGED <<run, unit, crashes>>
  BY DEF Embeds, Publishes, EmbedBegins, EmbedReady, EmbedBatch, QueuePublish, PublishNoop,
         PublishBegins, PublishReady, Switch, QueueResume, StoreResume, At, Leave, LeaveBook,
         book, bounds
<1>2. Advances(w)
  BY EmbedBeginsBase, EmbedBatchBase, QueuePublishBase, PublishNoopBase, PublishBeginsBase,
     SwitchBase, QueueResumeBase, StoreResumeBase DEF Embeds, Publishes
<1>3. UNCHANGED jobs \/ Queue("publish", record) \/ Queue("resume", NoPage)
  BY DEF Embeds, Publishes, EmbedBegins, EmbedReady, EmbedBatch, QueuePublish, PublishNoop,
         PublishBegins, PublishReady, Switch, QueueResume, StoreResume
<1>4. Chunked' => Chunked
  <2>1. record \in AnyKey /\ NoPage \in AnyKey /\ {"publish", "resume"} \subseteq Stage \ {"extract"}
    BY DEF AnyKey, Stage, Base, IndexInv
  <2>2. CASE UNCHANGED jobs
    BY <2>2 DEF Chunked
  <2>3. CASE Queue("publish", record)
    BY <2>1, <2>3, QueueFollows
  <2>4. CASE Queue("resume", NoPage)
    BY <2>1, <2>4, QueueFollows
  <2> QED
    BY <1>3, <2>2, <2>3, <2>4
<1> QED
  BY <1>1, <1>2, <1>4, MissAdvances

LEMMA MissStep ==
    ASSUME MaxRetries = 0, OcrInTime, Base, MissInv, [Next]_vars
    PROVE  MissInv'
<1>1. CASE UNCHANGED vars
  BY <1>1 DEF vars, book, bounds, MissInv, Missing, HasKey, At, Chunked
<1>2. CASE Process
  <2>1. CASE Scanned = {}
    <3>1. Missing' = {}
      BY <2>1 DEF Missing
    <3>2. crashes' \leq MaxCrashes
      BY <1>2, PipelineAssumption DEF Process, Start, Stop, Crash, Migrate, OtherBook, EditSettings,
         bounds, Within, MissInv, Base, ScalarInv
    <3> QED
      BY <3>1, <3>2 DEF MissInv
  <2> QED
    BY <1>2, <2>1, MissProcess
<1>3. ASSUME NEW w \in Threads, Steps(w)
      PROVE  MissInv'
  BY <1>3, MissClaims, MissExtracts, MissReads, MissCuts, MissServes DEF Steps
<1> QED
  BY <1>1, <1>2, <1>3, StepsAndBase

LEMMA MissInit == Init => MissInv
<1> SUFFICES ASSUME Init
             PROVE  MissInv
  OBVIOUS
<1>1. Missing = {}
  BY PipelineAssumption DEF Init, Missing
<1>2. ~Chunked /\ crashes \leq MaxCrashes
  BY PipelineAssumption DEF Init, Chunked
<1> QED
  BY <1>1, <1>2 DEF MissInv

-----------------------------------------------------------------------------
(* From the first touch of the chunk stage the pages are read.             *)

Frozen == Chunked /\ ~Open({"ocr"})
Touched ==
    \/ \E w \in Threads : at[w].step \in ChunkWork
    \/ run.fp # NoFP
    \/ \E p \in Pages : \/ unit[p] # NoUnit /\ unit[p].art.norm # "no"
                        \/ file[p] # NoArt /\ file[p].norm # "no"

\* What the chunk stage works on, has normalized or committed, no OCR job will change.
FreezeInv == Touched => Frozen

\* What an OCR handler is about to write has not been normalized.
Reading(w) ==
    /\ at[w].step \in {"ocr_page", "ocr_row"} => at[w].arts[Page(w)].norm = "no"
    /\ At(w, "ocr_row") => at[w].arts[Page(w)].ocr

LEMMA FrozenGrows ==
    ASSUME Base, Frozen, Follows(jobs, jobs'),
           \A i \in DOMAIN jobs' : i \notin DOMAIN jobs => jobs'[i].stage # "ocr"
    PROVE  Frozen'
<1>1. \A i \in DOMAIN jobs : i \in DOMAIN jobs' /\ jobs'[i].stage = jobs[i].stage
                             /\ jobs'[i].state = jobs[i].state
  BY StagesLast
<1>2. Chunked'
  BY <1>1 DEF Frozen, Chunked
<1>3. ~Open({"ocr"})'
  BY <1>1 DEF Frozen, Open, OpenIn, IsOpen
<1> QED
  BY <1>2, <1>3 DEF Frozen

LEMMA FrozenEnds ==
    ASSUME Base, Frozen, NEW k \in DOMAIN jobs, IsOpen(jobs[k]), DOMAIN jobs' = DOMAIN jobs,
           \A i \in DOMAIN jobs : jobs'[i].stage = jobs[i].stage /\ (i # k => jobs'[i] = jobs[i])
    PROVE  Frozen'
<1>1. Chunked'
  BY DEF Frozen, Chunked
<1>2. ~Open({"ocr"})'
  BY DEF Frozen, Open, OpenIn, IsOpen
<1> QED
  BY <1>1, <1>2 DEF Frozen

\* A row that is inserted is the last one.
LEMMA FrozenQueue ==
    ASSUME Base, Frozen, NEW stage \in Stage \ {"extract"}, NEW key \in AnyKey,
           stage # "ocr", Queue(stage, key)
    PROVE  Frozen'
<1>1. Follows(jobs, jobs')
  BY QueueFollows
<1>2. jobs \in Seq(JobRow) /\ [stage |-> stage, key |-> key, state |-> "pending"] \in JobRow
  BY DEF Base, JobsInv, JobRow, JobState
<1>3. \A i \in DOMAIN jobs' : i \notin DOMAIN jobs => jobs'[i].stage # "ocr"
  <2>1. CASE jobs' = jobs
    BY <2>1
  <2>2. CASE jobs' = Append(jobs, [stage |-> stage, key |-> key, state |-> "pending"])
    BY <1>2, <2>2
  <2> QED
    BY <2>1, <2>2 DEF Queue, Inserted
<1> QED
  BY <1>1, <1>3, FrozenGrows

LEMMA FrozenMends ==
    ASSUME Base, Frozen, Mended(jobs, jobs')
    PROVE  Frozen'
<1>1. /\ Follows(jobs, jobs') /\ jobs \in Seq(JobRow) /\ jobs' \in Seq(JobRow)
      /\ \A i \in 1 .. Len(jobs') : i > Len(jobs) => jobs'[i].stage # "ocr"
  BY DEF Mended, Follows, Base, JobsInv
<1>2. \A i \in DOMAIN jobs' : i \notin DOMAIN jobs => jobs'[i].stage # "ocr"
  BY <1>1
<1> QED
  BY <1>1, <1>2, FrozenGrows

LEMMA FrozenStays ==
    ASSUME MaxRetries = 0, Base, MissInv, Frozen, [Next]_vars
    PROVE  Frozen'
<1>1. CASE UNCHANGED jobs
  BY <1>1 DEF Frozen, Chunked, Open
<1>2. CASE Process
  <2>1. CASE Start \/ Migrate
    BY <2>1, StartMends, MigrateMends, FrozenMends
  <2>2. CASE OtherBook
    <3>1. UNCHANGED jobs \/ Queue("publish", record')
      BY <2>2 DEF OtherBook
    <3>2. "publish" \in Stage \ {"extract"} /\ record' \in AnyKey
      BY <2>2 DEF OtherBook, Stage, AnyKey, Base, IndexInv
    <3>3. \A key \in AnyKey : key = record' /\ Queue("publish", key) => Frozen'
      BY <3>2, FrozenQueue
    <3> QED
      BY <1>1, <3>1, <3>2, <3>3
  <2>3. CASE Stop \/ Crash \/ \E s \in Settings : EditSettings(s)
    BY <1>1, <2>3 DEF Stop, Crash, EditSettings
  <2> QED
    BY <1>2, <2>1, <2>2, <2>3 DEF Process
<1>3. ASSUME NEW w \in Threads, Steps(w)
      PROVE  Frozen'
  <2>1. CASE Leaves(w)
    <3>1. IsOpen(jobs[at[w].job])
      BY <2>1, EndsRows DEF Leaves, IsOpen
    <3> QED
      BY <2>1, <3>1, EndsRows, FrozenEnds DEF Leaves
  <2>2. ASSUME NEW i \in DOMAIN jobs, Claim(w, i)
        PROVE  Frozen'
    BY <2>2, ClaimRows, FrozenEnds
  <2>3. CASE FailRun(w)
    BY <1>1, <2>3 DEF FailRun
  <2>4. CASE Extracts(w)
    <3>1. run.state # "running"
      BY DEF Frozen, Base, PhaseInv
    <3>2. CASE StartRun(w) \/ (\E p \in Pages : PageArtifact(w, p)) \/ PageRow(w) \/ FinishRun(w)
      BY <1>1, <3>2 DEF StartRun, PageArtifact, PageRow, FinishRun
    <3>3. CASE QueuePageOcr(w)
      BY <3>1, <3>3 DEF QueuePageOcr, At, Base, PhaseInv, Phase
    <3>4. CASE QueueOcr(w)
      BY <1>1, <3>4 DEF QueueOcr, MissInv, Missing, Frozen
    <3>5. CASE QueueChunk(w)
      <4>1. Fingerprint \in AnyKey /\ "chunk" \in Stage \ {"extract"}
        BY FingerprintIsTyped DEF AnyKey, Stage
      <4>2. \A key \in AnyKey : key = Fingerprint /\ Queue("chunk", key) => Frozen'
        BY <4>1, FrozenQueue
      <4> QED
        BY <3>5, <4>1, <4>2 DEF QueueChunk
    <3> QED
      BY <2>4, <3>2, <3>3, <3>4, <3>5 DEF Extracts
  <2>5. CASE Reads(w)
    <3>1. UNCHANGED jobs
      BY <2>5 DEF Reads, OcrBegins, OcrArtifact, OcrRow, OcrImpossible
    <3> QED
      BY <1>1, <3>1
  <2>6. CASE Cuts(w)
    <3>1. CASE UNCHANGED jobs
      BY <1>1, <3>1
    <3>2. CASE Rekey(w)
      <4>1. Advances(w) /\ DOMAIN jobs' = DOMAIN jobs
        BY <3>2, RekeyBase DEF Rekey
      <4> QED
        BY <4>1, FrozenGrows DEF Advances
    <3>3. CASE QueueEmbed(w)
      <4>1. at[w].fp \in AnyKey /\ "embed" \in Stage \ {"extract"}
        BY DEF AnyKey, Stage, Base, AtInv, Local
      <4>2. \A key \in AnyKey : key = at[w].fp /\ Queue("embed", key) => Frozen'
        BY <4>1, FrozenQueue
      <4> QED
        BY <3>3, <4>1, <4>2 DEF QueueEmbed
    <3> QED
      BY <2>6, <3>1, <3>2, <3>3 DEF Cuts, ChunkReplays, ChunkLoads, NormalizeArtifact, NormalizeRow,
         Normalized, ChunkCommit
  <2>7. CASE Embeds(w) \/ Publishes(w)
    <3>1. UNCHANGED jobs \/ Queue("publish", record) \/ Queue("resume", NoPage)
      BY <2>7 DEF Embeds, Publishes, EmbedBegins, EmbedReady, EmbedBatch, QueuePublish, PublishNoop,
             PublishBegins, PublishReady, Switch, QueueResume, StoreResume
    <3>2. record \in AnyKey /\ NoPage \in AnyKey /\ {"publish", "resume"} \subseteq Stage \ {"extract"}
      BY DEF AnyKey, Stage, Base, IndexInv
    <3> QED
      BY <1>1, <3>1, <3>2, FrozenQueue
  <2> QED
    BY <1>3, <2>1, <2>2, <2>3, <2>4, <2>5, <2>6, <2>7 DEF Steps
<1>4. CASE UNCHANGED vars
  BY <1>1, <1>4 DEF vars
<1> QED
  BY <1>2, <1>3, <1>4, StepsAndBase

\* Rows stay where they are, and only a chunk job's key changes.
RowsLast ==
    \A i \in DOMAIN jobs : /\ i \in DOMAIN jobs' /\ jobs'[i].stage = jobs[i].stage
                           /\ jobs[i].stage # "chunk" => jobs'[i].key = jobs[i].key

LEMMA FollowsLast ==
    ASSUME Base, Follows(jobs, jobs')
    PROVE  RowsLast
  BY DEF RowsLast, Follows, Base, JobsInv

\* A step moves one thread at most, but for a crash, which stops them all.
LEMMA StepShape ==
    ASSUME MaxRetries = 0, Base, [Next]_vars
    PROVE  /\ RowsLast
           /\ Process => /\ UNCHANGED at \/ \A v \in Threads : at'[v] = Idle
                         /\ UNCHANGED <<run, unit, file, chunks>>
                         /\ UNCHANGED settings \/ ~up
           /\ \A w \in Threads : Steps(w) => Same(w)
<1>1. Process => /\ UNCHANGED at \/ \A v \in Threads : at'[v] = Idle
                 /\ UNCHANGED <<run, unit, file, chunks>>
                 /\ UNCHANGED settings \/ ~up
  BY DEF Process, Start, Stop, Crash, Migrate, OtherBook, EditSettings, LeaveWork, book
<1>2. Process => RowsLast
  <2>1. UNCHANGED jobs => RowsLast
    BY DEF RowsLast
  <2> QED
    BY <2>1, StartBase, MigrateBase, OtherBookBase, FollowsLast DEF Process, Grows, Stop, Crash,
       EditSettings
<1>3. ASSUME NEW w \in Threads, Steps(w)
      PROVE  RowsLast /\ Same(w)
  <2>1. CASE Leaves(w)
    BY <2>1, EndsRows DEF RowsLast, Leaves, Ends
  <2>2. ASSUME NEW i \in DOMAIN jobs, Claim(w, i)
        PROVE  RowsLast /\ Same(w)
    BY <2>2, ClaimRows DEF RowsLast
  <2>3. CASE FailRun(w)
    BY <2>3 DEF FailRun, RowsLast, Same, Go, Base, AtInv
  <2>4. CASE Extracts(w)
    <3>1. Advances(w) \/ Grows
      BY <2>4, StartRunBase, PageArtifactBase, PageRowBase, QueuePageOcrBase, FinishRunBase,
         QueueOcrBase, QueueChunkBase DEF Extracts
    <3> QED
      BY <3>1, FollowsLast DEF Advances, Grows, Same
  <2>5. CASE Reads(w)
    BY <2>5, OcrBeginsBase, OcrArtifactBase, OcrRowBase, OcrImpossibleBase, FollowsLast
       DEF Reads, Advances
  <2>6. CASE Cuts(w)
    BY <2>6, ChunkReplaysBase, ChunkLoadsBase, NormalizeArtifactBase, NormalizeRowBase,
       NormalizedBase, ChunkCommitBase, RekeyBase, QueueEmbedBase, FollowsLast DEF Cuts, Advances
  <2>7. CASE Embeds(w) \/ Publishes(w)
    BY <2>7, EmbedBeginsBase, EmbedBatchBase, QueuePublishBase, PublishNoopBase, PublishBeginsBase,
       SwitchBase, QueueResumeBase, StoreResumeBase, FollowsLast DEF Embeds, Publishes, Advances
  <2> QED
    BY <1>3, <2>1, <2>2, <2>3, <2>4, <2>5, <2>6, <2>7 DEF Steps
<1>4. UNCHANGED vars => RowsLast
  BY DEF vars, RowsLast
<1> QED
  BY <1>1, <1>2, <1>3, <1>4, StepsAndBase

LEMMA ReadingStays ==
    ASSUME Base, RowsLast, NEW v \in Threads, Reading(v), at'[v] = at[v]
    PROVE  Reading(v)'
<1>1. CASE at[v].step \in {"ocr_page", "ocr_row"}
  <2>1. Row(v).stage = "ocr" /\ at[v].job \in DOMAIN jobs /\ Row(v) = jobs[at[v].job]
    BY <1>1, OcrPages DEF StepsOf
  <2>2. Page(v)' = Page(v)
    BY <2>1 DEF RowsLast, Page, Row
  <2> QED
    BY <2>2 DEF Reading, At
<1>2. CASE at[v].step \notin {"ocr_page", "ocr_row"}
  BY <1>2 DEF Reading, At
<1> QED
  BY <1>1, <1>2

LEMMA Elsewhere ==
    ASSUME NEW v \in Threads, at'[v].step \notin {"ocr_page", "ocr_row"}
    PROVE  Reading(v)'
  BY DEF Reading, At

\* An OCR job that is held is open.
LEMMA ReadingThaws ==
    ASSUME Base, NEW w \in Threads, at[w].step \in StepsOf("ocr") \ {"succeed"}
    PROVE  ~Frozen
<1>1. at[w].job \in DOMAIN jobs /\ jobs[at[w].job].stage = "ocr" /\ jobs[at[w].job].state = "running"
  BY OcrPages DEF Base, HeldInv, Held, Row
<1> QED
  BY <1>1 DEF Frozen, Open, OpenIn, IsOpen

LEMMA ReadingStep ==
    ASSUME MaxRetries = 0, Base, FreezeInv, \A v \in Threads : Reading(v), [Next]_vars
    PROVE  \A v \in Threads : Reading(v)'
<1>1. RowsLast
  BY StepShape
<1>2. CASE Process \/ UNCHANGED vars
  <2>1. UNCHANGED at \/ \A v \in Threads : at'[v] = Idle
    BY <1>2, StepShape DEF vars
  <2> QED
    BY <1>1, <2>1, ReadingStays, Elsewhere DEF Idle
<1>3. ASSUME NEW w \in Threads, Steps(w)
      PROVE  Reading(w)'
  <2>1. CASE Leaves(w)
    BY <2>1, Elsewhere DEF Leaves, Ends
  <2>2. ASSUME NEW i \in DOMAIN jobs, Claim(w, i)
        PROVE  Reading(w)'
    BY <2>2, ClaimRows, Elsewhere DEF Stage
  <2>3. CASE FailRun(w)
    <3>1. at'[w].step = "idle"
      BY <2>3 DEF FailRun, Go, Base, AtInv, Local
    <3> QED
      BY <3>1, Elsewhere
  <2>4. CASE Extracts(w)
    <3>1. Advances(w) \/ Grows
      BY <2>4, StartRunBase, PageArtifactBase, PageRowBase, QueuePageOcrBase, FinishRunBase,
         QueueOcrBase, QueueChunkBase DEF Extracts
    <3>2. at[w].step \in StepsOf("extract") \ {"succeed"} /\ "extract" \in Stage
      BY <2>4 DEF Extracts, StartRun, PageArtifact, PageRow, QueuePageOcr, FinishRun, QueueOcr,
             QueueChunk, At, StepsOf, Stage
    <3>3. CASE Advances(w)
      <4>1. Row(w).stage = "extract"
        BY <3>2, <3>3, StageOfStep DEF Base, Advances
      <4> QED
        BY <3>3, <4>1, Elsewhere DEF Advances, StepsOf
    <3> QED
      BY <1>1, <3>1, <3>3, ReadingStays DEF Grows
  <2>5. CASE OcrBegins(w)
    <3>1. Page(w) \in Pages /\ at[w].job \in DOMAIN jobs /\ Row(w).stage = "ocr" /\ UNCHANGED jobs
          /\ at[w].step = "ocr"
      BY <2>5, OcrPages DEF OcrBegins, At, StepsOf
    <3>2. ~Touched
      BY <3>1, ReadingThaws DEF FreezeInv, StepsOf
    <3>3. file[Page(w)] \in Art /\ file[Page(w)].norm = "no"
      <4>1. unit[Page(w)] \in Unit /\ file[Page(w)] = unit[Page(w)].art
        BY <2>5, <3>1 DEF OcrBegins, Verified, Base, BookInv
      <4>2. file[Page(w)] \in Art /\ file[Page(w)] # NoArt
        BY <4>1, NothingAssumption DEF Unit
      <4> QED
        BY <3>1, <3>2, <4>2 DEF Touched
    <3>4. CASE at'[w].step = "ocr_page"
      <4>1. at[w] \in Local /\ at \in [Threads -> Local]
        BY DEF Base, AtInv
      <4>2. at' = [at EXCEPT ![w] = [at[w] EXCEPT !.step = "ocr_page",
                                     !.arts = [at[w].arts EXCEPT ![Page(w)] = file[Page(w)]]]]
        BY <2>5, <3>4, <4>1 DEF OcrBegins, Go, Local
      <4>3. at'[w].arts[Page(w)] = file[Page(w)] /\ at'[w].job = at[w].job
        BY <3>1, <4>1, <4>2 DEF Local
      <4>4. Page(w)' = Page(w)
        BY <3>1, <4>3 DEF Page, Row
      <4> QED
        BY <3>3, <3>4, <4>3, <4>4 DEF Reading, At
    <3>5. at'[w].step \in {"succeed", "ocr_page"}
      BY <2>5, OcrBeginsBase
    <3> QED
      BY <3>4, <3>5, Elsewhere
  <2>6. CASE OcrArtifact(w)
    <3>1. at[w].arts[Page(w)].norm = "no" /\ at[w].arts[Page(w)] \in Art
      BY <2>6, OcrArtifactBase DEF OcrArtifact, At, Reading
    <3>2. Page(w)' = Page(w) /\ at'[w].arts[Page(w)] = [at[w].arts[Page(w)] EXCEPT !.ocr = TRUE]
      BY <2>6, OcrArtifactBase
    <3> QED
      BY <3>1, <3>2 DEF Reading, Art
  <2>7. CASE OcrRow(w) \/ OcrImpossible(w)
    <3>1. at[w] \in Local
      BY DEF Base, AtInv
    <3>2. OcrRow(w) => at'[w].step = "succeed"
      BY <3>1, OcrRowBase DEF Local
    <3>3. OcrImpossible(w) => at'[w].step = "fail"
      BY <3>1, OcrImpossibleBase DEF Local
    <3> QED
      BY <2>7, <3>2, <3>3, Elsewhere
  <2>8. CASE Cuts(w)
    <3>1. Advances(w) /\ at[w].step \in StepsOf("chunk") \ {"succeed"}
      BY <2>8, ChunkReplaysBase, ChunkLoadsBase, NormalizeArtifactBase, NormalizeRowBase,
         NormalizedBase, ChunkCommitBase, RekeyBase, QueueEmbedBase
         DEF Cuts, ChunkReplays, ChunkLoads, NormalizeArtifact, NormalizeRow, Normalized, ChunkCommit,
         Rekey, QueueEmbed, ChunkReady, At, StepsOf
    <3>2. Row(w).stage = "chunk"
      BY <3>1, ChunkPages
    <3> QED
      BY <3>1, <3>2, Elsewhere DEF Advances, StepsOf
  <2>9. CASE Embeds(w) \/ Publishes(w)
    <3>1. Advances(w)
      BY <2>9, EmbedBeginsBase, EmbedBatchBase, QueuePublishBase, PublishNoopBase, PublishBeginsBase,
         SwitchBase, QueueResumeBase, StoreResumeBase DEF Embeds, Publishes
    <3>2. at[w].step \in UNION {StepsOf(s) \ {"succeed"} : s \in {"embed", "publish", "resume"}}
      BY <2>9 DEF Embeds, Publishes, EmbedBegins, EmbedReady, EmbedBatch, QueuePublish, PublishNoop,
             PublishBegins, PublishReady, Switch, QueueResume, StoreResume, At, StepsOf
    <3>3. Row(w).stage \in {"embed", "publish", "resume"}
      BY <3>1, <3>2, StageOfStep DEF Base, Stage, Advances
    <3> QED
      BY <3>1, <3>3, Elsewhere DEF Advances, StepsOf
  <2> QED
    BY <1>3, <2>1, <2>2, <2>3, <2>4, <2>5, <2>6, <2>7, <2>8, <2>9 DEF Steps, Reads
<1>4. ASSUME NEW w \in Threads, Steps(w)
      PROVE  \A v \in Threads : Reading(v)'
  <2>1. Same(w)
    BY <1>4, StepShape
  <2> QED
    BY <1>1, <1>3, <1>4, <2>1, ReadingStays DEF Same
<1> QED
  BY <1>2, <1>4, StepsAndBase

-----------------------------------------------------------------------------
(* What touches the pages for the chunk stage.                             *)

\* What is written for a page outside the chunk stage has not been normalized.
Unnormalized ==
    /\ \A p \in Pages : unit'[p] = unit[p] \/ unit'[p].art.norm = "no"
    /\ \A p \in Pages : file'[p] = file[p] \/ file'[p].norm = "no"

LEMMA UntouchedStays ==
    ASSUME ~Touched, NEW w \in Threads, Same(w), at'[w].step \notin ChunkWork, run'.fp = run.fp,
           Unnormalized
    PROVE  ~Touched'
<1>1. \A v \in Threads : at'[v].step \notin ChunkWork
  BY DEF Touched, Same
<1>2. \A p \in Pages : /\ unit'[p] # NoUnit => unit'[p].art.norm = "no"
                       /\ file'[p] # NoArt => file'[p].norm = "no"
  BY DEF Touched, Unnormalized
<1> QED
  BY <1>1, <1>2 DEF Touched

LEMMA SameBook ==
    ASSUME UNCHANGED <<unit, file>>
    PROVE  Unnormalized
  BY DEF Unnormalized

\* The chunk handler that loads the pages or finds them committed has waited for their OCR.
LEMMA ReadyIsFrozen ==
    ASSUME Base, NEW w \in Threads, ChunkReady(w)
    PROVE  Frozen
<1>1. Chunked
  BY ChunkPages DEF ChunkReady, At, StepsOf
<1>2. ~Open({"ocr"})
  BY DEF ChunkReady, Waits
<1> QED
  BY <1>1, <1>2 DEF Frozen

LEMMA TouchedByReady ==
    ASSUME MaxRetries = 0, Base, \A v \in Threads : Reading(v), ~Touched, Touched', [Next]_vars
    PROVE  \E w \in Threads : ChunkReady(w)
<1>1. ~(Process \/ UNCHANGED vars)
  <2> SUFFICES ASSUME Process \/ UNCHANGED vars
               PROVE  FALSE
    OBVIOUS
  <2>1. /\ UNCHANGED at \/ \A v \in Threads : at'[v] = Idle
        /\ UNCHANGED <<run, unit, file>>
    BY StepShape DEF vars, book
  <2> QED
    BY <2>1 DEF Touched, Idle, ChunkWork
<1>2. PICK w \in Threads : Steps(w)
  BY <1>1, StepsAndBase
<1>3. Same(w)
  BY <1>2, StepShape
<1>4. ~Leaves(w)
  BY <1>3, UntouchedStays, SameBook DEF Leaves, Ends, LeaveBook, book, ChunkWork
<1>5. \A i \in DOMAIN jobs : ~Claim(w, i)
  BY <1>3, ClaimRows, UntouchedStays, SameBook DEF ChunkWork, Stage
<1>6. ~FailRun(w)
  <2> SUFFICES ASSUME FailRun(w)
               PROVE  FALSE
    OBVIOUS
  <2>1. at'[w].step = "idle"
    BY DEF FailRun, Go, Base, AtInv, Local
  <2>2. run'.fp = run.fp /\ UNCHANGED <<unit, file>>
    BY DEF FailRun, book, Base, RunInv
  <2> QED
    BY <1>3, <2>1, <2>2, UntouchedStays, SameBook DEF ChunkWork
<1>7. ~Extracts(w)
  <2> SUFFICES ASSUME Extracts(w)
               PROVE  FALSE
    OBVIOUS
  <2>1. Advances(w) \/ Grows
    BY StartRunBase, PageArtifactBase, PageRowBase, QueuePageOcrBase, FinishRunBase,
       QueueOcrBase, QueueChunkBase DEF Extracts
  <2>2. at[w].step \in StepsOf("extract") \ {"succeed"} /\ "extract" \in Stage
    BY DEF Extracts, StartRun, PageArtifact, PageRow, QueuePageOcr, FinishRun, QueueOcr, QueueChunk,
       At, StepsOf, Stage
  <2>3. at'[w].step \notin ChunkWork
    <3>1. CASE Advances(w)
      <4>1. Row(w).stage = "extract"
        BY <2>2, <3>1, StageOfStep DEF Base, Advances
      <4> QED
        BY <3>1, <4>1 DEF Advances, StepsOf, ChunkWork
    <3>2. CASE Grows
      BY <2>2, <3>2 DEF Grows, StepsOf, ChunkWork
    <3> QED
      BY <2>1, <3>1, <3>2
  <2>4. run'.fp = run.fp
    BY DEF Extracts, StartRun, PageArtifact, PageRow, QueuePageOcr, FinishRun, QueueOcr, QueueChunk,
       Leave, LeaveBook, Base, RunInv
  <2>5. Unnormalized
    <3>1. ASSUME NEW p \in Pages, PageArtifact(w, p)
          PROVE  Unnormalized
      BY <3>1 DEF PageArtifact, Unnormalized, Fresh, Base, BookInv
    <3>2. CASE PageRow(w)
      BY <3>2 DEF PageRow, Unnormalized, Fresh, Base, BookInv
    <3>3. CASE StartRun(w) \/ QueuePageOcr(w) \/ FinishRun(w) \/ QueueOcr(w) \/ QueueChunk(w)
      <4>1. UNCHANGED <<unit, file>>
        BY <3>3 DEF StartRun, QueuePageOcr, FinishRun, QueueOcr, QueueChunk, Leave, LeaveBook, book
      <4> QED
        BY <4>1, SameBook
    <3> QED
      BY <3>1, <3>2, <3>3 DEF Extracts
  <2> QED
    BY <1>3, <2>3, <2>4, <2>5, UntouchedStays
<1>8. ~Reads(w)
  <2> SUFFICES ASSUME Reads(w)
               PROVE  FALSE
    OBVIOUS
  <2>1. Advances(w)
    BY OcrBeginsBase, OcrArtifactBase, OcrRowBase, OcrImpossibleBase DEF Reads
  <2>2. at[w].step \in StepsOf("ocr") \ {"succeed"}
    BY DEF Reads, OcrBegins, OcrArtifact, OcrRow, OcrImpossible, At, StepsOf
  <2>3. at'[w].step \notin ChunkWork /\ Page(w) \in Pages
    BY <2>1, <2>2, OcrPages DEF Advances, StepsOf, ChunkWork
  <2>4. run'.fp = run.fp
    BY DEF Reads, OcrBegins, OcrArtifact, OcrRow, OcrImpossible, Leave, LeaveBook
  <2>5. Unnormalized
    <3>1. CASE OcrBegins(w)
      <4>1. UNCHANGED <<unit, file>>
        BY <3>1 DEF OcrBegins, Leave, LeaveBook, book
      <4> QED
        BY <4>1, SameBook
    <3>2. at[w].step \in {"ocr_page", "ocr_row"} =>
              at[w].arts[Page(w)] \in Art /\ at[w].arts[Page(w)].norm = "no"
      BY DEF Reading, Base, CarryInv, Carries
    <3>3. CASE OcrArtifact(w)
      <4>1. [at[w].arts[Page(w)] EXCEPT !.ocr = TRUE].norm = "no"
        BY <3>2, <3>3 DEF OcrArtifact, At, Art
      <4> QED
        BY <3>3, <4>1, <2>3 DEF OcrArtifact, Unnormalized, Base, BookInv
    <3>4. CASE OcrRow(w) \/ OcrImpossible(w)
      <4>1. at[w].step \in {"ocr_page", "ocr_row"}
        BY <3>4 DEF OcrRow, OcrImpossible, At
      <4>2. \A p \in Pages : unit'[p] = unit[p] \/ unit'[p].art = at[w].arts[Page(w)]
        BY <2>3, <3>4 DEF OcrRow, OcrImpossible, Base, BookInv
      <4>3. UNCHANGED file
        BY <3>4 DEF OcrRow, OcrImpossible
      <4> QED
        BY <3>2, <4>1, <4>2, <4>3 DEF Unnormalized
    <3> QED
      BY <3>1, <3>3, <3>4 DEF Reads
  <2> QED
    BY <1>3, <2>3, <2>4, <2>5, UntouchedStays
<1>9. ~(Embeds(w) \/ Publishes(w))
  <2> SUFFICES ASSUME Embeds(w) \/ Publishes(w)
               PROVE  FALSE
    OBVIOUS
  <2>1. Advances(w)
    BY EmbedBeginsBase, EmbedBatchBase, QueuePublishBase, PublishNoopBase, PublishBeginsBase,
       SwitchBase, QueueResumeBase, StoreResumeBase DEF Embeds, Publishes
  <2>2. /\ at[w].step \in UNION {StepsOf(s) \ {"succeed"} : s \in {"embed", "publish", "resume"}}
        /\ UNCHANGED <<run, unit, file>>
    BY DEF Embeds, Publishes, EmbedBegins, EmbedReady, EmbedBatch, QueuePublish, PublishNoop,
           PublishBegins, PublishReady, Switch, QueueResume, StoreResume, At, StepsOf, Leave,
           LeaveBook, book
  <2>3. Row(w).stage \in {"embed", "publish", "resume"}
    BY <2>1, <2>2, StageOfStep DEF Base, Stage, Advances
  <2>4. at'[w].step \notin ChunkWork
    BY <2>1, <2>3 DEF Advances, StepsOf, ChunkWork
  <2> QED
    BY <1>3, <2>2, <2>4, UntouchedStays, SameBook
<1>10. ~(Rekey(w) \/ QueueEmbed(w))
  <2> SUFFICES ASSUME Rekey(w) \/ QueueEmbed(w)
               PROVE  FALSE
    OBVIOUS
  <2>1. at[w] \in Local /\ UNCHANGED <<run, unit, file>>
    BY DEF Rekey, QueueEmbed, Leave, LeaveBook, book, Base, AtInv
  <2>2. Rekey(w) => at'[w].step = "queue_embed"
    BY <2>1, RekeyBase DEF Local
  <2>3. QueueEmbed(w) => at'[w].step = "succeed"
    BY <2>1, QueueEmbedBase DEF Local
  <2> QED
    BY <1>3, <2>1, <2>2, <2>3, UntouchedStays, SameBook DEF ChunkWork
<1>11. /\ \A p \in Pages : ~NormalizeArtifact(w, p)
       /\ ~NormalizeRow(w) /\ ~Normalized(w) /\ ~ChunkCommit(w)
  BY DEF Touched, ChunkWork, NormalizeArtifact, NormalizeRow, Normalized, ChunkCommit, At
<1> QED
  BY <1>2, <1>4, <1>5, <1>6, <1>7, <1>8, <1>9, <1>10, <1>11
     DEF Steps, Cuts, ChunkReplays, ChunkLoads

LEMMA FreezeStep ==
    ASSUME MaxRetries = 0, Base, MissInv, FreezeInv, \A v \in Threads : Reading(v), [Next]_vars
    PROVE  FreezeInv'
<1>1. Touched' => Frozen
  BY TouchedByReady, ReadyIsFrozen DEF FreezeInv
<1> QED
  BY <1>1, FrozenStays DEF FreezeInv

LEMMA FreezeInit == Init => FreezeInv /\ \A v \in Threads : Reading(v)
<1> SUFFICES ASSUME Init
             PROVE  FreezeInv /\ \A v \in Threads : Reading(v)
  OBVIOUS
<1>1. ~Touched
  BY DEF Init, Touched, Idle, NoArts, ChunkWork
<1>2. \A v \in Threads : at[v].step = "idle"
  BY DEF Init, Idle
<1> QED
  BY <1>1, <1>2 DEF FreezeInv, Reading, At

-----------------------------------------------------------------------------
(* The chunk stage: what it reads stays what it read, whoever else works   *)
(* on the same pages.                                                      *)

UnitInv ==
    \A p \in Pages : unit[p] # NoUnit =>
        /\ unit[p].ocr = "done" => unit[p].art.ocr
        /\ unit[p].art.norm # "no" => (unit[p].art.norm = "ocr" <=> unit[p].ocr = "done")

Recording(w, p) == At(w, "norm_row") /\ at[w].page = p
WorksOn(w, p) ==
    /\ at[w].arts[p] \in Art /\ file[p] \in Art
    /\ at[w].text[p] = Effective(p) /\ file[p].norm \in {"no", Effective(p)}
    /\ at[w].arts[p].ocr = file[p].ocr /\ unit[p].art.ocr = file[p].ocr
    /\ at[w].arts[p].norm # "no" => /\ file[p] = at[w].arts[p]
                                    /\ ~Recording(w, p) => unit[p].art = at[w].arts[p]

\* A handler in the chunk stage has the files' texts, and of those that it or another has
\* normalized the same normal form; what it commits is named after what it has.
Works(w) ==
    at[w].step \in ChunkWork =>
        /\ \A p \in Pages : WorksOn(w, p)
        /\ At(w, "norm_row") => at[w].arts[at[w].page].norm # "no"
        /\ At(w, "chunk_commit") => /\ at[w].fp = [arts |-> at[w].arts, cut |-> settings]
                                    /\ \A p \in Pages : at[w].arts[p].norm # "no"

\* What has been committed is what the units are now.
Committed ==
    run.fp # NoFP =>
        /\ chunks \in Chunks /\ chunks.cut = run.fp.cut
        /\ \A p \in Pages : /\ unit[p] # NoUnit /\ unit[p].art.norm # "no"
                            /\ chunks.text[p] = unit[p].art.norm /\ run.fp.arts[p] = unit[p].art

CutInv == UnitInv /\ (\A w \in Threads : Works(w)) /\ Committed

LEMMA ArtIsPayload ==
    ASSUME NEW a \in Art, NEW b \in Art, a.ocr = b.ocr, a.norm = b.norm
    PROVE  a = b
  BY DEF Art

LEMMA WorksStays ==
    ASSUME NEW v \in Threads, Works(v), UNCHANGED <<unit, file, settings>>, at'[v] = at[v]
    PROVE  Works(v)'
  BY DEF Works, WorksOn, Recording, At, Effective

LEMMA CutFrame ==
    ASSUME CutInv, UNCHANGED <<unit, file, chunks>>, run'.fp = run.fp,
           \A v \in Threads : at'[v].step \in ChunkWork => at'[v] = at[v] /\ UNCHANGED settings
    PROVE  CutInv'
<1>1. \A v \in Threads : at'[v].step \notin ChunkWork => Works(v)'
  BY DEF Works
<1>2. \A v \in Threads : Works(v)'
  BY <1>1, WorksStays DEF CutInv
<1>3. UnitInv' /\ Committed'
  BY DEF CutInv, UnitInv, Committed
<1> QED
  BY <1>2, <1>3 DEF CutInv

LEMMA CutLoads ==
    ASSUME Base, CutInv, NEW w \in Threads, ChunkLoads(w)
    PROVE  CutInv'
<1> DEFINE l == at'[w]
<1>1. /\ Same(w) /\ file \in [Pages -> Art] /\ l.arts = file
      /\ l.step = (IF \E p \in Pages : file[p].norm = "no" THEN "normalize" ELSE "chunk_commit")
      /\ l.text = [p \in Pages |-> Effective(p)] /\ l.fp = Fingerprint
  BY ChunkLoadsBase DEF Advances
<1>2. UNCHANGED <<unit, file, settings, run, chunks>> /\ \A p \in Pages : Verified(p)
  BY DEF ChunkLoads, Leave, LeaveBook, book
<1>3. ASSUME NEW p \in Pages
      PROVE  WorksOn(w, p)'
  <2>1. unit[p] # NoUnit /\ file[p] = unit[p].art /\ unit[p] \in Unit /\ file[p] \in Art
    BY <1>1, <1>2 DEF Verified, Base, BookInv
  <2>2. file[p].norm \in {"no", Effective(p)}
    BY <2>1 DEF CutInv, UnitInv, Effective, Art, Text
  <2>3. Effective(p)' = Effective(p)
    BY <1>2 DEF Effective
  <2>4. l.arts[p] = file[p] /\ l.text[p] = Effective(p)
    BY <1>1
  <2> HIDE DEF l
  <2> QED
    BY <1>2, <2>1, <2>2, <2>3, <2>4 DEF WorksOn, l
<1>4. At(w, "chunk_commit")' => /\ l.fp = [arts |-> l.arts, cut |-> settings']
                               /\ \A p \in Pages : l.arts[p].norm # "no"
  <2> SUFFICES ASSUME At(w, "chunk_commit")'
               PROVE  /\ l.fp = [arts |-> l.arts, cut |-> settings']
                      /\ \A p \in Pages : l.arts[p].norm # "no"
    OBVIOUS
  <2>1. \A p \in Pages : file[p].norm # "no"
    BY <1>1 DEF At
  <2>2. [p \in Pages |-> IF unit[p] = NoUnit THEN NoArt ELSE unit[p].art] = file
    BY <1>1, <1>2 DEF Verified
  <2> QED
    BY <1>1, <1>2, <2>1, <2>2 DEF Fingerprint
<1>5. ~At(w, "norm_row")'
  BY <1>1 DEF At
<1>6. Works(w)'
  BY <1>3, <1>4, <1>5 DEF Works
<1>7. \A v \in Threads : Works(v)'
  BY <1>1, <1>2, <1>6, WorksStays DEF Same, CutInv
<1>8. UnitInv' /\ Committed'
  BY <1>2 DEF CutInv, UnitInv, Committed
<1> QED
  BY <1>7, <1>8 DEF CutInv

LEMMA CutNormalizes ==
    ASSUME Base, CutInv, NEW w \in Threads, NEW p \in Pages, NormalizeArtifact(w, p)
    PROVE  CutInv'
<1> DEFINE art == [at[w].arts[p] EXCEPT !.norm = at[w].text[p]]
<1>1. /\ Same(w) /\ at'[w].step = "norm_row" /\ at'[w].page = p
      /\ at'[w].arts = [at[w].arts EXCEPT ![p] = art] /\ at'[w].text = at[w].text
      /\ at[w].arts \in [Pages -> Art] /\ at[w].text \in [Pages -> Text] /\ art \in Art
  BY NormalizeArtifactBase DEF Advances
<1>2. /\ UNCHANGED <<unit, settings, run, chunks>> /\ at[w].step = "normalize"
      /\ at[w].arts[p].norm = "no" /\ file' = [file EXCEPT ![p] = art]
      /\ file \in [Pages -> Art \cup {NoArt}]
  BY DEF NormalizeArtifact, At, Base, BookInv
<1>3. /\ \A q \in Pages : WorksOn(w, q)
      /\ \A v \in Threads, q \in Pages : at[v].step \in ChunkWork => WorksOn(v, q)
  BY <1>2 DEF CutInv, Works, ChunkWork
<1>4. /\ art.ocr = file[p].ocr /\ art.norm = Effective(p) /\ art.norm \in Text /\ file'[p] = art
      /\ \A q \in Pages : q # p => file'[q] = file[q]
  <2>1. art.ocr = at[w].arts[p].ocr /\ art.norm = at[w].text[p] /\ art.norm \in Text
    BY <1>1 DEF Art
  <2> QED
    BY <1>2, <1>3, <2>1 DEF WorksOn
<1> HIDE DEF art
<1>5. \A q \in Pages : Effective(q)' = Effective(q)
  BY <1>2, <1>4 DEF Effective
<1>6. "no" \notin Text
  BY DEF Text
<1>7. ASSUME NEW q \in Pages
      PROVE  WorksOn(w, q)'
  <2>1. CASE q = p
    <3>1. at'[w].arts[p] = art
      BY <1>1
    <3>2. unit[p].art.ocr = file[p].ocr /\ at[w].text[p] = Effective(p)
      BY <1>3 DEF WorksOn
    <3> QED
      BY <1>1, <1>2, <1>4, <1>5, <2>1, <3>1, <3>2 DEF WorksOn, Recording, At
  <2>2. CASE q # p
    <3>1. at'[w].arts[q] = at[w].arts[q]
      BY <1>1, <2>2
    <3>2. WorksOn(w, q) /\ ~Recording(w, q)
      BY <1>2, <1>3 DEF Recording, At
    <3> QED
      BY <1>1, <1>2, <1>4, <1>5, <2>2, <3>1, <3>2 DEF WorksOn
  <2> QED
    BY <2>1, <2>2
<1>8. ASSUME NEW v \in Threads, v # w, at[v].step \in ChunkWork, NEW q \in Pages
      PROVE  WorksOn(v, q)'
  <2>1. at'[v] = at[v] /\ WorksOn(v, q) /\ (Recording(v, q)' <=> Recording(v, q))
    BY <1>1, <1>3, <1>8 DEF Same, Recording, At
  <2>2. CASE q # p
    BY <1>2, <1>4, <1>5, <2>1, <2>2 DEF WorksOn
  <2>3. CASE q = p
    <3>1. at[v].arts[p].norm # "no" => art = file[p]
      <4> SUFFICES ASSUME at[v].arts[p].norm # "no"
                   PROVE  art = file[p]
        OBVIOUS
      <4>1. file[p] \in Art /\ file[p].norm = Effective(p)
        BY <2>1, <2>3 DEF WorksOn
      <4> QED
        BY <1>1, <1>4, <4>1, ArtIsPayload
    <3> QED
      BY <1>1, <1>2, <1>4, <1>5, <2>1, <2>3, <3>1 DEF WorksOn
  <2> QED
    BY <2>2, <2>3
<1>9. Works(w)'
  <2>1. at'[w].arts[at'[w].page].norm # "no"
    BY <1>1, <1>4, <1>6
  <2> QED
    BY <1>1, <1>7, <2>1 DEF Works, At
<1>10. \A v \in Threads : v # w => Works(v)'
  <2> SUFFICES ASSUME NEW v \in Threads, v # w, at[v].step \in ChunkWork
               PROVE  Works(v)'
    BY <1>1 DEF Works, Same
  <2> QED
    BY <1>1, <1>2, <1>8 DEF CutInv, Works, Same, At
<1>11. UnitInv' /\ Committed'
  BY <1>2 DEF CutInv, UnitInv, Committed
<1> QED
  BY <1>9, <1>10, <1>11 DEF CutInv

LEMMA CutRecords ==
    ASSUME Base, CutInv, NEW w \in Threads, NormalizeRow(w)
    PROVE  CutInv'
<1> DEFINE p == at[w].page
           art == at[w].arts[p]
<1>1. /\ Same(w) /\ at'[w] = [at[w] EXCEPT !.step = "normalize"] /\ p \in Pages /\ art \in Art
      /\ at[w] \in Local
  BY NormalizeRowBase DEF Advances, Base, AtInv
<1>2. /\ UNCHANGED <<file, settings, run, chunks>> /\ at[w].step = "norm_row"
      /\ unit' = [unit EXCEPT ![p].art = art] /\ unit \in [Pages -> Unit]
  BY ChunkPages DEF NormalizeRow, At, StepsOf
<1>3. /\ WorksOn(w, p) /\ art.norm # "no"
      /\ \A v \in Threads, q \in Pages : at[v].step \in ChunkWork => WorksOn(v, q)
  BY <1>1, <1>2 DEF CutInv, Works, ChunkWork, At
<1>4. /\ file[p] = art /\ art.norm = Effective(p) /\ art.ocr = file[p].ocr
      /\ unit[p].art.ocr = file[p].ocr /\ unit[p].art \in Art /\ unit[p] # NoUnit
  BY <1>1, <1>2, <1>3, NothingAssumption DEF WorksOn, Unit
<1>5. /\ unit'[p].ocr = unit[p].ocr /\ unit'[p].art = art /\ unit'[p] \in Unit
      /\ \A q \in Pages : q # p => unit'[q] = unit[q]
  BY <1>1, <1>2 DEF Unit
<1> HIDE DEF art
<1>6. \A q \in Pages : Effective(q)' = Effective(q)
  BY <1>2, <1>5 DEF Effective
<1>7. ASSUME NEW v \in Threads, at[v].step \in ChunkWork, NEW q \in Pages
      PROVE  WorksOn(v, q)'
  <2>1. at'[v].arts = at[v].arts /\ at'[v].text = at[v].text
    BY <1>1 DEF Same, Local
  <2>2. WorksOn(v, q) /\ (v # w => (Recording(v, q)' <=> Recording(v, q)))
    BY <1>1, <1>3, <1>7 DEF Same, Recording, At
  <2>3. CASE q = p
    <3>1. at[v].arts[p].norm # "no" => art = at[v].arts[p]
      BY <1>4, <2>2, <2>3 DEF WorksOn
    <3> QED
      BY <1>2, <1>4, <1>5, <1>6, <2>1, <2>2, <2>3, <3>1 DEF WorksOn
  <2>4. CASE q # p
    <3>1. v = w => ~Recording(v, q)
      BY <2>4 DEF Recording
    <3> QED
      BY <1>2, <1>5, <1>6, <2>1, <2>2, <2>4, <3>1 DEF WorksOn
  <2> QED
    BY <2>3, <2>4
<1>8. Works(w)'
  <2>1. at'[w].step = "normalize"
    BY <1>1 DEF Local
  <2> QED
    BY <1>2, <1>7, <2>1 DEF Works, At, ChunkWork
<1>9. \A v \in Threads : v # w => Works(v)'
  <2> SUFFICES ASSUME NEW v \in Threads, v # w, at[v].step \in ChunkWork
               PROVE  Works(v)'
    BY <1>1 DEF Works, Same
  <2> QED
    BY <1>1, <1>2, <1>7 DEF CutInv, Works, Same, At
<1>10. UnitInv'
  <2>1. /\ unit[p].ocr = "done" => art.ocr
        /\ art.norm = "ocr" <=> unit[p].ocr = "done"
    BY <1>1, <1>3, <1>4 DEF CutInv, UnitInv, Effective
  <2> QED
    BY <1>5, <2>1 DEF CutInv, UnitInv
<1>11. Committed'
  <2> SUFFICES ASSUME run.fp # NoFP
               PROVE  unit' = unit
    BY <1>2 DEF CutInv, Committed
  <2>1. unit[p].art.norm = art.norm
    BY <1>1, <1>4 DEF CutInv, Committed, UnitInv, Effective, Art, Text
  <2>2. unit[p].art = art
    BY <1>1, <1>4, <2>1, ArtIsPayload
  <2> QED
    BY <1>1, <1>2, <2>2 DEF Unit
<1> QED
  BY <1>8, <1>9, <1>10, <1>11 DEF CutInv

LEMMA CutNormalized ==
    ASSUME Base, CutInv, NEW w \in Threads, Normalized(w)
    PROVE  CutInv'
<1>1. /\ Same(w) /\ at'[w] = [at[w] EXCEPT !.step = "chunk_commit", !.fp = Fingerprint]
      /\ at[w] \in Local
  BY NormalizedBase DEF Advances, Base, AtInv
<1>2. /\ UNCHANGED <<unit, file, settings, run, chunks>> /\ at[w].step = "normalize"
      /\ \A p \in Pages : at[w].arts[p].norm # "no"
  BY DEF Normalized, At, Leave, LeaveBook, book
<1>3. /\ at'[w].step = "chunk_commit" /\ at'[w].fp = Fingerprint /\ at'[w].arts = at[w].arts
      /\ at'[w].text = at[w].text
  BY <1>1 DEF Local
<1>4. \A p \in Pages : WorksOn(w, p) /\ ~Recording(w, p) /\ unit[p] # NoUnit
  BY <1>2, ChunkPages DEF CutInv, Works, ChunkWork, Recording, At, StepsOf, AllUnits
<1>5. \A p \in Pages : Effective(p)' = Effective(p) /\ ~Recording(w, p)'
  BY <1>2, <1>3 DEF Effective, Recording, At
<1>6. \A p \in Pages : WorksOn(w, p)'
  BY <1>2, <1>3, <1>4, <1>5 DEF WorksOn
<1>7. Fingerprint = [arts |-> at[w].arts, cut |-> settings]
  <2>1. at[w].arts \in [Pages -> Art]
    BY <1>2 DEF Base, CarryInv, Carries, ChunkWork
  <2>2. at[w].arts = [p \in Pages |-> IF unit[p] = NoUnit THEN NoArt ELSE unit[p].art]
    BY <1>2, <1>4, <2>1 DEF WorksOn
  <2> QED
    BY <2>2 DEF Fingerprint
<1>8. Works(w)'
  BY <1>2, <1>3, <1>6, <1>7 DEF Works, At
<1>9. \A v \in Threads : Works(v)'
  BY <1>1, <1>2, <1>8, WorksStays DEF Same, CutInv
<1>10. UnitInv' /\ Committed'
  BY <1>2 DEF CutInv, UnitInv, Committed
<1> QED
  BY <1>9, <1>10 DEF CutInv

\* The commit names what it commits, as it is in the units.
LEMMA CutCommits ==
    ASSUME Base, CutInv, NEW w \in Threads, ChunkCommit(w)
    PROVE  /\ CutInv' /\ at[w].fp \in FP /\ run'.fp = at[w].fp
           /\ chunks' = [text |-> [p \in Pages |-> unit[p].art.norm], cut |-> settings]
<1>1. /\ Same(w) /\ at'[w] = [at[w] EXCEPT !.step = "rekey"] /\ at[w].arts \in [Pages -> Art]
      /\ run' = [run EXCEPT !.fp = at[w].fp] /\ at[w] \in Local
  BY ChunkCommitBase DEF Advances, Base, AtInv
<1>2. /\ UNCHANGED <<unit, file, settings>> /\ at[w].step = "chunk_commit"
      /\ chunks' = [text |-> [p \in Pages |-> at[w].arts[p].norm], cut |-> settings]
  BY DEF ChunkCommit, At, book
<1>3. /\ \A p \in Pages : at[w].arts[p].norm # "no" /\ unit[p].art = at[w].arts[p]
      /\ at[w].fp = [arts |-> at[w].arts, cut |-> settings]
  BY <1>2 DEF CutInv, Works, WorksOn, ChunkWork, Recording, At
<1>4. at[w].fp \in FP
  BY <1>1, <1>3 DEF FP, Base, ScalarInv
<1>5. run'.fp = at[w].fp
  BY <1>1 DEF Base, RunInv
<1>6. \A p \in Pages : unit[p] # NoUnit
  BY <1>2, ChunkPages DEF AllUnits, StepsOf
<1>7. Committed'
  <2>1. chunks' \in Chunks
    BY <1>1, <1>2 DEF Chunks, Art, Base, ScalarInv
  <2> QED
    BY <1>2, <1>3, <1>5, <1>6, <2>1 DEF Committed
<1>8. Works(w)'
  BY <1>1 DEF Works, ChunkWork, Local
<1>9. \A v \in Threads : Works(v)'
  BY <1>1, <1>2, <1>8, WorksStays DEF Same, CutInv
<1>10. UnitInv'
  BY <1>2 DEF CutInv, UnitInv
<1>11. chunks' = [text |-> [p \in Pages |-> unit[p].art.norm], cut |-> settings]
  BY <1>2, <1>3
<1> QED
  BY <1>4, <1>5, <1>7, <1>9, <1>10, <1>11 DEF CutInv

\* While pages are being read, the chunk stage has nothing yet.
LEMMA CutThawed ==
    ASSUME MaxRetries = 0, Base, FreezeInv, \A v \in Threads : Reading(v), CutInv, ~Frozen, [Next]_vars
    PROVE  CutInv'
<1>1. ~Touched /\ ~Touched'
  BY TouchedByReady, ReadyIsFrozen DEF FreezeInv
<1>2. /\ \A v \in Threads : Works(v)'
      /\ Committed'
  BY <1>1 DEF Touched, Works, Committed
<1>3. \A p \in Pages : unit'[p] = unit[p] \/ unit'[p] = NoUnit \/ (unit'[p].ocr = "done" => unit'[p].art.ocr)
  <2>1. CASE UNCHANGED unit
    BY <2>1
  <2>2. ASSUME NEW w \in Threads, PageRow(w)
        PROVE  \A p \in Pages : unit'[p] = unit[p] \/ (unit'[p].ocr = "done" => unit'[p].art.ocr)
    BY <2>2 DEF PageRow, Base, BookInv
  <2>3. ASSUME NEW w \in Threads, OcrRow(w)
        PROVE  \A p \in Pages : unit'[p] = unit[p] \/ (unit'[p].ocr = "done" => unit'[p].art.ocr)
    <3>1. at[w].arts[Page(w)].ocr
      BY <2>3 DEF OcrRow, Reading
    <3> QED
      BY <2>3, <3>1 DEF OcrRow, Base, BookInv
  <2>4. ASSUME NEW w \in Threads, OcrImpossible(w)
        PROVE  \A p \in Pages : unit'[p] = unit[p] \/ (unit'[p].ocr = "done" => unit'[p].art.ocr)
    BY <2>4 DEF OcrImpossible, Base, BookInv
  <2>5. \A w \in Threads : ~NormalizeRow(w)
    BY <1>1 DEF Touched, NormalizeRow, At, ChunkWork
  <2>6. Process \/ UNCHANGED vars => UNCHANGED unit
    BY StepShape DEF vars, book
  <2>7. ASSUME NEW w \in Threads, Steps(w)
        PROVE  UNCHANGED unit \/ PageRow(w) \/ OcrRow(w) \/ OcrImpossible(w)
    <3>1. Leaves(w) \/ FailRun(w) \/ (\E i \in DOMAIN jobs : Claim(w, i)) => UNCHANGED unit
      BY DEF Leaves, LeaveBook, FailRun, Claim, book
    <3>2. Extracts(w) => UNCHANGED unit \/ PageRow(w)
      BY DEF Extracts, StartRun, PageArtifact, QueuePageOcr, FinishRun, QueueOcr, QueueChunk, Leave,
             LeaveBook, book
    <3>3. Reads(w) => UNCHANGED unit \/ OcrRow(w) \/ OcrImpossible(w)
      BY DEF Reads, OcrBegins, OcrArtifact, Leave, LeaveBook, book
    <3>4. Cuts(w) => UNCHANGED unit
      BY <2>5 DEF Cuts, ChunkReplays, ChunkLoads, NormalizeArtifact, Normalized, ChunkCommit, Rekey,
         QueueEmbed, Leave, LeaveBook, book
    <3>5. Embeds(w) \/ Publishes(w) => UNCHANGED unit
      BY DEF Embeds, Publishes, EmbedBegins, EmbedBatch, QueuePublish, PublishNoop, PublishBegins,
             Switch, QueueResume, StoreResume, Leave, LeaveBook, book
    <3> QED
      BY <2>7, <3>1, <3>2, <3>3, <3>4, <3>5 DEF Steps
  <2> QED
    BY <2>1, <2>2, <2>3, <2>4, <2>6, <2>7, StepsAndBase
<1>4. UnitInv'
  <2>1. \A p \in Pages : unit'[p] # NoUnit => unit'[p].art.norm = "no"
    BY <1>1 DEF Touched
  <2> QED
    BY <1>3, <2>1 DEF CutInv, UnitInv
<1> QED
  BY <1>2, <1>4 DEF CutInv

\* Later nothing but the chunk stage itself touches its pages.
LEMMA CutFrozen ==
    ASSUME MaxRetries = 0, Base, CutInv, Frozen, [Next]_vars
    PROVE  CutInv'
<1>1. run.state # "running"
  BY DEF Frozen, Base, PhaseInv
<1>2. CASE Process \/ UNCHANGED vars
  <2>1. /\ UNCHANGED <<run, unit, file, chunks>>
        /\ UNCHANGED at \/ \A v \in Threads : at'[v] = Idle
        /\ UNCHANGED settings \/ ~up
    BY <1>2, StepShape DEF vars, book
  <2>2. ~up => \A v \in Threads : at[v].step \notin ChunkWork
    BY DEF Base, DownInv, At, ChunkWork
  <2>3. \A v \in Threads : at'[v].step \in ChunkWork => at'[v] = at[v] /\ UNCHANGED settings
    BY <2>1, <2>2 DEF Idle, ChunkWork
  <2> QED
    BY <2>1, <2>3, CutFrame
<1>3. ASSUME NEW w \in Threads, Steps(w)
      PROVE  CutInv'
  <2>1. Same(w)
    BY <1>3, StepShape
  <2>2. CASE at'[w].step \notin ChunkWork /\ UNCHANGED <<unit, file, chunks, settings>> /\ run'.fp = run.fp
    BY <2>1, <2>2, CutFrame DEF Same
  <2>3. CASE Leaves(w)
    BY <2>2, <2>3 DEF Leaves, Ends, LeaveBook, book, ChunkWork
  <2>4. ASSUME NEW i \in DOMAIN jobs, Claim(w, i)
        PROVE  CutInv'
    BY <2>2, <2>4, ClaimRows DEF ChunkWork, Stage
  <2>5. CASE FailRun(w)
    <3>1. at'[w].step = "idle"
      BY <2>5 DEF FailRun, Go, Base, AtInv, Local
    <3>2. run'.fp = run.fp /\ UNCHANGED <<unit, file, chunks, settings>>
      BY <2>5 DEF FailRun, book, Base, RunInv
    <3> QED
      BY <2>2, <3>1, <3>2 DEF ChunkWork
  <2>6. CASE Extracts(w)
    <3>1. (\A p \in Pages : ~PageArtifact(w, p)) /\ ~PageRow(w)
      BY <1>1 DEF PageArtifact, PageRow, At, Base, PhaseInv, Phase
    <3>2. run'.fp = run.fp /\ UNCHANGED <<unit, file, chunks, settings>>
      BY <2>6, <3>1 DEF Extracts, StartRun, QueuePageOcr, FinishRun, QueueOcr, QueueChunk,
         Leave, LeaveBook, Base, RunInv, book
    <3>3. Advances(w) \/ Grows
      BY <2>6, StartRunBase, PageArtifactBase, PageRowBase, QueuePageOcrBase, FinishRunBase,
         QueueOcrBase, QueueChunkBase DEF Extracts
    <3>4. at[w].step \in StepsOf("extract") \ {"succeed"} /\ "extract" \in Stage
      BY <2>6 DEF Extracts, StartRun, PageArtifact, PageRow, QueuePageOcr, FinishRun, QueueOcr,
         QueueChunk, At, StepsOf, Stage
    <3>5. CASE Advances(w)
      <4>1. Row(w).stage = "extract"
        BY <3>4, <3>5, StageOfStep DEF Base, Advances
      <4>2. at'[w].step \notin ChunkWork
        BY <3>5, <4>1 DEF Advances, StepsOf, ChunkWork
      <4> QED
        BY <2>2, <3>2, <4>2
    <3>6. CASE Grows
      <4>1. at'[w].step \notin ChunkWork
        BY <3>4, <3>6 DEF Grows, StepsOf, ChunkWork
      <4> QED
        BY <2>2, <3>2, <4>1
    <3> QED
      BY <3>3, <3>5, <3>6
  <2>7. ~Reads(w)
    <3>1. Reads(w) => at[w].step \in StepsOf("ocr") \ {"succeed"}
      BY DEF Reads, OcrBegins, OcrArtifact, OcrRow, OcrImpossible, At, StepsOf
    <3> QED
      BY <3>1, ReadingThaws
  <2>8. CASE ChunkReplays(w) \/ Rekey(w) \/ QueueEmbed(w)
    <3>1. at[w] \in Local /\ UNCHANGED <<unit, file, chunks, settings, run>>
      BY <2>8 DEF Base, AtInv, ChunkReplays, Rekey, QueueEmbed, Leave, LeaveBook, book
    <3>2. ChunkReplays(w) => at'[w].step = "rekey"
      BY <3>1, ChunkReplaysBase DEF Local
    <3>3. Rekey(w) => at'[w].step = "queue_embed"
      BY <3>1, RekeyBase DEF Local
    <3>4. QueueEmbed(w) => at'[w].step = "succeed"
      BY <3>1, QueueEmbedBase DEF Local
    <3> QED
      BY <2>2, <2>8, <3>1, <3>2, <3>3, <3>4 DEF ChunkWork
  <2>9. CASE Embeds(w) \/ Publishes(w)
    <3>1. Advances(w)
      BY <2>9, EmbedBeginsBase, EmbedBatchBase, QueuePublishBase, PublishNoopBase, PublishBeginsBase,
         SwitchBase, QueueResumeBase, StoreResumeBase DEF Embeds, Publishes
    <3>2. /\ at[w].step \in UNION {StepsOf(s) \ {"succeed"} : s \in {"embed", "publish", "resume"}}
          /\ UNCHANGED <<run, unit, file, chunks, settings>>
      BY <2>9 DEF Embeds, Publishes, EmbedBegins, EmbedReady, EmbedBatch, QueuePublish, PublishNoop,
             PublishBegins, PublishReady, Switch, QueueResume, StoreResume, At, StepsOf, Leave,
             LeaveBook, book
    <3>3. Row(w).stage \in {"embed", "publish", "resume"}
      BY <3>1, <3>2, StageOfStep DEF Base, Stage, Advances
    <3>4. at'[w].step \notin ChunkWork
      BY <3>1, <3>3 DEF Advances, StepsOf, ChunkWork
    <3> QED
      BY <2>2, <3>2, <3>4
  <2> QED
    BY <1>3, <2>3, <2>4, <2>5, <2>6, <2>7, <2>8, <2>9, CutLoads, CutNormalizes, CutRecords,
       CutNormalized, CutCommits DEF Steps, Cuts
<1> QED
  BY <1>2, <1>3, StepsAndBase

\* The third part of the invariant, with what it rests on.
ReadInv == MissInv /\ FreezeInv /\ (\A w \in Threads : Reading(w)) /\ CutInv

LEMMA ReadStep ==
    ASSUME MaxRetries = 0, OcrInTime, Base, ReadInv, [Next]_vars
    PROVE  ReadInv'
  BY MissStep, FreezeStep, ReadingStep, CutThawed, CutFrozen DEF ReadInv

LEMMA ReadInit == Init => ReadInv
<1> SUFFICES ASSUME Init
             PROVE  CutInv
  BY MissInit, FreezeInit DEF ReadInv
<1> QED
  BY DEF Init, CutInv, UnitInv, Works, ChunkWork, Committed, Idle

\* The recorded fingerprint names the artifacts and the settings the chunk rows were made
\* from, however many chunk jobs work side by side and wherever they fail or are killed.
THEOREM FingerprintNamesChunks ==
    ASSUME MaxRetries = 0, OcrInTime
    PROVE  Spec => []FingerprintIsOfChunks
<1>1. Init => Base /\ ReadInv
  BY InitBase, ReadInit
<1>2. Base /\ ReadInv /\ [Next]_vars => (Base /\ ReadInv)'
  BY StepsAndBase, ReadStep
<1>3. Base /\ ReadInv => FingerprintIsOfChunks
  BY DEF ReadInv, CutInv, Committed, FingerprintIsOfChunks
<1> QED
  BY <1>1, <1>2, <1>3, PTL DEF Spec

-----------------------------------------------------------------------------
(* What is served.                                                         *)

\* Nothing is embedded or published before there is a recorded fingerprint.
Serving ==
    \/ HasStage("publish") \/ pub # NoPub
    \/ \E w \in Threads : at[w].step \in {"embed_batch", "queue_publish", "switch"}
ServingInv == Serving => run.fp # NoFP

\* A publisher has the chunk rows as they are, and so has the index.
ServedInv ==
    /\ run.fp # NoFP => run.fp.cut = settings
    /\ \A w \in Threads : At(w, "switch") => at[w].chunks = chunks
    /\ pub # NoPub => pub.chunks = chunks

\* How a handler comes to the steps that serve.
LEMMA Entries ==
    ASSUME MaxRetries = 0, Base, [Next]_vars, NEW v \in Threads, at'[v] # at[v]
    PROVE  /\ at'[v].step = "embed_batch" => EmbedBegins(v)
           /\ at'[v].step = "queue_publish" => EmbedBatch(v)
           /\ at'[v].step = "switch" => PublishBegins(v)
<1> DEFINE Enters == at'[v].step \in {"embed_batch", "queue_publish", "switch"}
<1>1. CASE Process \/ UNCHANGED vars
  <2>1. UNCHANGED at \/ \A w \in Threads : at'[w] = Idle
    BY <1>1, StepShape DEF vars
  <2> QED
    BY <2>1 DEF Idle
<1>2. ASSUME NEW w \in Threads, Steps(w)
      PROVE  ~Enters \/ (v = w /\ (Embeds(v) \/ Publishes(v)))
  <2>1. v = w
    BY <1>2, StepShape DEF Same
  <2>2. Leaves(w) => ~Enters
    BY <2>1 DEF Leaves, Ends
  <2>3. \A i \in DOMAIN jobs : Claim(w, i) => ~Enters
    BY <2>1, ClaimRows DEF Stage
  <2>4. FailRun(w) => ~Enters
    BY <2>1 DEF FailRun, Go, Base, AtInv, Local
  <2>5. ASSUME Extracts(w)
        PROVE  ~Enters
    <3>1. Advances(w)
      BY <1>2, <2>1, <2>5, StartRunBase, PageArtifactBase, PageRowBase, QueuePageOcrBase, FinishRunBase,
         QueueOcrBase, QueueChunkBase DEF Extracts, Grows
    <3>2. at[w].step \in StepsOf("extract") \ {"succeed"} /\ "extract" \in Stage
      BY <2>5 DEF Extracts, StartRun, PageArtifact, PageRow, QueuePageOcr, FinishRun, QueueOcr,
         QueueChunk, At, StepsOf, Stage
    <3>3. Row(w).stage = "extract"
      BY <3>1, <3>2, StageOfStep DEF Base, Advances
    <3> QED
      BY <2>1, <3>1, <3>3 DEF Advances, StepsOf
  <2>6. ASSUME Reads(w)
        PROVE  ~Enters
    <3>1. Advances(w)
      BY <2>6, OcrBeginsBase, OcrArtifactBase, OcrRowBase, OcrImpossibleBase DEF Reads
    <3>2. at[w].step \in StepsOf("ocr") \ {"succeed"}
      BY <2>6 DEF Reads, OcrBegins, OcrArtifact, OcrRow, OcrImpossible, At, StepsOf
    <3> QED
      BY <2>1, <3>1, <3>2, OcrPages DEF Advances, StepsOf
  <2>7. ASSUME Cuts(w)
        PROVE  ~Enters
    <3>1. Advances(w) /\ at[w].step \in StepsOf("chunk") \ {"succeed"}
      BY <2>7, ChunkReplaysBase, ChunkLoadsBase, NormalizeArtifactBase, NormalizeRowBase,
         NormalizedBase, ChunkCommitBase, RekeyBase, QueueEmbedBase
         DEF Cuts, ChunkReplays, ChunkLoads, NormalizeArtifact, NormalizeRow, Normalized, ChunkCommit,
         Rekey, QueueEmbed, ChunkReady, At, StepsOf
    <3> QED
      BY <2>1, <3>1, ChunkPages DEF Advances, StepsOf
  <2> QED
    BY <1>2, <2>1, <2>2, <2>3, <2>4, <2>5, <2>6, <2>7 DEF Steps
<1>3. at[v] \in Local
  BY DEF Base, AtInv
<1>4. EmbedBegins(v) => at'[v].step = "embed_batch"
  BY <1>3, EmbedBeginsBase DEF Local
<1>5. EmbedBatch(v) => at'[v].step = "queue_publish"
  BY <1>3, EmbedBatchBase DEF Local
<1>6. QueuePublish(v) \/ PublishNoop(v) \/ QueueResume(v) \/ StoreResume(v) => at'[v].step = "succeed"
  BY <1>3, QueuePublishBase, PublishNoopBase, QueueResumeBase, StoreResumeBase DEF Local
<1>7. PublishBegins(v) => at'[v].step = "switch"
  BY <1>3, PublishBeginsBase DEF Local
<1>8. Switch(v) => at'[v].step = "queue_resume"
  BY <1>3, SwitchBase DEF Local
<1>9. Embeds(v) \/ Publishes(v) => /\ at'[v].step = "embed_batch" => EmbedBegins(v)
                                   /\ at'[v].step = "queue_publish" => EmbedBatch(v)
                                   /\ at'[v].step = "switch" => PublishBegins(v)
  BY <1>4, <1>5, <1>6, <1>7, <1>8 DEF Embeds, Publishes
<1> QED
  BY <1>1, <1>2, <1>9, StepsAndBase

LEMMA QueuedStage ==
    ASSUME Base, NEW stage \in Stage, NEW key \in AnyKey, Queue(stage, key)
    PROVE  \A s \in Stage : HasStage(s)' => HasStage(s) \/ s = stage
<1>1. jobs \in Seq(JobRow) /\ [stage |-> stage, key |-> key, state |-> "pending"] \in JobRow
  BY DEF Base, JobsInv, JobRow, JobState
<1>2. CASE jobs' = jobs
  BY <1>2 DEF HasStage
<1>3. CASE jobs' = Append(jobs, [stage |-> stage, key |-> key, state |-> "pending"])
  BY <1>1, <1>3 DEF HasStage
<1> QED
  BY <1>2, <1>3 DEF Queue, Inserted

\* How a publish job comes about.
LEMMA NewPublish ==
    ASSUME MaxRetries = 0, Base, [Next]_vars, HasStage("publish")', ~HasStage("publish")
    PROVE  (\E w \in Threads : At(w, "queue_publish")) \/ pub # NoPub \/ run.fp = Fingerprint
<1>1. DOMAIN jobs' # DOMAIN jobs
  BY StepShape DEF RowsLast, HasStage
<1>2. \A s \in Stage \ {"publish"}, key \in AnyKey : ~Queue(s, key)
  BY QueuedStage DEF Stage
<1>3. CASE Start \/ Migrate
  <2>1. Mended(jobs, jobs') /\ jobs \in Seq(JobRow) /\ jobs' \in Seq(JobRow)
    BY <1>3, StartMends, MigrateMends DEF Mended, Follows, Base, JobsInv
  <2>2. PICK i \in DOMAIN jobs' : jobs'[i].stage = "publish"
    BY DEF HasStage
  <2>3. i \in 1 .. Len(jobs') /\ i \notin 1 .. Len(jobs)
    BY <2>1, <2>2 DEF HasStage, Mended
  <2> QED
    BY <2>1, <2>2, <2>3 DEF Mended
<1>4. CASE Process /\ ~Start /\ ~Migrate
  BY <1>1, <1>4 DEF Process, Stop, Crash, OtherBook, EditSettings
<1>5. ASSUME NEW w \in Threads, Steps(w)
      PROVE  At(w, "queue_publish")
  <2>1. ~Leaves(w) /\ ~FailRun(w) /\ \A i \in DOMAIN jobs : ~Claim(w, i)
    BY <1>1, EndsRows, ClaimRows DEF Leaves, FailRun
  <2>2. ~Extracts(w)
    <3>1. {"ocr", "chunk"} \subseteq Stage \ {"publish"} /\ Fingerprint \in AnyKey
      BY FingerprintIsTyped DEF Stage, AnyKey
    <3>2. ~QueuePageOcr(w) /\ ~QueueOcr(w)
      <4>1. At(w, "page_ocr") => at[w].page \in AnyKey
        BY DEF Base, CarryInv, Carries, AnyKey, At
      <4>2. Scanned \subseteq AnyKey
        BY PipelineAssumption DEF AnyKey
      <4> QED
        BY <1>1, <1>2, <3>1, <4>1, <4>2 DEF QueuePageOcr, QueueOcr
    <3>3. ~QueueChunk(w)
      BY <1>2, <3>1 DEF QueueChunk
    <3> QED
      BY <1>1, <3>2, <3>3 DEF Extracts, StartRun, PageArtifact, PageRow, FinishRun
  <2>3. ~Reads(w)
    BY <1>1 DEF Reads, OcrBegins, OcrArtifact, OcrRow, OcrImpossible
  <2>4. ~Cuts(w)
    <3>1. "embed" \in Stage \ {"publish"} /\ at[w].fp \in AnyKey
      BY DEF Stage, AnyKey, Base, AtInv, Local
    <3>2. ~QueueEmbed(w)
      BY <1>2, <3>1 DEF QueueEmbed
    <3>3. ~Rekey(w)
      BY <1>1 DEF Rekey
    <3> QED
      BY <1>1, <3>2, <3>3 DEF Cuts, ChunkReplays, ChunkLoads, NormalizeArtifact, NormalizeRow,
         Normalized, ChunkCommit
  <2>5. ~Publishes(w)
    <3>1. "resume" \in Stage \ {"publish"} /\ NoPage \in AnyKey
      BY DEF Stage, AnyKey
    <3> QED
      BY <1>1, <1>2, <3>1 DEF Publishes, PublishNoop, PublishBegins, Switch, QueueResume, StoreResume
  <2>6. Embeds(w)
    BY <1>5, <2>1, <2>2, <2>3, <2>4, <2>5 DEF Steps
  <2> QED
    BY <1>1, <2>6 DEF Embeds, EmbedBegins, EmbedBatch, QueuePublish
<1>6. ~UNCHANGED vars
  BY <1>1 DEF vars
<1> QED
  BY <1>3, <1>4, <1>5, <1>6, StepsAndBase

\* Only a commit changes the chunk rows and the fingerprint, and only a switch the index.
LEMMA OnlyCommits ==
    ASSUME MaxRetries = 0, Base, [Next]_vars, \A w \in Threads : ~ChunkCommit(w)
    PROVE  run'.fp = run.fp /\ chunks' = chunks
<1>1. Process \/ UNCHANGED vars => run'.fp = run.fp /\ chunks' = chunks
  BY StepShape DEF vars
<1>2. ASSUME NEW w \in Threads, Steps(w)
      PROVE  run'.fp = run.fp /\ chunks' = chunks
  <2>1. Leaves(w) \/ FailRun(w) \/ (\E i \in DOMAIN jobs : Claim(w, i)) => run'.fp = run.fp /\ chunks' = chunks
    BY DEF Leaves, LeaveBook, FailRun, Claim, Base, RunInv
  <2>2. Extracts(w) => run'.fp = run.fp /\ chunks' = chunks
    BY DEF Extracts, StartRun, PageArtifact, PageRow, QueuePageOcr, FinishRun, QueueOcr, QueueChunk,
           Leave, LeaveBook, Base, RunInv
  <2>3. Reads(w) => run' = run /\ chunks' = chunks
    BY DEF Reads, OcrBegins, OcrArtifact, OcrRow, OcrImpossible, Leave, LeaveBook
  <2>4. Cuts(w) => run' = run /\ chunks' = chunks
    BY DEF Cuts, ChunkReplays, ChunkLoads, NormalizeArtifact, NormalizeRow, Normalized, Rekey,
       QueueEmbed, Leave, LeaveBook
  <2>5. Embeds(w) \/ Publishes(w) => run' = run /\ chunks' = chunks
    BY DEF Embeds, Publishes, EmbedBegins, EmbedBatch, QueuePublish, PublishNoop, PublishBegins,
           Switch, QueueResume, StoreResume, Leave, LeaveBook
  <2> QED
    BY <1>2, <2>1, <2>2, <2>3, <2>4, <2>5 DEF Steps
<1> QED
  BY <1>1, <1>2, StepsAndBase

LEMMA OnlySwitches ==
    ASSUME MaxRetries = 0, Base, [Next]_vars, \A w \in Threads : ~Switch(w)
    PROVE  UNCHANGED pub
<1>1. Process \/ UNCHANGED vars => UNCHANGED pub
  BY DEF Process, Start, Stop, Crash, Migrate, OtherBook, EditSettings, LeaveWork, index, vars
<1>2. ASSUME NEW w \in Threads, Steps(w)
      PROVE  UNCHANGED pub
  <2>1. Leaves(w) \/ FailRun(w) \/ (\E i \in DOMAIN jobs : Claim(w, i)) => UNCHANGED pub
    BY DEF Leaves, LeaveBook, FailRun, Claim, index
  <2>2. Extracts(w) \/ Reads(w) => UNCHANGED pub
    BY DEF Extracts, StartRun, PageArtifact, PageRow, QueuePageOcr, FinishRun, QueueOcr, QueueChunk,
           Reads, OcrBegins, OcrArtifact, OcrRow, OcrImpossible, Leave, LeaveBook, index
  <2>3. Cuts(w) => UNCHANGED pub
    BY DEF Cuts, ChunkReplays, ChunkLoads, NormalizeArtifact, NormalizeRow, Normalized, ChunkCommit,
       Rekey, QueueEmbed, Leave, LeaveBook, index
  <2>4. Embeds(w) \/ Publishes(w) => UNCHANGED pub
    BY DEF Embeds, Publishes, EmbedBegins, EmbedBatch, QueuePublish, PublishNoop, PublishBegins,
           QueueResume, StoreResume, Leave, LeaveBook, index
  <2> QED
    BY <1>2, <2>1, <2>2, <2>3, <2>4 DEF Steps
<1> QED
  BY <1>1, <1>2, StepsAndBase

LEMMA CommittedLasts ==
    ASSUME MaxRetries = 0, Base, CutInv, [Next]_vars, run.fp # NoFP
    PROVE  run'.fp # NoFP
<1>1. \A w \in Threads : ChunkCommit(w) => run'.fp # NoFP
  BY CutCommits, NothingAssumption
<1> QED
  BY <1>1, OnlyCommits

LEMMA ServingStep ==
    ASSUME MaxRetries = 0, Base, CutInv, ServingInv, [Next]_vars
    PROVE  ServingInv'
<1> SUFFICES ASSUME run.fp = NoFP
             PROVE  ~Serving'
  BY CommittedLasts DEF ServingInv
<1>1. ~Serving /\ run.fp # Fingerprint
  BY FingerprintIsTyped DEF ServingInv
<1>2. ~HasStage("publish")'
  BY <1>1, NewPublish DEF Serving, At
<1>3. pub' = NoPub
  BY <1>1, OnlySwitches DEF Serving, Switch, At
<1>4. ASSUME NEW v \in Threads
      PROVE  at'[v].step \notin {"embed_batch", "queue_publish", "switch"}
  <2>1. CASE at'[v] = at[v]
    BY <1>1, <2>1 DEF Serving
  <2>2. CASE at'[v] # at[v]
    <3>1. ~EmbedBegins(v) /\ ~EmbedBatch(v)
      BY <1>1 DEF EmbedBegins, EmbedBatch, At, Serving
    <3>2. ~PublishBegins(v)
      <4> SUFFICES ASSUME PublishBegins(v)
                   PROVE  FALSE
        OBVIOUS
      <4>1. at[v].step = "publish" /\ Holding(v) /\ "publish" \in Stage
        BY DEF PublishBegins, PublishReady, At, Holding, Stage
      <4>2. Row(v).stage = "publish" /\ at[v].job \in DOMAIN jobs
        BY <4>1, StageOfStep DEF Base, StepsOf, HeldInv, Held
      <4> QED
        BY <1>1, <4>2 DEF Serving, HasStage, Row
    <3> QED
      BY <2>2, <3>1, <3>2, Entries
  <2> QED
    BY <2>1, <2>2
<1> QED
  BY <1>2, <1>3, <1>4 DEF Serving

LEMMA SettingsStay ==
    ASSUME MaxRetries = 0, MaxEdits = 0, Base, [Next]_vars
    PROVE  UNCHANGED settings
<1>1. \A s \in Settings : ~EditSettings(s)
  BY DEF EditSettings, Within, Base, ScalarInv
<1>2. Process \/ UNCHANGED vars => UNCHANGED settings
  BY <1>1 DEF Process, Start, Stop, Crash, Migrate, OtherBook, vars
<1>3. ASSUME NEW w \in Threads, Steps(w)
      PROVE  UNCHANGED settings
  <2>1. Leaves(w) \/ FailRun(w) \/ (\E i \in DOMAIN jobs : Claim(w, i)) => UNCHANGED settings
    BY DEF Leaves, LeaveBook, FailRun, Claim
  <2>2. Extracts(w) \/ Reads(w) => UNCHANGED settings
    BY DEF Extracts, StartRun, PageArtifact, PageRow, QueuePageOcr, FinishRun, QueueOcr, QueueChunk,
           Reads, OcrBegins, OcrArtifact, OcrRow, OcrImpossible, Leave, LeaveBook
  <2>3. Cuts(w) => UNCHANGED settings
    BY DEF Cuts, ChunkReplays, ChunkLoads, NormalizeArtifact, NormalizeRow, Normalized, ChunkCommit,
       Rekey, QueueEmbed, Leave, LeaveBook
  <2>4. Embeds(w) \/ Publishes(w) => UNCHANGED settings
    BY DEF Embeds, Publishes, EmbedBegins, EmbedBatch, QueuePublish, PublishNoop, PublishBegins,
           Switch, QueueResume, StoreResume, Leave, LeaveBook
  <2> QED
    BY <1>3, <2>1, <2>2, <2>3, <2>4 DEF Steps
<1> QED
  BY <1>2, <1>3, StepsAndBase

\* While the settings stay, committing again commits the same.
LEMMA ChunksStay ==
    ASSUME MaxRetries = 0, MaxEdits = 0, Base, CutInv, ServedInv, [Next]_vars, run.fp # NoFP
    PROVE  UNCHANGED chunks
<1>1. ASSUME NEW w \in Threads, ChunkCommit(w)
      PROVE  UNCHANGED chunks
  <2>1. chunks' = [text |-> [p \in Pages |-> unit[p].art.norm], cut |-> settings]
    BY <1>1, CutCommits
  <2>2. /\ chunks \in Chunks /\ chunks.cut = settings
        /\ \A p \in Pages : chunks.text[p] = unit[p].art.norm
    BY DEF CutInv, Committed, ServedInv
  <2>3. chunks.text = [p \in Pages |-> unit[p].art.norm]
    BY <2>2 DEF Chunks
  <2> QED
    BY <2>1, <2>2, <2>3 DEF Chunks
<1> QED
  BY <1>1, OnlyCommits

LEMMA ServedStep ==
    ASSUME MaxRetries = 0, MaxEdits = 0, Base, CutInv, ServingInv, ServedInv, [Next]_vars
    PROVE  ServedInv'
<1>1. run'.fp # NoFP => run'.fp.cut = settings'
  <2>1. ASSUME NEW w \in Threads, ChunkCommit(w)
        PROVE  run'.fp.cut = settings'
    <3>1. at[w].step = "chunk_commit" /\ run'.fp = at[w].fp
      BY <2>1, CutCommits DEF ChunkCommit, At
    <3>2. at[w].fp.cut = settings
      <4>1. Works(w)
        BY DEF CutInv
      <4>2. at[w].fp = [arts |-> at[w].arts, cut |-> settings]
        BY <3>1, <4>1 DEF Works, ChunkWork, At
      <4> QED
        BY <4>2
    <3> QED
      BY <3>1, <3>2, SettingsStay
  <2> QED
    BY <2>1, OnlyCommits, SettingsStay DEF ServedInv
<1>2. ASSUME NEW v \in Threads, At(v, "switch")'
      PROVE  at'[v].chunks = chunks'
  <2>1. Serving'
    BY <1>2 DEF Serving, At
  <2>2. CASE at'[v] = at[v]
    <3>1. At(v, "switch")
      BY <1>2, <2>2 DEF At
    <3>2. run.fp # NoFP
      BY <3>1 DEF At, ServingInv, Serving
    <3> QED
      BY <2>2, <3>1, <3>2, ChunksStay DEF ServedInv
  <2>3. CASE at'[v] # at[v]
    <3>1. PublishBegins(v)
      BY <1>2, <2>3, Entries DEF At
    <3>2. at'[v].chunks = chunks /\ chunks' = chunks
      BY <3>1, PublishBeginsBase DEF PublishBegins, Leave, LeaveBook, Base, AtInv, Local
    <3> QED
      BY <3>2
  <2> QED
    BY <2>2, <2>3
<1>3. pub' # NoPub => pub'.chunks = chunks'
  <2>1. ASSUME NEW w \in Threads, Switch(w)
        PROVE  pub'.chunks = chunks'
    BY <2>1 DEF Switch, ServedInv
  <2>2. UNCHANGED pub /\ pub # NoPub => run.fp # NoFP
    BY DEF ServingInv, Serving
  <2> QED
    BY <2>1, <2>2, OnlySwitches, ChunksStay DEF ServedInv
<1> QED
  BY <1>1, <1>2, <1>3 DEF ServedInv

LEMMA ServedInit == Init => ServingInv /\ ServedInv
<1> SUFFICES ASSUME Init
             PROVE  ServingInv /\ ServedInv
  OBVIOUS
<1>1. pub = NoPub /\ run.fp = NoFP /\ \A w \in Threads : at[w].step = "idle"
  BY DEF Init, Idle
<1>2. ~HasStage("publish")
  BY DEF Init, HasStage
<1> QED
  BY <1>1, <1>2 DEF ServingInv, Serving, ServedInv, At

ServeInv == Base /\ ReadInv /\ ChainInv /\ ResumeInv /\ ServingInv /\ ServedInv

LEMMA ServeInductive ==
    ASSUME MaxRetries = 0, MaxEdits = 0, OcrInTime
    PROVE  /\ Init => ServeInv
           /\ ServeInv /\ [Next]_vars => ServeInv'
<1>1. Init => ServeInv
  BY InitBase, ReadInit, ChainInit, ServedInit DEF ServeInv
<1>2. ServeInv /\ [Next]_vars => ServeInv'
  BY StepsAndBase, ReadStep, ChainStep, ServingStep, ServedStep DEF ServeInv, ReadInv
<1> QED
  BY <1>1, <1>2

\* When every job has succeeded, the fingerprint is recorded, as it is now.
LEMMA DrainedIsCommitted ==
    ASSUME MaxEdits = 0, ServeInv, Drained
    PROVE  pub # NoPub /\ run.fp = Fingerprint
<1>1. pub # NoPub
  BY DrainedChain DEF ServeInv
<1>2. run.fp # NoFP /\ run.fp \in FP
  BY <1>1 DEF ServeInv, ServingInv, Serving, Base, RunInv
<1>3. run.fp.cut = settings
  BY <1>2 DEF ServeInv, ServedInv
<1>4. \A p \in Pages : unit[p] # NoUnit /\ run.fp.arts[p] = unit[p].art
  BY <1>2 DEF ServeInv, ReadInv, CutInv, Committed
<1>5. run.fp.arts = [p \in Pages |-> IF unit[p] = NoUnit THEN NoArt ELSE unit[p].art]
  BY <1>2, <1>4 DEF FP
<1> QED
  BY <1>1, <1>2, <1>3, <1>5 DEF FP, Fingerprint

\* When every job has succeeded, the index serves the run's chunk rows.
THEOREM IndexServesChunks ==
    ASSUME MaxRetries = 0, MaxEdits = 0, OcrInTime
    PROVE  Spec => []ServedIsChunked
<1>1. ServeInv => ServedIsChunked
  BY DrainedIsCommitted DEF ServedIsChunked, ServeInv, ServedInv
<1> QED
  BY <1>1, ServeInductive, PTL DEF Spec

\* When every job has succeeded, a page whose OCR is done is chunked from its OCR text, and
\* the recorded fingerprint is that of the units as they are.
THEOREM ChunksHaveOcr ==
    ASSUME MaxRetries = 0, MaxEdits = 0, OcrInTime
    PROVE  Spec => []OcrIsChunked
<1>1. ServeInv => OcrIsChunked
  <2> SUFFICES ASSUME ServeInv, Drained
               PROVE  /\ run.fp = Fingerprint
                      /\ \A p \in Pages : unit[p].ocr = "done" => chunks.text[p] = "ocr"
    BY DEF OcrIsChunked
  <2>1. run.fp = Fingerprint /\ run.fp # NoFP
    BY DrainedIsCommitted, FingerprintIsTyped DEF ServeInv
  <2>2. \A p \in Pages : unit[p].ocr = "done" => chunks.text[p] = "ocr"
    BY <2>1 DEF ServeInv, ReadInv, CutInv, Committed, UnitInv
  <2> QED
    BY <2>1, <2>2
<1> QED
  BY <1>1, ServeInductive, PTL DEF Spec
=============================================================================
