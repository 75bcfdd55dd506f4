------------------------------- MODULE Library -------------------------------
(***************************************************************************)
(* The books on disk and what the catalog, the archive and the index know  *)
(* of them: scans (scan.py, discover.py, catalog.py, archive.py), books    *)
(* picked in the Browse view and the page that shows how they fare         *)
(* (api.py, manual_selection.py), the reconcile command (reconcile.py),    *)
(* explicit removal (removal.py) and garbage collection (gc.py), each a    *)
(* process of its own that may die between any two of its writes.          *)
(*                                                                         *)
(* Abstraction.  A content is its SHA-256.  A document is named by the     *)
(* content it was first seen with, a revision by document and content, as  *)
(* document_id and revision_id do.  The jobs of a revision are one job,    *)
(* which ends with the publication (Pipeline has the stages, JobQueue the  *)
(* leases, Publication the switch).  Every file is a valid book.           *)
(***************************************************************************)
EXTENDS Naturals, FiniteSets

CONSTANTS
    Path,       \* paths under the one source root
    Content,    \* contents a file may have
    None,
    Scanner,    \* processes and threads that scan: scan, discover, POST /scan, /browse/process
    Sentinel,   \* a mount sentinel is configured for the root
    Resumes,    \* published books get a resume
    Limits,     \* enqueue budgets a scan may be given
    Disks,      \* what the disk may hold at first
    Kinds,      \* what may happen: edit, mount, crash, removal, gc, reconcile, browse
    MaxEvents   \* bound on how much of it

ASSUME LibraryAssumption ==
    /\ IsFiniteSet(Path) /\ IsFiniteSet(Content)
    /\ None \notin Path \cup Content /\ None \notin Content \X Content
    /\ Sentinel \in BOOLEAN /\ Resumes \in BOOLEAN
    /\ Limits # {} /\ Limits \subseteq Nat \ {0}
    /\ Kinds \subseteq {"edit", "mount", "crash", "removal", "gc", "reconcile",
                   "browse"}
    /\ Disks \subseteq [Path -> Content]
    /\ MaxEvents \in Nat

Rev == Content \X Content     \* <<document, content>>

VARIABLES
    disk,     \* path -> content of the file, or None
    up,       \* the disk with the source root is mounted
    stat,     \* scan_state: path -> revision
    fresh,    \* paths whose row has the size and mtime of the file
    revs,     \* source_revisions
    active,   \* those with is_active = 1
    alias,    \* path_aliases: path -> revision
    archive,  \* contents with an object in the archive
    job,      \* revision -> its job
    pubs,     \* revision -> its publication row
    points,   \* revisions with points in the index
    resumes,  \* revisions with a book_resumes row
    ledger,   \* manual_selections: path -> revision, None also for paths not in it
    scan,     \* scanner -> its step and local variables
    rm,       \* the removal under way
    gc,       \* the garbage collection under way
    prune,    \* the reconcile command under way
    swept, torn, stuck, overtaken, spent,   \* history, see the properties
    events

files == <<disk, up>>
catalog == <<stat, fresh, revs, active, alias>>
index == <<job, pubs, points, resumes, ledger>>
procs == <<scan, rm, gc, prune>>
history == <<swept, torn, stuck, overtaken, spent>>
vars == <<files, catalog, archive, index, procs, history, events>>

NotScanning == [step |-> "idle", todo |-> {}, list |-> {}, budget |-> 0, path |-> None,
                sha |-> None, same |-> FALSE, copied |-> FALSE, rev |-> None, new |-> FALSE]
NotRemoving == [step |-> "idle", doc |-> None, indexed |-> FALSE, revs |-> {},
                doomed |-> {}, free |-> {}]
NotCollecting == [step |-> "idle", doomed |-> {}, pubs |-> {}, free |-> {}]
NotPruning == [step |-> "idle", visible |-> {}]

Init ==
    /\ disk \in Disks /\ up = TRUE
    /\ stat = [p \in Path |-> None] /\ alias = stat
    /\ fresh = {} /\ revs = {} /\ active = {}
    /\ archive = {}
    /\ job = [r \in Rev |-> "none"] /\ pubs = job
    /\ points = {} /\ resumes = {} /\ ledger = stat
    /\ scan = [s \in Scanner |-> NotScanning]
    /\ rm = NotRemoving /\ gc = NotCollecting /\ prune = NotPruning
    /\ swept = {} /\ torn = {} /\ stuck = {} /\ overtaken = {} /\ spent = {}
    /\ events = 0

-----------------------------------------------------------------------------
(* What the code reads.                                                    *)

Present(p) == up /\ disk[p] # None
MountPresent == Sentinel => up      \* mount_present; without a sentinel the mount point
Of(doc) == {r \in revs : r[1] = doc}
Documents == {r[1] : r \in revs}
Referenced == {r[2] : r \in revs}
Holding(c) == {r \in revs : r[2] = c}
Ended == {"settled", "failed", "cancelled"}
JobRunning == \E r \in Rev : job[r] = "running"

-----------------------------------------------------------------------------
(* The world: files change, disks come and go.                             *)

Happens(kind) == kind \in Kinds /\ events < MaxEvents /\ events' = events + 1

Edit(p, c) ==
    /\ Happens("edit") /\ up /\ disk[p] # c
    /\ disk' = [disk EXCEPT ![p] = c]
    /\ fresh' = fresh \ {p}
    /\ scan' = [s \in Scanner |->
                   IF scan[s].path = p THEN [scan[s] EXCEPT !.same = FALSE] ELSE scan[s]]
    /\ UNCHANGED <<up, stat, revs, active, alias, archive, index, rm, gc, prune, history>>

Mount ==
    /\ Happens("mount") /\ up' = ~up
    /\ UNCHANGED <<disk, catalog, archive, index, procs, history>>

-----------------------------------------------------------------------------
(* A scan, file after file (_process_file): one walk over the root, or the *)
(* list of a submission, without a budget, after which the ledger is       *)
(* written.                                                                *)

StartScan(s) ==
    /\ scan[s].step = "idle" /\ MountPresent
    /\ \E limit \in Limits :
          scan' = [scan EXCEPT ![s] = [NotScanning EXCEPT !.step = "walk", !.todo = Path,
                                                          !.budget = limit]]
    /\ UNCHANGED <<files, catalog, archive, index, rm, gc, prune, history, events>>

\* browse_process: those that are gone already get their row only.
Browse(s) ==
    /\ scan[s].step = "idle" /\ up /\ Happens("browse")
    /\ \E list \in SUBSET Path \ {{}} :
          scan' = [scan EXCEPT ![s] = [NotScanning EXCEPT
                      !.step = IF \E p \in list : Present(p) THEN "walk" ELSE "ledger",
                      !.todo = {p \in list : Present(p)}, !.list = list]]
    /\ UNCHANGED <<files, catalog, archive, index, rm, gc, prune, history>>

\* The scanner is done with its file, and after the last one with the scan.
Walks(rec) ==
    IF rec.todo = {} /\ rec.list = {} THEN NotScanning
    ELSE [NotScanning EXCEPT !.step = IF rec.todo = {} THEN "ledger" ELSE "walk",
                             !.todo = rec.todo, !.list = rec.list, !.budget = rec.budget]

\* The next file, without those the walk does not see and those the fast check passes.
NextFile(s, p) ==
    LET rec == scan[s]
        rest == rec.todo \ {p}
    IN  /\ rec.step = "walk" /\ p \in rec.todo
        /\ scan' = [scan EXCEPT ![s] =
             IF Present(p) /\ p \notin fresh
             THEN [rec EXCEPT !.step = "hash", !.todo = rest, !.path = p, !.sha = disk[p],
                              !.same = TRUE]
             ELSE Walks([rec EXCEPT !.todo = rest])]
        /\ UNCHANGED <<files, catalog, archive, index, rm, gc, prune, history, events>>

\* registration_status
Unregistered(p, c) ==
    IF alias[p] # None THEN alias[p][2] # c ELSE c \notin Referenced

\* Skipped when it changed while it was hashed, deferred when it needs a job and the
\* budget is spent.
Hashed(s) ==
    LET rec == scan[s]
        needs == Unregistered(rec.path, rec.sha)
    IN  /\ rec.step = "hash"
        /\ scan' = [scan EXCEPT ![s] =
             IF ~rec.same \/ (needs /\ rec.list = {} /\ rec.budget = 0) THEN Walks(rec)
             ELSE [rec EXCEPT !.step = "ingest",
                              !.budget = IF needs /\ rec.list = {} THEN @ - 1 ELSE @]]
        /\ UNCHANGED <<files, catalog, archive, index, rm, gc, prune, history, events>>

\* ingest_source: an object that is there already is used as it is.  A file that is not
\* what was hashed ends the scan, or only this file of an explicit list.
Ingest(s) ==
    LET rec == scan[s]
    IN  /\ rec.step = "ingest"
        /\ IF Present(rec.path) /\ disk[rec.path] = rec.sha
           THEN /\ scan' = [scan EXCEPT ![s].step = "register",
                                        ![s].copied = rec.sha \notin archive]
                /\ archive' = archive \cup {rec.sha}
           ELSE /\ scan' = [scan EXCEPT ![s] = IF rec.list = {} THEN NotScanning ELSE Walks(rec)]
                /\ UNCHANGED archive
        /\ UNCHANGED <<files, catalog, index, rm, gc, prune, history, events>>

\* Wrong: the predecessor stays active.
SlipActivatedKeepsOld(r) == active \cup {r}
\* _set_active, and is_active = 1 of a created revision
Activated(r) == {q \in active : q[1] # r[1]} \cup {r}

\* register_source: one transaction.
Register(s) ==
    LET rec == scan[s]
        known == alias[rec.path] # None
        unchanged == known /\ alias[rec.path][2] = rec.sha
        changed == known /\ ~unchanged
        twins == Holding(rec.sha)
    IN  /\ rec.step = "register"
        /\ \E r \in CASE unchanged -> {alias[rec.path]}
                      [] changed -> {<<alias[rec.path][1], rec.sha>>}
                      [] ~known /\ twins # {} -> twins
                      [] OTHER -> {<<rec.sha, rec.sha>>} :
              LET new == changed \/ (~known /\ twins = {})
              IN  /\ alias' = [alias EXCEPT ![rec.path] = r]
                  /\ revs' = revs \cup {r}
                  /\ active' = IF new THEN Activated(r) ELSE active
                  /\ spent' = IF new /\ job[r] \in Ended THEN spent \cup {r} ELSE spent
                  /\ scan' = [scan EXCEPT ![s].step = "state", ![s].copied = FALSE,
                                          ![s].rev = r, ![s].new = new]
        /\ UNCHANGED <<files, stat, fresh, archive, index, rm, gc, prune, swept, torn, stuck,
                       overtaken, events>>

\* _upsert_scan_state, with the size and mtime read after hashing
SaveState(s) ==
    LET rec == scan[s]
    IN  /\ rec.step = "state"
        /\ stat' = [stat EXCEPT ![rec.path] = rec.rev]
        /\ fresh' = IF rec.same THEN fresh \cup {rec.path} ELSE fresh \ {rec.path}
        /\ stuck' = IF rec.same /\ alias[rec.path] # rec.rev THEN stuck \cup {rec.path} ELSE stuck
        /\ scan' = [scan EXCEPT ![s].step = "enqueue"]
        /\ UNCHANGED <<files, revs, active, alias, archive, index, rm, gc, prune, swept, torn,
                       overtaken, spent, events>>

\* Wrong: only the first revision of a document is extracted.
SlipQueuedNewBooks(r) ==
    IF job[r] = "none" /\ r[1] = r[2] THEN [job EXCEPT ![r] = "open"] ELSE job
\* The extract job, INSERT OR IGNORE.
Queued(r) == IF job[r] = "none" THEN [job EXCEPT ![r] = "open"] ELSE job
EnqueueExtract(s) ==
    LET rec == scan[s]
    IN  /\ rec.step = "enqueue"
        /\ job' = IF rec.new THEN Queued(rec.rev) ELSE job
        /\ scan' = [scan EXCEPT ![s] = Walks(rec)]
        /\ UNCHANGED <<files, catalog, archive, pubs, points, resumes, ledger, rm, gc, prune,
                       history, events>>

\* record_submission: the rows name what scan_state says, or what they named before.
SaveLedger(s) ==
    /\ scan[s].step = "ledger"
    /\ ledger' = [p \in Path |-> IF p \in scan[s].list /\ stat[p] # None THEN stat[p]
                                 ELSE ledger[p]]
    /\ scan' = [scan EXCEPT ![s] = NotScanning]
    /\ UNCHANGED <<files, catalog, archive, job, pubs, points, resumes, rm, gc, prune, history,
                   events>>

Goes(s) ==
    \/ \E p \in Path : NextFile(s, p)
    \/ Hashed(s) \/ Ingest(s) \/ Register(s) \/ SaveState(s) \/ EnqueueExtract(s)
    \/ SaveLedger(s)
Scans(s) == StartScan(s) \/ Goes(s)

-----------------------------------------------------------------------------
(* The worker, one thread, reduced to what removal and collection meet.     *)

Claim(r) ==
    /\ job[r] = "open" /\ ~JobRunning
    /\ job' = [job EXCEPT ![r] = "running"]
    /\ overtaken' = IF rm.doc = r[1] THEN overtaken \cup {r[1]} ELSE overtaken
    /\ UNCHANGED <<files, catalog, archive, pubs, points, resumes, ledger, procs, swept, torn,
                   stuck, spent, events>>

\* The publication takes the place of the document's active one; the points of the old
\* one stay until they are collected.
Publish(r) ==
    /\ job[r] = "running" /\ r \in active /\ r[2] \in archive
    /\ job' = [job EXCEPT ![r] = "settled"]
    /\ pubs' = [q \in Rev |-> CASE q = r -> "active"
                                [] q # r /\ q[1] = r[1] /\ pubs[q] = "active" -> "superseded"
                                [] OTHER -> pubs[q]]
    /\ points' = points \cup {r}
    /\ UNCHANGED <<files, catalog, archive, resumes, ledger, procs, history, events>>

\* A job whose revision or original is gone fails; one of a superseded revision is done.
GiveUp(r) ==
    /\ job[r] = "running"
    /\ ~(r \in active /\ r[2] \in archive)
    /\ job' = [job EXCEPT ![r] = IF r \in revs /\ r[2] \in archive THEN "settled" ELSE "failed"]
    /\ UNCHANGED <<files, catalog, archive, pubs, points, resumes, ledger, procs, history,
                   events>>

StoreResume(r) ==
    /\ Resumes /\ r \in revs /\ pubs[r] = "active" /\ r \notin resumes
    /\ resumes' = resumes \cup {r}
    /\ UNCHANGED <<files, catalog, archive, job, pubs, points, ledger, procs, history, events>>

Works(r) == Claim(r) \/ Publish(r) \/ GiveUp(r) \/ StoreResume(r)

-----------------------------------------------------------------------------
(* remove --execute                                                        *)

\* A foreign key keeps the rows: a resume's, which removal does not delete, or perhaps that
\* of a row written since the revisions were gathered.
RowsHeld == \E r \in resumes : r[1] = rm.doc
RowsAppeared ==
    \/ \E r \in Of(rm.doc) : job[r] = "running"
    \/ \E r \in Of(rm.doc) \ rm.revs : job[r] = "settled"

\* Wrong: only what search can see.
SlipPointsOfActive(doc) == {r \in points : r[1] = doc /\ pubs[r] = "active"}
PointsOf(doc) == {r \in points : r[1] = doc}

\* The guard, the gathering of revisions and points, and the refusal without an index
\* client.
RemoveBegin(doc) ==
    /\ rm.step = "idle" /\ Happens("removal") /\ doc \in Documents
    /\ ~JobRunning
    /\ \E client \in BOOLEAN :
          /\ client \/ \A r \in Of(doc) : pubs[r] = "none"
          /\ rm' = [NotRemoving EXCEPT !.step = "points", !.doc = doc, !.revs = Of(doc),
                                       !.indexed = client /\ PointsOf(doc) # {}]
    /\ UNCHANGED <<files, catalog, archive, index, scan, gc, prune, history>>

RemovePoints ==
    /\ rm.step = "points"
    /\ points' = IF rm.indexed THEN points \ PointsOf(rm.doc) ELSE points
    /\ rm' = [rm EXCEPT !.step = "rows"]
    /\ UNCHANGED <<files, catalog, archive, job, pubs, resumes, ledger, scan, gc, prune, history,
                   events>>

\* Wrong: the fast-check rows are left behind.
SlipStateRowsKept(rs) == {}
\* scan_state rows that name one of the revisions
StateRowsOf(rs) == {p \in Path : stat[p] \in rs}

\* One transaction; a foreign key that still holds rolls it back and ends the command.
RemoveRows ==
    /\ rm.step = "rows"
    /\ \/ /\ RowsHeld \/ RowsAppeared
          /\ rm' = NotRemoving
          /\ UNCHANGED <<catalog, job, pubs, stuck>>
       \/ /\ ~RowsHeld
          /\ rm' = [rm EXCEPT !.step = "recount"]
          /\ job' = [r \in Rev |->
                       IF r \in rm.revs /\ job[r] = "open" THEN "cancelled" ELSE job[r]]
          /\ stat' = [p \in Path |-> IF p \in StateRowsOf(rm.revs) THEN None ELSE stat[p]]
          /\ fresh' = fresh \ StateRowsOf(rm.revs)
          /\ stuck' = stuck \cup (fresh \cap StateRowsOf(Of(rm.doc) \ rm.revs))
          /\ alias' = [p \in Path |->
                         IF alias[p] \in Of(rm.doc) THEN None ELSE alias[p]]
          /\ pubs' = [r \in Rev |-> IF r[1] = rm.doc THEN "none" ELSE pubs[r]]
          /\ revs' = revs \ Of(rm.doc) /\ active' = active \ Of(rm.doc)
    /\ UNCHANGED <<files, archive, points, resumes, ledger, scan, gc, prune, swept, torn,
                   overtaken, spent, events>>

\* Wrong: without counting what else refers to the contents.
SlipArchivePlanNoRecount(rs) == {r[2] : r \in rs}
\* _archive_plan after the transaction: its contents that no revision references.
ArchivePlan(rs) == {r[2] : r \in rs} \ Referenced
RemoveRecount ==
    /\ rm.step = "recount"
    /\ rm' = [rm EXCEPT !.step = "unlink", !.doomed = ArchivePlan(rm.revs),
                        !.free = Content \ Referenced]
    /\ UNCHANGED <<files, catalog, archive, index, scan, gc, prune, history, events>>

RemoveUnlink(c) ==
    /\ rm.step = "unlink" /\ c \in rm.doomed
    /\ archive' = archive \ {c}
    /\ swept' = swept \cup ({c} \cap archive \cap rm.free)
    /\ rm' = [rm EXCEPT !.doomed = @ \ {c}]
    /\ UNCHANGED <<files, catalog, index, scan, gc, prune, torn, stuck, overtaken, spent,
                   events>>

RemoveEnd ==
    /\ rm.step = "unlink" /\ rm.doomed = {}
    /\ rm' = NotRemoving
    /\ UNCHANGED <<files, catalog, archive, index, scan, gc, prune, history, events>>

Removes ==
    \/ \E doc \in Content : RemoveBegin(doc)
    \/ RemovePoints \/ RemoveRows \/ RemoveRecount \/ RemoveEnd
    \/ \E c \in Content : RemoveUnlink(c)

-----------------------------------------------------------------------------
(* gc --execute                                                            *)

\* Candidates are decided up front; deletion follows.  Any object may be past its grace
\* period but one that a scan has just copied and is about to register.
Collectible ==
    {c \in archive \ Referenced : ~\E s \in Scanner : scan[s].copied /\ scan[s].sha = c}
GcBegin ==
    /\ gc.step = "idle" /\ Happens("gc") /\ ~JobRunning
    /\ \E doomed \in SUBSET Collectible :
          gc' = [step |-> "delete", doomed |-> doomed,
                 pubs |-> {r \in Rev : pubs[r] = "superseded"}, free |-> Content \ Referenced]
    /\ UNCHANGED <<files, catalog, archive, index, scan, rm, prune, history>>

GcUnlink(c) ==
    /\ gc.step = "delete" /\ c \in gc.doomed
    /\ archive' = archive \ {c}
    /\ swept' = swept \cup ({c} \cap archive \cap gc.free)
    /\ gc' = [gc EXCEPT !.doomed = @ \ {c}]
    /\ UNCHANGED <<files, catalog, index, scan, rm, prune, torn, stuck, overtaken, spent,
                   events>>

GcPoints(r) ==
    /\ gc.step = "delete" /\ gc.doomed = {} /\ r \in gc.pubs
    /\ points' = points \ {r}
    /\ gc' = [gc EXCEPT !.pubs = @ \ {r}]
    /\ UNCHANGED <<files, catalog, archive, job, pubs, resumes, ledger, scan, rm, prune, history,
                   events>>

GcEnd ==
    /\ gc.step = "delete" /\ gc.doomed = {} /\ gc.pubs = {}
    /\ gc' = NotCollecting
    /\ UNCHANGED <<files, catalog, archive, index, scan, rm, prune, history, events>>

Collects == GcBegin \/ GcEnd \/ (\E c \in Content : GcUnlink(c)) \/ (\E r \in Rev : GcPoints(r))

-----------------------------------------------------------------------------
(* reconcile: first what is visible, then, if the mount is there, the      *)
(* aliases of what was not.                                                *)

ReconcileLook ==
    /\ prune.step = "idle" /\ Happens("reconcile")
    /\ prune' = [step |-> "prune", visible |-> {p \in Path : Present(p)}]
    /\ UNCHANGED <<files, catalog, archive, index, scan, rm, gc, history>>

Stale == {p \in Path : alias[p] # None /\ p \notin prune.visible}
ReconcilePrune ==
    /\ prune.step = "prune"
    /\ prune' = NotPruning
    /\ IF MountPresent
       THEN /\ alias' = [p \in Path |-> IF p \in Stale THEN None ELSE alias[p]]
            /\ stuck' = stuck \cup (Stale \cap fresh)
       ELSE UNCHANGED <<alias, stuck>>
    /\ UNCHANGED <<files, stat, fresh, revs, active, archive, index, scan, rm, gc, swept, torn,
                   overtaken, spent, events>>

-----------------------------------------------------------------------------
(* What the page shows of a book that was picked: manual_selection_status.  *)

\* Wrong: the revision need not be the active one.
SlipShown(r) ==
    IF r \notin revs THEN "unknown"
    ELSE CASE job[r] \in {"failed", "cancelled"} -> "failed"
           [] job[r] = "running" -> "processing"
           [] job[r] = "open" -> "queued"
           [] job[r] = "none" -> "unknown"
           [] job[r] = "settled" /\ pubs[r] = "active" -> "published"
           [] OTHER -> "processing"
\* _derive_status; settled and not published yet, the later stages are thought to follow.
Shown(r) ==
    IF r \notin revs THEN "unknown"
    ELSE CASE job[r] \in {"failed", "cancelled"} -> "failed"
           [] job[r] = "running" -> "processing"
           [] job[r] = "open" -> "queued"
           [] job[r] = "none" -> "unknown"
           [] job[r] = "settled" /\ r \notin active -> "superseded"
           [] job[r] = "settled" /\ r \in active /\ pubs[r] = "active" -> "published"
           [] OTHER -> "processing"

-----------------------------------------------------------------------------
(* Crashes.                                                                *)

CrashScan(s) ==
    /\ Happens("crash") /\ scan[s].step # "idle"
    /\ torn' = IF scan[s].step \in {"state", "enqueue"} /\ scan[s].new
               THEN torn \cup {scan[s].rev} ELSE torn
    /\ scan' = [scan EXCEPT ![s] = NotScanning]
    /\ UNCHANGED <<files, catalog, archive, index, rm, gc, prune, swept, stuck, overtaken, spent>>

CrashMaintenance ==
    /\ Happens("crash")
    /\ \/ rm.step # "idle" /\ rm' = NotRemoving /\ UNCHANGED gc
       \/ gc.step # "idle" /\ gc' = NotCollecting /\ UNCHANGED rm
    /\ UNCHANGED <<files, catalog, archive, index, scan, prune, history>>

\* A killed worker's lease expires.
CrashWorker(r) ==
    /\ Happens("crash") /\ job[r] = "running"
    /\ job' = [job EXCEPT ![r] = "open"]
    /\ UNCHANGED <<files, catalog, archive, pubs, points, resumes, ledger, procs, history>>

Crash == (\E s \in Scanner : CrashScan(s)) \/ CrashMaintenance \/ \E r \in Rev : CrashWorker(r)

-----------------------------------------------------------------------------

Next ==
    \/ \E p \in Path, c \in Content \cup {None} : Edit(p, c)
    \/ Mount
    \/ \E s \in Scanner : Scans(s) \/ Browse(s)
    \/ \E r \in Rev : Works(r)
    \/ Removes \/ Collects \/ ReconcileLook \/ ReconcilePrune
    \/ Crash

Spec == Init /\ [][Next]_vars

\* Discovery passes come again and again and run to their end.
FairSpec ==
    /\ Spec
    /\ \A s \in Scanner : WF_vars(Scans(s))
    /\ WF_vars(RemovePoints \/ RemoveRows \/ RemoveRecount \/ RemoveEnd
               \/ \E c \in Content : RemoveUnlink(c))
    /\ WF_vars(ReconcilePrune)

-----------------------------------------------------------------------------
(* Properties.                                                             *)

Maybe(S) == S \cup {None}

\* Every variable keeps its type; aliases, active marks and the steps of a scan name
\* revisions and contents.
TypeOK ==
    /\ disk \in [Path -> Maybe(Content)] /\ up \in BOOLEAN
    /\ {stat, alias, ledger} \subseteq [Path -> Maybe(Rev)] /\ fresh \subseteq Path
    /\ revs \subseteq Rev /\ active \subseteq Rev
    /\ archive \subseteq Content
    /\ job \in [Rev -> {"none", "open", "running"} \cup Ended]
    /\ pubs \in [Rev -> {"none", "active", "superseded"}]
    /\ points \subseteq Rev /\ resumes \subseteq Rev
    /\ scan \in [Scanner -> [step : {"idle", "walk", "hash", "ingest", "register", "state",
                                     "enqueue", "ledger"},
                             todo : SUBSET Path, list : SUBSET Path, budget : Nat, path : Maybe(Path),
                             sha : Maybe(Content), same : BOOLEAN, copied : BOOLEAN,
                             rev : Maybe(Rev), new : BOOLEAN]]
    /\ rm \in [step : {"idle", "points", "rows", "recount", "unlink"},
               doc : Maybe(Content), indexed : BOOLEAN, revs : SUBSET Rev,
               doomed : SUBSET Content, free : SUBSET Content]
    /\ gc \in [step : {"idle", "delete"}, doomed : SUBSET Content, pubs : SUBSET Rev,
               free : SUBSET Content]
    /\ prune \in [step : {"idle", "prune"}, visible : SUBSET Path]
    /\ swept \subseteq Content /\ torn \subseteq Rev /\ stuck \subseteq Path
    /\ overtaken \subseteq Content /\ spent \subseteq Rev
    /\ events \in Nat

\* The catalog is consistent with itself: aliases and active marks name registered
\* revisions, and every document has exactly one active revision, whatever order scans,
\* duplicates, reverted contents and removals come in.
OneActiveRevision ==
    /\ \A p \in Path : alias[p] # None => alias[p] \in revs
    /\ active \subseteq revs
    /\ \A doc \in Documents : Cardinality({r \in active : r[1] = doc}) = 1

\* The original of every registered revision is in the archive.  The only way to lose one
\* is a deletion that was planned when nothing referenced it, and carried out after a scan
\* had found the object there and relied on it (swept).
OriginalsKept == \A r \in revs : r[2] \in archive \cup swept

\* No points stay in the index for a document the catalog no longer has, through a crash
\* of the removal at any step, unless a job of it was claimed while it was being removed.
NoStrayPoints == \A r \in points : r[1] \in Documents \cup overtaken

\* A registered revision has or gets its extract job, unless the scan died between
\* registering it and queueing it (torn): the next scan finds it unchanged.
NoBookForgotten ==
    \A r \in revs : \/ job[r] # "none" \/ r \in torn
                    \/ \E s \in Scanner : /\ scan[s].step \in {"state", "enqueue"}
                                          /\ scan[s].rev = r /\ scan[s].new

\* A book that the page shows as queued or under way is under way: its job is open or
\* running, whatever was scanned, replaced, removed or lost since it was picked.  Excepted
\* is a revision that became active after its job had ended, for a removed book that came
\* back or a content that did (spent): it gets no new job.
ShownIsUnderWay ==
    \A p \in Path : Shown(ledger[p]) \in {"queued", "processing"} =>
        job[ledger[p]] \in {"open", "running"} \/ ledger[p] \in spent

\* In the end every file that is there is in the catalog with the content it has, through
\* deferrals, crashes, files changing under the scan, removals and unmounted disks, but
\* for the files of stuck: their fast-check row outlives the catalog rows, because a scan
\* wrote it after a removal, or because reconcile pruned the alias and not the row.
EveryFileGetsIn ==
    <>[](\A p \in Path \ stuck : Present(p) => alias[p] # None /\ alias[p][2] = disk[p])

\* What search believes to be published has its points, but while it is being removed.
PublishedIsIndexed ==
    \A r \in Rev : pubs[r] = "active" => r \in points \/ rm.doc = r[1]
=============================================================================
