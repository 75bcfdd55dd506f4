---------------------------- MODULE Publication ----------------------------
(***************************************************************************)
(* Publication of book revisions to the search index: the staged upsert    *)
(* and the switch B1-B4 (indexing.py publish_generation), the publish lock,*)
(* the publish job around it (worker.py _run_publish), the epoch fan-out,  *)
(* and the repair of half-done publications (reconcile_publications).      *)
(*                                                                         *)
(* SQLite and Qdrant are two stores no transaction spans.  A step of the   *)
(* model touches one of them; worker threads, a crash, a scan and the      *)
(* repair may come between any two.                                        *)
(*                                                                         *)
(* Abstraction.  A corpus-statistics epoch (stats_sha) is the set of       *)
(* revisions it was computed over, a publication the pair of a revision    *)
(* and an epoch (run, model and BM25 settings are fixed).  The points of a *)
(* publication are grouped in the batches that are upserted together.  A   *)
(* publish job is open until a holder of its lease commits it: attempts    *)
(* and back-off are JobQueue's subject.                                    *)
(***************************************************************************)
EXTENDS Naturals, FiniteSets

CONSTANTS
    Docs,         \* documents
    Versions,     \* contents a document's file may have; <<d, v>> is a revision
    Procs,        \* worker processes, and search commands, which only reconcile
    Concurrency,  \* worker.max_concurrent_jobs
    Batches,      \* upsert batches of a publication
    Embedded,     \* Qdrant in file mode: one process at a time
    Frozen,       \* retrieval.stats_epoch = "frozen"
    SlowHolders,  \* a live publisher may hold the lock beyond its TTL
    NoThread, NoProc, NoPub, NoRecord,
    MaxCrashes, MaxEdits, MaxLosses   \* bounds: process deaths, scans, lost leases
                                      \* and lost upserts

ASSUME PublicationAssumption ==
    /\ IsFiniteSet(Docs) /\ IsFiniteSet(Versions) /\ IsFiniteSet(Batches)
    /\ Concurrency \in Nat \ {0}
    /\ {Embedded, Frozen, SlowHolders} \subseteq BOOLEAN
    /\ {MaxCrashes, MaxEdits, MaxLosses} \subseteq Nat
    /\ NoProc \notin Procs
    /\ NoThread \notin Procs \X (1 .. Concurrency)
    /\ \A e \in SUBSET (Docs \X Versions) : e # NoRecord

Rev == Docs \X Versions
Epoch == SUBSET Rev
Pub == [rev : Rev, epoch : Epoch]
Point == Pub \X Batches
Key == Rev \X (Epoch \cup {NoRecord})   \* task key: revision and the recorded epoch
Thread == Procs \X (1 .. Concurrency)

VARIABLES
    current,    \* catalog: document -> the version of its active revision, as a set
    ready,      \* revisions whose chunks and vectors are committed
    staged,     \* publications table: the rows in each state
    active,
    superseded,
    off,        \* Qdrant: the points there are, by their active flag
    on,
    record,     \* meta key corpus_stats_epoch
    open,       \* publish jobs not yet settled
    done,       \* publish jobs settled
    lock,       \* publish lock: free, held or past its TTL; owner process; thread
    proc,       \* process -> down | repair | up | search
    todo,       \* process -> staged publications its repair has still to look at
    fix,        \* process -> the promotion its repair is in the middle of
    pc,         \* thread -> where it stands in _run_publish
    loc,        \* thread -> its job, whether its token is current, its publication, the
                \*           batches, publications and jobs it has still to deal with
    crashes, edits, losses

rows == <<staged, active, superseded>>
points == <<off, on>>
queue == <<open, done>>
repair == <<todo, fix>>
bounds == <<crashes, edits, losses>>
vars == <<current, ready, rows, points, record, queue, lock, proc, repair, pc, loc, bounds>>

Free == [state |-> "free", owner |-> NoProc, by |-> NoThread]
Idle == [key |-> NoPub, fenced |-> FALSE, pub |-> NoPub, left |-> {},
         others |-> {}, jobs |-> {}]
NoFix == [pub |-> NoPub, others |-> {}, step |-> "none"]

Init ==
    /\ current = [d \in Docs |-> {}]
    /\ ready = {}
    /\ staged = {} /\ active = {} /\ superseded = {}
    /\ off = {} /\ on = {}
    /\ record = NoRecord
    /\ open = {} /\ done = {}
    /\ lock = Free
    /\ proc = [p \in Procs |-> "down"]
    /\ todo = [p \in Procs |-> {}]
    /\ fix = [p \in Procs |-> NoFix]
    /\ pc = [w \in Thread |-> "idle"]
    /\ loc = [w \in Thread |-> Idle]
    /\ crashes = 0 /\ edits = 0 /\ losses = 0

-----------------------------------------------------------------------------
(* What the code reads, and what its statements do.                        *)

IsCurrent(r) == current[r[1]] = {r[2]}

\* A publication there is nothing left to do for.
SlipSettled(q) == q \in staged \cup active \cup superseded
Settled(q) == q \in active \cup superseded

OtherActive(q) == {o \in active : o # q /\ o.rev[1] = q.rev[1]}
Complete(q) == \A i \in Batches : <<q, i>> \in off \cup on
SlipSomeOn(q) == \E i \in Batches : <<q, i>> \in off \cup on
SomeOn(q) == \E i \in Batches : <<q, i>> \in on
OpenJob(r) == \E k \in open : k[1] = r

\* _corpus_stats_for_publish: the recorded epoch for a revision already active (or
\* for all of them when frozen), else the active corpus with the revision in it.
SlipEpochForAlwaysRecord(r) ==
    IF record # NoRecord THEN record ELSE {q.rev : q \in active} \cup {r}
EpochFor(r) ==
    LET activeRevs == {q.rev : q \in active}
    IN  IF record # NoRecord /\ (Frozen \/ r \in activeRevs) THEN record
        ELSE activeRevs \cup {r}

PointsOf(qs) == {x \in off \cup on : x[1] \in qs}
SetOn(qs) == on' = on \cup PointsOf(qs) /\ off' = off \ PointsOf(qs)
SetOff(qs) == off' = off \cup PointsOf(qs) /\ on' = on \ PointsOf(qs)

\* B4's row updates: q, if it has a row, becomes active whatever it was, and the
\* publications in losers are superseded.
Switched(q, losers) ==
    LET winner == ({q} \cap (staged \cup active \cup superseded)) \ losers
    IN  /\ staged' = (staged \ losers) \ winner
        /\ active' = (active \ losers) \cup winner
        /\ superseded' = (superseded \cup losers) \ winner

OtherStaged(q) == {o \in staged : o # q /\ o.rev = q.rev}
SlipSwitchAnyDoc(q) == Switched(q, (active \ {q}) \cup OtherStaged(q))
Switch(q) == Switched(q, OtherActive(q) \cup OtherStaged(q))

\* INSERT OR IGNORE on the task key.
Enqueued(ks) == open' = open \cup (ks \ done)

-----------------------------------------------------------------------------
(* The catalog and the stages before publication.                          *)

SetActive(d, v) == [current EXCEPT ![d] = {v}]

\* A scan finds content v under d's path: a new document, a new revision, or an
\* earlier revision again.
Scan(d, v) ==
    /\ edits < MaxEdits
    /\ current[d] # {v}
    /\ edits' = edits + 1
    /\ current' = SetActive(d, v)
    /\ UNCHANGED <<ready, rows, points, record, queue, lock, proc, repair, pc, loc, crashes, losses>>

\* The embed job of an active revision commits and hands over to publication.  The
\* task keys before it are those of the revision: this happens once per revision.
Embed(w, r) ==
    /\ pc[w] = "idle" /\ proc[w[1]] = "up"
    /\ IsCurrent(r)
    /\ r \notin ready
    /\ ready' = ready \cup {r}
    /\ Enqueued({<<r, record>>})
    /\ UNCHANGED <<current, rows, points, record, done, lock, proc, repair, pc, loc, bounds>>

-----------------------------------------------------------------------------
(* The publish job.                                                        *)

Goes(w, l) == pc' = [pc EXCEPT ![w] = l]
Leaves(w) == loc' = [loc EXCEPT ![w] = Idle] /\ Goes(w, "idle")

LeaseLost(w) ==
    /\ loc[w].fenced
    /\ losses < MaxLosses
    /\ losses' = losses + 1
    /\ loc' = [loc EXCEPT ![w].fenced = FALSE]
    /\ UNCHANGED <<current, ready, rows, points, record, queue, lock, proc, repair, pc, crashes, edits>>

LockExpires ==
    /\ lock.state = "held"
    /\ SlowHolders \/ lock.by = NoThread
    /\ lock' = [lock EXCEPT !.state = "old"]
    /\ UNCHANGED <<current, ready, rows, points, record, queue, proc, repair, pc, loc, bounds>>

\* A claim, and what the handler reads before it asks for the lock: a job of a
\* replaced revision, or of a publication already made, has nothing to do.
Take(w) ==
    /\ pc[w] = "idle" /\ proc[w[1]] = "up"
    /\ \E k \in open :
          /\ \A v \in Thread : ~(loc[v].fenced /\ loc[v].key = k)
          /\ loc' = [loc EXCEPT ![w] = [Idle EXCEPT !.key = k, !.fenced = TRUE]]
          /\ Goes(w, IF ~IsCurrent(k[1]) \/ Settled([rev |-> k[1], epoch |-> k[2]])
                     THEN "commit" ELSE "lock")
    /\ UNCHANGED <<current, ready, rows, points, record, queue, lock, proc, repair, bounds>>

\* A lock per job instead of one for the index.
SlipLockHeld(w) == lock.state = "held" /\ \E v \in Thread : lock.by = v /\ loc[v].key = loc[w].key
LockHeld(w) == lock.state = "held"

\* Whoever finds the lock held defers its job.
Lock(w) ==
    /\ pc[w] = "lock"
    /\ IF LockHeld(w)
       THEN Leaves(w) /\ UNCHANGED lock
       ELSE /\ lock' = [state |-> "held", owner |-> w[1], by |-> w]
            /\ Goes(w, "plan")
            /\ UNCHANGED loc
    /\ UNCHANGED <<current, ready, rows, points, record, queue, proc, repair, bounds>>

\* release_publish_lock compares the owner, which names the process.
Unlocked(w) == IF lock.owner = w[1] THEN Free ELSE lock

\* The epoch, and a second look for a publication already made.
Plan(w) ==
    /\ pc[w] = "plan"
    /\ LET q == [rev |-> loc[w].key[1], epoch |-> EpochFor(loc[w].key[1])]
       IN  /\ loc' = [loc EXCEPT ![w].pub = q, ![w].left = Batches]
           /\ Goes(w, IF Settled(q) THEN "commit" ELSE "stage")
    /\ UNCHANGED <<current, ready, rows, points, record, queue, lock, proc, repair, bounds>>

\* An upsert replaces the whole payload of a point, its active flag included.  A
\* write may be lost.
Upsert(x) ==
    \/ /\ off' = off \cup {x}
       /\ on' = on \ {x}
       /\ UNCHANGED losses
    \/ /\ losses < MaxLosses
       /\ losses' = losses + 1
       /\ UNCHANGED points

\* One upsert and the heartbeat after it.
Stage(w) ==
    /\ pc[w] = "stage"
    /\ \E i \in loc[w].left :
          /\ Upsert(<<loc[w].pub, i>>)
          /\ IF loc[w].fenced
             THEN /\ loc' = [loc EXCEPT ![w].left = @ \ {i}]
                  /\ Goes(w, IF loc[w].left = {i} THEN "verify" ELSE "stage")
                  /\ UNCHANGED lock
             ELSE /\ Leaves(w)
                  /\ lock' = Unlocked(w)
    /\ UNCHANGED <<current, ready, rows, record, queue, proc, repair, crashes, edits>>

SlipVerify(w) ==
    /\ pc[w] = "verify"
    /\ Goes(w, "B1")
    /\ UNCHANGED <<current, ready, rows, points, record, queue, lock, proc, repair, loc, bounds>>

\* The exact set of points is there, or the attempt fails and the job is retried.
Verify(w) ==
    /\ pc[w] = "verify"
    /\ IF Complete(loc[w].pub)
       THEN Goes(w, "B1") /\ UNCHANGED <<loc, lock>>
       ELSE Leaves(w) /\ lock' = Unlocked(w)
    /\ UNCHANGED <<current, ready, rows, points, record, queue, proc, repair, bounds>>

\* The staged row, unless the publication has a row already.
B1(w) ==
    /\ pc[w] = "B1"
    /\ staged' = IF Settled(loc[w].pub) THEN staged ELSE staged \cup {loc[w].pub}
    /\ Goes(w, "B2")
    /\ UNCHANGED <<current, ready, active, superseded, points, record, queue, lock, proc, repair, loc, bounds>>

B2(w) ==
    /\ pc[w] = "B2"
    /\ SetOn({loc[w].pub})
    /\ Goes(w, "B3read")
    /\ UNCHANGED <<current, ready, rows, record, queue, lock, proc, repair, loc, bounds>>

B3Read(w) ==
    /\ pc[w] = "B3read"
    /\ loc' = [loc EXCEPT ![w].others = OtherActive(loc[w].pub)]
    /\ Goes(w, "B3")
    /\ UNCHANGED <<current, ready, rows, points, record, queue, lock, proc, repair, bounds>>

B3(w) ==
    /\ pc[w] = "B3"
    /\ SetOff(loc[w].others)
    /\ loc' = [loc EXCEPT ![w].others = {}]
    /\ Goes(w, "B4")
    /\ UNCHANGED <<current, ready, rows, record, queue, lock, proc, repair, bounds>>

B4(w) ==
    /\ pc[w] = "B4"
    /\ Switch(loc[w].pub)
    /\ record' = loc[w].pub.epoch
    /\ Goes(w, "fanout")
    /\ UNCHANGED <<current, ready, points, queue, lock, proc, repair, loc, bounds>>

\* The active publications of another epoch than r's are to be published under r's.
Strangers(r) == {o \in active : o.rev # r /\ \E q \in active : q.rev = r /\ q.epoch # o.epoch}
SlipRepublishes(r) == {<<o.rev, o.epoch>> : o \in Strangers(r)}
Republishes(r) == {<<o.rev, q.epoch>> : o \in Strangers(r), q \in {a \in active : a.rev = r}}

\* _enqueue_epoch_republishes reads, then enqueues one job after another.
FanOut(w) ==
    /\ pc[w] = "fanout"
    /\ loc' = [loc EXCEPT ![w].jobs = Republishes(loc[w].key[1])]
    /\ Goes(w, "enqueue")
    /\ UNCHANGED <<current, ready, rows, points, record, queue, lock, proc, repair, bounds>>

EnqueueNext(w) ==
    /\ pc[w] = "enqueue"
    /\ \/ /\ loc[w].jobs = {}
          /\ Goes(w, "commit")
          /\ UNCHANGED <<open, loc>>
       \/ \E k \in loc[w].jobs :
             /\ Enqueued({k})
             /\ loc' = [loc EXCEPT ![w].jobs = @ \ {k}]
             /\ UNCHANGED pc
    /\ UNCHANGED <<current, ready, rows, points, record, done, lock, proc, repair, bounds>>

\* jobs.succeed, then the lock is released.  A thread whose lease was lost leaves
\* the job to its new holder (and the error ends the worker: Stop).
Commit(w) ==
    /\ pc[w] = "commit"
    /\ IF loc[w].fenced
       THEN /\ open' = open \ {loc[w].key}
            /\ done' = done \cup {loc[w].key}
       ELSE UNCHANGED queue
    /\ lock' = IF loc[w].pub = NoPub THEN lock ELSE Unlocked(w)
    /\ Leaves(w)
    /\ UNCHANGED <<current, ready, rows, points, record, proc, repair, bounds>>

Publish(w) ==
    \/ Take(w) \/ Lock(w) \/ Plan(w) \/ Stage(w) \/ Verify(w) \/ B1(w)
    \/ B2(w) \/ B3Read(w) \/ B3(w) \/ B4(w) \/ FanOut(w) \/ EnqueueNext(w) \/ Commit(w)

-----------------------------------------------------------------------------
(* Processes and the repair of half-done publications.                     *)

Alone(p) == Embedded => \A o \in Procs \ {p} : proc[o] = "down"

\* _reconcile_index: settled active revisions neither staged nor active.
IndexGaps ==
    {r \in ready : IsCurrent(r) /\ \A q \in staged \cup active : q.rev # r}

\* A worker starts: gaps are enqueued, then the staged publications are read for
\* repair.  With a remote index the repair is skipped while the index is away.
Start(p) ==
    /\ proc[p] = "down" /\ Alone(p)
    /\ Enqueued({<<r, record>> : r \in IndexGaps})
    /\ \/ /\ proc' = [proc EXCEPT ![p] = "repair"]
          /\ todo' = [todo EXCEPT ![p] = staged]
       \/ /\ ~Embedded
          /\ proc' = [proc EXCEPT ![p] = "up"]
          /\ UNCHANGED todo
    /\ UNCHANGED <<current, ready, rows, points, record, done, lock, fix, pc, loc, bounds>>

\* search and answer repair too, and do nothing else here.
StartSearch(p) ==
    /\ proc[p] = "down" /\ Alone(p)
    /\ proc' = [proc EXCEPT ![p] = "search"]
    /\ todo' = [todo EXCEPT ![p] = staged]
    /\ UNCHANGED <<current, ready, rows, points, record, queue, lock, fix, pc, loc, bounds>>

\* One staged row and its points in the index: incomplete ones are left alone; with
\* some point active the switch is to be completed, with none the row may be an orphan.
Examine(p) ==
    /\ fix[p] = NoFix
    /\ \E q \in todo[p] :
          /\ todo' = [todo EXCEPT ![p] = @ \ {q}]
          /\ IF Complete(q)
             THEN fix' = [fix EXCEPT ![p] =
                            [pub |-> q, others |-> {},
                             step |-> IF SomeOn(q) THEN "read" ELSE "orphan"]]
             ELSE UNCHANGED fix
    /\ UNCHANGED <<current, ready, rows, points, record, queue, lock, proc, pc, loc, bounds>>

\* A row no job will finish is deleted.
RepairOrphan(p) ==
    /\ fix[p].step = "orphan"
    /\ IF OpenJob(fix[p].pub.rev)
       THEN UNCHANGED rows
       ELSE /\ staged' = staged \ {fix[p].pub}
            /\ active' = active \ {fix[p].pub}
            /\ superseded' = superseded \ {fix[p].pub}
    /\ fix' = [fix EXCEPT ![p] = NoFix]
    /\ UNCHANGED <<current, ready, points, record, queue, lock, proc, todo, pc, loc, bounds>>

RepairRead(p) ==
    /\ fix[p].step = "read"
    /\ fix' = [fix EXCEPT ![p].others = OtherActive(fix[p].pub), ![p].step = "B3"]
    /\ UNCHANGED <<current, ready, rows, points, record, queue, lock, proc, todo, pc, loc, bounds>>

RepairB3(p) ==
    /\ fix[p].step = "B3"
    /\ SetOff(fix[p].others)
    /\ fix' = [fix EXCEPT ![p].step = "B4"]
    /\ UNCHANGED <<current, ready, rows, record, queue, lock, proc, todo, pc, loc, bounds>>

RepairB4(p) ==
    /\ fix[p].step = "B4"
    /\ Switch(fix[p].pub)
    /\ fix' = [fix EXCEPT ![p] = NoFix]
    /\ UNCHANGED <<current, ready, points, record, queue, lock, proc, todo, pc, loc, bounds>>

Repaired(p) ==
    /\ proc[p] \in {"repair", "search"} /\ todo[p] = {} /\ fix[p] = NoFix
    /\ proc' = [proc EXCEPT ![p] = IF @ = "repair" THEN "up" ELSE "down"]
    /\ UNCHANGED <<current, ready, rows, points, record, queue, lock, repair, pc, loc, bounds>>

Repair(p) ==
    \/ Examine(p) \/ RepairOrphan(p) \/ RepairRead(p) \/ RepairB3(p) \/ RepairB4(p)
    \/ Repaired(p)

\* A worker stops between jobs.
Stop(p) ==
    /\ proc[p] = "up"
    /\ \A w \in Thread : w[1] = p => pc[w] = "idle"
    /\ proc' = [proc EXCEPT ![p] = "down"]
    /\ UNCHANGED <<current, ready, rows, points, record, queue, lock, repair, pc, loc, bounds>>

\* A process dies; its pid, under which it may hold the lock, is nobody's any more.
Crash(p) ==
    /\ proc[p] # "down"
    /\ crashes < MaxCrashes
    /\ crashes' = crashes + 1
    /\ proc' = [proc EXCEPT ![p] = "down"]
    /\ todo' = [todo EXCEPT ![p] = {}]
    /\ fix' = [fix EXCEPT ![p] = NoFix]
    /\ pc' = [w \in Thread |-> IF w[1] = p THEN "idle" ELSE pc[w]]
    /\ loc' = [w \in Thread |-> IF w[1] = p THEN Idle ELSE loc[w]]
    /\ lock' = IF lock.owner = p THEN [lock EXCEPT !.owner = NoProc, !.by = NoThread] ELSE lock
    /\ UNCHANGED <<current, ready, rows, points, record, queue, edits, losses>>

Next ==
    \/ \E d \in Docs, v \in Versions : Scan(d, v)
    \/ \E w \in Thread : Publish(w) \/ LeaseLost(w) \/ \E r \in Rev : Embed(w, r)
    \/ LockExpires
    \/ \E p \in Procs : \/ Start(p) \/ StartSearch(p) \/ Repair(p) \/ Stop(p) \/ Crash(p)

Spec == Init /\ [][Next]_vars

(***************************************************************************)
(* Fairness: threads run and claim open jobs however often the worker is   *)
(* stopped between jobs and started again, and both happen; a lock whose   *)
(* holder died runs out.                                                   *)
(***************************************************************************)
Fairness ==
    /\ \A w \in Thread : SF_vars(\E r \in Rev : Embed(w, r)) /\ SF_vars(Publish(w))
    /\ WF_vars(LockExpires)
    /\ \A p \in Procs : /\ SF_vars(Start(p)) /\ SF_vars(Stop(p)) /\ WF_vars(Repair(p))

FairSpec == Spec /\ Fairness

-----------------------------------------------------------------------------
(* Properties.                                                             *)

\* Where a thread has chosen the publication it makes.
Placed == {"stage", "verify", "B1", "B2", "B3read", "B3", "B4", "fanout", "enqueue"}

\* What a thread, and the repair of a process, remember.
Local == [key : Key \cup {NoPub}, fenced : BOOLEAN, pub : Pub \cup {NoPub},
          left : SUBSET Batches, others : SUBSET Pub, jobs : SUBSET Key]
Fix == [pub : Pub \cup {NoPub}, others : SUBSET Pub,
        step : {"none", "orphan", "read", "B3", "B4"}]

StoresType ==
    /\ current \in [Docs -> {{}} \cup {{v} : v \in Versions}]
    /\ ready \subseteq Rev
    /\ staged \subseteq Pub /\ active \subseteq Pub /\ superseded \subseteq Pub
    /\ off \subseteq Point /\ on \subseteq Point
    /\ record \in Epoch \cup {NoRecord}
    /\ open \subseteq Key /\ done \subseteq Key
    /\ lock \in [state : {"free", "held", "old"}, owner : Procs \cup {NoProc},
                 by : Thread \cup {NoThread}]

ThreadsType ==
    /\ pc \in [Thread -> {"idle", "lock", "commit", "plan"} \cup Placed]
    /\ loc \in [Thread -> Local]
    /\ \A w \in Thread : /\ pc[w] # "idle" => loc[w].key \in Key
                         /\ pc[w] \in Placed => loc[w].pub \in Pub

RepairsType ==
    /\ proc \in [Procs -> {"down", "repair", "up", "search"}]
    /\ todo \in [Procs -> SUBSET Pub]
    /\ fix \in [Procs -> Fix]
    /\ \A p \in Procs : fix[p].step # "none" => fix[p].pub \in Pub

BoundsType == crashes \in Nat /\ edits \in Nat /\ losses \in Nat

TypeOK == StoresType /\ ThreadsType /\ RepairsType /\ BoundsType

\* A row of the publications table is in one state, and a document has one active
\* publication at most, whoever switches: publishers, a stolen lock, the repair.
OneActivePerDoc ==
    /\ staged \cap active = {} /\ active \cap superseded = {} /\ staged \cap superseded = {}
    /\ off \cap on = {}
    /\ \A q, o \in active : q.rev[1] = o.rev[1] => q = o

\* What is active was verified: no point of an active publication is missing, even
\* if upserts are lost or a publication is made over several attempts.
ActiveIsComplete == \A q \in active : Complete(q)

\* Nobody is at work on document d, and no half-done publication of it is left.
Quiet(d) ==
    /\ \A q \in staged : q.rev[1] # d
    /\ \A w \in Thread : loc[w].key # NoPub => loc[w].key[1][1] # d
    /\ \A p \in Procs : fix[p] = NoFix \/ fix[p].pub.rev[1] # d

\* A book is never left dark: outside a switch, every point of an active publication
\* carries the active flag, without which search does not return it.
NoDarkBook ==
    \A q \in active : Quiet(q.rev[1]) => \A i \in Batches : <<q, i>> \in on

\* The tables, switches and repairs implement the shelf: a document once published
\* has one active publication from then on, whatever crashes, lost writes, lost
\* leases and removals of orphaned rows come between.
EditionsOf == [d \in Docs |-> {q \in Pub : q.rev[1] = d}]
Served == [d \in Docs |-> {q \in active : q.rev[1] = d}]
PublicationShelf == INSTANCE Shelf WITH shelf <- Served
ImplementsShelf == PublicationShelf!Spec

\* The publish lock excludes: no two threads are between plan and switch.
Inside(w) == pc[w] \notin {"idle", "lock", "commit"}
SerialSwitch == \A v, w \in Thread : Inside(v) /\ Inside(w) => v = w

\* With no crash, the recorded epoch was computed over every active revision: a
\* publication that reuses it weighs its terms for the corpus that is there.
RecordCoversActive ==
    crashes = 0 => \A q \in active : record # NoRecord /\ q.rev \in record

\* With no crash, all active publications share one statistics epoch in the end: the
\* fan-out of each publication reaches every other, whatever was scanned meanwhile.
EpochsConverge == [](crashes = 0) => <>[](\A q, o \in active : q.epoch = o.epoch)

\* The current revision of every document can be found in the end: published, with
\* every point's flag on, whatever crashes, lost writes and lost leases came between.
Findable(r) == \E q \in active : q.rev = r /\ \A i \in Batches : <<q, i>> \in on
CurrentIsFound == <>[](\A d \in Docs, v \in Versions : IsCurrent(<<d, v>>) => Findable(<<d, v>>))
=============================================================================
