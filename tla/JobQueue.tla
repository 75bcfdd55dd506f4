------------------------------ MODULE JobQueue ------------------------------
(***************************************************************************)
(* Worker processes, each with Concurrency job threads, sharing one job    *)
(* table (jobs.py, the claim loop of worker.py, and the start, stop and    *)
(* force-start paths of cli.py and locks.py).  What a claimed job does is  *)
(* left open: its handler heartbeats any number of times and then commits, *)
(* fails, defers or parks the job.                                         *)
(***************************************************************************)
EXTENDS JobTable

CONSTANTS
    Concurrency,  \* worker.max_concurrent_jobs
    NoClaim,      \* what an idle thread holds
    Embedded,     \* Qdrant in file mode: one client per storage folder
    MaxCrashes,   \* bound on process deaths explored
    MaxCommands   \* bound on operator commands explored (pause, retry, remove, stop)

ASSUME JobQueueAssumption ==
    /\ Concurrency \in Nat \ {0}
    /\ Embedded \in BOOLEAN
    /\ MaxCrashes \in Nat
    /\ MaxCommands \in Nat

VARIABLES
    jobs,      \* the jobs table
    paused,    \* meta key 'paused'
    proc,      \* process -> down | forcing | up | stopping
    snapshot,  \* process -> rows reclaim_dead_lease_owners() has still to visit
    pc,        \* thread -> idle | work | failing
    held,      \* thread -> the Claimed it works on
    crashes,   \* process deaths so far (bound)
    commands   \* operator commands so far (bound)

vars == <<jobs, paused, proc, snapshot, pc, held, crashes, commands>>
bounds == <<crashes, commands>>

Thread == Procs \X (1 .. Concurrency)
ThreadsOf(p) == {p} \X (1 .. Concurrency)

\* Claimed: the row as it was claimed, with its fencing token.  "transient" is
\* the argument of the fail() call in progress.
Claim == [key : Keys, token : Tokens, attempts : 0 .. AttemptsCap, transient : BOOLEAN]

ProcState == {"down", "forcing", "up", "stopping"}

TypeOK ==
    /\ jobs \in Table
    /\ paused \in BOOLEAN
    /\ proc \in [Procs -> ProcState]
    /\ snapshot \in [Procs -> SUBSET (Keys \X (Procs \cup {NoOwner}))]
    /\ pc \in [Thread -> {"idle", "work", "failing"}]
    /\ held \in [Thread -> Claim \cup {NoClaim}]
    /\ \A w \in Thread : pc[w] # "idle" => held[w] \in Claim
    /\ crashes \in Nat
    /\ commands \in Nat

Init ==
    /\ jobs = [k \in Keys |-> NoRow]
    /\ paused = FALSE
    /\ proc = [p \in Procs |-> "down"]
    /\ snapshot = [p \in Procs |-> {}]
    /\ pc = [w \in Thread |-> "idle"]
    /\ held = [w \in Thread |-> NoClaim]
    /\ crashes = 0
    /\ commands = 0

-----------------------------------------------------------------------------
(* The queue and the clock.                                                *)

\* Scan, a finished stage or a reconcile pass enqueues a job.
Enqueue(k) ==
    /\ jobs[k].state = "absent"
    /\ jobs' = Inserted(jobs, k)
    /\ UNCHANGED <<paused, proc, snapshot, pc, held, bounds>>

LeaseExpires(k) ==
    /\ jobs[k].state = "running"
    /\ ~jobs[k].expired
    /\ jobs' = [jobs EXCEPT ![k].expired = TRUE]
    /\ UNCHANGED <<paused, proc, snapshot, pc, held, bounds>>

BecomesDue(k) ==
    /\ jobs[k].state = "retryable_failed"
    /\ ~jobs[k].due
    /\ jobs' = [jobs EXCEPT ![k].due = TRUE]
    /\ UNCHANGED <<paused, proc, snapshot, pc, held, bounds>>

-----------------------------------------------------------------------------
(* A job thread.  A process that is stopping finishes what it holds.       *)

\* Tokens unique among the rows only, not among the threads that still hold one.
SlipUsedTokens == {jobs[k].token : k \in Keys}

UsedTokens == {jobs[k].token : k \in Keys}
              \cup {held[w].token : w \in {v \in Thread : pc[v] # "idle"}}

ClaimJob(w) ==
    /\ pc[w] = "idle"
    /\ proc[w[1]] = "up"
    /\ ~paused
    /\ \E k \in FirstEligible(Reclaimed(jobs)), t \in Tokens \ UsedTokens :
          /\ jobs' = ClaimedBy(Reclaimed(jobs), k, w[1], t)
          /\ held' = [held EXCEPT ![w] = [key |-> k, token |-> t,
                                          attempts |-> jobs'[k].attempts,
                                          transient |-> FALSE]]
    /\ pc' = [pc EXCEPT ![w] = "work"]
    /\ UNCHANGED <<paused, proc, snapshot, bounds>>

LetGo(w) ==
    /\ pc' = [pc EXCEPT ![w] = "idle"]
    /\ held' = [held EXCEPT ![w] = NoClaim]

Heartbeat(w) ==
    /\ pc[w] = "work"
    /\ Fenced(jobs, held[w])
    /\ jobs' = HeartbeatRow(jobs, held[w].key)
    /\ UNCHANGED <<paused, proc, snapshot, pc, held, bounds>>

Succeed(w) ==
    /\ pc[w] = "work"
    /\ Fenced(jobs, held[w])
    /\ jobs' = SucceedRow(jobs, held[w].key)
    /\ LetGo(w)
    /\ UNCHANGED <<paused, proc, snapshot, bounds>>

Defer(w) ==
    /\ pc[w] = "work"
    /\ Fenced(jobs, held[w])
    /\ jobs' = DeferRow(jobs, held[w].key)
    /\ LetGo(w)
    /\ UNCHANGED <<paused, proc, snapshot, bounds>>

Release(w) ==
    /\ pc[w] = "work"
    /\ Fenced(jobs, held[w])
    /\ jobs' = ReleaseRow(jobs, held[w].key)
    /\ LetGo(w)
    /\ UNCHANGED <<paused, proc, snapshot, bounds>>

\* fail() runs two autocommitted statements; other writers may come between.
FailBegin(w, transient) ==
    /\ pc[w] = "work"
    /\ Fenced(jobs, held[w])
    /\ jobs' = ErrorRow(jobs, held[w].key)
    /\ pc' = [pc EXCEPT ![w] = "failing"]
    /\ held' = [held EXCEPT ![w].transient = transient]
    /\ UNCHANGED <<paused, proc, snapshot, bounds>>

FailEnd(w) ==
    /\ pc[w] = "failing"
    /\ jobs' = FailRow(jobs, held[w], held[w].transient)
    /\ LetGo(w)
    /\ UNCHANGED <<paused, proc, snapshot, bounds>>

\* A thread that drops its job on any error of the heartbeat.
SlipStaleLeaseOnAnyError(w) ==
    /\ pc[w] = "work"
    /\ LetGo(w)
    /\ UNCHANGED <<jobs, paused, proc, snapshot, bounds>>

\* A fenced write matched no row and raised StaleLeaseError.  Raised by a
\* heartbeat, or by the commit of the stages that catch it, the thread drops the
\* job; raised by fail(), or by the commit of the other stages, it reaches
\* run_worker, which re-raises it and leaves.
StaleLease(w) ==
    /\ pc[w] = "work"
    /\ ~Fenced(jobs, held[w])
    /\ LetGo(w)
    /\ \/ proc' = proc
       \/ proc' = [proc EXCEPT ![w[1]] = "stopping"]
    /\ UNCHANGED <<jobs, paused, snapshot, bounds>>

-----------------------------------------------------------------------------
(* Processes.                                                              *)

Others(p) == Procs \ {p}
Alive(p) == proc[p] # "down"

\* The processes ps are gone, with their threads.  Their
\* leases stay in the table, and what another process has read of it names an
\* owner that is no longer alive.
Killed(ps) ==
    /\ jobs' = OrphanRows(jobs, ps)
    /\ pc' = [w \in Thread |-> IF w[1] \in ps THEN "idle" ELSE pc[w]]
    /\ held' = [w \in Thread |-> IF w[1] \in ps THEN NoClaim ELSE held[w]]

Orphaned(visits, ps) ==
    {<<r[1], IF r[2] \in ps THEN NoOwner ELSE r[2]>> : r \in visits}

\* In file mode the Qdrant client locks its folder from run_worker's first step to
\* its last; a second client is refused.
HoldsStore(q) == proc[q] \in {"up", "stopping"}
StoreOpens(p) == Embedded => \A q \in Others(p) : ~HoldsStore(q)

Start(p) ==
    /\ proc[p] = "down"
    /\ StoreOpens(p)
    /\ proc' = [proc EXCEPT ![p] = "up"]
    /\ UNCHANGED <<jobs, paused, snapshot, pc, held, bounds>>

\* ingest --force: in file mode the holder of the Qdrant lock is killed first;
\* then the running rows are read, to be visited one by one.
ForceStart(p) ==
    /\ proc[p] = "down"
    /\ commands < MaxCommands
    /\ commands' = commands + 1
    /\ LET killed == IF Embedded THEN {q \in Others(p) : HoldsStore(q)} ELSE {}
       IN  /\ proc' = [q \in Procs |-> IF q = p THEN "forcing"
                                       ELSE IF q \in killed THEN "down" ELSE proc[q]]
           /\ Killed(killed)
           /\ snapshot' = [q \in Procs |->
                IF q = p THEN {<<k, jobs'[k].owner>> : k \in {l \in Keys : jobs[l].state = "running"}}
                ELSE Orphaned(snapshot[q], killed)]
    /\ UNCHANGED <<paused, crashes>>

ForceVisit(p) ==
    /\ proc[p] = "forcing"
    /\ \E r \in snapshot[p] :
          /\ jobs' = IF r[2] = NoOwner THEN ReclaimRow(jobs, r[1]) ELSE jobs
          /\ snapshot' = [snapshot EXCEPT ![p] = @ \ {r}]
    /\ UNCHANGED <<paused, proc, pc, held, bounds>>

ForceDone(p) ==
    /\ proc[p] = "forcing"
    /\ snapshot[p] = {}
    /\ proc' = [proc EXCEPT ![p] = IF StoreOpens(p) THEN "up" ELSE "down"]
    /\ UNCHANGED <<jobs, paused, snapshot, pc, held, bounds>>

\* SIGTERM: finish the jobs in flight, claim nothing more.
Stop(p) ==
    /\ proc[p] = "up"
    /\ commands < MaxCommands
    /\ commands' = commands + 1
    /\ proc' = [proc EXCEPT ![p] = "stopping"]
    /\ UNCHANGED <<jobs, paused, snapshot, pc, held, crashes>>

Exit(p) ==
    /\ proc[p] = "stopping"
    /\ \A w \in ThreadsOf(p) : pc[w] = "idle"
    /\ proc' = [proc EXCEPT ![p] = "down"]
    /\ Killed({p})
    /\ snapshot' = [q \in Procs |-> Orphaned(snapshot[q], {p})]
    /\ UNCHANGED <<paused, bounds>>

Crash(p) ==
    /\ Alive(p)
    /\ crashes < MaxCrashes
    /\ crashes' = crashes + 1
    /\ proc' = [proc EXCEPT ![p] = "down"]
    /\ Killed({p})
    /\ snapshot' = [q \in Procs |-> IF q = p THEN {} ELSE Orphaned(snapshot[q], {p})]
    /\ UNCHANGED <<paused, commands>>

-----------------------------------------------------------------------------
(* Operator commands that touch the queue.                                 *)

Pause ==
    /\ ~paused
    /\ commands < MaxCommands
    /\ commands' = commands + 1
    /\ paused' = TRUE
    /\ UNCHANGED <<jobs, proc, snapshot, pc, held, crashes>>

Resume ==
    /\ paused
    /\ paused' = FALSE
    /\ UNCHANGED <<jobs, proc, snapshot, pc, held, bounds>>

Retry(includePermanent) ==
    /\ commands < MaxCommands
    /\ commands' = commands + 1
    /\ jobs' = RetryRows(jobs, includePermanent)
    /\ UNCHANGED <<paused, proc, snapshot, pc, held, crashes>>

CancelOpen(ks) ==
    /\ commands < MaxCommands
    /\ commands' = commands + 1
    /\ jobs' = CancelRows(jobs, ks)
    /\ UNCHANGED <<paused, proc, snapshot, pc, held, crashes>>

ThreadStep(w) ==
    \/ ClaimJob(w) \/ Heartbeat(w) \/ Succeed(w) \/ Defer(w) \/ Release(w)
    \/ \E transient \in BOOLEAN : FailBegin(w, transient)
    \/ FailEnd(w) \/ StaleLease(w)

ProcStep(p) ==
    \/ Start(p) \/ ForceStart(p) \/ ForceVisit(p) \/ ForceDone(p)
    \/ Stop(p) \/ Exit(p) \/ Crash(p)

Next ==
    \/ \E k \in Keys : Enqueue(k) \/ LeaseExpires(k) \/ BecomesDue(k) \/ CancelOpen({k})
    \/ \E w \in Thread : ThreadStep(w)
    \/ \E p \in Procs : ProcStep(p)
    \/ Pause \/ Resume
    \/ \E includePermanent \in BOOLEAN : Retry(includePermanent)

Spec == Init /\ [][Next]_vars

(***************************************************************************)
(* Fairness.  The claim loop polls for ever, a handler returns, the clock  *)
(* advances, a stopped or crashed worker is started again by its service   *)
(* manager, and the operator does not leave the queue paused.  A handler   *)
(* that is run again and again does not defer or park its job for ever     *)
(* (what it waits for is itself a job): it commits or fails some day.      *)
(***************************************************************************)
Fairness ==
    /\ \A k \in Keys : WF_vars(LeaseExpires(k)) /\ WF_vars(BecomesDue(k))
    /\ \A w \in Thread :
          /\ WF_vars(ClaimJob(w))
          /\ SF_vars(Succeed(w) \/ \E transient \in BOOLEAN : FailBegin(w, transient))
          /\ WF_vars(FailEnd(w))
          /\ WF_vars(StaleLease(w))
    /\ \A p \in Procs : WF_vars(Start(p)) /\ WF_vars(ForceVisit(p))
                        /\ WF_vars(ForceDone(p)) /\ WF_vars(Exit(p))
    /\ WF_vars(Resume)

FairSpec == Spec /\ Fairness

-----------------------------------------------------------------------------
(* Properties.                                                             *)

Working(w) == pc[w] # "idle"
HoldsLease(w) == Working(w) /\ Fenced(jobs, held[w])

\* No two threads, of one process or of two, hold the current token of the same
\* job: claim() mints a token nobody else has and every claim replaces it.
LeaseExclusive ==
    \A v, w \in Thread :
        HoldsLease(v) /\ HoldsLease(w) /\ held[v].key = held[w].key => v = w

\* A live process never owns a running job that none of its threads works on:
\* such a job would be heartbeaten by nobody, and --force would spare it.
NoLostLease ==
    \A k \in Keys : jobs[k].owner # NoOwner =>
        \E w \in ThreadsOf(jobs[k].owner) : HoldsLease(w) /\ held[w].key = k

\* What a thread decides from (Claimed.attempts in fail()) is the row as it stands
\* for as long as its token is current, whatever retry, remove or --force did since.
ClaimIsCurrent ==
    \A w \in Thread : HoldsLease(w) =>
        /\ jobs[held[w].key].state = "running"
        /\ jobs[held[w].key].owner = w[1]
        /\ jobs[held[w].key].attempts = held[w].attempts

\* The current holder of k ends its own lease in this step.
EndedByHolder(k) ==
    \E w \in Thread : HoldsLease(w) /\ held[w].key = k /\ ~Working(w)'

\* The second statement of a fail() whose token is no longer that of k.
LateFail(k) ==
    \E w \in Thread : /\ pc[w] = "failing" /\ ~HoldsLease(w)
                      /\ held[w].key = k /\ ~Working(w)'

\* The visit of a row that --force had read before.
LateVisit(k) ==
    \E p \in Procs : \E r \in snapshot[p] : r[1] = k /\ r \notin snapshot'[p]

Ended(k) == jobs[k].state = "running" /\ jobs'[k].token # jobs[k].token
Undone(k) == jobs[k].state \in {"succeeded", "cancelled"} /\ jobs'[k].state # jobs[k].state

\* The fencing promise of jobs.py, with its two exceptions.  A lease ends by its
\* holder's hand, or once it has run out, or when its owner is dead, and a settled
\* job stays settled, except for the unfenced second statement of fail() and the
\* visit of --force to a row read before.
OnlyUnfencedWritesBreakLeases ==
    [][\A k \in Keys :
          /\ Ended(k) => \/ jobs[k].expired \/ jobs[k].owner = NoOwner
                         \/ EndedByHolder(k) \/ LateFail(k) \/ LateVisit(k)
          /\ Undone(k) => LateFail(k)]_vars

\* Every job put on the queue is settled: it succeeds, fails for good or is
\* cancelled, through crashes, lost leases, pauses, stops and restarts.
AllSettle == \A k \in Keys : jobs[k].state # "absent" ~> jobs[k].state \in Terminal
=============================================================================
