----------------------------- MODULE BoundedRun -----------------------------
(* Worker runs that end by themselves: `ingest --max-books N` (run_worker of
   worker.py), with the version gate before the first claim (check_version_gate)
   and the pidfile by which `stop` finds the worker (cli.py, locks.py).

   A job here is what the drain decision sees of it; leases and attempts are
   JobQueue's subject. A book has an extract job and, once that is done, an
   index job that stands for the later stages. *)
EXTENDS Naturals, Sequences, FiniteSets, SequencesExt

CONSTANTS
    Book,
    Order,       \* the books by job_id of their extract jobs
    Budget,      \* --max-books
    MaxHands,    \* worker.max_concurrent_jobs is one of 1 .. MaxHands
    Version,     \* software versions
    FirstVersion,
    Pid, None,
    MaxEvents    \* crashes, upgrades, stops, second starts, retries

ASSUME BoundedAssumption ==
    /\ IsFiniteSet(Book)
    /\ FirstVersion \in Version /\ Budget \in Nat /\ MaxHands \in Nat \ {0}
    /\ Order \in [1 .. Cardinality(Book) -> Book] /\ IsInjective(Order)
    /\ None \notin Pid

Job == Book \X {"extract", "index"}
Extract(b) == <<b, "extract">>
Index(b) == <<b, "index">>

VARIABLES
    state,      \* of each job; "waiting" and "parked" are retryable_failed
    due,        \* waiting and parked jobs whose next_attempt_at has passed
    by,         \* created_by_version
    queue,      \* the index jobs in job_id order
    run,        \* the worker process
    hands,
    inflight,   \* jobs whose handler runs
    late,       \* history: books with a handler at work when the run decided to end
    installed,  \* the version of the code on disk
    ack,        \* meta: version_gate_ack
    others,     \* history: jobs opened by other processes since the run began
    pidfile,
    stopping,   \* the pid a `stop` command waits for
    contested,  \* history: a second worker was started, or one started during a stop
    events

jobs == <<state, due, by, queue>>
process == <<run, hands, inflight, late>>
gate == <<installed, ack, others>>
pids == <<pidfile, stopping, contested>>
vars == <<jobs, process, gate, pids, events>>

Happens == events < MaxEvents /\ events' = events + 1

Off == [at |-> "off", pid |-> None, version |-> FirstVersion, started |-> {}]

Init ==
    /\ state = [j \in Job |-> IF j[2] = "extract" THEN "pending" ELSE "none"]
    /\ due = {} /\ queue = <<>>
    /\ by = [j \in Job |-> FirstVersion]
    /\ run = Off /\ hands \in 1 .. MaxHands /\ inflight = {} /\ late = {}
    /\ installed = FirstVersion /\ ack = [to |-> None, from |-> {}] /\ others = {}
    /\ pidfile = None /\ stopping = None /\ contested = FALSE
    /\ events = 0

-----------------------------------------------------------------------------
(* The job table as the loop sees it *)

Open(j) == state[j] \in {"pending", "running", "waiting", "parked"}

SlipClaimable ==   \* a parked job is not taken up again
    {j \in Job : state[j] = "pending" \/ (j \in due /\ state[j] # "parked")}

Claimable == {j \in Job : state[j] = "pending" \/ j \in due}

(* ORDER BY job_id: extract jobs were queued by the scan, before all others. *)
InOrder == [i \in DOMAIN Order |-> Extract(Order[i])] \o queue
First == InOrder[CHOOSE i \in DOMAIN InOrder :
                    /\ InOrder[i] \in Claimable
                    /\ \A k \in 1 .. i - 1 : InOrder[k] \notin Claimable]

Set(j, s) == state' = [state EXCEPT ![j] = s]

(* A delay ends. The 30 s of a parked job are longer than the loop needs to
   claim and to decide: they end while it waits for something, or is off. *)
Waits == inflight # {} \/ \E j \in Job \ due : state[j] = "waiting"
DelayEnds(j) ==
    /\ j \notin due
    /\ \/ state[j] = "waiting"
       \/ state[j] = "parked" /\ (run.at = "on" => Waits)
    /\ due' = due \union {j}
    /\ UNCHANGED <<state, by, queue, process, gate, pids, events>>

-----------------------------------------------------------------------------
(* The version gate *)

Foreign(v) == {by[j] : j \in {k \in Job : Open(k) /\ by[k] # v}}
Prior(v) == IF ack.to = v THEN ack.from ELSE {}

SlipConfirmed(v) == Foreign(v) \subseteq ack.from   \* whatever version confirmed it

Confirmed(v) == Foreign(v) \subseteq Prior(v)

SlipStart(allow) ==   \* a pidfile that is there is kept
    /\ run.at = "off"
    /\ Confirmed(installed) \/ allow
    /\ ack' = IF Confirmed(installed) THEN ack
              ELSE [to |-> installed, from |-> Prior(installed) \union Foreign(installed)]
    /\ \E p \in Pid \ {run.pid} :
        /\ run' = [at |-> "on", pid |-> p, version |-> installed, started |-> {}]
        /\ pidfile' = IF pidfile = None THEN p ELSE pidfile
    /\ contested' = (stopping # None)
    /\ others' = {} /\ late' = {}
    /\ UNCHANGED <<jobs, hands, inflight, installed, stopping, events>>

(* ingest: the gate, the pidfile, then the worker. With --allow-version-mismatch
   the operator confirms what is in the queue. *)
Start(allow) ==
    /\ run.at = "off"
    /\ Confirmed(installed) \/ allow
    /\ ack' = IF Confirmed(installed) THEN ack
              ELSE [to |-> installed, from |-> Prior(installed) \union Foreign(installed)]
    /\ \E p \in Pid \ {run.pid} :
        /\ run' = [at |-> "on", pid |-> p, version |-> installed, started |-> {}]
        /\ pidfile' = p
    /\ contested' = (stopping # None)
    /\ others' = {} /\ late' = {}
    /\ UNCHANGED <<jobs, hands, inflight, installed, stopping, events>>

(* A second ingest next to the running one writes its pid too, is refused the
   Qdrant folder and, leaving, takes the pidfile with it. *)
StartAgain ==
    /\ Happens
    /\ run.at # "off" /\ Confirmed(installed)
    /\ pidfile' = None /\ contested' = TRUE
    /\ UNCHANGED <<jobs, process, gate, stopping>>

Upgrade ==
    /\ Happens
    /\ installed' \in Version \ {installed}
    /\ UNCHANGED <<jobs, process, ack, others, pids>>

-----------------------------------------------------------------------------
(* The claim loop *)

OverBudget(j) ==
    /\ j[2] = "extract"
    /\ j[1] \notin run.started
    /\ Cardinality(run.started) >= Budget

CanClaim == run.at = "on" /\ Cardinality(inflight) < hands /\ Claimable # {}

Park ==
    /\ CanClaim /\ OverBudget(First)
    /\ Set(First, "parked") /\ due' = due \ {First}
    /\ UNCHANGED <<by, queue, process, gate, pids, events>>

Take ==
    /\ CanClaim /\ ~OverBudget(First)
    /\ Set(First, "running") /\ due' = due \ {First}
    /\ inflight' = inflight \union {First}
    /\ run' = IF First[2] = "extract" THEN [run EXCEPT !.started = @ \union {First[1]}] ELSE run
    /\ UNCHANGED <<by, queue, hands, late, gate, pids, events>>

(* _queue_drained: nothing waits that is not parked. *)
SlipDrained == TRUE   \* a bounded run ends at the first empty claim

Drained == \A j \in Job : state[j] # "waiting"

(* The loop ends at an empty claim, though with several hands a handler may
   still be at work that will queue the next stage. *)
Drain ==
    /\ run.at = "on" /\ Cardinality(inflight) < hands /\ Claimable = {}
    /\ Drained
    /\ run' = [run EXCEPT !.at = "drained"]
    /\ late' = {j[1] : j \in inflight}
    /\ UNCHANGED <<jobs, hands, inflight, gate, pids, events>>

(* The handlers at work are waited for, then the process ends and removes the
   pidfile if it is its own. *)
End ==
    /\ run.at \in {"drained", "stopped"} /\ inflight = {}
    /\ run' = [run EXCEPT !.at = "off"]
    /\ pidfile' = IF pidfile = run.pid THEN None ELSE pidfile
    /\ UNCHANGED <<jobs, hands, inflight, late, gate, stopping, contested, events>>

(* A handler ends: done, with the next stage queued; deferred or failed for now;
   failed for good. *)
Leaves(j) == j \in inflight /\ inflight' = inflight \ {j}

Succeed(j) ==
    /\ Leaves(j)
    /\ IF j[2] = "extract" /\ state[Index(j[1])] = "none"
       THEN /\ state' = [state EXCEPT ![j] = "done", ![Index(j[1])] = "pending"]
            /\ queue' = Append(queue, Index(j[1]))
            /\ by' = [by EXCEPT ![Index(j[1])] = run.version]
       ELSE Set(j, "done") /\ UNCHANGED <<queue, by>>
    /\ UNCHANGED <<due, run, hands, late, gate, pids, events>>

Defer(j) ==
    /\ Leaves(j)
    /\ Set(j, "waiting")
    /\ UNCHANGED <<due, by, queue, run, hands, late, gate, pids, events>>

GiveUp(j) ==
    /\ Happens
    /\ Leaves(j)
    /\ Set(j, "dead")
    /\ UNCHANGED <<due, by, queue, run, hands, late, gate, pids>>

(* retry --include-permanent, while a worker may be running. *)
Retry ==
    /\ Happens
    /\ state' = [j \in Job |-> IF state[j] \in {"waiting", "parked", "dead"} THEN "pending" ELSE state[j]]
    /\ due' = {}
    /\ others' = others \union {j \in Job : state[j] = "dead"}
    /\ UNCHANGED <<by, queue, process, installed, ack, pids>>

(* The process dies; its jobs are claimable when their leases are over. *)
Dies ==
    /\ run' = [run EXCEPT !.at = "off"]
    /\ inflight' = {}
    /\ UNCHANGED <<jobs, hands, late, gate>>

Crash ==
    /\ Happens
    /\ run.at # "off" /\ Dies
    /\ UNCHANGED pids

LeaseEnds(j) ==
    /\ state[j] = "running" /\ j \notin inflight
    /\ Set(j, "pending")
    /\ UNCHANGED <<due, by, queue, process, gate, pids, events>>

-----------------------------------------------------------------------------
(* stop: SIGTERM to the pid in the pidfile, SIGKILL after a time, and when it is
   gone the pidfile is removed, whatever it names by then. *)

StopBegin ==
    /\ Happens
    /\ stopping = None /\ pidfile # None
    /\ stopping' = pidfile
    /\ run' = IF run.at = "on" /\ run.pid = pidfile THEN [run EXCEPT !.at = "stopped"] ELSE run
    /\ UNCHANGED <<jobs, hands, inflight, late, gate, pidfile, contested>>

StopKills ==
    /\ run.at # "off" /\ stopping = run.pid
    /\ Dies
    /\ UNCHANGED <<pids, events>>

StopEnd ==
    /\ stopping # None /\ ~(run.at # "off" /\ run.pid = stopping)
    /\ stopping' = None
    /\ pidfile' = None
    /\ UNCHANGED <<jobs, process, gate, contested, events>>

Loop == Park \/ Take \/ Drain \/ End
Handler(j) == Succeed(j) \/ Defer(j) \/ GiveUp(j)

Next ==
    \/ \E allow \in BOOLEAN : Start(allow)
    \/ Loop
    \/ \E j \in Job : Handler(j) \/ DelayEnds(j) \/ LeaseEnds(j)
    \/ StartAgain \/ Upgrade \/ Retry \/ Crash
    \/ StopBegin \/ StopKills \/ StopEnd

Spec == Init /\ [][Next]_vars

(* Loop and delays go on; a handler that runs again and again succeeds or gives
   up some day; the operator starts run after run and confirms what the gate asks. *)
Fairness ==
    /\ WF_vars(Loop) /\ WF_vars(Start(TRUE)) /\ WF_vars(StopKills \/ StopEnd)
    /\ WF_vars(\E j \in Job : Handler(j)) /\ WF_vars(\E j \in Job : LeaseEnds(j))
    /\ \A b \in Book :
        /\ SF_vars(Succeed(Extract(b)) \/ Succeed(Index(b)))
        /\ SF_vars(DelayEnds(Extract(b)) \/ DelayEnds(Index(b)))

FairSpec == Spec /\ Fairness

-----------------------------------------------------------------------------
(* A job waiting for its retry time is a waiting or parked one, and a handler at
   work is on a running job. *)
TypeOK ==
    /\ state \in [Job -> {"none", "pending", "running", "waiting", "parked", "done", "dead"}]
    /\ due \subseteq {j \in Job : state[j] \in {"waiting", "parked"}}
    /\ inflight \subseteq {j \in Job : state[j] = "running"}
    /\ run.at \in {"off", "on", "drained", "stopped"}
    /\ pidfile \in Pid \union {None}

(* A bounded run "completes the full pipeline end-to-end" of the books it
   started (--max-books help): when it ends by itself, their jobs are settled,
   or a retry reopened them.
   Excepted is what this code does not do: wait for what a handler queues that
   was still at work, on another thread, when the loop ended. *)
BooksAreFinished ==
    [][(run.at = "drained" /\ run'.at = "off" /\ stopping = None) =>
          \A b \in run.started \ late : \A j \in {Extract(b), Index(b)} :
             Open(j) => j \in others]_vars

(* Work queued by other code is not executed without the operator's
   confirmation, unless it was opened after the gate had looked. *)
ForeignIsConfirmed ==
    \A j \in inflight :
        \/ by[j] = run.version
        \/ ack.to = run.version /\ by[j] \in ack.from
        \/ j \in others

(* `stop` finds the worker that runs, if nobody started a second one or started
   one before an earlier stop was over. *)
StopFindsWorker ==
    (run.at \in {"on", "drained"} /\ ~contested) => pidfile = run.pid

(* Run after run, every book gets in or gives up: parked extracts included. *)
EveryBookEnds == <>[](\A b \in Book : state[Extract(b)] \in {"done", "dead"} /\ ~Open(Index(b)))
=============================================================================
