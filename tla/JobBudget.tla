----------------------------- MODULE JobBudget -----------------------------
(***************************************************************************)
(* The retry budget of a job.  Every claim takes an attempt; the queue is  *)
(* JobQueue's, with a history variable that says what the attempts of a    *)
(* job were spent on since its budget was last reset.                      *)
(***************************************************************************)
EXTENDS JobQueue

VARIABLE
    charged    \* keys that lost an attempt to something else than parking

budgetVars == <<vars, charged>>

BudgetInit == Init /\ charged = {}

LeaseOver(k) == jobs[k].state = "running" /\ jobs'[k].token # jobs[k].token
Parked(k) == \E w \in Thread : Working(w) /\ held[w].key = k /\ Release(w)
Reset(k) == jobs[k].attempts > 0 /\ jobs[k].state = "permanent_failed" /\ jobs'[k].attempts = 0

BudgetNext ==
    /\ Next
    /\ charged' = {k \in Keys : ~Reset(k) /\ (k \in charged \/ (LeaseOver(k) /\ ~Parked(k)))}

BudgetSpec == BudgetInit /\ [][BudgetNext]_budgetVars

BudgetFairSpec == BudgetSpec /\ Fairness

-----------------------------------------------------------------------------

\* Parking is free: a job that bounded runs have only claimed and put back, any
\* number of times, has its whole budget (release() in jobs.py).
ParkingIsFree ==
    \A k \in Keys : k \notin charged /\ jobs[k].state \in {"pending", "retryable_failed"}
                    => jobs[k].attempts = 0
=============================================================================
