------------------------------ MODULE JobTable ------------------------------
(***************************************************************************)
(* The rows of the durable job table (src/src/library_rag/jobs.py) and the *)
(* effect of every SQL statement on them, as operators from a table to a   *)
(* table.  The modules that hold the table in a variable build their       *)
(* actions from these operators.                                           *)
(*                                                                         *)
(* Abstraction.  Wall-clock times are reduced to what a WHERE clause can   *)
(* tell apart: "expired" stands for lease_expires_at <= now and "due" for  *)
(* next_attempt_at <= now (kept FALSE in the states that never read it).   *)
(* A task key names its row: INSERT OR IGNORE creates at most one row for  *)
(* it, and rows are never deleted.  A lease token (a fresh uuid4 in the    *)
(* code) is a member of Tokens nobody uses.  The owner of a row is the     *)
(* live process whose pid lease_owner names, NoOwner when the column is    *)
(* NULL or the process is gone: a restarted worker has another pid.        *)
(*                                                                         *)
(* A definition named Slip... is a deliberately wrong variant of the one   *)
(* below it; PROJECT.json pairs it with the property that must reject it.  *)
(***************************************************************************)
EXTENDS Naturals, FiniteSets

CONSTANTS
    Keys,         \* task keys, one per durable job
    Procs,        \* ingest worker processes
    Tokens,       \* lease tokens
    NoToken,      \* lease_token IS NULL
    NoOwner,      \* lease_owner IS NULL or names a process that is gone
    MaxAttempts   \* jobs.max_attempts

ASSUME JobTableAssumption ==
    /\ IsFiniteSet(Keys)
    /\ NoToken \notin Tokens
    /\ NoOwner \notin Procs
    /\ MaxAttempts \in Nat \ {0}

(***************************************************************************)
(* The attempts column is unbounded in the code.  It is only ever compared *)
(* with max_attempts, and it only drops by one right after it has grown by *)
(* one, so counting up to AttemptsCap and staying there is exact for every *)
(* comparison made.                                                        *)
(***************************************************************************)
AttemptsCap == MaxAttempts + 1

Bump(n) == IF n < AttemptsCap THEN n + 1 ELSE n
Drop(n) == IF n > 0 THEN n - 1 ELSE 0

Terminal == {"succeeded", "permanent_failed", "cancelled"}
JobState == {"absent", "pending", "running", "retryable_failed"} \cup Terminal

Row == [state    : JobState,
        id       : Nat,
        attempts : 0 .. AttemptsCap,
        token    : Tokens \cup {NoToken},
        owner    : Procs \cup {NoOwner},
        expired  : BOOLEAN,
        due      : BOOLEAN,
        parked   : BOOLEAN]

NoRow == [state |-> "absent", id |-> 0, attempts |-> 0, token |-> NoToken,
          owner |-> NoOwner, expired |-> FALSE, due |-> FALSE, parked |-> FALSE]

Table == [Keys -> Row]

-----------------------------------------------------------------------------
(* Statements.  js is the table before the statement.                      *)

Present(js) == {k \in Keys : js[k].state # "absent"}

\* INSERT OR IGNORE: an existing row, whatever its state, is left as it is.
Inserted(js, k) ==
    IF js[k].state # "absent" THEN js
    ELSE [js EXCEPT ![k] = [NoRow EXCEPT !.state = "pending",
                                         !.id = Cardinality(Present(js)) + 1]]

\* A row put in some state with its lease columns cleared; a row made retryable
\* gets a next_attempt_at in the future.
Unleased(row, state) ==
    [row EXCEPT !.state = state, !.token = NoToken, !.owner = NoOwner,
                !.expired = FALSE, !.due = FALSE]

\* Wrong: a reclaim that forgets the time.
SlipReclaimedEarly(js) ==
    [k \in Keys |-> IF js[k].state = "running" THEN Unleased(js[k], "pending") ELSE js[k]]

\* First statement of claim(): every running row whose lease ran out.
Reclaimed(js) ==
    [k \in Keys |-> IF js[k].state = "running" /\ js[k].expired
                    THEN Unleased(js[k], "pending") ELSE js[k]]

SlipEligiblePendingOnly(js) == {k \in Keys : js[k].state = "pending"}

Eligible(js) ==
    {k \in Keys : \/ js[k].state = "pending"
                  \/ js[k].state = "retryable_failed" /\ js[k].due}

\* ORDER BY job_id LIMIT 1
FirstEligible(js) ==
    {k \in Eligible(js) : \A l \in Eligible(js) : js[k].id <= js[l].id}

ClaimedBy(js, k, p, t) ==
    [js EXCEPT ![k] = [js[k] EXCEPT !.state = "running", !.token = t, !.owner = p,
                                    !.expired = FALSE, !.due = FALSE,
                                    !.attempts = Bump(js[k].attempts)]]

\* WHERE job_id = ? AND lease_token = ?
Fenced(js, c) == js[c.key].token = c.token

HeartbeatRow(js, k) == [js EXCEPT ![k].expired = FALSE]

SucceedRow(js, k) == [js EXCEPT ![k] = Unleased(@, "succeeded")]

\* First statement of fail(): the error columns, fenced.
ErrorRow(js, k) == [js EXCEPT ![k].parked = FALSE]

\* Second statement of fail(): the state, by job_id alone.
Exhausted(c) == c.attempts >= MaxAttempts

FailRow(js, c, transient) ==
    [js EXCEPT ![c.key] = Unleased(@, IF ~transient \/ Exhausted(c)
                                      THEN "permanent_failed" ELSE "retryable_failed")]

DeferRow(js, k) ==
    [js EXCEPT ![k] = [Unleased(js[k], "retryable_failed") EXCEPT !.parked = FALSE]]

SlipReleaseRowBurnsAttempt(js, k) ==
    [js EXCEPT ![k] = [Unleased(js[k], "retryable_failed") EXCEPT !.parked = TRUE]]

ReleaseRow(js, k) ==
    [js EXCEPT ![k] = [Unleased(js[k], "retryable_failed")
                         EXCEPT !.parked = TRUE, !.attempts = Drop(js[k].attempts)]]

\* reclaim_dead_lease_owners(), one row: WHERE job_id = ? AND state = 'running'
ReclaimRow(js, k) ==
    IF js[k].state = "running" THEN [js EXCEPT ![k] = Unleased(@, "pending")] ELSE js

\* retry(): every retryable row, and the permanently failed ones on request.
RetryRows(js, includePermanent) ==
    [k \in Keys |->
        CASE js[k].state = "retryable_failed" ->
                 [js[k] EXCEPT !.state = "pending", !.due = FALSE]
          [] js[k].state = "permanent_failed" /\ includePermanent ->
                 [js[k] EXCEPT !.state = "pending", !.attempts = 0, !.parked = FALSE]
          [] OTHER -> js[k]]

\* remove_document(): open jobs of the removed document.
CancelRows(js, ks) ==
    [k \in Keys |-> IF k \in ks /\ js[k].state \in {"pending", "retryable_failed"}
                    THEN [js[k] EXCEPT !.state = "cancelled", !.due = FALSE]
                    ELSE js[k]]

\* A process is gone: no row names a live owner through it any more.
OrphanRows(js, ps) ==
    [k \in Keys |-> IF js[k].owner \in ps THEN [js[k] EXCEPT !.owner = NoOwner] ELSE js[k]]
=============================================================================
