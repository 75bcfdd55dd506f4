-------------------------- MODULE JobQueueProofs --------------------------
(***************************************************************************)
(* Theorems about JobQueue and JobBudget, for any keys, processes, threads *)
(* and tokens.                                                             *)
(***************************************************************************)
EXTENDS JobBudget, FiniteSetTheorems, TLAPS

(***************************************************************************)
(* The statements of jobs.py keep the table a table.                       *)
(***************************************************************************)
LEMMA RowStatementsType ==
    ASSUME NEW js \in Table, NEW k \in Keys
    PROVE  /\ [js EXCEPT ![k].expired = TRUE] \in Table
           /\ [js EXCEPT ![k].due = TRUE] \in Table
           /\ HeartbeatRow(js, k) \in Table
           /\ ErrorRow(js, k) \in Table
  BY DEF Table, Row, HeartbeatRow, ErrorRow

LEMMA UnleasedType ==
    ASSUME NEW row \in Row, NEW s \in JobState
    PROVE  Unleased(row, s) \in Row
  BY DEF Unleased, Row

LEMMA EndingStatementsType ==
    ASSUME NEW js \in Table, NEW k \in Keys
    PROVE  /\ SucceedRow(js, k) \in Table
           /\ DeferRow(js, k) \in Table
           /\ ReleaseRow(js, k) \in Table
           /\ ReclaimRow(js, k) \in Table
<1>1. js[k] \in Row
  BY DEF Table
<1>2. \A s \in JobState : Unleased(js[k], s) \in Row
  BY <1>1, UnleasedType
<1>3. /\ Unleased(js[k], "succeeded") \in Row
      /\ Unleased(js[k], "pending") \in Row
      /\ Unleased(js[k], "retryable_failed") \in Row
  BY <1>2 DEF JobState, Terminal
<1>4. SucceedRow(js, k) \in Table
  BY <1>3 DEF SucceedRow, Table
<1>5. ReclaimRow(js, k) \in Table
  BY <1>3 DEF ReclaimRow, Table
<1>6. [Unleased(js[k], "retryable_failed") EXCEPT !.parked = FALSE] \in Row
  BY <1>3 DEF Row
<1>7. DeferRow(js, k) \in Table
  BY <1>6 DEF DeferRow, Table
<1>8. \A n \in 0 .. AttemptsCap : Drop(n) \in 0 .. AttemptsCap
  BY JobTableAssumption DEF Drop, AttemptsCap
<1>9. [Unleased(js[k], "retryable_failed")
          EXCEPT !.parked = TRUE, !.attempts = Drop(js[k].attempts)] \in Row
  BY <1>1, <1>3, <1>8 DEF Row
<1>10. ReleaseRow(js, k) \in Table
  BY <1>9 DEF ReleaseRow, Table
<1> QED
  BY <1>4, <1>5, <1>7, <1>10

LEMMA FailRowType ==
    ASSUME NEW js \in Table, NEW c \in Claim, NEW transient \in BOOLEAN
    PROVE  FailRow(js, c, transient) \in Table
<1>1. c.key \in Keys /\ js[c.key] \in Row
  BY DEF Table, Claim
<1>2. /\ Unleased(js[c.key], "permanent_failed") \in Row
      /\ Unleased(js[c.key], "retryable_failed") \in Row
  BY <1>1, UnleasedType DEF JobState, Terminal
<1> QED
  BY <1>1, <1>2 DEF FailRow, Table

LEMMA ReclaimedType ==
    ASSUME NEW js \in Table
    PROVE  Reclaimed(js) \in Table
<1>1. \A k \in Keys : js[k] \in Row /\ Unleased(js[k], "pending") \in Row
  BY UnleasedType DEF Table, JobState
<1> QED
  BY <1>1 DEF Reclaimed, Table

LEMMA ClaimedByType ==
    ASSUME NEW js \in Table, NEW k \in Keys, NEW p \in Procs, NEW t \in Tokens
    PROVE  /\ ClaimedBy(js, k, p, t) \in Table
           /\ ClaimedBy(js, k, p, t)[k].attempts \in 0 .. AttemptsCap
<1>1. \A n \in 0 .. AttemptsCap : Bump(n) \in 0 .. AttemptsCap
  BY JobTableAssumption DEF Bump, AttemptsCap
<1>2. "running" \in JobState /\ js[k] \in Row
  BY DEF JobState, Table
<1>3. [js[k] EXCEPT !.state = "running", !.token = t, !.owner = p,
                    !.expired = FALSE, !.due = FALSE,
                    !.attempts = Bump(js[k].attempts)] \in Row
  BY <1>1, <1>2 DEF Row
<1>4. ClaimedBy(js, k, p, t) \in Table
  BY <1>3 DEF ClaimedBy, Table
<1> QED
  BY <1>4 DEF Table, Row

LEMMA InsertedType ==
    ASSUME NEW js \in Table, NEW k \in Keys
    PROVE  Inserted(js, k) \in Table
<1>1. Cardinality(Present(js)) + 1 \in Nat
  <2>1. IsFiniteSet(Present(js))
    BY JobTableAssumption, FS_Subset DEF Present
  <2> QED
    BY <2>1, FS_CardinalityType
<1>2. ASSUME NEW n \in Nat
      PROVE  [NoRow EXCEPT !.state = "pending", !.id = n] \in Row
  <2>1. 0 \in 0 .. AttemptsCap /\ "pending" \in JobState
    BY JobTableAssumption DEF AttemptsCap, JobState
  <2> QED
    BY <2>1 DEF NoRow, Row
<1> QED
  BY <1>1, <1>2 DEF Inserted, Table

LEMMA CommandStatementsType ==
    ASSUME NEW js \in Table, NEW b \in BOOLEAN, NEW ks \in SUBSET Keys, NEW ps \in SUBSET Procs
    PROVE  /\ RetryRows(js, b) \in Table
           /\ CancelRows(js, ks) \in Table
           /\ OrphanRows(js, ps) \in Table
<1>1. \A k \in Keys : js[k] \in Row
  BY DEF Table
<1>2. ASSUME NEW k \in Keys
      PROVE  /\ [js[k] EXCEPT !.state = "pending", !.due = FALSE] \in Row
             /\ [js[k] EXCEPT !.state = "pending", !.attempts = 0, !.parked = FALSE] \in Row
             /\ [js[k] EXCEPT !.state = "cancelled", !.due = FALSE] \in Row
             /\ [js[k] EXCEPT !.owner = NoOwner] \in Row
  <2>1. /\ 0 \in 0 .. AttemptsCap
        /\ "pending" \in JobState /\ "cancelled" \in JobState
    BY JobTableAssumption DEF AttemptsCap, JobState, Terminal
  <2> QED
    BY <1>1, <2>1 DEF Row
<1>3. RetryRows(js, b) \in Table
  BY <1>1, <1>2 DEF RetryRows, Table
<1>4. CancelRows(js, ks) \in Table
  BY <1>1, <1>2 DEF CancelRows, Table
<1>5. OrphanRows(js, ps) \in Table
  BY <1>1, <1>2 DEF OrphanRows, Table
<1> QED
  BY <1>3, <1>4, <1>5

(***************************************************************************)
(* Type correctness.                                                       *)
(***************************************************************************)
LEMMA ThreadProc == \A w \in Thread : w[1] \in Procs
  BY DEF Thread

LEMMA InitTypeOK == Init => TypeOK
<1> SUFFICES ASSUME Init PROVE TypeOK
  OBVIOUS
<1>1. NoRow \in Row
  BY JobTableAssumption DEF NoRow, Row, JobState, AttemptsCap
<1>2. jobs \in Table
  BY <1>1 DEF Init, Table
<1> QED
  BY <1>2 DEF Init, TypeOK, ProcState

\* A thread takes, keeps or drops a claim.
LEMMA LetGoType ==
    ASSUME TypeOK, NEW w \in Thread, LetGo(w)
    PROVE  /\ pc' \in [Thread -> {"idle", "work", "failing"}]
           /\ held' \in [Thread -> Claim \cup {NoClaim}]
           /\ \A v \in Thread : pc'[v] # "idle" => held'[v] \in Claim
  BY DEF TypeOK, LetGo

LEMMA KilledType ==
    ASSUME TypeOK, NEW ps \in SUBSET Procs, Killed(ps)
    PROVE  /\ jobs' \in Table
           /\ pc' \in [Thread -> {"idle", "work", "failing"}]
           /\ held' \in [Thread -> Claim \cup {NoClaim}]
           /\ \A v \in Thread : pc'[v] # "idle" => held'[v] \in Claim
<1>1. jobs' \in Table
  BY CommandStatementsType DEF TypeOK, Killed
<1> QED
  BY <1>1 DEF TypeOK, Killed

LEMMA OrphanedType ==
    ASSUME NEW visits \in SUBSET (Keys \X (Procs \cup {NoOwner})), NEW ps
    PROVE  Orphaned(visits, ps) \in SUBSET (Keys \X (Procs \cup {NoOwner}))
  BY DEF Orphaned

LEMMA HeldKey ==
    ASSUME TypeOK, NEW w \in Thread, pc[w] # "idle"
    PROVE  held[w] \in Claim /\ held[w].key \in Keys /\ held[w].transient \in BOOLEAN
  BY DEF TypeOK, Claim

LEMMA ThreadStepTypeOK ==
    ASSUME TypeOK, NEW w \in Thread, ThreadStep(w)
    PROVE  TypeOK'
<1>1. CASE ClaimJob(w)
  <2>1. PICK k \in FirstEligible(Reclaimed(jobs)), t \in Tokens \ UsedTokens :
          /\ jobs' = ClaimedBy(Reclaimed(jobs), k, w[1], t)
          /\ held' = [held EXCEPT ![w] = [key |-> k, token |-> t,
                                          attempts |-> jobs'[k].attempts,
                                          transient |-> FALSE]]
    BY <1>1 DEF ClaimJob
  <2>2. k \in Keys /\ t \in Tokens /\ w[1] \in Procs
    BY ThreadProc DEF FirstEligible, Eligible
  <2>3. Reclaimed(jobs) \in Table
    BY ReclaimedType DEF TypeOK
  <2>4. jobs' \in Table /\ jobs'[k].attempts \in 0 .. AttemptsCap
    BY <2>1, <2>2, <2>3, ClaimedByType
  <2>5. [key |-> k, token |-> t, attempts |-> jobs'[k].attempts, transient |-> FALSE] \in Claim
    BY <2>2, <2>4 DEF Claim
  <2> QED
    BY <1>1, <2>1, <2>4, <2>5 DEF TypeOK, ClaimJob, bounds
<1>2. CASE Heartbeat(w)
  <2>1. jobs' \in Table
    BY <1>2, HeldKey, RowStatementsType DEF Heartbeat, TypeOK
  <2> QED
    BY <1>2, <2>1 DEF Heartbeat, TypeOK, bounds
<1>3. CASE Succeed(w)
  <2>1. jobs' \in Table
    BY <1>3, HeldKey, EndingStatementsType DEF Succeed, TypeOK
  <2> QED
    BY <1>3, <2>1, LetGoType DEF Succeed, TypeOK, bounds
<1>4. CASE Defer(w)
  <2>1. jobs' \in Table
    BY <1>4, HeldKey, EndingStatementsType DEF Defer, TypeOK
  <2> QED
    BY <1>4, <2>1, LetGoType DEF Defer, TypeOK, bounds
<1>5. CASE Release(w)
  <2>1. jobs' \in Table
    BY <1>5, HeldKey, EndingStatementsType DEF Release, TypeOK
  <2> QED
    BY <1>5, <2>1, LetGoType DEF Release, TypeOK, bounds
<1>6. ASSUME NEW transient \in BOOLEAN, FailBegin(w, transient)
      PROVE  TypeOK'
  <2>1. jobs' \in Table
    BY <1>6, HeldKey, RowStatementsType DEF FailBegin, TypeOK
  <2>2. [held[w] EXCEPT !.transient = transient] \in Claim
    BY <1>6, HeldKey DEF FailBegin, Claim
  <2> QED
    BY <1>6, <2>1, <2>2 DEF FailBegin, TypeOK, bounds
<1>7. CASE FailEnd(w)
  <2>1. jobs' \in Table
    BY <1>7, HeldKey, FailRowType DEF FailEnd, TypeOK
  <2> QED
    BY <1>7, <2>1, LetGoType DEF FailEnd, TypeOK, bounds
<1>8. CASE StaleLease(w)
  <2>1. proc' \in [Procs -> ProcState]
    BY <1>8 DEF StaleLease, TypeOK, ProcState
  <2> QED
    BY <1>8, <2>1, LetGoType DEF StaleLease, TypeOK, bounds
<1> QED
  BY <1>1, <1>2, <1>3, <1>4, <1>5, <1>6, <1>7, <1>8 DEF ThreadStep

LEMMA ProcStepTypeOK ==
    ASSUME TypeOK, NEW p \in Procs, ProcStep(p)
    PROVE  TypeOK'
<1>1. CASE Start(p)
  BY <1>1 DEF Start, TypeOK, ProcState, bounds
<1>2. CASE ForceStart(p)
  <2>1. PICK killed \in SUBSET Procs :
          /\ killed = IF Embedded THEN {q \in Others(p) : HoldsStore(q)} ELSE {}
          /\ proc' = [q \in Procs |-> IF q = p THEN "forcing"
                                       ELSE IF q \in killed THEN "down" ELSE proc[q]]
          /\ Killed(killed)
          /\ snapshot' = [q \in Procs |->
                IF q = p
                THEN {<<k, jobs'[k].owner>> : k \in {l \in Keys : jobs[l].state = "running"}}
                ELSE Orphaned(snapshot[q], killed)]
    BY <1>2 DEF ForceStart, Others
  <2>2. proc' \in [Procs -> ProcState]
    BY <2>1 DEF TypeOK, ProcState
  <2>3. jobs' \in Table
    BY <2>1, KilledType
  <2>4. {<<k, jobs'[k].owner>> : k \in {l \in Keys : jobs[l].state = "running"}}
          \in SUBSET (Keys \X (Procs \cup {NoOwner}))
    BY <2>3 DEF Table, Row
  <2>5. \A q \in Procs : Orphaned(snapshot[q], killed) \in SUBSET (Keys \X (Procs \cup {NoOwner}))
    BY OrphanedType DEF TypeOK
  <2>6. snapshot' \in [Procs -> SUBSET (Keys \X (Procs \cup {NoOwner}))]
    BY <2>1, <2>4, <2>5
  <2>7. crashes' \in Nat /\ commands' \in Nat /\ paused' \in BOOLEAN
    BY <1>2 DEF ForceStart, TypeOK
  <2> QED
    BY <2>1, <2>2, <2>3, <2>6, <2>7, KilledType DEF TypeOK
<1>3. CASE ForceVisit(p)
  <2>1. PICK r \in snapshot[p] :
          /\ jobs' = IF r[2] = NoOwner THEN ReclaimRow(jobs, r[1]) ELSE jobs
          /\ snapshot' = [snapshot EXCEPT ![p] = @ \ {r}]
    BY <1>3 DEF ForceVisit
  <2>2. r[1] \in Keys
    BY DEF TypeOK
  <2>3. jobs' \in Table
    BY <2>1, <2>2, EndingStatementsType DEF TypeOK
  <2>4. snapshot' \in [Procs -> SUBSET (Keys \X (Procs \cup {NoOwner}))]
    BY <2>1 DEF TypeOK
  <2> QED
    BY <1>3, <2>3, <2>4 DEF ForceVisit, TypeOK, bounds
<1>4. CASE ForceDone(p)
  BY <1>4 DEF ForceDone, TypeOK, ProcState, bounds
<1>5. CASE Stop(p)
  BY <1>5 DEF Stop, TypeOK, ProcState
<1>6. CASE Exit(p)
  <2>1. \A q \in Procs : Orphaned(snapshot[q], {p}) \in SUBSET (Keys \X (Procs \cup {NoOwner}))
    BY OrphanedType DEF TypeOK
  <2>2. /\ snapshot' \in [Procs -> SUBSET (Keys \X (Procs \cup {NoOwner}))]
        /\ proc' \in [Procs -> ProcState]
    BY <1>6, <2>1 DEF Exit, TypeOK, ProcState
  <2> QED
    BY <1>6, <2>2, KilledType DEF Exit, TypeOK, bounds
<1>7. CASE Crash(p)
  <2>1. \A q \in Procs : Orphaned(snapshot[q], {p}) \in SUBSET (Keys \X (Procs \cup {NoOwner}))
    BY OrphanedType DEF TypeOK
  <2>2. /\ snapshot' \in [Procs -> SUBSET (Keys \X (Procs \cup {NoOwner}))]
        /\ proc' \in [Procs -> ProcState]
    BY <1>7, <2>1 DEF Crash, TypeOK, ProcState
  <2>3. crashes' \in Nat /\ commands' \in Nat /\ paused' \in BOOLEAN
    BY <1>7 DEF Crash, TypeOK
  <2> QED
    BY <1>7, <2>2, <2>3, KilledType DEF Crash, TypeOK
<1> QED
  BY <1>1, <1>2, <1>3, <1>4, <1>5, <1>6, <1>7 DEF ProcStep

LEMMA NextTypeOK == TypeOK /\ [Next]_vars => TypeOK'
<1> SUFFICES ASSUME TypeOK, [Next]_vars
             PROVE  TypeOK'
  OBVIOUS
<1>1. ASSUME NEW k \in Keys, Enqueue(k)
      PROVE  TypeOK'
  BY <1>1, InsertedType DEF Enqueue, TypeOK, bounds
<1>2. ASSUME NEW k \in Keys, LeaseExpires(k) \/ BecomesDue(k)
      PROVE  TypeOK'
  <2>1. jobs' \in Table
    BY <1>2, RowStatementsType DEF LeaseExpires, BecomesDue, TypeOK
  <2> QED
    BY <1>2, <2>1 DEF LeaseExpires, BecomesDue, TypeOK, bounds
<1>3. ASSUME NEW k \in Keys, CancelOpen({k})
      PROVE  TypeOK'
  <2>1. jobs' \in Table
    BY <1>3, CommandStatementsType DEF CancelOpen, TypeOK
  <2> QED
    BY <1>3, <2>1 DEF CancelOpen, TypeOK
<1>4. ASSUME NEW b \in BOOLEAN, Retry(b)
      PROVE  TypeOK'
  <2>1. jobs' \in Table
    BY <1>4, CommandStatementsType DEF Retry, TypeOK
  <2> QED
    BY <1>4, <2>1 DEF Retry, TypeOK
<1>5. CASE Pause \/ Resume
  <2>1. paused' \in BOOLEAN
    <3>1. paused' = TRUE \/ paused' = FALSE
      BY <1>5 DEF Pause, Resume
    <3> QED
      BY <3>1
  <2>2. commands' \in Nat /\ crashes' \in Nat
    BY <1>5 DEF Pause, Resume, TypeOK, bounds
  <2>3. UNCHANGED <<jobs, proc, snapshot, pc, held>>
    BY <1>5 DEF Pause, Resume
  <2> QED
    BY <2>1, <2>2, <2>3 DEF TypeOK
<1>6. CASE UNCHANGED vars
  BY <1>6 DEF vars, TypeOK
<1> QED
  BY <1>1, <1>2, <1>3, <1>4, <1>5, <1>6, ThreadStepTypeOK, ProcStepTypeOK DEF Next

\* Every variable keeps its type: the columns of a row hold what jobs.py writes
\* into them and a busy thread always has a claim to work on.
THEOREM TypeCorrect == Spec => []TypeOK
  BY InitTypeOK, NextTypeOK, PTL DEF Spec

(***************************************************************************)
(* Leases.  LeaseExclusive is not inductive: that two threads never share  *)
(* a token (HeldDistinct) is what a fresh token preserves.  ClaimIsCurrent *)
(* and NoLostLease are inductive together with it.                         *)
(***************************************************************************)
HeldDistinct ==
    \A v, w \in Thread :
        Working(v) /\ Working(w) /\ held[v].token = held[w].token => v = w

LeaseInv == TypeOK /\ HeldDistinct /\ ClaimIsCurrent /\ NoLostLease

\* What a step that mints no token may do to a row: leave its lease alone, or end it.
RowKept(k) ==
    /\ jobs'[k].token = jobs[k].token
    /\ jobs'[k].owner = jobs[k].owner
    /\ jobs[k].state = "running" => /\ jobs'[k].state = "running"
                                    /\ jobs'[k].attempts = jobs[k].attempts
RowFreed(k) == jobs'[k].token = NoToken /\ jobs'[k].owner = NoOwner

SameClaim(v) ==
    /\ Working(v)
    /\ held'[v].key = held[v].key
    /\ held'[v].token = held[v].token
    /\ held'[v].attempts = held[v].attempts

LEMMA HeldToken ==
    ASSUME TypeOK, NEW w \in Thread, Working(w)
    PROVE  held[w].key \in Keys /\ held[w].token \in Tokens /\ held[w].token # NoToken
  BY JobTableAssumption DEF TypeOK, Working, Claim

LEMMA InitLeaseInv == Init => LeaseInv
<1> SUFFICES ASSUME Init PROVE LeaseInv
  OBVIOUS
<1>1. TypeOK
  BY InitTypeOK
<1>2. \A k \in Keys : jobs[k].owner = NoOwner
  BY DEF Init, NoRow
<1> QED
  BY <1>1, <1>2 DEF LeaseInv, HeldDistinct, ClaimIsCurrent, NoLostLease, HoldsLease, Working, Init

\* Steps that mint no token and kill no process.
LEMMA QuietStep ==
    ASSUME LeaseInv, TypeOK',
           \A k \in Keys : RowKept(k) \/ RowFreed(k),
           \A v \in Thread : Working(v)' => SameClaim(v),
           \A v \in Thread : HoldsLease(v) /\ ~Working(v)' => RowFreed(held[v].key)
    PROVE  LeaseInv'
<1>1. HeldDistinct'
  BY DEF LeaseInv, HeldDistinct, SameClaim, Working
<1>2. ASSUME NEW w \in Thread, HoldsLease(w)'
      PROVE  HoldsLease(w) /\ RowKept(held[w].key) /\ SameClaim(w) /\ held[w].key \in Keys
  <2>1. SameClaim(w) /\ Working(w)
    BY <1>2 DEF HoldsLease, SameClaim
  <2>2. held[w].key \in Keys /\ held[w].token # NoToken
    BY <2>1, HeldToken DEF LeaseInv
  <2>3. jobs'[held[w].key].token = held[w].token
    BY <1>2, <2>1 DEF HoldsLease, Fenced, SameClaim
  <2>4. RowKept(held[w].key)
    BY <2>2, <2>3 DEF RowFreed
  <2> QED
    BY <2>1, <2>2, <2>3, <2>4 DEF HoldsLease, Fenced, RowKept
<1>3. ClaimIsCurrent'
  <2> SUFFICES ASSUME NEW w \in Thread, HoldsLease(w)'
               PROVE  /\ jobs'[held'[w].key].state = "running"
                      /\ jobs'[held'[w].key].owner = w[1]
                      /\ jobs'[held'[w].key].attempts = held'[w].attempts
    BY DEF ClaimIsCurrent
  <2> QED
    BY <1>2 DEF LeaseInv, ClaimIsCurrent, RowKept, SameClaim
<1>4. NoLostLease'
  <2> SUFFICES ASSUME NEW k \in Keys, jobs'[k].owner # NoOwner
               PROVE  \E w \in ThreadsOf(jobs'[k].owner) : HoldsLease(w)' /\ held'[w].key = k
    BY DEF NoLostLease, ThreadsOf
  <2>1. RowKept(k) /\ jobs[k].owner # NoOwner /\ ~RowFreed(k)
    BY DEF RowKept, RowFreed
  <2>2. PICK w \in ThreadsOf(jobs[k].owner) : HoldsLease(w) /\ held[w].key = k
    BY <2>1 DEF LeaseInv, NoLostLease
  <2>3. w \in Thread
    <3>1. jobs[k].owner \in Procs
      BY <2>1 DEF LeaseInv, TypeOK, Table, Row
    <3> QED
      BY <3>1 DEF ThreadsOf, Thread
  <2>4. Working(w)' /\ SameClaim(w)
    BY <2>1, <2>2, <2>3
  <2> QED
    BY <2>1, <2>2, <2>4 DEF RowKept, SameClaim, HoldsLease, Fenced
<1> QED
  BY <1>1, <1>3, <1>4 DEF LeaseInv

\* A claim: the token is fresh, so it ends every other lease on the row it takes.
LEMMA ClaimStep ==
    ASSUME LeaseInv, TypeOK', NEW w \in Thread, ClaimJob(w)
    PROVE  LeaseInv'
<1>1. PICK k \in FirstEligible(Reclaimed(jobs)), t \in Tokens \ UsedTokens :
        /\ jobs' = ClaimedBy(Reclaimed(jobs), k, w[1], t)
        /\ held' = [held EXCEPT ![w] = [key |-> k, token |-> t,
                                        attempts |-> jobs'[k].attempts,
                                        transient |-> FALSE]]
  BY DEF ClaimJob
<1>2. k \in Keys /\ t # NoToken /\ w[1] \in Procs /\ w[1] # NoOwner
  BY ThreadProc, JobTableAssumption DEF FirstEligible, Eligible
<1>3. Reclaimed(jobs) \in Table
  BY ReclaimedType DEF LeaseInv, TypeOK
<1>4. /\ jobs'[k].state = "running" /\ jobs'[k].owner = w[1] /\ jobs'[k].token = t
      /\ \A l \in Keys : l # k => jobs'[l] = Reclaimed(jobs)[l]
  BY <1>1, <1>2, <1>3 DEF ClaimedBy, Table, Row
<1>5. ASSUME NEW l \in Keys, l # k
      PROVE  RowKept(l) \/ RowFreed(l)
  BY <1>4, <1>5 DEF Reclaimed, Unleased, RowKept, RowFreed, LeaseInv, TypeOK, Table, Row
<1>6. /\ pc[w] = "idle" /\ Working(w)'
      /\ held'[w].key = k /\ held'[w].token = t /\ held'[w].attempts = jobs'[k].attempts
      /\ \A v \in Thread : v # w => held'[v] = held[v] /\ pc'[v] = pc[v]
  BY <1>1 DEF ClaimJob, LeaseInv, TypeOK, Working
<1>7. \A v \in Thread : v # w /\ Working(v)' => Working(v) /\ held'[v].token # t
  BY <1>1, <1>6 DEF Working, UsedTokens
<1>8. HeldDistinct'
  BY <1>6, <1>7 DEF LeaseInv, HeldDistinct
<1>9. ASSUME NEW v \in Thread, v # w, HoldsLease(v)'
      PROVE  HoldsLease(v) /\ held[v].key \in Keys /\ held[v].key # k /\ RowKept(held[v].key)
  <2>1. Working(v) /\ held'[v] = held[v] /\ held[v].token # t
    BY <1>6, <1>7, <1>9 DEF HoldsLease
  <2>2. held[v].key \in Keys /\ held[v].token # NoToken
    BY <2>1, HeldToken DEF LeaseInv
  <2>3. jobs'[held[v].key].token = held[v].token
    BY <1>9, <2>1 DEF HoldsLease, Fenced
  <2>4. held[v].key # k
    BY <1>4, <2>1, <2>3
  <2>5. RowKept(held[v].key)
    BY <1>5, <2>2, <2>3, <2>4 DEF RowFreed
  <2> QED
    BY <2>1, <2>2, <2>3, <2>4, <2>5 DEF HoldsLease, Fenced, RowKept
<1>10. ClaimIsCurrent'
  <2> SUFFICES ASSUME NEW v \in Thread, HoldsLease(v)'
               PROVE  /\ jobs'[held'[v].key].state = "running"
                      /\ jobs'[held'[v].key].owner = v[1]
                      /\ jobs'[held'[v].key].attempts = held'[v].attempts
    BY DEF ClaimIsCurrent
  <2>1. CASE v = w
    BY <1>4, <1>6, <2>1
  <2>2. CASE v # w
    BY <1>6, <1>9, <2>2 DEF LeaseInv, ClaimIsCurrent, RowKept
  <2> QED
    BY <2>1, <2>2
<1>11. NoLostLease'
  <2> SUFFICES ASSUME NEW l \in Keys, jobs'[l].owner # NoOwner
               PROVE  \E v \in ThreadsOf(jobs'[l].owner) : HoldsLease(v)' /\ held'[v].key = l
    BY DEF NoLostLease, ThreadsOf
  <2>1. CASE l = k
    <3>1. HoldsLease(w)' /\ held'[w].key = k
      BY <1>4, <1>6 DEF HoldsLease, Fenced
    <3>2. w \in ThreadsOf(w[1])
      BY DEF Thread, ThreadsOf
    <3> QED
      BY <1>4, <2>1, <3>1, <3>2
  <2>2. CASE l # k
    <3>1. RowKept(l) /\ jobs[l].owner # NoOwner
      BY <1>5, <2>2 DEF RowKept, RowFreed
    <3>2. PICK v \in ThreadsOf(jobs[l].owner) : HoldsLease(v) /\ held[v].key = l
      BY <3>1 DEF LeaseInv, NoLostLease
    <3>3. v \in Thread
      <4>1. jobs[l].owner \in Procs
        BY <3>1 DEF LeaseInv, TypeOK, Table, Row
      <4> QED
        BY <4>1 DEF ThreadsOf, Thread
    <3>4. v # w /\ pc'[v] = pc[v] /\ held'[v] = held[v]
      BY <1>6, <3>2, <3>3 DEF HoldsLease, Working
    <3> QED
      BY <3>1, <3>2, <3>4 DEF RowKept, HoldsLease, Fenced, Working
  <2> QED
    BY <2>1, <2>2
<1> QED
  BY <1>8, <1>10, <1>11 DEF LeaseInv

\* Processes die: their rows lose their owner, their threads their claims.
LEMMA KillStep ==
    ASSUME LeaseInv, TypeOK', NEW ps \in SUBSET Procs, Killed(ps)
    PROVE  LeaseInv'
<1>1. ASSUME NEW v \in Thread, Working(v)'
      PROVE  v[1] \notin ps /\ Working(v) /\ held'[v] = held[v]
  BY <1>1 DEF Killed, Working
<1>2. ASSUME NEW k \in Keys
      PROVE  /\ jobs'[k].token = jobs[k].token
             /\ jobs'[k].state = jobs[k].state
             /\ jobs'[k].attempts = jobs[k].attempts
             /\ jobs'[k].owner = IF jobs[k].owner \in ps THEN NoOwner ELSE jobs[k].owner
  BY DEF Killed, OrphanRows, LeaseInv, TypeOK, Table, Row
<1>3. HeldDistinct'
  BY <1>1 DEF LeaseInv, HeldDistinct
<1>4. ClaimIsCurrent'
  <2> SUFFICES ASSUME NEW v \in Thread, HoldsLease(v)'
               PROVE  /\ jobs'[held'[v].key].state = "running"
                      /\ jobs'[held'[v].key].owner = v[1]
                      /\ jobs'[held'[v].key].attempts = held'[v].attempts
    BY DEF ClaimIsCurrent
  <2>1. v[1] \notin ps /\ Working(v) /\ held'[v] = held[v]
    BY <1>1 DEF HoldsLease
  <2>2. held[v].key \in Keys
    BY <2>1, HeldToken DEF LeaseInv
  <2>3. HoldsLease(v)
    BY <1>2, <2>1, <2>2 DEF HoldsLease, Fenced
  <2> QED
    BY <1>2, <2>1, <2>2, <2>3 DEF LeaseInv, ClaimIsCurrent
<1>5. NoLostLease'
  <2> SUFFICES ASSUME NEW k \in Keys, jobs'[k].owner # NoOwner
               PROVE  \E v \in ThreadsOf(jobs'[k].owner) : HoldsLease(v)' /\ held'[v].key = k
    BY DEF NoLostLease, ThreadsOf
  <2>1. jobs[k].owner \notin ps /\ jobs[k].owner # NoOwner /\ jobs'[k].owner = jobs[k].owner
    BY <1>2
  <2>2. PICK v \in ThreadsOf(jobs[k].owner) : HoldsLease(v) /\ held[v].key = k
    BY <2>1 DEF LeaseInv, NoLostLease
  <2>3. v \in Thread /\ v[1] \notin ps
    <3>1. jobs[k].owner \in Procs
      BY <2>1 DEF LeaseInv, TypeOK, Table, Row
    <3> QED
      BY <2>1, <3>1 DEF ThreadsOf, Thread
  <2>4. Working(v)' /\ held'[v] = held[v]
    BY <2>2, <2>3 DEF Killed, HoldsLease, Working
  <2> QED
    BY <1>2, <2>1, <2>2, <2>4 DEF HoldsLease, Fenced
<1> QED
  BY <1>3, <1>4, <1>5 DEF LeaseInv

\* Every statement that does not claim leaves a row's lease alone or ends it.
LEMMA QuietStatements ==
    ASSUME TypeOK, NEW k \in Keys, NEW l \in Keys, NEW b \in BOOLEAN
    PROVE  /\ jobs[k].state = "absent" /\ jobs' = Inserted(jobs, k)
                => (l = k => RowFreed(l)) /\ (l # k => RowKept(l))
           /\ jobs' = [jobs EXCEPT ![k].expired = TRUE] => RowKept(l)
           /\ jobs' = [jobs EXCEPT ![k].due = TRUE] => RowKept(l)
           /\ jobs' = HeartbeatRow(jobs, k) => RowKept(l)
           /\ jobs' = ErrorRow(jobs, k) => RowKept(l)
           /\ jobs' = ReclaimRow(jobs, k) => RowKept(l) \/ RowFreed(l)
           /\ jobs' = RetryRows(jobs, b) => RowKept(l)
           /\ jobs' = CancelRows(jobs, {k}) => RowKept(l)
<1>0. jobs \in Table /\ jobs[l] \in Row
  BY DEF TypeOK, Table
<1> USE <1>0 DEF Table, Row, RowKept, RowFreed
<1>1. jobs[k].state = "absent" /\ jobs' = Inserted(jobs, k)
        => (l = k => RowFreed(l)) /\ (l # k => RowKept(l))
  BY DEF Inserted, NoRow
<1>2. jobs' = ReclaimRow(jobs, k) => RowKept(l) \/ RowFreed(l)
  BY DEF ReclaimRow, Unleased
<1>3. ASSUME jobs' = RetryRows(jobs, b)
      PROVE  RowKept(l)
  <2>1. \/ jobs'[l] = [jobs[l] EXCEPT !.state = "pending", !.due = FALSE]
              /\ jobs[l].state = "retryable_failed"
        \/ jobs'[l] = [jobs[l] EXCEPT !.state = "pending", !.attempts = 0, !.parked = FALSE]
              /\ jobs[l].state = "permanent_failed"
        \/ jobs'[l] = jobs[l]
    BY <1>3, Zenon DEF RetryRows
  <2> QED
    BY <2>1
<1>4. ASSUME jobs' = CancelRows(jobs, {k})
      PROVE  RowKept(l)
  <2>1. \/ jobs'[l] = [jobs[l] EXCEPT !.state = "cancelled", !.due = FALSE]
              /\ jobs[l].state \in {"pending", "retryable_failed"}
        \/ jobs'[l] = jobs[l]
    BY <1>4, Zenon DEF CancelRows
  <2> QED
    BY <2>1
<1>5. /\ jobs' = [jobs EXCEPT ![k].expired = TRUE] => RowKept(l)
      /\ jobs' = [jobs EXCEPT ![k].due = TRUE] => RowKept(l)
      /\ jobs' = HeartbeatRow(jobs, k) => RowKept(l)
      /\ jobs' = ErrorRow(jobs, k) => RowKept(l)
  BY DEF HeartbeatRow, ErrorRow
<1> QED
  BY <1>1, <1>2, <1>3, <1>4, <1>5

\* A thread that ends its job frees the row it held, or one it no longer holds.
LEMMA EndingStep ==
    ASSUME LeaseInv, NEW w \in Thread, Working(w), LetGo(w),
           \/ jobs' = SucceedRow(jobs, held[w].key)
           \/ jobs' = DeferRow(jobs, held[w].key)
           \/ jobs' = ReleaseRow(jobs, held[w].key)
           \/ jobs' = FailRow(jobs, held[w], held[w].transient)
           \/ jobs' = jobs /\ ~HoldsLease(w),
           TypeOK'
    PROVE  LeaseInv'
<1>1. held[w].key \in Keys
  BY HeldToken DEF LeaseInv
<1>2. \/ jobs' = jobs /\ ~HoldsLease(w)
      \/ /\ RowFreed(held[w].key)
         /\ \A l \in Keys : l # held[w].key => RowKept(l)
  <2>1. jobs \in Table
    BY DEF LeaseInv, TypeOK
  <2>2. CASE jobs' = SucceedRow(jobs, held[w].key)
    BY <1>1, <2>1, <2>2 DEF SucceedRow, Unleased, RowFreed, RowKept, Table, Row
  <2>3. CASE jobs' = DeferRow(jobs, held[w].key)
    BY <1>1, <2>1, <2>3 DEF DeferRow, Unleased, RowFreed, RowKept, Table, Row
  <2>4. CASE jobs' = ReleaseRow(jobs, held[w].key)
    BY <1>1, <2>1, <2>4 DEF ReleaseRow, Unleased, RowFreed, RowKept, Table, Row
  <2>5. CASE jobs' = FailRow(jobs, held[w], held[w].transient)
    BY <1>1, <2>1, <2>5 DEF FailRow, Unleased, RowFreed, RowKept, Table, Row
  <2> QED
    BY <2>2, <2>3, <2>4, <2>5
<1>3. \A k \in Keys : RowKept(k) \/ RowFreed(k)
  BY <1>1, <1>2 DEF RowKept
<1>4. \A v \in Thread : v # w => pc'[v] = pc[v] /\ held'[v] = held[v]
  BY DEF LetGo, LeaseInv, TypeOK
<1>5. pc'[w] = "idle"
  BY DEF LetGo, LeaseInv, TypeOK
<1>6. \A v \in Thread : Working(v)' => SameClaim(v)
  BY <1>4, <1>5 DEF Working, SameClaim
<1>7. \A v \in Thread : HoldsLease(v) /\ ~Working(v)' => RowFreed(held[v].key)
  BY <1>2, <1>4 DEF HoldsLease, Working
<1> QED
  BY <1>3, <1>6, <1>7, QuietStep

\* Steps that change neither claims nor threads.
LEMMA BystanderStep ==
    ASSUME LeaseInv, TypeOK', UNCHANGED <<pc, held>>,
           \A k \in Keys : RowKept(k) \/ RowFreed(k)
    PROVE  LeaseInv'
<1>1. /\ \A v \in Thread : Working(v)' => SameClaim(v)
      /\ \A v \in Thread : ~(HoldsLease(v) /\ ~Working(v)')
  BY DEF Working, SameClaim, HoldsLease
<1> QED
  BY <1>1, QuietStep

LEMMA ThreadStepLeaseInv ==
    ASSUME LeaseInv, TypeOK', NEW w \in Thread, ThreadStep(w)
    PROVE  LeaseInv'
<1> USE DEF LeaseInv
<1>1. CASE ClaimJob(w)
  BY <1>1, ClaimStep
<1>2. CASE Heartbeat(w)
  <2>1. held[w].key \in Keys
    BY <1>2, HeldToken DEF Heartbeat, Working
  <2>2. \A k \in Keys : RowKept(k) \/ RowFreed(k)
    BY <1>2, <2>1, QuietStatements DEF Heartbeat
  <2> QED
    BY <1>2, <2>2, BystanderStep DEF Heartbeat
<1>3. CASE Succeed(w) \/ Defer(w) \/ Release(w) \/ FailEnd(w)
  BY <1>3, EndingStep DEF Succeed, Defer, Release, FailEnd, Working
<1>4. ASSUME NEW transient \in BOOLEAN, FailBegin(w, transient)
      PROVE  LeaseInv'
  <2>1. held[w].key \in Keys
    BY <1>4, HeldToken DEF FailBegin, Working
  <2>2. \A k \in Keys : RowKept(k) \/ RowFreed(k)
    BY <1>4, <2>1, QuietStatements DEF FailBegin
  <2>3. \A v \in Thread : Working(v)' => SameClaim(v)
    BY <1>4, HeldKey DEF FailBegin, Working, SameClaim, TypeOK, Claim
  <2>4. \A v \in Thread : ~(HoldsLease(v) /\ ~Working(v)')
    BY <1>4 DEF FailBegin, Working, HoldsLease, TypeOK
  <2> QED
    BY <2>2, <2>3, <2>4, QuietStep
<1>5. CASE StaleLease(w)
  BY <1>5, EndingStep DEF StaleLease, Working, HoldsLease
<1> QED
  BY <1>1, <1>2, <1>3, <1>4, <1>5 DEF ThreadStep

LEMMA ProcStepLeaseInv ==
    ASSUME LeaseInv, TypeOK', NEW p \in Procs, ProcStep(p)
    PROVE  LeaseInv'
<1>1. CASE Start(p) \/ ForceDone(p) \/ Stop(p)
  BY <1>1, BystanderStep DEF Start, ForceDone, Stop, RowKept
<1>2. CASE ForceStart(p)
  <2>1. PICK killed \in SUBSET Procs : Killed(killed)
    BY <1>2 DEF ForceStart, Others
  <2> QED
    BY <2>1, KillStep
<1>3. CASE ForceVisit(p)
  <2>1. PICK r \in snapshot[p] : jobs' = IF r[2] = NoOwner THEN ReclaimRow(jobs, r[1]) ELSE jobs
    BY <1>3 DEF ForceVisit
  <2>2. r[1] \in Keys
    BY DEF LeaseInv, TypeOK
  <2>3. \A k \in Keys : RowKept(k) \/ RowFreed(k)
    BY <2>1, <2>2, QuietStatements DEF LeaseInv, RowKept
  <2> QED
    BY <1>3, <2>3, BystanderStep DEF ForceVisit
<1>4. CASE Exit(p) \/ Crash(p)
  BY <1>4, KillStep DEF Exit, Crash
<1> QED
  BY <1>1, <1>2, <1>3, <1>4 DEF ProcStep

LEMMA NextLeaseInv == LeaseInv /\ [Next]_vars => LeaseInv'
<1> SUFFICES ASSUME LeaseInv, [Next]_vars
             PROVE  LeaseInv'
  OBVIOUS
<1>1. TypeOK /\ TypeOK'
  BY NextTypeOK DEF LeaseInv
<1>2. ASSUME NEW k \in Keys, Enqueue(k) \/ LeaseExpires(k) \/ BecomesDue(k) \/ CancelOpen({k})
      PROVE  LeaseInv'
  <2>1. \A l \in Keys : RowKept(l) \/ RowFreed(l)
    BY <1>1, <1>2, QuietStatements DEF Enqueue, LeaseExpires, BecomesDue, CancelOpen
  <2> QED
    BY <1>1, <1>2, <2>1, BystanderStep DEF Enqueue, LeaseExpires, BecomesDue, CancelOpen
<1>3. ASSUME NEW b \in BOOLEAN, Retry(b)
      PROVE  LeaseInv'
  <2>1. \A l \in Keys : RowKept(l) \/ RowFreed(l)
    BY <1>1, <1>3, QuietStatements DEF Retry
  <2> QED
    BY <1>1, <1>3, <2>1, BystanderStep DEF Retry
<1>4. CASE Pause \/ Resume \/ UNCHANGED vars
  BY <1>1, <1>4, BystanderStep DEF Pause, Resume, vars, RowKept
<1> QED
  BY <1>1, <1>2, <1>3, <1>4, ThreadStepLeaseInv, ProcStepLeaseInv DEF Next

THEOREM LeaseInvHolds == Spec => []LeaseInv
  BY InitLeaseInv, NextLeaseInv, PTL DEF Spec

\* Two threads never hold the current token of the same job, whatever expires,
\* crashes, is reclaimed, retried or cancelled in between.
THEOREM LeasesAreExclusive == Spec => []LeaseExclusive
<1>1. LeaseInv => LeaseExclusive
  BY DEF LeaseInv, HeldDistinct, LeaseExclusive, HoldsLease, Fenced
<1> QED
  BY <1>1, LeaseInvHolds, PTL

\* The row a holder was handed by claim() is still the row in the table.
THEOREM ClaimsAreCurrent == Spec => []ClaimIsCurrent
<1>1. LeaseInv => ClaimIsCurrent
  BY DEF LeaseInv
<1> QED
  BY <1>1, LeaseInvHolds, PTL

\* A running job that names a live process is in the hands of one of its threads.
THEOREM NoLeaseIsLost == Spec => []NoLostLease
<1>1. LeaseInv => NoLostLease
  BY DEF LeaseInv
<1> QED
  BY <1>1, LeaseInvHolds, PTL

(***************************************************************************)
(* What each step may do to a lease or to a settled row, from LeaseInv.    *)
(***************************************************************************)
Allowed(k) ==
    /\ Ended(k) => \/ jobs[k].expired \/ jobs[k].owner = NoOwner
                   \/ EndedByHolder(k) \/ LateFail(k) \/ LateVisit(k)
    /\ Undone(k) => LateFail(k)

Harmless(k) ==
    /\ jobs[k].state = "running" => jobs'[k].token = jobs[k].token
    /\ jobs[k].state \in {"succeeded", "cancelled"} => jobs'[k].state = jobs[k].state

LEMMA HarmlessAllowed ==
    ASSUME NEW k, Harmless(k)
    PROVE  Allowed(k)
  BY DEF Harmless, Allowed, Ended, Undone

\* Statements that leave every lease and every settled row as it was.
LEMMA HarmlessStatements ==
    ASSUME TypeOK, NEW k \in Keys, NEW l \in Keys, NEW b \in BOOLEAN,
           \/ jobs' = jobs
           \/ jobs[k].state = "absent" /\ jobs' = Inserted(jobs, k)
           \/ jobs' = [jobs EXCEPT ![k].expired = TRUE]
           \/ jobs' = [jobs EXCEPT ![k].due = TRUE]
           \/ jobs' = HeartbeatRow(jobs, k)
           \/ jobs' = ErrorRow(jobs, k)
           \/ jobs' = RetryRows(jobs, b)
           \/ jobs' = CancelRows(jobs, {k})
    PROVE  Allowed(l)
<1>0. jobs \in Table /\ jobs[l] \in Row
  BY DEF TypeOK, Table
<1> USE <1>0 DEF Table, Row, Harmless
<1>1. CASE jobs' = jobs
  BY <1>1, HarmlessAllowed
<1>2. CASE jobs[k].state = "absent" /\ jobs' = Inserted(jobs, k)
  BY <1>2, HarmlessAllowed DEF Inserted
<1>3. CASE jobs' = [jobs EXCEPT ![k].expired = TRUE] \/ jobs' = [jobs EXCEPT ![k].due = TRUE]
  BY <1>3, HarmlessAllowed
<1>4. CASE jobs' = HeartbeatRow(jobs, k) \/ jobs' = ErrorRow(jobs, k)
  BY <1>4, HarmlessAllowed DEF HeartbeatRow, ErrorRow
<1>5. CASE jobs' = RetryRows(jobs, b)
  <2>1. \/ jobs[l].state \in {"retryable_failed", "permanent_failed"}
        \/ jobs'[l] = jobs[l]
    BY <1>5, Zenon DEF RetryRows
  <2> QED
    BY <2>1, HarmlessAllowed
<1>6. CASE jobs' = CancelRows(jobs, {k})
  <2>1. \/ jobs[l].state \in {"pending", "retryable_failed"}
        \/ jobs'[l] = jobs[l]
    BY <1>6, Zenon DEF CancelRows
  <2> QED
    BY <2>1, HarmlessAllowed
<1> QED
  BY <1>1, <1>2, <1>3, <1>4, <1>5, <1>6

LEMMA ClaimAllowed ==
    ASSUME LeaseInv, NEW w \in Thread, ClaimJob(w), NEW l \in Keys
    PROVE  Allowed(l)
<1>1. PICK k \in FirstEligible(Reclaimed(jobs)), t \in Tokens \ UsedTokens :
        jobs' = ClaimedBy(Reclaimed(jobs), k, w[1], t)
  BY DEF ClaimJob
<1>2. jobs \in Table /\ jobs[l] \in Row /\ Reclaimed(jobs) \in Table
  BY ReclaimedType DEF LeaseInv, TypeOK, Table
<1>3. CASE jobs[l].state = "running" /\ jobs[l].expired
  BY <1>3 DEF Allowed, Ended, Undone
<1>4. CASE ~(jobs[l].state = "running" /\ jobs[l].expired)
  <2>1. Reclaimed(jobs)[l] = jobs[l]
    BY <1>4 DEF Reclaimed
  <2>2. CASE l = k
    <3>1. jobs[l].state \in {"pending", "retryable_failed"}
      BY <1>1, <2>1, <2>2 DEF FirstEligible, Eligible
    <3> QED
      BY <3>1, HarmlessAllowed DEF Harmless
  <2>3. CASE l # k
    <3>1. jobs'[l] = jobs[l]
      BY <1>1, <1>2, <2>1, <2>3 DEF ClaimedBy, Table
    <3> QED
      BY <3>1, HarmlessAllowed DEF Harmless
  <2> QED
    BY <2>2, <2>3
<1> QED
  BY <1>3, <1>4

\* A thread that ends its job: its own lease, or a late fail().
LEMMA EndingAllowed ==
    ASSUME LeaseInv, NEW w \in Thread, Working(w), LetGo(w), NEW l \in Keys,
           \/ jobs' = SucceedRow(jobs, held[w].key)
           \/ jobs' = DeferRow(jobs, held[w].key)
           \/ jobs' = ReleaseRow(jobs, held[w].key)
           \/ jobs' = FailRow(jobs, held[w], held[w].transient),
           HoldsLease(w) \/ pc[w] = "failing"
    PROVE  Allowed(l)
<1>1. held[w].key \in Keys /\ jobs \in Table
  BY HeldToken DEF LeaseInv, TypeOK
<1>2. ~Working(w)'
  BY DEF LetGo, Working, LeaseInv, TypeOK
<1>3. CASE l # held[w].key
  <2>1. jobs'[l] = jobs[l]
    BY <1>1, <1>3 DEF SucceedRow, DeferRow, ReleaseRow, FailRow, Table
  <2> QED
    BY <2>1, HarmlessAllowed DEF Harmless
<1>4. CASE l = held[w].key /\ HoldsLease(w)
  <2>1. jobs[l].state = "running"
    BY <1>4 DEF LeaseInv, ClaimIsCurrent
  <2>2. EndedByHolder(l)
    BY <1>2, <1>4 DEF EndedByHolder
  <2> QED
    BY <2>1, <2>2 DEF Allowed, Undone
<1>5. CASE l = held[w].key /\ ~HoldsLease(w)
  <2>1. LateFail(l)
    BY <1>2, <1>5 DEF LateFail
  <2> QED
    BY <2>1 DEF Allowed
<1> QED
  BY <1>3, <1>4, <1>5

LEMMA KillAllowed ==
    ASSUME LeaseInv, NEW ps, Killed(ps), NEW l \in Keys
    PROVE  Allowed(l)
<1>1. jobs'[l].token = jobs[l].token /\ jobs'[l].state = jobs[l].state
  BY DEF Killed, OrphanRows, LeaseInv, TypeOK, Table, Row
<1> QED
  BY <1>1, HarmlessAllowed DEF Harmless

LEMMA ForceVisitAllowed ==
    ASSUME LeaseInv, NEW p \in Procs, ForceVisit(p), NEW l \in Keys
    PROVE  Allowed(l)
<1>1. PICK r \in snapshot[p] :
         /\ jobs' = IF r[2] = NoOwner THEN ReclaimRow(jobs, r[1]) ELSE jobs
         /\ snapshot' = [snapshot EXCEPT ![p] = @ \ {r}]
  BY DEF ForceVisit
<1>2. r \notin snapshot'[p] /\ r[1] \in Keys /\ jobs \in Table
  BY <1>1 DEF LeaseInv, TypeOK
<1>3. CASE l = r[1]
  <2>1. LateVisit(l)
    BY <1>1, <1>2, <1>3 DEF LateVisit
  <2>2. ~Undone(l)
    BY <1>1, <1>3 DEF Undone, ReclaimRow
  <2> QED
    BY <2>1, <2>2 DEF Allowed
<1>4. CASE l # r[1]
  <2>1. jobs'[l] = jobs[l]
    BY <1>1, <1>2, <1>4 DEF ReclaimRow, Table
  <2> QED
    BY <2>1, HarmlessAllowed DEF Harmless
<1> QED
  BY <1>3, <1>4

LEMMA NextAllowed ==
    ASSUME LeaseInv, [Next]_vars, NEW l \in Keys
    PROVE  Allowed(l)
<1>0. TypeOK
  BY DEF LeaseInv
<1>1. ASSUME NEW k \in Keys, Enqueue(k) \/ LeaseExpires(k) \/ BecomesDue(k) \/ CancelOpen({k})
      PROVE  Allowed(l)
  BY <1>0, <1>1, HarmlessStatements DEF Enqueue, LeaseExpires, BecomesDue, CancelOpen
<1>2. ASSUME NEW b \in BOOLEAN, Retry(b)
      PROVE  Allowed(l)
  BY <1>0, <1>2, HarmlessStatements DEF Retry
<1>3. CASE UNCHANGED jobs
  BY <1>0, <1>3, HarmlessStatements
<1>4. ASSUME NEW w \in Thread, ThreadStep(w)
      PROVE  Allowed(l)
  <2>1. CASE ClaimJob(w)
    BY <2>1, ClaimAllowed
  <2>2. CASE Succeed(w) \/ Defer(w) \/ Release(w) \/ FailEnd(w)
    <3>1. Working(w) /\ LetGo(w) /\ (HoldsLease(w) \/ pc[w] = "failing")
      BY <2>2 DEF Succeed, Defer, Release, FailEnd, Working, HoldsLease
    <3> QED
      BY <2>2, <3>1, EndingAllowed DEF Succeed, Defer, Release, FailEnd
  <2>3. CASE Heartbeat(w) \/ \E transient \in BOOLEAN : FailBegin(w, transient)
    <3>1. held[w].key \in Keys
      BY <1>0, <2>3, HeldToken DEF Heartbeat, FailBegin, Working
    <3> QED
      BY <1>0, <2>3, <3>1, HarmlessStatements DEF Heartbeat, FailBegin
  <2>4. CASE StaleLease(w)
    BY <1>3, <2>4 DEF StaleLease
  <2> QED
    BY <1>4, <2>1, <2>2, <2>3, <2>4 DEF ThreadStep
<1>5. ASSUME NEW p \in Procs, ProcStep(p)
      PROVE  Allowed(l)
  <2>1. CASE Start(p) \/ ForceDone(p) \/ Stop(p)
    BY <1>3, <2>1 DEF Start, ForceDone, Stop
  <2>2. CASE ForceStart(p) \/ Exit(p) \/ Crash(p)
    BY <2>2, KillAllowed DEF ForceStart, Exit, Crash
  <2>3. CASE ForceVisit(p)
    BY <2>3, ForceVisitAllowed
  <2> QED
    BY <1>5, <2>1, <2>2, <2>3 DEF ProcStep
<1>6. CASE Pause \/ Resume \/ UNCHANGED vars
  BY <1>3, <1>6 DEF Pause, Resume, vars
<1> QED
  BY <1>1, <1>2, <1>4, <1>5, <1>6 DEF Next

\* The fencing promise of jobs.py and its only two exceptions, for any number of
\* workers and threads: the second statement of fail() and the visit of --force.
THEOREM FencingHasTwoGaps == Spec => OnlyUnfencedWritesBreakLeases
<1>1. LeaseInv /\ [Next]_vars => [\A k \in Keys :
          /\ Ended(k) => \/ jobs[k].expired \/ jobs[k].owner = NoOwner
                         \/ EndedByHolder(k) \/ LateFail(k) \/ LateVisit(k)
          /\ Undone(k) => LateFail(k)]_vars
  BY NextAllowed DEF Allowed
<1> QED
  BY <1>1, LeaseInvHolds, PTL DEF Spec, OnlyUnfencedWritesBreakLeases
(***************************************************************************)
(* The retry budget.  ParkingIsFree says nothing of running rows, which    *)
(* become retryable; BudgetInv adds what they have spent, and that every   *)
(* running row has a token, without which the end of a lease would not     *)
(* show as a change of token.                                              *)
(***************************************************************************)
RunningHasToken == \A k \in Keys : jobs[k].state = "running" => jobs[k].token # NoToken

Spent ==
    \A k \in Keys \ charged :
        jobs[k].attempts = IF jobs[k].state = "running" THEN 1 ELSE 0

BudgetInv == TypeOK /\ RunningHasToken /\ Spent

\* What a step does to the attempts of a row, by its state before and after.
Accounted(k) ==
    /\ jobs'[k].state = "running" => jobs'[k].token # NoToken
    /\ jobs[k].state = "running" =>
          IF jobs'[k].state = "running"
          THEN jobs'[k].token = jobs[k].token => jobs'[k].attempts = jobs[k].attempts
          ELSE jobs'[k].token # jobs[k].token
    /\ jobs[k].state # "running" /\ jobs[k].attempts = 0 =>
          jobs'[k].attempts = IF jobs'[k].state = "running" THEN 1 ELSE 0
    /\ jobs[k].state = "permanent_failed" => jobs'[k].state # "running"

\* An unchanged row is accounted for.
LEMMA SameRowAccounted ==
    ASSUME BudgetInv, NEW l \in Keys, jobs'[l] = jobs[l]
    PROVE  Accounted(l)
  BY DEF BudgetInv, RunningHasToken, Accounted

\* A row freed by a statement that does not touch its attempts, or gives one back.
LEMMA FreedRowAccounted ==
    ASSUME BudgetInv, NEW l \in Keys,
           jobs'[l].state # "running", jobs'[l].token = NoToken,
           jobs'[l].attempts \in {jobs[l].attempts, Drop(jobs[l].attempts)}
    PROVE  Accounted(l)
  BY DEF BudgetInv, RunningHasToken, Accounted, Drop

\* Statements on one row.
LEMMA RowStatementsAccounted ==
    ASSUME BudgetInv, NEW k \in Keys, NEW l \in Keys,
           \/ jobs[k].state = "absent" /\ jobs' = Inserted(jobs, k)
           \/ jobs[k].state = "running" /\ jobs' = [jobs EXCEPT ![k].expired = TRUE]
           \/ jobs' = [jobs EXCEPT ![k].due = TRUE]
           \/ jobs' = HeartbeatRow(jobs, k)
           \/ jobs' = ErrorRow(jobs, k)
           \/ jobs' = SucceedRow(jobs, k)
           \/ jobs' = DeferRow(jobs, k)
           \/ jobs' = ReleaseRow(jobs, k)
           \/ jobs' = ReclaimRow(jobs, k)
           \/ \E s \in {"permanent_failed", "retryable_failed"} :
                 jobs' = [jobs EXCEPT ![k] = Unleased(@, s)]
    PROVE  Accounted(l)
<1>1. jobs \in Table /\ jobs[l] \in Row /\ jobs[k] \in Row
  BY DEF BudgetInv, TypeOK, Table
<1>2. CASE l # k
  <2>1. jobs'[l] = jobs[l]
    BY <1>1, <1>2 DEF Inserted, HeartbeatRow, ErrorRow, SucceedRow, DeferRow, ReleaseRow,
                      ReclaimRow, Table
  <2> QED
    BY <2>1, SameRowAccounted
<1>3. CASE l = k
  <2>1. CASE jobs[k].state = "absent" /\ jobs' = Inserted(jobs, k)
    <3>1. jobs'[l] = jobs[l] \/ (jobs'[l].state = "pending" /\ jobs'[l].attempts = 0)
      BY <1>1, <1>3, <2>1 DEF Inserted, NoRow, Table
    <3> QED
      BY <2>1, <1>3, <3>1, SameRowAccounted DEF Accounted
  <2>2. CASE \/ jobs' = [jobs EXCEPT ![k].expired = TRUE]
             \/ jobs' = [jobs EXCEPT ![k].due = TRUE]
             \/ jobs' = HeartbeatRow(jobs, k)
             \/ jobs' = ErrorRow(jobs, k)
    <3>1. /\ jobs'[l].state = jobs[l].state /\ jobs'[l].token = jobs[l].token
          /\ jobs'[l].attempts = jobs[l].attempts
      BY <1>1, <1>3, <2>2 DEF HeartbeatRow, ErrorRow, Table, Row
    <3> QED
      BY <3>1 DEF Accounted, BudgetInv, RunningHasToken
  <2>3. CASE \/ jobs' = SucceedRow(jobs, k)
             \/ jobs' = DeferRow(jobs, k)
             \/ jobs' = ReleaseRow(jobs, k)
             \/ \E s \in {"permanent_failed", "retryable_failed"} :
                   jobs' = [jobs EXCEPT ![k] = Unleased(@, s)]
    <3>1. /\ jobs'[l].state # "running" /\ jobs'[l].token = NoToken
          /\ jobs'[l].attempts \in {jobs[l].attempts, Drop(jobs[l].attempts)}
      <4>1. CASE jobs' = SucceedRow(jobs, k)
        BY <1>1, <1>3, <4>1 DEF SucceedRow, Unleased, Table, Row
      <4>2. CASE jobs' = DeferRow(jobs, k)
        BY <1>1, <1>3, <4>2 DEF DeferRow, Unleased, Table, Row
      <4>3. CASE jobs' = ReleaseRow(jobs, k)
        BY <1>1, <1>3, <4>3 DEF ReleaseRow, Unleased, Table, Row
      <4>4. ASSUME NEW s \in {"permanent_failed", "retryable_failed"},
                   jobs' = [jobs EXCEPT ![k] = Unleased(@, s)]
            PROVE  /\ jobs'[l].state = s /\ jobs'[l].token = NoToken
                   /\ jobs'[l].attempts = jobs[l].attempts
        BY <1>1, <1>3, <4>4 DEF Unleased, Table, Row
      <4> QED
        BY <2>3, <4>1, <4>2, <4>3, <4>4
    <3> QED
      BY <3>1, FreedRowAccounted
  <2>4. CASE jobs' = ReclaimRow(jobs, k)
    <3>1. \/ jobs'[l] = jobs[l]
          \/ /\ jobs'[l].state = "pending" /\ jobs'[l].token = NoToken
             /\ jobs'[l].attempts = jobs[l].attempts
      BY <1>1, <1>3, <2>4 DEF ReclaimRow, Unleased, Table, Row
    <3> QED
      BY <3>1, FreedRowAccounted, SameRowAccounted
  <2> QED
    BY <2>1, <2>2, <2>3, <2>4
<1> QED
  BY <1>2, <1>3

\* Statements on all rows.
LEMMA TableStatementsAccounted ==
    ASSUME BudgetInv, NEW b \in BOOLEAN, NEW ks, NEW ps, NEW l \in Keys,
           \/ jobs' = RetryRows(jobs, b)
           \/ jobs' = CancelRows(jobs, ks)
           \/ jobs' = OrphanRows(jobs, ps)
    PROVE  Accounted(l)
<1>1. jobs \in Table /\ jobs[l] \in Row
  BY DEF BudgetInv, TypeOK, Table
<1>2. CASE jobs' = RetryRows(jobs, b)
  <2>1. \/ jobs'[l] = [jobs[l] EXCEPT !.state = "pending", !.due = FALSE]
              /\ jobs[l].state = "retryable_failed"
        \/ jobs'[l] = [jobs[l] EXCEPT !.state = "pending", !.attempts = 0, !.parked = FALSE]
              /\ jobs[l].state = "permanent_failed"
        \/ jobs'[l] = jobs[l]
    BY <1>2, Zenon DEF RetryRows
  <2>2. \/ jobs'[l] = jobs[l]
        \/ /\ jobs'[l].state = "pending" /\ jobs[l].state # "running"
           /\ jobs'[l].attempts \in {0, jobs[l].attempts}
    BY <1>1, <2>1 DEF Row
  <2> QED
    BY <2>2, SameRowAccounted DEF Accounted
<1>3. CASE jobs' = CancelRows(jobs, ks)
  <2>1. \/ jobs'[l] = [jobs[l] EXCEPT !.state = "cancelled", !.due = FALSE]
              /\ jobs[l].state \in {"pending", "retryable_failed"}
        \/ jobs'[l] = jobs[l]
    BY <1>3, Zenon DEF CancelRows
  <2>2. \/ jobs'[l] = jobs[l]
        \/ /\ jobs'[l].state = "cancelled" /\ jobs[l].state # "running"
           /\ jobs'[l].attempts = jobs[l].attempts
    BY <1>1, <2>1 DEF Row
  <2> QED
    BY <2>2, SameRowAccounted DEF Accounted
<1>4. CASE jobs' = OrphanRows(jobs, ps)
  <2>1. \/ jobs'[l] = [jobs[l] EXCEPT !.owner = NoOwner]
        \/ jobs'[l] = jobs[l]
    BY <1>4, Zenon DEF OrphanRows
  <2>2. /\ jobs'[l].state = jobs[l].state /\ jobs'[l].token = jobs[l].token
        /\ jobs'[l].attempts = jobs[l].attempts
    BY <1>1, <2>1 DEF Row
  <2> QED
    BY <2>2 DEF Accounted, BudgetInv, RunningHasToken
<1> QED
  BY <1>2, <1>3, <1>4

\* A claim frees the rows that ran out and gives one row a fresh token and an attempt.
LEMMA ClaimAccounted ==
    ASSUME BudgetInv, NEW w \in Thread, ClaimJob(w), NEW l \in Keys
    PROVE  Accounted(l)
<1>1. PICK k \in FirstEligible(Reclaimed(jobs)), t \in Tokens \ UsedTokens :
        jobs' = ClaimedBy(Reclaimed(jobs), k, w[1], t)
  BY DEF ClaimJob
<1>2. /\ jobs \in Table /\ jobs[l] \in Row /\ Reclaimed(jobs) \in Table
      /\ Reclaimed(jobs)[l] \in Row
  BY ReclaimedType DEF BudgetInv, TypeOK, Table
<1>3. t # NoToken /\ t # jobs[l].token
  BY JobTableAssumption DEF UsedTokens
<1>4. \/ Reclaimed(jobs)[l] = jobs[l] /\ ~(jobs[l].state = "running" /\ jobs[l].expired)
      \/ Reclaimed(jobs)[l] = Unleased(jobs[l], "pending") /\ jobs[l].state = "running"
  BY DEF Reclaimed
<1>5. CASE l # k
  <2>1. jobs'[l] = Reclaimed(jobs)[l]
    BY <1>1, <1>2, <1>5 DEF ClaimedBy, Table
  <2>2. \/ jobs'[l] = jobs[l]
        \/ /\ jobs'[l].state = "pending" /\ jobs'[l].token = NoToken
           /\ jobs'[l].attempts = jobs[l].attempts
    BY <1>2, <1>4, <2>1 DEF Unleased, Row
  <2> QED
    BY <2>2, SameRowAccounted, FreedRowAccounted
<1>6. CASE l = k
  <2>1. /\ jobs'[l].state = "running" /\ jobs'[l].token = t
        /\ jobs'[l].attempts = Bump(Reclaimed(jobs)[l].attempts)
    BY <1>1, <1>2, <1>6 DEF ClaimedBy, Table, Row
  <2>2. jobs[l].state # "running" => Reclaimed(jobs)[l].attempts = jobs[l].attempts
    BY <1>4
  <2>3. Bump(0) = 1
    BY JobTableAssumption DEF Bump, AttemptsCap
  <2>4. Reclaimed(jobs)[l].state # "permanent_failed"
    BY <1>1, <1>6 DEF FirstEligible, Eligible
  <2> QED
    BY <1>3, <1>4, <2>1, <2>2, <2>3, <2>4 DEF Accounted
<1> QED
  BY <1>5, <1>6

LEMMA NextAccounted ==
    ASSUME BudgetInv, [Next]_vars, NEW l \in Keys
    PROVE  Accounted(l)
<1>0. TypeOK
  BY DEF BudgetInv
<1>1. ASSUME NEW k \in Keys, Enqueue(k) \/ LeaseExpires(k) \/ BecomesDue(k) \/ CancelOpen({k})
      PROVE  Accounted(l)
  BY <1>1, RowStatementsAccounted, TableStatementsAccounted
     DEF Enqueue, LeaseExpires, BecomesDue, CancelOpen
<1>2. ASSUME NEW b \in BOOLEAN, Retry(b)
      PROVE  Accounted(l)
  BY <1>2, TableStatementsAccounted DEF Retry
<1>3. CASE UNCHANGED jobs
  BY <1>3, SameRowAccounted
<1>4. ASSUME NEW w \in Thread, ThreadStep(w)
      PROVE  Accounted(l)
  <2>1. CASE ClaimJob(w)
    BY <2>1, ClaimAccounted
  <2>2. CASE Heartbeat(w) \/ Succeed(w) \/ Defer(w) \/ Release(w)
             \/ \E transient \in BOOLEAN : FailBegin(w, transient)
    <3>1. held[w].key \in Keys
      BY <1>0, <2>2, HeldKey DEF Heartbeat, Succeed, Defer, Release, FailBegin
    <3> QED
      BY <2>2, <3>1, RowStatementsAccounted DEF Heartbeat, Succeed, Defer, Release, FailBegin
  <2>3. CASE FailEnd(w)
    <3>1. held[w].key \in Keys
      BY <1>0, <2>3, HeldKey DEF FailEnd
    <3>2. \E s \in {"permanent_failed", "retryable_failed"} :
             jobs' = [jobs EXCEPT ![held[w].key] = Unleased(@, s)]
      BY <2>3 DEF FailEnd, FailRow
    <3> QED
      BY <3>1, <3>2, RowStatementsAccounted
  <2>4. CASE StaleLease(w)
    BY <1>3, <2>4 DEF StaleLease
  <2> QED
    BY <1>4, <2>1, <2>2, <2>3, <2>4 DEF ThreadStep
<1>5. ASSUME NEW p \in Procs, ProcStep(p)
      PROVE  Accounted(l)
  <2>1. CASE Start(p) \/ ForceDone(p) \/ Stop(p)
    BY <1>3, <2>1 DEF Start, ForceDone, Stop
  <2>2. CASE ForceStart(p) \/ Exit(p) \/ Crash(p)
    BY <2>2, TableStatementsAccounted DEF ForceStart, Exit, Crash, Killed
  <2>3. CASE ForceVisit(p)
    <3>1. PICK r \in snapshot[p] : jobs' = IF r[2] = NoOwner THEN ReclaimRow(jobs, r[1]) ELSE jobs
      BY <2>3 DEF ForceVisit
    <3>2. r[1] \in Keys
      BY <1>0 DEF TypeOK
    <3> QED
      BY <1>3, <3>1, <3>2, RowStatementsAccounted
  <2> QED
    BY <1>5, <2>1, <2>2, <2>3 DEF ProcStep
<1>6. CASE Pause \/ Resume \/ UNCHANGED vars
  BY <1>3, <1>6 DEF Pause, Resume, vars
<1> QED
  BY <1>1, <1>2, <1>4, <1>5, <1>6 DEF Next

\* A release gives the attempt back; every other end of a lease is charged.
LEMMA SpentStep ==
    ASSUME BudgetInv, BudgetNext
    PROVE  Spent'
<1> SUFFICES ASSUME NEW k \in Keys, k \notin charged'
             PROVE  jobs'[k].attempts = IF jobs'[k].state = "running" THEN 1 ELSE 0
  BY DEF Spent
<1>1. Accounted(k) /\ TypeOK
  BY NextAccounted DEF BudgetNext, BudgetInv
<1>2. CASE Reset(k)
  BY <1>1, <1>2 DEF Reset, Accounted, BudgetNext
<1>3. CASE ~Reset(k)
  <2>1. k \notin charged /\ ~(LeaseOver(k) /\ ~Parked(k))
    BY <1>3 DEF BudgetNext
  <2>2. jobs[k].attempts = IF jobs[k].state = "running" THEN 1 ELSE 0
    BY <2>1 DEF BudgetInv, Spent
  <2>3. CASE LeaseOver(k) /\ Parked(k)
    <3>1. PICK w \in Thread : held[w].key = k /\ jobs' = ReleaseRow(jobs, k)
      BY <2>3 DEF Parked, Release
    <3>2. jobs'[k].state = "retryable_failed" /\ jobs'[k].attempts = Drop(jobs[k].attempts)
      BY <1>1, <3>1 DEF ReleaseRow, Unleased, TypeOK, Table, Row
    <3> QED
      BY <2>2, <3>2 DEF Drop
  <2>4. CASE ~LeaseOver(k)
    BY <1>1, <2>2, <2>4 DEF LeaseOver, Accounted
  <2> QED
    BY <2>1, <2>3, <2>4
<1> QED
  BY <1>2, <1>3

LEMMA BudgetInvHolds == BudgetSpec => []BudgetInv
<1>1. BudgetInit => BudgetInv
  BY InitTypeOK DEF BudgetInit, BudgetInv, Init, NoRow, RunningHasToken, Spent
<1>2. ASSUME BudgetInv, [BudgetNext]_budgetVars
      PROVE  BudgetInv'
  <2>1. [Next]_vars
    BY <1>2 DEF BudgetNext, budgetVars, vars
  <2>2. TypeOK'
    BY <1>2, <2>1, NextTypeOK DEF BudgetInv
  <2>3. RunningHasToken'
    BY <1>2, <2>1, NextAccounted DEF Accounted, RunningHasToken
  <2>4. Spent'
    <3>1. CASE BudgetNext
      BY <1>2, <3>1, SpentStep
    <3>2. CASE UNCHANGED budgetVars
      BY <1>2, <3>2 DEF budgetVars, vars, BudgetInv, Spent
    <3> QED
      BY <1>2, <3>1, <3>2
  <2> QED
    BY <2>2, <2>3, <2>4 DEF BudgetInv
<1> QED
  BY <1>1, <1>2, PTL DEF BudgetSpec

\* A job that was only ever claimed and put back by release() has its whole retry
\* budget: every other way for a lease to end is counted in charged, and a late
\* fail() finds either a charged row or one without attempts.
THEOREM BudgetIsKept == BudgetSpec => []ParkingIsFree
<1>1. BudgetInv => ParkingIsFree
  BY DEF BudgetInv, Spent, ParkingIsFree
<1> QED
  BY <1>1, BudgetInvHolds, PTL
=============================================================================
