-------------------------- MODULE BoundedRunProofs --------------------------
(* Theorems about BoundedRun, for any books, budget, hands, versions and bounds. *)
EXTENDS BoundedRun, FiniteSetTheorems, SequenceTheorems, WellFoundedInduction, TLAPS

JobStates == {"none", "pending", "running", "waiting", "parked", "done", "dead"}

(* Every variable the proofs read holds what the code puts there. *)
Typed ==
    /\ state \in [Job -> JobStates]
    /\ due \subseteq {j \in Job : state[j] \in {"waiting", "parked"}}
    /\ by \in [Job -> Version]
    /\ queue \in Seq(Job)
    /\ run \in [at : {"off", "on", "drained", "stopped"}, pid : Pid \union {None},
                version : Version, started : SUBSET Book]
    /\ inflight \subseteq {j \in Job : state[j] = "running"}
    /\ installed \in Version

(* Handlers are at work only in a worker that runs. *)
OffIsIdle == run.at = "off" => inflight = {}

(* A stop command waits for the worker the pidfile named. *)
PidInv ==
    (run.at \in {"on", "drained"} /\ ~contested) =>
        pidfile = run.pid /\ stopping \in {None, run.pid}

(* What the gate confirmed covers every open job, not only those at work. *)
Admitted(j) ==
    \/ by[j] = run.version
    \/ ack.to = run.version /\ by[j] \in ack.from
    \/ j \in others

GateInv == run.at # "off" => \A j \in Job : Open(j) => Admitted(j)

(* An index job is queued exactly once its extract job is done, and never parked. *)
StageInv ==
    \A b \in Book : state[Index(b)] # "none" =>
        /\ state[Extract(b)] = "done"
        /\ state[Index(b)] # "parked"
        /\ \E i \in DOMAIN queue : queue[i] = Index(b)

JobsOf(b) == {Extract(b), Index(b)}

(* The jobs of a book this run started are not parked, and those that run are in
   the hands of its own handlers. *)
StartedInv ==
    run.at # "off" =>
        \A b \in run.started : \A j \in JobsOf(b) :
            state[j] # "parked" /\ (state[j] = "running" => j \in inflight)

(* Once the loop has ended, the other books it started are settled. *)
DrainedInv ==
    run.at = "drained" =>
        /\ \A j \in inflight : j[1] \in late
        /\ \A b \in run.started \ late : \A j \in JobsOf(b) : Open(j) => j \in others

RunInv ==
    /\ Typed /\ OffIsIdle /\ PidInv /\ GateInv /\ StageInv /\ StartedInv /\ DrainedInv

-----------------------------------------------------------------------------
(* Jobs, and the first claimable one *)

LEMMA LeastNatural ==
    ASSUME NEW T \in SUBSET Nat, T # {}
    PROVE  \E x \in T : \A y \in T : x <= y
<1> DEFINE U == {0 .. x : x \in T}
           R == StrictSubsetOrdering(Nat)
<1>1. U \subseteq FiniteSubsetsOf(Nat) /\ U # {}
  <2>1. \A x \in T : IsFiniteSet(0 .. x) /\ 0 .. x \subseteq Nat
    BY FS_Interval
  <2> QED
    BY <2>1 DEF FiniteSubsetsOf
<1>2. PICK u \in U : \A v \in U : ~ (<<v, u>> \in R)
  <2>1. IsWellFoundedOn(R, FiniteSubsetsOf(Nat))
    BY FS_StrictSubsetOrderingWellFounded
  <2> HIDE DEF U, R
  <2> QED
    BY <1>1, <2>1, WFMin
<1>3. PICK x \in T : u = 0 .. x
  BY <1>2
<1>4. \A y \in T : x <= y
  <2> SUFFICES ASSUME NEW y \in T, y < x
               PROVE  FALSE
    OBVIOUS
  <2>1. x \in 0 .. x /\ x \notin 0 .. y /\ 0 .. y \subseteq 0 .. x
    OBVIOUS
  <2>2. <<0 .. y, 0 .. x>> \in R
    BY <2>1 DEF StrictSubsetOrdering
  <2> QED
    BY <1>2, <1>3, <2>2
<1> QED
  BY <1>4

LEMMA JobsOfBooks ==
    /\ \A b \in Book : /\ Extract(b) \in Job /\ Index(b) \in Job /\ Extract(b) # Index(b)
                       /\ Extract(b)[1] = b /\ Extract(b)[2] = "extract"
                       /\ Index(b)[1] = b /\ Index(b)[2] = "index"
    /\ \A j \in Job : /\ j[1] \in Book
                      /\ j[2] = "extract" => j = Extract(j[1])
                      /\ j[2] # "extract" => j = Index(j[1])
  BY DEF Job, Extract, Index

(* Order names every book: it is an injection of as many places as there are books. *)
LEMMA OrderCovers == \A b \in Book : \E i \in DOMAIN Order : Order[i] = b
<1>1. Cardinality(Book) \in Nat
  BY BoundedAssumption, FS_CardinalityType
<1>2. /\ IsFiniteSet(1 .. Cardinality(Book))
      /\ Cardinality(1 .. Cardinality(Book)) = Cardinality(Book)
  BY <1>1, FS_Interval
<1>3. Order \in Injection(1 .. Cardinality(Book), Book)
  BY BoundedAssumption DEF Injection, IsInjective
<1>4. Order \in Surjection(1 .. Cardinality(Book), Book)
  BY <1>2, <1>3, BoundedAssumption, FS_Injection
<1> QED
  BY <1>4 DEF Surjection

LEMMA InOrderIsSeq ==
    ASSUME Typed
    PROVE  /\ InOrder \in Seq(Job)
           /\ Len(InOrder) \in Nat /\ DOMAIN InOrder = 1 .. Len(InOrder)
<1>1. DOMAIN Order = 1 .. Cardinality(Book) /\ \A i \in DOMAIN Order : Order[i] \in Book
  BY BoundedAssumption
<1>2. Cardinality(Book) \in Nat
  BY BoundedAssumption, FS_CardinalityType
<1>3. [i \in DOMAIN Order |-> Extract(Order[i])] \in Seq(Job)
  BY <1>1, <1>2, JobsOfBooks, SeqDef
<1>4. InOrder \in Seq(Job)
  BY <1>3, ConcatProperties DEF InOrder, Typed
<1> QED
  BY <1>4, LenProperties

(* Every job there is has a place in the order of the claims. *)
LEMMA JobsAreInOrder ==
    ASSUME Typed, StageInv, NEW j \in Job, state[j] # "none"
    PROVE  \E i \in DOMAIN InOrder : InOrder[i] = j
<1> DEFINE n == Cardinality(Book)
           extracts == [i \in DOMAIN Order |-> Extract(Order[i])]
<1>1. n \in Nat /\ DOMAIN Order = 1 .. n /\ \A i \in 1 .. n : Order[i] \in Book
  BY BoundedAssumption, FS_CardinalityType
<1>2. extracts \in Seq(Job) /\ Len(extracts) = n
  <2>1. extracts \in [1 .. n -> Job]
    BY <1>1, JobsOfBooks
  <2> QED
    BY <1>1, <2>1, SeqDef
<1>3. /\ DOMAIN InOrder = 1 .. n + Len(queue)
      /\ \A i \in 1 .. n + Len(queue) :
            InOrder[i] = IF i <= n THEN extracts[i] ELSE queue[i - n]
  BY <1>1, <1>2, ConcatProperties, LenProperties DEF InOrder, Typed
<1>4. CASE j[2] = "extract"
  <2>1. PICK i \in 1 .. n : Order[i] = j[1]
    BY <1>1, OrderCovers, JobsOfBooks
  <2>2. extracts[i] = j /\ i \in DOMAIN InOrder
    BY <1>1, <1>3, <1>4, <2>1, JobsOfBooks, LenProperties DEF Typed
  <2>3. InOrder[i] = j
    <3>1. i \in 1 .. n + Len(queue) /\ i <= n
      BY <1>3, <2>1, <2>2
    <3> QED
      BY <1>3, <2>2, <3>1
  <2> QED
    BY <2>2, <2>3
<1>5. CASE j[2] # "extract"
  <2>1. PICK i \in 1 .. Len(queue) : queue[i] = j
    BY <1>5, JobsOfBooks, LenProperties DEF StageInv, Typed
  <2>2. n + i \in 1 .. n + Len(queue) /\ ~(n + i <= n) /\ (n + i) - n = i
    BY <1>1, <2>1, LenProperties DEF Typed
  <2>3. InOrder[n + i] = j
    BY <1>3, <2>1, <2>2
  <2>4. n + i \in DOMAIN InOrder
    BY <1>3, <2>2
  <2> QED
    BY <2>3, <2>4
<1> QED
  BY <1>4, <1>5

LEMMA FirstIsClaimable ==
    ASSUME Typed, StageInv, Claimable # {}
    PROVE  First \in Claimable
<1> DEFINE T == {i \in DOMAIN InOrder : InOrder[i] \in Claimable}
<1>1. PICK j \in Job : j \in Claimable
  BY DEF Claimable
<1>2. state[j] # "none"
  BY <1>1 DEF Claimable, Typed
<1>3. T # {}
  BY <1>1, <1>2, JobsAreInOrder
<1>4. Len(InOrder) \in Nat /\ DOMAIN InOrder = 1 .. Len(InOrder)
  BY InOrderIsSeq
<1>5. PICK i \in T : \A k \in T : i <= k
  <2>1. T \in SUBSET Nat
    BY <1>4
  <2> HIDE DEF T
  <2> QED
    BY <1>3, <2>1, LeastNatural
<1>6. \A k \in 1 .. i - 1 : InOrder[k] \notin Claimable
  BY <1>4, <1>5
<1> QED
  BY <1>5, <1>6 DEF First

LEMMA ClaimableJobs ==
    ASSUME Typed
    PROVE  \A j \in Claimable : j \in Job /\ state[j] \in {"pending", "waiting", "parked"}
  BY DEF Typed, Claimable

-----------------------------------------------------------------------------
(* Types *)

LEMMA TypedInit == Init => Typed
<1> SUFFICES ASSUME Init
             PROVE  Typed
  OBVIOUS
<1>1. <<>> \in Seq(Job)
  BY EmptySeq
<1>2. state \in [Job -> JobStates]
  BY DEF Init, JobStates
<1> QED
  BY <1>1, <1>2, BoundedAssumption DEF Init, Typed, Off

(* Steps of the job table. *)
LEMMA TypedHandler ==
    ASSUME Typed, NEW j \in Job, Handler(j)
    PROVE  Typed'
<1>1. CASE Succeed(j)
  <2>1. Index(j[1]) \in Job
    BY JobsOfBooks
  <2>2. state' \in [Job -> JobStates] /\ by' \in [Job -> Version] /\ queue' \in Seq(Job)
    <3>1. state' \in [Job -> JobStates]
      BY <1>1, <2>1 DEF Succeed, Set, Typed, JobStates
    <3>2. run.version \in Version
      BY DEF Typed
    <3>3. by' \in [Job -> Version]
      BY <1>1, <2>1, <3>2 DEF Succeed, Typed
    <3>4. Append(queue, Index(j[1])) \in Seq(Job)
      BY <2>1, AppendProperties DEF Typed
    <3>5. queue' \in Seq(Job)
      BY <1>1, <3>4 DEF Succeed, Typed
    <3> QED
      BY <3>1, <3>3, <3>5
  <2>3. /\ state[j] = "running" /\ state'[j] = "done" /\ inflight' = inflight \ {j}
        /\ \A k \in Job : k # j => state'[k] = state[k] \/ state[k] = "none"
    BY <1>1, <2>1 DEF Succeed, Leaves, Set, Typed
  <2>4. due' = due /\ run' = run /\ installed' = installed
    BY <1>1 DEF Succeed, gate
  <2> QED
    BY <2>2, <2>3, <2>4 DEF Typed
<1>2. CASE Defer(j)
  BY <1>2 DEF Defer, Leaves, Set, Typed, JobStates, gate
<1>3. CASE GiveUp(j)
  BY <1>3 DEF GiveUp, Leaves, Set, Typed, JobStates, gate
<1> QED
  BY <1>1, <1>2, <1>3 DEF Handler

LEMMA TypedJobs ==
    ASSUME Typed, NEW j \in Job, DelayEnds(j) \/ LeaseEnds(j) \/ Retry
    PROVE  Typed'
<1>1. CASE DelayEnds(j)
  BY <1>1 DEF DelayEnds, Typed, process, gate
<1>2. CASE LeaseEnds(j)
  BY <1>2 DEF LeaseEnds, Set, Typed, JobStates, process, gate
<1>3. CASE Retry
  <2>1. state' \in [Job -> JobStates]
    BY <1>3 DEF Retry, Typed, JobStates
  <2>2. \A k \in Job : state[k] = "running" => state'[k] = "running"
    BY <1>3 DEF Retry, Typed
  <2> QED
    BY <1>3, <2>1, <2>2 DEF Retry, Typed, process
<1> QED
  BY <1>1, <1>2, <1>3

LEMMA TypedClaims ==
    ASSUME Typed, StageInv, Park \/ Take
    PROVE  Typed'
<1>1. First \in Job /\ state[First] \in {"pending", "waiting", "parked"}
  BY FirstIsClaimable, ClaimableJobs DEF Park, Take, CanClaim
<1>2. CASE Park
  BY <1>1, <1>2 DEF Park, Set, Typed, JobStates, process, gate
<1>3. CASE Take
  <2>1. run' \in [at : {"off", "on", "drained", "stopped"}, pid : Pid \union {None},
                  version : Version, started : SUBSET Book]
    BY <1>1, <1>3, JobsOfBooks DEF Take, Typed
  <2>2. /\ state' = [state EXCEPT ![First] = "running"] /\ due' = due \ {First}
        /\ inflight' = inflight \union {First}
        /\ by' = by /\ queue' = queue /\ installed' = installed
    BY <1>3 DEF Take, Set, gate
  <2> QED
    BY <1>1, <2>1, <2>2 DEF Typed, JobStates
<1> QED
  BY <1>2, <1>3

(* Steps of processes and commands. *)
LEMMA TypedProcess ==
    ASSUME Typed,
           \/ \E allow \in BOOLEAN : Start(allow)
           \/ Drain \/ End \/ StartAgain \/ Upgrade \/ Crash
           \/ StopBegin \/ StopKills \/ StopEnd \/ UNCHANGED vars
    PROVE  Typed'
<1>1. ASSUME NEW allow \in BOOLEAN, Start(allow)
      PROVE  Typed'
  BY <1>1 DEF Start, Typed, jobs
<1>2. CASE Drain \/ End
  BY <1>2 DEF Drain, End, Typed, jobs, gate
<1>3. CASE StartAgain \/ StopEnd \/ UNCHANGED vars
  BY <1>3 DEF StartAgain, StopEnd, Typed, vars, jobs, process, gate
<1>4. CASE Upgrade
  BY <1>4 DEF Upgrade, Typed, jobs, process
<1>5. CASE Crash \/ StopKills
  BY <1>5 DEF Crash, StopKills, Dies, Typed, jobs, gate
<1>6. CASE StopBegin
  BY <1>6 DEF StopBegin, Typed, jobs, gate
<1> QED
  BY <1>1, <1>2, <1>3, <1>4, <1>5, <1>6

LEMMA TypedStep ==
    ASSUME Typed, StageInv, [Next]_vars
    PROVE  Typed'
<1>1. CASE Loop
  BY <1>1, TypedClaims, TypedProcess DEF Loop
<1>2. ASSUME NEW j \in Job, Handler(j) \/ DelayEnds(j) \/ LeaseEnds(j)
      PROVE  Typed'
  BY <1>2, TypedHandler, TypedJobs
<1>3. CASE Retry
  <2>1. CASE Job = {}
    BY <1>3, <2>1 DEF Retry, Typed, process, JobStates
  <2>2. CASE Job # {}
    BY <1>3, <2>2, TypedJobs
  <2> QED
    BY <2>1, <2>2
<1> QED
  BY <1>1, <1>2, <1>3, TypedProcess DEF Next

-----------------------------------------------------------------------------
(* The parts of RunInv *)

LEMMA OffIsIdleStep ==
    ASSUME Typed, OffIsIdle, [Next]_vars
    PROVE  OffIsIdle'
<1>1. CASE \E allow \in BOOLEAN : Start(allow)
  BY <1>1 DEF Start, Typed, OffIsIdle
<1>2. CASE Park \/ Drain \/ End
  BY <1>2 DEF Park, CanClaim, Drain, End, Typed, OffIsIdle, process
<1>3. CASE Take
  BY <1>3 DEF Take, CanClaim, Typed, OffIsIdle
<1>4. ASSUME NEW j \in Job, Handler(j)
      PROVE  OffIsIdle'
  BY <1>4 DEF Handler, Succeed, Defer, GiveUp, Leaves, OffIsIdle
<1>5. CASE Crash \/ StopKills
  BY <1>5 DEF Crash, StopKills, Dies, OffIsIdle
<1>6. CASE StopBegin
  BY <1>6 DEF StopBegin, Typed, OffIsIdle
<1>7. CASE UNCHANGED process
  BY <1>7 DEF process, OffIsIdle
<1>8. ASSUME NEW j \in Job, DelayEnds(j) \/ LeaseEnds(j)
      PROVE  UNCHANGED process
  BY <1>8 DEF DelayEnds, LeaseEnds
<1>9. CASE StartAgain \/ Upgrade \/ Retry \/ StopEnd \/ UNCHANGED vars
  BY <1>7, <1>9 DEF StartAgain, Upgrade, Retry, StopEnd, vars
<1> QED
  BY <1>1, <1>2, <1>3, <1>4, <1>5, <1>6, <1>7, <1>8, <1>9 DEF Next, Loop

(* The worker that starts writes its pid, and only a stop that waits for it, a
   second ingest or its own end takes the pidfile away. *)
LEMMA PidStep ==
    ASSUME Typed, PidInv, [Next]_vars
    PROVE  PidInv'
<1>1. ASSUME NEW allow \in BOOLEAN, Start(allow)
      PROVE  PidInv'
  <2>1. pidfile' = run'.pid /\ stopping' = stopping
    BY <1>1 DEF Start
  <2>2. ~contested' => stopping = None
    BY <1>1, Zenon DEF Start
  <2> QED
    BY <2>1, <2>2 DEF PidInv
<1>2. CASE Drain
  BY <1>2 DEF Drain, pids, Typed, PidInv
<1>3. CASE End \/ Crash \/ StopKills
  BY <1>3 DEF End, Crash, StopKills, Dies, Typed, PidInv
<1>4. CASE Take
  BY <1>4 DEF Take, pids, Typed, PidInv
<1>5. CASE StartAgain
  BY <1>5 DEF StartAgain, PidInv
<1>6. CASE StopBegin
  <2>1. /\ run'.at \in {"on", "drained"} => run'.at = run.at /\ run' = run
        /\ stopping' = pidfile /\ UNCHANGED <<pidfile, contested>>
    BY <1>6 DEF StopBegin, Typed
  <2> QED
    BY <2>1 DEF PidInv
<1>7. CASE StopEnd
  BY <1>7 DEF StopEnd, process, Typed, PidInv
<1>8. CASE UNCHANGED <<run, pids>>
  BY <1>8 DEF pids, PidInv
<1>9. ASSUME NEW j \in Job, Handler(j) \/ DelayEnds(j) \/ LeaseEnds(j)
      PROVE  UNCHANGED <<run, pids>>
  BY <1>9 DEF Handler, Succeed, Defer, GiveUp, DelayEnds, LeaseEnds, process
<1>10. CASE Park \/ Upgrade \/ Retry \/ UNCHANGED vars
  BY <1>8, <1>10 DEF Park, Upgrade, Retry, vars, process
<1> QED
  BY <1>1, <1>2, <1>3, <1>4, <1>5, <1>6, <1>7, <1>8, <1>9, <1>10 DEF Next, Loop

(* What a step opens is of the version that runs, or was opened by others; the
   gate admits the rest when the worker starts. *)
LEMMA GateStart ==
    ASSUME Typed, NEW allow \in BOOLEAN, Start(allow)
    PROVE  GateInv'
<1>1. /\ run'.version = installed /\ others' = {} /\ UNCHANGED <<state, by>>
      /\ ack' = IF Confirmed(installed) THEN ack
                ELSE [to |-> installed, from |-> Prior(installed) \union Foreign(installed)]
  BY DEF Start, jobs
<1> SUFFICES ASSUME NEW j \in Job, Open(j), by[j] # installed
             PROVE  ack'.to = installed /\ by[j] \in ack'.from
  BY <1>1 DEF GateInv, Admitted, Open
<1>2. by[j] \in Foreign(installed)
  BY DEF Foreign
<1>3. CASE Confirmed(installed)
  BY <1>1, <1>2, <1>3 DEF Confirmed, Prior
<1>4. CASE ~Confirmed(installed)
  BY <1>1, <1>2, <1>4
<1> QED
  BY <1>3, <1>4

(* A step within a run that opens no job, or one that is admitted. *)
LEMMA GateKept ==
    ASSUME GateInv, run.at # "off" \/ run'.at = "off",
           run'.version = run.version, ack' = ack, others \subseteq others',
           \A j \in Job : Open(j)' => \/ Open(j) /\ by'[j] = by[j]
                                      \/ by'[j] = run.version
                                      \/ j \in others'
    PROVE  GateInv'
  BY DEF GateInv, Admitted

LEMMA GateStep ==
    ASSUME Typed, OffIsIdle, StageInv, GateInv, [Next]_vars
    PROVE  GateInv'
<1>1. ASSUME NEW allow \in BOOLEAN, Start(allow)
      PROVE  GateInv'
  BY <1>1, GateStart
<1>2. CASE Park \/ Take
  <2>1. First \in Job /\ state[First] \in {"pending", "waiting", "parked"} /\ run.at = "on"
    BY <1>2, FirstIsClaimable, ClaimableJobs DEF Park, Take, CanClaim
  <2>2. \A j \in Job : Open(j)' => Open(j)
    BY <1>2, <2>1 DEF Park, Take, Set, Open, Typed
  <2>3. by' = by /\ ack' = ack /\ others' = others /\ run'.version = run.version
    BY <1>2 DEF Park, Take, gate, process, Typed
  <2> QED
    BY <2>1, <2>2, <2>3, GateKept
<1>3. ASSUME NEW j \in Job, Handler(j)
      PROVE  GateInv'
  <2>1. run.at # "off" /\ state[j] = "running" /\ run' = run
    BY <1>3 DEF Handler, Succeed, Defer, GiveUp, Leaves, Typed, OffIsIdle
  <2>2. ack' = ack /\ others' = others
    BY <1>3 DEF Handler, Succeed, Defer, GiveUp, gate
  <2>3. \A k \in Job : Open(k)' => (Open(k) /\ by'[k] = by[k]) \/ by'[k] = run.version
    <3>1. CASE Succeed(j)
      <4>1. Index(j[1]) \in Job
        BY JobsOfBooks
      <4> QED
        BY <3>1, <4>1 DEF Succeed, Set, Open, Typed
    <3>2. CASE Defer(j) \/ GiveUp(j)
      BY <2>1, <3>2 DEF Defer, GiveUp, Set, Open, Typed
    <3> QED
      BY <1>3, <3>1, <3>2 DEF Handler
  <2> QED
    BY <2>1, <2>2, <2>3, GateKept
<1>4. CASE Retry
  <2>1. \A j \in Job : Open(j)' => Open(j) \/ j \in others'
    BY <1>4 DEF Retry, Open, Typed
  <2>2. by' = by /\ ack' = ack /\ others \subseteq others' /\ run' = run
    BY <1>4 DEF Retry, process
  <2> QED
    BY <2>1, <2>2, GateKept DEF GateInv, Admitted
<1>5. ASSUME NEW j \in Job, DelayEnds(j) \/ LeaseEnds(j)
      PROVE  GateInv'
  <2>1. \A k \in Job : Open(k)' => Open(k)
    BY <1>5 DEF DelayEnds, LeaseEnds, Set, Open, Typed
  <2>2. by' = by /\ ack' = ack /\ others' = others /\ run' = run
    BY <1>5 DEF DelayEnds, LeaseEnds, process, gate
  <2> QED
    BY <2>1, <2>2 DEF GateInv, Admitted
<1>6. CASE Drain \/ End \/ Crash \/ StopKills \/ StopBegin
  <2>1. /\ UNCHANGED <<state, by, ack, others>>
        /\ run'.version = run.version /\ (run.at # "off" \/ run'.at = "off")
    BY <1>6 DEF Drain, End, Crash, StopKills, StopBegin, Dies, Typed, jobs, gate
  <2> QED
    BY <2>1, GateKept DEF Open
<1>7. CASE StartAgain \/ Upgrade \/ StopEnd \/ UNCHANGED vars
  BY <1>7 DEF StartAgain, Upgrade, StopEnd, vars, jobs, process, gate, GateInv, Admitted, Open
<1> QED
  BY <1>1, <1>2, <1>3, <1>4, <1>5, <1>6, <1>7 DEF Next, Loop

(* The stages of a book: only the end of its extract job queues the index job,
   and a job that is done stays done. *)
LEMMA StageKept ==
    ASSUME Typed, StageInv, queue' = queue,
           \A j \in Job : /\ state'[j] # "none" => state[j] # "none"
                          /\ state[j] = "done" => state'[j] = "done"
                          /\ j[2] # "extract" /\ state'[j] = "parked" => state[j] = "parked"
    PROVE  StageInv'
<1> SUFFICES ASSUME NEW b \in Book, state'[Index(b)] # "none"
             PROVE  /\ state'[Extract(b)] = "done"
                    /\ state'[Index(b)] # "parked"
                    /\ \E i \in DOMAIN queue : queue[i] = Index(b)
  BY DEF StageInv
<1> QED
  BY JobsOfBooks DEF StageInv

LEMMA StageStep ==
    ASSUME Typed, StageInv, [Next]_vars
    PROVE  StageInv'
<1>1. CASE Park \/ Take
  <2>1. First \in Job /\ state[First] \in {"pending", "waiting", "parked"}
    BY <1>1, FirstIsClaimable, ClaimableJobs DEF Park, Take, CanClaim
  <2>2. /\ queue' = queue
        /\ \E s \in {"parked", "running"} :
              state' = [state EXCEPT ![First] = s] /\ (s = "parked" => First[2] = "extract")
    BY <1>1 DEF Park, Take, Set, OverBudget
  <2> QED
    BY <2>1, <2>2, StageKept DEF Typed
<1>2. ASSUME NEW j \in Job, Succeed(j)
      PROVE  StageInv'
  <2>1. state[j] = "running" /\ Index(j[1]) \in Job
    BY <1>2, JobsOfBooks DEF Succeed, Leaves, Typed
  <2>2. CASE j[2] = "extract" /\ state[Index(j[1])] = "none"
    <3>1. /\ state' = [state EXCEPT ![j] = "done", ![Index(j[1])] = "pending"]
          /\ queue' = Append(queue, Index(j[1]))
      BY <1>2, <2>2 DEF Succeed
    <3>2. /\ Len(queue) \in Nat /\ DOMAIN queue = 1 .. Len(queue)
          /\ DOMAIN queue' = 1 .. Len(queue) + 1
          /\ queue'[Len(queue) + 1] = Index(j[1])
          /\ \A i \in 1 .. Len(queue) : queue'[i] = queue[i]
      BY <2>1, <3>1, AppendProperties, LenProperties DEF Typed
    <3>3. DOMAIN queue \subseteq DOMAIN queue' /\ Len(queue) + 1 \in DOMAIN queue'
      BY <3>2
    <3>4. \A i \in DOMAIN queue : queue'[i] = queue[i]
      BY <3>2
    <3> SUFFICES ASSUME NEW b \in Book, state'[Index(b)] # "none"
                 PROVE  /\ state'[Extract(b)] = "done"
                        /\ state'[Index(b)] # "parked"
                        /\ \E i \in DOMAIN queue' : queue'[i] = Index(b)
      BY DEF StageInv
    <3>5. CASE b = j[1]
      <4>1. Extract(b) = j /\ Extract(b) # Index(b)
        BY <2>2, <3>5, JobsOfBooks
      <4>2. state'[j] = "done" /\ state'[Index(b)] = "pending"
        BY <2>1, <3>1, <3>5, <4>1 DEF Typed
      <4> QED
        BY <3>2, <3>3, <3>5, <4>1, <4>2
    <3>6. CASE b # j[1]
      <4>1. /\ Extract(b) # j /\ Index(b) # j /\ Index(b) # Index(j[1])
            /\ Extract(b) # Index(j[1]) /\ Extract(b) \in Job /\ Index(b) \in Job
        BY <3>6, JobsOfBooks
      <4>2. state'[Index(b)] = state[Index(b)] /\ state'[Extract(b)] = state[Extract(b)]
        BY <2>1, <3>1, <4>1 DEF Typed
      <4> QED
        BY <3>3, <3>4, <4>2 DEF StageInv
    <3> QED
      BY <3>5, <3>6
  <2>3. CASE ~(j[2] = "extract" /\ state[Index(j[1])] = "none")
    <3>1. queue' = queue /\ state' = [state EXCEPT ![j] = "done"]
      BY <1>2, <2>3 DEF Succeed, Set
    <3> QED
      BY <2>1, <3>1, StageKept DEF Typed
  <2> QED
    BY <2>2, <2>3
<1>3. ASSUME NEW j \in Job, Defer(j) \/ GiveUp(j) \/ LeaseEnds(j)
      PROVE  StageInv'
  <2>1. /\ state[j] = "running" /\ queue' = queue
        /\ \E s \in {"waiting", "dead", "pending"} : state' = [state EXCEPT ![j] = s]
    BY <1>3 DEF Defer, GiveUp, LeaseEnds, Leaves, Set, Typed
  <2> QED
    BY <2>1, StageKept DEF Typed
<1>4. CASE Retry
  <2>1. queue' = queue /\ \A j \in Job : \/ state'[j] = state[j]
                                         \/ /\ state[j] \in {"waiting", "parked", "dead"}
                                            /\ state'[j] = "pending"
    BY <1>4 DEF Retry
  <2> QED
    BY <2>1, StageKept
<1>5. CASE UNCHANGED <<state, queue>>
  BY <1>5 DEF StageInv
<1>6. ASSUME NEW j \in Job, DelayEnds(j)
      PROVE  UNCHANGED <<state, queue>>
  BY <1>6 DEF DelayEnds
<1>7. ASSUME NEW allow \in BOOLEAN, Start(allow)
      PROVE  UNCHANGED <<state, queue>>
  BY <1>7 DEF Start, jobs
<1>8. CASE \/ Drain \/ End \/ StartAgain \/ Upgrade \/ Crash
           \/ StopBegin \/ StopKills \/ StopEnd \/ UNCHANGED vars
  BY <1>5, <1>8 DEF Drain, End, StartAgain, Upgrade, Crash, Dies, StopBegin, StopKills,
                    StopEnd, vars, jobs
<1> QED
  BY <1>1, <1>2, <1>3, <1>4, <1>5, <1>6, <1>7, <1>8 DEF Next, Loop, Handler

(* A step that starts no book, parks no job, and begins or ends a handler with its
   job. *)
LEMMA StartedKept ==
    ASSUME Typed, StartedInv, run.at # "off" \/ run'.at = "off", run'.started = run.started,
           \A j \in Job : /\ state'[j] = "parked" => state[j] = "parked"
                          /\ state'[j] = "running" =>
                                \/ j \in inflight'
                                \/ state[j] = "running" /\ j \notin inflight
    PROVE  StartedInv'
<1> SUFFICES ASSUME run'.at # "off", NEW b \in run.started, NEW j \in JobsOf(b)
             PROVE  state'[j] # "parked" /\ (state'[j] = "running" => j \in inflight')
  BY DEF StartedInv
<1>1. j \in Job
  BY JobsOfBooks DEF JobsOf, Typed
<1> QED
  BY <1>1 DEF StartedInv

LEMMA StartedStep ==
    ASSUME Typed, OffIsIdle, StageInv, StartedInv, [Next]_vars
    PROVE  StartedInv'
<1>1. ASSUME NEW allow \in BOOLEAN, Start(allow)
      PROVE  StartedInv'
  BY <1>1 DEF Start, StartedInv
<1>2. CASE Park
  <2>1. First \in Job /\ First[1] \notin run.started /\ run' = run /\ inflight' = inflight
    BY <1>2, FirstIsClaimable, ClaimableJobs DEF Park, CanClaim, OverBudget, process
  <2>2. state' = [state EXCEPT ![First] = "parked"]
    BY <1>2 DEF Park, Set
  <2> SUFFICES ASSUME run.at # "off", NEW b \in run.started, NEW j \in JobsOf(b)
               PROVE  state'[j] # "parked" /\ (state'[j] = "running" => j \in inflight)
    BY <2>1 DEF StartedInv
  <2>3. j # First
    BY <2>1, JobsOfBooks DEF JobsOf, Typed
  <2> QED
    BY <2>1, <2>2, <2>3, JobsOfBooks DEF StartedInv, JobsOf, Typed
<1>3. CASE Take
  <2>1. /\ First \in Job /\ state[First] \in {"pending", "waiting", "parked"}
        /\ run.at = "on"
    BY <1>3, FirstIsClaimable, ClaimableJobs DEF Take, CanClaim
  <2>2. /\ state' = [state EXCEPT ![First] = "running"]
        /\ inflight' = inflight \union {First}
        /\ \A b \in run'.started : b \in run.started \/ (First = Extract(b) /\ b \in Book)
    BY <1>3, <2>1, JobsOfBooks DEF Take, Set, Typed
  <2> SUFFICES ASSUME NEW b \in run'.started, NEW j \in JobsOf(b)
               PROVE  state'[j] # "parked" /\ (state'[j] = "running" => j \in inflight')
    BY DEF StartedInv
  <2>3. b \in Book /\ j \in Job
    BY <2>2, JobsOfBooks DEF JobsOf, Typed
  <2>4. CASE j = First
    BY <2>1, <2>2, <2>3, <2>4 DEF Typed
  <2>5. CASE j # First /\ b \in run.started
    BY <2>1, <2>2, <2>3, <2>5 DEF Typed, StartedInv
  <2>6. CASE j # First /\ First = Extract(b)
    <3>1. j = Index(b) /\ state[Index(b)] = "none"
      BY <2>1, <2>3, <2>6 DEF JobsOf, StageInv
    <3> QED
      BY <2>1, <2>2, <2>3, <2>6, <3>1 DEF Typed
  <2> QED
    BY <2>2, <2>4, <2>5, <2>6
<1>4. ASSUME NEW j \in Job, Handler(j)
      PROVE  StartedInv'
  <2>1. /\ state[j] = "running" /\ inflight' = inflight \ {j} /\ run' = run /\ run.at # "off"
        /\ Index(j[1]) \in Job
    BY <1>4, JobsOfBooks DEF Handler, Succeed, Defer, GiveUp, Leaves, Typed, OffIsIdle
  <2>2. \E s \in {"done", "waiting", "dead"} :
           \/ state' = [state EXCEPT ![j] = s]
           \/ state' = [state EXCEPT ![j] = s, ![Index(j[1])] = "pending"]
              /\ state[Index(j[1])] = "none"
    BY <1>4 DEF Handler, Succeed, Defer, GiveUp, Set
  <2>3. /\ state'[j] \in {"done", "waiting", "dead"}
        /\ \A k \in Job : k # j => state'[k] = state[k] \/ state'[k] = "pending"
    BY <2>1, <2>2 DEF Typed
  <2> QED
    BY <2>1, <2>3, StartedKept
<1>5. ASSUME NEW j \in Job, DelayEnds(j) \/ LeaseEnds(j)
      PROVE  StartedInv'
  <2>1. UNCHANGED <<run, inflight>>
    BY <1>5 DEF DelayEnds, LeaseEnds, process
  <2>2. state' = state \/ (state' = [state EXCEPT ![j] = "pending"])
    BY <1>5 DEF DelayEnds, LeaseEnds, Set
  <2>3. \A k \in Job : state'[k] = state[k] \/ state'[k] = "pending"
    BY <2>2 DEF Typed
  <2> QED
    BY <2>1, <2>3, StartedKept DEF StartedInv
<1>6. CASE Retry
  <2>1. UNCHANGED <<run, inflight>> /\ \A k \in Job : state'[k] = state[k] \/ state'[k] = "pending"
    BY <1>6 DEF Retry, process
  <2> QED
    BY <2>1, StartedKept DEF StartedInv
<1>7. CASE Crash \/ StopKills \/ End
  BY <1>7 DEF Crash, StopKills, Dies, End, Typed, StartedInv
<1>8. CASE Drain \/ StopBegin \/ StartAgain \/ Upgrade \/ StopEnd \/ UNCHANGED vars
  <2>1. /\ UNCHANGED <<state, inflight>> /\ run'.started = run.started
        /\ run'.at # "off" => run.at # "off"
    BY <1>8 DEF Drain, StopBegin, StartAgain, Upgrade, StopEnd, vars, jobs, process, Typed
  <2> QED
    BY <2>1 DEF StartedInv
<1> QED
  BY <1>1, <1>2, <1>3, <1>4, <1>5, <1>6, <1>7, <1>8 DEF Next, Loop

(* When the loop ends nothing is claimable and nothing waits: a job still open is
   parked or runs. *)
LEMMA DrainSettles ==
    ASSUME Typed, StartedInv, Drain
    PROVE  DrainedInv'
<1>1. /\ run.at = "on" /\ Claimable = {} /\ Drained
      /\ UNCHANGED <<state, inflight>> /\ run'.started = run.started
      /\ late' = {j[1] : j \in inflight}
  BY DEF Drain, jobs, Typed
<1>2. ASSUME NEW b \in run.started, NEW j \in JobsOf(b), Open(j)
      PROVE  b \in late'
  <2>1. j \in Job /\ j[1] = b
    BY <1>2, JobsOfBooks DEF JobsOf, Typed
  <2>2. state[j] = "running"
    BY <1>1, <1>2, <2>1 DEF Open, Claimable, Drained, StartedInv
  <2> QED
    BY <1>1, <1>2, <2>1, <2>2 DEF StartedInv
<1> QED
  BY <1>1, <1>2 DEF DrainedInv, Open

(* After that only the late handlers and a retry touch the jobs. *)
LEMMA DrainedKept ==
    ASSUME DrainedInv, run.at = "drained", run'.started = run.started, late' = late,
           inflight' \subseteq inflight, others \subseteq others',
           \A b \in run.started \ late : \A j \in JobsOf(b) :
              Open(j)' => Open(j) \/ j \in others'
    PROVE  DrainedInv'
  BY DEF DrainedInv

LEMMA DrainedStep ==
    ASSUME Typed, StartedInv, DrainedInv, [Next]_vars
    PROVE  DrainedInv'
<1>1. ASSUME NEW allow \in BOOLEAN, Start(allow)
      PROVE  DrainedInv'
  BY <1>1 DEF Start, DrainedInv
<1>2. CASE Drain
  BY <1>2, DrainSettles
<1>3. CASE Park \/ Take
  <2>1. run'.at = "on"
    BY <1>3 DEF Park, Take, CanClaim, process, Typed
  <2> QED
    BY <2>1 DEF DrainedInv
<1>4. CASE End \/ Crash \/ StopKills
  <2>1. run'.at = "off"
    BY <1>4 DEF End, Crash, StopKills, Dies, Typed
  <2> QED
    BY <2>1 DEF DrainedInv
<1>5. ASSUME NEW j \in Job, Handler(j)
      PROVE  DrainedInv'
  <2>1. /\ j \in inflight /\ state[j] = "running" /\ inflight' = inflight \ {j} /\ run' = run
        /\ late' = late /\ others' = others /\ Index(j[1]) \in Job
    BY <1>5, JobsOfBooks DEF Handler, Succeed, Defer, GiveUp, Leaves, Typed, gate
  <2>2. \A k \in Job : k # j /\ k # Index(j[1]) => state'[k] = state[k]
    BY <1>5, <2>1 DEF Handler, Succeed, Defer, GiveUp, Set, Typed
  <2> SUFFICES ASSUME run.at = "drained"
               PROVE  DrainedInv'
    BY <2>1 DEF DrainedInv
  <2>3. ASSUME NEW b \in run.started \ late, NEW k \in JobsOf(b)
        PROVE  state'[k] = state[k]
    <3>1. k \in Job /\ k[1] = b /\ j[1] \in late /\ Index(j[1])[1] = j[1]
      BY <2>1, JobsOfBooks DEF JobsOf, Typed, DrainedInv
    <3> QED
      BY <2>2, <3>1
  <2> QED
    BY <2>1, <2>3, DrainedKept DEF Open
<1>6. ASSUME NEW j \in Job, DelayEnds(j) \/ LeaseEnds(j)
      PROVE  DrainedInv'
  <2>1. UNCHANGED <<run, inflight, late, others>> /\ \A k \in Job : Open(k)' => Open(k)
    BY <1>6 DEF DelayEnds, LeaseEnds, Set, Open, Typed, process, gate
  <2> SUFFICES ASSUME run.at = "drained"
               PROVE  DrainedInv'
    BY <2>1 DEF DrainedInv
  <2>2. \A b \in run.started : JobsOf(b) \subseteq Job
    BY JobsOfBooks DEF JobsOf, Typed
  <2> QED
    BY <2>1, <2>2, DrainedKept
<1>7. CASE Retry
  <2>1. /\ UNCHANGED <<run, inflight, late>> /\ others \subseteq others'
        /\ \A k \in Job : Open(k)' => Open(k) \/ k \in others'
    BY <1>7 DEF Retry, Open, Typed, process
  <2> SUFFICES ASSUME run.at = "drained"
               PROVE  DrainedInv'
    BY <2>1 DEF DrainedInv
  <2>2. \A b \in run.started : JobsOf(b) \subseteq Job
    BY JobsOfBooks DEF JobsOf, Typed
  <2> QED
    BY <2>1, <2>2, DrainedKept
<1>8. CASE StopBegin \/ StartAgain \/ Upgrade \/ StopEnd \/ UNCHANGED vars
  <2>1. /\ UNCHANGED <<state, inflight, late, others>>
        /\ run'.at = "drained" => run' = run
    BY <1>8 DEF StopBegin, StartAgain, Upgrade, StopEnd, vars, jobs, process, gate, Typed
  <2> QED
    BY <2>1 DEF DrainedInv, Open
<1> QED
  BY <1>1, <1>2, <1>3, <1>4, <1>5, <1>6, <1>7, <1>8 DEF Next, Loop

LEMMA RunInvHolds == Spec => []RunInv
<1>1. Init => RunInv
  <2> SUFFICES ASSUME Init
               PROVE  RunInv
    OBVIOUS
  <2>1. \A b \in Book : state[Index(b)] = "none"
    BY JobsOfBooks DEF Init
  <2> QED
    BY <2>1, TypedInit DEF Init, Off, RunInv, OffIsIdle, PidInv, GateInv, StageInv,
                           StartedInv, DrainedInv
<1>2. RunInv /\ [Next]_vars => RunInv'
  BY TypedStep, OffIsIdleStep, PidStep, GateStep, StageStep, StartedStep, DrainedStep DEF RunInv
<1> QED
  BY <1>1, <1>2, PTL DEF Spec

-----------------------------------------------------------------------------

(* stop signals the process that runs (write_pidfile, remove_pidfile and stop in
   cli.py): the pidfile names it from its start to its end, unless a second
   ingest or an earlier stop came between. *)
THEOREM StopFindsTheWorker == Spec => []StopFindsWorker
<1>1. RunInv => StopFindsWorker
  BY DEF RunInv, PidInv, StopFindsWorker
<1> QED
  BY <1>1, RunInvHolds, PTL

(* No handler works on a job of another version that nobody confirmed
   (check_version_gate): what is open when the gate looks is of the version that
   starts or confirmed, and what a run opens is its own. *)
THEOREM GateHolds == Spec => []ForeignIsConfirmed
<1>1. RunInv => ForeignIsConfirmed
  <2> SUFFICES ASSUME RunInv, NEW j \in inflight
               PROVE  Admitted(j)
    BY DEF ForeignIsConfirmed, Admitted
  <2>1. j \in Job /\ state[j] = "running" /\ run.at # "off"
    BY DEF RunInv, Typed, OffIsIdle
  <2> QED
    BY <2>1 DEF RunInv, GateInv, Open
<1> QED
  BY <1>1, RunInvHolds, PTL

(* A bounded run that ends by itself has settled the books it started
   (_queue_drained), but for those whose handler was at work when the loop ended
   and for jobs reopened meanwhile. *)
THEOREM RunsFinishBooks == Spec => BooksAreFinished
<1>1. RunInv /\ [Next]_vars =>
        [(run.at = "drained" /\ run'.at = "off" /\ stopping = None) =>
            \A b \in run.started \ late : \A j \in {Extract(b), Index(b)} :
               Open(j) => j \in others]_vars
  BY DEF RunInv, DrainedInv, JobsOf
<1> QED
  BY <1>1, RunInvHolds, PTL DEF Spec, BooksAreFinished
=============================================================================
