-------------------------- MODULE PublicationProofs --------------------------
(***************************************************************************)
(* Theorems about Publication, for any documents, contents, processes,     *)
(* threads, batches and bounds.                                            *)
(***************************************************************************)
EXTENDS Publication, TLAPS

-----------------------------------------------------------------------------
(* Types.  Each step disturbs few parts of TypeOK; the others are carried  *)
(* over by these four lemmas.                                              *)

LEMMA StoresKept ==
    ASSUME StoresType, UNCHANGED <<current, ready, rows, points, record, queue, lock>>
    PROVE  StoresType'
  BY DEF StoresType, rows, points, queue

LEMMA ThreadsKept ==
    ASSUME ThreadsType, UNCHANGED <<pc, loc>>
    PROVE  ThreadsType'
  BY DEF ThreadsType

LEMMA RepairsKept ==
    ASSUME RepairsType, UNCHANGED <<proc, repair>>
    PROVE  RepairsType'
  BY DEF RepairsType, repair

LEMMA BoundsKept ==
    ASSUME BoundsType, UNCHANGED bounds
    PROVE  BoundsType'
  BY DEF BoundsType, bounds

\* A thread moves to l and remembers r.
LEMMA ThreadMoves ==
    ASSUME ThreadsType, NEW w \in Thread,
           NEW l \in {"idle", "lock", "commit", "plan"} \cup Placed, NEW r \in Local,
           pc' = [pc EXCEPT ![w] = l], loc' = [loc EXCEPT ![w] = r],
           l # "idle" => r.key \in Key,
           l \in Placed => r.pub \in Pub
    PROVE  ThreadsType'
<1>1. /\ pc' \in [Thread -> {"idle", "lock", "commit", "plan"} \cup Placed]
      /\ loc' \in [Thread -> Local]
  BY DEF ThreadsType
<1>2. pc'[w] = l /\ loc'[w] = r
  BY DEF ThreadsType
<1>3. \A v \in Thread : v # w => pc'[v] = pc[v] /\ loc'[v] = loc[v]
  BY DEF ThreadsType
<1>4. \A v \in Thread : /\ pc'[v] # "idle" => loc'[v].key \in Key
                        /\ pc'[v] \in Placed => loc'[v].pub \in Pub
  BY <1>2, <1>3 DEF ThreadsType
<1> QED
  BY <1>1, <1>4 DEF ThreadsType

LEMMA IdleLocal == Idle \in Local
  BY DEF Idle, Local

LEMMA ThreadLeaves ==
    ASSUME ThreadsType, NEW w \in Thread, Leaves(w)
    PROVE  ThreadsType'
  BY IdleLocal, ThreadMoves DEF Leaves, Goes, Placed

\* A thread moves on and remembers what it did.
LEMMA ThreadGoes ==
    ASSUME ThreadsType, NEW w \in Thread,
           NEW l \in {"commit", "lock", "plan"} \cup Placed, Goes(w, l), UNCHANGED loc,
           pc[w] # "idle",
           l \in Placed => pc[w] \in Placed
    PROVE  ThreadsType'
<1>1. loc[w] \in Local /\ loc' = [loc EXCEPT ![w] = loc[w]]
  BY DEF ThreadsType
<1>2. loc[w].key \in Key /\ (l \in Placed => loc[w].pub \in Pub)
  BY DEF ThreadsType
<1> QED
  BY <1>1, <1>2, ThreadMoves DEF Goes

LEMMA FlagsType ==
    ASSUME off \subseteq Point, on \subseteq Point, NEW qs, SetOn(qs) \/ SetOff(qs)
    PROVE  off' \subseteq Point /\ on' \subseteq Point
  BY DEF SetOn, SetOff, PointsOf

LEMMA SwitchType ==
    ASSUME staged \subseteq Pub, active \subseteq Pub, superseded \subseteq Pub,
           NEW q, Switch(q)
    PROVE  staged' \subseteq Pub /\ active' \subseteq Pub /\ superseded' \subseteq Pub
  BY DEF Switch, Switched, OtherActive, OtherStaged

LEMMA EpochType ==
    ASSUME active \subseteq Pub, record \in Epoch \cup {NoRecord}, NEW r \in Rev
    PROVE  [rev |-> r, epoch |-> EpochFor(r)] \in Pub
<1>1. EpochFor(r) \in Epoch
  BY DEF EpochFor, Epoch, Pub
<1> QED
  BY <1>1 DEF Pub

LEMMA TypeInit == Init => TypeOK
<1> SUFFICES ASSUME Init PROVE TypeOK
  OBVIOUS
<1>1. StoresType
  BY DEF Init, StoresType, Free
<1>2. ThreadsType
  BY IdleLocal DEF Init, ThreadsType, Placed
<1>3. RepairsType
  BY DEF Init, RepairsType, NoFix, Fix
<1>4. BoundsType
  BY DEF Init, BoundsType
<1> QED
  BY <1>1, <1>2, <1>3, <1>4 DEF TypeOK


LEMMA ScanType ==
    ASSUME TypeOK, NEW d \in Docs, NEW v \in Versions, Scan(d, v)
    PROVE  TypeOK'
<1>1. StoresType'
  BY DEF TypeOK, StoresType, Scan, SetActive, rows, points, queue
<1>2. BoundsType'
  BY DEF TypeOK, BoundsType, Scan
<1> QED
  BY <1>1, <1>2, ThreadsKept, RepairsKept DEF TypeOK, Scan

LEMMA EmbedType ==
    ASSUME TypeOK, NEW w \in Thread, NEW r \in Rev, Embed(w, r)
    PROVE  TypeOK'
<1>1. <<r, record>> \in Key
  BY DEF TypeOK, StoresType, Key
<1>2. StoresType'
  BY <1>1 DEF TypeOK, StoresType, Embed, Enqueued, rows, points
<1> QED
  BY <1>2, ThreadsKept, RepairsKept, BoundsKept DEF TypeOK, Embed

LEMMA LeaseLostType ==
    ASSUME TypeOK, NEW w \in Thread, LeaseLost(w)
    PROVE  TypeOK'
<1>1. loc[w] \in Local /\ loc' = [loc EXCEPT ![w] = [loc[w] EXCEPT !.fenced = FALSE]]
  BY DEF TypeOK, ThreadsType, LeaseLost
<1>2. [loc[w] EXCEPT !.fenced = FALSE] \in Local
  BY <1>1 DEF Local
<1>3. pc' = [pc EXCEPT ![w] = pc[w]] /\ pc[w] \in {"idle", "lock", "commit", "plan"} \cup Placed
  BY DEF TypeOK, ThreadsType, LeaseLost
<1>4. /\ [loc[w] EXCEPT !.fenced = FALSE].key = loc[w].key
      /\ [loc[w] EXCEPT !.fenced = FALSE].pub = loc[w].pub
  BY <1>1 DEF Local
<1>5. /\ pc[w] # "idle" => loc[w].key \in Key
      /\ pc[w] \in Placed => loc[w].pub \in Pub
  BY DEF TypeOK, ThreadsType
<1>6. ThreadsType'
  BY <1>1, <1>2, <1>3, <1>4, <1>5, ThreadMoves DEF TypeOK
<1>7. BoundsType'
  BY DEF TypeOK, BoundsType, LeaseLost
<1> QED
  BY <1>6, <1>7, StoresKept, RepairsKept DEF TypeOK, LeaseLost

LEMMA LockExpiresType ==
    ASSUME TypeOK, LockExpires
    PROVE  TypeOK'
<1>1. StoresType'
  BY DEF TypeOK, StoresType, LockExpires, rows, points, queue
<1> QED
  BY <1>1, ThreadsKept, RepairsKept, BoundsKept DEF TypeOK, LockExpires

LEMMA UnlockedType ==
    ASSUME StoresType, NEW w \in Thread
    PROVE  Unlocked(w) \in [state : {"free", "held", "old"}, owner : Procs \cup {NoProc},
                            by : Thread \cup {NoThread}]
  BY DEF StoresType, Unlocked, Free

\* A publish job before it has chosen its publication.
LEMMA OpeningType ==
    ASSUME TypeOK, NEW w \in Thread, Take(w) \/ Lock(w) \/ Plan(w)
    PROVE  TypeOK'
<1>1. CASE Take(w)
  <2>1. PICK k \in open :
           /\ loc' = [loc EXCEPT ![w] = [Idle EXCEPT !.key = k, !.fenced = TRUE]]
           /\ Goes(w, IF ~IsCurrent(k[1]) \/ Settled([rev |-> k[1], epoch |-> k[2]])
                      THEN "commit" ELSE "lock")
    BY <1>1 DEF Take
  <2>2. k \in Key
    BY DEF TypeOK, StoresType
  <2> DEFINE r == [Idle EXCEPT !.key = k, !.fenced = TRUE]
  <2>3. r \in Local /\ r.key = k
    BY <2>2, IdleLocal DEF Idle, Local
  <2>4. PICK l \in {"commit", "lock"} : pc' = [pc EXCEPT ![w] = l]
    BY <2>1 DEF Goes
  <2>5. l \notin Placed
    BY DEF Placed
  <2> HIDE DEF r
  <2>6. loc' = [loc EXCEPT ![w] = r]
    BY <2>1 DEF r
  <2>7. ThreadsType'
    BY <2>2, <2>3, <2>4, <2>5, <2>6, ThreadMoves DEF TypeOK
  <2> QED
    BY <1>1, <2>7, StoresKept, RepairsKept, BoundsKept DEF TypeOK, Take
<1>2. CASE Lock(w)
  <2>1. ThreadsType'
    <3>1. CASE Leaves(w)
      BY <3>1, ThreadLeaves DEF TypeOK
    <3>2. CASE Goes(w, "plan") /\ UNCHANGED loc
      BY <1>2, <3>2, ThreadGoes DEF TypeOK, Lock, Placed
    <3> QED
      BY <1>2, <3>1, <3>2 DEF Lock
  <2>2. StoresType'
    BY <1>2 DEF Lock, TypeOK, StoresType, rows, points, queue, Thread
  <2> QED
    BY <1>2, <2>1, <2>2, RepairsKept, BoundsKept DEF TypeOK, Lock
<1>3. CASE Plan(w)
  <2> DEFINE q == [rev |-> loc[w].key[1], epoch |-> EpochFor(loc[w].key[1])]
  <2>1. loc[w] \in Local /\ loc[w].key \in Key /\ loc[w].key[1] \in Rev
    BY <1>3 DEF TypeOK, ThreadsType, Plan, Key
  <2>2. q \in Pub
    BY <2>1, EpochType DEF TypeOK, StoresType
  <2>3. /\ loc' = [loc EXCEPT ![w].pub = q, ![w].left = Batches]
        /\ Goes(w, IF Settled(q) THEN "commit" ELSE "stage")
    BY <1>3 DEF Plan
  <2> HIDE DEF q
  <2> DEFINE r == [loc[w] EXCEPT !.pub = q, !.left = Batches]
  <2>4. r \in Local /\ r.key = loc[w].key /\ r.pub = q
    BY <2>1, <2>2 DEF Local
  <2>5. loc' = [loc EXCEPT ![w] = r]
    BY <2>1, <2>3 DEF TypeOK, ThreadsType
  <2>6. PICK l \in {"commit", "stage"} : pc' = [pc EXCEPT ![w] = l]
    BY <2>3 DEF Goes
  <2>7. l \in {"idle", "lock", "commit", "plan"} \cup Placed
    BY DEF Placed
  <2> HIDE DEF r
  <2>8. ThreadsType'
    BY <2>1, <2>2, <2>4, <2>5, <2>6, <2>7, ThreadMoves DEF TypeOK
  <2> QED
    BY <1>3, <2>8, StoresKept, RepairsKept, BoundsKept DEF TypeOK, Plan
<1> QED
  BY <1>1, <1>2, <1>3

\* A publish job from its first upsert to its last flag.
LEMMA StagingType ==
    ASSUME TypeOK, NEW w \in Thread, Stage(w) \/ Verify(w) \/ B1(w) \/ B2(w) \/ B3Read(w) \/ B3(w)
    PROVE  TypeOK'
<1> USE DEF TypeOK
<1>1. loc[w] \in Local
  BY DEF ThreadsType
<1>2. pc[w] \in Placed /\ pc[w] # "idle"
  BY DEF Stage, Verify, B1, B2, B3Read, B3, Placed
<1>3. loc[w].key \in Key /\ loc[w].pub \in Pub
  BY <1>2 DEF ThreadsType
<1>4. {"stage", "verify", "B1", "B2", "B3read", "B3", "B4"} \subseteq Placed
  BY DEF Placed
<1>5. CASE Stage(w)
  <2>1. PICK i \in Batches :
           /\ Upsert(<<loc[w].pub, i>>)
           /\ \/ /\ loc' = [loc EXCEPT ![w].left = @ \ {i}]
                 /\ \E l \in {"verify", "stage"} : Goes(w, l)
                 /\ UNCHANGED lock
              \/ Leaves(w) /\ lock' = Unlocked(w)
    BY <1>1, <1>5 DEF Stage, Local
  <2>2. <<loc[w].pub, i>> \in Point
    BY <1>3 DEF Point
  <2>3. off' \subseteq Point /\ on' \subseteq Point
    BY <2>1, <2>2 DEF Upsert, StoresType, points
  <2>4. lock' \in [state : {"free", "held", "old"}, owner : Procs \cup {NoProc},
                   by : Thread \cup {NoThread}]
    BY <2>1, UnlockedType DEF StoresType
  <2>5. StoresType'
    BY <1>5, <2>3, <2>4 DEF StoresType, Stage, rows, queue
  <2>6. ThreadsType'
    <3>1. ASSUME loc' = [loc EXCEPT ![w].left = @ \ {i}], NEW l \in {"verify", "stage"}, Goes(w, l)
          PROVE  ThreadsType'
      <4> DEFINE r == [loc[w] EXCEPT !.left = @ \ {i}]
      <4>1. r \in Local /\ r.key = loc[w].key /\ r.pub = loc[w].pub
        BY <1>1 DEF Local
      <4>2. loc' = [loc EXCEPT ![w] = r]
        BY <1>1, <3>1 DEF ThreadsType
      <4> HIDE DEF r
      <4> QED
        BY <1>3, <1>4, <3>1, <4>1, <4>2, ThreadMoves DEF Goes
    <3> QED
      BY <2>1, <3>1, ThreadLeaves
  <2>7. BoundsType'
    BY <1>5, <2>1 DEF BoundsType, Stage, Upsert
  <2> QED
    BY <1>5, <2>5, <2>6, <2>7, RepairsKept DEF Stage
<1>6. CASE Verify(w)
  <2>1. ThreadsType'
    <3>1. CASE Goes(w, "B1") /\ UNCHANGED loc
      BY <1>2, <1>4, <3>1, ThreadGoes
    <3>2. CASE Leaves(w)
      BY <3>2, ThreadLeaves
    <3> QED
      BY <1>6, <3>1, <3>2 DEF Verify
  <2>2. StoresType'
    BY <1>6, UnlockedType DEF Verify, StoresType, rows, points, queue
  <2> QED
    BY <1>6, <2>1, <2>2, RepairsKept, BoundsKept DEF Verify
<1>7. CASE B1(w)
  <2>1. ThreadsType'
    BY <1>2, <1>4, <1>7, ThreadGoes DEF B1
  <2>2. StoresType'
    BY <1>3, <1>7 DEF B1, StoresType, points, queue
  <2> QED
    BY <1>7, <2>1, <2>2, RepairsKept, BoundsKept DEF B1
<1>8. CASE B2(w)
  <2>1. ThreadsType'
    BY <1>2, <1>4, <1>8, ThreadGoes DEF B2
  <2>2. off' \subseteq Point /\ on' \subseteq Point
    BY <1>8, FlagsType DEF B2, StoresType
  <2>3. StoresType'
    BY <1>8, <2>2 DEF B2, StoresType, rows, queue
  <2> QED
    BY <1>8, <2>1, <2>3, RepairsKept, BoundsKept DEF B2
<1>9. CASE B3Read(w)
  <2> DEFINE r == [loc[w] EXCEPT !.others = OtherActive(loc[w].pub)]
  <2>1. OtherActive(loc[w].pub) \subseteq Pub
    BY DEF OtherActive, StoresType
  <2>2. r \in Local /\ r.key = loc[w].key /\ r.pub = loc[w].pub
    BY <1>1, <2>1 DEF Local
  <2>3. loc' = [loc EXCEPT ![w] = r]
    BY <1>9 DEF B3Read
  <2> HIDE DEF r
  <2>4. ThreadsType'
    BY <1>3, <1>4, <1>9, <2>2, <2>3, ThreadMoves DEF B3Read, Goes
  <2> QED
    BY <1>9, <2>4, StoresKept, RepairsKept, BoundsKept DEF B3Read
<1>10. CASE B3(w)
  <2> DEFINE r == [loc[w] EXCEPT !.others = {}]
  <2>1. r \in Local /\ r.key = loc[w].key /\ r.pub = loc[w].pub
    BY <1>1 DEF Local
  <2>2. loc' = [loc EXCEPT ![w] = r]
    BY <1>10 DEF B3
  <2> HIDE DEF r
  <2>3. ThreadsType'
    BY <1>3, <1>4, <1>10, <2>1, <2>2, ThreadMoves DEF B3, Goes
  <2>4. off' \subseteq Point /\ on' \subseteq Point
    BY <1>10, FlagsType DEF B3, StoresType
  <2>5. StoresType'
    BY <1>10, <2>4 DEF B3, StoresType, rows, queue
  <2> QED
    BY <1>10, <2>3, <2>5, RepairsKept, BoundsKept DEF B3
<1> QED
  BY <1>5, <1>6, <1>7, <1>8, <1>9, <1>10

\* A publish job from the switch to its commit.
LEMMA ClosingType ==
    ASSUME TypeOK, NEW w \in Thread, B4(w) \/ FanOut(w) \/ EnqueueNext(w) \/ Commit(w)
    PROVE  TypeOK'
<1> USE DEF TypeOK
<1>1. loc[w] \in Local /\ loc[w].key \in Key
  BY DEF B4, FanOut, EnqueueNext, Commit, ThreadsType
<1>2. CASE B4(w)
  <2>1. loc[w].pub \in Pub /\ loc[w].pub.epoch \in Epoch
    BY <1>2 DEF B4, ThreadsType, Placed, Pub
  <2>2. ThreadsType'
    BY <1>2, ThreadGoes DEF B4, Placed
  <2>3. staged' \subseteq Pub /\ active' \subseteq Pub /\ superseded' \subseteq Pub
    BY <1>2, SwitchType DEF B4, StoresType
  <2>4. StoresType'
    BY <1>2, <2>1, <2>3 DEF B4, StoresType, points, queue
  <2> QED
    BY <1>2, <2>2, <2>4, RepairsKept, BoundsKept DEF B4
<1>3. CASE FanOut(w)
  <2> DEFINE js == Republishes(loc[w].key[1])
             r == [loc[w] EXCEPT !.jobs = js]
  <2>1. js \subseteq Key
    BY DEF Republishes, Strangers, StoresType, Key, Pub
  <2>2. loc[w].pub \in Pub
    BY <1>3 DEF FanOut, ThreadsType, Placed
  <2>3. loc' = [loc EXCEPT ![w] = r]
    BY <1>3 DEF FanOut
  <2> HIDE DEF js
  <2>4. r \in Local /\ r.key = loc[w].key /\ r.pub = loc[w].pub
    BY <1>1, <2>1 DEF Local
  <2> HIDE DEF r
  <2>5. ThreadsType'
    BY <1>1, <1>3, <2>2, <2>3, <2>4, ThreadMoves DEF FanOut, Goes, Placed
  <2> QED
    BY <1>3, <2>5, StoresKept, RepairsKept, BoundsKept DEF FanOut
<1>4. CASE EnqueueNext(w)
  <2>1. CASE loc[w].jobs = {} /\ Goes(w, "commit") /\ UNCHANGED <<open, loc>>
    <3>1. ThreadsType'
      BY <1>4, <2>1, ThreadGoes DEF EnqueueNext, Placed
    <3>2. StoresType'
      BY <1>4, <2>1 DEF EnqueueNext, StoresType, rows, points
    <3> QED
      BY <1>4, <3>1, <3>2, RepairsKept, BoundsKept DEF EnqueueNext
  <2>2. ASSUME NEW k \in loc[w].jobs, Enqueued({k}),
               loc' = [loc EXCEPT ![w].jobs = @ \ {k}], UNCHANGED pc
        PROVE  TypeOK'
    <3>1. k \in Key
      BY <1>1 DEF Local
    <3>2. StoresType'
      BY <1>4, <2>2, <3>1 DEF EnqueueNext, StoresType, Enqueued, rows, points
    <3> DEFINE r == [loc[w] EXCEPT !.jobs = @ \ {k}]
    <3>3. r \in Local /\ r.key = loc[w].key /\ r.pub = loc[w].pub
      BY <1>1 DEF Local
    <3>4. loc' = [loc EXCEPT ![w] = r]
      BY <2>2
    <3>5. pc[w] = "enqueue" /\ loc[w].pub \in Pub
      BY <1>4 DEF EnqueueNext, ThreadsType, Placed
    <3>6. pc' = [pc EXCEPT ![w] = "enqueue"]
      BY <2>2, <3>5 DEF ThreadsType
    <3> HIDE DEF r
    <3>7. ThreadsType'
      BY <1>1, <3>3, <3>4, <3>5, <3>6, ThreadMoves DEF Placed
    <3> QED
      BY <1>4, <3>2, <3>7, RepairsKept, BoundsKept DEF EnqueueNext
  <2> QED
    BY <1>4, <2>1, <2>2 DEF EnqueueNext
<1>5. CASE Commit(w)
  <2>1. ThreadsType'
    BY <1>5, ThreadLeaves DEF Commit
  <2>2. open' \subseteq Key /\ done' \subseteq Key
    BY <1>1, <1>5 DEF Commit, StoresType, queue
  <2>3. lock' \in [state : {"free", "held", "old"}, owner : Procs \cup {NoProc},
                   by : Thread \cup {NoThread}]
    BY <1>5, UnlockedType DEF Commit, StoresType
  <2>4. StoresType'
    BY <1>5, <2>2, <2>3 DEF Commit, StoresType, rows, points
  <2> QED
    BY <1>5, <2>1, <2>4, RepairsKept, BoundsKept DEF Commit
<1> QED
  BY <1>2, <1>3, <1>4, <1>5

\* What a process is at, and what its repair has still to do.
LEMMA RepairMoves ==
    ASSUME RepairsType, NEW p \in Procs, UNCHANGED <<proc, todo>>, NEW f \in Fix,
           fix' = [fix EXCEPT ![p] = f], f.step # "none" => f.pub \in Pub
    PROVE  RepairsType'
<1>1. fix' \in [Procs -> Fix]
  BY DEF RepairsType
<1>2. \A q \in Procs : fix'[q].step # "none" => fix'[q].pub \in Pub
  BY DEF RepairsType
<1> QED
  BY <1>1, <1>2 DEF RepairsType

LEMMA NoFixType == NoFix \in Fix /\ NoFix.step = "none"
  BY DEF NoFix, Fix

LEMMA RepairType ==
    ASSUME TypeOK, NEW p \in Procs, Repair(p)
    PROVE  TypeOK'
<1> USE DEF TypeOK
<1>1. fix[p] \in Fix /\ todo[p] \subseteq Pub
  BY DEF RepairsType
<1>2. CASE Examine(p)
  <2>1. PICK q \in todo[p] :
           /\ todo' = [todo EXCEPT ![p] = @ \ {q}]
           /\ \/ fix' = [fix EXCEPT ![p] = [pub |-> q, others |-> {}, step |-> "read"]]
              \/ fix' = [fix EXCEPT ![p] = [pub |-> q, others |-> {}, step |-> "orphan"]]
              \/ UNCHANGED fix
    BY <1>2 DEF Examine
  <2>2. q \in Pub
    BY <1>1
  <2>3. todo' \in [Procs -> SUBSET Pub]
    BY <2>1 DEF RepairsType
  <2>4. \A st \in {"read", "orphan"} : [pub |-> q, others |-> {}, step |-> st] \in Fix
    BY <2>2 DEF Fix
  <2>5. fix' \in [Procs -> Fix]
    BY <2>1, <2>4 DEF RepairsType
  <2>6. \A o \in Procs : fix'[o].step # "none" => fix'[o].pub \in Pub
    BY <2>1, <2>2 DEF RepairsType
  <2>7. RepairsType'
    BY <1>2, <2>3, <2>5, <2>6 DEF RepairsType, Examine
  <2> QED
    BY <1>2, <2>7, StoresKept, ThreadsKept, BoundsKept DEF Examine
<1>3. CASE RepairOrphan(p)
  <2>1. RepairsType'
    BY <1>3, NoFixType, RepairMoves DEF RepairOrphan
  <2>2. StoresType'
    BY <1>3 DEF RepairOrphan, StoresType, rows, points, queue
  <2> QED
    BY <1>3, <2>1, <2>2, ThreadsKept, BoundsKept DEF RepairOrphan
<1>4. CASE RepairRead(p)
  <2> DEFINE f == [fix[p] EXCEPT !.others = OtherActive(fix[p].pub), !.step = "B3"]
  <2>1. OtherActive(fix[p].pub) \subseteq Pub
    BY DEF OtherActive, StoresType
  <2>2. f \in Fix /\ f.pub = fix[p].pub /\ fix[p].pub \in Pub
    BY <1>1, <1>4, <2>1 DEF Fix, RepairRead, RepairsType
  <2>3. fix' = [fix EXCEPT ![p] = f]
    BY <1>4 DEF RepairRead
  <2> HIDE DEF f
  <2>4. RepairsType'
    BY <1>4, <2>2, <2>3, RepairMoves DEF RepairRead
  <2> QED
    BY <1>4, <2>4, StoresKept, ThreadsKept, BoundsKept DEF RepairRead
<1>5. CASE RepairB3(p)
  <2> DEFINE f == [fix[p] EXCEPT !.step = "B4"]
  <2>1. f \in Fix /\ f.pub = fix[p].pub /\ fix[p].pub \in Pub
    BY <1>1, <1>5 DEF Fix, RepairB3, RepairsType
  <2>2. fix' = [fix EXCEPT ![p] = f]
    BY <1>5 DEF RepairB3
  <2> HIDE DEF f
  <2>3. RepairsType'
    BY <1>5, <2>1, <2>2, RepairMoves DEF RepairB3
  <2>4. off' \subseteq Point /\ on' \subseteq Point
    BY <1>5, FlagsType DEF RepairB3, StoresType
  <2>5. StoresType'
    BY <1>5, <2>4 DEF RepairB3, StoresType, rows, queue
  <2> QED
    BY <1>5, <2>3, <2>5, ThreadsKept, BoundsKept DEF RepairB3
<1>6. CASE RepairB4(p)
  <2>1. RepairsType'
    BY <1>6, NoFixType, RepairMoves DEF RepairB4
  <2>2. staged' \subseteq Pub /\ active' \subseteq Pub /\ superseded' \subseteq Pub
    BY <1>6, SwitchType DEF RepairB4, StoresType
  <2>3. StoresType'
    BY <1>6, <2>2 DEF RepairB4, StoresType, points, queue
  <2> QED
    BY <1>6, <2>1, <2>3, ThreadsKept, BoundsKept DEF RepairB4
<1>7. CASE Repaired(p)
  <2>1. RepairsType'
    BY <1>7 DEF Repaired, RepairsType, repair
  <2> QED
    BY <1>7, <2>1, StoresKept, ThreadsKept, BoundsKept DEF Repaired
<1> QED
  BY <1>2, <1>3, <1>4, <1>5, <1>6, <1>7 DEF Repair

LEMMA ProcessType ==
    ASSUME TypeOK, NEW p \in Procs, Start(p) \/ StartSearch(p) \/ Stop(p) \/ Crash(p)
    PROVE  TypeOK'
<1> USE DEF TypeOK
<1>1. CASE Start(p)
  <2>1. {<<r, record>> : r \in IndexGaps} \subseteq Key
    BY DEF IndexGaps, StoresType, Key
  <2>2. StoresType'
    BY <1>1, <2>1 DEF Start, StoresType, Enqueued, rows, points
  <2>3. RepairsType'
    BY <1>1 DEF Start, RepairsType, StoresType
  <2> QED
    BY <1>1, <2>2, <2>3, ThreadsKept, BoundsKept DEF Start
<1>2. CASE StartSearch(p)
  <2>1. RepairsType'
    BY <1>2 DEF StartSearch, RepairsType, StoresType
  <2> QED
    BY <1>2, <2>1, StoresKept, ThreadsKept, BoundsKept DEF StartSearch
<1>3. CASE Stop(p)
  <2>1. RepairsType'
    BY <1>3 DEF Stop, RepairsType, repair
  <2> QED
    BY <1>3, <2>1, StoresKept, ThreadsKept, BoundsKept DEF Stop
<1>4. CASE Crash(p)
  <2>1. StoresType'
    BY <1>4 DEF Crash, StoresType, rows, points, queue
  <2>2. ThreadsType'
    BY <1>4, IdleLocal DEF Crash, ThreadsType, Placed
  <2>3. RepairsType'
    BY <1>4, NoFixType DEF Crash, RepairsType
  <2>4. BoundsType'
    BY <1>4 DEF Crash, BoundsType
  <2> QED
    BY <2>1, <2>2, <2>3, <2>4
<1> QED
  BY <1>1, <1>2, <1>3, <1>4

LEMMA TypeStep == TypeOK /\ [Next]_vars => TypeOK'
<1> SUFFICES ASSUME TypeOK, [Next]_vars PROVE TypeOK'
  OBVIOUS
<1>1. ASSUME NEW d \in Docs, NEW v \in Versions, Scan(d, v) PROVE TypeOK'
  BY <1>1, ScanType
<1>2. ASSUME NEW w \in Thread, Publish(w) PROVE TypeOK'
  BY <1>2, OpeningType, StagingType, ClosingType DEF Publish
<1>3. ASSUME NEW w \in Thread, LeaseLost(w) \/ \E r \in Rev : Embed(w, r) PROVE TypeOK'
  BY <1>3, LeaseLostType, EmbedType
<1>4. CASE LockExpires
  BY <1>4, LockExpiresType
<1>5. ASSUME NEW p \in Procs, Repair(p) PROVE TypeOK'
  BY <1>5, RepairType
<1>6. ASSUME NEW p \in Procs, Start(p) \/ StartSearch(p) \/ Stop(p) \/ Crash(p) PROVE TypeOK'
  BY <1>6, ProcessType
<1>7. CASE UNCHANGED vars
  BY <1>7, StoresKept, ThreadsKept, RepairsKept, BoundsKept DEF vars, TypeOK
<1> QED
  BY <1>1, <1>2, <1>3, <1>4, <1>5, <1>6, <1>7 DEF Next

\* Rows, points, the epoch record, the lock and what every thread and repair
\* remembers are well typed: a publication past its plan has an epoch and a key.
THEOREM TypeCorrect == Spec => []TypeOK
  BY TypeInit, TypeStep, PTL DEF Spec

-----------------------------------------------------------------------------
(* One active publication per document.  The property is inductive: the B4 *)
(* transaction keeps it with no help from the publish lock.                *)

\* A step that touches neither the rows nor the points.
LEMMA Untouched ==
    ASSUME OneActivePerDoc, UNCHANGED <<rows, points>>
    PROVE  OneActivePerDoc'
  BY DEF OneActivePerDoc, rows, points

\* Flags are set on some points, or taken from some points.
LEMMA FlagsApart ==
    ASSUME OneActivePerDoc, NEW qs, SetOn(qs) \/ SetOff(qs), UNCHANGED rows
    PROVE  OneActivePerDoc'
  <1>1. off' \cap on' = {}
    <2>1. CASE SetOn(qs)
      BY <2>1 DEF SetOn, PointsOf, OneActivePerDoc
    <2>2. CASE SetOff(qs)
      BY <2>2 DEF SetOff, PointsOf, OneActivePerDoc
    <2> QED
      BY <2>1, <2>2
  <1> QED
    BY <1>1 DEF OneActivePerDoc, rows

\* The switch to q: every other active publication of its document is superseded.
LEMMA SwitchKeepsOne ==
    ASSUME OneActivePerDoc, NEW q, Switch(q), UNCHANGED points
    PROVE  OneActivePerDoc'
  <1> DEFINE losers == OtherActive(q) \cup OtherStaged(q)
             winner == ({q} \cap (staged \cup active \cup superseded)) \ losers
  <1>1. /\ staged' = (staged \ losers) \ winner
        /\ active' = (active \ losers) \cup winner
        /\ superseded' = (superseded \cup losers) \ winner
    BY DEF Switch, Switched
  <1>2. q \notin losers /\ winner \subseteq {q}
    BY DEF OtherActive, OtherStaged
  <1>3. losers \subseteq staged \cup active
    BY DEF OtherActive, OtherStaged
  <1>4. /\ staged' \cap active' = {}
        /\ active' \cap superseded' = {}
        /\ staged' \cap superseded' = {}
    BY <1>1, <1>2, <1>3 DEF OneActivePerDoc
  <1>5. ASSUME NEW o \in active', NEW r \in active', o.rev[1] = r.rev[1]
        PROVE  o = r
    <2>1. ASSUME NEW x \in active', x # q PROVE x \in active /\ x.rev[1] # q.rev[1]
      BY <2>1, <1>1, <1>2 DEF OtherActive
    <2>2. CASE o # q /\ r # q
      BY <2>1, <2>2, <1>5 DEF OneActivePerDoc
    <2>3. CASE o = q \/ r = q
      BY <2>1, <2>3, <1>5
    <2> QED
      BY <2>2, <2>3
  <1> QED
    BY <1>4, <1>5 DEF OneActivePerDoc, points

LEMMA OneActiveInit == Init => OneActivePerDoc
  BY DEF Init, OneActivePerDoc

\* What a publish job's thread does.
LEMMA PublishKeepsOne ==
    ASSUME OneActivePerDoc, NEW w \in Thread, Publish(w)
    PROVE  OneActivePerDoc'
  <1>1. CASE Take(w) \/ Lock(w) \/ Plan(w) \/ Verify(w) \/ B3Read(w) \/ FanOut(w)
             \/ EnqueueNext(w) \/ Commit(w)
    <2>1. UNCHANGED <<rows, points>>
      BY <1>1 DEF Take, Lock, Plan, Verify, B3Read, FanOut, EnqueueNext, Commit
    <2> QED
      BY <2>1, Untouched
  <1>2. CASE Stage(w)
    <2>1. PICK x : Upsert(x) /\ UNCHANGED rows
      BY <1>2 DEF Stage
    <2>2. off' \cap on' = {}
      BY <2>1 DEF Upsert, points, OneActivePerDoc
    <2> QED
      BY <2>1, <2>2 DEF OneActivePerDoc, rows
  <1>3. CASE B1(w)
    BY <1>3 DEF B1, Settled, OneActivePerDoc, points
  <1>4. CASE B2(w)
    BY <1>4, FlagsApart DEF B2
  <1>5. CASE B3(w)
    BY <1>5, FlagsApart DEF B3
  <1>6. CASE B4(w)
    BY <1>6, SwitchKeepsOne DEF B4
  <1> QED
    BY <1>1, <1>2, <1>3, <1>4, <1>5, <1>6 DEF Publish

\* What the repair of half-done publications does.
LEMMA RepairKeepsOne ==
    ASSUME OneActivePerDoc, NEW p \in Procs, Repair(p)
    PROVE  OneActivePerDoc'
  <1>1. CASE Examine(p) \/ RepairRead(p) \/ Repaired(p)
    <2>1. UNCHANGED <<rows, points>>
      BY <1>1 DEF Examine, RepairRead, Repaired
    <2> QED
      BY <2>1, Untouched
  <1>2. CASE RepairOrphan(p)
    BY <1>2 DEF RepairOrphan, OneActivePerDoc, rows, points
  <1>3. CASE RepairB3(p)
    BY <1>3, FlagsApart DEF RepairB3
  <1>4. CASE RepairB4(p)
    BY <1>4, SwitchKeepsOne DEF RepairB4
  <1> QED
    BY <1>1, <1>2, <1>3, <1>4 DEF Repair

LEMMA OneActiveStep == OneActivePerDoc /\ [Next]_vars => OneActivePerDoc'
  <1> SUFFICES ASSUME OneActivePerDoc, [Next]_vars
               PROVE  OneActivePerDoc'
    OBVIOUS
  <1>1. ASSUME NEW d \in Docs, NEW v \in Versions, Scan(d, v)
        PROVE  OneActivePerDoc'
    BY <1>1, Untouched DEF Scan
  <1>2. ASSUME NEW w \in Thread, Publish(w)
        PROVE  OneActivePerDoc'
    BY <1>2, PublishKeepsOne
  <1>3. ASSUME NEW w \in Thread, LeaseLost(w) \/ \E r \in Rev : Embed(w, r)
        PROVE  OneActivePerDoc'
    BY <1>3, Untouched DEF LeaseLost, Embed
  <1>4. CASE LockExpires
    BY <1>4, Untouched DEF LockExpires
  <1>5. ASSUME NEW p \in Procs, Repair(p)
        PROVE  OneActivePerDoc'
    BY <1>5, RepairKeepsOne
  <1>6. ASSUME NEW p \in Procs, Start(p) \/ StartSearch(p) \/ Stop(p) \/ Crash(p)
        PROVE  OneActivePerDoc'
    <2>1. UNCHANGED <<rows, points>>
      BY <1>6 DEF Start, StartSearch, Stop, Crash
    <2> QED
      BY <2>1, Untouched
  <1>7. CASE UNCHANGED vars
    BY <1>7, Untouched DEF vars
  <1> QED
    BY <1>1, <1>2, <1>3, <1>4, <1>5, <1>6, <1>7 DEF Next

\* A row of the publications table is in one state and a document has one active
\* publication at most: B4 in publish_generation and in reconcile_publications.
THEOREM OneActiveCorrect == Spec => []OneActivePerDoc
  BY OneActiveInit, OneActiveStep, PTL DEF Spec

-----------------------------------------------------------------------------
(* Active publications are complete.  A row exists only for a publication  *)
(* whose points were all counted, by the thread that is at B1 or before,   *)
(* and points are never removed.                                           *)

CompleteInv ==
    /\ \A q \in staged \cup active \cup superseded : Complete(q)
    /\ \A w \in Thread : pc[w] = "B1" => Complete(loc[w].pub)

\* No upsert and no flag removes a point.
PointsKept == off \cup on \subseteq off' \cup on'

LEMMA FlagsKeepPoints ==
    ASSUME NEW qs, SetOn(qs) \/ SetOff(qs)
    PROVE  PointsKept
  BY DEF SetOn, SetOff, PointsOf, PointsKept

LEMMA StaysComplete ==
    ASSUME PointsKept, NEW q, Complete(q)
    PROVE  Complete(q)'
  BY DEF PointsKept, Complete

\* A step that adds no row, brings no thread to B1 and keeps the points.
LEMMA CompleteKept ==
    ASSUME CompleteInv, PointsKept,
           staged' \cup active' \cup superseded' \subseteq staged \cup active \cup superseded,
           \A w \in Thread : pc'[w] = "B1" => pc[w] = "B1" /\ loc'[w].pub = loc[w].pub
    PROVE  CompleteInv'
<1>1. \A q \in staged' \cup active' \cup superseded' : Complete(q)'
  BY StaysComplete DEF CompleteInv
<1>2. ASSUME NEW w \in Thread, pc'[w] = "B1"
      PROVE  \A i \in Batches : <<loc'[w].pub, i>> \in off' \cup on'
  BY <1>2 DEF CompleteInv, Complete, PointsKept
<1> QED
  BY <1>1, <1>2 DEF CompleteInv, Complete

LEMMA SwitchAddsNoRow ==
    ASSUME NEW q, Switch(q)
    PROVE  staged' \cup active' \cup superseded' \subseteq staged \cup active \cup superseded
  BY DEF Switch, Switched, OtherActive, OtherStaged

LEMMA PublishKeepsComplete ==
    ASSUME TypeOK, CompleteInv, NEW w \in Thread, Publish(w)
    PROVE  CompleteInv'
<1>1. pc \in [Thread -> {"idle", "lock", "commit", "plan"} \cup Placed] /\ loc \in [Thread -> Local]
  BY DEF TypeOK, ThreadsType
<1>2. CASE Take(w) \/ Lock(w) \/ Plan(w) \/ B3Read(w) \/ FanOut(w) \/ EnqueueNext(w) \/ Commit(w)
  <2>1. UNCHANGED <<rows, points>>
    BY <1>2 DEF Take, Lock, Plan, B3Read, FanOut, EnqueueNext, Commit
  <2>2. \A v \in Thread : pc'[v] = "B1" => pc[v] = "B1" /\ loc'[v].pub = loc[v].pub
    BY <1>1, <1>2 DEF Take, Lock, Plan, B3Read, FanOut, EnqueueNext, Commit, Goes, Leaves
  <2> QED
    BY <2>1, <2>2, CompleteKept DEF rows, points, PointsKept
<1>3. CASE Stage(w)
  <2>1. PointsKept
    BY <1>3 DEF Stage, Upsert, PointsKept, points
  <2>2. \A v \in Thread : pc'[v] = "B1" => pc[v] = "B1" /\ loc'[v].pub = loc[v].pub
    BY <1>1, <1>3 DEF Stage, Goes, Leaves
  <2> QED
    BY <1>3, <2>1, <2>2, CompleteKept DEF Stage, rows
<1>4. CASE Verify(w)
  <2>1. UNCHANGED <<rows, points>> /\ (Complete(loc[w].pub) \/ Leaves(w))
    BY <1>4 DEF Verify
  <2>2. ASSUME NEW v \in Thread, pc'[v] = "B1"
        PROVE  Complete(loc[v].pub) /\ loc'[v].pub = loc[v].pub
    BY <1>1, <1>4, <2>2 DEF Verify, Goes, Leaves, CompleteInv
  <2> QED
    BY <2>1, <2>2 DEF CompleteInv, Complete, rows, points
<1>5. CASE B1(w)
  <2>1. /\ UNCHANGED <<active, superseded, points, loc>>
        /\ staged' \subseteq staged \cup {loc[w].pub}
    BY <1>5 DEF B1
  <2>2. Complete(loc[w].pub)
    BY <1>5 DEF B1, CompleteInv
  <2>3. \A v \in Thread : pc'[v] = "B1" => pc[v] = "B1"
    BY <1>1, <1>5 DEF B1, Goes
  <2> QED
    BY <2>1, <2>2, <2>3 DEF CompleteInv, Complete, points
<1>6. CASE B2(w) \/ B3(w)
  <2>1. PointsKept
    BY <1>6, FlagsKeepPoints DEF B2, B3
  <2>2. \A v \in Thread : pc'[v] = "B1" => pc[v] = "B1" /\ loc'[v].pub = loc[v].pub
    BY <1>1, <1>6 DEF B2, B3, Goes
  <2> QED
    BY <1>6, <2>1, <2>2, CompleteKept DEF B2, B3, rows
<1>7. CASE B4(w)
  <2>1. \A v \in Thread : pc'[v] = "B1" => pc[v] = "B1" /\ loc'[v].pub = loc[v].pub
    BY <1>1, <1>7 DEF B4, Goes
  <2> QED
    BY <1>7, <2>1, SwitchAddsNoRow, CompleteKept DEF B4, points, PointsKept
<1> QED
  BY <1>2, <1>3, <1>4, <1>5, <1>6, <1>7 DEF Publish

LEMMA RepairKeepsComplete ==
    ASSUME CompleteInv, NEW p \in Procs, Repair(p)
    PROVE  CompleteInv'
<1>1. UNCHANGED <<pc, loc>>
  BY DEF Repair, Examine, RepairOrphan, RepairRead, RepairB3, RepairB4, Repaired
<1>2. PointsKept
  BY FlagsKeepPoints DEF Repair, Examine, RepairOrphan, RepairRead, RepairB3, RepairB4, Repaired,
                         points, PointsKept
<1>3. staged' \cup active' \cup superseded' \subseteq staged \cup active \cup superseded
  BY SwitchAddsNoRow DEF Repair, Examine, RepairOrphan, RepairRead, RepairB3, RepairB4, Repaired,
                         rows
<1> QED
  BY <1>1, <1>2, <1>3, CompleteKept

LEMMA CompleteStep == TypeOK /\ CompleteInv /\ [Next]_vars => CompleteInv'
<1> SUFFICES ASSUME TypeOK, CompleteInv, [Next]_vars PROVE CompleteInv'
  OBVIOUS
<1>1. ASSUME NEW w \in Thread, Publish(w) PROVE CompleteInv'
  BY <1>1, PublishKeepsComplete
<1>2. ASSUME NEW p \in Procs, Repair(p) PROVE CompleteInv'
  BY <1>2, RepairKeepsComplete
<1>3. ASSUME UNCHANGED <<rows, points>>,
             \A w \in Thread : pc'[w] = "B1" => pc[w] = "B1" /\ loc'[w].pub = loc[w].pub
      PROVE  CompleteInv'
  BY <1>3, CompleteKept DEF rows, points, PointsKept
<1>4. ASSUME NEW d \in Docs, NEW v \in Versions, Scan(d, v) PROVE CompleteInv'
  BY <1>3, <1>4 DEF Scan
<1>5. ASSUME NEW w \in Thread, LeaseLost(w) \/ \E r \in Rev : Embed(w, r) PROVE CompleteInv'
  <2>1. loc \in [Thread -> Local] /\ loc[w] \in Local
    BY DEF TypeOK, ThreadsType
  <2>2. UNCHANGED loc \/ loc' = [loc EXCEPT ![w] = [loc[w] EXCEPT !.fenced = FALSE]]
    BY <1>5, <2>1 DEF LeaseLost, Embed
  <2>3. [loc[w] EXCEPT !.fenced = FALSE].pub = loc[w].pub
    BY <2>1 DEF Local
  <2>4. \A v \in Thread : loc'[v].pub = loc[v].pub
    BY <2>1, <2>2, <2>3
  <2> QED
    BY <1>3, <1>5, <2>4 DEF LeaseLost, Embed
<1>6. CASE LockExpires
  BY <1>3, <1>6 DEF LockExpires
<1>7. ASSUME NEW p \in Procs, Start(p) \/ StartSearch(p) \/ Stop(p) \/ Crash(p) PROVE CompleteInv'
  BY <1>3, <1>7 DEF Start, StartSearch, Stop, Crash
<1>8. CASE UNCHANGED vars
  BY <1>3, <1>8 DEF vars
<1> QED
  BY <1>1, <1>2, <1>4, <1>5, <1>6, <1>7, <1>8 DEF Next

\* No active publication misses a point: what publish_generation verifies before B1
\* stays true through lost upserts, repeated attempts, repairs and crashes.
THEOREM ActiveIsVerified == Spec => []ActiveIsComplete
<1>1. Init => CompleteInv
  BY DEF Init, CompleteInv
<1>2. CompleteInv => ActiveIsComplete
  BY DEF CompleteInv, ActiveIsComplete
<1> QED
  BY <1>1, <1>2, CompleteStep, TypeCorrect, PTL DEF Spec

-----------------------------------------------------------------------------
(* The publish lock.  While no publisher outlives the TTL, every thread    *)
(* past the lock is the one the lock names.                                *)

HoldsLock(w) == Inside(w) \/ (pc[w] = "commit" /\ loc[w].pub # NoPub)
Locked(w) == lock.state = "held" /\ lock.by = w /\ lock.owner = w[1]
LockInv == \A w \in Thread : HoldsLock(w) => Locked(w)

\* Only w moves, and it neither enters nor lets go of the lock.
LEMMA LockKept ==
    ASSUME LockInv, UNCHANGED lock,
           \A v \in Thread : HoldsLock(v)' => HoldsLock(v)
    PROVE  LockInv'
  BY DEF LockInv, Locked

\* w, who holds the lock, leaves: nobody else holds it.
LEMMA LockLeft ==
    ASSUME LockInv, TypeOK, NEW w \in Thread, HoldsLock(w), Leaves(w)
    PROVE  LockInv'
<1>1. pc \in [Thread -> {"idle", "lock", "commit", "plan"} \cup Placed] /\ loc \in [Thread -> Local]
  BY DEF TypeOK, ThreadsType
<1>2. ~HoldsLock(w)'
  BY <1>1 DEF Leaves, Goes, HoldsLock, Inside
<1>3. \A v \in Thread : v # w => ~HoldsLock(v)
  BY DEF LockInv, Locked
<1>4. \A v \in Thread : v # w => ~HoldsLock(v)'
  BY <1>1, <1>3 DEF Leaves, Goes, HoldsLock, Inside
<1> QED
  BY <1>2, <1>4 DEF LockInv

LEMMA PublishKeepsLock ==
    ASSUME TypeOK, LockInv, NEW w \in Thread, Publish(w)
    PROVE  LockInv'
<1>1. pc \in [Thread -> {"idle", "lock", "commit", "plan"} \cup Placed] /\ loc \in [Thread -> Local]
  BY DEF TypeOK, ThreadsType
<1>2. CASE Take(w)
  <2>1. PICK k : loc' = [loc EXCEPT ![w] = [Idle EXCEPT !.key = k, !.fenced = TRUE]]
    BY <1>2 DEF Take
  <2>2. loc'[w].pub = NoPub
    BY <1>1, <2>1 DEF Idle
  <2>3. pc'[w] \in {"commit", "lock"}
    BY <1>1, <1>2 DEF Take, Goes
  <2>4. \A v \in Thread : HoldsLock(v)' => HoldsLock(v)
    BY <1>1, <1>2, <2>1, <2>2, <2>3 DEF Take, Goes, HoldsLock, Inside
  <2> QED
    BY <1>2, <2>4, LockKept DEF Take
<1>3. CASE Lock(w)
  <2>1. CASE LockHeld(w)
    <3>1. Leaves(w) /\ UNCHANGED lock
      BY <1>3, <2>1 DEF Lock
    <3>2. \A v \in Thread : HoldsLock(v)' => HoldsLock(v)
      BY <1>1, <3>1 DEF Leaves, Goes, HoldsLock, Inside
    <3> QED
      BY <3>1, <3>2, LockKept
  <2>2. CASE ~LockHeld(w)
    <3>1. \A v \in Thread : ~HoldsLock(v)
      BY <2>2 DEF LockHeld, LockInv, Locked
    <3>2. /\ lock' = [state |-> "held", owner |-> w[1], by |-> w]
          /\ pc' = [pc EXCEPT ![w] = "plan"] /\ UNCHANGED loc
      BY <1>3, <2>2 DEF Lock, Goes
    <3>3. \A v \in Thread : v # w => ~HoldsLock(v)'
      BY <1>1, <3>1, <3>2 DEF HoldsLock, Inside
    <3>4. Locked(w)'
      BY <3>2 DEF Locked
    <3> QED
      BY <3>3, <3>4 DEF LockInv
  <2> QED
    BY <2>1, <2>2
<1>4. CASE Plan(w) \/ B1(w) \/ B2(w) \/ B3Read(w) \/ B3(w) \/ B4(w) \/ FanOut(w) \/ EnqueueNext(w)
  <2>1. HoldsLock(w) /\ UNCHANGED lock
    BY <1>4 DEF Plan, B1, B2, B3Read, B3, B4, FanOut, EnqueueNext, HoldsLock, Inside
  <2>2. \A v \in Thread : v # w => pc'[v] = pc[v] /\ loc'[v] = loc[v]
    BY <1>1, <1>4 DEF Plan, B1, B2, B3Read, B3, B4, FanOut, EnqueueNext, Goes
  <2>3. \A v \in Thread : HoldsLock(v)' => HoldsLock(v)
    BY <2>1, <2>2 DEF HoldsLock, Inside
  <2> QED
    BY <2>1, <2>3, LockKept
<1>5. CASE Stage(w) \/ Verify(w)
  <2>1. HoldsLock(w)
    BY <1>5 DEF Stage, Verify, HoldsLock, Inside
  <2>2. CASE Leaves(w)
    BY <2>1, <2>2, LockLeft
  <2>3. CASE ~Leaves(w)
    <3>1. UNCHANGED lock /\ \A v \in Thread : v # w => pc'[v] = pc[v] /\ loc'[v] = loc[v]
      BY <1>1, <1>5, <2>3 DEF Stage, Verify, Goes
    <3>2. \A v \in Thread : HoldsLock(v)' => HoldsLock(v)
      BY <2>1, <3>1 DEF HoldsLock, Inside
    <3> QED
      BY <3>1, <3>2, LockKept
  <2> QED
    BY <2>2, <2>3
<1>6. CASE Commit(w)
  <2>1. Leaves(w)
    BY <1>6 DEF Commit
  <2>2. CASE loc[w].pub = NoPub
    <3>1. \A v \in Thread : HoldsLock(v)' => HoldsLock(v)
      BY <1>1, <2>1 DEF Leaves, Goes, HoldsLock, Inside
    <3> QED
      BY <1>6, <2>2, <3>1, LockKept DEF Commit
  <2>3. CASE loc[w].pub # NoPub
    BY <1>6, <2>1, <2>3, LockLeft DEF Commit, HoldsLock
  <2> QED
    BY <2>2, <2>3
<1> QED
  BY <1>2, <1>3, <1>4, <1>5, <1>6 DEF Publish

LEMMA CrashKeepsLock ==
    ASSUME TypeOK, LockInv, NEW p \in Procs, Crash(p)
    PROVE  LockInv'
<1>1. \A v \in Thread : HoldsLock(v)' => HoldsLock(v) /\ v[1] # p
  BY DEF Crash, HoldsLock, Inside
<1>2. ASSUME NEW v \in Thread, HoldsLock(v)' PROVE Locked(v)'
  <2>1. Locked(v) /\ v[1] # p
    BY <1>1, <1>2 DEF LockInv
  <2> QED
    BY <2>1 DEF Crash, Locked
<1> QED
  BY <1>2 DEF LockInv

LEMMA LockStep == ~SlowHolders /\ TypeOK /\ LockInv /\ [Next]_vars => LockInv'
<1> SUFFICES ASSUME ~SlowHolders, TypeOK, LockInv, [Next]_vars PROVE LockInv'
  OBVIOUS
<1>1. ASSUME NEW w \in Thread, Publish(w) PROVE LockInv'
  BY <1>1, PublishKeepsLock
<1>2. ASSUME UNCHANGED <<lock, pc, loc>> PROVE LockInv'
  BY <1>2, LockKept DEF HoldsLock, Inside
<1>3. ASSUME NEW d \in Docs, NEW v \in Versions, Scan(d, v) PROVE LockInv'
  BY <1>2, <1>3 DEF Scan
<1>4. ASSUME NEW w \in Thread, LeaseLost(w) PROVE LockInv'
  <2>1. loc \in [Thread -> Local] /\ loc[w] \in Local
    BY DEF TypeOK, ThreadsType
  <2>2. loc' = [loc EXCEPT ![w] = [loc[w] EXCEPT !.fenced = FALSE]]
    BY <1>4, <2>1 DEF LeaseLost
  <2>3. [loc[w] EXCEPT !.fenced = FALSE].pub = loc[w].pub
    BY <2>1 DEF Local
  <2>4. \A v \in Thread : loc'[v].pub = loc[v].pub
    BY <2>1, <2>2, <2>3
  <2> QED
    BY <1>4, <2>4, LockKept DEF LeaseLost, HoldsLock, Inside
<1>5. ASSUME NEW w \in Thread, NEW r \in Rev, Embed(w, r) PROVE LockInv'
  BY <1>2, <1>5 DEF Embed
<1>6. CASE LockExpires
  <2>1. \A v \in Thread : ~HoldsLock(v)
    BY <1>6, PublicationAssumption DEF LockExpires, LockInv, Locked, Thread
  <2> QED
    BY <1>6, <2>1 DEF LockExpires, LockInv, HoldsLock, Inside
<1>7. ASSUME NEW p \in Procs, Repair(p) PROVE LockInv'
  BY <1>2, <1>7 DEF Repair, Examine, RepairOrphan, RepairRead, RepairB3, RepairB4, Repaired
<1>8. ASSUME NEW p \in Procs, Start(p) \/ StartSearch(p) \/ Stop(p) PROVE LockInv'
  BY <1>2, <1>8 DEF Start, StartSearch, Stop
<1>9. ASSUME NEW p \in Procs, Crash(p) PROVE LockInv'
  BY <1>9, CrashKeepsLock
<1>10. CASE UNCHANGED vars
  BY <1>2, <1>10 DEF vars
<1> QED
  BY <1>1, <1>3, <1>4, <1>5, <1>6, <1>7, <1>8, <1>9, <1>10 DEF Next

\* The publish lock excludes every second publisher, of the same process or another,
\* from plan to fan-out, if no live publisher outlives the lock's TTL.
THEOREM LockSerializes ==
    ASSUME ~SlowHolders
    PROVE  Spec => []SerialSwitch
<1>1. Init => LockInv
  BY DEF Init, LockInv, HoldsLock, Inside
<1>2. LockInv => SerialSwitch
  BY DEF LockInv, HoldsLock, Locked, SerialSwitch
<1>3. TypeOK /\ LockInv /\ [Next]_vars => LockInv'
  BY LockStep
<1> QED
  BY <1>1, <1>2, <1>3, TypeCorrect, PTL DEF Spec

-----------------------------------------------------------------------------
(* Shelf's Put needs of a switch that its publication still has a row.     *)
(* Rows are deleted by the repair alone, and with a file-mode index no     *)
(* thread is at work while a process repairs.                              *)

Rows == staged \cup active \cup superseded

OneProcess == \A p, o \in Procs : proc[p] # "down" /\ proc[o] # "down" => p = o
ThreadsUp == \A w \in Thread : pc[w] # "idle" => proc[w[1]] = "up"
RepairsUp == \A p \in Procs : \/ proc[p] \in {"repair", "search"}
                              \/ todo[p] = {} /\ fix[p] = NoFix
ProcInv == OneProcess /\ ThreadsUp /\ RepairsUp

Switching == {"B2", "B3read", "B3", "B4"}
ThreadRows == \A w \in Thread : pc[w] \in Switching => loc[w].pub \in Rows
RepairRows ==
    \A p \in Procs :
        /\ todo[p] \subseteq Rows \ active
        /\ fix[p].step # "none" => fix[p].pub \in Rows /\ fix[p].pub \notin todo[p]
        /\ fix[p].step = "orphan" => fix[p].pub \notin active
RowInv == ThreadRows /\ RepairRows

-----------------------------------------------------------------------------
(* Processes.                                                              *)

\* A process in "up" goes on as it is, whatever its threads do.
LEMMA PublishKeepsProc ==
    ASSUME TypeOK, ProcInv, NEW w \in Thread, Publish(w)
    PROVE  ProcInv'
<1>1. UNCHANGED <<proc, repair>>
  BY DEF Publish, Take, Lock, Plan, Stage, Verify, B1, B2, B3Read, B3, B4, FanOut, EnqueueNext,
         Commit
<1>2. proc[w[1]] = "up"
  BY DEF Publish, Take, Lock, Plan, Stage, Verify, B1, B2, B3Read, B3, B4, FanOut, EnqueueNext,
         Commit, ProcInv, ThreadsUp
<1>3. \A v \in Thread : v # w => pc'[v] = pc[v]
  BY DEF TypeOK, ThreadsType, Publish, Take, Lock, Plan, Stage, Verify, B1, B2, B3Read, B3, B4,
         FanOut, EnqueueNext, Commit, Goes, Leaves
<1> QED
  BY <1>1, <1>2, <1>3 DEF ProcInv, OneProcess, ThreadsUp, RepairsUp, repair

LEMMA RepairKeepsProc ==
    ASSUME TypeOK, ProcInv, NEW p \in Procs, Repair(p)
    PROVE  ProcInv'
<1> USE DEF TypeOK, RepairsType
<1>1. CASE Repaired(p)
  <2>1. /\ proc' = [proc EXCEPT ![p] = IF @ = "repair" THEN "up" ELSE "down"]
        /\ todo[p] = {} /\ fix[p] = NoFix /\ proc[p] \in {"repair", "search"}
        /\ UNCHANGED <<repair, pc>>
    BY <1>1 DEF Repaired
  <2>2. \A w \in Thread : w[1] = p => pc[w] = "idle"
    BY <2>1 DEF ProcInv, ThreadsUp
  <2> QED
    BY <2>1, <2>2 DEF ProcInv, OneProcess, ThreadsUp, RepairsUp, repair
<1>2. CASE ~Repaired(p)
  <2>1. UNCHANGED <<proc, pc>>
    BY <1>2 DEF Repair, Examine, RepairOrphan, RepairRead, RepairB3, RepairB4
  <2>2. \A o \in Procs : o # p => todo'[o] = todo[o] /\ fix'[o] = fix[o]
    BY <1>2 DEF Repair, Examine, RepairOrphan, RepairRead, RepairB3, RepairB4
  <2>3. proc[p] \in {"repair", "search"}
    BY <1>2 DEF Repair, Examine, RepairOrphan, RepairRead, RepairB3, RepairB4, ProcInv,
                RepairsUp, NoFix
  <2> QED
    BY <2>1, <2>2, <2>3 DEF ProcInv, OneProcess, ThreadsUp, RepairsUp
<1> QED
  BY <1>1, <1>2

LEMMA ProcStep == Embedded /\ TypeOK /\ ProcInv /\ [Next]_vars => ProcInv'
<1> SUFFICES ASSUME Embedded, TypeOK, ProcInv, [Next]_vars PROVE ProcInv'
  OBVIOUS
<1> USE DEF ProcInv, OneProcess, ThreadsUp, RepairsUp, repair
<1>1. ASSUME UNCHANGED <<proc, repair, pc>> PROVE ProcInv'
  BY <1>1
<1>2. ASSUME NEW d \in Docs, NEW v \in Versions, Scan(d, v) PROVE ProcInv'
  BY <1>1, <1>2 DEF Scan
<1>3. ASSUME NEW w \in Thread, Publish(w) PROVE ProcInv'
  BY <1>3, PublishKeepsProc
<1>4. ASSUME NEW w \in Thread, LeaseLost(w) \/ \E r \in Rev : Embed(w, r) PROVE ProcInv'
  BY <1>1, <1>4 DEF LeaseLost, Embed
<1>5. CASE LockExpires
  BY <1>1, <1>5 DEF LockExpires
<1>6. ASSUME NEW p \in Procs, Repair(p) PROVE ProcInv'
  BY <1>6, RepairKeepsProc
<1>7. ASSUME NEW p \in Procs, Start(p) \/ StartSearch(p) PROVE ProcInv'
  <2>1. proc[p] = "down" /\ (\A o \in Procs : proc[o] = "down")
    BY <1>7 DEF Start, StartSearch, Alone
  <2>2. /\ UNCHANGED <<fix, pc>>
        /\ \E l \in {"repair", "up", "search"} : proc' = [proc EXCEPT ![p] = l]
    BY <1>7 DEF Start, StartSearch
  <2>3. /\ \A o \in Procs : o # p => todo'[o] = todo[o]
        /\ proc'[p] = "up" => todo'[p] = todo[p]
    BY <1>7 DEF Start, StartSearch, TypeOK, RepairsType
  <2>4. \A w \in Thread : pc[w] = "idle"
    BY <2>1 DEF Thread
  <2> QED
    BY <2>1, <2>2, <2>3, <2>4 DEF TypeOK, RepairsType
<1>8. ASSUME NEW p \in Procs, Stop(p) PROVE ProcInv'
  BY <1>8 DEF Stop, TypeOK, RepairsType
<1>9. ASSUME NEW p \in Procs, Crash(p) PROVE ProcInv'
  BY <1>9 DEF Crash, TypeOK, RepairsType, ThreadsType
<1>10. CASE UNCHANGED vars
  BY <1>1, <1>10 DEF vars
<1> QED
  BY <1>2, <1>3, <1>4, <1>5, <1>6, <1>7, <1>8, <1>9, <1>10 DEF Next

-----------------------------------------------------------------------------
(* Rows.                                                                   *)

\* The rows and the repairs are left alone, and no thread comes to a switch.
LEMMA RowsKept ==
    ASSUME RowInv, UNCHANGED <<rows, repair>>,
           \A w \in Thread : pc'[w] \in Switching => pc[w] \in Switching /\ loc'[w].pub = loc[w].pub
    PROVE  RowInv'
  BY DEF RowInv, ThreadRows, RepairRows, Rows, rows, repair

\* The switch to q keeps every row, and makes no other publication active.
LEMMA SwitchKeepsRows ==
    ASSUME NEW q \in Rows, Switch(q)
    PROVE  /\ Rows' = Rows
           /\ active' \subseteq active \cup {q}
<1> DEFINE losers == OtherActive(q) \cup OtherStaged(q)
<1>1. losers \subseteq staged \cup active /\ q \notin losers
  BY DEF OtherActive, OtherStaged
<1>2. /\ staged' = (staged \ losers) \ {q}
      /\ active' = (active \ losers) \cup {q}
      /\ superseded' = (superseded \cup losers) \ {q}
  BY <1>1 DEF Switch, Switched, Rows
<1> QED
  BY <1>1, <1>2 DEF Rows

\* While a thread is at work nobody repairs.
LEMMA WorkingMeansNoRepair ==
    ASSUME ProcInv, NEW w \in Thread, pc[w] # "idle"
    PROVE  \A p \in Procs : todo[p] = {} /\ fix[p] = NoFix
  BY DEF ProcInv, OneProcess, ThreadsUp, RepairsUp, Thread

LEMMA PublishKeepsRows ==
    ASSUME TypeOK, ProcInv, RowInv, NEW w \in Thread, Publish(w)
    PROVE  RowInv'
<1> USE DEF TypeOK, ThreadsType, Goes, Leaves, Switching
<1>1. \A v \in Thread : v # w => pc'[v] = pc[v] /\ loc'[v] = loc[v]
  BY DEF Publish, Take, Lock, Plan, Stage, Verify, B1, B2, B3Read, B3, B4, FanOut, EnqueueNext,
         Commit
<1>2. UNCHANGED repair
  BY DEF Publish, Take, Lock, Plan, Stage, Verify, B1, B2, B3Read, B3, B4, FanOut, EnqueueNext,
         Commit
<1>3. CASE \/ Take(w) \/ Lock(w) \/ Plan(w) \/ Stage(w) \/ Verify(w) \/ FanOut(w)
           \/ EnqueueNext(w) \/ Commit(w)
  <2>1. UNCHANGED rows
    BY <1>3 DEF Take, Lock, Plan, Stage, Verify, FanOut, EnqueueNext, Commit
  <2>2. pc'[w] \notin Switching
    BY <1>3 DEF Take, Lock, Plan, Stage, Verify, FanOut, EnqueueNext, Commit
  <2> QED
    BY <1>1, <1>2, <2>1, <2>2, RowsKept
<1>4. CASE B2(w) \/ B3Read(w) \/ B3(w)
  <2>1. UNCHANGED rows /\ pc[w] \in Switching
    BY <1>4 DEF B2, B3Read, B3
  <2>2. loc'[w].pub = loc[w].pub
    BY <1>4 DEF B2, B3Read, B3, Local
  <2> QED
    BY <1>1, <1>2, <2>1, <2>2, RowsKept
<1>5. CASE B1(w)
  <2>1. /\ staged' = IF Settled(loc[w].pub) THEN staged ELSE staged \cup {loc[w].pub}
        /\ UNCHANGED <<active, superseded, loc>> /\ pc[w] # "idle"
    BY <1>5 DEF B1
  <2>2. Rows \subseteq Rows' /\ loc'[w].pub \in Rows'
    BY <2>1 DEF Rows, Settled
  <2>3. ThreadRows'
    BY <1>1, <2>1, <2>2 DEF RowInv, ThreadRows
  <2>4. RepairRows'
    BY <1>2, <2>1, WorkingMeansNoRepair DEF RepairRows, NoFix, repair
  <2> QED
    BY <2>3, <2>4 DEF RowInv
<1>6. CASE B4(w)
  <2>1. /\ Switch(loc[w].pub) /\ pc[w] = "B4" /\ pc' = [pc EXCEPT ![w] = "fanout"]
        /\ UNCHANGED loc
    BY <1>6 DEF B4
  <2>2. Rows' = Rows
    BY <2>1, SwitchKeepsRows DEF RowInv, ThreadRows
  <2>3. ThreadRows'
    BY <2>1, <2>2 DEF RowInv, ThreadRows
  <2>4. RepairRows'
    BY <1>2, <2>1, WorkingMeansNoRepair DEF RepairRows, NoFix, repair
  <2> QED
    BY <2>3, <2>4 DEF RowInv
<1> QED
  BY <1>3, <1>4, <1>5, <1>6 DEF Publish

\* While a process repairs no other does, and no thread is at work.
LEMMA RepairMeansNoWork ==
    ASSUME ProcInv, NEW p \in Procs, proc[p] \in {"repair", "search"}
    PROVE  /\ \A o \in Procs : o # p => todo[o] = {} /\ fix[o] = NoFix
           /\ \A w \in Thread : pc[w] = "idle"
  BY DEF ProcInv, OneProcess, ThreadsUp, RepairsUp, Thread

LEMMA RepairKeepsRows ==
    ASSUME TypeOK, ProcInv, RowInv, NEW p \in Procs, Repair(p)
    PROVE  RowInv'
<1> USE DEF TypeOK, RepairsType
<1>1. proc[p] \in {"repair", "search"}
  BY DEF Repair, Examine, RepairOrphan, RepairRead, RepairB3, RepairB4, Repaired, ProcInv,
         RepairsUp, NoFix
<1>2. UNCHANGED pc
  BY DEF Repair, Examine, RepairOrphan, RepairRead, RepairB3, RepairB4, Repaired
<1>3. ThreadRows'
  BY <1>1, <1>2, RepairMeansNoWork DEF ThreadRows, Switching
<1>4. \A o \in Procs : o # p => todo'[o] = {} /\ fix'[o] = NoFix
  BY <1>1, RepairMeansNoWork
  DEF Repair, Examine, RepairOrphan, RepairRead, RepairB3, RepairB4, Repaired, repair
<1>5. SUFFICES /\ todo'[p] \subseteq Rows' \ active'
               /\ fix'[p].step # "none" => fix'[p].pub \in Rows' /\ fix'[p].pub \notin todo'[p]
               /\ fix'[p].step = "orphan" => fix'[p].pub \notin active'
  BY <1>3, <1>4 DEF RowInv, RepairRows, NoFix
<1> USE DEF RowInv, RepairRows
<1>6. CASE Examine(p)
  <2>1. PICK q \in todo[p] :
           /\ todo' = [todo EXCEPT ![p] = @ \ {q}]
           /\ \/ fix' = [fix EXCEPT ![p] =
                           [pub |-> q, others |-> {},
                            step |-> IF SomeOn(q) THEN "read" ELSE "orphan"]]
              \/ UNCHANGED fix
    BY <1>6 DEF Examine
  <2>2. UNCHANGED rows /\ fix[p] = NoFix
    BY <1>6 DEF Examine
  <2> QED
    BY <2>1, <2>2 DEF Rows, rows, NoFix
<1>7. CASE RepairOrphan(p)
  <2>1. fix'[p] = NoFix /\ UNCHANGED todo
    BY <1>7 DEF RepairOrphan
  <2>2. active' \subseteq active /\ Rows \ {fix[p].pub} \subseteq Rows'
    BY <1>7 DEF RepairOrphan, Rows, rows
  <2>3. fix[p].pub \notin todo[p]
    BY <1>7 DEF RepairOrphan
  <2> QED
    BY <2>1, <2>2, <2>3 DEF NoFix
<1>8. CASE RepairRead(p)
  <2>1. fix'[p].pub = fix[p].pub /\ fix'[p].step = "B3" /\ fix[p].step = "read"
    BY <1>8 DEF RepairRead, Fix
  <2> QED
    BY <1>8, <2>1 DEF RepairRead, Rows, rows
<1>9. CASE RepairB3(p)
  <2>1. fix'[p].pub = fix[p].pub /\ fix'[p].step = "B4" /\ fix[p].step = "B3"
    BY <1>9 DEF RepairB3, Fix
  <2> QED
    BY <1>9, <2>1 DEF RepairB3, Rows, rows
<1>10. CASE RepairB4(p)
  <2>1. fix[p].pub \in Rows /\ Switch(fix[p].pub) /\ fix[p].pub \notin todo[p]
    BY <1>10 DEF RepairB4
  <2>2. Rows' = Rows /\ active' \subseteq active \cup {fix[p].pub}
    BY <2>1, SwitchKeepsRows
  <2>3. fix'[p] = NoFix /\ UNCHANGED todo
    BY <1>10 DEF RepairB4
  <2> QED
    BY <2>1, <2>2, <2>3 DEF NoFix
<1>11. CASE Repaired(p)
  BY <1>11 DEF Repaired, Rows, rows, repair
<1> QED
  BY <1>6, <1>7, <1>8, <1>9, <1>10, <1>11 DEF Repair

LEMMA RowStep ==
    Embedded /\ TypeOK /\ ProcInv /\ OneActivePerDoc /\ RowInv /\ [Next]_vars => RowInv'
<1> SUFFICES ASSUME Embedded, TypeOK, ProcInv, OneActivePerDoc, RowInv, [Next]_vars PROVE RowInv'
  OBVIOUS
<1>1. ASSUME NEW d \in Docs, NEW v \in Versions, Scan(d, v) PROVE RowInv'
  BY <1>1, RowsKept DEF Scan
<1>2. ASSUME NEW w \in Thread, Publish(w) PROVE RowInv'
  BY <1>2, PublishKeepsRows
<1>3. ASSUME NEW w \in Thread, LeaseLost(w) PROVE RowInv'
  <2>1. \A v \in Thread : loc'[v].pub = loc[v].pub
    BY <1>3 DEF LeaseLost, TypeOK, ThreadsType, Local
  <2> QED
    BY <1>3, <2>1, RowsKept DEF LeaseLost
<1>4. ASSUME NEW w \in Thread, NEW r \in Rev, Embed(w, r) PROVE RowInv'
  BY <1>4, RowsKept DEF Embed
<1>5. CASE LockExpires
  BY <1>5, RowsKept DEF LockExpires
<1>6. ASSUME NEW p \in Procs, Repair(p) PROVE RowInv'
  BY <1>6, RepairKeepsRows
<1>7. ASSUME NEW p \in Procs, Start(p) \/ StartSearch(p) PROVE RowInv'
  <2>1. todo' \in {todo, [todo EXCEPT ![p] = staged]} /\ UNCHANGED <<rows, fix, pc, loc>>
    BY <1>7 DEF Start, StartSearch
  <2>2. \A o \in Procs : fix[o] = NoFix
    BY <1>7 DEF Start, StartSearch, Alone, ProcInv, RepairsUp
  <2>3. staged \subseteq Rows \ active
    BY DEF OneActivePerDoc, Rows
  <2>4. \A o \in Procs : todo'[o] \subseteq Rows \ active
    BY <2>1, <2>3 DEF RowInv, RepairRows, TypeOK, RepairsType
  <2> QED
    BY <2>1, <2>2, <2>4 DEF RowInv, ThreadRows, RepairRows, Rows, rows, NoFix
<1>8. ASSUME NEW p \in Procs, Stop(p) PROVE RowInv'
  BY <1>8, RowsKept DEF Stop
<1>9. ASSUME NEW p \in Procs, Crash(p) PROVE RowInv'
  <2>1. UNCHANGED rows
    BY <1>9 DEF Crash
  <2>2. \A w \in Thread : pc'[w] # "idle" => pc'[w] = pc[w] /\ loc'[w] = loc[w]
    BY <1>9 DEF Crash
  <2>3. \A o \in Procs : \/ todo'[o] = {} /\ fix'[o] = NoFix
                         \/ todo'[o] = todo[o] /\ fix'[o] = fix[o]
    BY <1>9 DEF Crash, TypeOK, RepairsType
  <2> QED
    BY <2>1, <2>2, <2>3 DEF RowInv, ThreadRows, RepairRows, Rows, rows, NoFix, Switching
<1>10. CASE UNCHANGED vars
  BY <1>10, RowsKept DEF vars
<1> QED
  BY <1>1, <1>2, <1>3, <1>4, <1>5, <1>6, <1>7, <1>8, <1>9, <1>10 DEF Next

-----------------------------------------------------------------------------
(* The refinement.                                                         *)

LEMMA SwitchPuts ==
    ASSUME TypeOK, OneActivePerDoc, NEW q \in Pub, q \in Rows, Switch(q)
    PROVE  PublicationShelf!Put(q.rev[1], q)
<1> DEFINE losers == OtherActive(q) \cup OtherStaged(q)
<1>1. q.rev[1] \in Docs
  BY DEF Pub, Rev
<1>2. active' = (active \ losers) \cup {q}
  BY DEF Switch, Switched, Rows, OtherActive, OtherStaged
<1>3. {a \in active' : a.rev[1] = q.rev[1]} = {q}
  BY <1>2 DEF OtherActive
<1>4. ASSUME NEW d \in Docs, d # q.rev[1]
      PROVE  {a \in active' : a.rev[1] = d} = {a \in active : a.rev[1] = d}
  BY <1>2, <1>4 DEF OtherActive, OtherStaged
<1>5. Served' = [Served EXCEPT ![q.rev[1]] = {q}]
  BY <1>1, <1>3, <1>4 DEF Served
<1> QED
  BY <1>5 DEF PublicationShelf!Put

LEMMA ShelfStep ==
    ASSUME TypeOK, OneActivePerDoc, RowInv, [Next]_vars
    PROVE  [PublicationShelf!Next]_Served
<1>1. ASSUME UNCHANGED active PROVE UNCHANGED Served
  BY <1>1 DEF Served
<1>2. ASSUME NEW q \in Pub, q \in Rows, Switch(q) PROVE PublicationShelf!Next
  <2>1. q.rev[1] \in Docs /\ q \in EditionsOf[q.rev[1]]
    BY DEF Pub, Rev, EditionsOf
  <2> QED
    BY <1>2, <2>1, SwitchPuts DEF PublicationShelf!Next
<1>3. ASSUME NEW d \in Docs, NEW v \in Versions, Scan(d, v) PROVE UNCHANGED active
  BY <1>3 DEF Scan, rows
<1>4. ASSUME NEW w \in Thread, Publish(w) PROVE UNCHANGED active \/ PublicationShelf!Next
  <2>1. CASE B4(w)
    <3>1. Switch(loc[w].pub) /\ pc[w] = "B4"
      BY <2>1 DEF B4
    <3>2. loc[w].pub \in Pub /\ loc[w].pub \in Rows
      BY <3>1 DEF TypeOK, ThreadsType, Placed, RowInv, ThreadRows, Switching
    <3> QED
      BY <1>2, <3>1, <3>2
  <2>2. CASE ~B4(w)
    BY <1>4, <2>2 DEF Publish, Take, Lock, Plan, Stage, Verify, B1, B2, B3Read, B3, FanOut,
                      EnqueueNext, Commit, rows
  <2> QED
    BY <2>1, <2>2
<1>5. ASSUME NEW w \in Thread, LeaseLost(w) \/ \E r \in Rev : Embed(w, r) PROVE UNCHANGED active
  BY <1>5 DEF LeaseLost, Embed, rows
<1>6. CASE LockExpires
  BY <1>1, <1>6 DEF LockExpires, rows
<1>7. ASSUME NEW p \in Procs, Repair(p) PROVE UNCHANGED active \/ PublicationShelf!Next
  <2>1. CASE RepairB4(p)
    <3>1. Switch(fix[p].pub) /\ fix[p].step = "B4"
      BY <2>1 DEF RepairB4
    <3>2. fix[p].pub \in Pub /\ fix[p].pub \in Rows
      BY <3>1 DEF TypeOK, RepairsType, RowInv, RepairRows
    <3> QED
      BY <1>2, <3>1, <3>2
  <2>2. CASE RepairOrphan(p)
    <3>1. fix[p].pub \notin active
      BY <2>2 DEF RepairOrphan, RowInv, RepairRows
    <3> QED
      BY <2>2, <3>1 DEF RepairOrphan, rows
  <2>3. CASE ~RepairB4(p) /\ ~RepairOrphan(p)
    BY <1>7, <2>3 DEF Repair, Examine, RepairRead, RepairB3, Repaired, rows
  <2> QED
    BY <2>1, <2>2, <2>3
<1>8. ASSUME NEW p \in Procs, Start(p) \/ StartSearch(p) \/ Stop(p) \/ Crash(p)
      PROVE  UNCHANGED active
  BY <1>8 DEF Start, StartSearch, Stop, Crash, rows
<1>9. CASE UNCHANGED vars
  BY <1>1, <1>9 DEF vars, rows
<1> QED
  BY <1>1, <1>3, <1>4, <1>5, <1>6, <1>7, <1>8, <1>9 DEF Next

\* With a file-mode index, publish_generation and reconcile_publications implement the
\* shelf: once a document has been published, one publication of it is served from then
\* on, and no switch touches another document.
THEOREM PublicationImplementsShelf ==
    ASSUME Embedded
    PROVE  Spec => ImplementsShelf
<1>1. Init => PublicationShelf!Init /\ ProcInv /\ RowInv
  BY DEF Init, PublicationShelf!Init, Served, ProcInv, OneProcess, ThreadsUp, RepairsUp, RowInv,
         ThreadRows, RepairRows, Rows, NoFix, Switching, Thread
<1>2. TypeOK /\ ProcInv /\ [Next]_vars => ProcInv'
  BY ProcStep
<1>3. TypeOK /\ ProcInv /\ OneActivePerDoc /\ RowInv /\ [Next]_vars => RowInv'
  BY RowStep
<1>4. TypeOK /\ OneActivePerDoc /\ RowInv /\ [Next]_vars => [PublicationShelf!Next]_Served
  BY ShelfStep
<1> QED
  BY <1>1, <1>2, <1>3, <1>4, TypeCorrect, OneActiveCorrect, PTL
  DEF Spec, ImplementsShelf, PublicationShelf!Spec

-----------------------------------------------------------------------------
(* The recorded epoch covers what is active.  With no crash a row is staged *)
(* only between B1 and B4 of the thread that holds the lock, so the repair *)
(* finds nothing to promote and every switch writes the record; and what   *)
(* that thread planned stays what is active, because nobody else switches. *)

Making == {"stage", "verify", "B1", "B2", "B3read", "B3", "B4"}

StagedByThread == \A q \in staged : \E w \in Thread : pc[w] \in Switching /\ loc[w].pub = q
NothingToRepair == \A p \in Procs : todo[p] = {} /\ fix[p] = NoFix
RecordCovers == \A q \in active : record # NoRecord /\ q.rev \in record
PlanCovers ==
    \A w \in Thread : pc[w] \in Making =>
        loc[w].pub.rev \in loc[w].pub.epoch /\ \A q \in active : q.rev \in loc[w].pub.epoch
CoverInv == crashes = 0 => StagedByThread /\ NothingToRepair /\ RecordCovers /\ PlanCovers

\* No switch is made, planned or left.
LEMMA CoverKept ==
    ASSUME CoverInv, UNCHANGED <<crashes, staged, active, record, repair>>,
           \A w \in Thread :
               pc[w] \in Switching => pc'[w] \in Switching /\ loc'[w].pub = loc[w].pub,
           \A w \in Thread : pc'[w] \in Making => pc[w] \in Making /\ loc'[w].pub = loc[w].pub
    PROVE  CoverInv'
<1> USE DEF CoverInv, repair
<1>1. StagedByThread => StagedByThread'
  BY DEF StagedByThread
<1>2. NothingToRepair => NothingToRepair'
  BY DEF NothingToRepair
<1>3. RecordCovers => RecordCovers'
  BY DEF RecordCovers
<1>4. PlanCovers => PlanCovers'
  BY DEF PlanCovers
<1> QED
  BY <1>1, <1>2, <1>3, <1>4

\* Whoever is between plan and switch is there alone.
LEMMA MakesAlone ==
    ASSUME LockInv, NEW w \in Thread, Inside(w)
    PROVE  \A v \in Thread : v # w => pc[v] \notin Making \cup {"plan"}
  BY DEF LockInv, HoldsLock, Locked, Inside, Making

LEMMA PublishKeepsCover ==
    ASSUME ~Frozen, TypeOK, LockInv, CoverInv, NEW w \in Thread, Publish(w)
    PROVE  CoverInv'
<1> USE DEF TypeOK, ThreadsType, Goes, Leaves
<1>1. \A v \in Thread : v # w => pc'[v] = pc[v] /\ loc'[v] = loc[v]
  BY DEF Publish, Take, Lock, Plan, Stage, Verify, B1, B2, B3Read, B3, B4, FanOut, EnqueueNext,
         Commit
<1>2. UNCHANGED <<repair, crashes>>
  BY DEF Publish, Take, Lock, Plan, Stage, Verify, B1, B2, B3Read, B3, B4, FanOut, EnqueueNext,
         Commit, bounds
<1>3. CASE Take(w) \/ Lock(w) \/ FanOut(w) \/ EnqueueNext(w) \/ Commit(w)
  <2>1. UNCHANGED <<staged, active, record>>
    BY <1>3 DEF Take, Lock, FanOut, EnqueueNext, Commit, rows
  <2>2. pc[w] \notin Making /\ pc'[w] \notin Making
    BY <1>3 DEF Take, Lock, FanOut, EnqueueNext, Commit, Making
  <2> QED
    BY <1>1, <1>2, <2>1, <2>2, CoverKept DEF Making, Switching
<1>4. CASE Stage(w) \/ Verify(w) \/ B2(w) \/ B3Read(w) \/ B3(w)
  <2>1. UNCHANGED <<staged, active, record>>
    BY <1>4 DEF Stage, Verify, B2, B3Read, B3, rows
  <2>2. pc[w] \in Making /\ (pc'[w] \in Making => loc'[w].pub = loc[w].pub)
    BY <1>4 DEF Stage, Verify, B2, B3Read, B3, Making, Local
  <2>3. pc[w] \in Switching => pc'[w] \in Switching
    BY <1>4 DEF Stage, Verify, B2, B3Read, B3, Switching
  <2> QED
    BY <1>1, <1>2, <2>1, <2>2, <2>3, CoverKept DEF Making, Switching
<1> SUFFICES ASSUME crashes = 0
             PROVE  (StagedByThread /\ NothingToRepair /\ RecordCovers /\ PlanCovers)'
  BY <1>2 DEF CoverInv
<1>5. NothingToRepair'
  BY <1>2 DEF CoverInv, NothingToRepair, repair
<1>6. StagedByThread /\ RecordCovers /\ PlanCovers
  BY DEF CoverInv
<1>7. CASE Plan(w)
  <2> DEFINE r == loc[w].key[1]
             q == [rev |-> r, epoch |-> EpochFor(r)]
  <2>1. /\ loc' = [loc EXCEPT ![w].pub = q, ![w].left = Batches]
        /\ pc[w] = "plan" /\ UNCHANGED <<staged, active, record>>
    BY <1>7 DEF Plan, rows
  <2>2. loc'[w].pub = q
    BY <2>1 DEF Local
  <2>3. \A o \in active : o.rev \in q.epoch
    BY <1>6 DEF EpochFor, RecordCovers
  <2>4. r \in q.epoch
    BY <1>6 DEF EpochFor, RecordCovers
  <2>5. RecordCovers'
    BY <1>6, <2>1 DEF RecordCovers
  <2>6. StagedByThread'
    BY <1>1, <1>6, <2>1 DEF StagedByThread, Switching
  <2>7. PlanCovers'
    BY <1>1, <1>6, <2>1, <2>2, <2>3, <2>4 DEF PlanCovers
  <2> QED
    BY <1>5, <2>5, <2>6, <2>7
<1>8. CASE B1(w)
  <2>1. /\ staged' \subseteq staged \cup {loc[w].pub}
        /\ pc[w] = "B1" /\ pc'[w] = "B2" /\ UNCHANGED <<active, record, loc>>
    BY <1>8 DEF B1
  <2>2. StagedByThread'
    BY <1>1, <1>6, <2>1 DEF StagedByThread, Switching
  <2>3. RecordCovers' /\ PlanCovers'
    BY <1>1, <1>6, <2>1 DEF RecordCovers, PlanCovers, Making
  <2> QED
    BY <1>5, <2>2, <2>3
<1>9. CASE B4(w)
  <2> DEFINE q == loc[w].pub
  <2>1. /\ Switch(q) /\ record' = q.epoch /\ UNCHANGED loc
        /\ pc[w] = "B4" /\ pc'[w] = "fanout"
    BY <1>9 DEF B4
  <2>2. active' \subseteq active \cup {q} /\ staged' \subseteq staged /\ q \notin staged'
    BY <2>1 DEF Switch, Switched, OtherActive, OtherStaged
  <2>3. q.epoch \in Epoch
    BY <2>1 DEF Placed, Pub
  <2>4. q.rev \in q.epoch /\ \A o \in active : o.rev \in q.epoch
    BY <1>6, <2>1 DEF PlanCovers, Making
  <2>5. RecordCovers'
    BY <2>1, <2>2, <2>3, <2>4, PublicationAssumption DEF RecordCovers, Epoch, Rev
  <2>6. StagedByThread'
    BY <1>1, <1>6, <2>1, <2>2 DEF StagedByThread
  <2>7. PlanCovers'
    <3>1. \A v \in Thread : pc'[v] \notin Making
      BY <1>1, <2>1, MakesAlone DEF Inside, Making
    <3> QED
      BY <3>1 DEF PlanCovers
  <2> QED
    BY <1>5, <2>5, <2>6, <2>7
<1> QED
  BY <1>2, <1>3, <1>4, <1>7, <1>8, <1>9 DEF Publish, CoverInv

LEMMA CoverStep ==
    ASSUME Embedded, ~Frozen, TypeOK, ProcInv, LockInv, CoverInv, [Next]_vars
    PROVE  CoverInv'
<1>1. ASSUME NEW w \in Thread, Publish(w) PROVE CoverInv'
  BY <1>1, PublishKeepsCover
<1>2. ASSUME UNCHANGED <<crashes, rows, record, repair, pc, loc>> PROVE CoverInv'
  BY <1>2, CoverKept DEF rows
<1>3. ASSUME NEW d \in Docs, NEW v \in Versions, Scan(d, v) PROVE CoverInv'
  BY <1>2, <1>3 DEF Scan
<1>4. ASSUME NEW w \in Thread, LeaseLost(w) PROVE CoverInv'
  <2>1. \A v \in Thread : loc'[v].pub = loc[v].pub
    BY <1>4 DEF LeaseLost, TypeOK, ThreadsType, Local
  <2> QED
    BY <1>4, <2>1, CoverKept DEF LeaseLost, rows
<1>5. ASSUME NEW w \in Thread, NEW r \in Rev, Embed(w, r) PROVE CoverInv'
  BY <1>2, <1>5 DEF Embed, bounds
<1>6. CASE LockExpires
  BY <1>2, <1>6 DEF LockExpires, bounds
<1>7. ASSUME NEW p \in Procs, Stop(p) PROVE CoverInv'
  BY <1>2, <1>7 DEF Stop, bounds
<1>8. ASSUME NEW p \in Procs, Crash(p) PROVE CoverInv'
  BY <1>8 DEF Crash, CoverInv, TypeOK, BoundsType
<1>9. CASE UNCHANGED vars
  BY <1>2, <1>9 DEF vars, bounds
<1>10. ASSUME NEW p \in Procs, Repair(p) PROVE CoverInv'
  <2>1. UNCHANGED <<crashes, pc, loc>>
    BY <1>10 DEF Repair, Examine, RepairOrphan, RepairRead, RepairB3, RepairB4, Repaired, bounds
  <2>2. CASE crashes = 0
    <3>1. todo[p] = {} /\ fix[p] = NoFix
      BY <2>2 DEF CoverInv, NothingToRepair
    <3>2. Repaired(p)
      BY <1>10, <3>1 DEF Repair, Examine, RepairOrphan, RepairRead, RepairB3, RepairB4, NoFix
    <3> QED
      BY <1>2, <2>1, <3>2 DEF Repaired
  <2> QED
    BY <2>1, <2>2 DEF CoverInv
<1>11. ASSUME NEW p \in Procs, Start(p) \/ StartSearch(p) PROVE CoverInv'
  <2>1. UNCHANGED <<crashes, rows, record, fix, pc, loc>>
    BY <1>11 DEF Start, StartSearch, bounds
  <2>2. \A w \in Thread : pc[w] = "idle"
    BY <1>11 DEF Start, StartSearch, Alone, ProcInv, ThreadsUp, Thread
  <2>3. todo' \in {todo, [todo EXCEPT ![p] = staged]}
    BY <1>11 DEF Start, StartSearch
  <2>4. CASE crashes = 0
    <3>1. staged = {}
      BY <2>2, <2>4 DEF CoverInv, StagedByThread, Switching
    <3>2. UNCHANGED todo
      BY <2>3, <2>4, <3>1 DEF CoverInv, NothingToRepair, TypeOK, RepairsType
    <3> QED
      BY <1>2, <2>1, <3>2 DEF repair
  <2> QED
    BY <2>1, <2>4 DEF CoverInv
<1> QED
  BY <1>1, <1>3, <1>4, <1>5, <1>6, <1>7, <1>8, <1>9, <1>10, <1>11 DEF Next

\* With a file-mode index, no publisher that outlives the TTL and the epoch not frozen,
\* _corpus_stats_for_publish reuses a record that covers every active revision, until
\* a first crash.
THEOREM RecordIsCurrent ==
    ASSUME Embedded, ~SlowHolders, ~Frozen
    PROVE  Spec => []RecordCoversActive
<1>1. Init => LockInv /\ ProcInv /\ CoverInv
  BY DEF Init, LockInv, HoldsLock, Inside, ProcInv, OneProcess, ThreadsUp, RepairsUp, CoverInv,
         StagedByThread, NothingToRepair, RecordCovers, PlanCovers, Making, Thread
<1>2. TypeOK /\ LockInv /\ [Next]_vars => LockInv'
  BY LockStep
<1>3. TypeOK /\ ProcInv /\ [Next]_vars => ProcInv'
  BY ProcStep
<1>4. TypeOK /\ ProcInv /\ LockInv /\ CoverInv /\ [Next]_vars => CoverInv'
  BY CoverStep
<1>5. CoverInv => RecordCoversActive
  BY DEF CoverInv, RecordCovers, RecordCoversActive
<1> QED
  BY <1>1, <1>2, <1>3, <1>4, <1>5, TypeCorrect, PTL DEF Spec

-----------------------------------------------------------------------------
(* No book stays dark.  The points of a publication are switched together; *)
(* a publication with points on that is neither active nor superseded is   *)
(* the only one of its kind, its row is staged, and it is in the hands of  *)
(* the thread between B2 and B4 or, after a crash, of the repair, which is *)
(* over before threads start.  A dark active publication waits for it.     *)

AllOn(q) == \A i \in Batches : <<q, i>> \in on
HalfDone(q) == SomeOn(q) /\ ~Settled(q)

Flagged == {"B3read", "B3", "B4"}
Mending == {"read", "B3", "B4"}

PointsInv == \A q \in Pub : AllOn(q) \/ ~SomeOn(q)
Made(w) ==
    /\ pc[w] \in Making => ~Settled(loc[w].pub)
    /\ pc[w] \in Making \ Flagged => ~SomeOn(loc[w].pub)
    /\ pc[w] \in Flagged => AllOn(loc[w].pub)
    /\ pc[w] = "B3" => loc[w].others = OtherActive(loc[w].pub)
MakingInv == \A w \in Thread : Made(w)
MendingInv ==
    \A p \in Procs :
        /\ \A q \in todo[p] : SomeOn(q) => q \in staged
        /\ fix[p].step \in Mending => fix[p].pub \in staged /\ AllOn(fix[p].pub)
        /\ fix[p].step = "B3" => fix[p].others = OtherActive(fix[p].pub)
        /\ fix[p].step = "orphan" => ~SomeOn(fix[p].pub)
        /\ proc[p] \in {"repair", "search"} =>
              \A q \in staged : SomeOn(q) =>
                  q \in todo[p] \/ (fix[p].step \in Mending /\ fix[p].pub = q)
HalfDoneInv ==
    /\ \A q, o \in Pub : HalfDone(q) /\ HalfDone(o) => q = o
    /\ \A q \in Pub : HalfDone(q) =>
          /\ q \in staged
          /\ \/ \E w \in Thread : pc[w] \in Flagged /\ loc[w].pub = q
             \/ \A p \in Procs : proc[p] # "up"
LitInv == \A q \in active : AllOn(q) \/ \E o \in staged : AllOn(o) /\ o.rev[1] = q.rev[1]
FlagInv == PointsInv /\ MakingInv /\ MendingInv /\ HalfDoneInv /\ LitInv

\* No flag, no row and no process changes, and no thread comes nearer to a switch.
LEMMA FlagsKept ==
    ASSUME FlagInv, UNCHANGED <<rows, on, proc, repair>>,
           \A w \in Thread : pc'[w] \in Making =>
               /\ pc[w] \in Making /\ loc'[w].pub = loc[w].pub
               /\ pc'[w] \in Flagged <=> pc[w] \in Flagged
               /\ pc'[w] = "B3" => pc[w] = "B3" /\ loc'[w].others = loc[w].others,
           \A w \in Thread : pc[w] \in Flagged => pc'[w] \in Flagged /\ loc'[w].pub = loc[w].pub
    PROVE  FlagInv'
<1> USE DEF FlagInv, rows, repair
<1>1. \A q : (AllOn(q)' <=> AllOn(q)) /\ (SomeOn(q)' <=> SomeOn(q)) /\ (Settled(q)' <=> Settled(q))
  BY DEF AllOn, SomeOn, Settled
<1>2. \A q : OtherActive(q)' = OtherActive(q)
  BY DEF OtherActive
<1>3. PointsInv'
  BY <1>1 DEF PointsInv
<1>4. MakingInv'
  <2> SUFFICES ASSUME NEW w \in Thread PROVE Made(w)'
    BY DEF MakingInv
  <2>1. CASE pc'[w] \in Making
    BY <1>1, <1>2, <2>1 DEF MakingInv, Made
  <2>2. CASE pc'[w] \notin Making
    BY <2>2 DEF Made, Making, Flagged
  <2> QED
    BY <2>1, <2>2
<1>5. MendingInv'
  BY <1>1, <1>2 DEF MendingInv
<1>6. HalfDoneInv'
  BY <1>1 DEF HalfDoneInv, HalfDone
<1>7. LitInv'
  BY <1>1 DEF LitInv
<1> QED
  BY <1>3, <1>4, <1>5, <1>6, <1>7

\* While a thread makes a publication nobody repairs, nobody else makes one, and what
\* is half done is in its hands.
LEMMA MakesAll ==
    ASSUME ProcInv, LockInv, HalfDoneInv, NEW w \in Thread, pc[w] \in Making \cup {"plan"}
    PROVE  /\ \A p \in Procs : todo[p] = {} /\ fix[p] = NoFix /\ proc[p] \notin {"repair", "search"}
           /\ \A v \in Thread : v # w => pc[v] \notin Making
           /\ \A q \in Pub : HalfDone(q) => q \in staged /\ pc[w] \in Flagged /\ loc[w].pub = q
<1>1. w[1] \in Procs /\ proc[w[1]] = "up" /\ pc[w] # "idle"
  BY DEF ProcInv, ThreadsUp, Making, Thread
<1>2. \A v \in Thread : v # w => pc[v] \notin Making
  BY MakesAlone DEF Inside, Making
<1>3. \A q \in Pub : HalfDone(q) => q \in staged /\ pc[w] \in Flagged /\ loc[w].pub = q
  BY <1>1, <1>2 DEF HalfDoneInv, Flagged, Making
<1>4. \A p \in Procs : proc[p] \notin {"repair", "search"}
  BY <1>1 DEF ProcInv, OneProcess
<1> QED
  BY <1>1, <1>2, <1>3, <1>4, WorkingMeansNoRepair

\* Nothing is half done, nobody repairs.
LEMMA NothingMended ==
    ASSUME \A p \in Procs : todo'[p] = {} /\ fix'[p] = NoFix /\ proc'[p] \notin {"repair", "search"}
    PROVE  MendingInv'
  BY DEF MendingInv, NoFix, Mending

LEMMA PlanningKeepsFlags ==
    ASSUME TypeOK, ProcInv, LockInv, RowInv, CompleteInv, FlagInv, NEW w \in Thread,
           Plan(w) \/ B1(w) \/ B2(w) \/ B3Read(w)
    PROVE  FlagInv'
<1> USE DEF TypeOK, ThreadsType, Goes
<1>1. UNCHANGED <<active, superseded, repair, proc>> /\ pc[w] \in Making \cup {"plan"}
  BY DEF Plan, B1, B2, B3Read, rows, Making
<1>2. /\ \A v \in Thread : v # w => pc'[v] = pc[v] /\ loc'[v] = loc[v] /\ pc[v] \notin Making
      /\ \A p \in Procs : todo[p] = {} /\ fix[p] = NoFix /\ proc[p] \notin {"repair", "search"}
      /\ \A q \in Pub : HalfDone(q) => q \in staged /\ pc[w] \in Flagged /\ loc[w].pub = q
  BY <1>1, MakesAll DEF FlagInv, Plan, B1, B2, B3Read
<1>3. MendingInv'
  BY <1>1, <1>2, NothingMended DEF repair
<1>4. \A q : Settled(q)' <=> Settled(q)
  BY <1>1 DEF Settled
<1>5. ASSUME Made(w)' PROVE MakingInv'
  <2>1. ASSUME NEW v \in Thread, v # w PROVE Made(v)'
    BY <1>2, <2>1 DEF Made, Making, Flagged
  <2> QED
    BY <1>5, <2>1 DEF MakingInv
<1> USE DEF FlagInv
<1>6. CASE Plan(w)
  <2> DEFINE q == [rev |-> loc[w].key[1], epoch |-> EpochFor(loc[w].key[1])]
  <2>1. /\ loc' = [loc EXCEPT ![w].pub = q, ![w].left = Batches]
        /\ pc[w] = "plan" /\ UNCHANGED <<rows, on>>
        /\ pc'[w] = IF Settled(q) THEN "commit" ELSE "stage"
    BY <1>6 DEF Plan, points
  <2>2. loc'[w].pub = q
    BY <2>1 DEF Local
  <2>3. q \in Pub
    <3>1. loc[w].key \in Key
      BY <2>1
    <3>2. loc[w].key[1] \in Rev
      BY <3>1 DEF Key
    <3> QED
      BY <3>2, EpochType DEF StoresType, Pub
  <2>4. \A o \in Pub : ~HalfDone(o)
    BY <1>2, <2>1 DEF Flagged
  <2>5. \A o : (AllOn(o)' <=> AllOn(o)) /\ (SomeOn(o)' <=> SomeOn(o))
    BY <2>1 DEF AllOn, SomeOn
  <2>6. Made(w)'
    BY <1>4, <2>1, <2>2, <2>3, <2>4, <2>5 DEF Made, HalfDone, Making, Flagged
  <2>7. PointsInv' /\ HalfDoneInv'
    BY <1>4, <2>4, <2>5 DEF PointsInv, HalfDoneInv, HalfDone
  <2>8. LitInv'
    BY <2>1, <2>5 DEF LitInv, rows
  <2> QED
    BY <1>3, <1>5, <2>6, <2>7, <2>8
<1>7. CASE B1(w)
  <2>1. /\ pc[w] = "B1" /\ pc'[w] = "B2" /\ UNCHANGED <<on, loc>> /\ staged \subseteq staged'
    BY <1>7 DEF B1, points
  <2>2. \A o \in Pub : ~HalfDone(o)
    BY <1>2, <2>1 DEF Flagged
  <2>3. \A o : (AllOn(o)' <=> AllOn(o)) /\ (SomeOn(o)' <=> SomeOn(o))
    BY <2>1 DEF AllOn, SomeOn
  <2>4. Made(w)'
    BY <1>4, <2>1, <2>3 DEF Made, MakingInv, Making, Flagged
  <2>5. PointsInv' /\ HalfDoneInv'
    BY <1>4, <2>2, <2>3 DEF PointsInv, HalfDoneInv, HalfDone
  <2>6. LitInv'
    BY <1>1, <2>1, <2>3 DEF LitInv
  <2> QED
    BY <1>3, <1>5, <2>4, <2>5, <2>6
<1>8. CASE B2(w)
  <2> DEFINE q == loc[w].pub
  <2>1. /\ pc[w] = "B2" /\ pc'[w] = "B3read" /\ UNCHANGED <<rows, loc>> /\ SetOn({q})
    BY <1>8 DEF B2
  <2>2. q \in Rows /\ Complete(q)
    BY <2>1 DEF RowInv, ThreadRows, Switching, Rows, CompleteInv
  <2>3. AllOn(q)'
    BY <2>1, <2>2 DEF SetOn, PointsOf, AllOn, Complete
  <2>4. ~Settled(q) /\ q \in staged
    BY <2>1, <2>2 DEF MakingInv, Made, Making, Rows, Settled
  <2>5. \A o : o # q => (AllOn(o)' <=> AllOn(o)) /\ (SomeOn(o)' <=> SomeOn(o))
    BY <2>1 DEF SetOn, PointsOf, AllOn, SomeOn
  <2>6. \A o : AllOn(o) => AllOn(o)'
    BY <2>1 DEF SetOn, AllOn
  <2>7. Made(w)'
    BY <1>4, <2>1, <2>3, <2>4 DEF Made, Making, Flagged
  <2>8. PointsInv'
    <3>1. ASSUME NEW o \in Pub PROVE AllOn(o)' \/ ~SomeOn(o)'
      <4>1. CASE o = q
        BY <2>1, <2>3, <4>1
      <4>2. CASE o # q
        BY <2>5, <4>2 DEF PointsInv
      <4> QED
        BY <4>1, <4>2
    <3> QED
      BY <3>1 DEF PointsInv
  <2>9. \A o \in Pub : HalfDone(o)' => o = q
    BY <1>2, <1>4, <2>1, <2>5 DEF HalfDone, Flagged
  <2>10. HalfDoneInv'
    BY <2>1, <2>4, <2>9 DEF HalfDoneInv, Flagged, rows
  <2>11. LitInv'
    BY <2>1, <2>6 DEF LitInv, rows
  <2> QED
    BY <1>3, <1>5, <2>7, <2>8, <2>10, <2>11
<1>9. CASE B3Read(w)
  <2>1. /\ pc[w] = "B3read" /\ pc'[w] = "B3" /\ UNCHANGED <<rows, on>>
        /\ loc' = [loc EXCEPT ![w].others = OtherActive(loc[w].pub)]
    BY <1>9 DEF B3Read, points
  <2>2. loc'[w].pub = loc[w].pub /\ loc'[w].others = OtherActive(loc[w].pub)
    BY <2>1 DEF Local
  <2>3. \A o : /\ (AllOn(o)' <=> AllOn(o)) /\ (SomeOn(o)' <=> SomeOn(o))
               /\ OtherActive(o)' = OtherActive(o)
    BY <2>1 DEF AllOn, SomeOn, OtherActive, rows
  <2>4. Made(w)'
    BY <1>4, <2>1, <2>2, <2>3 DEF Made, MakingInv, Making, Flagged
  <2>5. PointsInv'
    BY <2>3 DEF PointsInv
  <2>6. HalfDoneInv'
    BY <1>2, <1>4, <2>1, <2>2, <2>3 DEF HalfDoneInv, HalfDone, Flagged, rows
  <2>7. LitInv'
    BY <2>1, <2>3 DEF LitInv, rows
  <2> QED
    BY <1>3, <1>5, <2>4, <2>5, <2>6, <2>7
<1> QED
  BY <1>6, <1>7, <1>8, <1>9

\* Switching off the other active publications of q's document: one that is switched
\* off is active, and q, staged and on, is why it may be dark.
LEMMA OffKeepsLit ==
    ASSUME OneActivePerDoc, PointsInv, LitInv, NEW q \in staged, AllOn(q),
           SetOff(OtherActive(q)), UNCHANGED rows
    PROVE  /\ PointsInv' /\ LitInv'
           /\ \A o : o \notin OtherActive(q) =>
                  (AllOn(o)' <=> AllOn(o)) /\ (SomeOn(o)' <=> SomeOn(o))
           /\ \A o : HalfDone(o)' <=> HalfDone(o)
<1>1. \A o : o \notin OtherActive(q) => (AllOn(o)' <=> AllOn(o)) /\ (SomeOn(o)' <=> SomeOn(o))
  BY DEF SetOff, PointsOf, AllOn, SomeOn
<1>2. \A o \in OtherActive(q) : ~SomeOn(o)'
  BY DEF SetOff, PointsOf, SomeOn
<1>3. \A o : Settled(o)' <=> Settled(o)
  BY DEF Settled, rows
<1>4. \A o \in OtherActive(q) : Settled(o) /\ o.rev[1] = q.rev[1] /\ o \in active
  BY DEF Settled, OtherActive
<1>5. \A o : HalfDone(o)' <=> HalfDone(o)
  BY <1>1, <1>3, <1>4 DEF HalfDone
<1>6. PointsInv'
  BY <1>1, <1>2 DEF PointsInv
<1>7. \A o \in staged : o \notin OtherActive(q)
  BY <1>4 DEF OneActivePerDoc
<1>8. LitInv'
  BY <1>1, <1>4, <1>7 DEF LitInv, rows
<1> QED
  BY <1>1, <1>5, <1>6, <1>8

\* The switch to q, staged and on: q is lit, and what was active beside it is no more.
LEMMA SwitchKeepsLit ==
    ASSUME TypeOK, OneActivePerDoc, PointsInv, LitInv, NEW q \in staged, AllOn(q),
           Switch(q), UNCHANGED on
    PROVE  /\ PointsInv' /\ LitInv' /\ q \notin staged'
           /\ staged' \subseteq staged
           /\ \A o : (AllOn(o)' <=> AllOn(o)) /\ (SomeOn(o)' <=> SomeOn(o))
           /\ \A o : HalfDone(o)' => HalfDone(o) /\ o # q
<1> DEFINE losers == OtherActive(q) \cup OtherStaged(q)
<1>1. /\ staged' = (staged \ losers) \ {q}
      /\ active' = (active \ losers) \cup {q}
      /\ superseded' = (superseded \cup losers) \ {q}
  BY DEF Switch, Switched, OtherActive, OtherStaged
<1>2. \A o : (AllOn(o)' <=> AllOn(o)) /\ (SomeOn(o)' <=> SomeOn(o))
  BY DEF AllOn, SomeOn
<1>3. \A o : Settled(o) \/ o = q => Settled(o)'
  BY <1>1 DEF Settled
<1>4. \A o : HalfDone(o)' => HalfDone(o) /\ o # q
  BY <1>2, <1>3 DEF HalfDone
<1>5. ASSUME NEW o \in staged, o.rev[1] # q.rev[1] PROVE o \in staged'
  BY <1>1, <1>5 DEF OtherActive, OtherStaged, OneActivePerDoc
<1>6. ASSUME NEW a \in active', a # q PROVE a \in active /\ a.rev[1] # q.rev[1]
  BY <1>1, <1>6 DEF OtherActive
<1>7. LitInv'
  <2> SUFFICES ASSUME NEW a \in active', ~AllOn(a)'
               PROVE  \E o \in staged' : AllOn(o)' /\ o.rev[1] = a.rev[1]
    BY DEF LitInv
  <2>1. a # q /\ a \in active /\ a.rev[1] # q.rev[1] /\ ~AllOn(a)
    BY <1>2, <1>6
  <2> QED
    BY <1>2, <1>5, <2>1 DEF LitInv
<1>8. PointsInv'
  BY <1>2 DEF PointsInv
<1> QED
  BY <1>1, <1>2, <1>4, <1>7, <1>8

LEMMA SwitchingKeepsFlags ==
    ASSUME TypeOK, OneActivePerDoc, ProcInv, LockInv, RowInv, FlagInv, NEW w \in Thread,
           B3(w) \/ B4(w)
    PROVE  FlagInv'
<1> USE DEF TypeOK, ThreadsType, Goes, FlagInv
<1> DEFINE q == loc[w].pub
<1>1. UNCHANGED <<repair, proc>> /\ pc[w] \in {"B3", "B4"}
  BY DEF B3, B4
<1>2. /\ \A v \in Thread : v # w => pc'[v] = pc[v] /\ loc'[v] = loc[v] /\ pc[v] \notin Making
      /\ \A p \in Procs : todo[p] = {} /\ fix[p] = NoFix /\ proc[p] \notin {"repair", "search"}
      /\ \A o \in Pub : HalfDone(o) => o \in staged /\ o = q
  BY <1>1, MakesAll DEF B3, B4, Making
<1>3. MendingInv'
  BY <1>1, <1>2, NothingMended DEF repair
<1>4. ASSUME Made(w)' PROVE MakingInv'
  <2>1. ASSUME NEW v \in Thread, v # w PROVE Made(v)'
    BY <1>2, <2>1 DEF Made, Making, Flagged
  <2> QED
    BY <1>4, <2>1 DEF MakingInv
<1>5. q \in staged /\ AllOn(q) /\ ~Settled(q)
  BY <1>1 DEF RowInv, ThreadRows, Switching, Rows, MakingInv, Made, Making, Flagged, Settled
<1>6. CASE B3(w)
  <2>1. /\ pc[w] = "B3" /\ pc'[w] = "B4" /\ UNCHANGED rows
        /\ SetOff(OtherActive(q)) /\ loc' = [loc EXCEPT ![w].others = {}]
    BY <1>6 DEF B3, MakingInv, Made
  <2>2. loc'[w].pub = q
    BY <2>1 DEF Local
  <2>3. /\ PointsInv' /\ LitInv'
        /\ \A o : o \notin OtherActive(q) => (AllOn(o)' <=> AllOn(o)) /\ (SomeOn(o)' <=> SomeOn(o))
        /\ \A o : HalfDone(o)' <=> HalfDone(o)
    BY <1>5, <2>1, OffKeepsLit
  <2>4. AllOn(q)' /\ ~Settled(q)'
    BY <1>5, <2>1, <2>3 DEF OtherActive, Settled, rows
  <2>5. Made(w)'
    BY <2>1, <2>2, <2>4 DEF Made, Making, Flagged
  <2>6. HalfDoneInv'
    BY <1>2, <2>1, <2>2, <2>3 DEF HalfDoneInv, Flagged, rows
  <2> QED
    BY <1>3, <1>4, <2>3, <2>5, <2>6
<1>7. CASE B4(w)
  <2>1. /\ pc[w] = "B4" /\ pc'[w] = "fanout" /\ UNCHANGED <<on, loc>> /\ Switch(q)
    BY <1>7 DEF B4, points
  <2>2. PointsInv' /\ LitInv' /\ \A o : HalfDone(o)' => HalfDone(o) /\ o # q
    BY <1>5, <2>1, SwitchKeepsLit
  <2>3. Made(w)'
    BY <2>1 DEF Made, Making, Flagged
  <2>4. HalfDoneInv'
    BY <1>2, <2>2 DEF HalfDoneInv
  <2> QED
    BY <1>3, <1>4, <2>2, <2>3, <2>4
<1> QED
  BY <1>6, <1>7

\* An upsert of a publication in the making switches nothing off.
LEMMA StageKeepsFlags ==
    ASSUME TypeOK, FlagInv, NEW w \in Thread, Stage(w)
    PROVE  FlagInv'
<1> USE DEF TypeOK, ThreadsType, Goes, Leaves
<1>1. /\ pc[w] = "stage" /\ UNCHANGED <<rows, proc, repair>>
      /\ \E i \in Batches : Upsert(<<loc[w].pub, i>>)
      /\ \A v \in Thread : v # w => pc'[v] = pc[v] /\ loc'[v] = loc[v]
      /\ \/ pc'[w] \in {"stage", "verify"} /\ loc'[w].pub = loc[w].pub
         \/ pc'[w] = "idle"
  BY DEF Stage, Local
<1>2. ~SomeOn(loc[w].pub)
  BY <1>1 DEF FlagInv, MakingInv, Made, Making, Flagged
<1>3. UNCHANGED on
  BY <1>1, <1>2 DEF Upsert, SomeOn, points
<1> QED
  BY <1>1, <1>3, FlagsKept DEF Making, Flagged

LEMMA PublishKeepsFlags ==
    ASSUME TypeOK, OneActivePerDoc, ProcInv, LockInv, RowInv, CompleteInv, FlagInv,
           NEW w \in Thread, Publish(w)
    PROVE  FlagInv'
<1> USE DEF TypeOK, ThreadsType, Goes, Leaves
<1>1. CASE Plan(w) \/ B1(w) \/ B2(w) \/ B3Read(w)
  BY <1>1, PlanningKeepsFlags
<1>2. CASE B3(w) \/ B4(w)
  BY <1>2, SwitchingKeepsFlags
<1>3. CASE Stage(w)
  BY <1>3, StageKeepsFlags
<1>4. CASE Verify(w)
  <2>1. UNCHANGED <<rows, on, proc, repair>> /\ pc[w] = "verify"
    BY <1>4 DEF Verify, points
  <2>2. /\ \A v \in Thread : v # w => pc'[v] = pc[v] /\ loc'[v] = loc[v]
        /\ \/ pc'[w] = "B1" /\ loc'[w].pub = loc[w].pub
           \/ pc'[w] = "idle"
    BY <1>4 DEF Verify
  <2> QED
    BY <2>1, <2>2, FlagsKept DEF Making, Flagged
<1>5. CASE Take(w) \/ Lock(w) \/ FanOut(w) \/ EnqueueNext(w) \/ Commit(w)
  <2>1. UNCHANGED <<rows, on, proc, repair>> /\ pc[w] \notin Making /\ pc'[w] \notin Making
    BY <1>5 DEF Take, Lock, FanOut, EnqueueNext, Commit, points, Making
  <2>2. \A v \in Thread : v # w => pc'[v] = pc[v] /\ loc'[v] = loc[v]
    BY <1>5 DEF Take, Lock, FanOut, EnqueueNext, Commit
  <2> QED
    BY <2>1, <2>2, FlagsKept DEF Making, Flagged
<1> QED
  BY <1>1, <1>2, <1>3, <1>4, <1>5 DEF Publish

-----------------------------------------------------------------------------
(* The repair.                                                             *)

\* No thread makes a publication.
LEMMA NothingMade ==
    ASSUME \A w \in Thread : pc'[w] = "idle"
    PROVE  MakingInv'
  BY DEF MakingInv, Made, Making, Flagged

LEMMA RepairKeepsFlags ==
    ASSUME TypeOK, OneActivePerDoc, ProcInv, RowInv, CompleteInv, FlagInv,
           NEW p \in Procs, Repair(p)
    PROVE  FlagInv'
<1> USE DEF TypeOK, RepairsType, FlagInv
<1>1. UNCHANGED <<pc, loc>> /\ proc[p] \in {"repair", "search"}
  BY DEF Repair, Examine, RepairOrphan, RepairRead, RepairB3, RepairB4, Repaired, ProcInv,
         RepairsUp, NoFix
<1>2. /\ \A o \in Procs : o # p => todo[o] = {} /\ fix[o] = NoFix /\ proc[o] = "down"
      /\ \A w \in Thread : pc[w] = "idle"
  BY <1>1, RepairMeansNoWork DEF ProcInv, OneProcess
<1>3. MakingInv'
  BY <1>1, <1>2, NothingMade
<1>4. \A o \in Procs : o # p => todo'[o] = {} /\ fix'[o] = NoFix /\ proc'[o] = "down"
  BY <1>1, <1>2 DEF Repair, Examine, RepairOrphan, RepairRead, RepairB3, RepairB4, Repaired, repair
<1> DEFINE Mends ==
        /\ \A q \in todo[p] : SomeOn(q) => q \in staged
        /\ fix[p].step \in Mending => fix[p].pub \in staged /\ AllOn(fix[p].pub)
        /\ fix[p].step = "B3" => fix[p].others = OtherActive(fix[p].pub)
        /\ fix[p].step = "orphan" => ~SomeOn(fix[p].pub)
        /\ proc[p] \in {"repair", "search"} =>
              \A q \in staged : SomeOn(q) =>
                  q \in todo[p] \/ (fix[p].step \in Mending /\ fix[p].pub = q)
<1>5. ASSUME Mends' PROVE MendingInv'
  BY <1>4, <1>5 DEF MendingInv, NoFix, Mending
<1>6. Mends
  BY DEF MendingInv
<1>7. \A q \in Pub : HalfDone(q) => q \in staged
  BY DEF HalfDoneInv
<1>8. ASSUME \A q \in Pub : HalfDone(q)' => HalfDone(q) /\ q \in staged', UNCHANGED proc
      PROVE  HalfDoneInv'
  BY <1>1, <1>2, <1>8 DEF HalfDoneInv, Flagged
<1>9. ASSUME UNCHANGED <<rows, on>>
      PROVE  /\ PointsInv' /\ LitInv'
             /\ \A q : /\ AllOn(q)' <=> AllOn(q)
                       /\ SomeOn(q)' <=> SomeOn(q)
                       /\ HalfDone(q)' <=> HalfDone(q)
                       /\ OtherActive(q)' = OtherActive(q)
  BY <1>9 DEF PointsInv, LitInv, AllOn, SomeOn, HalfDone, Settled, OtherActive, rows
<1>10. CASE Examine(p)
  <2>1. fix[p] = NoFix /\ UNCHANGED <<rows, on, proc>>
    BY <1>10 DEF Examine, points
  <2>2. PICK q \in todo[p] :
           /\ todo' = [todo EXCEPT ![p] = @ \ {q}]
           /\ IF Complete(q)
              THEN fix' = [fix EXCEPT ![p] = [pub |-> q, others |-> {},
                              step |-> IF SomeOn(q) THEN "read" ELSE "orphan"]]
              ELSE UNCHANGED fix
    BY <1>10 DEF Examine
  <2>3. q \in Pub /\ Complete(q)
    BY DEF RowInv, RepairRows, Rows, CompleteInv
  <2>4. /\ todo'[p] = todo[p] \ {q}
        /\ fix'[p] = [pub |-> q, others |-> {}, step |-> IF SomeOn(q) THEN "read" ELSE "orphan"]
    BY <2>2, <2>3
  <2>5. /\ PointsInv' /\ LitInv'
        /\ \A o : /\ AllOn(o)' <=> AllOn(o)
                  /\ SomeOn(o)' <=> SomeOn(o)
                  /\ HalfDone(o)' <=> HalfDone(o)
    BY <1>9, <2>1
  <2>6. SomeOn(q) => q \in staged /\ AllOn(q)
    BY <1>6, <2>3 DEF PointsInv
  <2>7. \A o \in staged : SomeOn(o) => o \in todo[p]
    BY <1>1, <1>6, <2>1 DEF NoFix, Mending
  <2>8. Mends'
    BY <1>6, <2>1, <2>4, <2>5, <2>6, <2>7 DEF Mending, rows
  <2>9. HalfDoneInv'
    BY <1>7, <1>8, <2>1, <2>5 DEF rows
  <2> QED
    BY <1>3, <1>5, <2>5, <2>8, <2>9
<1>11. CASE RepairOrphan(p)
  <2> DEFINE q == fix[p].pub
  <2>1. /\ fix'[p] = NoFix /\ UNCHANGED <<todo, on, proc>> /\ ~SomeOn(q)
        /\ q \notin active
    BY <1>6, <1>11 DEF RepairOrphan, points, RowInv, RepairRows
  <2>2. /\ staged' \subseteq staged /\ staged \subseteq staged' \cup {q}
        /\ active' = active
        /\ superseded' \subseteq superseded /\ superseded \subseteq superseded' \cup {q}
    BY <1>11, <2>1 DEF RepairOrphan, rows
  <2>3. \A o : (AllOn(o)' <=> AllOn(o)) /\ (SomeOn(o)' <=> SomeOn(o))
    BY <2>1 DEF AllOn, SomeOn
  <2>4. \A o : SomeOn(o) => (Settled(o)' <=> Settled(o)) /\ (o \in staged' <=> o \in staged)
    BY <2>1, <2>2 DEF Settled
  <2>5. \A o : HalfDone(o)' <=> HalfDone(o)
    BY <2>3, <2>4 DEF HalfDone
  <2>6. PointsInv'
    BY <2>3 DEF PointsInv
  <2>7. LitInv'
    <3> SUFFICES ASSUME NEW a \in active, ~AllOn(a)
                 PROVE  \E o \in staged' : AllOn(o)' /\ o.rev[1] = a.rev[1]
      BY <2>2, <2>3 DEF LitInv
    <3>1. PICK o \in staged : AllOn(o) /\ o.rev[1] = a.rev[1]
      BY DEF LitInv
    <3>2. SomeOn(o)
      BY <3>1 DEF AllOn, SomeOn
    <3> QED
      BY <2>3, <2>4, <3>1, <3>2
  <2>8. fix[p].step = "orphan"
    BY <1>11 DEF RepairOrphan
  <2>9. Mends'
    BY <1>6, <2>1, <2>2, <2>3, <2>4, <2>8 DEF NoFix, Mending
  <2>10. HalfDoneInv'
    BY <1>7, <1>8, <2>1, <2>4, <2>5 DEF HalfDone
  <2> QED
    BY <1>3, <1>5, <2>6, <2>7, <2>9, <2>10
<1>12. CASE RepairRead(p)
  <2>1. /\ fix[p].step = "read" /\ UNCHANGED <<rows, on, proc, todo>>
        /\ fix' = [fix EXCEPT ![p].others = OtherActive(fix[p].pub), ![p].step = "B3"]
    BY <1>12 DEF RepairRead, points
  <2>2. /\ fix'[p].pub = fix[p].pub /\ fix'[p].step = "B3"
        /\ fix'[p].others = OtherActive(fix[p].pub)
    BY <2>1 DEF Fix
  <2>3. /\ PointsInv' /\ LitInv'
        /\ \A o : /\ AllOn(o)' <=> AllOn(o)
                  /\ SomeOn(o)' <=> SomeOn(o)
                  /\ HalfDone(o)' <=> HalfDone(o)
                  /\ OtherActive(o)' = OtherActive(o)
    BY <1>9, <2>1
  <2>4. Mends'
    BY <1>6, <2>1, <2>2, <2>3 DEF Mending, rows
  <2>5. HalfDoneInv'
    BY <1>7, <1>8, <2>1, <2>3 DEF rows
  <2> QED
    BY <1>3, <1>5, <2>3, <2>4, <2>5
<1>13. CASE RepairB3(p)
  <2> DEFINE q == fix[p].pub
  <2>1. /\ fix[p].step = "B3" /\ UNCHANGED <<rows, proc, todo>>
        /\ SetOff(fix[p].others) /\ fix' = [fix EXCEPT ![p].step = "B4"]
    BY <1>13 DEF RepairB3
  <2>2. fix'[p].pub = q /\ fix'[p].step = "B4"
    BY <2>1 DEF Fix
  <2>3. q \in staged /\ AllOn(q) /\ SetOff(OtherActive(q))
    BY <1>6, <2>1 DEF Mending
  <2>4. /\ PointsInv' /\ LitInv'
        /\ \A o : o \notin OtherActive(q) => (AllOn(o)' <=> AllOn(o)) /\ (SomeOn(o)' <=> SomeOn(o))
        /\ \A o : HalfDone(o)' <=> HalfDone(o)
    BY <2>1, <2>3, OffKeepsLit
  <2>5. /\ \A o \in staged : o \notin OtherActive(q)
        /\ \A o \in OtherActive(q) : ~SomeOn(o)'
    BY <2>3 DEF OtherActive, OneActivePerDoc, SetOff, PointsOf, SomeOn
  <2>6. Mends'
    BY <1>6, <2>1, <2>2, <2>3, <2>4, <2>5 DEF Mending, rows
  <2>7. HalfDoneInv'
    BY <1>7, <1>8, <2>1, <2>4 DEF rows
  <2> QED
    BY <1>3, <1>5, <2>4, <2>6, <2>7
<1>14. CASE RepairB4(p)
  <2> DEFINE q == fix[p].pub
  <2>1. /\ fix[p].step = "B4" /\ UNCHANGED <<on, proc, todo>>
        /\ Switch(q) /\ fix'[p] = NoFix
    BY <1>14 DEF RepairB4, points
  <2>2. q \in staged /\ AllOn(q) /\ q \in Pub /\ q \notin todo[p]
    BY <1>6, <2>1 DEF Mending, RowInv, RepairRows
  <2>3. /\ PointsInv' /\ LitInv' /\ q \notin staged' /\ staged' \subseteq staged
        /\ \A o : (AllOn(o)' <=> AllOn(o)) /\ (SomeOn(o)' <=> SomeOn(o))
        /\ \A o : HalfDone(o)' => HalfDone(o) /\ o # q
    BY <2>1, <2>2, SwitchKeepsLit
  <2>4. \A o \in staged : SomeOn(o) => o = q
    <3>1. ASSUME NEW o \in staged, SomeOn(o) PROVE o = q
      <4>1. SomeOn(q)
        BY <2>2, <3>1 DEF AllOn, SomeOn
      <4>2. ~Settled(q) /\ ~Settled(o)
        BY <2>2 DEF Settled, OneActivePerDoc
      <4> QED
        BY <2>2, <3>1, <4>1, <4>2 DEF HalfDoneInv, HalfDone, StoresType
    <3> QED
      BY <3>1
  <2>5. Mends'
    BY <1>6, <2>1, <2>2, <2>3, <2>4 DEF NoFix, Mending
  <2>6. \A o \in Pub : ~HalfDone(o)'
    BY <1>7, <2>3, <2>4 DEF HalfDone
  <2>7. HalfDoneInv'
    BY <2>6 DEF HalfDoneInv
  <2> QED
    BY <1>3, <1>5, <2>3, <2>5, <2>7
<1>15. CASE Repaired(p)
  <2>1. UNCHANGED <<rows, on, repair>> /\ todo[p] = {} /\ fix[p] = NoFix
    BY <1>15 DEF Repaired, points
  <2>2. /\ PointsInv' /\ LitInv'
        /\ \A o : /\ SomeOn(o)' <=> SomeOn(o)
                  /\ HalfDone(o)' <=> HalfDone(o)
    BY <1>9, <2>1
  <2>3. \A o \in staged : ~SomeOn(o)
    BY <1>1, <1>6, <2>1 DEF NoFix, Mending
  <2>4. Mends'
    BY <2>1, <2>2, <2>3 DEF NoFix, Mending, rows, repair
  <2>5. HalfDoneInv'
    BY <1>7, <2>2, <2>3 DEF HalfDoneInv, HalfDone
  <2> QED
    BY <1>3, <1>5, <2>2, <2>4, <2>5
<1> QED
  BY <1>10, <1>11, <1>12, <1>13, <1>14, <1>15 DEF Repair

LEMMA ProcessKeepsFlags ==
    ASSUME Embedded, TypeOK, ProcInv, RowInv, FlagInv, NEW p \in Procs,
           Start(p) \/ StartSearch(p) \/ Stop(p) \/ Crash(p)
    PROVE  FlagInv'
<1> USE DEF TypeOK, RepairsType, ThreadsType, FlagInv
<1>1. UNCHANGED <<rows, on>>
  BY DEF Start, StartSearch, Stop, Crash, points
<1>2. \A q : /\ AllOn(q)' <=> AllOn(q)
             /\ SomeOn(q)' <=> SomeOn(q)
             /\ HalfDone(q)' <=> HalfDone(q)
             /\ OtherActive(q)' = OtherActive(q)
  BY <1>1 DEF AllOn, SomeOn, HalfDone, Settled, OtherActive, rows
<1>3. PointsInv' /\ LitInv'
  BY <1>1, <1>2 DEF PointsInv, LitInv, rows
<1>4. CASE Start(p) \/ StartSearch(p)
  <2>1. /\ UNCHANGED <<fix, pc, loc>> /\ \A o \in Procs : proc[o] = "down"
        /\ todo' = [todo EXCEPT ![p] = staged]
        /\ \E l \in {"repair", "search"} : proc' = [proc EXCEPT ![p] = l]
    BY <1>4 DEF Start, StartSearch, Alone
  <2>2. \A w \in Thread : pc'[w] = "idle"
    BY <2>1 DEF ProcInv, ThreadsUp, Thread
  <2>3. MakingInv'
    BY <2>2, NothingMade
  <2>4. /\ \A o \in Procs : fix'[o] = NoFix
        /\ \A o \in Procs : proc'[o] # "up" /\ todo'[o] \subseteq staged
        /\ \A o \in Procs : o # p => proc'[o] = "down"
        /\ todo'[p] = staged
    BY <2>1 DEF ProcInv, RepairsUp
  <2>5. MendingInv'
    BY <1>1, <2>4 DEF MendingInv, NoFix, Mending, rows
  <2>6. HalfDoneInv'
    BY <1>1, <1>2, <2>4 DEF HalfDoneInv, rows
  <2> QED
    BY <1>3, <2>3, <2>5, <2>6
<1>5. CASE Stop(p)
  <2>1. UNCHANGED <<todo, fix, pc, loc>> /\ proc' = [proc EXCEPT ![p] = "down"]
    BY <1>5 DEF Stop, repair
  <2>2. MakingInv'
    BY <1>1, <1>2, <2>1 DEF MakingInv, Made, Settled, rows
  <2>3. MendingInv'
    BY <1>1, <1>2, <2>1 DEF MendingInv, rows
  <2>4. HalfDoneInv'
    BY <1>1, <1>2, <2>1 DEF HalfDoneInv, rows
  <2> QED
    BY <1>3, <2>2, <2>3, <2>4
<1>6. CASE Crash(p)
  <2>1. /\ \A w \in Thread : pc'[w] = IF w[1] = p THEN "idle" ELSE pc[w]
        /\ proc' = [proc EXCEPT ![p] = "down"] /\ proc[p] # "down"
        /\ todo' = [todo EXCEPT ![p] = {}] /\ fix' = [fix EXCEPT ![p] = NoFix]
    BY <1>6 DEF Crash
  <2>2. \A o \in Procs : o # p => proc[o] = "down" /\ todo[o] = {} /\ fix[o] = NoFix
    BY <2>1 DEF ProcInv, OneProcess, RepairsUp
  <2>3. \A o \in Procs : proc'[o] = "down" /\ todo'[o] = {} /\ fix'[o] = NoFix
    BY <2>1, <2>2
  <2>4. \A w \in Thread : pc'[w] = "idle"
    BY <2>1, <2>2 DEF ProcInv, ThreadsUp, Thread
  <2>5. MakingInv' /\ MendingInv'
    BY <2>3, <2>4, NothingMade, NothingMended
  <2>6. HalfDoneInv'
    BY <1>1, <1>2, <2>3 DEF HalfDoneInv, rows
  <2> QED
    BY <1>3, <2>5, <2>6
<1> QED
  BY <1>4, <1>5, <1>6

LEMMA FlagStep ==
    ASSUME Embedded, TypeOK, OneActivePerDoc, ProcInv, LockInv, RowInv, CompleteInv, FlagInv,
           [Next]_vars
    PROVE  FlagInv'
<1>1. ASSUME NEW w \in Thread, Publish(w) PROVE FlagInv'
  BY <1>1, PublishKeepsFlags
<1>2. ASSUME UNCHANGED <<rows, on, proc, repair, pc, loc>> PROVE FlagInv'
  BY <1>2, FlagsKept
<1>3. ASSUME NEW d \in Docs, NEW v \in Versions, Scan(d, v) PROVE FlagInv'
  BY <1>2, <1>3 DEF Scan, points
<1>4. ASSUME NEW w \in Thread, LeaseLost(w) PROVE FlagInv'
  <2>1. \A v \in Thread : loc'[v].pub = loc[v].pub /\ loc'[v].others = loc[v].others
    BY <1>4 DEF LeaseLost, TypeOK, ThreadsType, Local
  <2> QED
    BY <1>4, <2>1, FlagsKept DEF LeaseLost, points
<1>5. ASSUME NEW w \in Thread, NEW r \in Rev, Embed(w, r) PROVE FlagInv'
  BY <1>2, <1>5 DEF Embed, points
<1>6. CASE LockExpires
  BY <1>2, <1>6 DEF LockExpires, points
<1>7. ASSUME NEW p \in Procs, Repair(p) PROVE FlagInv'
  BY <1>7, RepairKeepsFlags
<1>8. ASSUME NEW p \in Procs, Start(p) \/ StartSearch(p) \/ Stop(p) \/ Crash(p) PROVE FlagInv'
  BY <1>8, ProcessKeepsFlags
<1>9. CASE UNCHANGED vars
  BY <1>2, <1>9 DEF vars, points
<1> QED
  BY <1>1, <1>3, <1>4, <1>5, <1>6, <1>7, <1>8, <1>9 DEF Next

\* With a file-mode index and no publisher that outlives the TTL, a book is never left
\* dark: whenever nobody is at work on it and no half-done publication of it is left,
\* every point of its active publication carries the flag, through crashes between any
\* two steps of publish_generation and of the repair.
THEOREM BooksAreLit ==
    ASSUME Embedded, ~SlowHolders
    PROVE  Spec => []NoDarkBook
<1>1. Init => LockInv /\ ProcInv /\ RowInv /\ CompleteInv
  BY DEF Init, LockInv, HoldsLock, Inside, ProcInv, OneProcess, ThreadsUp, RepairsUp, RowInv,
         ThreadRows, RepairRows, Rows, NoFix, Switching, CompleteInv, Thread
<1>2. Init => FlagInv
  BY DEF Init, FlagInv, PointsInv, MakingInv, Made, MendingInv, HalfDoneInv, LitInv, AllOn, SomeOn,
         HalfDone, Making, Flagged, Mending, NoFix
<1>3. TypeOK /\ LockInv /\ [Next]_vars => LockInv'
  BY LockStep
<1>4. TypeOK /\ ProcInv /\ [Next]_vars => ProcInv'
  BY ProcStep
<1>5. TypeOK /\ ProcInv /\ OneActivePerDoc /\ RowInv /\ [Next]_vars => RowInv'
  BY RowStep
<1>6. TypeOK /\ CompleteInv /\ [Next]_vars => CompleteInv'
  BY CompleteStep
<1>7. /\ TypeOK /\ OneActivePerDoc /\ ProcInv /\ LockInv /\ RowInv /\ CompleteInv /\ FlagInv
      /\ [Next]_vars
      => FlagInv'
  BY FlagStep
<1>8. FlagInv => NoDarkBook
  BY DEF FlagInv, LitInv, AllOn, NoDarkBook, Quiet
<1> QED
  BY <1>1, <1>2, <1>3, <1>4, <1>5, <1>6, <1>7, <1>8, TypeCorrect, OneActiveCorrect, PTL DEF Spec
=============================================================================
