---------------------------- MODULE BackupProofs ----------------------------
(* Theorems about Backup and the Checkpoints it contains, for any threads, chunk
   lists, batch sizes, rooms and bounds. *)
EXTENDS Backup, FiniteSetTheorems, SequenceTheorems, WellFoundedInduction, TLAPS

Sidecars == [ids : Seq(Chunk), of : Vectors]
Places == {"idle", "look", "drop", "encode", "side", "row"}
Handlers == [at : Places, job : Lists \union {None}, holds : BOOLEAN, ids : Seq(Chunk),
             size : Sizes, batch : Nat \ {0}, got : Seq(Chunk)]

(* The rows and files hold what the code puts there. *)
Stored ==
    /\ row \in [Index -> Seq(Chunk) \union {None}]
    /\ bin \in [Index -> Vectors \union {None}]
    /\ side \in [Index -> Sidecars \union {None}]

(* A handler at work has a list of the run, and a batch that its list has. *)
Fit(h) ==
    /\ h.holds => h.at # "idle"
    /\ h.at # "idle" => h.ids \in Lists
    /\ h.at \notin {"idle", "look"} => h.batch \in 1 .. Batches(h.ids, h.size)

HandlersInv == thread \in [Thread -> Handlers] /\ \A w \in Thread : Fit(thread[w])

JobsInv ==
    /\ chunks \in Lists /\ size \in Sizes /\ overlapped \in BOOLEAN
    /\ open \subseteq keys /\ keys \subseteq Lists

(* What is in the hands of a handler, and in a sidecar, are the vectors of the
   chunks it is about. *)
OwnInv ==
    /\ \A i \in Index : side[i] # None => side[i].of.ids = side[i].ids
    /\ \A w \in Thread : thread[w].at = "side" => thread[w].got = Current(w)

(* A file is there before what comes after it is written. *)
FilesInv ==
    /\ \A i \in Index : row[i] # None => side[i] # None /\ (bin[i] # None \/ damaged)
    /\ \A w \in Thread :
        /\ thread[w].at \in {"side", "row"} => bin[thread[w].batch] # None \/ damaged
        /\ thread[w].at = "row" => side[thread[w].batch] # None

(* While attempts do not overlap: one handler at work, whose job is not settled;
   it encodes nothing that is recorded, and has recorded every batch before the
   one it is at. *)
AloneAt(w) ==
    LET h == thread[w]
    IN  /\ h.job \in open
        /\ h.ids = chunks \/ chunks \in open \ {h.job}
        /\ h.at \in {"encode", "side", "row"} => row[h.batch] = None
        /\ \A i \in Index : i < h.batch => row[i] = Batch(h.ids, h.size, i)

AloneInv ==
    ~overlapped => (\A u, w \in Busy : u = w) /\ \A w \in Busy : AloneAt(w)

(* ... the sidecar of a recorded batch lists the chunks of the row; *)
RecordedInv ==
    ~overlapped =>
        /\ \A i \in Written : side[i].ids = row[i]
        /\ \A w \in Busy : thread[w].at = "row" => side[thread[w].batch].ids = Current(w)

(* ... and if no file is lost: a row can be read, and so can the files a handler
   has written; settled embed jobs leave a run that can be published. *)
ReadableAt(w) ==
    LET h == thread[w]
    IN  /\ h.at = "side" => bin[h.batch] = [ids |-> h.got, by |-> w]
        /\ h.at = "row" => Accepts(h.batch, Current(w))

ReadableInv ==
    (~overlapped /\ ~damaged) =>
        /\ \A i \in Written : Accepts(i, row[i])
        /\ \A w \in Busy : ReadableAt(w)
        /\ open = {} => Loads

CheckpointsInv ==
    /\ Stored /\ HandlersInv /\ JobsInv /\ OwnInv /\ FilesInv /\ AloneInv
    /\ RecordedInv /\ ReadableInv /\ ServedIsOwn

-----------------------------------------------------------------------------

BackupPlaces == {"none", "state", "index", "archive", "artifacts", "manifest", "made", "partial"}
Backups == [at : BackupPlaces, quiet : BOOLEAN, links : SUBSET {"index", "config"},
            changed : SUBSET {"state", "index", "config", "copied in flux"},
            row : [Index -> Seq(Chunk) \union {None}], revs : SUBSET Object,
            objects : SUBSET Object, files : SUBSET Index]

BackupTyped ==
    /\ dest \in {"same device", "elsewhere", "not set"}
    /\ worker \in {"up", "down"} /\ lockfile \in BOOLEAN
    /\ restored \in {"none", "made", "booted"}
    /\ backup \in Backups
    /\ revs \subseteq Object /\ objects \subseteq Object

(* A revision names an object that is there, and one removed does not return. *)
ArchiveInv == revs \subseteq objects /\ revs \intersect removed = {}

(* A worker is up only once the folder has its lock file, and not while a backup
   holds the lock. *)
QuietInv ==
    /\ worker = "up" => lockfile
    /\ BackupHolds => worker = "down"
    /\ "copied in flux" \in backup.changed => ~backup.quiet

(* What the snapshot names is there until it is copied, and then in the copy. *)
SnapshotInv ==
    /\ backup.at \in {"index", "archive"} => backup.revs \subseteq objects \union removed
    /\ backup.at \in {"artifacts", "manifest", "made"} =>
          backup.revs \subseteq backup.objects \union removed
    /\ (backup.at \in {"index", "archive", "artifacts"} /\ ~damaged) =>
          \A i \in Index : backup.row[i] # None => bin[i] # None /\ side[i] # None
    /\ (backup.at \in {"manifest", "made"} /\ ~damaged) => ArtifactLinks(backup)

(* What a link shares with the live or the restored tree. *)
LinksInv ==
    /\ ~OneDevice => backup.links = {} /\ backup.changed \subseteq {"copied in flux"}
    /\ "config" \in backup.links => backup.at = "made"
    /\ restored # "none" => backup.at = "made"
    /\ "index" \in backup.changed => restored = "booted" \/ served # <<>>
    /\ "state" \in backup.changed => restored = "booted"
    /\ "config" \in backup.changed => restored # "none"

Inv ==
    /\ CheckpointsInv
    /\ BackupTyped /\ ArchiveInv /\ QuietInv /\ SnapshotInv /\ LinksInv

-----------------------------------------------------------------------------
(* Numbers and recursion *)

(* A set of naturals has a least element: induction, in a form that needs no
   predicate as a parameter. *)
LEMMA LeastNatural ==
    ASSUME NEW T \in SUBSET Nat, T # {}
    PROVE  \E x \in T : \A y \in T : x <= y
<1> DEFINE U == {0 .. x : x \in T}
           R == StrictSubsetOrdering(Nat)
<1>1. U \subseteq FiniteSubsetsOf(Nat) /\ U # {}
  <2>1. \A x \in T : IsFiniteSet(0 .. x) /\ 0 .. x \subseteq Nat
    BY FS_Interval
  <2> QED
    BY <2>1 DEF FiniteSubsetsOf
<1>2. PICK u \in U : \A v \in U : ~ (<<v, u>> \in R)
  <2>1. IsWellFoundedOn(R, FiniteSubsetsOf(Nat))
    BY FS_StrictSubsetOrderingWellFounded
  <2> HIDE DEF U, R
  <2> QED
    BY <1>1, <2>1, WFMin
<1>3. PICK x \in T : u = 0 .. x
  BY <1>2
<1>4. \A y \in T : x <= y
  <2> SUFFICES ASSUME NEW y \in T, y < x
               PROVE  FALSE
    OBVIOUS
  <2>1. x \in 0 .. x /\ x \notin 0 .. y /\ 0 .. y \subseteq 0 .. x
    OBVIOUS
  <2>2. <<0 .. y, 0 .. x>> \in R
    BY <2>1 DEF StrictSubsetOrdering
  <2> QED
    BY <1>2, <1>3, <2>2
<1> QED
  BY <1>4

(* Max of a finite set of naturals is its greatest element. *)
LEMMA MaxIsGreatest ==
    ASSUME NEW T \in SUBSET Nat, IsFiniteSet(T), T # {}
    PROVE  Max(T) \in T /\ \A y \in T : y <= Max(T)
<1> DEFINE Above(x) == {y \in T : x <= y}
           U == {Above(x) : x \in T}
           R == StrictSubsetOrdering(T)
<1>1. U \subseteq FiniteSubsetsOf(T) /\ U # {}
  <2>1. \A x \in T : Above(x) \in SUBSET T /\ IsFiniteSet(Above(x))
    BY FS_Subset
  <2> QED
    BY <2>1 DEF FiniteSubsetsOf
<1>2. PICK u \in U : \A v \in U : ~ (<<v, u>> \in R)
  <2>1. IsWellFoundedOn(R, FiniteSubsetsOf(T))
    BY FS_StrictSubsetOrderingWellFounded
  <2> HIDE DEF U, R
  <2> QED
    BY <1>1, <2>1, WFMin
<1>3. PICK x \in T : u = Above(x)
  BY <1>2
<1>4. \A y \in T : y <= x
  <2> SUFFICES ASSUME NEW y \in T, x < y
               PROVE  FALSE
    OBVIOUS
  <2> x \in Nat /\ y \in Nat
    OBVIOUS
  <2>1. x \in Above(x) /\ x \notin Above(y)
    OBVIOUS
  <2>3. Above(y) \subseteq Above(x)
    <3>1. \A z \in T : y <= z => x <= z
      <4> SUFFICES ASSUME NEW z \in T, y <= z
                   PROVE  x <= z
        OBVIOUS
      <4> z \in Nat
        OBVIOUS
      <4> QED
        OBVIOUS
    <3> QED
      BY <3>1
  <2>2. <<Above(y), Above(x)>> \in R
    BY <2>1, <2>3 DEF StrictSubsetOrdering
  <2> QED
    BY <1>2, <1>3, <2>2
<1>5. \E z \in T : \A y \in T : z >= y
  BY <1>4
<1>6. Max(T) \in T /\ \A y \in T : Max(T) >= y
  BY <1>5 DEF Max
<1> QED
  BY <1>6

LEMMA MinOfTwo ==
    ASSUME NEW a \in Nat, NEW b \in Nat
    PROVE  /\ Min({a, b}) \in Nat /\ Min({a, b}) <= a /\ Min({a, b}) <= b
           /\ Min({a, b}) \in {a, b}
<1>1. \E x \in {a, b} : \A y \in {a, b} : x =< y
  OBVIOUS
<1>2. Min({a, b}) \in {a, b} /\ \A y \in {a, b} : Min({a, b}) =< y
  BY <1>1 DEF Min
<1> QED
  BY <1>2

LEMMA Quotient ==
    ASSUME NEW a \in Nat, NEW n \in Nat \ {0}
    PROVE  a \div n \in Nat /\ n * (a \div n) <= a /\ a < n * (a \div n) + n
OBVIOUS

UsesLess(S, V, mu, D) ==
    \A s \in S : \A f, g \in [S -> V] :
        (\A t \in S : mu[t] < mu[s] => f[t] = g[t]) => D[s][f] = D[s][g]

Solvable(S, V, D) == \E F \in [S -> V] : \A s \in S : F[s] = D[s][F]

(* A recursive definition has a solution when the value at s uses only values at
   arguments of a smaller measure. *)
LEMMA Recursion ==
    ASSUME NEW S, NEW V, V # {}, NEW mu \in [S -> Nat], NEW D \in [S -> [[S -> V] -> V]],
           UsesLess(S, V, mu, D)
    PROVE  Solvable(S, V, D)
<1> USE DEF UsesLess, Solvable
<1> DEFINE Solves(f, n) == \A s \in S : mu[s] < n => f[s] = D[s][f]
           Upto(n) == {f \in [S -> V] : Solves(f, n)}
<1>1. ASSUME NEW n \in Nat, NEW f \in Upto(n), NEW g \in Upto(n)
      PROVE  \A s \in S : mu[s] < n => f[s] = g[s]
  <2> DEFINE T == {mu[s] : s \in {s \in S : mu[s] < n /\ f[s] # g[s]}}
  <2>1. T \in SUBSET Nat
    OBVIOUS
  <2>2. ASSUME T # {}
        PROVE  FALSE
    <3>1. PICK x \in T : \A y \in T : x <= y
      <4> HIDE DEF T
      <4> QED
        BY <2>1, <2>2, LeastNatural
    <3>2. PICK s \in S : mu[s] = x /\ mu[s] < n /\ f[s] # g[s]
      BY <3>1
    <3>3. ASSUME NEW t \in S, mu[t] < mu[s], f[t] # g[t]
          PROVE  FALSE
      <4>1. mu[t] \in Nat /\ mu[s] \in Nat /\ mu[t] < n
        BY <3>2, <3>3
      <4>2. mu[t] \in T
        BY <4>1, <3>3
      <4> HIDE DEF T
      <4> QED
        BY <4>1, <4>2, <3>1, <3>2, <3>3
    <3>4. D[s][f] = D[s][g]
      <4>1. f \in [S -> V] /\ g \in [S -> V]
        OBVIOUS
      <4> HIDE DEF Upto, Solves, T
      <4>2. \A t \in S : mu[t] < mu[s] => f[t] = g[t]
        BY <3>3
      <4>3. (\A t \in S : mu[t] < mu[s] => f[t] = g[t]) => D[s][f] = D[s][g]
        BY <4>1
      <4> QED
        BY <4>2, <4>3
    <3> QED
      BY <3>2, <3>4
  <2>3. ASSUME NEW s \in S, mu[s] < n, f[s] # g[s]
        PROVE  FALSE
    <3>1. mu[s] \in T
      BY <2>3
    <3> HIDE DEF T
    <3> QED
      BY <2>2, <3>1
  <2> QED
    BY <2>3
<1>2. \A n \in Nat : Upto(n) # {}
  <2> DEFINE T == {n \in Nat : Upto(n) = {}}
  <2>1. ASSUME T # {}
        PROVE  FALSE
    <3>1. PICK x \in T : \A y \in T : x <= y
      <4>1. T \in SUBSET Nat
        OBVIOUS
      <4> HIDE DEF T
      <4> QED
        BY <4>1, <2>1, LeastNatural
    <3>2. x # 0
      <4>1. PICK v : v \in V
        OBVIOUS
      <4>2. [s \in S |-> v] \in Upto(0)
        BY <4>1
      <4> QED
        BY <4>2
    <3>3. PICK f \in Upto(x - 1) : TRUE
      <4>1. x \in Nat /\ x - 1 \in Nat
        BY <3>1, <3>2
      <4>2. x - 1 \notin T
        <5>1. ~ (x <= x - 1)
          BY <4>1
        <5> HIDE DEF T
        <5> QED
          BY <3>1, <5>1
      <4> HIDE DEF Upto
      <4> QED
        BY <4>1, <4>2
    <3> DEFINE g == [s \in S |-> D[s][f]]
    <3>4. g \in [S -> V] /\ f \in [S -> V]
      OBVIOUS
    <3>5. \A s \in S : mu[s] < x - 1 => g[s] = f[s]
      BY <3>3
    <3>6. ASSUME NEW s \in S, mu[s] < x
          PROVE  g[s] = D[s][g]
      <4>1. \A t \in S : mu[t] < mu[s] => f[t] = g[t]
        BY <3>1, <3>2, <3>5, <3>6
      <4>2. D[s][f] = D[s][g]
        <5> HIDE DEF g, Upto
        <5> QED
          BY <4>1, <3>4
      <4> QED
        BY <4>2
    <3>7. g \in Upto(x)
      BY <3>4, <3>6
    <3> QED
      BY <3>1, <3>7
  <2>2. T = {}
    BY <2>1
  <2> QED
    BY <2>2
<1> DEFINE Sol(n) == CHOOSE f \in Upto(n) : TRUE
           F == [s \in S |-> Sol(mu[s] + 1)[s]]
<1>3. \A n \in Nat : Sol(n) \in Upto(n)
  <2> HIDE DEF Upto
  <2> QED
    BY <1>2
<1>a. \A n \in Nat : Upto(n) \subseteq [S -> V]
  OBVIOUS
<1>b. \A s \in S : mu[s] \in Nat /\ mu[s] + 1 \in Nat
  OBVIOUS
<1>4. \A s \in S : Sol(mu[s] + 1) \in [S -> V]
  <2> HIDE DEF Upto, Sol
  <2> QED
    BY <1>3, <1>a, <1>b
<1>5. F \in [S -> V]
  <2> HIDE DEF Sol
  <2> QED
    BY <1>4
<1>6. ASSUME NEW s \in S
      PROVE  F[s] = D[s][F]
  <2> DEFINE n == mu[s] + 1
             f == Sol(n)
  <2>1. n \in Nat /\ f \in Upto(n)
    <3> HIDE DEF Upto, Sol
    <3> QED
      BY <1>3, <1>b
  <2>2. f \in [S -> V] /\ f[s] = D[s][f]
    <3> HIDE DEF f
    <3> QED
      BY <2>1, <1>b
  <2>3. ASSUME NEW t \in S, mu[t] < mu[s]
        PROVE  F[t] = f[t]
    <3>1. Sol(mu[t] + 1) \in Upto(mu[t] + 1) /\ mu[t] + 1 \in Nat
      <4> HIDE DEF Upto, Sol
      <4> QED
        BY <1>3, <1>b
    <3>2. f \in Upto(mu[t] + 1)
      <4> HIDE DEF f
      <4> QED
        BY <2>1, <2>3, <1>b
    <3>3. Sol(mu[t] + 1)[t] = f[t]
      <4> HIDE DEF Sol, f, Upto
      <4> QED
        BY <1>1, <3>1, <3>2
    <3> QED
      BY <3>3
  <2>4. D[s][F] = D[s][f]
    <3> HIDE DEF F, f
    <3> QED
      BY <2>2, <2>3, <1>5
  <2> QED
    BY <2>2, <2>4
<1> QED
  BY <1>5, <1>6

-----------------------------------------------------------------------------
(* Chunk lists and batches *)

LEMMA ListsAreSequences ==
    /\ \A l \in Lists : /\ l \in Seq(Chunk) /\ l # <<>> /\ Len(l) \in Nat \ {0}
                        /\ DOMAIN l = 1 .. Len(l) /\ ToSet(l) # {}
    /\ None \notin Seq(Chunk) /\ None \notin Vectors /\ None \notin Sidecars
    /\ None \notin Lists
<1>1. ASSUME NEW l \in Lists
      PROVE  /\ l \in Seq(Chunk) /\ l # <<>> /\ Len(l) \in Nat \ {0}
             /\ DOMAIN l = 1 .. Len(l) /\ ToSet(l) # {}
  <2>1. l \in Seq(Chunk) /\ l # <<>>
    BY CheckpointsAssumption
  <2>2. Len(l) \in Nat \ {0} /\ DOMAIN l = 1 .. Len(l)
    BY <2>1, EmptySeq, LenProperties
  <2>3. l[1] \in ToSet(l)
    BY <2>2 DEF ToSet
  <2> QED
    BY <2>1, <2>2, <2>3
<1>2. None \notin Seq(Chunk) /\ None \notin Vectors /\ None \notin Sidecars
  BY CheckpointsAssumption DEF Sidecars
<1> QED
  BY <1>1, <1>2

LEMMA IndexIsBounded ==
    /\ Index \subseteq Nat \ {0} /\ IsFiniteSet(Index)
    /\ \A l \in Lists : 1 .. Len(l) \subseteq Index
<1> DEFINE Lens == {Len(l) : l \in Lists}
<1>1. Lens \in SUBSET Nat
  BY ListsAreSequences
<1>2. IsFiniteSet(Lens)
  <2>1. IsFiniteSet(Lists)
    BY CheckpointsAssumption
  <2> DEFINE f == [l \in Lists |-> Len(l)]
  <2>2. f \in Surjection(Lists, Lens)
    BY DEF Surjection
  <2> HIDE DEF f, Lens
  <2> QED
    BY <2>1, <2>2, FS_Surjection
<1>3. Lens # {}
  BY CheckpointsAssumption
<1>4. Max(Lens) \in Nat /\ \A n \in Lens : n <= Max(Lens)
  <2> HIDE DEF Lens
  <2> QED
    BY <1>1, <1>2, <1>3, MaxIsGreatest
<1>5. Index = 1 .. Max(Lens)
  BY DEF Index
<1>6. ASSUME NEW l \in Lists
      PROVE  1 .. Len(l) \subseteq Index
  <2>1. Len(l) \in Lens /\ Len(l) \in Nat
    BY ListsAreSequences
  <2>2. Len(l) <= Max(Lens)
    BY <2>1, <1>4
  <2> HIDE DEF Lens
  <2> QED
    BY <2>1, <2>2, <1>4, <1>5
<1>7. Index \subseteq Nat \ {0} /\ IsFiniteSet(Index)
  <2> DEFINE m == Max(Lens)
  <2>1. m \in Nat /\ Index = 1 .. m
    BY <1>4, <1>5
  <2> HIDE DEF m
  <2>2. IsFiniteSet(1 .. m)
    BY <2>1, FS_Interval
  <2> QED
    BY <2>1, <2>2
<1> QED
  BY <1>6, <1>7

(* A list has no more batches than chunks. *)
LEMMA BatchesFit ==
    ASSUME NEW l \in Lists, NEW n \in Sizes
    PROVE  Batches(l, n) \in Nat /\ 1 .. Batches(l, n) \subseteq Index
<1> DEFINE L == Len(l)
           q == (L + n - 1) \div n
<1>1. n \in Nat \ {0} /\ L \in Nat \ {0}
  BY CheckpointsAssumption, ListsAreSequences
<1> HIDE DEF L
<1>2. q \in Nat /\ n * q <= L + n - 1
  <2>1. L + n - 1 \in Nat
    BY <1>1
  <2> QED
    BY <1>1, <2>1, Quotient
<1> HIDE DEF q
<1>3. q <= L
  <2> SUFFICES ASSUME q >= L + 1
               PROVE  FALSE
    BY <1>1, <1>2
  <2>1. n * q >= n * (L + 1)
    BY <1>1, <1>2
  <2>2. n * (L + 1) = n * L + n
    BY <1>1
  <2>3. n * L >= L
    BY <1>1
  <2> QED
    BY <1>1, <1>2, <2>1, <2>2, <2>3
<1>4. Batches(l, n) = q
  BY DEF Batches, q, L
<1>5. 1 .. L \subseteq Index
  BY IndexIsBounded DEF L
<1> QED
  BY <1>1, <1>2, <1>3, <1>4, <1>5

(* A batch is a piece of its list. *)
LEMMA BatchIsPiece ==
    ASSUME NEW l \in Seq(Chunk), NEW n \in Nat \ {0}, NEW i \in Nat \ {0}
    PROVE  /\ Batch(l, n, i) \in Seq(Chunk)
           /\ \A k \in 1 .. Len(l) : (i - 1) * n < k /\ k <= i * n =>
                 l[k] \in ToSet(Batch(l, n, i))
<1> DEFINE lo == (i - 1) * n + 1
           hi == Min({i * n, Len(l)})
<1>1. Len(l) \in Nat
  BY LenProperties
<1>2. i * n \in Nat /\ (i - 1) * n \in Nat
  OBVIOUS
<1>3. lo \in Nat \ {0}
  BY <1>2
<1>4. hi \in Nat /\ hi <= Len(l) /\ hi \in {i * n, Len(l)}
  BY <1>1, <1>2, MinOfTwo
<1>5. Batch(l, n, i) = SubSeq(l, lo, hi)
  BY DEF Batch
<1> HIDE DEF lo, hi
<1>6. \A j \in lo .. hi : l[j] \in Chunk
  BY <1>1, <1>3, <1>4, ElementOfSeq
<1>7. /\ SubSeq(l, lo, hi) \in Seq(Chunk)
      /\ Len(SubSeq(l, lo, hi)) = IF lo <= hi THEN hi - lo + 1 ELSE 0
      /\ \A j \in 1 .. hi - lo + 1 : SubSeq(l, lo, hi)[j] = l[lo + j - 1]
  <2>1. lo \in Int /\ hi \in Int
    BY <1>3, <1>4
  <2> QED
    BY <2>1, <1>6, SubSeqProperties
<1>8. ASSUME NEW k \in 1 .. Len(l), (i - 1) * n < k, k <= i * n
      PROVE  l[k] \in ToSet(SubSeq(l, lo, hi))
  <2>1. lo <= k /\ k <= hi
    <3>1. lo = (i - 1) * n + 1
      BY DEF lo
    <3> QED
      BY <3>1, <1>1, <1>2, <1>4, <1>8
  <2> DEFINE j == k - lo + 1
  <2>2. j \in 1 .. hi - lo + 1 /\ lo + j - 1 = k
    BY <2>1, <1>1, <1>3, <1>4
  <2>3. SubSeq(l, lo, hi)[j] = l[k]
    BY <2>2, <1>7
  <2>4. j \in DOMAIN SubSeq(l, lo, hi)
    <3>1. DOMAIN SubSeq(l, lo, hi) = 1 .. Len(SubSeq(l, lo, hi))
      BY <1>7, LenProperties
    <3>2. Len(SubSeq(l, lo, hi)) = hi - lo + 1
      BY <2>1, <1>3, <1>4, <1>7
    <3> QED
      BY <3>1, <3>2, <2>2
  <2> QED
    BY <2>3, <2>4 DEF ToSet
<1> QED
  BY <1>5, <1>7, <1>8

(* Every chunk of a list is in one of its batches. *)
LEMMA BatchesCover ==
    ASSUME NEW l \in Lists, NEW n \in Sizes, NEW c \in ToSet(l)
    PROVE  \E i \in 1 .. Batches(l, n) : c \in ToSet(Batch(l, n, i))
<1> DEFINE L == Len(l)
<1>1. n \in Nat \ {0} /\ L \in Nat \ {0} /\ l \in Seq(Chunk) /\ DOMAIN l = 1 .. L
  BY CheckpointsAssumption, ListsAreSequences
<1>2. PICK k \in 1 .. L : l[k] = c
  BY <1>1 DEF ToSet
<1> HIDE DEF L
<1> DEFINE q == (k - 1) \div n
           m == (L + n - 1) \div n
<1>3. q \in Nat /\ n * q <= k - 1 /\ k - 1 < n * q + n
  <2>1. k - 1 \in Nat
    BY <1>2, <1>1
  <2> QED
    BY <2>1, <1>1, Quotient
<1>4. m \in Nat /\ L + n - 1 < n * m + n
  <2>1. L + n - 1 \in Nat
    BY <1>1
  <2> QED
    BY <2>1, <1>1, Quotient
<1> HIDE DEF q, m
<1>5. q + 1 <= m
  <2> SUFFICES ASSUME q >= m
               PROVE  FALSE
    BY <1>3, <1>4
  <2>1. n * q >= n * m
    BY <1>1, <1>3, <1>4
  <2>2. n * q \in Nat /\ n * m \in Nat
    BY <1>1, <1>3, <1>4
  <2> QED
    BY <2>1, <2>2, <1>1, <1>2, <1>3, <1>4
<1>6. q + 1 \in 1 .. m /\ q + 1 \in Nat \ {0}
  BY <1>3, <1>4, <1>5
<1>7. ((q + 1) - 1) * n < k /\ k <= (q + 1) * n
  <2>1. ((q + 1) - 1) * n = n * q /\ (q + 1) * n = n * q + n
    BY <1>1, <1>3
  <2>2. n * q \in Nat
    BY <1>1, <1>3
  <2> QED
    BY <2>1, <2>2, <1>1, <1>2, <1>3
<1>8. c \in ToSet(Batch(l, n, q + 1))
  BY <1>1, <1>2, <1>6, <1>7, BatchIsPiece DEF L
<1>9. Batches(l, n) = m
  BY DEF Batches, m, L
<1> QED
  BY <1>6, <1>8, <1>9

-----------------------------------------------------------------------------
(* Out of memory: encoding gives the vectors of all the texts, or nothing *)

LEMMA CallingStep ==
    ASSUME NEW c \in Calling, c.rest # <<>>
    PROVE  LET call == SubSeq(c.rest, 1, Min({c.k, Len(c.rest)}))
               others == SubSeq(c.rest, Len(call) + 1, Len(c.rest))
           IN  /\ call \in Seq(Chunk) /\ others \in Seq(Chunk)
               /\ call \o others = c.rest
               /\ Len(others) < Len(c.rest)
<1> DEFINE s == c.rest
           m == Min({c.k, Len(s)})
           call == SubSeq(s, 1, m)
           others == SubSeq(s, Len(call) + 1, Len(s))
<1>1. s \in Seq(Chunk) /\ s # <<>> /\ c.k \in Nat \ {0}
  BY DEF Calling
<1>2. Len(s) \in Nat \ {0}
  BY <1>1, EmptySeq
<1> HIDE DEF s
<1>3. m \in 1 .. Len(s)
  BY <1>1, <1>2, MinOfTwo
<1> HIDE DEF m
<1>4. \A i \in 1 .. Len(s) : s[i] \in Chunk
  BY <1>1, ElementOfSeq
<1>5. call \in Seq(Chunk) /\ Len(call) = m
  <2>1. \A i \in 1 .. m : s[i] \in Chunk
    BY <1>2, <1>3, <1>4
  <2>2. 1 <= m /\ m - 1 + 1 = m /\ m \in Int
    BY <1>2, <1>3
  <2> QED
    BY <2>1, <2>2, SubSeqProperties
<1>6. others \in Seq(Chunk) /\ Len(others) < Len(s) /\ others = SubSeq(s, m + 1, Len(s))
  <2>1. others = SubSeq(s, m + 1, Len(s))
    BY <1>5
  <2>2. \A i \in m + 1 .. Len(s) : s[i] \in Chunk
    BY <1>2, <1>3, <1>4
  <2>3. m + 1 \in Int /\ Len(s) \in Int
    BY <1>2, <1>3
  <2>4. /\ SubSeq(s, m + 1, Len(s)) \in Seq(Chunk)
        /\ Len(SubSeq(s, m + 1, Len(s)))
              = IF m + 1 <= Len(s) THEN Len(s) - (m + 1) + 1 ELSE 0
    BY <2>2, <2>3, SubSeqProperties
  <2> QED
    BY <2>1, <2>4, <1>2, <1>3
<1>7. call \o others = s
  <2>1. 1 \in 1 .. Len(s) + 1 /\ m \in 1 - 1 .. Len(s) /\ Len(s) \in m .. Len(s)
    BY <1>2, <1>3
  <2>2. SubSeq(s, 1, m) \o SubSeq(s, m + 1, Len(s)) = SubSeq(s, 1, Len(s))
    BY <1>1, <2>1, ConcatAdjacentSubSeq
  <2>3. SubSeq(s, 1, Len(s)) = s
    BY <1>1, SubSeqFull
  <2> QED
    BY <1>6, <2>2, <2>3
<1> QED
  BY <1>5, <1>6, <1>7 DEF s, m

(* What one call of encode_batch_oom returns, given what the calls it makes
   itself return. *)
Returns(c, F) ==
    LET call == SubSeq(c.rest, 1, Min({c.k, Len(c.rest)}))
        others == SubSeq(c.rest, Len(call) + 1, Len(c.rest))
    IN  IF c.rest = <<>> THEN {<<>>}
        ELSE IF Len(call) <= c.room
        THEN {call \o out : out \in F[[c EXCEPT !.rest = others]]}
        ELSE IF c.k = 1 \/ c.left = 0 THEN {}
        ELSE F[[c EXCEPT !.k = c.k \div 2, !.left = c.left - 1]]

Others(c) == LET call == SubSeq(c.rest, 1, Min({c.k, Len(c.rest)}))
             IN  [c EXCEPT !.rest = SubSeq(c.rest, Len(call) + 1, Len(c.rest))]
Halved(c) == [c EXCEPT !.k = c.k \div 2, !.left = c.left - 1]
Measure(c) == Len(c.rest) + c.left

LEMMA MeasureFalls ==
    ASSUME NEW c \in Calling
    PROVE  /\ Measure(c) \in Nat
           /\ c.rest # <<>> => Others(c) \in Calling /\ Measure(Others(c)) < Measure(c)
           /\ c.k # 1 /\ c.left # 0 => Halved(c) \in Calling /\ Measure(Halved(c)) < Measure(c)
<1>1. c.rest \in Seq(Chunk) /\ c.left \in Nat /\ c.k \in Nat \ {0} /\ c.room \in Rooms
  BY DEF Calling
<1>2. Len(c.rest) \in Nat
  BY <1>1, LenProperties
<1>3. ASSUME c.rest # <<>>
      PROVE  Others(c) \in Calling /\ Measure(Others(c)) < Measure(c)
  <2> DEFINE o == SubSeq(c.rest, Len(SubSeq(c.rest, 1, Min({c.k, Len(c.rest)}))) + 1, Len(c.rest))
  <2>1. o \in Seq(Chunk) /\ Len(o) < Len(c.rest)
    BY <1>3, CallingStep
  <2>2. Len(o) \in Nat
    BY <2>1, LenProperties
  <2>3. Others(c) = [c EXCEPT !.rest = o]
    BY DEF Others
  <2> HIDE DEF o
  <2>4. Others(c) \in Calling /\ Others(c).rest = o /\ Others(c).left = c.left
    BY <2>1, <2>3 DEF Calling
  <2> QED
    BY <2>1, <2>2, <2>4, <1>1, <1>2 DEF Measure
<1>4. ASSUME c.k # 1, c.left # 0
      PROVE  Halved(c) \in Calling /\ Measure(Halved(c)) < Measure(c)
  <2>1. c.k \div 2 \in Nat \ {0} /\ c.left - 1 \in Nat
    BY <1>1, <1>4
  <2>2. Halved(c) \in Calling /\ Halved(c).rest = c.rest /\ Halved(c).left = c.left - 1
    BY <2>1 DEF Halved, Calling
  <2> QED
    BY <2>2, <1>1, <1>2 DEF Measure
<1> QED
  BY <1>1, <1>2, <1>3, <1>4 DEF Measure

LEMMA ReturnsSequences ==
    ASSUME NEW c \in Calling, NEW F \in [Calling -> SUBSET Seq(Chunk)]
    PROVE  Returns(c, F) \in SUBSET Seq(Chunk)
<1> DEFINE call == SubSeq(c.rest, 1, Min({c.k, Len(c.rest)}))
<1>1. CASE c.rest = <<>>
  BY <1>1, EmptySeq DEF Returns
<1>2. CASE c.rest # <<>> /\ Len(call) <= c.room
  <2>1. call \in Seq(Chunk)
    BY <1>2, CallingStep
  <2>2. Others(c) \in Calling
    BY <1>2, MeasureFalls
  <2>3. \A out \in F[Others(c)] : call \o out \in Seq(Chunk)
    <3> HIDE DEF call
    <3> QED
      BY <2>1, <2>2, ConcatProperties
  <2>4. Returns(c, F) = {call \o out : out \in F[Others(c)]}
    BY <1>2 DEF Returns, Others
  <2> HIDE DEF call
  <2> QED
    BY <2>3, <2>4
<1>3. CASE c.rest # <<>> /\ ~ (Len(call) <= c.room) /\ (c.k = 1 \/ c.left = 0)
  <2>1. Returns(c, F) = {}
    BY <1>3 DEF Returns
  <2> QED
    BY <2>1
<1>4. CASE c.rest # <<>> /\ ~ (Len(call) <= c.room) /\ ~ (c.k = 1 \/ c.left = 0)
  <2>1. Returns(c, F) = F[Halved(c)]
    BY <1>4 DEF Returns, Halved
  <2>2. Halved(c) \in Calling
    BY <1>4, MeasureFalls
  <2> QED
    BY <2>1, <2>2
<1> QED
  BY <1>1, <1>2, <1>3, <1>4

LEMMA ReturnsUsesLess ==
    ASSUME NEW c \in Calling, NEW F, NEW G,
           \A d \in Calling : Measure(d) < Measure(c) => F[d] = G[d]
    PROVE  Returns(c, F) = Returns(c, G)
<1> DEFINE call == SubSeq(c.rest, 1, Min({c.k, Len(c.rest)}))
<1>1. CASE c.rest = <<>>
  BY <1>1 DEF Returns
<1>2. CASE c.rest # <<>> /\ Len(call) <= c.room
  <2>1. F[Others(c)] = G[Others(c)]
    BY <1>2, MeasureFalls
  <2>2. /\ Returns(c, F) = {call \o out : out \in F[Others(c)]}
        /\ Returns(c, G) = {call \o out : out \in G[Others(c)]}
    BY <1>2 DEF Returns, Others
  <2> HIDE DEF call
  <2> QED
    BY <2>1, <2>2
<1>3. CASE c.rest # <<>> /\ ~ (Len(call) <= c.room) /\ (c.k = 1 \/ c.left = 0)
  BY <1>3 DEF Returns
<1>4. CASE c.rest # <<>> /\ ~ (Len(call) <= c.room) /\ ~ (c.k = 1 \/ c.left = 0)
  <2>1. Returns(c, F) = F[Halved(c)] /\ Returns(c, G) = G[Halved(c)]
    BY <1>4 DEF Returns, Halved
  <2>2. F[Halved(c)] = G[Halved(c)]
    BY <1>4, MeasureFalls
  <2> QED
    BY <2>1, <2>2
<1> QED
  BY <1>1, <1>2, <1>3, <1>4

(* Calls satisfies its own definition: the recursion ends. *)
LEMMA CallsReturn == \A c \in Calling : Calls[c] = Returns(c, Calls)
<1> DEFINE V == SUBSET Seq(Chunk)
           mu == [c \in Calling |-> Measure(c)]
           D == [c \in Calling |-> [F \in [Calling -> V] |-> Returns(c, F)]]
<1>1. V # {}
  OBVIOUS
<1>2. mu \in [Calling -> Nat]
  BY MeasureFalls
<1>3. D \in [Calling -> [[Calling -> V] -> V]]
  BY ReturnsSequences
<1>4. UsesLess(Calling, V, mu, D)
  BY ReturnsUsesLess DEF UsesLess
<1>5. PICK F \in [Calling -> V] : \A c \in Calling : F[c] = D[c][F]
  <2>1. Solvable(Calling, V, D)
    <3> HIDE DEF V, mu, D
    <3> QED
      BY <1>1, <1>2, <1>3, <1>4, Recursion
  <2> QED
    BY <2>1 DEF Solvable
<1>6. \A c \in Calling : F[c] = Returns(c, F)
  BY <1>5
<1> DEFINE Body(H) == [c \in Calling |-> Returns(c, H)]
<1>7. F = Body(F)
  BY <1>6
<1>8. Calls = CHOOSE H : H = Body(H)
  BY DEF Calls, Returns
<1> HIDE DEF Body
<1>9. Calls = Body(Calls)
  BY <1>7, <1>8
<1> QED
  BY <1>9 DEF Body

(* However often the texts are halved, what comes back are the vectors of all of
   them in their order. *)
LEMMA EncodedIsWhole ==
    ASSUME NEW ids \in Seq(Chunk), NEW n \in Nat \ {0}, NEW room \in Rooms
    PROVE  Encoded(ids, n, room) \subseteq {ids}
<1> DEFINE Wrong == {c \in Calling : ~ (Calls[c] \subseteq {c.rest})}
           T == {Measure(c) : c \in Wrong}
<1>1. ASSUME Wrong # {}
      PROVE  FALSE
  <2>1. T \in SUBSET Nat /\ T # {}
    BY <1>1, MeasureFalls
  <2>2. PICK x \in T : \A y \in T : x <= y
    <3> HIDE DEF T
    <3> QED
      BY <2>1, LeastNatural
  <2>3. PICK c \in Calling : ~ (Calls[c] \subseteq {c.rest}) /\ Measure(c) = x
    BY <2>2
  <2>4. ASSUME NEW d \in Calling, Measure(d) < Measure(c)
        PROVE  Calls[d] \subseteq {d.rest}
    <3>1. Measure(d) \in Nat /\ Measure(c) \in Nat /\ ~ (Measure(c) <= Measure(d))
      BY <2>4, MeasureFalls
    <3>2. Measure(d) \notin T
      <4> HIDE DEF T
      <4> QED
        BY <2>2, <2>3, <3>1
    <3> QED
      BY <3>2
  <2>5. Calls[c] = Returns(c, Calls)
    BY CallsReturn
  <2> DEFINE call == SubSeq(c.rest, 1, Min({c.k, Len(c.rest)}))
  <2>6. CASE c.rest = <<>>
    BY <2>3, <2>5, <2>6 DEF Returns
  <2>7. CASE c.rest # <<>> /\ Len(call) <= c.room
    <3> DEFINE others == SubSeq(c.rest, Len(call) + 1, Len(c.rest))
    <3>1. Returns(c, Calls) = {call \o out : out \in Calls[Others(c)]}
      BY <2>7 DEF Returns, Others
    <3>2. Others(c).rest = others
      BY DEF Others, Calling
    <3>3. Calls[Others(c)] \subseteq {others}
      BY <2>4, <2>7, <3>2, MeasureFalls
    <3>4. call \o others = c.rest
      BY <2>7, CallingStep
    <3> HIDE DEF call, others
    <3>5. \A out \in Calls[Others(c)] : call \o out = c.rest
      BY <3>3, <3>4
    <3>6. Returns(c, Calls) \subseteq {c.rest}
      BY <3>1, <3>5
    <3> QED
      BY <2>3, <2>5, <3>6
  <2>8. CASE c.rest # <<>> /\ ~ (Len(call) <= c.room) /\ (c.k = 1 \/ c.left = 0)
    <3>1. Returns(c, Calls) = {}
      BY <2>8 DEF Returns
    <3> QED
      BY <2>3, <2>5, <3>1
  <2>9. CASE c.rest # <<>> /\ ~ (Len(call) <= c.room) /\ ~ (c.k = 1 \/ c.left = 0)
    <3>1. Returns(c, Calls) = Calls[Halved(c)]
      BY <2>9 DEF Returns, Halved
    <3>2. Calls[Halved(c)] \subseteq {Halved(c).rest}
      BY <2>4, <2>9, MeasureFalls
    <3>3. Halved(c).rest = c.rest
      BY DEF Halved, Calling
    <3> QED
      BY <2>3, <2>5, <3>1, <3>2, <3>3
  <2> QED
    BY <2>6, <2>7, <2>8, <2>9
<1> DEFINE first == [room |-> room, rest |-> ids, k |-> n, left |-> MaxHalvings]
<1>2. first \in Calling /\ first.rest = ids
  BY CheckpointsAssumption DEF Calling
<1>3. Calls[first] \subseteq {first.rest}
  BY <1>1, <1>2
<1> QED
  BY <1>2, <1>3 DEF Encoded

-----------------------------------------------------------------------------
(* Types of the checkpoints *)

LEMMA AtWork ==
    ASSUME HandlersInv, NEW w \in Thread, thread[w].at # "idle"
    PROVE  /\ w \in Busy /\ thread[w] \in Handlers
           /\ thread[w].ids \in Lists /\ thread[w].ids \in Seq(Chunk)
           /\ thread[w].size \in Sizes /\ thread[w].size \in Nat \ {0}
           /\ thread[w].batch \in Nat \ {0}
           /\ Batches(thread[w].ids, thread[w].size) \in Nat
           /\ 1 .. Batches(thread[w].ids, thread[w].size) \subseteq Index
           /\ thread[w].at # "look" => thread[w].batch \in Index
           /\ Current(w) \in Seq(Chunk)
<1>1. /\ w \in Busy /\ thread[w] \in Handlers
      /\ thread[w].ids \in Lists /\ thread[w].size \in Sizes
      /\ thread[w].batch \in Nat \ {0}
      /\ thread[w].at # "look" =>
            thread[w].batch \in 1 .. Batches(thread[w].ids, thread[w].size)
  BY DEF HandlersInv, Handlers, Fit, Busy
<1>2. thread[w].ids \in Seq(Chunk) /\ thread[w].size \in Nat \ {0}
  BY <1>1, ListsAreSequences, CheckpointsAssumption
<1>3. /\ Batches(thread[w].ids, thread[w].size) \in Nat
      /\ 1 .. Batches(thread[w].ids, thread[w].size) \subseteq Index
  BY <1>1, BatchesFit
<1>4. Current(w) \in Seq(Chunk)
  BY <1>1, <1>2, BatchIsPiece DEF Current
<1> QED
  BY <1>1, <1>2, <1>3, <1>4

LEMMA IdleIsFit == Idle \in Handlers /\ Fit(Idle) /\ Idle.at = "idle"
<1>1. <<>> \in Seq(Chunk)
  BY EmptySeq
<1> QED
  BY <1>1, CheckpointsAssumption DEF Idle, Handlers, Fit, Places

(* A step of one handler replaces its record by another. *)
LEMMA HandlersKept ==
    ASSUME HandlersInv, NEW w \in Thread, NEW h \in Handlers, Fit(h),
           thread' = [thread EXCEPT ![w] = h]
    PROVE  HandlersInv'
<1>1. \A u \in Thread : thread'[u] = IF u = w THEN h ELSE thread[u]
  BY DEF HandlersInv
<1>2. thread' \in [Thread -> Handlers]
  BY DEF HandlersInv
<1>3. \A u \in Thread : Fit(thread[u])
  BY DEF HandlersInv
<1>4. \A u \in Thread : Fit(thread'[u])
  BY <1>1, <1>3
<1>5. (\A u \in Thread : Fit(thread[u]))' <=> \A u \in Thread : Fit(thread'[u])
  BY DEF Fit
<1> QED
  BY <1>2, <1>4, <1>5 DEF HandlersInv

LEMMA BeginShape ==
    ASSUME HandlersInv, JobsInv, NEW w \in Thread, Begin(w)
    PROVE  \E job \in open, h \in Handlers :
              /\ thread' = [thread EXCEPT ![w] = h]
              /\ h = [at |-> "look", job |-> job, holds |-> TRUE, ids |-> chunks,
                      size |-> size, batch |-> 1, got |-> <<>>]
              /\ Fit(h)
<1>1. PICK job \in open :
         thread' = [thread EXCEPT ![w] = [at |-> "look", job |-> job, holds |-> TRUE,
                                          ids |-> chunks, size |-> size, batch |-> 1,
                                          got |-> <<>>]]
  BY DEF Begin
<1> DEFINE h == [at |-> "look", job |-> job, holds |-> TRUE, ids |-> chunks,
                 size |-> size, batch |-> 1, got |-> <<>>]
<1>2. h \in Handlers
  BY ListsAreSequences, EmptySeq DEF JobsInv, Handlers, Places
<1>3. Fit(h)
  BY DEF Fit, JobsInv
<1> QED
  BY <1>1, <1>2, <1>3

LEMMA LookShape ==
    ASSUME HandlersInv, NEW w \in Thread, Look(w)
    PROVE  LET i == thread[w].batch
           IN  /\ thread[w].at = "look" /\ i \in 1 .. Batches(thread[w].ids, thread[w].size)
               /\ i \in Index
               /\ \E h \in Handlers :
                    /\ Fit(h) /\ thread' = [thread EXCEPT ![w] = h]
                    /\ h.ids = thread[w].ids /\ h.size = thread[w].size
                    /\ h.job = thread[w].job /\ h.holds = thread[w].holds
                    /\ \/ h.at = "encode" /\ h.batch = i /\ row[i] = None
                       \/ h.at = "drop" /\ h.batch = i
                       \/ /\ h.at = "look" /\ h.batch = i + 1
                          /\ row[i] # None /\ Accepts(i, Current(w))
<1> DEFINE r == thread[w]
           i == r.batch
<1>1. /\ r.at = "look" /\ i <= Batches(r.ids, r.size)
      /\ thread' = [thread EXCEPT
            ![w] = IF row[i] = None THEN [r EXCEPT !.at = "encode"]
                   ELSE IF Accepts(i, Current(w)) THEN [r EXCEPT !.batch = i + 1]
                   ELSE [r EXCEPT !.at = "drop"]]
  BY DEF Look
<1>2. /\ r \in Handlers /\ r.ids \in Lists /\ i \in Nat \ {0}
      /\ Batches(r.ids, r.size) \in Nat /\ 1 .. Batches(r.ids, r.size) \subseteq Index
  BY <1>1, AtWork
<1> HIDE DEF r
<1>3. i \in 1 .. Batches(r.ids, r.size) /\ i \in Index
  BY <1>1, <1>2
<1> DEFINE e == [r EXCEPT !.at = "encode"]
           n == [r EXCEPT !.batch = i + 1]
           d == [r EXCEPT !.at = "drop"]
<1>4. /\ e \in Handlers /\ e.ids = r.ids /\ e.size = r.size /\ e.job = r.job
      /\ e.holds = r.holds /\ e.at = "encode" /\ e.batch = i /\ Fit(e)
  BY <1>2, <1>3 DEF Handlers, Places, Fit
<1>5. /\ d \in Handlers /\ d.ids = r.ids /\ d.size = r.size /\ d.job = r.job
      /\ d.holds = r.holds /\ d.at = "drop" /\ d.batch = i /\ Fit(d)
  BY <1>2, <1>3 DEF Handlers, Places, Fit
<1>6. /\ n \in Handlers /\ n.ids = r.ids /\ n.size = r.size /\ n.job = r.job
      /\ n.holds = r.holds /\ n.at = "look" /\ n.batch = i + 1 /\ Fit(n)
  BY <1>1, <1>2, <1>3 DEF Handlers, Places, Fit
<1> HIDE DEF e, n, d
<1>7. CASE row[i] = None
  <2>1. thread' = [thread EXCEPT ![w] = e]
    BY <1>1, <1>7 DEF e
  <2> QED
    BY <2>1, <1>1, <1>3, <1>4, <1>7 DEF r
<1>8. CASE row[i] # None /\ Accepts(i, Current(w))
  <2>1. thread' = [thread EXCEPT ![w] = n]
    BY <1>1, <1>8 DEF n
  <2> QED
    BY <2>1, <1>1, <1>3, <1>6, <1>8 DEF r
<1>9. CASE row[i] # None /\ ~ Accepts(i, Current(w))
  <2>1. thread' = [thread EXCEPT ![w] = d]
    BY <1>1, <1>9 DEF d
  <2> QED
    BY <2>1, <1>1, <1>3, <1>5 DEF r
<1> QED
  BY <1>7, <1>8, <1>9

(* The handler of w goes on as h, with its list, batch size and job. *)
Goes(w, h) ==
    /\ h \in Handlers /\ Fit(h) /\ thread' = [thread EXCEPT ![w] = h]
    /\ h.ids = thread[w].ids /\ h.size = thread[w].size /\ h.job = thread[w].job

LEMMA DropShape ==
    ASSUME HandlersInv, NEW w \in Thread, Drop(w)
    PROVE  LET i == thread[w].batch
           IN  /\ thread[w].at = "drop" /\ i \in Index /\ row' = [row EXCEPT ![i] = None]
               /\ \E h \in Handlers : Goes(w, h) /\ h.at = "encode" /\ h.batch = i
<1> DEFINE r == thread[w]
           h == [r EXCEPT !.at = "encode"]
<1>1. r.at = "drop" /\ row' = [row EXCEPT ![r.batch] = None]
  BY DEF Drop
<1>2. thread' = [thread EXCEPT ![w] = h]
  BY DEF Drop, At, HandlersInv
<1>3. r \in Handlers /\ r.ids \in Lists /\ r.batch \in Index /\ Fit(r)
  BY <1>1, AtWork DEF HandlersInv
<1> HIDE DEF r
<1>4. /\ h \in Handlers /\ Fit(h) /\ h.ids = r.ids /\ h.size = r.size /\ h.job = r.job
      /\ h.at = "encode" /\ h.batch = r.batch
  BY <1>1, <1>3 DEF Handlers, Places, Fit
<1> HIDE DEF h
<1> QED
  BY <1>1, <1>2, <1>3, <1>4 DEF Goes, r

LEMMA VectorsShape ==
    ASSUME HandlersInv, NEW w \in Thread, WriteVectors(w)
    PROVE  LET i == thread[w].batch
               ids == Current(w)
           IN  /\ thread[w].at = "encode" /\ i \in Index /\ ids \in Seq(Chunk)
               /\ bin' = [bin EXCEPT ![i] = [ids |-> ids, by |-> w]]
               /\ [ids |-> ids, by |-> w] \in Vectors
               /\ \E h \in Handlers : /\ Goes(w, h) /\ h.at = "side" /\ h.batch = i
                                      /\ h.got = ids
<1>a. PICK room \in Rooms : \E out \in Encoded(Current(w), thread[w].size, room) :
         /\ bin' = [bin EXCEPT ![thread[w].batch] = [ids |-> out, by |-> w]]
         /\ thread' = [thread EXCEPT ![w].at = "side", ![w].got = out]
  BY DEF WriteVectors
<1>1. PICK out \in Encoded(Current(w), thread[w].size, room) :
         /\ bin' = [bin EXCEPT ![thread[w].batch] = [ids |-> out, by |-> w]]
         /\ thread' = [thread EXCEPT ![w].at = "side", ![w].got = out]
  BY <1>a
<1>2. thread[w].at = "encode"
  BY DEF WriteVectors
<1>3. /\ thread[w] \in Handlers /\ thread[w].batch \in Index /\ Current(w) \in Seq(Chunk)
      /\ thread[w].size \in Nat \ {0} /\ Fit(thread[w])
  BY <1>2, AtWork DEF HandlersInv
<1>4. out = Current(w)
  <2>1. Encoded(Current(w), thread[w].size, room) \subseteq {Current(w)}
    BY <1>3, EncodedIsWhole
  <2> QED
    BY <1>1, <2>1
<1> DEFINE r == thread[w]
           h == [r EXCEPT !.at = "side", !.got = out]
<1>5. thread' = [thread EXCEPT ![w] = h]
  BY <1>1 DEF HandlersInv
<1> HIDE DEF r
<1>6. /\ h \in Handlers /\ Fit(h) /\ h.ids = r.ids /\ h.size = r.size /\ h.job = r.job
      /\ h.at = "side" /\ h.batch = r.batch /\ h.got = out
  BY <1>2, <1>3, <1>4 DEF Handlers, Places, Fit, r
<1> HIDE DEF h
<1>7. [ids |-> Current(w), by |-> w] \in Vectors
  BY <1>3 DEF Vectors
<1> QED
  BY <1>1, <1>2, <1>3, <1>4, <1>5, <1>6, <1>7 DEF Goes, r

LEMMA SidecarShape ==
    ASSUME HandlersInv, NEW w \in Thread, WriteSidecar(w)
    PROVE  LET i == thread[w].batch
               s == [ids |-> Current(w), of |-> [ids |-> thread[w].got, by |-> w]]
           IN  /\ thread[w].at = "side" /\ i \in Index /\ s \in Sidecars
               /\ side' = [side EXCEPT ![i] = s]
               /\ \E h \in Handlers : Goes(w, h) /\ h.at = "row" /\ h.batch = i
<1> DEFINE r == thread[w]
           h == [r EXCEPT !.at = "row", !.got = <<>>]
           s == [ids |-> Current(w), of |-> [ids |-> r.got, by |-> w]]
<1>1. r.at = "side" /\ side' = [side EXCEPT ![r.batch] = s]
  BY DEF WriteSidecar
<1>2. thread' = [thread EXCEPT ![w] = h]
  BY DEF WriteSidecar, HandlersInv
<1>3. r \in Handlers /\ r.batch \in Index /\ Current(w) \in Seq(Chunk) /\ Fit(r)
  BY <1>1, AtWork DEF HandlersInv
<1>4. s \in Sidecars
  BY <1>3 DEF Sidecars, Vectors, Handlers
<1> HIDE DEF r
<1>5. <<>> \in Seq(Chunk)
  BY EmptySeq
<1>6. /\ h \in Handlers /\ Fit(h) /\ h.ids = r.ids /\ h.size = r.size /\ h.job = r.job
      /\ h.at = "row" /\ h.batch = r.batch
  BY <1>1, <1>3, <1>5 DEF Handlers, Places, Fit
<1> HIDE DEF h
<1> QED
  BY <1>1, <1>2, <1>3, <1>4, <1>6 DEF Goes, r

LEMMA RowShape ==
    ASSUME HandlersInv, NEW w \in Thread, InsertRow(w)
    PROVE  LET i == thread[w].batch
           IN  /\ thread[w].at = "row" /\ i \in Index /\ Current(w) \in Seq(Chunk)
               /\ row' = [row EXCEPT ![i] = IF row[i] = None THEN Current(w) ELSE row[i]]
               /\ \E h \in Handlers :
                    /\ Fit(h) /\ thread' = [thread EXCEPT ![w] = h]
                    /\ \/ h.at = "idle"
                       \/ Goes(w, h) /\ h.at = "look" /\ h.batch = i + 1
<1> DEFINE r == thread[w]
           h == [r EXCEPT !.batch = r.batch + 1, !.at = "look"]
<1>1. r.at = "row"
  BY DEF InsertRow
<1>2. row' = [row EXCEPT ![r.batch] = IF row[r.batch] = None THEN Current(w) ELSE row[r.batch]]
  BY DEF InsertRow
<1>3. \/ thread' = [thread EXCEPT ![w] = h]
      \/ thread' = [thread EXCEPT ![w] = Idle]
  BY DEF InsertRow, Leave, HandlersInv
<1>4. /\ r \in Handlers /\ r.batch \in Index /\ r.batch \in Nat \ {0} /\ Current(w) \in Seq(Chunk)
      /\ Fit(r)
  BY <1>1, AtWork DEF HandlersInv
<1> HIDE DEF r
<1>a. /\ h.ids = r.ids /\ h.size = r.size /\ h.job = r.job
      /\ h.at = "look" /\ h.batch = r.batch + 1
  BY <1>4 DEF Handlers
<1>b. r.batch + 1 \in Nat \ {0}
  BY <1>4
<1>c. h \in Handlers
  BY <1>4, <1>b DEF Handlers, Places
<1>d. Fit(h)
  BY <1>1, <1>4, <1>a DEF Fit
<1>5. /\ h \in Handlers /\ Fit(h) /\ h.ids = r.ids /\ h.size = r.size /\ h.job = r.job
      /\ h.at = "look" /\ h.batch = r.batch + 1
  BY <1>a, <1>c, <1>d
<1> HIDE DEF h
<1>6. Idle \in Handlers /\ Fit(Idle) /\ Idle.at = "idle"
  BY IdleIsFit
<1>7. CASE thread' = [thread EXCEPT ![w] = h]
  BY <1>1, <1>2, <1>4, <1>5, <1>7 DEF Goes, r
<1>8. CASE thread' = [thread EXCEPT ![w] = Idle]
  BY <1>1, <1>2, <1>4, <1>6, <1>8 DEF r
<1> QED
  BY <1>3, <1>7, <1>8

LEMMA LeaseShape ==
    ASSUME HandlersInv, NEW w \in Thread, LeaseLost(w)
    PROVE  \E h \in Handlers : /\ Goes(w, h) /\ h.at = thread[w].at
                               /\ h.batch = thread[w].batch /\ h.got = thread[w].got
<1> DEFINE r == thread[w]
           h == [r EXCEPT !.holds = FALSE]
<1>1. thread' = [thread EXCEPT ![w] = h]
  BY DEF LeaseLost, HandlersInv
<1>2. r \in Handlers /\ Fit(r)
  BY DEF HandlersInv
<1> HIDE DEF r
<1>d. h \in Handlers
  BY <1>2 DEF Handlers
<1>e. /\ h.ids = r.ids /\ h.size = r.size /\ h.job = r.job
      /\ h.at = r.at /\ h.batch = r.batch /\ h.got = r.got
  BY <1>2 DEF Handlers
<1>3. /\ h \in Handlers /\ h.ids = r.ids /\ h.size = r.size /\ h.job = r.job
      /\ h.at = r.at /\ h.batch = r.batch /\ h.got = r.got
  BY <1>d, <1>e
<1>4. Fit(h)
  BY <1>2, <1>3 DEF Fit, Handlers
<1> HIDE DEF h
<1> QED
  BY <1>1, <1>3, <1>4 DEF Goes, r

-----------------------------------------------------------------------------
(* Steps of a handler *)

(* After a step of one handler the others are where they were, and it is the
   only one at work if it was. *)
LEMMA OthersStay ==
    ASSUME HandlersInv, NEW w \in Thread, NEW h, thread' = [thread EXCEPT ![w] = h]
    PROVE  /\ \A u \in Thread : thread'[u] = IF u = w THEN h ELSE thread[u]
           /\ Busy' \subseteq Busy \union {w}
           /\ h.at = "idle" => w \notin Busy'
<1>1. \A u \in Thread : thread'[u] = IF u = w THEN h ELSE thread[u]
  BY DEF HandlersInv
<1> QED
  BY <1>1 DEF Busy

LEMMA AloneKept ==
    ASSUME HandlersInv, AloneInv, NEW w \in Busy, NEW h, thread' = [thread EXCEPT ![w] = h],
           overlapped' = overlapped,
           (~overlapped /\ h.at # "idle") => AloneAt(w)'
    PROVE  AloneInv' /\ (~overlapped => Busy' \subseteq {w})
<1>1. w \in Thread
  BY DEF Busy
<1>2. Busy' \subseteq Busy \union {w} /\ (h.at = "idle" => w \notin Busy')
  BY <1>1, OthersStay
<1>3. ASSUME ~overlapped
      PROVE  Busy' \subseteq {w} /\ \A u \in Busy' : AloneAt(u)'
  <2>1. Busy' \subseteq {w}
    BY <1>2, <1>3 DEF AloneInv
  <2> QED
    BY <1>2, <1>3, <2>1
<1>4. ASSUME ~overlapped
      PROVE  (\A u, v \in Busy' : u = v) /\ \A u \in Busy' : AloneAt(u)'
  BY <1>3, <1>4
<1> QED
  BY <1>3, <1>4 DEF AloneInv

LEMMA DropKeeps ==
    ASSUME CheckpointsInv, NEW w \in Thread, Drop(w)
    PROVE  CheckpointsInv'
<1> USE DEF CheckpointsInv
<1> DEFINE i == thread[w].batch
<1>1. /\ thread[w].at = "drop" /\ i \in Index /\ row' = [row EXCEPT ![i] = None]
      /\ UNCHANGED <<run, bin, side, past, events>>
  BY DropShape DEF Drop
<1>2. PICK h \in Handlers : Goes(w, h) /\ h.at = "encode" /\ h.batch = i
  BY DropShape
<1> HIDE DEF i
<1>3. /\ thread' = [thread EXCEPT ![w] = h]
      /\ \A u \in Thread : thread'[u] = IF u = w THEN h ELSE thread[u]
  BY <1>2, OthersStay DEF Goes
<1>4. w \in Busy /\ thread[w].at = "drop"
  BY <1>1 DEF Busy
<1>5. Stored'
  BY <1>1 DEF Stored
<1>6. HandlersInv'
  BY <1>2, HandlersKept DEF Goes
<1>7. JobsInv'
  BY <1>1 DEF JobsInv, run, past
<1>8. OwnInv'
  BY <1>1, <1>2, <1>3 DEF OwnInv, Current, past
<1>9. FilesInv'
  BY <1>1, <1>2, <1>3 DEF FilesInv, Stored, past
<1>10. AloneInv' /\ (~overlapped => Busy' \subseteq {w})
  <2>1. ASSUME ~overlapped
        PROVE  AloneAt(w)'
    <3>1. AloneAt(w)
      BY <1>4, <2>1 DEF AloneInv
    <3>2. row'[i] = None /\ \A j \in Index : j # i => row'[j] = row[j]
      BY <1>1 DEF Stored
    <3>3. Index \subseteq Nat \ {0}
      BY IndexIsBounded
    <3>4. thread[w].batch = i /\ i \in Nat
      BY <1>1, <3>3 DEF i
    <3> QED
      BY <3>1, <3>2, <3>3, <3>4, <1>1, <1>2, <1>3 DEF AloneAt, Goes, run
  <2> QED
    BY <2>1, <1>1, <1>3, <1>4, AloneKept DEF past
<1>11. ReadableInv'
  <2> SUFFICES ASSUME ~overlapped, ~damaged
               PROVE  /\ \A j \in Written' : Accepts(j, row[j])'
                      /\ \A u \in Busy' : ReadableAt(u)'
                      /\ open' = {} => Loads'
    BY <1>1 DEF ReadableInv, past
  <2>1. \A j \in Written' : Accepts(j, row[j])'
    BY <1>1 DEF ReadableInv, Written, Accepts, Stored
  <2>2. \A u \in Busy' : ReadableAt(u)'
    BY <1>2, <1>3, <1>10 DEF ReadableAt
  <2>3. open' # {}
    BY <1>1, <1>4 DEF AloneInv, AloneAt, run
  <2> QED
    BY <2>1, <2>2, <2>3
<1>12. ServedIsOwn'
  BY <1>1 DEF ServedIsOwn, past
<1>13. RecordedInv'
  BY <1>1, <1>2, <1>3, <1>10 DEF RecordedInv, Written, Stored, past
<1> QED
  BY <1>5, <1>6, <1>7, <1>8, <1>9, <1>10, <1>11, <1>12, <1>13

LEMMA VectorsKeep ==
    ASSUME CheckpointsInv, NEW w \in Thread, WriteVectors(w)
    PROVE  CheckpointsInv'
<1> USE DEF CheckpointsInv
<1> DEFINE i == thread[w].batch
           ids == Current(w)
<1>1. /\ thread[w].at = "encode" /\ i \in Index /\ ids \in Seq(Chunk)
      /\ bin' = [bin EXCEPT ![i] = [ids |-> ids, by |-> w]]
      /\ [ids |-> ids, by |-> w] \in Vectors
      /\ UNCHANGED <<run, row, side, past, events>>
  BY VectorsShape DEF WriteVectors
<1>2. PICK h \in Handlers : Goes(w, h) /\ h.at = "side" /\ h.batch = i /\ h.got = ids
  BY VectorsShape
<1>2a. ids = Batch(h.ids, h.size, h.batch)
  BY <1>2 DEF Current, Goes
<1> HIDE DEF i, ids
<1>3. /\ thread' = [thread EXCEPT ![w] = h]
      /\ \A u \in Thread : thread'[u] = IF u = w THEN h ELSE thread[u]
  BY <1>2, OthersStay DEF Goes
<1>4. w \in Busy /\ thread[w].at = "encode"
  BY <1>1 DEF Busy
<1>5. Stored'
  BY <1>1 DEF Stored
<1>6. HandlersInv'
  BY <1>2, HandlersKept DEF Goes
<1>7. JobsInv'
  BY <1>1 DEF JobsInv, run, past
<1>8. OwnInv'
  BY <1>1, <1>2, <1>2a, <1>3 DEF OwnInv, Current, past
<1>9. FilesInv'
  <2>1. bin'[i] # None /\ \A j \in Index : j # i => bin'[j] = bin[j]
    BY <1>1, ListsAreSequences DEF Stored
  <2>2. \A u \in Thread : thread[u].at \in {"side", "row"} => thread[u].batch \in Index
    BY AtWork
  <2>3. \A j \in Index : row'[j] # None => side'[j] # None /\ (bin'[j] # None \/ damaged')
    BY <2>1, <1>1 DEF FilesInv, past
  <2>4. \A u \in Thread :
           /\ thread'[u].at \in {"side", "row"} => bin'[thread'[u].batch] # None \/ damaged'
           /\ thread'[u].at = "row" => side'[thread'[u].batch] # None
    BY <2>1, <2>2, <1>1, <1>2, <1>3 DEF FilesInv, past
  <2> QED
    BY <2>3, <2>4 DEF FilesInv
<1>10. AloneInv' /\ (~overlapped => Busy' \subseteq {w})
  <2>1. ASSUME ~overlapped
        PROVE  AloneAt(w)'
    <3>1. AloneAt(w)
      BY <1>4, <2>1 DEF AloneInv
    <3>2. thread[w].batch = i
      BY DEF i
    <3> QED
      BY <3>1, <3>2, <1>1, <1>2, <1>3 DEF AloneAt, Goes, run
  <2> QED
    BY <2>1, <1>1, <1>3, <1>4, AloneKept DEF past
<1>11. ReadableInv'
  <2> SUFFICES ASSUME ~overlapped, ~damaged
               PROVE  /\ \A j \in Written' : Accepts(j, row[j])'
                      /\ \A u \in Busy' : ReadableAt(u)'
                      /\ open' = {} => Loads'
    BY <1>1 DEF ReadableInv, past
  <2>0. row[i] = None
    <3>1. thread[w].batch = i
      BY DEF i
    <3> QED
      BY <3>1, <1>4 DEF AloneInv, AloneAt
  <2>1. \A j \in Written' : Accepts(j, row[j])'
    BY <2>0, <1>1 DEF ReadableInv, Written, Accepts, Stored
  <2>2. \A u \in Busy' : ReadableAt(u)'
    BY <1>1, <1>2, <1>3, <1>10 DEF ReadableAt, Stored
  <2>3. open' # {}
    BY <1>1, <1>4 DEF AloneInv, AloneAt, run
  <2> QED
    BY <2>1, <2>2, <2>3
<1>12. ServedIsOwn'
  BY <1>1 DEF ServedIsOwn, past
<1>13. RecordedInv'
  BY <1>1, <1>2, <1>3, <1>10 DEF RecordedInv, Written, past
<1> QED
  BY <1>5, <1>6, <1>7, <1>8, <1>9, <1>10, <1>11, <1>12, <1>13

LEMMA SidecarKeeps ==
    ASSUME CheckpointsInv, NEW w \in Thread, WriteSidecar(w)
    PROVE  CheckpointsInv'
<1> USE DEF CheckpointsInv
<1> DEFINE i == thread[w].batch
           ids == Current(w)
           s == [ids |-> ids, of |-> [ids |-> thread[w].got, by |-> w]]
<1>1. /\ thread[w].at = "side" /\ i \in Index /\ s \in Sidecars
      /\ side' = [side EXCEPT ![i] = s]
      /\ UNCHANGED <<run, row, bin, past, events>>
  BY SidecarShape DEF WriteSidecar
<1>2. PICK h \in Handlers : Goes(w, h) /\ h.at = "row" /\ h.batch = i
  BY SidecarShape
<1>2a. ids = Batch(h.ids, h.size, h.batch)
  BY <1>2 DEF Current, Goes
<1>2b. thread[w].got = ids
  BY <1>1 DEF OwnInv
<1>2c. s.ids = ids /\ s.of.ids = ids /\ s.of = [ids |-> thread[w].got, by |-> w]
  BY <1>2b
<1> HIDE DEF i, ids, s
<1>3. /\ thread' = [thread EXCEPT ![w] = h]
      /\ \A u \in Thread : thread'[u] = IF u = w THEN h ELSE thread[u]
  BY <1>2, OthersStay DEF Goes
<1>4. w \in Busy /\ thread[w].at = "side" /\ thread[w].batch = i
  BY <1>1 DEF Busy, i
<1>5. Stored'
  BY <1>1 DEF Stored
<1>6. HandlersInv'
  BY <1>2, HandlersKept DEF Goes
<1>7. JobsInv'
  BY <1>1 DEF JobsInv, run, past
<1>a. side'[i] = s /\ s # None /\ \A j \in Index : j # i => side'[j] = side[j]
  BY <1>1, ListsAreSequences DEF Stored
<1>8. OwnInv'
  BY <1>a, <1>1, <1>2, <1>2c, <1>3 DEF OwnInv, Current
<1>9. FilesInv'
  <2>2. \A u \in Thread : thread[u].at \in {"side", "row"} => thread[u].batch \in Index
    BY AtWork
  <2>3. \A j \in Index : row'[j] # None => side'[j] # None /\ (bin'[j] # None \/ damaged')
    BY <1>a, <1>1 DEF FilesInv, past
  <2>4. \A u \in Thread :
           /\ thread'[u].at \in {"side", "row"} => bin'[thread'[u].batch] # None \/ damaged'
           /\ thread'[u].at = "row" => side'[thread'[u].batch] # None
    BY <1>a, <2>2, <1>1, <1>2, <1>3, <1>4 DEF FilesInv, past
  <2> QED
    BY <2>3, <2>4 DEF FilesInv
<1>10. AloneInv' /\ (~overlapped => Busy' \subseteq {w})
  <2>1. ASSUME ~overlapped
        PROVE  AloneAt(w)'
    <3>1. AloneAt(w)
      BY <1>4, <2>1 DEF AloneInv
    <3> QED
      BY <3>1, <1>1, <1>2, <1>3, <1>4 DEF AloneAt, Goes, run
  <2> QED
    BY <2>1, <1>1, <1>3, <1>4, AloneKept DEF past
<1>11. ReadableInv'
  <2> SUFFICES ASSUME ~overlapped, ~damaged
               PROVE  /\ \A j \in Written' : Accepts(j, row[j])'
                      /\ \A u \in Busy' : ReadableAt(u)'
                      /\ open' = {} => Loads'
    BY <1>1 DEF ReadableInv, past
  <2>0. row[i] = None
    BY <1>4 DEF AloneInv, AloneAt
  <2>1. \A j \in Written' : Accepts(j, row[j])'
    BY <2>0, <1>1, <1>a DEF ReadableInv, Written, Accepts
  <2>2. \A u \in Busy' : ReadableAt(u)'
    <3>1. bin[i] = [ids |-> thread[w].got, by |-> w]
      BY <1>4 DEF ReadableInv, ReadableAt
    <3>2. bin[i] # None
      BY <1>4 DEF FilesInv
    <3>3. Accepts(h.batch, Batch(h.ids, h.size, h.batch))'
      BY <3>1, <3>2, <1>a, <1>1, <1>2, <1>2a, <1>2c DEF Accepts
    <3> QED
      BY <3>3, <1>2, <1>3, <1>10 DEF ReadableAt, Current, Accepts
  <2>3. open' # {}
    BY <1>1, <1>4 DEF AloneInv, AloneAt, run
  <2> QED
    BY <2>1, <2>2, <2>3
<1>12. ServedIsOwn'
  BY <1>1 DEF ServedIsOwn, past
<1>13. RecordedInv'
  <2> SUFFICES ASSUME ~overlapped
               PROVE  /\ \A j \in Written' : side'[j].ids = row'[j]
                      /\ \A u \in Busy' :
                            thread'[u].at = "row" => side'[thread'[u].batch].ids = Current(u)'
    BY <1>1 DEF RecordedInv, past
  <2>1. row[i] = None
    BY <1>4 DEF AloneInv, AloneAt
  <2>2. \A j \in Written' : side'[j].ids = row'[j]
    BY <2>1, <1>a, <1>1 DEF RecordedInv, Written
  <2>3. side'[h.batch].ids = Batch(h.ids, h.size, h.batch)
    BY <1>a, <1>2, <1>2a, <1>2c
  <2> QED
    BY <2>2, <2>3, <1>2, <1>3, <1>10 DEF Current
<1> QED
  BY <1>5, <1>6, <1>7, <1>8, <1>9, <1>10, <1>11, <1>12, <1>13

LEMMA RowKeeps ==
    ASSUME CheckpointsInv, NEW w \in Thread, InsertRow(w)
    PROVE  CheckpointsInv'
<1> USE DEF CheckpointsInv
<1> DEFINE i == thread[w].batch
           ids == Current(w)
<1>1. /\ thread[w].at = "row" /\ i \in Index /\ ids \in Seq(Chunk)
      /\ row' = [row EXCEPT ![i] = IF row[i] = None THEN ids ELSE row[i]]
      /\ UNCHANGED <<run, bin, side, past, events>>
  BY RowShape DEF InsertRow
<1>2. PICK h \in Handlers :
         /\ Fit(h) /\ thread' = [thread EXCEPT ![w] = h]
         /\ \/ h.at = "idle"
            \/ Goes(w, h) /\ h.at = "look" /\ h.batch = i + 1
  BY RowShape
<1>2a. ids = Batch(thread[w].ids, thread[w].size, i)
  BY DEF Current
<1>2b. thread[w].batch = i
  OBVIOUS
<1> HIDE DEF i, ids
<1>3. \A u \in Thread : thread'[u] = IF u = w THEN h ELSE thread[u]
  BY <1>2 DEF HandlersInv
<1>4. w \in Busy /\ thread[w].at = "row"
  BY <1>1 DEF Busy
<1>a. /\ row[i] = None => row'[i] = ids
      /\ row[i] # None => row'[i] = row[i]
      /\ \A j \in Index : j # i => row'[j] = row[j]
  BY <1>1 DEF Stored
<1>5. Stored'
  BY <1>1 DEF Stored
<1>6. HandlersInv'
  BY <1>2, HandlersKept
<1>7. JobsInv'
  BY <1>1 DEF JobsInv, run, past
<1>8. OwnInv'
  BY <1>1, <1>2, <1>3 DEF OwnInv, Current, past
<1>9. FilesInv'
  <2>1. side[i] # None /\ (bin[i] # None \/ damaged)
    BY <1>2b, <1>4 DEF FilesInv
  <2>2. \A j \in Index : row'[j] # None => side'[j] # None /\ (bin'[j] # None \/ damaged')
    BY <2>1, <1>a, <1>1 DEF FilesInv, past
  <2>3. \A u \in Thread :
           /\ thread'[u].at \in {"side", "row"} => bin'[thread'[u].batch] # None \/ damaged'
           /\ thread'[u].at = "row" => side'[thread'[u].batch] # None
    BY <1>1, <1>2, <1>3 DEF FilesInv, past
  <2> QED
    BY <2>2, <2>3 DEF FilesInv
<1>10. AloneInv' /\ (~overlapped => Busy' \subseteq {w})
  <2>1. ASSUME ~overlapped, h.at # "idle"
        PROVE  AloneAt(w)'
    <3>1. AloneAt(w)
      BY <1>4, <2>1 DEF AloneInv
    <3>2. Goes(w, h) /\ h.at = "look" /\ h.batch = i + 1
      BY <1>2, <2>1
    <3>3. Index \subseteq Nat \ {0}
      BY IndexIsBounded
    <3>4. row'[i] = ids
      BY <3>1, <1>4, <1>2b, <1>a DEF AloneAt
    <3>5. ASSUME NEW j \in Index, j < i + 1
          PROVE  row'[j] = Batch(h.ids, h.size, j)
      <4>1. j = i \/ j < i
        BY <3>3, <3>5, <1>1
      <4>2. h.ids = thread[w].ids /\ h.size = thread[w].size
        BY <3>2 DEF Goes
      <4>3. CASE j = i
        BY <4>2, <4>3, <3>4, <1>2a
      <4>4. CASE j < i
        <5>1. j # i
          BY <4>4, <3>3, <1>1
        <5> QED
          BY <5>1, <4>2, <4>4, <3>1, <1>2b, <1>a DEF AloneAt
      <4> QED
        BY <4>1, <4>3, <4>4
    <3> QED
      BY <3>1, <3>2, <3>5, <1>1, <1>3 DEF AloneAt, Goes, run
  <2> QED
    BY <2>1, <1>1, <1>2, <1>4, AloneKept DEF past
<1>11. ReadableInv'
  <2> SUFFICES ASSUME ~overlapped, ~damaged
               PROVE  /\ \A j \in Written' : Accepts(j, row[j])'
                      /\ \A u \in Busy' : ReadableAt(u)'
                      /\ open' = {} => Loads'
    BY <1>1 DEF ReadableInv, past
  <2>1. Accepts(i, ids)
    BY <1>2a, <1>2b, <1>4 DEF ReadableInv, ReadableAt, Current
  <2>2. \A j \in Written' : Accepts(j, row[j])'
    BY <2>1, <1>1, <1>a DEF ReadableInv, Written, Accepts
  <2>3. \A u \in Busy' : ReadableAt(u)'
    BY <1>2, <1>3, <1>10 DEF ReadableAt, Busy
  <2>4. open' # {}
    BY <1>1, <1>4 DEF AloneInv, AloneAt, run
  <2> QED
    BY <2>2, <2>3, <2>4
<1>12. ServedIsOwn'
  BY <1>1 DEF ServedIsOwn, past
<1>13. RecordedInv'
  <2> SUFFICES ASSUME ~overlapped
               PROVE  /\ \A j \in Written' : side'[j].ids = row'[j]
                      /\ \A u \in Busy' :
                            thread'[u].at = "row" => side'[thread'[u].batch].ids = Current(u)'
    BY <1>1 DEF RecordedInv, past
  <2>1. side[i].ids = ids
    BY <1>2a, <1>2b, <1>4 DEF RecordedInv, Current
  <2>2. \A j \in Written' : side'[j].ids = row'[j]
    BY <2>1, <1>a, <1>1 DEF RecordedInv, Written
  <2> QED
    BY <2>2, <1>2, <1>3, <1>10 DEF Busy
<1> QED
  BY <1>5, <1>6, <1>7, <1>8, <1>9, <1>10, <1>11, <1>12, <1>13

(* A step that leaves the disk and the run as they are. *)
LEMMA ThreadStepKeeps ==
    ASSUME CheckpointsInv, NEW w \in Busy, NEW h \in Handlers, Fit(h),
           thread' = [thread EXCEPT ![w] = h], UNCHANGED <<disk, run, past>>,
           h.at = "side" => h.got = Batch(h.ids, h.size, h.batch),
           h.at \in {"side", "row"} =>
              /\ h.at = thread[w].at /\ h.batch = thread[w].batch
              /\ h.ids = thread[w].ids /\ h.size = thread[w].size,
           (~overlapped /\ h.at # "idle") => AloneAt(w)',
           (~overlapped /\ ~damaged /\ h.at # "idle") => ReadableAt(w)'
    PROVE  CheckpointsInv'
<1> USE DEF CheckpointsInv
<1>1. w \in Thread /\ UNCHANGED <<row, bin, side, chunks, size, open, keys, served, overlapped,
                                  damaged>>
  BY DEF Busy, disk, run, past
<1>3. \A u \in Thread : thread'[u] = IF u = w THEN h ELSE thread[u]
  BY <1>1 DEF HandlersInv
<1>5. Stored'
  BY <1>1 DEF Stored
<1>6. HandlersInv'
  BY <1>1, HandlersKept
<1>7. JobsInv'
  BY <1>1 DEF JobsInv
<1>8. OwnInv'
  BY <1>1, <1>3 DEF OwnInv, Current
<1>9. FilesInv'
  BY <1>1, <1>3 DEF FilesInv
<1>10. AloneInv' /\ (~overlapped => Busy' \subseteq {w})
  BY <1>1, AloneKept
<1>11. ReadableInv'
  <2> SUFFICES ASSUME ~overlapped, ~damaged
               PROVE  /\ \A j \in Written' : Accepts(j, row[j])'
                      /\ \A u \in Busy' : ReadableAt(u)'
                      /\ open' = {} => Loads'
    BY <1>1 DEF ReadableInv
  <2>1. \A j \in Written' : Accepts(j, row[j])'
    BY <1>1 DEF ReadableInv, Written, Accepts
  <2>2. \A u \in Busy' : ReadableAt(u)'
    BY <1>3, <1>10 DEF Busy
  <2>3. open' = {} => Loads'
    BY <1>1 DEF ReadableInv, Loads, Written, Accepts
  <2> QED
    BY <2>1, <2>2, <2>3
<1>12. ServedIsOwn'
  BY <1>1 DEF ServedIsOwn
<1>13. RecordedInv'
  <2> SUFFICES ASSUME ~overlapped
               PROVE  /\ \A j \in Written' : side'[j].ids = row'[j]
                      /\ \A u \in Busy' :
                            thread'[u].at = "row" => side'[thread'[u].batch].ids = Current(u)'
    BY <1>1 DEF RecordedInv
  <2>1. \A j \in Written' : side'[j].ids = row'[j]
    BY <1>1 DEF RecordedInv, Written
  <2> QED
    BY <2>1, <1>1, <1>3, <1>10 DEF RecordedInv, Current
<1> QED
  BY <1>5, <1>6, <1>7, <1>8, <1>9, <1>10, <1>11, <1>12, <1>13

LEMMA FailKeeps ==
    ASSUME CheckpointsInv, NEW w \in Thread, Fail(w)
    PROVE  CheckpointsInv'
<1>1. /\ w \in Busy /\ thread' = [thread EXCEPT ![w] = Idle]
      /\ UNCHANGED <<disk, run, past>>
  BY DEF Fail, Leave, Busy
<1> QED
  BY <1>1, IdleIsFit, ThreadStepKeeps

LEMMA LookKeeps ==
    ASSUME CheckpointsInv, NEW w \in Thread, Look(w)
    PROVE  CheckpointsInv'
<1> USE DEF CheckpointsInv
<1> DEFINE i == thread[w].batch
<1>1. thread[w].at = "look" /\ i \in Index /\ UNCHANGED <<disk, run, past>> /\ w \in Busy
  BY LookShape DEF Look, Busy
<1>2. PICK h \in Handlers :
         /\ Fit(h) /\ thread' = [thread EXCEPT ![w] = h]
         /\ h.ids = thread[w].ids /\ h.size = thread[w].size
         /\ h.job = thread[w].job /\ h.holds = thread[w].holds
         /\ \/ h.at = "encode" /\ h.batch = i /\ row[i] = None
            \/ h.at = "drop" /\ h.batch = i
            \/ /\ h.at = "look" /\ h.batch = i + 1
               /\ row[i] # None /\ Accepts(i, Current(w))
  BY LookShape
<1>3. thread[w].batch = i /\ Current(w) = Batch(h.ids, h.size, i)
  BY <1>2 DEF Current
<1>4. i \in Nat /\ Index \subseteq Nat \ {0}
  BY <1>1, IndexIsBounded
<1> HIDE DEF i
<1>5. \A u \in Thread : thread'[u] = IF u = w THEN h ELSE thread[u]
  BY <1>2 DEF HandlersInv
<1>6. ASSUME ~overlapped
      PROVE  AloneAt(w)'
  <2>1. AloneAt(w)
    BY <1>1, <1>6 DEF AloneInv
  <2>2. ASSUME h.at = "look"
        PROVE  row[i] = Batch(h.ids, h.size, i)
    <3>0. row[i] # None /\ Accepts(i, Current(w))
      BY <1>2, <2>2
    <3>1. side[i].ids = Batch(h.ids, h.size, i)
      BY <3>0, <1>3 DEF Accepts
    <3> QED
      BY <3>0, <3>1, <1>1, <1>6 DEF RecordedInv, Written
  <2> QED
    BY <2>1, <2>2, <1>1, <1>2, <1>3, <1>4, <1>5 DEF AloneAt, run, disk
<1>7. ~overlapped /\ ~damaged => ReadableAt(w)'
  BY <1>2, <1>5 DEF ReadableAt
<1> QED
  BY <1>1, <1>2, <1>6, <1>7, ThreadStepKeeps

LEMMA LeaseKeeps ==
    ASSUME CheckpointsInv, NEW w \in Thread, LeaseLost(w)
    PROVE  CheckpointsInv'
<1> USE DEF CheckpointsInv
<1>1. w \in Busy /\ UNCHANGED <<disk, run, past>>
  BY DEF LeaseLost, HandlersInv, Fit, Busy
<1>2. PICK h \in Handlers : /\ Goes(w, h) /\ h.at = thread[w].at
                            /\ h.batch = thread[w].batch /\ h.got = thread[w].got
  BY LeaseShape
<1>3. \A u \in Thread : thread'[u] = IF u = w THEN h ELSE thread[u]
  BY <1>2 DEF HandlersInv, Goes
<1>4. w \in Thread
  BY DEF Busy
<1>5. h.at = "side" => h.got = Batch(h.ids, h.size, h.batch)
  BY <1>2 DEF OwnInv, Current, Goes
<1>6. ~overlapped => AloneAt(w)'
  <2> SUFFICES ASSUME ~overlapped
               PROVE  AloneAt(w)'
    OBVIOUS
  <2>1. AloneAt(w)
    BY <1>1 DEF AloneInv
  <2> QED
    BY <2>1, <1>1, <1>2, <1>3, <1>4 DEF AloneAt, Goes, run, disk
<1>7. ~overlapped /\ ~damaged => ReadableAt(w)'
  <2> SUFFICES ASSUME ~overlapped, ~damaged
               PROVE  ReadableAt(w)'
    OBVIOUS
  <2>1. ReadableAt(w)
    BY <1>1 DEF ReadableInv
  <2> QED
    BY <2>1, <1>1, <1>2, <1>3, <1>4 DEF ReadableAt, Goes, disk, Accepts, Current
<1> QED
  BY <1>1, <1>2, <1>5, <1>6, <1>7, ThreadStepKeeps DEF Goes

(* All batches of a list recorded: every chunk of the list has a vector. *)
LEMMA RecordedCovers ==
    ASSUME Stored, NEW l \in Lists, NEW n \in Sizes,
           \A i \in 1 .. Batches(l, n) : row[i] = Batch(l, n, i)
    PROVE  Written # {} /\ ToSet(l) \subseteq UNION {ToSet(row[i]) : i \in Written}
<1>1. l \in Seq(Chunk) /\ n \in Nat \ {0} /\ ToSet(l) # {}
  BY ListsAreSequences, CheckpointsAssumption
<1>2. Batches(l, n) \in Nat /\ 1 .. Batches(l, n) \subseteq Index
  BY BatchesFit
<1>3. \A i \in 1 .. Batches(l, n) : i \in Written
  <2> SUFFICES ASSUME NEW i \in 1 .. Batches(l, n)
               PROVE  i \in Written
    OBVIOUS
  <2>1. Batch(l, n, i) \in Seq(Chunk)
    BY <1>1, <1>2, BatchIsPiece
  <2> QED
    BY <2>1, <1>2, ListsAreSequences DEF Written
<1>4. \A c \in ToSet(l) : \E i \in Written : c \in ToSet(row[i])
  BY <1>3, BatchesCover
<1> QED
  BY <1>1, <1>4

LEMMA FinishKeeps ==
    ASSUME CheckpointsInv, NEW w \in Thread, Finish(w)
    PROVE  CheckpointsInv'
<1> USE DEF CheckpointsInv
<1>1. /\ thread[w].at = "look" /\ w \in Busy
      /\ thread[w].batch > Batches(thread[w].ids, thread[w].size)
      /\ open' \in {open, open \ {thread[w].job}}
      /\ thread' = [thread EXCEPT ![w] = Idle]
      /\ UNCHANGED <<chunks, size, keys, row, bin, side, served, overlapped, damaged>>
  BY DEF Finish, Leave, Busy, disk, past
<1>2. Idle \in Handlers /\ Fit(Idle) /\ Idle.at = "idle"
  BY IdleIsFit
<1>3. \A u \in Thread : thread'[u] = IF u = w THEN Idle ELSE thread[u]
  BY <1>1 DEF HandlersInv
<1>5. Stored'
  BY <1>1 DEF Stored
<1>6. HandlersInv'
  BY <1>1, <1>2, HandlersKept
<1>7. JobsInv'
  BY <1>1 DEF JobsInv
<1>8. OwnInv'
  BY <1>1, <1>2, <1>3 DEF OwnInv, Current
<1>9. FilesInv'
  BY <1>1, <1>2, <1>3 DEF FilesInv
<1>10. AloneInv' /\ (~overlapped => Busy' \subseteq {w})
  BY <1>1, <1>2, AloneKept
<1>a. ~overlapped => Busy' = {}
  BY <1>2, <1>3, <1>10 DEF Busy
<1>11. ReadableInv'
  <2> SUFFICES ASSUME ~overlapped, ~damaged
               PROVE  /\ \A j \in Written' : Accepts(j, row[j])'
                      /\ open' = {} => Loads'
    BY <1>1, <1>a DEF ReadableInv
  <2>1. \A j \in Written' : Accepts(j, row[j])'
    BY <1>1 DEF ReadableInv, Written, Accepts
  <2>2. ASSUME open' = {}
        PROVE  Loads'
    <3>1. AloneAt(w)
      BY <1>1 DEF AloneInv
    <3>2. thread[w].ids = chunks
      BY <3>1, <2>2, <1>1 DEF AloneAt
    <3>3. /\ thread[w].size \in Sizes /\ chunks \in Lists /\ thread[w].batch \in Nat \ {0}
          /\ Batches(chunks, thread[w].size) \in Nat
          /\ 1 .. Batches(chunks, thread[w].size) \subseteq Index
      BY <3>2, <1>1, AtWork
    <3>4. ASSUME NEW i \in 1 .. Batches(chunks, thread[w].size)
          PROVE  row[i] = Batch(chunks, thread[w].size, i)
      <4>1. i \in Index /\ i < thread[w].batch
        BY <3>2, <3>3, <1>1
      <4> QED
        BY <4>1, <3>1, <3>2 DEF AloneAt
    <3>5. Written # {} /\ ToSet(chunks) \subseteq UNION {ToSet(row[i]) : i \in Written}
      BY <3>3, <3>4, RecordedCovers
    <3>6. Loads
      BY <3>5 DEF Loads, ReadableInv
    <3> QED
      BY <3>6, <1>1 DEF Loads, Written, Accepts
  <2> QED
    BY <2>1, <2>2
<1>12. ServedIsOwn'
  BY <1>1 DEF ServedIsOwn
<1>13. RecordedInv'
  BY <1>1, <1>a DEF RecordedInv, Written
<1> QED
  BY <1>5, <1>6, <1>7, <1>8, <1>9, <1>10, <1>11, <1>12, <1>13

LEMMA BeginKeeps ==
    ASSUME CheckpointsInv, NEW w \in Thread, Begin(w)
    PROVE  CheckpointsInv'
<1> USE DEF CheckpointsInv
<1>1. /\ thread[w].at = "idle" /\ overlapped' = (overlapped \/ Busy # {})
      /\ UNCHANGED <<chunks, size, open, keys, row, bin, side, served, damaged>>
  BY DEF Begin, run, disk
<1>2. PICK job \in open, h \in Handlers :
         /\ thread' = [thread EXCEPT ![w] = h]
         /\ h = [at |-> "look", job |-> job, holds |-> TRUE, ids |-> chunks,
                 size |-> size, batch |-> 1, got |-> <<>>]
         /\ Fit(h)
  BY BeginShape
<1>2a. h.at = "look" /\ h.job = job /\ h.ids = chunks /\ h.batch = 1
  BY <1>2
<1>3. \A u \in Thread : thread'[u] = IF u = w THEN h ELSE thread[u]
  BY <1>2 DEF HandlersInv
<1>4. ~overlapped' => ~overlapped /\ Busy = {} /\ Busy' = {w}
  BY <1>1, <1>2a, <1>3 DEF Busy
<1>5. Stored'
  BY <1>1 DEF Stored
<1>6. HandlersInv'
  BY <1>2, HandlersKept
<1>7. JobsInv'
  BY <1>1 DEF JobsInv
<1>8. OwnInv'
  BY <1>1, <1>2a, <1>3 DEF OwnInv, Current
<1>9. FilesInv'
  BY <1>1, <1>2a, <1>3 DEF FilesInv
<1>10. AloneInv'
  <2>1. \A i \in Index : ~ (i < 1)
    BY IndexIsBounded
  <2>a. thread'[w] = h /\ job \in open' /\ chunks' = chunks
    BY <1>1, <1>3
  <2>2. AloneAt(w)'
    BY <2>1, <2>a, <1>2a DEF AloneAt
  <2> QED
    BY <2>2, <1>4 DEF AloneInv
<1>11. ReadableInv'
  <2> SUFFICES ASSUME ~overlapped', ~damaged'
               PROVE  /\ \A j \in Written' : Accepts(j, row[j])'
                      /\ \A u \in Busy' : ReadableAt(u)'
                      /\ open' = {} => Loads'
    BY DEF ReadableInv
  <2>1. \A j \in Written' : Accepts(j, row[j])'
    BY <1>1, <1>4 DEF ReadableInv, Written, Accepts
  <2>2. \A u \in Busy' : ReadableAt(u)'
    BY <1>2a, <1>3, <1>4 DEF ReadableAt
  <2>3. open' # {}
    BY <1>1
  <2> QED
    BY <2>1, <2>2, <2>3
<1>12. ServedIsOwn'
  BY <1>1 DEF ServedIsOwn
<1>13. RecordedInv'
  BY <1>1, <1>2a, <1>3, <1>4 DEF RecordedInv, Written
<1> QED
  BY <1>5, <1>6, <1>7, <1>8, <1>9, <1>10, <1>11, <1>12, <1>13

-----------------------------------------------------------------------------
(* Steps of the run and of its surroundings *)

LEMMA IdleHandlers ==
    ASSUME HandlersInv, thread' = [w \in Thread |-> Idle]
    PROVE  HandlersInv' /\ Busy' = {} /\ \A w \in Thread : thread'[w].at = "idle"
<1>1. Idle \in Handlers /\ Fit(Idle) /\ Idle.at = "idle"
  BY IdleIsFit
<1>2. thread' \in [Thread -> Handlers] /\ \A w \in Thread : thread'[w] = Idle
  BY <1>1
<1>3. (\A w \in Thread : Fit(thread[w]))' <=> \A w \in Thread : Fit(thread'[w])
  BY DEF Fit
<1> QED
  BY <1>1, <1>2, <1>3 DEF HandlersInv, Busy

LEMMA CrashKeeps ==
    ASSUME CheckpointsInv, Crash
    PROVE  CheckpointsInv'
<1> USE DEF CheckpointsInv
<1>1. /\ thread' = [w \in Thread |-> Idle] /\ size' \in Sizes
      /\ UNCHANGED <<chunks, open, keys, row, bin, side, served, overlapped, damaged>>
  BY DEF Crash, disk, past
<1>2. HandlersInv' /\ Busy' = {} /\ \A w \in Thread : thread'[w].at = "idle"
  BY <1>1, IdleHandlers
<1>5. Stored'
  BY <1>1 DEF Stored
<1>7. JobsInv'
  BY <1>1 DEF JobsInv
<1>8. OwnInv'
  BY <1>1, <1>2 DEF OwnInv
<1>9. FilesInv'
  BY <1>1, <1>2 DEF FilesInv
<1>10. AloneInv'
  BY <1>2 DEF AloneInv
<1>11. ReadableInv'
  BY <1>1, <1>2 DEF ReadableInv, Written, Accepts, Loads
<1>12. ServedIsOwn'
  BY <1>1 DEF ServedIsOwn
<1>13. RecordedInv'
  BY <1>1, <1>2 DEF RecordedInv, Written
<1> QED
  BY <1>2, <1>5, <1>7, <1>8, <1>9, <1>10, <1>11, <1>12, <1>13

(* Nothing changes on the disk or in the handlers. *)
LEMMA StillHandlers ==
    ASSUME HandlersInv, UNCHANGED <<thread>>
    PROVE  HandlersInv' /\ Busy' = Busy
<1>1. (\A w \in Thread : Fit(thread[w]))' <=> \A w \in Thread : Fit(thread'[w])
  BY DEF Fit
<1> QED
  BY <1>1 DEF HandlersInv, Busy

LEMMA DamageKeeps ==
    ASSUME CheckpointsInv, Damage
    PROVE  CheckpointsInv'
<1> USE DEF CheckpointsInv
<1>1. /\ damaged' = TRUE
      /\ UNCHANGED <<chunks, size, open, keys, row, side, thread, served, overlapped>>
  BY DEF Damage, run
<1>2. PICK i \in Index : bin' = [bin EXCEPT ![i] = None]
  BY DEF Damage
<1>3. HandlersInv' /\ Busy' = Busy
  BY <1>1, StillHandlers
<1>5. Stored'
  BY <1>1, <1>2 DEF Stored
<1>7. JobsInv'
  BY <1>1 DEF JobsInv
<1>8. OwnInv'
  BY <1>1 DEF OwnInv, Current
<1>9. FilesInv'
  BY <1>1 DEF FilesInv
<1>10. AloneInv'
  BY <1>1, <1>3 DEF AloneInv, AloneAt
<1>11. ReadableInv'
  BY <1>1 DEF ReadableInv
<1>12. ServedIsOwn'
  BY <1>1 DEF ServedIsOwn
<1>13. RecordedInv'
  BY <1>1, <1>3 DEF RecordedInv, Written, Current
<1> QED
  BY <1>3, <1>5, <1>7, <1>8, <1>9, <1>10, <1>11, <1>12, <1>13

LEMMA RechunkKeeps ==
    ASSUME CheckpointsInv, Rechunk
    PROVE  CheckpointsInv'
<1> USE DEF CheckpointsInv
<1>1. UNCHANGED <<size, row, bin, side, thread, served, overlapped, damaged>>
  BY DEF Rechunk, disk, past
<1>2. PICK l \in Lists \ keys :
         chunks' = l /\ open' = open \union {l} /\ keys' = keys \union {l}
  BY DEF Rechunk
<1>3. HandlersInv' /\ Busy' = Busy
  BY <1>1, StillHandlers
<1>5. Stored'
  BY <1>1 DEF Stored
<1>7. JobsInv'
  BY <1>1, <1>2 DEF JobsInv
<1>8. OwnInv'
  BY <1>1 DEF OwnInv, Current
<1>9. FilesInv'
  BY <1>1 DEF FilesInv
<1>10. AloneInv'
  <2>1. \A w \in Busy : thread[w].job \in open => thread[w].job # l
    BY <1>2 DEF JobsInv
  <2>2. \A w \in Busy : AloneAt(w) => AloneAt(w)'
    BY <2>1, <1>1, <1>2 DEF AloneAt
  <2> QED
    BY <2>2, <1>1, <1>3 DEF AloneInv
<1>11. ReadableInv'
  <2> SUFFICES ASSUME ~overlapped, ~damaged
               PROVE  /\ \A j \in Written' : Accepts(j, row[j])'
                      /\ \A u \in Busy' : ReadableAt(u)'
    BY <1>1, <1>2 DEF ReadableInv
  <2>1. \A j \in Written' : Accepts(j, row[j])'
    BY <1>1 DEF ReadableInv, Written, Accepts
  <2>2. \A u \in Busy' : ReadableAt(u)'
    BY <1>1, <1>3 DEF ReadableInv, ReadableAt, Accepts, Current
  <2> QED
    BY <2>1, <2>2
<1>12. ServedIsOwn'
  BY <1>1 DEF ServedIsOwn
<1>13. RecordedInv'
  BY <1>1, <1>3 DEF RecordedInv, Written, Current
<1> QED
  BY <1>3, <1>5, <1>7, <1>8, <1>9, <1>10, <1>11, <1>12, <1>13

(* The vector found for a chunk is that chunk's: the last row that lists it is
   the list its file was encoded from. *)
LEMMA VectorIsOwn ==
    ASSUME Stored, OwnInv, Loads, NEW c \in ToSet(chunks)
    PROVE  Vector(c) = c
<1> DEFINE T == {i \in Written : c \in ToSet(row[i])}
<1>1. T \in SUBSET Nat /\ IsFiniteSet(T)
  <2>1. T \subseteq Index /\ Index \subseteq Nat /\ IsFiniteSet(Index)
    BY IndexIsBounded DEF Written
  <2> HIDE DEF T
  <2> QED
    BY <2>1, FS_Subset
<1>2. T # {}
  BY DEF Loads
<1>3. LastOf(c) \in T
  <2>1. LastOf(c) = Max(T)
    BY DEF LastOf
  <2> HIDE DEF T
  <2> QED
    BY <2>1, <1>1, <1>2, MaxIsGreatest
<1> DEFINE i == LastOf(c)
<1>4. i \in Index /\ i \in Written /\ c \in ToSet(row[i])
  BY <1>3 DEF Written
<1> HIDE DEF i
<1>5. bin[i].ids = row[i]
  BY <1>4 DEF Loads, Accepts, OwnInv
<1>6. \E k \in DOMAIN row[i] : row[i][k] = c
  BY <1>4 DEF ToSet
<1> DEFINE k == CHOOSE k \in DOMAIN row[i] : row[i][k] = c
<1>7. row[i][k] = c
  BY <1>6
<1>8. Vector(c) = bin[i].ids[k]
  BY DEF Vector, i
<1> QED
  BY <1>5, <1>7, <1>8

LEMMA PublishKeeps ==
    ASSUME CheckpointsInv, Publish
    PROVE  CheckpointsInv'
<1> USE DEF CheckpointsInv
<1>1. /\ Loads /\ served' = [c \in ToSet(chunks) |-> Vector(c)]
      /\ UNCHANGED <<chunks, size, open, keys, row, bin, side, thread, overlapped, damaged>>
  BY DEF Publish, disk
<1>3. HandlersInv' /\ Busy' = Busy
  BY <1>1, StillHandlers
<1>5. Stored'
  BY <1>1 DEF Stored
<1>7. JobsInv'
  BY <1>1 DEF JobsInv
<1>8. OwnInv'
  BY <1>1 DEF OwnInv, Current
<1>9. FilesInv'
  BY <1>1 DEF FilesInv
<1>10. AloneInv'
  BY <1>1, <1>3 DEF AloneInv, AloneAt
<1>11. ReadableInv'
  BY <1>1, <1>3 DEF ReadableInv, ReadableAt, Written, Accepts, Current, Loads
<1>12. ServedIsOwn'
  BY <1>1, VectorIsOwn DEF ServedIsOwn
<1>13. RecordedInv'
  BY <1>1, <1>3 DEF RecordedInv, Written, Current
<1> QED
  BY <1>3, <1>5, <1>7, <1>8, <1>9, <1>10, <1>11, <1>12, <1>13

LEMMA StillKeeps ==
    ASSUME CheckpointsInv, UNCHANGED <<run, disk, thread, past>>
    PROVE  CheckpointsInv'
<1> USE DEF CheckpointsInv
<1>1. UNCHANGED <<chunks, size, open, keys, row, bin, side, thread, served, overlapped,
                  damaged>>
  BY DEF run, disk, past
<1>3. HandlersInv' /\ Busy' = Busy
  BY <1>1, StillHandlers
<1>5. Stored'
  BY <1>1 DEF Stored
<1>7. JobsInv'
  BY <1>1 DEF JobsInv
<1>8. OwnInv'
  BY <1>1 DEF OwnInv, Current
<1>9. FilesInv'
  BY <1>1 DEF FilesInv
<1>10. AloneInv'
  BY <1>1, <1>3 DEF AloneInv, AloneAt
<1>11. ReadableInv'
  BY <1>1, <1>3 DEF ReadableInv, ReadableAt, Written, Accepts, Current, Loads
<1>12. ServedIsOwn'
  BY <1>1 DEF ServedIsOwn
<1>13. RecordedInv'
  BY <1>1, <1>3 DEF RecordedInv, Written, Current
<1> QED
  BY <1>3, <1>5, <1>7, <1>8, <1>9, <1>10, <1>11, <1>12, <1>13

LEMMA CheckpointsInvInit == CheckpointsInit => CheckpointsInv
<1> SUFFICES ASSUME CheckpointsInit
             PROVE  CheckpointsInv
  OBVIOUS
<1>1. /\ chunks = FirstList /\ size = FirstSize /\ open = {FirstList} /\ keys = {FirstList}
      /\ row = [i \in Index |-> None] /\ bin = [i \in Index |-> None]
      /\ side = [i \in Index |-> None] /\ thread = [w \in Thread |-> Idle]
      /\ served = <<>> /\ overlapped = FALSE
  BY DEF CheckpointsInit
<1>2. Idle \in Handlers /\ Fit(Idle) /\ Idle.at = "idle"
  BY IdleIsFit
<1>3. HandlersInv /\ Busy = {} /\ \A w \in Thread : thread[w].at = "idle"
  BY <1>1, <1>2 DEF HandlersInv, Busy
<1>4. Stored /\ Written = {}
  BY <1>1 DEF Stored, Written
<1>5. JobsInv
  BY <1>1, CheckpointsAssumption DEF JobsInv
<1>6. OwnInv /\ FilesInv
  BY <1>1, <1>3 DEF OwnInv, FilesInv
<1>7. AloneInv /\ RecordedInv
  BY <1>3, <1>4 DEF AloneInv, RecordedInv
<1>8. ReadableInv
  BY <1>1, <1>3, <1>4 DEF ReadableInv
<1>9. ServedIsOwn
  BY <1>1 DEF ServedIsOwn
<1> QED
  BY <1>3, <1>4, <1>5, <1>6, <1>7, <1>8, <1>9 DEF CheckpointsInv

LEMMA CheckpointsStep ==
    ASSUME CheckpointsInv, [Next]_vars
    PROVE  CheckpointsInv'
<1>1. CASE Works
  BY <1>1, BeginKeeps, LookKeeps, DropKeeps, VectorsKeep, FailKeeps, SidecarKeeps, RowKeeps,
     FinishKeeps, LeaseKeeps, PublishKeeps, RechunkKeeps DEF Works, Embeds
<1>2. CASE Dies
  BY <1>2, CrashKeeps DEF Dies
<1>3. CASE Decays
  BY <1>3, DamageKeeps DEF Decays
<1>4. CASE Start \/ Stop \/ Restore \/ Boot \/ UNCHANGED vars
  BY <1>4, StillKeeps DEF Start, Stop, Restore, Boot, vars, checkpointVars
<1>5. CASE BacksUp
  BY <1>5, StillKeeps DEF BacksUp, BackupBegin, BackupState, BackupIndex, BackupArchive,
     BackupArtifacts, BackupManifest, BackupBreaks, InBackup, checkpointVars
<1>6. CASE \E o \in Object :
              ArchiveSource(o) \/ RegisterSource(o) \/ RemoveRows(o) \/ UnlinkSource(o)
  BY <1>6, StillKeeps DEF ArchiveSource, RegisterSource, RemoveRows, UnlinkSource,
     checkpointVars
<1> QED
  BY <1>1, <1>2, <1>3, <1>4, <1>5, <1>6 DEF Next

(* What a step of the run does to the files and to the index: a file is only
   lost to the disk, and an index written stays written. *)
FilesStay ==
    /\ damaged => damaged'
    /\ served # <<>> => served' # <<>>
    /\ served' # served => served' # <<>>
    /\ \A i \in Index : /\ side[i] # None => side'[i] # None
                        /\ bin[i] # None => bin'[i] # None \/ damaged'

LEMMA FilesStayStill ==
    ASSUME UNCHANGED <<bin, side, damaged, served>>
    PROVE  FilesStay
BY DEF FilesStay

LEMMA WorkFilesStay ==
    ASSUME CheckpointsInv, Works
    PROVE  FilesStay
<1> USE DEF CheckpointsInv
<1>1. CASE \E w \in Thread : WriteVectors(w)
  <2>1. PICK w \in Thread : WriteVectors(w)
    BY <1>1
  <2>2. /\ thread[w].batch \in Index
        /\ bin' = [bin EXCEPT ![thread[w].batch] = [ids |-> Current(w), by |-> w]]
        /\ [ids |-> Current(w), by |-> w] \in Vectors
    BY <2>1, VectorsShape
  <2>3. UNCHANGED <<side, damaged, served>>
    BY <2>1 DEF WriteVectors, past
  <2> QED
    BY <2>2, <2>3, ListsAreSequences DEF FilesStay, Stored
<1>2. CASE \E w \in Thread : WriteSidecar(w)
  <2>1. PICK w \in Thread : WriteSidecar(w)
    BY <1>2
  <2> DEFINE s == [ids |-> Current(w), of |-> [ids |-> thread[w].got, by |-> w]]
  <2>2. thread[w].batch \in Index /\ side' = [side EXCEPT ![thread[w].batch] = s] /\ s \in Sidecars
    BY <2>1, SidecarShape
  <2>3. UNCHANGED <<bin, damaged, served>>
    BY <2>1 DEF WriteSidecar, past
  <2> HIDE DEF s
  <2> QED
    BY <2>2, <2>3, ListsAreSequences DEF FilesStay, Stored
<1>3. CASE Publish
  <2>1. /\ served' = [c \in ToSet(chunks) |-> Vector(c)] /\ UNCHANGED <<bin, side, damaged>>
    BY <1>3 DEF Publish, disk
  <2>2. ToSet(chunks) # {}
    BY ListsAreSequences DEF JobsInv
  <2>3. DOMAIN served' = ToSet(chunks)
    BY <2>1
  <2>4. DOMAIN <<>> = {}
    OBVIOUS
  <2>5. served' # <<>>
    BY <2>2, <2>3, <2>4
  <2> QED
    BY <2>1, <2>5 DEF FilesStay
<1>4. CASE Rechunk \/ \E w \in Thread : \/ Begin(w) \/ Look(w) \/ Drop(w) \/ Fail(w)
                                       \/ InsertRow(w) \/ Finish(w) \/ LeaseLost(w)
  <2>1. UNCHANGED <<bin, side, damaged, served>>
    BY <1>4 DEF Rechunk, Begin, Look, Drop, Fail, InsertRow, Finish, LeaseLost, disk, past
  <2> QED
    BY <2>1, FilesStayStill
<1> QED
  BY <1>1, <1>2, <1>3, <1>4 DEF Works, Embeds

LEMMA StepFilesStay ==
    ASSUME CheckpointsInv, [Next]_vars
    PROVE  FilesStay
<1>1. CASE Works
  BY <1>1, WorkFilesStay
<1>2. CASE Dies
  BY <1>2, FilesStayStill DEF Dies, Crash, disk, past
<1>3. CASE Decays
  BY <1>3 DEF Decays, Damage, FilesStay
<1>4. CASE Start \/ Stop \/ Restore \/ Boot \/ UNCHANGED vars
  BY <1>4, FilesStayStill DEF Start, Stop, Restore, Boot, vars, checkpointVars, disk, past
<1>5. CASE BacksUp
  BY <1>5, FilesStayStill DEF BacksUp, BackupBegin, BackupState, BackupIndex, BackupArchive,
     BackupArtifacts, BackupManifest, BackupBreaks, InBackup, checkpointVars, disk, past
<1>6. CASE \E o \in Object :
              ArchiveSource(o) \/ RegisterSource(o) \/ RemoveRows(o) \/ UnlinkSource(o)
  BY <1>6, FilesStayStill DEF ArchiveSource, RegisterSource, RemoveRows, UnlinkSource,
     checkpointVars, disk, past
<1> QED
  BY <1>1, <1>2, <1>3, <1>4, <1>5, <1>6 DEF Next

-----------------------------------------------------------------------------
(* Backups *)

LEMMA OrderOfCopies ==
    /\ Order[1] = "state" /\ After("state") = "index" /\ After("index") = "archive"
    /\ After("archive") = "artifacts" /\ After("artifacts") = "manifest"
<1>1. /\ DOMAIN Order = 1 .. 5 /\ Order[1] = "state" /\ Order[2] = "index"
      /\ Order[3] = "archive" /\ Order[4] = "artifacts" /\ Order[5] = "manifest"
  BY DEF Order
<1>2. \A k \in 1 .. 5 : k = 1 \/ k = 2 \/ k = 3 \/ k = 4 \/ k = 5
  OBVIOUS
<1>3. (CHOOSE k \in DOMAIN Order : Order[k] = "state") = 1
  BY <1>1, <1>2
<1>4. (CHOOSE k \in DOMAIN Order : Order[k] = "index") = 2
  BY <1>1, <1>2
<1>5. (CHOOSE k \in DOMAIN Order : Order[k] = "archive") = 3
  BY <1>1, <1>2
<1>6. (CHOOSE k \in DOMAIN Order : Order[k] = "artifacts") = 4
  BY <1>1, <1>2
<1> QED
  BY <1>1, <1>3, <1>4, <1>5, <1>6 DEF After

LEMMA NoBackupFields ==
    /\ NoBackup \in Backups /\ NoBackup.at = "none" /\ NoBackup.quiet = TRUE
    /\ NoBackup.links = {} /\ NoBackup.changed = {}
<1>1. [i \in Index |-> None] \in [Index -> Seq(Chunk) \union {None}]
  OBVIOUS
<1> QED
  BY <1>1 DEF NoBackup, Backups, BackupPlaces

(* The fields of a backup that no write in place and no restore changes. *)
SameBackup(b) ==
    /\ backup'.at = b.at /\ backup'.quiet = b.quiet /\ backup'.links = b.links
    /\ backup'.row = b.row /\ backup'.revs = b.revs /\ backup'.objects = b.objects
    /\ backup'.files = b.files

LEMMA TouchedFields ==
    ASSUME backup \in Backups, NEW K \in SUBSET {"state", "index", "config"},
           backup' = Touched(backup, K)
    PROVE  /\ backup' \in Backups /\ SameBackup(backup)
           /\ backup'.changed = backup.changed \union (K \intersect backup.links)
<1> DEFINE c == backup.changed \union (K \intersect backup.links)
<1>1. backup' = [backup EXCEPT !.changed = c]
  BY DEF Touched
<1>2. c \in SUBSET {"state", "index", "config", "copied in flux"}
  BY DEF Backups
<1> HIDE DEF c
<1>3. backup' \in Backups
  BY <1>1, <1>2 DEF Backups
<1>4. SameBackup(backup) /\ backup'.changed = c
  BY <1>1 DEF Backups, SameBackup
<1> QED
  BY <1>3, <1>4 DEF c

(* What the steps outside of create_backup do to the backup. *)
LiveStep == Next /\ ~BacksUp

Outcome ==
    /\ backup' \in Backups /\ SameBackup(backup) /\ dest' = dest
    /\ "copied in flux" \in backup'.changed => "copied in flux" \in backup.changed
    /\ ~OneDevice => backup'.changed = backup.changed
    /\ "index" \in backup'.changed =>
          "index" \in backup.changed \/ served' # served \/ restored' = "booted"
    /\ "state" \in backup'.changed => "state" \in backup.changed \/ restored' = "booted"
    /\ "config" \in backup'.changed => "config" \in backup.changed \/ restored' # "none"

LEMMA LiveShape ==
    ASSUME Inv, LiveStep
    PROVE  Outcome
<1> USE DEF Inv, BackupTyped
<1>1. backup.links \subseteq {"index", "config"} /\ (~OneDevice => backup.links = {})
  BY DEF Backups, LinksInv
<1>2. ASSUME NEW K \in SUBSET {"state", "index", "config"}, backup' = Touched(backup, K),
             dest' = dest, "index" \in K => served' # served, "config" \in K => restored' # "none"
      PROVE  Outcome
  <2>1. /\ backup' \in Backups /\ SameBackup(backup)
        /\ backup'.changed = backup.changed \union (K \intersect backup.links)
    BY <1>2, TouchedFields
  <2> QED
    BY <1>1, <1>2, <2>1 DEF Outcome
<1>3. ASSUME UNCHANGED <<dest, backup>>
      PROVE  Outcome
  BY <1>3 DEF SameBackup, Outcome
<1>4. CASE Works
  <2> DEFINE K == (IF <<row, run>>' # <<row, run>> THEN {"state"} ELSE {})
                  \union (IF served' # served THEN {"index"} ELSE {})
  <2>1. K \in SUBSET {"state", "index", "config"}
    OBVIOUS
  <2>2. backup' = Touched(backup, K) /\ dest' = dest
    BY <1>4 DEF Works
  <2>3. ("index" \in K => served' # served) /\ "config" \notin K
    OBVIOUS
  <2> HIDE DEF K
  <2> QED
    BY <1>2, <2>1, <2>2, <2>3
<1>5. CASE \E o \in Object : RegisterSource(o) \/ RemoveRows(o)
  <2>1. backup' = Touched(backup, {"state"}) /\ dest' = dest
    BY <1>5 DEF RegisterSource, RemoveRows
  <2> QED
    BY <1>2, <2>1
<1>6. CASE Restore
  <2>1. backup' = Touched(backup, {"config"}) /\ dest' = dest /\ restored' = "made"
    BY <1>6 DEF Restore
  <2> QED
    BY <1>2, <2>1
<1>7. CASE Boot
  <2> DEFINE c == IF OneDevice THEN backup.changed \union {"state", "index"}
                  ELSE backup.changed
  <2>1. backup' = [backup EXCEPT !.changed = c] /\ dest' = dest /\ restored' = "booted"
    BY <1>7 DEF Boot
  <2>2. /\ c \in SUBSET {"state", "index", "config", "copied in flux"}
        /\ (~OneDevice => c = backup.changed)
        /\ "copied in flux" \in c => "copied in flux" \in backup.changed
    BY DEF Backups
  <2> HIDE DEF c
  <2>3. backup' \in Backups
    BY <2>1, <2>2 DEF Backups
  <2>4. SameBackup(backup) /\ backup'.changed = c
    BY <2>1 DEF Backups, SameBackup
  <2> QED
    BY <2>1, <2>2, <2>3, <2>4 DEF Outcome
<1>8. CASE \/ Start \/ Stop \/ Dies \/ Decays
           \/ \E o \in Object : ArchiveSource(o) \/ UnlinkSource(o)
  <2>1. UNCHANGED <<dest, backup>>
    BY <1>8 DEF Start, Stop, Dies, Decays, ArchiveSource, UnlinkSource, maintenance
  <2> QED
    BY <1>3, <2>1
<1> QED
  BY <1>4, <1>5, <1>6, <1>7, <1>8 DEF LiveStep, Next

LEMMA LiveKeeps ==
    ASSUME Inv, CheckpointsInv', FilesStay, LiveStep
    PROVE  Inv'
<1> USE DEF Inv
<1>1. Outcome
  BY LiveShape
<1> USE DEF Outcome
<1>2. BackupTyped'
  <2>1. worker' \in {"up", "down"}
    BY DEF BackupTyped, LiveStep, Next, Start, Stop, Works, Dies, Decays, Restore, Boot,
       ArchiveSource, RegisterSource, RemoveRows, UnlinkSource, maintenance
  <2>2. lockfile' \in BOOLEAN
    BY DEF BackupTyped, LiveStep, Next, Start, Stop, Works, Dies, Decays, Restore, Boot,
       ArchiveSource, RegisterSource, RemoveRows, UnlinkSource, maintenance
  <2>3. restored' \in {"none", "made", "booted"}
    BY DEF BackupTyped, LiveStep, Next, Start, Stop, Works, Dies, Decays, Restore, Boot,
       ArchiveSource, RegisterSource, RemoveRows, UnlinkSource, maintenance
  <2>4. revs' \subseteq Object /\ objects' \subseteq Object
    BY DEF BackupTyped, LiveStep, Next, Start, Stop, Works, Dies, Decays, Restore, Boot,
       ArchiveSource, RegisterSource, RemoveRows, UnlinkSource, maintenance
  <2> QED
    BY <1>1, <2>1, <2>2, <2>3, <2>4 DEF BackupTyped
<1>3. ArchiveInv' /\ objects \union removed \subseteq objects' \union removed'
                  /\ removed \subseteq removed'
  BY DEF ArchiveInv, LiveStep, Next, Start, Stop, Works, Dies, Decays, Restore, Boot,
     ArchiveSource, RegisterSource, RemoveRows, UnlinkSource, maintenance
<1>4. QuietInv'
  <2>1. (worker = "up" => lockfile) => (worker' = "up" => lockfile')
    BY DEF LiveStep, Next, Start, Stop, Works, Dies, Decays, Restore, Boot,
       ArchiveSource, RegisterSource, RemoveRows, UnlinkSource, maintenance
  <2>2. worker' = "up" => worker = "up" \/ ~BackupHolds
    BY DEF LiveStep, Next, Start, Stop, Works, Dies, Decays, Restore, Boot,
       ArchiveSource, RegisterSource, RemoveRows, UnlinkSource, maintenance
  <2>3. BackupHolds' <=> BackupHolds
    BY <1>1 DEF BackupHolds, SameBackup
  <2> QED
    BY <1>1, <1>2, <2>1, <2>2, <2>3 DEF QuietInv, SameBackup, BackupTyped
<1>5. SnapshotInv'
  <2>1. /\ backup.at \in {"index", "archive"} => backup.revs \subseteq objects' \union removed'
        /\ backup.at \in {"artifacts", "manifest", "made"} =>
              backup.revs \subseteq backup.objects \union removed'
    BY <1>3 DEF SnapshotInv
  <2>2. (backup.at \in {"index", "archive", "artifacts"} /\ ~damaged') =>
           \A i \in Index : backup.row[i] # None => bin'[i] # None /\ side'[i] # None
    BY DEF SnapshotInv, FilesStay
  <2>3. (backup.at \in {"manifest", "made"} /\ ~damaged') => ArtifactLinks(backup)
    BY DEF SnapshotInv, FilesStay
  <2>4. ArtifactLinks(backup) => ArtifactLinks(backup)'
    BY <1>1 DEF ArtifactLinks, SameBackup
  <2> QED
    BY <1>1, <2>1, <2>2, <2>3, <2>4 DEF SnapshotInv, SameBackup
<1>6. LinksInv'
  <2>1. OneDevice' <=> OneDevice
    BY <1>1 DEF OneDevice
  <2>2. restored' # "none" => backup.at = "made"
    BY DEF LinksInv, LiveStep, Next, Start, Stop, Works, Dies, Decays, Restore, Boot,
       ArchiveSource, RegisterSource, RemoveRows, UnlinkSource, maintenance
  <2>3. /\ restored = "booted" => restored' = "booted"
        /\ restored # "none" => restored' # "none"
    BY DEF LiveStep, Next, Start, Stop, Works, Dies, Decays, Restore, Boot,
       ArchiveSource, RegisterSource, RemoveRows, UnlinkSource, maintenance
  <2>4. "index" \in backup'.changed => restored' = "booted" \/ served' # <<>>
    BY <1>1, <2>3 DEF LinksInv, FilesStay
  <2>5. "state" \in backup'.changed => restored' = "booted"
    BY <1>1, <2>3 DEF LinksInv
  <2>6. "config" \in backup'.changed => restored' # "none"
    BY <1>1, <2>3 DEF LinksInv
  <2> QED
    BY <1>1, <2>1, <2>2, <2>4, <2>5, <2>6 DEF LinksInv, SameBackup
<1> QED
  BY <1>2, <1>3, <1>4, <1>5, <1>6

(* A step of create_backup leaves everything else alone; nothing is restored
   before the backup is made. *)
LEMMA CopyKeeps ==
    ASSUME Inv, CheckpointsInv', UNCHANGED <<checkpointVars, dest, worker, lockfile, revs,
                                             objects, removed, restored>>,
           backup.at # "made", backup' \in Backups,
           BackupHolds' => worker = "down",
           "copied in flux" \in backup'.changed => ~backup'.quiet,
           backup'.at \in {"index", "archive"} => backup'.revs \subseteq objects \union removed,
           backup'.at \in {"artifacts", "manifest", "made"} =>
              backup'.revs \subseteq backup'.objects \union removed,
           (backup'.at \in {"index", "archive", "artifacts"} /\ ~damaged) =>
              \A i \in Index : backup'.row[i] # None => bin[i] # None /\ side[i] # None,
           (backup'.at \in {"manifest", "made"} /\ ~damaged) => ArtifactLinks(backup'),
           ~OneDevice => backup'.links = {},
           "config" \in backup'.links => backup'.at = "made",
           backup'.changed \subseteq backup.changed \union {"copied in flux"}
    PROVE  Inv'
<1> USE DEF Inv
<1>1. UNCHANGED <<bin, side, damaged, served>>
  BY DEF checkpointVars, disk, past
<1>2. restored = "none"
  BY DEF LinksInv, BackupTyped
<1>3. BackupTyped'
  BY DEF BackupTyped
<1>4. ArchiveInv'
  BY DEF ArchiveInv
<1>5. QuietInv'
  BY DEF QuietInv
<1>6. SnapshotInv'
  <2>1. ArtifactLinks(backup)' <=> ArtifactLinks(backup')
    BY DEF ArtifactLinks
  <2> QED
    BY <1>1, <2>1 DEF SnapshotInv
<1>7. LinksInv'
  BY <1>1, <1>2 DEF LinksInv, OneDevice
<1> QED
  BY <1>3, <1>4, <1>5, <1>6, <1>7

LEMMA BackupKeeps ==
    ASSUME Inv, CheckpointsInv', BacksUp
    PROVE  Inv'
<1> USE DEF Inv
<1>0. UNCHANGED <<checkpointVars, dest, worker, lockfile, revs, objects, removed, restored>>
  BY DEF BacksUp, BackupBegin, BackupState, BackupIndex, BackupArchive, BackupArtifacts,
     BackupManifest, BackupBreaks, InBackup
<1>1. /\ backup \in Backups /\ backup.at \in BackupPlaces
      /\ backup.links \subseteq {"index", "config"}
      /\ backup.quiet \in BOOLEAN /\ backup.row \in [Index -> Seq(Chunk) \union {None}]
  BY DEF BackupTyped, Backups
<1>2. backup.changed \subseteq {"state", "index", "config", "copied in flux"}
  BY DEF BackupTyped, Backups
<1>3. CASE BackupBegin
  <2> DEFINE b == [NoBackup EXCEPT !.at = "state", !.quiet = lockfile]
  <2>1. backup.at = "none" /\ backup' = b /\ ~ (lockfile /\ worker = "up")
    BY <1>3, OrderOfCopies DEF BackupBegin, InBackup
  <2>2. b \in Backups
    BY NoBackupFields DEF Backups, BackupPlaces, BackupTyped
  <2>3. b.at = "state" /\ b.links = {} /\ b.changed = {}
    BY NoBackupFields DEF Backups
  <2>4. b.quiet = lockfile
    BY NoBackupFields DEF Backups
  <2> HIDE DEF b
  <2>5. BackupHolds' => worker = "down"
    BY <2>1, <2>4, <1>0 DEF BackupHolds, BackupTyped
  <2> QED
    BY <1>0, <2>1, <2>2, <2>3, <2>5, CopyKeeps
<1>4. CASE BackupState
  <2> DEFINE b == [backup EXCEPT !.at = "index", !.row = row, !.revs = revs]
  <2>1. backup.at = "state" /\ backup' = b
    BY <1>4, OrderOfCopies DEF BackupState, InBackup
  <2>2. b \in Backups
    BY <1>1 DEF Backups, BackupPlaces, BackupTyped, Stored, CheckpointsInv
  <2>3. /\ b.at = "index" /\ b.links = backup.links /\ b.changed = backup.changed
        /\ b.row = row /\ b.revs = revs /\ b.quiet = backup.quiet
    BY <1>1 DEF Backups
  <2> HIDE DEF b
  <2>4. BackupHolds' => BackupHolds
    BY <2>1, <2>3 DEF BackupHolds
  <2>5. revs \subseteq objects \union removed
    BY DEF ArchiveInv
  <2>6. ~damaged => \A i \in Index : row[i] # None => bin[i] # None /\ side[i] # None
    BY DEF CheckpointsInv, FilesInv
  <2>7. "config" \notin b.links /\ (~OneDevice => b.links = {})
    BY <2>1, <2>3 DEF LinksInv
  <2> QED
    BY <1>0, <2>1, <2>2, <2>3, <2>4, <2>5, <2>6, <2>7, CopyKeeps DEF QuietInv
<1>5. CASE BackupIndex
  <2> DEFINE ls == IF OneDevice THEN backup.links \union {"index"} ELSE backup.links
             c == IF worker = "up" THEN {"copied in flux"} ELSE {}
             b == [backup EXCEPT !.at = "archive", !.links = ls, !.changed = c]
  <2>1. backup.at = "index" /\ backup' = b
    BY <1>5, OrderOfCopies DEF BackupIndex, InBackup
  <2>2. /\ ls \subseteq {"index", "config"} /\ (~OneDevice => ls = {}) /\ "config" \notin ls
        /\ c \subseteq {"copied in flux"} /\ (c # {} => worker = "up")
    BY <1>1, <2>1 DEF LinksInv
  <2> HIDE DEF ls, c
  <2>3. b \in Backups
    BY <1>1, <2>2 DEF Backups, BackupPlaces
  <2>4. /\ b.at = "archive" /\ b.links = ls /\ b.changed = c /\ b.row = backup.row
        /\ b.revs = backup.revs /\ b.quiet = backup.quiet
    BY <1>1 DEF Backups
  <2> HIDE DEF b
  <2>5. BackupHolds' => BackupHolds
    BY <2>1, <2>4 DEF BackupHolds
  <2>6. c # {} => ~backup.quiet
    BY <2>1, <2>2 DEF QuietInv, BackupHolds
  <2> QED
    BY <1>0, <2>1, <2>2, <2>3, <2>4, <2>5, <2>6, CopyKeeps DEF QuietInv, SnapshotInv
<1>6. CASE BackupArchive
  <2> DEFINE b == [backup EXCEPT !.at = "artifacts", !.objects = objects]
  <2>1. backup.at = "archive" /\ backup' = b
    BY <1>6, OrderOfCopies DEF BackupArchive, InBackup
  <2>2. b \in Backups
    BY <1>1 DEF Backups, BackupPlaces, BackupTyped
  <2>3. /\ b.at = "artifacts" /\ b.links = backup.links /\ b.changed = backup.changed
        /\ b.row = backup.row /\ b.revs = backup.revs /\ b.quiet = backup.quiet
        /\ b.objects = objects
    BY <1>1 DEF Backups
  <2> HIDE DEF b
  <2>4. BackupHolds' => BackupHolds
    BY <2>1, <2>3 DEF BackupHolds
  <2>5. "config" \notin b.links /\ (~OneDevice => b.links = {})
    BY <2>1, <2>3 DEF LinksInv
  <2> QED
    BY <1>0, <2>1, <2>2, <2>3, <2>4, <2>5, CopyKeeps DEF QuietInv, SnapshotInv
<1>7. CASE BackupArtifacts
  <2> DEFINE f == {i \in Index : bin[i] # None /\ side[i] # None}
             b == [backup EXCEPT !.at = "manifest", !.files = f]
  <2>1. backup.at = "artifacts" /\ backup' = b
    BY <1>7, OrderOfCopies DEF BackupArtifacts, InBackup
  <2>2. f \in SUBSET Index
    OBVIOUS
  <2>3. ~damaged => \A i \in Index : backup.row[i] # None => i \in f
    BY <2>1 DEF SnapshotInv
  <2> HIDE DEF f
  <2>4. b \in Backups
    BY <1>1, <2>2 DEF Backups, BackupPlaces
  <2>5. /\ b.at = "manifest" /\ b.links = backup.links /\ b.changed = backup.changed
        /\ b.row = backup.row /\ b.revs = backup.revs /\ b.quiet = backup.quiet
        /\ b.objects = backup.objects /\ b.files = f
    BY <1>1 DEF Backups
  <2> HIDE DEF b
  <2>6. BackupHolds' => BackupHolds
    BY <2>1, <2>5 DEF BackupHolds
  <2>7. "config" \notin b.links /\ (~OneDevice => b.links = {})
    BY <2>1, <2>5 DEF LinksInv
  <2>8. ~damaged => ArtifactLinks(b)
    BY <2>3, <2>5 DEF ArtifactLinks
  <2> QED
    BY <1>0, <2>1, <2>4, <2>5, <2>6, <2>7, <2>8, CopyKeeps DEF QuietInv, SnapshotInv
<1>8. CASE BackupManifest
  <2> DEFINE ls == IF OneDevice THEN backup.links \union {"config"} ELSE backup.links
             b == [backup EXCEPT !.at = "made", !.links = ls]
  <2>1. backup.at = "manifest" /\ backup' = b
    BY <1>8 DEF BackupManifest, InBackup
  <2>2. ls \subseteq {"index", "config"} /\ (~OneDevice => ls = {})
    BY <1>1 DEF LinksInv
  <2> HIDE DEF ls
  <2>3. b \in Backups
    BY <1>1, <2>2 DEF Backups, BackupPlaces
  <2>4. /\ b.at = "made" /\ b.links = ls /\ b.changed = backup.changed
        /\ b.row = backup.row /\ b.revs = backup.revs /\ b.quiet = backup.quiet
        /\ b.objects = backup.objects /\ b.files = backup.files
    BY <1>1 DEF Backups
  <2> HIDE DEF b
  <2>5. ~BackupHolds'
    BY <2>1, <2>4 DEF BackupHolds
  <2>6. ~damaged => ArtifactLinks(b)
    BY <2>1, <2>4 DEF ArtifactLinks, SnapshotInv
  <2> QED
    BY <1>0, <2>1, <2>2, <2>3, <2>4, <2>5, <2>6, CopyKeeps DEF QuietInv, SnapshotInv
<1>9. CASE BackupBreaks
  <2> DEFINE b == [backup EXCEPT !.at = "partial"]
  <2>1. backup.at # "made" /\ backup' = b
    BY <1>9 DEF BackupBreaks, InBackup
  <2>2. b \in Backups
    BY <1>1 DEF Backups, BackupPlaces
  <2>3. /\ b.at = "partial" /\ b.links = backup.links /\ b.changed = backup.changed
        /\ b.quiet = backup.quiet
    BY <1>1 DEF Backups
  <2> HIDE DEF b
  <2>4. ~BackupHolds'
    BY <2>1, <2>3 DEF BackupHolds
  <2>5. "config" \notin b.links /\ (~OneDevice => b.links = {})
    BY <2>1, <2>3 DEF LinksInv
  <2> QED
    BY <1>0, <2>1, <2>2, <2>3, <2>4, <2>5, CopyKeeps DEF QuietInv
<1> QED
  BY <1>3, <1>4, <1>5, <1>6, <1>7, <1>8, <1>9 DEF BacksUp

LEMMA InvInit == Init => Inv
<1> SUFFICES ASSUME Init
             PROVE  Inv
  OBVIOUS
<1>1. CheckpointsInv
  BY CheckpointsInvInit DEF Init
<1>2. /\ dest \in {"same device", "elsewhere", "not set"} /\ worker = "down"
      /\ lockfile \in BOOLEAN /\ revs = {} /\ objects = {} /\ removed = {}
      /\ backup = NoBackup /\ restored = "none"
  BY DEF Init
<1>3. /\ backup \in Backups /\ backup.at = "none" /\ backup.links = {} /\ backup.changed = {}
  BY <1>2, NoBackupFields
<1> QED
  BY <1>1, <1>2, <1>3
  DEF Inv, BackupTyped, ArchiveInv, QuietInv, SnapshotInv, LinksInv, BackupHolds

LEMMA InvStill == Inv /\ UNCHANGED vars => Inv'
<1> SUFFICES ASSUME Inv, UNCHANGED vars
             PROVE  Inv'
  OBVIOUS
<1>1. CheckpointsInv'
  BY CheckpointsStep DEF Inv
<1>2. UNCHANGED <<bin, side, damaged, served, dest, worker, lockfile, revs, objects, removed,
                  backup, restored>>
  BY DEF vars, checkpointVars, maintenance, disk, past
<1>3. BackupTyped' /\ ArchiveInv' /\ QuietInv'
  BY <1>2 DEF Inv, BackupTyped, ArchiveInv, QuietInv, BackupHolds
<1>4. SnapshotInv' /\ LinksInv'
  BY <1>2 DEF Inv, SnapshotInv, LinksInv, ArtifactLinks, OneDevice
<1> QED
  BY <1>1, <1>3, <1>4 DEF Inv

LEMMA InvStep == Inv /\ [Next]_vars => Inv'
<1> SUFFICES ASSUME Inv, [Next]_vars
             PROVE  Inv'
  OBVIOUS
<1>1. CheckpointsInv' /\ FilesStay
  BY CheckpointsStep, StepFilesStay DEF Inv
<1>2. CASE BacksUp
  BY <1>1, <1>2, BackupKeeps
<1>3. CASE LiveStep
  BY <1>1, <1>3, LiveKeeps
<1>4. CASE UNCHANGED vars
  BY <1>4, InvStill
<1> QED
  BY <1>2, <1>3, <1>4 DEF LiveStep

LEMMA InvHolds == Spec => []Inv
<1>1. Init => Inv
  BY InvInit
<1>2. Inv /\ [Next]_vars => Inv'
  BY InvStep
<1> QED
  BY <1>1, <1>2, PTL DEF Spec

-----------------------------------------------------------------------------
(* The theorems *)

(* What a publication loads for a chunk was made from that chunk's text, for any
   chunk lists, batch sizes, room on the device and number of threads, although
   attempts overlap and die and files are lost (_load_run_vectors). *)
THEOREM VectorsAreOwn == Spec => []ServedIsOwn
<1>1. Inv => ServedIsOwn
  BY DEF Inv, CheckpointsInv
<1> QED
  BY <1>1, InvHolds, PTL

(* While embed attempts do not overlap and the disk keeps its files, every row can
   be read back, and a run whose embed jobs are settled can be published
   (_run_embed). *)
THEOREM RunsAreReadable == Spec => []RunCanBeRead
<1>1. Inv => RunCanBeRead
  BY DEF Inv, CheckpointsInv, ReadableInv, RunCanBeRead
<1> QED
  BY <1>1, InvHolds, PTL

(* A batch that is recorded and readable is not encoded a second time. *)
THEOREM RecordedIsKept == Spec => CheckpointsKept
<1> DEFINE Kept == \A i \in Index :
              (/\ row[i] = Batch(chunks, size, i) /\ Accepts(i, row[i])
               /\ ~overlapped' /\ ~damaged')
                 => bin'[i] = bin[i]
<1>1. Inv /\ [Next]_vars => [Kept]_checkpointVars
  <2> SUFFICES ASSUME Inv, [Next]_vars, NEW i \in Index, row[i] = Batch(chunks, size, i),
                      Accepts(i, row[i]), ~overlapped', ~damaged'
               PROVE  bin'[i] = bin[i]
    OBVIOUS
  <2> USE DEF Inv, CheckpointsInv
  <2>1. row[i] # None
    <3>1. side[i] \in Sidecars /\ row[i] = side[i].ids
      BY DEF Accepts, Stored
    <3>2. row[i] \in Seq(Chunk)
      BY <3>1 DEF Sidecars
    <3> QED
      BY <3>2, ListsAreSequences
  <2>2. CASE \E w \in Thread : WriteVectors(w)
    <3>1. PICK w \in Thread : WriteVectors(w)
      BY <2>2
    <3>2. /\ thread[w].at = "encode" /\ w \in Busy
          /\ bin' = [bin EXCEPT ![thread[w].batch] = [ids |-> Current(w), by |-> w]]
      BY <3>1, VectorsShape DEF Busy
    <3>3. ~overlapped
      BY <3>1 DEF WriteVectors, past
    <3>4. row[thread[w].batch] = None
      BY <3>2, <3>3 DEF AloneInv, AloneAt
    <3>5. thread[w].batch # i
      BY <2>1, <3>4
    <3> QED
      BY <3>2, <3>5 DEF Stored
  <2>3. CASE ~ (\E w \in Thread : WriteVectors(w)) /\ Works
    <3>1. UNCHANGED bin
      BY <2>3 DEF Works, Embeds, Begin, Look, Drop, Fail, WriteSidecar, InsertRow, Finish,
         LeaseLost, Publish, Rechunk, disk
    <3> QED
      BY <3>1
  <2>4. CASE Decays
    BY <2>4 DEF Decays, Damage
  <2>5. CASE ~Works /\ ~Decays
    <3>1. UNCHANGED bin
      BY <2>5 DEF Next, Dies, Crash, Start, Stop, Restore, Boot, BacksUp, BackupBegin,
         BackupState, BackupIndex, BackupArchive, BackupArtifacts, BackupManifest,
         BackupBreaks, InBackup, ArchiveSource, RegisterSource, RemoveRows, UnlinkSource,
         vars, checkpointVars, disk
    <3> QED
      BY <3>1
  <2> QED
    BY <2>2, <2>3, <2>4, <2>5
<1> QED
  BY <1>1, InvHolds, PTL DEF Spec, CheckpointsKept

(* A backup that has its manifest holds the source of every revision and the files
   of every batch its database names, and an index copied at rest, whatever the
   worker, scans and removals did meanwhile: for any number of threads, sources
   and chunk lists, and with the excuses the property names (create_backup). *)
THEOREM BackupsAreWhole == Spec => []BackupIsWhole
<1>1. Inv => BackupIsWhole
  <2> SUFFICES ASSUME Inv, backup.at = "made"
               PROVE  /\ ArchiveLinks(backup) \/ backup.revs \intersect removed # {}
                      /\ ArtifactLinks(backup) \/ damaged
                      /\ "copied in flux" \in backup.changed => ~backup.quiet
    BY DEF BackupIsWhole
  <2>1. backup.revs \subseteq backup.objects \union removed
    BY DEF Inv, SnapshotInv
  <2> QED
    BY <2>1 DEF Inv, SnapshotInv, QuietInv, ArchiveLinks
<1> QED
  BY <1>1, InvHolds, PTL

(* A finished backup stays as it was made: on a device of its own always, on the
   same device except for the three files that are written in place. *)
THEOREM BackupsStand == Spec => []BackupStands
<1>1. Inv => BackupStands
  BY DEF Inv, LinksInv, BackupStands, Checksums
<1> QED
  BY <1>1, InvHolds, PTL
=============================================================================
