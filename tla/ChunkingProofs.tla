--------------------------- MODULE ChunkingProofs ---------------------------
(***************************************************************************)
(* For any book, of whatever length, and any settings: the chunker loses   *)
(* no token and advances (NoTruncation), what its chunks cite is the       *)
(* source, whole and in order (QuotesAreSource), and where the offsets are *)
(* those of the source a span has the boxes of its words (BoxesAreOfSpan). *)
(* The three recursions of the model, through the text, the units and the  *)
(* words, are shown to end and then followed step by step.                 *)
(***************************************************************************)
EXTENDS Chunking, FiniteSetTheorems, SequenceTheorems, WellFoundedInduction, TLAPS

-----------------------------------------------------------------------------
(* Least and greatest numbers, recursion.                                  *)

\* A set of naturals has a least element: induction, without a predicate as a parameter.
LEMMA LeastNatural ==
    ASSUME NEW T \in SUBSET Nat, T # {}
    PROVE  \E x \in T : \A y \in T : x <= y
<1> DEFINE U == {0 .. x : x \in T}
           R == StrictSubsetOrdering(Nat)
<1>1. U \subseteq FiniteSubsetsOf(Nat) /\ U # {}
  <2>1. \A x \in T : IsFiniteSet(0 .. x) /\ 0 .. x \subseteq Nat
    BY FS_Interval
  <2> QED
    BY <2>1 DEF FiniteSubsetsOf
<1>2. PICK u \in U : \A v \in U : ~ (<<v, u>> \in R)
  <2>1. IsWellFoundedOn(R, FiniteSubsetsOf(Nat))
    BY FS_StrictSubsetOrderingWellFounded
  <2> HIDE DEF U, R
  <2> QED
    BY <1>1, <2>1, WFMin
<1>3. PICK x \in T : u = 0 .. x
  BY <1>2
<1>4. \A y \in T : x <= y
  <2> SUFFICES ASSUME NEW y \in T, y < x
               PROVE  FALSE
    OBVIOUS
  <2>1. x \in 0 .. x /\ x \notin 0 .. y /\ 0 .. y \subseteq 0 .. x
    OBVIOUS
  <2>2. <<0 .. y, 0 .. x>> \in R
    BY <2>1 DEF StrictSubsetOrdering
  <2> QED
    BY <1>2, <1>3, <2>2
<1> QED
  BY <1>4

UsesLess(S, V, mu, D) ==
    \A s \in S : \A f, g \in [S -> V] :
        (\A t \in S : mu[t] < mu[s] => f[t] = g[t]) => D[s][f] = D[s][g]

Solvable(S, V, D) == \E F \in [S -> V] : \A s \in S : F[s] = D[s][F]

\* A recursive definition has a solution when the value at s uses only values at
\* arguments of a smaller measure.
LEMMA Recursion ==
    ASSUME NEW S, NEW V, V # {}, NEW mu \in [S -> Nat], NEW D \in [S -> [[S -> V] -> V]],
           UsesLess(S, V, mu, D)
    PROVE  Solvable(S, V, D)
<1> USE DEF UsesLess, Solvable
<1> DEFINE Solves(f, n) == \A s \in S : mu[s] < n => f[s] = D[s][f]
           Upto(n) == {f \in [S -> V] : Solves(f, n)}
<1>1. ASSUME NEW n \in Nat, NEW f \in Upto(n), NEW g \in Upto(n)
      PROVE  \A s \in S : mu[s] < n => f[s] = g[s]
  <2> DEFINE T == {mu[s] : s \in {s \in S : mu[s] < n /\ f[s] # g[s]}}
  <2>1. T \in SUBSET Nat
    OBVIOUS
  <2>2. ASSUME T # {}
        PROVE  FALSE
    <3>1. PICK x \in T : \A y \in T : x <= y
      <4> HIDE DEF T
      <4> QED
        BY <2>1, <2>2, LeastNatural
    <3>2. PICK s \in S : mu[s] = x /\ mu[s] < n /\ f[s] # g[s]
      BY <3>1
    <3>3. ASSUME NEW t \in S, mu[t] < mu[s], f[t] # g[t]
          PROVE  FALSE
      <4>1. mu[t] \in Nat /\ mu[s] \in Nat /\ mu[t] < n
        BY <3>2, <3>3
      <4>2. mu[t] \in T
        BY <4>1, <3>3
      <4> HIDE DEF T
      <4> QED
        BY <4>1, <4>2, <3>1, <3>2, <3>3
    <3>4. D[s][f] = D[s][g]
      <4>1. f \in [S -> V] /\ g \in [S -> V]
        OBVIOUS
      <4> HIDE DEF Upto, Solves, T
      <4>2. \A t \in S : mu[t] < mu[s] => f[t] = g[t]
        BY <3>3
      <4>3. (\A t \in S : mu[t] < mu[s] => f[t] = g[t]) => D[s][f] = D[s][g]
        BY <4>1
      <4> QED
        BY <4>2, <4>3
    <3> QED
      BY <3>2, <3>4
  <2>3. ASSUME NEW s \in S, mu[s] < n, f[s] # g[s]
        PROVE  FALSE
    <3>1. mu[s] \in T
      BY <2>3
    <3> HIDE DEF T
    <3> QED
      BY <2>2, <3>1
  <2> QED
    BY <2>3
<1>2. \A n \in Nat : Upto(n) # {}
  <2> DEFINE T == {n \in Nat : Upto(n) = {}}
  <2>1. ASSUME T # {}
        PROVE  FALSE
    <3>1. PICK x \in T : \A y \in T : x <= y
      <4>1. T \in SUBSET Nat
        OBVIOUS
      <4> HIDE DEF T
      <4> QED
        BY <4>1, <2>1, LeastNatural
    <3>2. x # 0
      <4>1. PICK v : v \in V
        OBVIOUS
      <4>2. [s \in S |-> v] \in Upto(0)
        BY <4>1
      <4> QED
        BY <4>2
    <3>3. PICK f \in Upto(x - 1) : TRUE
      <4>1. x \in Nat /\ x - 1 \in Nat
        BY <3>1, <3>2
      <4>2. x - 1 \notin T
        <5>1. ~ (x <= x - 1)
          BY <4>1
        <5> HIDE DEF T
        <5> QED
          BY <3>1, <5>1
      <4> HIDE DEF Upto
      <4> QED
        BY <4>1, <4>2
    <3> DEFINE g == [s \in S |-> D[s][f]]
    <3>4. g \in [S -> V] /\ f \in [S -> V]
      OBVIOUS
    <3>5. \A s \in S : mu[s] < x - 1 => g[s] = f[s]
      BY <3>3
    <3>6. ASSUME NEW s \in S, mu[s] < x
          PROVE  g[s] = D[s][g]
      <4>1. \A t \in S : mu[t] < mu[s] => f[t] = g[t]
        BY <3>1, <3>2, <3>5, <3>6
      <4>2. D[s][f] = D[s][g]
        <5> HIDE DEF g, Upto
        <5> QED
          BY <4>1, <3>4
      <4> QED
        BY <4>2
    <3>7. g \in Upto(x)
      BY <3>4, <3>6
    <3> QED
      BY <3>1, <3>7
  <2>2. T = {}
    BY <2>1
  <2> QED
    BY <2>2
<1> DEFINE Sol(n) == CHOOSE f \in Upto(n) : TRUE
           F == [s \in S |-> Sol(mu[s] + 1)[s]]
<1>3. \A n \in Nat : Sol(n) \in Upto(n)
  <2> HIDE DEF Upto
  <2> QED
    BY <1>2
<1>a. \A n \in Nat : Upto(n) \subseteq [S -> V]
  OBVIOUS
<1>b. \A s \in S : mu[s] \in Nat /\ mu[s] + 1 \in Nat
  OBVIOUS
<1>4. \A s \in S : Sol(mu[s] + 1) \in [S -> V]
  <2> HIDE DEF Upto, Sol
  <2> QED
    BY <1>3, <1>a, <1>b
<1>5. F \in [S -> V]
  <2> HIDE DEF Sol
  <2> QED
    BY <1>4
<1>6. ASSUME NEW s \in S
      PROVE  F[s] = D[s][F]
  <2> DEFINE n == mu[s] + 1
             f == Sol(n)
  <2>1. n \in Nat /\ f \in Upto(n)
    <3> HIDE DEF Upto, Sol
    <3> QED
      BY <1>3, <1>b
  <2>2. f \in [S -> V] /\ f[s] = D[s][f]
    <3> HIDE DEF f
    <3> QED
      BY <2>1, <1>b
  <2>3. ASSUME NEW t \in S, mu[t] < mu[s]
        PROVE  F[t] = f[t]
    <3>1. Sol(mu[t] + 1) \in Upto(mu[t] + 1) /\ mu[t] + 1 \in Nat
      <4> HIDE DEF Upto, Sol
      <4> QED
        BY <1>3, <1>b
    <3>2. f \in Upto(mu[t] + 1)
      <4> HIDE DEF f
      <4> QED
        BY <2>1, <2>3, <1>b
    <3>3. Sol(mu[t] + 1)[t] = f[t]
      <4> HIDE DEF Sol, f, Upto
      <4> QED
        BY <1>1, <3>1, <3>2
    <3> QED
      BY <3>3
  <2>4. D[s][F] = D[s][f]
    <3> HIDE DEF F, f
    <3> QED
      BY <2>2, <2>3, <1>5
  <2> QED
    BY <2>2, <2>4
<1> QED
  BY <1>5, <1>6

Descends(S, mu, P) == \A s \in S : (\A t \in S : mu[t] < mu[s] => t \in P) => s \in P

\* What holds of s when it holds of all that have a smaller measure holds of all.
LEMMA Descent ==
    ASSUME NEW S, NEW mu \in [S -> Nat], NEW P \in SUBSET S, Descends(S, mu, P)
    PROVE  P = S
<1> USE DEF Descends
<1> DEFINE T == {mu[s] : s \in S \ P}
<1>1. ASSUME T # {} PROVE FALSE
  <2>1. PICK x \in T : \A y \in T : x <= y
    <3>1. T \in SUBSET Nat
      OBVIOUS
    <3> HIDE DEF T
    <3> QED
      BY <1>1, <3>1, LeastNatural
  <2>2. PICK s \in S \ P : mu[s] = x
    BY <2>1
  <2>3. ASSUME NEW t \in S, mu[t] < mu[s], t \notin P PROVE FALSE
    <3>1. mu[t] \in T /\ mu[t] \in Nat /\ mu[s] \in Nat
      BY <2>3
    <3> HIDE DEF T
    <3> QED
      BY <2>1, <2>2, <2>3, <3>1
  <2> QED
    BY <2>2, <2>3
<1>2. S \ P = {}
  BY <1>1
<1> QED
  BY <1>2

\* Min and Max of sets of naturals; for Max the set needs a bound.
LEMMA MinOf ==
    ASSUME NEW S \in SUBSET Nat, S # {}
    PROVE  Min(S) \in S /\ \A y \in S : Min(S) <= y
  BY LeastNatural DEF Min

LEMMA MaxOf ==
    ASSUME NEW S \in SUBSET Nat, S # {}, NEW b \in Nat, \A x \in S : x <= b
    PROVE  Max(S) \in S /\ \A y \in S : y <= Max(S)
<1> DEFINE T == {b - x : x \in S}
<1>1. PICK z \in T : \A y \in T : z <= y
  <2>1. \A x \in S : b - x \in Nat
    <3> SUFFICES ASSUME NEW x \in S PROVE b - x \in Nat
      OBVIOUS
    <3>1. x \in Nat /\ x <= b
      OBVIOUS
    <3> QED
      BY <3>1
  <2>2. T \in SUBSET Nat /\ T # {}
    BY <2>1
  <2> HIDE DEF T
  <2> QED
    BY <2>2, LeastNatural
<1>2. PICK m \in S : z = b - m
  BY <1>1
<1>3. \A y \in S : m >= y
  <2> SUFFICES ASSUME NEW y \in S PROVE m >= y
    OBVIOUS
  <2>1. b - y \in T
    OBVIOUS
  <2>2. b - m <= b - y
    <3> HIDE DEF T
    <3> QED
      BY <1>1, <1>2, <2>1
  <2> QED
    BY <2>2
<1>4. Max(S) \in S /\ \A y \in S : Max(S) >= y
  BY <1>3 DEF Max
<1> QED
  BY <1>4

-----------------------------------------------------------------------------
(* Positions in order.                                                     *)

\* Sorted gives every position of the set once, in ascending order.
LEMMA SortedIsOrdered ==
    ASSUME NEW S \in SUBSET Nat, IsFiniteSet(S)
    PROVE  /\ Sorted(S) \in Seq(S) /\ Len(Sorted(S)) = Cardinality(S)
           /\ \A x \in S : \E k \in DOMAIN Sorted(S) : Sorted(S)[k] = x
           /\ \A k, l \in DOMAIN Sorted(S) : k < l => Sorted(S)[k] < Sorted(S)[l]
<1> DEFINE n == Cardinality(S)
           Upto(x) == {y \in S : y <= x}
           place == [x \in S |-> Cardinality(Upto(x))]
           At(k) == CHOOSE x \in S : Cardinality({y \in S : y <= x}) = k
           s == Sorted(S)
<1>1. n \in Nat
  BY FS_CardinalityType
<1>2. \A x \in S : IsFiniteSet(Upto(x)) /\ Cardinality(Upto(x)) \in 1 .. n
  <2> SUFFICES ASSUME NEW x \in S PROVE IsFiniteSet(Upto(x)) /\ Cardinality(Upto(x)) \in 1 .. n
    OBVIOUS
  <2>1. Upto(x) \in SUBSET S /\ x \in Upto(x)
    OBVIOUS
  <2> HIDE DEF Upto
  <2>2. IsFiniteSet(Upto(x)) /\ Cardinality(Upto(x)) <= n /\ Cardinality(Upto(x)) # 0
    BY <2>1, FS_Subset, FS_EmptySet
  <2>3. Cardinality(Upto(x)) \in Nat
    BY <2>2, FS_CardinalityType
  <2> QED
    BY <1>1, <2>2, <2>3
<1>3. \A x, y \in S : x < y => Cardinality(Upto(x)) < Cardinality(Upto(y))
  <2> SUFFICES ASSUME NEW x \in S, NEW y \in S, x < y
               PROVE  Cardinality(Upto(x)) < Cardinality(Upto(y))
    OBVIOUS
  <2>1. Upto(x) \in SUBSET Upto(y) /\ Upto(x) # Upto(y)
    <3>1. Upto(x) \subseteq Upto(y)
      <4>1. \A z \in S : z <= x => z <= y
        <5> SUFFICES ASSUME NEW z \in S, z <= x PROVE z <= y
          OBVIOUS
        <5>1. x \in Nat /\ y \in Nat /\ z \in Nat
          OBVIOUS
        <5> QED
          BY <5>1
      <4> QED
        BY <4>1
    <3>2. y \in Upto(y) /\ y \notin Upto(x)
      OBVIOUS
    <3> QED
      BY <3>1, <3>2
  <2> HIDE DEF Upto
  <2>2. /\ Cardinality(Upto(x)) <= Cardinality(Upto(y))
        /\ Cardinality(Upto(x)) # Cardinality(Upto(y))
    BY <1>2, <2>1, FS_Subset
  <2> QED
    BY <1>2, <2>2
<1>4. place \in Injection(S, 1 .. n)
  <2>1. place \in [S -> 1 .. n]
    <3> HIDE DEF Upto
    <3> QED
      BY <1>2
  <2>2. \A x, y \in S : place[x] = place[y] => x = y
    <3> SUFFICES ASSUME NEW x \in S, NEW y \in S, x # y PROVE place[x] # place[y]
      OBVIOUS
    <3>1. x < y \/ y < x
      OBVIOUS
    <3> HIDE DEF Upto
    <3> QED
      BY <1>2, <1>3, <3>1
  <2> HIDE DEF place
  <2> QED
    BY <2>1, <2>2 DEF Injection, IsInjective
<1>5. place \in Surjection(S, 1 .. n)
  <2>1. IsFiniteSet(1 .. n) /\ Cardinality(1 .. n) = n
    BY <1>1, FS_Interval
  <2> HIDE DEF place
  <2> QED
    BY <1>4, <2>1, FS_Injection
<1>6. \A k \in 1 .. n : At(k) \in S /\ place[At(k)] = k
  <2> SUFFICES ASSUME NEW k \in 1 .. n PROVE At(k) \in S /\ place[At(k)] = k
    OBVIOUS
  <2>1. \E x \in S : place[x] = k
    <3> HIDE DEF place
    <3> QED
      BY <1>5 DEF Surjection
  <2> QED
    BY <2>1
<1>7. s = [k \in 1 .. n |-> At(k)]
  BY DEF Sorted
<1> HIDE DEF At, place, s
<1>8. s \in Seq(S) /\ Len(s) = n /\ DOMAIN s = 1 .. n
  <2>1. s \in [1 .. n -> S] /\ DOMAIN s = 1 .. n
    BY <1>6, <1>7
  <2>2. s \in Seq(S)
    BY <1>1, <2>1, SeqDef
  <2> HIDE DEF n
  <2> QED
    BY <1>1, <2>1, <2>2, LenProperties
<1>9. \A x \in S : \E k \in DOMAIN s : s[k] = x
  <2> SUFFICES ASSUME NEW x \in S PROVE \E k \in 1 .. n : s[k] = x
    BY <1>8
  <2>1. place[x] \in 1 .. n /\ \A y, z \in S : place[y] = place[z] => y = z
    BY <1>4 DEF Injection, IsInjective
  <2>2. At(place[x]) = x
    BY <1>6, <2>1
  <2>3. s[place[x]] = x
    BY <1>7, <2>1, <2>2
  <2> QED
    BY <2>1, <2>3
<1>10. \A k, l \in DOMAIN s : k < l => s[k] < s[l]
  <2> SUFFICES ASSUME NEW k \in 1 .. n, NEW l \in 1 .. n, k < l, s[l] <= s[k] PROVE FALSE
    <3>1. \A k \in 1 .. n : s[k] \in Nat
      BY <1>6, <1>7
    <3> QED
      BY <1>8, <3>1
  <2>1. s[k] \in S /\ s[l] \in S /\ place[s[k]] = k /\ place[s[l]] = l
    BY <1>6, <1>7
  <2>2. s[l] \in Nat /\ s[k] \in Nat
    BY <2>1
  <2>3. s[l] = s[k] \/ s[l] < s[k]
    BY <2>2
  <2>4. \A x, y \in S : x < y => place[x] < place[y]
    <3> HIDE DEF Upto
    <3> QED
      BY <1>3 DEF place
  <2> QED
    <3>1. k \in Nat /\ l \in Nat
      BY <1>1
    <3>2. s[l] # s[k]
      BY <2>1, <3>1
    <3>3. ~ (s[l] < s[k])
      <4>1. ~ (place[s[l]] < place[s[k]])
        BY <2>1, <3>1
      <4> QED
        BY <2>1, <2>4, <4>1
    <3> QED
      BY <2>3, <3>2, <3>3
<1> QED
  BY <1>8, <1>9, <1>10 DEF s

-----------------------------------------------------------------------------
(* Normalization of one unit.  The positions are i0 and j0, because i is   *)
(* where the loop stands.                                                  *)

\* A searchable character and where it comes from.
Searched == [c : Char, from : Nat, to : Nat]

\* Ink, of a text t from which the positions gone are taken out.
InkOf(t, gone, s) ==
    {k \in DOMAIN t : /\ t[k] \notin Blank /\ k \notin gone
                      /\ ~(s.collapse /\ s.dehyphenate /\ Breaks(t, k))}

\* What is put for the position i, or the positions from i on, and where it goes on.
Copied(t, i0) == <<[c |-> t[i0], from |-> i0, to |-> i0 + 1]>>
Replaced(t, i0, j0, gone) ==
    [k \in DOMAIN Collapsed(t, i0, j0, gone) |->
        [c |-> Collapsed(t, i0, j0, gone)[k], from |-> i0, to |-> j0]]
Rest(t, gone, s, out, i0) ==
    IF i0 = Len(t) + 1 THEN <<>>
    ELSE IF i0 \in gone THEN out[i0 + 1]
    ELSE IF t[i0] \in Blank /\ s.collapse
         THEN Replaced(t, i0, RunEnd(t, i0), gone) \o out[RunEnd(t, i0)]
    ELSE IF s.dehyphenate /\ s.collapse /\ Joins(t, i0) THEN out[JoinEnd(t, i0)]
    ELSE Copied(t, i0) \o out[i0 + 1]

\* The end of a run of blanks lies behind it, and all before it is blank.
LEMMA RunEndIsBehind ==
    ASSUME NEW t \in Seq(Char), NEW i0 \in 1 .. Len(t), t[i0] \in Blank
    PROVE  /\ RunEnd(t, i0) \in i0 + 1 .. Len(t) + 1
           /\ \A k \in i0 .. RunEnd(t, i0) - 1 : t[k] \in Blank
<1> DEFINE S == {k \in i0 .. Len(t) : t[k] \notin Blank} \cup {Len(t) + 1}
<1>1. Len(t) \in Nat
  BY LenProperties
<1>2. S \in SUBSET Nat /\ S # {} /\ \A x \in S : x \in i0 .. Len(t) + 1
  BY <1>1
<1>3. RunEnd(t, i0) = Min(S)
  BY DEF RunEnd
<1>4. Min(S) \in S /\ \A y \in S : Min(S) <= y
  <2> HIDE DEF S
  <2> QED
    BY <1>2, MinOf
<1>5. Min(S) # i0
  BY <1>1, <1>4
<1>6. ASSUME NEW k \in i0 .. Min(S) - 1, t[k] \notin Blank
      PROVE  FALSE
  <2>1. Min(S) \in i0 .. Len(t) + 1
    BY <1>2, <1>4
  <2> HIDE DEF S
  <2>2. k \in i0 .. Len(t) /\ ~(Min(S) <= k)
    BY <1>1, <2>1
  <2>3. k \in S
    BY <1>6, <2>2 DEF S
  <2> QED
    BY <1>4, <2>2, <2>3
<1>7. Min(S) \in i0 .. Len(t) + 1
  BY <1>2, <1>4
<1> HIDE DEF S
<1> QED
  BY <1>1, <1>3, <1>5, <1>6, <1>7

\* So does the end of the blanks behind a position: it is the first that is no blank.
LEMMA LineEndIsBehind ==
    ASSUME NEW t \in Seq(Char), NEW i0 \in 1 .. Len(t)
    PROVE  /\ LineEnd(t, i0) \in i0 + 1 .. Len(t) + 1
           /\ \A k \in i0 + 1 .. LineEnd(t, i0) - 1 : t[k] = " "
           /\ \A k \in i0 + 1 .. Len(t) : t[k] # " " => LineEnd(t, i0) <= k
           /\ LineEnd(t, i0) <= Len(t) => t[LineEnd(t, i0)] # " "
<1> DEFINE S == {k \in i0 + 1 .. Len(t) : t[k] # " "} \cup {Len(t) + 1}
<1>1. Len(t) \in Nat /\ i0 \in Nat /\ 1 <= i0 /\ i0 <= Len(t)
  BY LenProperties
<1>2. S \in SUBSET Nat /\ S # {} /\ \A x \in S : x \in i0 + 1 .. Len(t) + 1
  <2>1. \A x \in i0 + 1 .. Len(t) : x \in Nat /\ x \in i0 + 1 .. Len(t) + 1
    BY <1>1
  <2>2. Len(t) + 1 \in Nat /\ Len(t) + 1 \in i0 + 1 .. Len(t) + 1
    BY <1>1
  <2> QED
    BY <2>1, <2>2
<1>3. LineEnd(t, i0) = Min(S)
  BY DEF LineEnd
<1>4. Min(S) \in S /\ \A y \in S : Min(S) <= y
  <2> HIDE DEF S
  <2> QED
    BY <1>2, MinOf
<1>5. Min(S) \in i0 + 1 .. Len(t) + 1
  BY <1>2, <1>4
<1>6. ASSUME NEW k \in i0 + 1 .. Min(S) - 1, t[k] # " "
      PROVE  FALSE
  <2> HIDE DEF S
  <2>2. k \in i0 + 1 .. Len(t) /\ ~(Min(S) <= k)
    BY <1>1, <1>5
  <2>3. k \in S
    BY <1>6, <2>2 DEF S
  <2> QED
    BY <1>4, <2>2, <2>3
<1>7. \A k \in i0 + 1 .. Len(t) : t[k] # " " => Min(S) <= k
  <2> SUFFICES ASSUME NEW k \in i0 + 1 .. Len(t), t[k] # " " PROVE Min(S) <= k
    OBVIOUS
  <2>1. k \in S
    OBVIOUS
  <2> HIDE DEF S
  <2> QED
    BY <1>4, <2>1
<1>8. Min(S) <= Len(t) => t[Min(S)] # " "
  <2>1. Min(S) <= Len(t) => Min(S) # Len(t) + 1
    <3> HIDE DEF S
    <3> QED
      BY <1>1
  <2> QED
    BY <1>4, <2>1
<1> HIDE DEF S
<1> QED
  BY <1>3, <1>5, <1>6, <1>7, <1>8

\* The code looks at the end of the line; what it joins is what is broken.
LEMMA JoinsWhatBreaks ==
    ASSUME NEW t \in Seq(Char), NEW i0 \in 1 .. Len(t)
    PROVE  Joins(t, i0) <=> Breaks(t, i0)
<1>1. PICK n \in Nat : n = Len(t) /\ i0 \in 1 .. n
  BY LenProperties
<1>2. PICK e : /\ e = LineEnd(t, i0) /\ e \in i0 + 1 .. n + 1
               /\ \A l \in i0 + 1 .. e - 1 : t[l] = " "
               /\ \A l \in i0 + 1 .. n : t[l] # " " => e <= l
               /\ e <= n => t[e] # " "
  BY <1>1, LineEndIsBehind
<1>3. Joins(t, i0) <=> /\ t[i0] = "-" /\ i0 > 1 /\ t[i0 - 1] \in Letter
                       /\ e < n /\ t[e] = "nl" /\ t[e + 1] = "a"
  BY <1>1, <1>2 DEF Joins
<1>4. Breaks(t, i0) <=>
        /\ t[i0] = "-" /\ i0 > 1 /\ t[i0 - 1] \in Letter
        /\ \E m \in i0 + 1 .. n - 1 :
              t[m] = "nl" /\ t[m + 1] = "a" /\ \A l \in i0 + 1 .. m - 1 : t[l] = " "
  BY <1>1 DEF Breaks
<1>a. i0 \in 1 .. n
  BY <1>1
<1>b. e \in i0 + 1 .. n + 1
  BY <1>2
<1>5. e < n => e \in i0 + 1 .. n - 1
  BY <1>a, <1>b
<1>6. ASSUME NEW m \in i0 + 1 .. n - 1, t[m] = "nl", \A l \in i0 + 1 .. m - 1 : t[l] = " "
      PROVE  e = m /\ e < n
  <2>1. m \in i0 + 1 .. n /\ m < n /\ i0 \in Nat /\ m \in Nat /\ e \in Nat
    BY <1>a, <1>b
  <2>2. e <= m
    BY <1>2, <1>6, <2>1
  <2>3. ASSUME e < m PROVE FALSE
    <3>1. e \in i0 + 1 .. m - 1 /\ e <= n
      BY <2>1, <2>3, <1>b
    <3> QED
      BY <3>1, <1>2, <1>6
  <2> QED
    BY <2>1, <2>2, <2>3
<1> QED
  BY <1>2, <1>3, <1>4, <1>5, <1>6

\* What the searchable text from the position i on must be.
IsText(out) == out \in Seq(Searched)
FromOn(t, i0, out) == \A k \in DOMAIN out : out[k].from \in i0 .. Len(t)
Source(t, ink, ch) ==
    IF ch.c \in Blank THEN t[ch.from] \in Blank
    ELSE ch.from \in ink /\ ch = [c |-> t[ch.from], from |-> ch.from, to |-> ch.from + 1]
OfSource(t, ink, out) == \A k \in DOMAIN out : Source(t, ink, out[k])
Shown(f, out) == \E k \in DOMAIN out : out[k].from = f /\ out[k].c \notin Blank
AllShown(ink, i0, out) == \A f \in ink : f >= i0 => Shown(f, out)
Follows(a, b) ==
    /\ a.from <= b.from
    /\ a.c \notin Blank \/ b.c \notin Blank => a.from < b.from
InSourceOrder(out) == \A k, l \in DOMAIN out : k < l => Follows(out[k], out[l])
Faithful(t, ink, i0, out) ==
    /\ IsText(out) /\ FromOn(t, i0, out) /\ OfSource(t, ink, out)
    /\ AllShown(ink, i0, out) /\ InSourceOrder(out)

Solid(t) == {k \in DOMAIN t : t[k] \notin Blank}

\* Positions that are not searchable are passed over.
LEMMA PassedOver ==
    ASSUME NEW t \in Seq(Char), NEW ink \in SUBSET Solid(t),
           NEW i0 \in Nat, NEW j0 \in Nat, i0 <= j0,
           \A k \in i0 .. j0 - 1 : k \notin ink,
           NEW out, Faithful(t, ink, j0, out)
    PROVE  Faithful(t, ink, i0, out)
<1>1. Len(t) \in Nat /\ DOMAIN t = 1 .. Len(t) /\ ink \subseteq 1 .. Len(t)
  BY LenProperties DEF Solid
<1>2. FromOn(t, i0, out)
  <2> SUFFICES ASSUME NEW k \in DOMAIN out PROVE out[k].from \in i0 .. Len(t)
    BY DEF FromOn
  <2>1. out[k].from \in j0 .. Len(t)
    BY DEF Faithful, FromOn
  <2> QED
    BY <2>1, <1>1
<1>3. AllShown(ink, i0, out)
  <2> SUFFICES ASSUME NEW f \in ink, f >= i0 PROVE Shown(f, out)
    BY DEF AllShown
  <2>1. f \in Nat
    BY <1>1
  <2>2. f >= j0
    BY <2>1
  <2> QED
    BY <2>2 DEF Faithful, AllShown
<1> QED
  BY <1>2, <1>3 DEF Faithful

\* What is put for the position i comes before the rest.
LEMMA PutBefore ==
    ASSUME NEW t \in Seq(Char), NEW ink \in SUBSET Solid(t),
           NEW i0 \in 1 .. Len(t), NEW j0 \in Nat, i0 < j0,
           \A k \in i0 + 1 .. j0 - 1 : k \notin ink,
           NEW put \in Seq(Searched),
           \A k \in DOMAIN put : put[k].from = i0 /\ Source(t, ink, put[k]),
           i0 \in ink => Shown(i0, put),
           InSourceOrder(put),
           NEW out, Faithful(t, ink, j0, out)
    PROVE  Faithful(t, ink, i0, put \o out)
<1> DEFINE all == put \o out
           a == Len(put)
           b == Len(out)
<1>1. Len(t) \in Nat /\ DOMAIN t = 1 .. Len(t) /\ ink \subseteq 1 .. Len(t)
  BY LenProperties DEF Solid
<1>2. out \in Seq(Searched)
  BY DEF Faithful, IsText
<1>3. /\ a \in Nat /\ b \in Nat /\ DOMAIN put = 1 .. a /\ DOMAIN out = 1 .. b
      /\ all \in Seq(Searched) /\ DOMAIN all = 1 .. a + b
      /\ \A k \in 1 .. a : all[k] = put[k]
      /\ \A k \in a + 1 .. a + b : k - a \in 1 .. b /\ all[k] = out[k - a]
      /\ \A k \in 1 .. b : k + a \in a + 1 .. a + b /\ all[k + a] = out[k]
  <2>1. a \in Nat /\ DOMAIN put = 1 .. a
    BY LenProperties
  <2>4. b \in Nat /\ DOMAIN out = 1 .. b
    BY <1>2, LenProperties
  <2>2. /\ all \in Seq(Searched) /\ Len(all) = a + b
        /\ \A k \in 1 .. a + b : all[k] = IF k <= a THEN put[k] ELSE out[k - a]
    BY <1>2, ConcatProperties
  <2> HIDE DEF all, a, b
  <2>3. DOMAIN all = 1 .. a + b
    BY <2>2, LenProperties
  <2> QED
    BY <2>1, <2>2, <2>3, <2>4
<1> HIDE DEF all, a, b
<1>4. \A k \in 1 .. a + b : k \in 1 .. a \/ k \in a + 1 .. a + b
  BY <1>3
<1>5. FromOn(t, i0, all)
  <2> SUFFICES ASSUME NEW k \in 1 .. a + b PROVE all[k].from \in i0 .. Len(t)
    BY <1>3 DEF FromOn
  <2>1. CASE k \in 1 .. a
    BY <2>1, <1>1, <1>3
  <2>2. CASE k \in a + 1 .. a + b
    <3>1. all[k].from \in j0 .. Len(t)
      BY <2>2, <1>3 DEF Faithful, FromOn
    <3> QED
      BY <3>1, <1>1
  <2> QED
    BY <1>4, <2>1, <2>2
<1>6. OfSource(t, ink, all)
  <2> SUFFICES ASSUME NEW k \in 1 .. a + b PROVE Source(t, ink, all[k])
    BY <1>3 DEF OfSource
  <2>1. CASE k \in 1 .. a
    BY <2>1, <1>3
  <2>2. CASE k \in a + 1 .. a + b
    BY <2>2, <1>3 DEF Faithful, OfSource
  <2> QED
    BY <1>4, <2>1, <2>2
<1>7. AllShown(ink, i0, all)
  <2> SUFFICES ASSUME NEW f \in ink, f >= i0 PROVE Shown(f, all)
    BY DEF AllShown
  <2>1. f \in Nat
    BY <1>1
  <2>2. f = i0 \/ f >= j0
    BY <2>1
  <2>3. CASE f = i0
    <3>1. PICK k \in 1 .. a : put[k].from = f /\ put[k].c \notin Blank
      BY <2>3, <1>3 DEF Shown
    <3>2. k \in 1 .. a + b /\ all[k] = put[k]
      BY <1>3
    <3> QED
      BY <3>1, <3>2, <1>3 DEF Shown
  <2>4. CASE f >= j0
    <3>1. PICK k \in 1 .. b : out[k].from = f /\ out[k].c \notin Blank
      BY <2>4, <1>3 DEF Faithful, AllShown, Shown
    <3>2. k + a \in 1 .. a + b /\ all[k + a] = out[k]
      BY <1>3
    <3> QED
      BY <3>1, <3>2, <1>3 DEF Shown
  <2> QED
    BY <2>2, <2>3, <2>4
<1>8. InSourceOrder(all)
  <2> SUFFICES ASSUME NEW k \in 1 .. a + b, NEW l \in 1 .. a + b, k < l
               PROVE  Follows(all[k], all[l])
    BY <1>3 DEF InSourceOrder
  <2>1. CASE k \in 1 .. a /\ l \in 1 .. a
    BY <2>1, <1>3 DEF InSourceOrder
  <2>2. CASE k \in a + 1 .. a + b /\ l \in a + 1 .. a + b
    <3>1. k - a < l - a
      BY <1>3
    <3> QED
      BY <2>2, <3>1, <1>3 DEF Faithful, InSourceOrder
  <2>3. CASE k \in 1 .. a /\ l \in a + 1 .. a + b
    <3>1. all[k].from = i0
      BY <2>3, <1>3
    <3>2. all[l].from \in j0 .. Len(t)
      BY <2>3, <1>3 DEF Faithful, FromOn
    <3>3. all[k].from < all[l].from
      BY <3>1, <3>2, <1>1
    <3> QED
      BY <3>1, <3>2, <3>3, <1>1 DEF Follows
  <2>4. ~(k \in a + 1 .. a + b /\ l \in 1 .. a)
    BY <1>3
  <2> QED
    BY <1>4, <2>1, <2>2, <2>3, <2>4
<1>9. Faithful(t, ink, i0, all)
  BY <1>3, <1>5, <1>6, <1>7, <1>8 DEF Faithful, IsText
<1> QED
  BY <1>9 DEF all

\* A character that is copied.
LEMMA CopiedIsFaithful ==
    ASSUME NEW t \in Seq(Char), NEW ink \in SUBSET Solid(t), NEW i0 \in 1 .. Len(t),
           t[i0] \in Blank \/ i0 \in ink,
           NEW out, Faithful(t, ink, i0 + 1, out)
    PROVE  Faithful(t, ink, i0, Copied(t, i0) \o out)
<1> DEFINE ch == [c |-> t[i0], from |-> i0, to |-> i0 + 1]
           put == Copied(t, i0)
<1>1. Len(t) \in Nat /\ DOMAIN t = 1 .. Len(t) /\ t[i0] \in Char
  BY LenProperties
<1>2. /\ ch \in Searched /\ ch.from = i0 /\ ch.c = t[i0]
      /\ ch = [c |-> t[i0], from |-> i0, to |-> i0 + 1]
  BY <1>1 DEF Searched
<1>3. put = <<ch>>
  BY DEF Copied
<1> HIDE DEF ch
<1>4. put \in Seq(Searched) /\ DOMAIN put = {1} /\ put[1] = ch
  BY <1>2, <1>3
<1> HIDE DEF put
<1>5. Source(t, ink, ch)
  <2>1. CASE t[i0] \in Blank
    BY <2>1, <1>2 DEF Source
  <2>2. CASE t[i0] \notin Blank
    BY <2>2, <1>2 DEF Source
  <2> QED
    BY <2>1, <2>2
<1>6. \A k \in DOMAIN put : put[k].from = i0 /\ Source(t, ink, put[k])
  BY <1>2, <1>4, <1>5
<1>7. ASSUME i0 \in ink, t[i0] \notin Blank PROVE Shown(i0, put)
  BY <1>2, <1>4, <1>7 DEF Shown
<1>8. InSourceOrder(put)
  BY <1>4 DEF InSourceOrder
<1>9. CASE t[i0] \notin Blank
  <2>1. i0 \in ink => Shown(i0, put)
    BY <1>7, <1>9
  <2>2. i0 + 1 \in Nat /\ i0 < i0 + 1 /\ \A k \in i0 + 1 .. i0 + 1 - 1 : k \notin ink
    BY <1>1
  <2>3. Faithful(t, ink, i0, put \o out)
    BY <1>4, <1>6, <1>8, <2>1, <2>2, PutBefore
  <2> QED
    BY <2>3 DEF put
<1>10. CASE t[i0] \in Blank /\ i0 \notin ink
  <2>2. i0 + 1 \in Nat /\ i0 < i0 + 1 /\ \A k \in i0 + 1 .. i0 + 1 - 1 : k \notin ink
    BY <1>1
  <2>3. Faithful(t, ink, i0, put \o out)
    BY <1>4, <1>6, <1>8, <1>10, <2>2, PutBefore
  <2> QED
    BY <2>3 DEF put
<1>11. ~(t[i0] \in Blank /\ i0 \in ink)
  BY DEF Solid
<1> QED
  BY <1>9, <1>10, <1>11

LEMMA ShortSequences ==
    ASSUME NEW S, NEW x \in S, NEW y \in S
    PROVE  <<x>> \in Seq(S) /\ <<x, y>> \in Seq(S)
OBVIOUS

\* What is put for a run of blanks are blanks, all from its beginning.
LEMMA ReplacedIsText ==
    ASSUME NEW t, NEW i0 \in Nat, NEW j0 \in Nat, NEW gone
    PROVE  /\ Replaced(t, i0, j0, gone) \in Seq(Searched)
           /\ \A k \in DOMAIN Replaced(t, i0, j0, gone) :
                 /\ Replaced(t, i0, j0, gone)[k].from = i0
                 /\ Replaced(t, i0, j0, gone)[k].c \in Blank
<1> DEFINE cs == Collapsed(t, i0, j0, gone)
           put == [k \in DOMAIN cs |-> [c |-> cs[k], from |-> i0, to |-> j0]]
<1>1. cs = <<" ">> \/ cs = <<"nl">> \/ cs = <<"nl", " ">>
  BY DEF Collapsed
<1>2. Replaced(t, i0, j0, gone) = put
  BY DEF Replaced
<1> HIDE DEF cs
<1>3. cs \in Seq(Blank)
  <2>1. " " \in Blank /\ "nl" \in Blank
    BY DEF Blank
  <2> QED
    BY <1>1, <2>1, ShortSequences
<1>6. \A k \in DOMAIN put : put[k].from = i0 /\ put[k].c \in Blank
  BY <1>3
<1>7. put \in Seq(Searched)
  <2>1. Len(cs) \in Nat /\ DOMAIN cs = 1 .. Len(cs)
    BY <1>3, LenProperties
  <2>2. \A k \in DOMAIN cs : cs[k] \in Char
    BY <1>3 DEF Char
  <2>3. \A k \in DOMAIN cs : [c |-> cs[k], from |-> i0, to |-> j0] \in Searched
    BY <2>2 DEF Searched
  <2>4. put \in [1 .. Len(cs) -> Searched]
    BY <2>1, <2>3
  <2> QED
    BY <2>1, <2>4, SeqDef
<1> HIDE DEF put
<1> QED
  BY <1>2, <1>6, <1>7

\* A run of blanks that is replaced.
LEMMA BlanksAreFaithful ==
    ASSUME NEW t \in Seq(Char), NEW ink \in SUBSET Solid(t), NEW i0 \in 1 .. Len(t), NEW j0 \in Nat,
           i0 < j0, NEW gone, \A k \in i0 .. j0 - 1 : t[k] \in Blank,
           NEW out, Faithful(t, ink, j0, out)
    PROVE  Faithful(t, ink, i0, Replaced(t, i0, j0, gone) \o out)
<1> DEFINE put == Replaced(t, i0, j0, gone)
<1>1. i0 \in Nat /\ Len(t) \in Nat /\ i0 \in i0 .. j0 - 1
  BY LenProperties
<1>2. t[i0] \in Blank
  BY <1>1
<1>3. put \in Seq(Searched) /\ \A k \in DOMAIN put : put[k].from = i0 /\ put[k].c \in Blank
  BY <1>1, ReplacedIsText
<1>h. HIDE DEF put
<1>4. \A k \in DOMAIN put : put[k].from = i0 /\ Source(t, ink, put[k])
  BY <1>2, <1>3 DEF Source
<1>5. InSourceOrder(put)
  <2> SUFFICES ASSUME NEW k \in DOMAIN put, NEW l \in DOMAIN put
               PROVE  Follows(put[k], put[l])
    BY DEF InSourceOrder
  <2>1. put[k].from = i0 /\ put[k].c \in Blank /\ put[l].from = i0 /\ put[l].c \in Blank
    BY <1>3
  <2>2. put[k].from <= put[l].from
    BY <2>1, <1>1
  <2> QED
    BY <2>1, <2>2 DEF Follows
<1>6. \A k \in i0 .. j0 - 1 : k \notin ink
  BY DEF Solid
<1>7. i0 \notin ink
  BY <1>1, <1>6
<1>8. \A k \in i0 + 1 .. j0 - 1 : k \in i0 .. j0 - 1
  BY <1>1
<1>9. \A k \in i0 + 1 .. j0 - 1 : k \notin ink
  BY <1>6, <1>8
<1>10. Faithful(t, ink, i0, put \o out)
  BY <1>3, <1>4, <1>5, <1>7, <1>9, PutBefore
<1> QED
  BY <1>10 DEF put

\* Behind the last position nothing is left to put.
LEMMA NothingIsFaithful ==
    ASSUME NEW t \in Seq(Char), NEW ink \in SUBSET Solid(t)
    PROVE  Faithful(t, ink, Len(t) + 1, <<>>)
<1>1. Len(t) \in Nat /\ ink \subseteq 1 .. Len(t)
  BY LenProperties DEF Solid
<1>2. \A f \in ink : ~(f >= Len(t) + 1)
  BY <1>1
<1> QED
  BY <1>2 DEF Faithful, IsText, FromOn, OfSource, AllShown, InSourceOrder

\* One step keeps what the rest of the text has.
LEMMA RestIsFaithful ==
    ASSUME NEW t \in Seq(Char), NEW gone, NEW s, NEW out, NEW i0 \in 1 .. Len(t) + 1,
           \A j0 \in i0 + 1 .. Len(t) + 1 : Faithful(t, InkOf(t, gone, s), j0, out[j0])
    PROVE  Faithful(t, InkOf(t, gone, s), i0, Rest(t, gone, s, out, i0))
<1> DEFINE ink == InkOf(t, gone, s)
<1>1. Len(t) \in Nat /\ DOMAIN t = 1 .. Len(t)
  BY LenProperties
<1>2. ink \in SUBSET Solid(t)
  BY DEF InkOf, Solid
<1>3. \A k \in ink : k \notin gone /\ ~(s.collapse /\ s.dehyphenate /\ Breaks(t, k))
  BY DEF InkOf
<1>4. \A k \in 1 .. Len(t) :
         t[k] \notin Blank /\ k \notin gone /\ ~(s.collapse /\ s.dehyphenate /\ Breaks(t, k))
            => k \in ink
  BY <1>1 DEF InkOf
<1> HIDE DEF ink
<1>5. CASE i0 = Len(t) + 1
  BY <1>2, <1>5, NothingIsFaithful DEF Rest, ink
<1>6. CASE i0 # Len(t) + 1
  <2>1. i0 \in 1 .. Len(t) /\ i0 \in Nat /\ i0 + 1 \in Nat /\ i0 + 1 \in i0 + 1 .. Len(t) + 1
    BY <1>1, <1>6
  <2>2. Faithful(t, ink, i0 + 1, out[i0 + 1])
    BY <2>1 DEF ink
  <2>3. ASSUME i0 \notin ink PROVE Faithful(t, ink, i0, out[i0 + 1])
    <3>1. \A k \in i0 .. i0 + 1 - 1 : k \notin ink
      BY <2>1, <2>3
    <3>2. i0 <= i0 + 1
      BY <2>1
    <3> QED
      BY <1>2, <2>1, <2>2, <3>1, <3>2, PassedOver
  <2>4. CASE i0 \in gone
    <3>1. i0 \notin ink
      BY <1>3, <2>4
    <3>2. Rest(t, gone, s, out, i0) = out[i0 + 1]
      BY <1>6, <2>4 DEF Rest
    <3> QED
      BY <2>3, <3>1, <3>2 DEF ink
  <2>5. CASE i0 \notin gone /\ t[i0] \in Blank /\ s.collapse
    <3>1. PICK j0 : /\ j0 = RunEnd(t, i0) /\ j0 \in i0 + 1 .. Len(t) + 1
                    /\ \A k \in i0 .. j0 - 1 : t[k] \in Blank
      BY <2>1, <2>5, RunEndIsBehind
    <3>2. j0 \in Nat /\ i0 < j0
      BY <3>1, <1>1, <2>1
    <3>3. Faithful(t, ink, j0, out[j0])
      BY <3>1 DEF ink
    <3>4. Rest(t, gone, s, out, i0) = Replaced(t, i0, j0, gone) \o out[j0]
      BY <1>6, <2>5, <3>1 DEF Rest
    <3>5. Faithful(t, ink, i0, Replaced(t, i0, j0, gone) \o out[j0])
      BY <1>2, <2>1, <3>1, <3>2, <3>3, BlanksAreFaithful
    <3> QED
      BY <3>4, <3>5 DEF ink
  <2>6. CASE i0 \notin gone /\ ~(t[i0] \in Blank /\ s.collapse)
             /\ s.dehyphenate /\ s.collapse /\ Joins(t, i0)
    <3>1. /\ LineEnd(t, i0) \in i0 + 1 .. Len(t) + 1
          /\ \A k \in i0 + 1 .. LineEnd(t, i0) - 1 : t[k] = " "
      BY <2>1, LineEndIsBehind
    <3>2. t[LineEnd(t, i0)] = "nl" /\ LineEnd(t, i0) < Len(t)
      BY <2>6 DEF Joins
    <3>3. i0 \notin ink
      <4>1. Breaks(t, i0)
        BY <2>1, <2>6, JoinsWhatBreaks
      <4> QED
        BY <1>3, <2>6, <4>1
    <3>4. PICK e : e = LineEnd(t, i0)
      OBVIOUS
    <3>5. \A k \in i0 + 1 .. e : k \notin ink
      <4>1. \A k \in i0 + 1 .. e : k = e \/ k \in i0 + 1 .. e - 1
        <5>1. e \in i0 + 1 .. Len(t) + 1
          BY <3>1, <3>4
        <5> QED
          BY <5>1, <1>1, <2>1
      <4>2. \A k \in i0 + 1 .. e : t[k] \in Blank
        BY <3>1, <3>2, <3>4, <4>1 DEF Blank
      <4> QED
        BY <1>2, <4>2 DEF Solid
    <3>6. PICK j0 : j0 = e + 1
      OBVIOUS
    <3>7. j0 \in i0 + 1 .. Len(t) + 1 /\ j0 \in Nat /\ i0 <= j0
      <4>1. e \in i0 + 1 .. Len(t) + 1 /\ e < Len(t)
        BY <3>1, <3>2, <3>4
      <4> QED
        BY <4>1, <3>6, <1>1, <2>1
    <3>8. \A k \in i0 .. j0 - 1 : k \notin ink
      <4>1. e \in i0 + 1 .. Len(t) + 1
        BY <3>1, <3>4
      <4>2. \A k \in i0 .. j0 - 1 : k = i0 \/ k \in i0 + 1 .. e
        BY <4>1, <3>6, <1>1, <2>1
      <4> QED
        BY <4>2, <3>3, <3>5
    <3>9. Faithful(t, ink, j0, out[j0])
      BY <3>7 DEF ink
    <3>10. Faithful(t, ink, i0, out[j0])
      BY <1>2, <2>1, <3>7, <3>8, <3>9, PassedOver
    <3>11. Rest(t, gone, s, out, i0) = out[j0]
      BY <1>6, <2>6, <3>4, <3>6 DEF Rest, JoinEnd
    <3> QED
      BY <3>10, <3>11 DEF ink
  <2>7. CASE i0 \notin gone /\ ~(t[i0] \in Blank /\ s.collapse)
             /\ ~(s.dehyphenate /\ s.collapse /\ Joins(t, i0))
    <3>1. t[i0] \in Blank \/ i0 \in ink
      <4>1. Joins(t, i0) <=> Breaks(t, i0)
        BY <2>1, JoinsWhatBreaks
      <4> QED
        BY <1>4, <2>1, <2>7, <4>1
    <3>2. Rest(t, gone, s, out, i0) = Copied(t, i0) \o out[i0 + 1]
      BY <1>6, <2>7 DEF Rest
    <3>3. Faithful(t, ink, i0, Copied(t, i0) \o out[i0 + 1])
      BY <1>2, <2>1, <2>2, <3>1, CopiedIsFaithful
    <3> QED
      BY <3>2, <3>3 DEF ink
  <2> QED
    BY <2>4, <2>5, <2>6, <2>7
<1> QED
  BY <1>5, <1>6

\* _normalize_chars keeps the searchable characters of the source, in order and with
\* their places, and nothing else but blanks.
THEOREM NormalizedIsFaithful ==
    ASSUME NEW t \in Seq(Char), NEW gone, NEW s
    PROVE  Faithful(t, InkOf(t, gone, s), 1, Normalized(t, gone, s))
<1> DEFINE S == 1 .. Len(t) + 1
           V == Seq(Searched)
           mu == [p \in S |-> Len(t) + 1 - p]
           D == [p \in S |-> [out \in [S -> V] |-> Rest(t, gone, s, out, p)]]
           Body(H) == [p \in S |-> Rest(t, gone, s, H, p)]
           all == CHOOSE H : H = Body(H)
<1>1. Len(t) \in Nat /\ DOMAIN t = 1 .. Len(t) /\ \A p \in 1 .. Len(t) : t[p] \in Char
  BY LenProperties
<1>2. \A p \in S : p \in Nat /\ p <= Len(t) + 1
  BY <1>1
<1>3. mu \in [S -> Nat]
  BY <1>1, <1>2
<1>4. ASSUME NEW p \in 1 .. Len(t) PROVE p \in S /\ p + 1 \in S /\ p # Len(t) + 1 /\ p \in Nat
  BY <1>1
<1>5. ASSUME NEW p \in 1 .. Len(t), t[p] \in Blank PROVE RunEnd(t, p) \in p + 1 .. Len(t) + 1
  BY <1>5, RunEndIsBehind
<1>6. ASSUME NEW p \in 1 .. Len(t), Joins(t, p) PROVE JoinEnd(t, p) \in p + 1 .. Len(t) + 1
  <2>1. LineEnd(t, p) \in p + 1 .. Len(t) + 1 /\ LineEnd(t, p) < Len(t)
    BY <1>6, LineEndIsBehind DEF Joins
  <2> QED
    BY <2>1, <1>1 DEF JoinEnd
<1>7. \A p \in 1 .. Len(t) : \A q \in p + 1 .. Len(t) + 1 : q \in S /\ mu[q] < mu[p]
  <2> SUFFICES ASSUME NEW p \in 1 .. Len(t), NEW q \in p + 1 .. Len(t) + 1
               PROVE  q \in S /\ mu[q] < mu[p]
    OBVIOUS
  <2>1. q \in S /\ p \in S
    BY <1>1
  <2>2. mu[q] = Len(t) + 1 - q /\ mu[p] = Len(t) + 1 - p
    BY <2>1
  <2> HIDE DEF mu
  <2> QED
    BY <1>1, <2>1, <2>2
<1>8. D \in [S -> [[S -> V] -> V]]
  <2> SUFFICES ASSUME NEW p \in S, NEW out \in [S -> V] PROVE Rest(t, gone, s, out, p) \in V
    OBVIOUS
  <2>1. CASE p = Len(t) + 1
    BY <2>1 DEF Rest
  <2>2. CASE p # Len(t) + 1
    <3>1. p \in 1 .. Len(t) /\ p + 1 \in p + 1 .. Len(t) + 1 /\ p + 1 \in S
      BY <2>2, <1>1
    <3>2. out[p + 1] \in V
      BY <3>1
    <3>3. CASE p \in gone
      BY <2>2, <3>2, <3>3 DEF Rest
    <3>4. CASE p \notin gone /\ t[p] \in Blank /\ s.collapse
      <4>1. PICK q : q = RunEnd(t, p) /\ q \in p + 1 .. Len(t) + 1
        BY <1>5, <3>1, <3>4
      <4>2. q \in S /\ out[q] \in V
        BY <4>1, <3>1, <1>7
      <4>3. q \in Nat /\ p \in Nat
        BY <4>1, <3>1, <1>1
      <4>4. Replaced(t, p, q, gone) \in V
        BY <4>3, ReplacedIsText
      <4>5. Rest(t, gone, s, out, p) = Replaced(t, p, q, gone) \o out[q]
        BY <2>2, <3>4, <4>1 DEF Rest
      <4> QED
        BY <4>2, <4>4, <4>5, ConcatProperties
    <3>5. CASE p \notin gone /\ ~(t[p] \in Blank /\ s.collapse)
               /\ s.dehyphenate /\ s.collapse /\ Joins(t, p)
      <4>1. JoinEnd(t, p) \in p + 1 .. Len(t) + 1
        BY <3>1, <3>5, <1>6
      <4>2. out[JoinEnd(t, p)] \in V
        BY <4>1, <3>1, <1>7
      <4>3. Rest(t, gone, s, out, p) = out[JoinEnd(t, p)]
        BY <2>2, <3>5 DEF Rest
      <4> QED
        BY <4>2, <4>3
    <3>6. CASE p \notin gone /\ ~(t[p] \in Blank /\ s.collapse)
               /\ ~(s.dehyphenate /\ s.collapse /\ Joins(t, p))
      <4>1. Rest(t, gone, s, out, p) = Copied(t, p) \o out[p + 1]
        BY <2>2, <3>6 DEF Rest
      <4>2. [c |-> t[p], from |-> p, to |-> p + 1] \in Searched
        BY <3>1, <1>1 DEF Searched
      <4>3. Copied(t, p) \in V
        BY <4>2 DEF Copied
      <4> QED
        BY <4>1, <4>3, <3>2, ConcatProperties
    <3> QED
      BY <3>3, <3>4, <3>5, <3>6
  <2> QED
    BY <2>1, <2>2
<1>9. UsesLess(S, V, mu, D)
  <2> SUFFICES ASSUME NEW p \in S, NEW f \in [S -> V], NEW g \in [S -> V],
                      \A q \in S : mu[q] < mu[p] => f[q] = g[q]
               PROVE  Rest(t, gone, s, f, p) = Rest(t, gone, s, g, p)
    BY DEF UsesLess
  <2>1. CASE p = Len(t) + 1
    BY <2>1 DEF Rest
  <2>2. CASE p # Len(t) + 1
    <3>1. p \in 1 .. Len(t) /\ p + 1 \in p + 1 .. Len(t) + 1
      BY <2>2, <1>1
    <3>2. \A q \in p + 1 .. Len(t) + 1 : f[q] = g[q]
      <4> HIDE DEF mu, S
      <4> QED
        BY <3>1, <1>7
    <3>3. f[p + 1] = g[p + 1]
      BY <3>1, <3>2
    <3>4. t[p] \in Blank => f[RunEnd(t, p)] = g[RunEnd(t, p)]
      BY <3>1, <3>2, <1>5
    <3>5. Joins(t, p) => f[JoinEnd(t, p)] = g[JoinEnd(t, p)]
      BY <3>1, <3>2, <1>6
    <3> QED
      BY <2>2, <3>3, <3>4, <3>5, Zenon DEF Rest
  <2> QED
    BY <2>1, <2>2
<1>10. PICK F \in [S -> V] : \A p \in S : F[p] = D[p][F]
  <2>1. Solvable(S, V, D)
    <3>1. V # {}
      BY EmptySeq
    <3> HIDE DEF S, V, mu, D
    <3> QED
      BY <1>3, <1>8, <1>9, <3>1, Recursion
  <2> QED
    BY <2>1 DEF Solvable
<1>11. F = Body(F)
  BY <1>10
<1>12. Normalized(t, gone, s) = all[1]
  BY DEF Normalized, Rest, Copied, Replaced
<1> HIDE DEF Body
<1>13. all = Body(all)
  BY <1>11
<1> HIDE DEF all
<1>14. \A p \in S : all[p] = Rest(t, gone, s, all, p)
  BY <1>13 DEF Body
<1> DEFINE P == {p \in S : Faithful(t, InkOf(t, gone, s), p, all[p])}
<1>15. \A p \in S : (\A q \in S : mu[q] < mu[p] => q \in P) => p \in P
  <2> SUFFICES ASSUME NEW p \in S, \A q \in S : mu[q] < mu[p] => q \in P PROVE p \in P
    OBVIOUS
  <2>1. \A q \in p + 1 .. Len(t) + 1 : q \in S /\ mu[q] < mu[p]
    <3>1. CASE p \in 1 .. Len(t)
      <4> HIDE DEF mu, S
      <4> QED
        BY <3>1, <1>7
    <3>2. CASE p = Len(t) + 1
      <4>1. p + 1 .. Len(t) + 1 = {}
        BY <3>2, <1>1
      <4> QED
        BY <4>1
    <3> QED
      BY <3>1, <3>2, <1>1
  <2>2. \A q \in p + 1 .. Len(t) + 1 : Faithful(t, InkOf(t, gone, s), q, all[q])
    <3> HIDE DEF mu, S
    <3> QED
      BY <2>1
  <2>3. Faithful(t, InkOf(t, gone, s), p, Rest(t, gone, s, all, p))
    BY <2>2, RestIsFaithful
  <2> QED
    BY <2>3, <1>14
<1>16. P = S
  <2>1. P \in SUBSET S
    OBVIOUS
  <2> HIDE DEF P, S, mu
  <2>2. Descends(S, mu, P)
    BY <1>15 DEF Descends
  <2> QED
    BY <1>3, <2>1, <2>2, Descent
<1>17. 1 \in S
  BY <1>1
<1> QED
  BY <1>12, <1>16, <1>17

-----------------------------------------------------------------------------
(* Words and tokens.                                                       *)

Starts(cs) == {m \in DOMAIN cs : cs[m] \notin Blank /\ (m = 1 \/ cs[m - 1] \in Blank)}
EndOf(cs, m) == Min({k \in m .. Len(cs) : cs[k] \in Blank} \cup {Len(cs) + 1})

\* A maximal run, in a text cs.
IsRun(cs, r) ==
    /\ r.from \in 1 .. Len(cs) /\ r.to \in r.from + 1 .. Len(cs) + 1
    /\ \A p \in r.from .. r.to - 1 : cs[p] \notin Blank
    /\ r.from = 1 \/ cs[r.from - 1] \in Blank
AreRuns(cs, rs) ==
    /\ \A k \in DOMAIN rs : IsRun(cs, rs[k])
    /\ \A k, l \in DOMAIN rs : k < l => rs[k].from < rs[l].from /\ rs[k].to <= rs[l].from
InRun(rs, p) == \E k \in DOMAIN rs : p \in rs[k].from .. rs[k].to - 1

\* A run ends behind its start, at the next blank or with the text.
LEMMA EndIsBehind ==
    ASSUME NEW cs \in Seq(Char), NEW m \in Starts(cs)
    PROVE  /\ m \in 1 .. Len(cs) /\ EndOf(cs, m) \in m + 1 .. Len(cs) + 1
           /\ \A p \in m .. EndOf(cs, m) - 1 : cs[p] \notin Blank
           /\ EndOf(cs, m) <= Len(cs) => cs[EndOf(cs, m)] \in Blank
<1> DEFINE S == {k \in m .. Len(cs) : cs[k] \in Blank} \cup {Len(cs) + 1}
<1>1. Len(cs) \in Nat /\ m \in 1 .. Len(cs) /\ cs[m] \notin Blank
  BY LenProperties DEF Starts
<1>2. S \in SUBSET Nat /\ S # {} /\ \A x \in S : x \in m .. Len(cs) + 1
  <2>1. \A x \in m .. Len(cs) : x \in Nat /\ x \in m .. Len(cs) + 1
    BY <1>1
  <2>2. Len(cs) + 1 \in Nat /\ Len(cs) + 1 \in m .. Len(cs) + 1
    BY <1>1
  <2> QED
    BY <2>1, <2>2
<1>3. EndOf(cs, m) = Min(S)
  BY DEF EndOf
<1>4. Min(S) \in S /\ \A y \in S : Min(S) <= y
  <2> HIDE DEF S
  <2> QED
    BY <1>2, MinOf
<1>5. Min(S) \in m .. Len(cs) + 1
  BY <1>2, <1>4
<1>6. Min(S) # m
  <2>1. m # Len(cs) + 1
    BY <1>1
  <2> QED
    BY <1>1, <1>4, <2>1
<1>7. ASSUME NEW p \in m .. Min(S) - 1, cs[p] \in Blank
      PROVE  FALSE
  <2> HIDE DEF S
  <2>1. p \in m .. Len(cs) /\ ~(Min(S) <= p)
    BY <1>1, <1>5
  <2>2. p \in S
    BY <1>7, <2>1 DEF S
  <2> QED
    BY <1>4, <2>1, <2>2
<1>8. Min(S) <= Len(cs) => cs[Min(S)] \in Blank
  <2>1. Min(S) <= Len(cs) => Min(S) # Len(cs) + 1
    <3> HIDE DEF S
    <3> QED
      BY <1>1
  <2> QED
    BY <1>4, <2>1
<1> HIDE DEF S
<1>9. Min(S) \in m + 1 .. Len(cs) + 1
  BY <1>1, <1>5, <1>6
<1> QED
  BY <1>1, <1>3, <1>7, <1>8, <1>9

\* The run that a solid position is in.
LEMMA StartBefore ==
    ASSUME NEW cs \in Seq(Char), NEW p \in 1 .. Len(cs), cs[p] \notin Blank
    PROVE  \E m \in Starts(cs) : m <= p /\ p < EndOf(cs, m)
<1> DEFINE T == {q \in 1 .. p : \A r \in q .. p : cs[r] \notin Blank}
<1>1. PICK n \in Nat : n = Len(cs) /\ p \in 1 .. n /\ DOMAIN cs = 1 .. n
  BY LenProperties
<1>a. p \in 1 .. n
  BY <1>1
<1>2. p \in T
  <2>1. p \in 1 .. p /\ \A r \in p .. p : r = p
    BY <1>a
  <2> QED
    BY <2>1
<1>3. T \in SUBSET Nat
  BY <1>a
<1>4. PICK m \in T : \A y \in T : m <= y
  <2> HIDE DEF T
  <2> QED
    BY <1>2, <1>3, LeastNatural
<1>5. m \in 1 .. p /\ \A r \in m .. p : cs[r] \notin Blank
  BY <1>4
<1>b. m \in 1 .. p
  BY <1>5
<1>6. m \in 1 .. n /\ m \in m .. p /\ m \in Nat
  BY <1>a, <1>b
<1>7. ASSUME m # 1, cs[m - 1] \notin Blank PROVE FALSE
  <2>1. m - 1 \in 1 .. p /\ ~(m <= m - 1) /\ \A r \in m - 1 .. p : r = m - 1 \/ r \in m .. p
    BY <1>7, <1>a, <1>b
  <2>2. \A r \in m - 1 .. p : cs[r] \notin Blank
    BY <2>1, <1>5, <1>7
  <2>3. m - 1 \in T
    BY <2>1, <2>2
  <2> HIDE DEF T
  <2> QED
    BY <1>4, <2>1, <2>3
<1> HIDE DEF T
<1>8. m \in Starts(cs)
  BY <1>1, <1>5, <1>6, <1>7 DEF Starts
<1>9. /\ EndOf(cs, m) \in m + 1 .. n + 1
      /\ EndOf(cs, m) <= n => cs[EndOf(cs, m)] \in Blank
  BY <1>1, <1>8, EndIsBehind
<1>10. EndOf(cs, m) \in m + 1 .. n + 1
  BY <1>9
<1>11. ASSUME EndOf(cs, m) <= p PROVE FALSE
  <2>1. EndOf(cs, m) \in m .. p /\ EndOf(cs, m) <= n
    BY <1>a, <1>b, <1>10, <1>11
  <2> QED
    BY <2>1, <1>5, <1>9
<1>12. m <= p /\ p < EndOf(cs, m)
  BY <1>a, <1>b, <1>10, <1>11
<1> QED
  BY <1>8, <1>12

\* Runs gives the maximal runs, all of them, in order and apart from each other.
LEMMA RunsAreRuns ==
    ASSUME NEW cs \in Seq(Char)
    PROVE  /\ Runs(cs) \in Seq([from : Nat, to : Nat])
           /\ AreRuns(cs, Runs(cs))
           /\ \A p \in 1 .. Len(cs) : cs[p] \notin Blank => InRun(Runs(cs), p)
<1> DEFINE starts == Starts(cs)
           begin == Sorted(starts)
           rs == [k \in DOMAIN begin |-> [from |-> begin[k], to |-> EndOf(cs, begin[k])]]
<1>1. Len(cs) \in Nat /\ DOMAIN cs = 1 .. Len(cs)
  BY LenProperties
<1>2. starts \in SUBSET Nat /\ IsFiniteSet(starts)
  <2>1. starts \in SUBSET (1 .. Len(cs))
    BY <1>1 DEF Starts
  <2>2. IsFiniteSet(1 .. Len(cs)) /\ 1 .. Len(cs) \subseteq Nat
    BY <1>1, FS_Interval
  <2> HIDE DEF starts
  <2> QED
    BY <2>1, <2>2, FS_Subset
<1>3. Runs(cs) = rs
  BY DEF Runs, Starts, EndOf
<1> HIDE DEF starts
<1>4. /\ begin \in Seq(starts)
      /\ \A x \in starts : \E k \in DOMAIN begin : begin[k] = x
      /\ \A k, l \in DOMAIN begin : k < l => begin[k] < begin[l]
  BY <1>2, SortedIsOrdered
<1> HIDE DEF begin
<1>5. \A k \in DOMAIN begin : begin[k] \in Starts(cs)
  BY <1>4 DEF starts
<1>6. /\ DOMAIN rs = DOMAIN begin
      /\ \A k \in DOMAIN begin : rs[k].from = begin[k] /\ rs[k].to = EndOf(cs, begin[k])
  OBVIOUS
<1>7. rs \in Seq([from : Nat, to : Nat])
  <2>1. Len(begin) \in Nat /\ DOMAIN begin = 1 .. Len(begin)
    BY <1>4, LenProperties
  <2>2. ASSUME NEW k \in DOMAIN begin
        PROVE  [from |-> begin[k], to |-> EndOf(cs, begin[k])] \in [from : Nat, to : Nat]
    <3>1. begin[k] \in 1 .. Len(cs) /\ EndOf(cs, begin[k]) \in begin[k] + 1 .. Len(cs) + 1
      BY <1>5, EndIsBehind
    <3>2. begin[k] \in Nat /\ EndOf(cs, begin[k]) \in Nat
      BY <1>1, <3>1
    <3> QED
      BY <3>2
  <2>3. rs \in [1 .. Len(begin) -> [from : Nat, to : Nat]]
    BY <2>1, <2>2
  <2> QED
    BY <2>1, <2>3, SeqDef
<1>h. HIDE DEF rs
<1>8. \A k \in DOMAIN begin : IsRun(cs, rs[k])
  <2> SUFFICES ASSUME NEW k \in DOMAIN begin PROVE IsRun(cs, rs[k])
    OBVIOUS
  <2>1. begin[k] \in Starts(cs)
    BY <1>5
  <2>2. begin[k] = 1 \/ cs[begin[k] - 1] \in Blank
    BY <2>1 DEF Starts
  <2> QED
    BY <1>6, <2>1, <2>2, EndIsBehind DEF IsRun
<1>9. \A k, l \in DOMAIN begin : k < l => rs[k].from < rs[l].from /\ rs[k].to <= rs[l].from
  <2> SUFFICES ASSUME NEW k \in DOMAIN begin, NEW l \in DOMAIN begin, k < l
               PROVE  rs[k].from < rs[l].from /\ rs[k].to <= rs[l].from
    OBVIOUS
  <2>1. rs[k].from < rs[l].from
    BY <1>4, <1>6
  <2>2. IsRun(cs, rs[k]) /\ IsRun(cs, rs[l])
    BY <1>8
  <2>3. /\ rs[k].from \in 1 .. Len(cs) /\ rs[k].to \in rs[k].from + 1 .. Len(cs) + 1
        /\ rs[l].from \in 1 .. Len(cs)
    BY <2>2 DEF IsRun
  <2>4. ASSUME rs[l].from < rs[k].to PROVE FALSE
    <3>1. rs[l].from # 1 /\ rs[l].from - 1 \in rs[k].from .. rs[k].to - 1
      BY <1>1, <2>1, <2>3, <2>4
    <3>2. cs[rs[l].from - 1] \notin Blank
      BY <3>1, <2>2 DEF IsRun
    <3> QED
      BY <3>1, <3>2, <2>2 DEF IsRun
  <2> QED
    BY <1>1, <2>1, <2>3, <2>4
<1>10. ASSUME NEW p \in 1 .. Len(cs), cs[p] \notin Blank PROVE InRun(rs, p)
  <2>1. PICK m \in Starts(cs) : m <= p /\ p < EndOf(cs, m)
    BY <1>10, StartBefore
  <2>2. PICK k \in DOMAIN begin : begin[k] = m
    BY <1>4 DEF starts
  <2>3. rs[k].from = m /\ rs[k].to = EndOf(cs, m)
    BY <1>6, <2>2
  <2>4. m \in 1 .. Len(cs) /\ EndOf(cs, m) \in m + 1 .. Len(cs) + 1
    BY EndIsBehind
  <2>5. p \in m .. EndOf(cs, m) - 1
    BY <1>1, <2>1, <2>4
  <2> QED
    BY <1>6, <2>2, <2>3, <2>5 DEF InRun
<1> QED
  BY <1>3, <1>6, <1>7, <1>8, <1>9, <1>10 DEF AreRuns

\* The tokens of a unit: each begins and ends with something searchable, they cover all
\* of it and are in order.
OverInk(tok, u, ink) ==
    /\ tok.unit = u /\ tok.from \in ink /\ tok.to - 1 \in ink /\ tok.from < tok.to
InOrder(ts) == \A k, l \in DOMAIN ts : k < l /\ ts[k].unit = ts[l].unit => ts[k].from <= ts[l].from
Holds(ts, u, f) == \E k \in DOMAIN ts : ts[k].unit = u /\ ts[k].from <= f /\ f < ts[k].to

\* _build_tokens, of one unit whose searchable text is faithful.
LEMMA TokensAreOverInk ==
    ASSUME NEW u \in Nat, NEW title \in Nat, NEW t \in Seq(Char), NEW ink \in SUBSET Solid(t),
           NEW txt, Faithful(t, ink, 1, txt)
    PROVE  /\ TokensOf(u, txt, title) \in Seq(Token)
           /\ \A k \in DOMAIN TokensOf(u, txt, title) : OverInk(TokensOf(u, txt, title)[k], u, ink)
           /\ InOrder(TokensOf(u, txt, title))
           /\ \A f \in ink : Holds(TokensOf(u, txt, title), u, f)
<1> DEFINE cs == Characters(txt)
           rs == Runs(cs)
           Tok(k) == [unit |-> u, from |-> txt[rs[k].from].from, to |-> txt[rs[k].to - 1].to,
                      preferred |-> k = Len(rs) \/ txt[rs[k].to].c = "nl",
                      first |-> k = 1, title |-> title]
           ts == [k \in DOMAIN rs |-> Tok(k)]
<1>1. /\ txt \in Seq(Searched) /\ Len(txt) \in Nat /\ DOMAIN txt = 1 .. Len(txt)
      /\ \A p \in 1 .. Len(txt) : txt[p] \in Searched
  BY LenProperties DEF Faithful, IsText
<1>2. /\ cs \in Seq(Char) /\ Len(cs) = Len(txt)
      /\ \A p \in 1 .. Len(txt) : cs[p] = txt[p].c
  <2>1. cs = [p \in 1 .. Len(txt) |-> txt[p].c]
    BY <1>1 DEF Characters
  <2>2. \A p \in 1 .. Len(txt) : txt[p].c \in Char
    BY <1>1 DEF Searched
  <2> HIDE DEF cs
  <2>3. cs \in [1 .. Len(txt) -> Char] /\ DOMAIN cs = 1 .. Len(txt)
    BY <2>1, <2>2
  <2>4. cs \in Seq(Char)
    BY <1>1, <2>3, SeqDef
  <2>5. Len(cs) = Len(txt)
    BY <1>1, <2>3, <2>4, LenProperties
  <2> QED
    BY <2>1, <2>4, <2>5
<1>3. TokensOf(u, txt, title) = ts
  BY DEF TokensOf
<1> HIDE DEF cs
<1>4. /\ rs \in Seq([from : Nat, to : Nat]) /\ AreRuns(cs, rs)
      /\ \A p \in 1 .. Len(txt) : cs[p] \notin Blank => InRun(rs, p)
  BY <1>2, RunsAreRuns
<1> HIDE DEF rs
<1>5. Len(rs) \in Nat /\ DOMAIN rs = 1 .. Len(rs)
  BY <1>4, LenProperties
<1>6. ASSUME NEW p \in 1 .. Len(txt), cs[p] \notin Blank
      PROVE  txt[p].from \in ink /\ txt[p].to = txt[p].from + 1 /\ txt[p].from \in Nat
  <2>1. txt[p].c \notin Blank /\ Source(t, ink, txt[p])
    BY <1>1, <1>2, <1>6 DEF Faithful, OfSource
  <2>2. /\ txt[p].from \in ink
        /\ txt[p] = [c |-> t[txt[p].from], from |-> txt[p].from, to |-> txt[p].from + 1]
    BY <2>1 DEF Source
  <2>3. txt[p].to = txt[p].from + 1
    BY <2>2
  <2>4. txt[p].from \in Nat
    BY <1>1 DEF Searched
  <2> QED
    BY <2>2, <2>3, <2>4
<1>7. ASSUME NEW k \in DOMAIN rs
      PROVE  /\ rs[k].from \in 1 .. Len(txt) /\ rs[k].to - 1 \in 1 .. Len(txt)
             /\ rs[k].from <= rs[k].to - 1
             /\ cs[rs[k].from] \notin Blank /\ cs[rs[k].to - 1] \notin Blank
  <2>1. IsRun(cs, rs[k])
    BY <1>4 DEF AreRuns
  <2>2. rs[k].from \in 1 .. Len(txt) /\ rs[k].to \in rs[k].from + 1 .. Len(txt) + 1
    BY <2>1, <1>2 DEF IsRun
  <2>3. /\ rs[k].from \in rs[k].from .. rs[k].to - 1 /\ rs[k].to - 1 \in rs[k].from .. rs[k].to - 1
        /\ rs[k].to - 1 \in 1 .. Len(txt) /\ rs[k].from <= rs[k].to - 1
    BY <2>2, <1>1
  <2> QED
    BY <2>1, <2>2, <2>3 DEF IsRun
<1>8. ASSUME NEW p \in 1 .. Len(txt), NEW q \in 1 .. Len(txt), p <= q
      PROVE  txt[p].from <= txt[q].from
  <2>1. txt[p].from \in Nat /\ txt[q].from \in Nat
    BY <1>1 DEF Searched
  <2>2. CASE p = q
    BY <2>1, <2>2
  <2>3. CASE p < q
    BY <2>3, <1>1 DEF Faithful, InSourceOrder, Follows
  <2> QED
    BY <1>8, <1>1, <2>2, <2>3
<1>9. ASSUME NEW k \in DOMAIN rs
      PROVE  Tok(k) \in Token /\ OverInk(Tok(k), u, ink)
  <2> DEFINE a == txt[rs[k].from].from
             b == txt[rs[k].to - 1].from
  <2>1. a \in ink /\ a \in Nat /\ b \in ink /\ b \in Nat /\ a <= b /\ txt[rs[k].to - 1].to = b + 1
    BY <1>6, <1>7, <1>8
  <2> HIDE DEF a, b
  <2>2. b + 1 - 1 = b /\ a < b + 1 /\ b + 1 \in Nat
    BY <2>1
  <2>3. Tok(k) = [unit |-> u, from |-> a, to |-> b + 1,
                  preferred |-> k = Len(rs) \/ txt[rs[k].to].c = "nl",
                  first |-> k = 1, title |-> title]
    BY <2>1 DEF a
  <2>4. /\ (k = Len(rs) \/ txt[rs[k].to].c = "nl") \in BOOLEAN
        /\ (k = 1) \in BOOLEAN
    OBVIOUS
  <2> DEFINE p == (k = Len(rs) \/ txt[rs[k].to].c = "nl")
             f == (k = 1)
  <2>5. Tok(k) = [unit |-> u, from |-> a, to |-> b + 1, preferred |-> p, first |-> f,
                  title |-> title]
    BY <2>3
  <2>6. p \in BOOLEAN /\ f \in BOOLEAN
    BY <2>4
  <2> HIDE DEF p, f, Tok
  <2>7. Tok(k) \in Token
    BY <2>1, <2>2, <2>5, <2>6 DEF Token
  <2>8. Tok(k).unit = u /\ Tok(k).from = a /\ Tok(k).to = b + 1
    BY <2>5
  <2> QED
    BY <2>1, <2>2, <2>7, <2>8 DEF OverInk
<1>10. ts \in Seq(Token)
  <2>1. ts \in [1 .. Len(rs) -> Token]
    <3> HIDE DEF Tok
    <3> QED
      BY <1>5, <1>9
  <2> HIDE DEF ts
  <2> QED
    BY <1>5, <2>1, SeqDef
<1>11. DOMAIN ts = DOMAIN rs /\ \A k \in DOMAIN rs : ts[k] = Tok(k)
  OBVIOUS
<1>12. \A k \in DOMAIN rs : /\ ts[k].unit = u /\ ts[k].from = txt[rs[k].from].from
                            /\ ts[k].to = txt[rs[k].to - 1].to
  OBVIOUS
<1> HIDE DEF ts
<1>13. \A k \in DOMAIN ts : OverInk(ts[k], u, ink)
  <2> HIDE DEF Tok
  <2> QED
    BY <1>9, <1>11
<1>14. InOrder(ts)
  <2> SUFFICES ASSUME NEW k \in DOMAIN rs, NEW l \in DOMAIN rs, k < l
               PROVE  ts[k].from <= ts[l].from
    BY <1>11 DEF InOrder
  <2>1. rs[k].from < rs[l].from
    BY <1>4 DEF AreRuns
  <2>2. rs[k].from \in 1 .. Len(txt) /\ rs[l].from \in 1 .. Len(txt)
    BY <1>7
  <2>3. rs[k].from <= rs[l].from
    BY <2>1, <2>2, <1>1
  <2> QED
    BY <2>2, <2>3, <1>8, <1>12
<1>15. ASSUME NEW f \in ink PROVE Holds(ts, u, f)
  <2>1. f >= 1 /\ f \in Nat
    <3>1. Len(t) \in Nat /\ f \in 1 .. Len(t)
      BY LenProperties DEF Solid
    <3> QED
      BY <3>1
  <2>2. PICK p \in 1 .. Len(txt) : txt[p].from = f /\ txt[p].c \notin Blank
    BY <2>1, <1>1 DEF Faithful, AllShown, Shown
  <2>3. PICK k \in DOMAIN rs : p \in rs[k].from .. rs[k].to - 1
    BY <2>2, <1>2, <1>4 DEF InRun
  <2>4. rs[k].from \in 1 .. Len(txt) /\ rs[k].to - 1 \in 1 .. Len(txt)
    BY <1>7
  <2>5. rs[k].from <= p /\ p <= rs[k].to - 1
    BY <2>3, <2>4, <1>1
  <2>6. txt[rs[k].from].from <= f /\ f <= txt[rs[k].to - 1].from
    BY <2>2, <2>4, <2>5, <1>8
  <2>7. txt[rs[k].to - 1].to = txt[rs[k].to - 1].from + 1 /\ txt[rs[k].to - 1].from \in Nat
    BY <1>6, <1>7
  <2>8. ts[k].unit = u /\ ts[k].from = txt[rs[k].from].from /\ ts[k].to = txt[rs[k].to - 1].to
    BY <1>12
  <2>9. ts[k].from <= f /\ f < ts[k].to
    BY <2>1, <2>6, <2>7, <2>8
  <2> QED
    BY <1>11, <2>8, <2>9 DEF Holds
<1> QED
  BY <1>3, <1>10, <1>13, <1>14, <1>15

-----------------------------------------------------------------------------
(* The stream of a book.                                                   *)

\* What the first k units of ss give in one sequence.
Joint(ss, k, flat) ==
    /\ flat \in Seq(Token)
    /\ \A m \in DOMAIN flat : \E u \in 1 .. k : \E j \in DOMAIN ss[u] : flat[m] = ss[u][j]
    /\ \A u \in 1 .. k : \A j \in DOMAIN ss[u] : \E m \in DOMAIN flat : flat[m] = ss[u][j]
    /\ InOrder(flat)
OfUnits(ss) ==
    \A u \in DOMAIN ss : InOrder(ss[u]) /\ \A j \in DOMAIN ss[u] : ss[u][j].unit = u

\* One more unit.
LEMMA JointLonger ==
    ASSUME NEW ss \in Seq(Seq(Token)), OfUnits(ss), NEW k \in Nat, k + 1 \in 1 .. Len(ss),
           NEW flat, Joint(ss, k, flat)
    PROVE  Joint(ss, k + 1, flat \o ss[k + 1])
<1> DEFINE all == flat \o ss[k + 1]
           a == Len(flat)
           b == Len(ss[k + 1])
<1>1. Len(ss) \in Nat /\ DOMAIN ss = 1 .. Len(ss) /\ ss[k + 1] \in Seq(Token)
  BY LenProperties
<1>2. flat \in Seq(Token)
  BY DEF Joint
<1>3. /\ a \in Nat /\ b \in Nat /\ DOMAIN flat = 1 .. a /\ DOMAIN ss[k + 1] = 1 .. b
      /\ all \in Seq(Token) /\ DOMAIN all = 1 .. a + b
      /\ \A m \in 1 .. a : all[m] = flat[m]
      /\ \A m \in a + 1 .. a + b : m - a \in 1 .. b /\ all[m] = ss[k + 1][m - a]
      /\ \A m \in 1 .. b : m + a \in a + 1 .. a + b /\ all[m + a] = ss[k + 1][m]
  <2>1. a \in Nat /\ DOMAIN flat = 1 .. a
    BY <1>2, LenProperties
  <2>2. b \in Nat /\ DOMAIN ss[k + 1] = 1 .. b
    BY <1>1, LenProperties
  <2>3. /\ all \in Seq(Token) /\ Len(all) = a + b
        /\ \A m \in 1 .. a + b : all[m] = IF m <= a THEN flat[m] ELSE ss[k + 1][m - a]
    BY <1>1, <1>2, ConcatProperties
  <2> HIDE DEF all, a, b
  <2>4. DOMAIN all = 1 .. a + b
    BY <2>3, LenProperties
  <2> QED
    BY <2>1, <2>2, <2>3, <2>4
<1> HIDE DEF all, a, b
<1>4. \A m \in 1 .. a + b : m \in 1 .. a \/ m \in a + 1 .. a + b
  BY <1>3
<1>5. \A u \in 1 .. k + 1 : u \in 1 .. k \/ u = k + 1
  OBVIOUS
<1>6. \A u \in 1 .. k : u \in 1 .. k + 1 /\ u # k + 1
  OBVIOUS
<1>7. k + 1 \in 1 .. k + 1
  OBVIOUS
<1>8. ASSUME NEW m \in 1 .. a
      PROVE  \E u \in 1 .. k : all[m].unit = u /\ \E j \in DOMAIN ss[u] : all[m] = ss[u][j]
  <2>1. PICK u \in 1 .. k : \E j \in DOMAIN ss[u] : flat[m] = ss[u][j]
    BY <1>3 DEF Joint
  <2>2. PICK j \in DOMAIN ss[u] : flat[m] = ss[u][j]
    BY <2>1
  <2>3. u \in DOMAIN ss
    BY <1>1
  <2>4. ss[u][j].unit = u
    BY <2>2, <2>3 DEF OfUnits
  <2> QED
    BY <2>2, <2>4, <1>3
<1>9. ASSUME NEW m \in a + 1 .. a + b
      PROVE  all[m].unit = k + 1 /\ \E j \in DOMAIN ss[k + 1] : all[m] = ss[k + 1][j]
  <2>1. m - a \in DOMAIN ss[k + 1] /\ all[m] = ss[k + 1][m - a]
    BY <1>3
  <2> QED
    BY <2>1, <1>1 DEF OfUnits
<1>10. \A m \in DOMAIN all : \E u \in 1 .. k + 1 : \E j \in DOMAIN ss[u] : all[m] = ss[u][j]
  <2> SUFFICES ASSUME NEW m \in 1 .. a + b
               PROVE  \E u \in 1 .. k + 1 : \E j \in DOMAIN ss[u] : all[m] = ss[u][j]
    BY <1>3
  <2>1. CASE m \in 1 .. a
    BY <2>1, <1>8, <1>6
  <2>2. CASE m \in a + 1 .. a + b
    BY <2>2, <1>9, <1>7
  <2> QED
    BY <1>4, <2>1, <2>2
<1>11. ASSUME NEW u \in 1 .. k + 1, NEW j \in DOMAIN ss[u]
       PROVE  \E m \in DOMAIN all : all[m] = ss[u][j]
  <2>1. CASE u \in 1 .. k
    <3>1. PICK m \in 1 .. a : flat[m] = ss[u][j]
      BY <2>1, <1>3 DEF Joint
    <3>2. m \in 1 .. a + b
      BY <1>3
    <3> QED
      BY <3>1, <3>2, <1>3
  <2>2. CASE u = k + 1
    <3>1. j \in 1 .. b
      BY <2>2, <1>3
    <3>2. j + a \in a + 1 .. a + b /\ all[j + a] = ss[k + 1][j]
      BY <3>1, <1>3
    <3>3. j + a \in 1 .. a + b
      BY <3>2, <1>3
    <3> QED
      BY <2>2, <3>2, <3>3, <1>3
  <2> QED
    BY <1>5, <2>1, <2>2
<1>12. InOrder(all)
  <2> SUFFICES ASSUME NEW m \in 1 .. a + b, NEW l \in 1 .. a + b, m < l, all[m].unit = all[l].unit
               PROVE  all[m].from <= all[l].from
    BY <1>3 DEF InOrder
  <2>1. CASE m \in 1 .. a /\ l \in 1 .. a
    BY <2>1, <1>3 DEF Joint, InOrder
  <2>2. CASE m \in a + 1 .. a + b /\ l \in a + 1 .. a + b
    <3>1. m - a < l - a
      BY <1>3
    <3>2. InOrder(ss[k + 1])
      BY <1>1 DEF OfUnits
    <3>3. /\ m - a \in DOMAIN ss[k + 1] /\ l - a \in DOMAIN ss[k + 1]
          /\ all[m] = ss[k + 1][m - a] /\ all[l] = ss[k + 1][l - a]
      BY <2>2, <1>3
    <3>4. PICK x, y \in DOMAIN ss[k + 1] : x < y /\ all[m] = ss[k + 1][x] /\ all[l] = ss[k + 1][y]
      BY <3>1, <3>3
    <3> QED
      BY <3>2, <3>4 DEF InOrder
  <2>3. ~(m \in 1 .. a /\ l \in a + 1 .. a + b)
    BY <1>6, <1>8, <1>9
  <2>4. ~(m \in a + 1 .. a + b /\ l \in 1 .. a)
    BY <1>3
  <2> QED
    BY <1>4, <2>1, <2>2, <2>3, <2>4
<1> QED
  BY <1>3, <1>10, <1>11, <1>12 DEF Joint, all

Longer(ss, H, k) == IF k = 1 THEN ss[k] ELSE H[k - 1] \o ss[k]

\* FlattenSeq joins the tokens of all units; its recursion ends.
LEMMA FlatIsJoint ==
    ASSUME NEW ss \in Seq(Seq(Token)), OfUnits(ss)
    PROVE  Joint(ss, Len(ss), FlattenSeq(ss))
<1> DEFINE n == Len(ss)
           S == 1 .. n
           V == Seq(Token)
           mu == [k \in S |-> k]
           D == [k \in S |-> [H \in [S -> V] |-> Longer(ss, H, k)]]
           Body(H) == [k \in S |-> Longer(ss, H, k)]
           all == CHOOSE H : H = Body(H)
<1>1. n \in Nat /\ DOMAIN ss = 1 .. n /\ \A k \in S : ss[k] \in V
  BY LenProperties
<1>2. CASE n = 0
  <2>1. ss = <<>>
    BY <1>2, EmptySeq
  <2>2. FlattenSeq(ss) = <<>>
    BY <1>2, <2>1 DEF FlattenSeq
  <2>3. 1 .. n = {} /\ <<>> \in Seq(Token) /\ DOMAIN <<>> = {}
    BY <1>2
  <2> QED
    BY <1>2, <2>2, <2>3 DEF Joint, InOrder
<1>3. CASE n # 0
  <2>1. mu \in [S -> Nat]
    BY <1>1
  <2>2. \A k \in S : k # 1 => k - 1 \in S /\ mu[k - 1] < mu[k]
    BY <1>1
  <2>3. D \in [S -> [[S -> V] -> V]]
    <3> SUFFICES ASSUME NEW k \in S, NEW H \in [S -> V] PROVE Longer(ss, H, k) \in V
      OBVIOUS
    <3>1. CASE k = 1
      BY <3>1, <1>1 DEF Longer
    <3>2. CASE k # 1
      <4>1. H[k - 1] \in V /\ ss[k] \in V
        BY <3>2, <2>2, <1>1
      <4>2. Longer(ss, H, k) = H[k - 1] \o ss[k]
        BY <3>2 DEF Longer
      <4> HIDE DEF S
      <4> QED
        BY <4>1, <4>2, ConcatProperties
    <3> QED
      BY <3>1, <3>2
  <2>4. UsesLess(S, V, mu, D)
    <3> SUFFICES ASSUME NEW k \in S, NEW f \in [S -> V], NEW g \in [S -> V],
                        \A q \in S : mu[q] < mu[k] => f[q] = g[q]
                 PROVE  Longer(ss, f, k) = Longer(ss, g, k)
      BY DEF UsesLess
    <3>1. k # 1 => f[k - 1] = g[k - 1]
      <4> HIDE DEF S, mu
      <4> QED
        BY <2>2
    <3> QED
      BY <3>1, Zenon DEF Longer
  <2>5. PICK F \in [S -> V] : \A k \in S : F[k] = D[k][F]
    <3>1. Solvable(S, V, D)
      <4>1. V # {}
        BY EmptySeq
      <4> HIDE DEF S, V, mu, D
      <4> QED
        BY <2>1, <2>3, <2>4, <4>1, Recursion
    <3> QED
      BY <3>1 DEF Solvable
  <2>6. F = Body(F)
    BY <2>5
  <2>7. FlattenSeq(ss) = all[n]
    BY <1>3 DEF FlattenSeq, Longer
  <2> HIDE DEF Body
  <2>8. all = Body(all)
    BY <2>6
  <2> HIDE DEF all
  <2>9. \A k \in S : all[k] = Longer(ss, all, k)
    BY <2>8 DEF Body
  <2> DEFINE P == {k \in S : Joint(ss, k, all[k])}
  <2>10. \A k \in S : (\A q \in S : mu[q] < mu[k] => q \in P) => k \in P
    <3> SUFFICES ASSUME NEW k \in S, \A q \in S : mu[q] < mu[k] => q \in P
                 PROVE  Joint(ss, k, all[k])
      OBVIOUS
    <3>1. CASE k = 1
      <4>1. all[k] = ss[1] /\ ss[1] \in Seq(Token) /\ InOrder(ss[1])
        BY <3>1, <1>1, <2>9 DEF Longer, OfUnits
      <4>2. \A u \in 1 .. 1 : u = 1
        OBVIOUS
      <4>3. 1 \in 1 .. 1
        OBVIOUS
      <4> QED
        BY <3>1, <4>1, <4>2, <4>3 DEF Joint
    <3>2. CASE k # 1
      <4>1. k - 1 \in S /\ k - 1 \in P
        <5> HIDE DEF S, P, mu
        <5> QED
          BY <3>2, <2>2
      <4>2. Joint(ss, k - 1, all[k - 1])
        BY <4>1
      <4>3. all[k] = all[k - 1] \o ss[k]
        BY <3>2, <2>9 DEF Longer
      <4>4. k - 1 \in Nat /\ k - 1 + 1 = k /\ k \in 1 .. Len(ss)
        BY <1>1, <4>1
      <4>5. Joint(ss, k - 1 + 1, all[k - 1] \o ss[k - 1 + 1])
        BY <4>2, <4>4, JointLonger
      <4> QED
        BY <4>3, <4>4, <4>5
    <3> QED
      BY <3>1, <3>2
  <2>11. P = S
    <3>1. P \in SUBSET S
      OBVIOUS
    <3> HIDE DEF P, S, mu
    <3>2. Descends(S, mu, P)
      BY <2>10 DEF Descends
    <3> QED
      BY <2>1, <3>1, <3>2, Descent
  <2>12. n \in S
    BY <1>1, <1>3
  <2> QED
    BY <2>7, <2>11, <2>12
<1> QED
  BY <1>2, <1>3

\* Ink, of a unit of any book.
InkIn(b, s, u) == InkOf(b.texts[u], Removed(b.texts, b.kind # "epub", s)[u], s)

\* Every unit of a book is normalized faithfully.
LEMMA SearchableIsFaithful ==
    ASSUME NEW b \in Books, NEW s
    PROVE  /\ b.texts \in Seq(Seq(Char)) /\ DOMAIN Searchable(b, s) = DOMAIN b.texts
           /\ \A u \in DOMAIN b.texts :
                 /\ b.texts[u] \in Seq(Char) /\ InkIn(b, s, u) \in SUBSET Solid(b.texts[u])
                 /\ Faithful(b.texts[u], InkIn(b, s, u), 1, Searchable(b, s)[u])
<1> DEFINE gone == Removed(b.texts, b.kind # "epub", s)
<1>1. b.texts \in Seq(Seq(Char))
  BY ChunkingAssumption
<1>2. Searchable(b, s) = [u \in DOMAIN b.texts |-> Normalized(b.texts[u], gone[u], s)]
  BY DEF Searchable
<1> HIDE DEF gone
<1>3. ASSUME NEW u \in DOMAIN b.texts
      PROVE  /\ b.texts[u] \in Seq(Char) /\ InkIn(b, s, u) \in SUBSET Solid(b.texts[u])
             /\ Faithful(b.texts[u], InkIn(b, s, u), 1, Searchable(b, s)[u])
  <2>1. b.texts[u] \in Seq(Char)
    BY <1>1, LenProperties
  <2>2. InkIn(b, s, u) = InkOf(b.texts[u], gone[u], s)
    BY DEF InkIn, gone
  <2>3. InkIn(b, s, u) \in SUBSET Solid(b.texts[u])
    BY <2>2 DEF InkOf, Solid
  <2>4. Faithful(b.texts[u], InkIn(b, s, u), 1, Searchable(b, s)[u])
    BY <1>2, <2>1, <2>2, NormalizedIsFaithful
  <2> QED
    BY <2>1, <2>3, <2>4
<1> QED
  BY <1>1, <1>2, <1>3

\* The stream has the tokens of all units, each of ink, and in order within a unit.
LEMMA StreamIsOverInk ==
    ASSUME NEW b \in Books, NEW s
    PROVE  /\ Stream(b, s) \in Seq(Token)
           /\ \A k \in DOMAIN Stream(b, s) :
                 \E u \in DOMAIN b.texts : OverInk(Stream(b, s)[k], u, InkIn(b, s, u))
           /\ InOrder(Stream(b, s))
           /\ \A u \in DOMAIN b.texts : \A f \in InkIn(b, s, u) : Holds(Stream(b, s), u, f)
<1> DEFINE txt == Searchable(b, s)
           ss == [u \in DOMAIN txt |-> TokensOf(u, txt[u], b.titles[u])]
<1>1. Len(b.texts) \in Nat /\ DOMAIN b.texts = 1 .. Len(b.texts) /\ DOMAIN txt = 1 .. Len(b.texts)
  BY SearchableIsFaithful, LenProperties
<1>2. \A u \in 1 .. Len(b.texts) : b.titles[u] \in Nat /\ u \in Nat
  <2>1. b.titles \in [DOMAIN b.texts -> Nat]
    BY ChunkingAssumption
  <2> QED
    BY <1>1, <2>1
<1>3. Stream(b, s) = FlattenSeq(ss)
  BY DEF Stream
<1>4. ASSUME NEW u \in 1 .. Len(b.texts)
      PROVE  /\ ss[u] \in Seq(Token)
             /\ \A k \in DOMAIN ss[u] : OverInk(ss[u][k], u, InkIn(b, s, u))
             /\ InOrder(ss[u])
             /\ \A f \in InkIn(b, s, u) : Holds(ss[u], u, f)
  <2>1. ss[u] = TokensOf(u, txt[u], b.titles[u])
    BY <1>1
  <2>2. /\ b.texts[u] \in Seq(Char) /\ InkIn(b, s, u) \in SUBSET Solid(b.texts[u])
        /\ Faithful(b.texts[u], InkIn(b, s, u), 1, txt[u])
    BY <1>1, SearchableIsFaithful
  <2>3. b.titles[u] \in Nat /\ u \in Nat
    BY <1>2
  <2> HIDE DEF ss, txt
  <2> QED
    BY <2>1, <2>2, <2>3, TokensAreOverInk
<1>5. DOMAIN ss = 1 .. Len(b.texts)
  BY <1>1
<1> HIDE DEF ss, txt
<1>6. ss \in Seq(Seq(Token)) /\ Len(ss) = Len(b.texts)
  <2>1. ss \in [1 .. Len(b.texts) -> Seq(Token)]
    <3>1. ss = [u \in 1 .. Len(b.texts) |-> ss[u]]
      BY <1>1 DEF ss
    <3> QED
      BY <1>4, <3>1
  <2>2. ss \in Seq(Seq(Token))
    BY <1>1, <2>1, SeqDef
  <2> QED
    BY <1>1, <1>5, <2>2, LenProperties
<1>7. OfUnits(ss)
  BY <1>4, <1>5 DEF OfUnits, OverInk
<1>8. Joint(ss, Len(b.texts), Stream(b, s))
  BY <1>3, <1>6, <1>7, FlatIsJoint
<1>9. ASSUME NEW k \in DOMAIN Stream(b, s)
      PROVE  \E u \in DOMAIN b.texts : OverInk(Stream(b, s)[k], u, InkIn(b, s, u))
  <2>1. PICK u \in 1 .. Len(b.texts) : \E j \in DOMAIN ss[u] : Stream(b, s)[k] = ss[u][j]
    BY <1>8 DEF Joint
  <2>2. OverInk(Stream(b, s)[k], u, InkIn(b, s, u))
    BY <1>4, <2>1
  <2> QED
    BY <1>1, <2>2
<1>10. ASSUME NEW u \in DOMAIN b.texts, NEW f \in InkIn(b, s, u)
       PROVE  Holds(Stream(b, s), u, f)
  <2>1. u \in 1 .. Len(b.texts) /\ Holds(ss[u], u, f)
    BY <1>1, <1>4
  <2>2. PICK j \in DOMAIN ss[u] : ss[u][j].unit = u /\ ss[u][j].from <= f /\ f < ss[u][j].to
    BY <2>1 DEF Holds
  <2>3. PICK m \in DOMAIN Stream(b, s) : Stream(b, s)[m] = ss[u][j]
    BY <1>8, <2>1, <2>2 DEF Joint
  <2> QED
    BY <2>2, <2>3 DEF Holds
<1> QED
  BY <1>8, <1>9, <1>10 DEF Joint

-----------------------------------------------------------------------------
(* The loop: what holds between two cuts.                                  *)

Chunk == [from : Nat, to : Nat, title : Nat]

Latest == chunks[Len(chunks)]

Typed ==
    /\ settings \in Settings
    /\ tokens \in Seq(Token)
    /\ chunks \in Seq(Chunk)
    /\ i \in Nat \ {0}
    /\ at \in {"cutting", "done"}

\* The next chunk begins in the stream, behind the beginning and not beyond the end of
\* the latest one; the last one ends with the stream.
Joined ==
    /\ at = "cutting" => i <= Len(tokens)
    /\ chunks = <<>> => i = 1 /\ (at = "done" => tokens = <<>>)
    /\ chunks # <<>> => /\ Latest.to <= Len(tokens) + 1
                        /\ at = "cutting" => Latest.from < i /\ i <= Latest.to
                        /\ at = "done" => Latest.to = Len(tokens) + 1

\* No gap in front of the end of the latest chunk.
Covered(k) == \E m \in DOMAIN chunks : chunks[m].from <= k /\ k < chunks[m].to
Gapless == chunks # <<>> => \A k \in 1 .. Latest.to - 1 : Covered(k)

InBudget(c) ==
    /\ c.from < c.to
    /\ \/ c.title + (c.to - c.from) <= settings.max
       \/ c.title >= settings.target /\ c.to = c.from + 1
InStep(m) == m > 1 => chunks[m - 1].from < chunks[m].from /\ chunks[m].from <= chunks[m - 1].to

Within == \A m \in DOMAIN chunks : InBudget(chunks[m]) /\ InStep(m)

\* What is cut is what the book gives, and the chunks lie within it.
Derived ==
    /\ book \in Books
    /\ text = Searchable(book, settings)
    /\ tokens = Stream(book, settings)
InStream(c) == c.from \in DOMAIN tokens /\ c.to - 1 \in DOMAIN tokens
Inside == \A m \in DOMAIN chunks : InStream(chunks[m])

IInv == Typed /\ Derived /\ Joined /\ Gapless /\ Within /\ Inside

-----------------------------------------------------------------------------
(* One cut.                                                                *)

\* A cut lies behind the beginning of the chunk and not beyond the limit, and the limit
\* is within the stream and the budget.
LEMMA CutIsInBudget ==
  ASSUME Typed, i <= Len(tokens), NEW cut \in Cuts
  PROVE  /\ cut \in Nat /\ Title \in Nat
         /\ i < cut /\ cut <= Len(tokens) + 1
         /\ InBudget([from |-> i, to |-> cut, title |-> Title])
<1> DEFINE room == IF Title < settings.target THEN settings.target - Title ELSE 1
<1>1. settings \in Setting /\ settings.target <= settings.max
  BY ChunkingAssumption DEF Typed
<1>2. /\ settings.target \in Nat \ {0} /\ settings.max \in Nat /\ settings.overlap \in Nat
      /\ settings.titlePrefix \in BOOLEAN
  BY <1>1 DEF Setting
<1>3. tokens[i] \in Token /\ Len(tokens) \in Nat /\ i \in Nat
  BY DEF Typed
<1>4. Title \in Nat
  BY <1>3 DEF Title, Token
<1>5. room \in Nat \ {0} /\ (Title + room <= settings.max \/ (Title >= settings.target /\ room = 1))
  BY <1>1, <1>2, <1>4
<1>6. /\ Limit \in Nat /\ i < Limit
      /\ Limit <= Len(tokens) + 1 /\ Limit <= i + room
  BY <1>3, <1>5 DEF Limit
<1>7. cut \in Nat /\ i < cut /\ cut <= Limit
  <2> DEFINE window == {k \in i .. Limit - 1 : k + Lookback >= Limit /\ tokens[k].preferred}
  <2>1. cut = Limit \/ \E k \in window : cut = k + 1
    BY DEF Cuts
  <2>2. CASE cut = Limit
    BY <2>2, <1>6
  <2>3. CASE \E k \in i .. Limit - 1 : cut = k + 1
    BY <2>3, <1>3, <1>6
  <2> QED
    BY <2>1, <2>2, <2>3
<1>8. InBudget([from |-> i, to |-> cut, title |-> Title])
  <2> HIDE DEF room
  <2> DEFINE c == [from |-> i, to |-> cut, title |-> Title]
  <2>1. c.from = i /\ c.to = cut /\ c.title = Title
    OBVIOUS
  <2>2. i < cut /\ (Title + (cut - i) <= settings.max \/ (Title >= settings.target /\ cut = i + 1))
    BY <1>2, <1>3, <1>4, <1>5, <1>6, <1>7
  <2> HIDE DEF c
  <2>3. InBudget(c)
    BY <2>1, <2>2 DEF InBudget
  <2> QED
    BY <2>3 DEF c
<1> QED
  BY <1>3, <1>4, <1>6, <1>7, <1>8

\* The next chunk begins later, and where this one ends at the latest.
LEMMA Progress ==
  ASSUME Typed, NEW cut \in Nat, i < cut
  PROVE  NextStart(cut) \in Nat /\ i < NextStart(cut) /\ NextStart(cut) <= cut
<1>1. settings.overlap \in Nat /\ i \in Nat
  BY ChunkingAssumption DEF Typed, Setting
<1> QED
  BY <1>1 DEF NextStart

-----------------------------------------------------------------------------
(* The invariant.                                                          *)

\* The invariant holds when the loop begins.
LEMMA InitIsSound == Init => IInv
<1> SUFFICES ASSUME Init PROVE IInv
  OBVIOUS
<1>1. tokens \in Seq(Token)
  BY StreamIsOverInk DEF Init
<1>2. Typed
  BY <1>1 DEF Init, Typed
<1>3. Joined
  BY <1>1, EmptySeq DEF Init, Joined
<1> QED
  BY <1>2, <1>3 DEF Init, IInv, Derived, Gapless, Within, Inside

\* Every cut keeps it.
LEMMA CutKeepsSound == IInv /\ Cut => IInv'
<1> SUFFICES ASSUME IInv, Cut PROVE IInv'
  OBVIOUS
<1>1. PICK cut \in Cuts :
        /\ chunks' = Append(chunks, [from |-> i, to |-> cut, title |-> Title])
        /\ at' = IF cut > Len(tokens) THEN "done" ELSE "cutting"
        /\ i' = IF cut > Len(tokens) THEN i ELSE NextStart(cut)
  BY DEF Cut
<1>2. /\ settings' = settings /\ tokens' = tokens
      /\ Typed /\ i <= Len(tokens) /\ Len(tokens) \in Nat /\ i \in Nat
  BY DEF Cut, IInv, Joined, Typed
<1> DEFINE c == [from |-> i, to |-> cut, title |-> Title]
<1>3. cut \in Nat /\ Title \in Nat /\ i < cut /\ cut <= Len(tokens) + 1 /\ InBudget(c)
  BY <1>2, CutIsInBudget
<1>4. c \in Chunk /\ c.from = i /\ c.to = cut
  BY <1>2, <1>3 DEF Chunk
<1>5. chunks \in Seq(Chunk) /\ chunks' = Append(chunks, c)
  BY <1>1, <1>2 DEF Typed
<1>h. HIDE DEF c
<1>6. /\ chunks' \in Seq(Chunk) /\ Len(chunks) \in Nat /\ Len(chunks') = Len(chunks) + 1
      /\ DOMAIN chunks = 1 .. Len(chunks) /\ DOMAIN chunks' = 1 .. Len(chunks) + 1
      /\ \A m \in 1 .. Len(chunks) : chunks'[m] = chunks[m]
      /\ chunks'[Len(chunks) + 1] = c
  BY <1>4, <1>5
<1>7. Latest' = c /\ chunks' # <<>>
  BY <1>6 DEF Latest
<1>8. i' \in Nat \ {0} /\ at' \in {"cutting", "done"}
      /\ (at' = "cutting" => i' <= Len(tokens) /\ i < i' /\ i' <= cut)
      /\ (at' = "done" => cut = Len(tokens) + 1)
  <2>1. CASE cut > Len(tokens)
    BY <2>1, <1>1, <1>2, <1>3 DEF Typed
  <2>2. CASE ~(cut > Len(tokens))
    <3>1. NextStart(cut) \in Nat /\ i < NextStart(cut) /\ NextStart(cut) <= cut
      BY <1>2, <1>3, Progress
    <3>2. at' = "cutting" /\ i' = NextStart(cut)
      BY <2>2, <1>1
    <3> QED
      BY <2>2, <3>1, <3>2, <1>2, <1>3
  <2> QED
    BY <2>1, <2>2
<1>9. Typed'
  BY <1>2, <1>6, <1>8 DEF Typed
<1>10. Joined'
  BY <1>2, <1>3, <1>4, <1>7, <1>8 DEF Joined
<1>11. Gapless'
  <2> SUFFICES ASSUME NEW k \in 1 .. cut - 1 PROVE Covered(k)'
    BY <1>3, <1>4, <1>7 DEF Gapless
  <2>1. CASE k >= i
    <3>1. chunks'[Len(chunks) + 1].from <= k /\ k < chunks'[Len(chunks) + 1].to
      BY <2>1, <1>2, <1>3, <1>4, <1>6
    <3> QED
      BY <3>1, <1>6 DEF Covered
  <2>2. CASE k < i
    <3>1. chunks # <<>> /\ Latest \in Chunk /\ i <= Latest.to
      BY <2>2, <1>2, <1>5 DEF IInv, Joined, Cut, Latest
    <3>2. Covered(k)
      BY <3>1, <2>2, <1>2 DEF IInv, Gapless, Chunk
    <3> QED
      BY <3>2, <1>6 DEF Covered
  <2> QED
    BY <2>1, <2>2, <1>2, <1>3
<1>12. Within'
  <2> SUFFICES ASSUME NEW m \in DOMAIN chunks'
               PROVE  InBudget(chunks'[m]) /\ InStep(m)' /\ settings' = settings
    BY <1>2 DEF Within, InBudget
  <2>1. CASE m \in 1 .. Len(chunks)
    <3>1. InBudget(chunks[m]) /\ InStep(m)
      BY <2>1, <1>6 DEF IInv, Within
    <3>2. chunks'[m] = chunks[m] /\ (m > 1 => chunks'[m - 1] = chunks[m - 1])
      BY <2>1, <1>6
    <3> QED
      BY <3>1, <3>2, <1>2 DEF InStep
  <2>2. CASE m = Len(chunks) + 1
    <3>1. InBudget(chunks'[m])
      BY <2>2, <1>3, <1>6 DEF c
    <3>2. ASSUME m > 1
          PROVE  chunks'[m - 1].from < chunks'[m].from /\ chunks'[m].from <= chunks'[m - 1].to
      <4>1. chunks # <<>> /\ chunks'[m - 1] = Latest
        <5>1. Len(chunks) \in 1 .. Len(chunks) /\ m - 1 = Len(chunks)
          BY <3>2, <2>2, <1>6
        <5> QED
          BY <5>1, <1>5, <1>6 DEF Latest
      <4>2. Latest.from < i /\ i <= Latest.to
        BY <4>1 DEF IInv, Joined, Cut
      <4> QED
        BY <4>1, <4>2, <2>2, <1>4, <1>6
    <3> QED
      BY <3>1, <3>2, <1>2 DEF InStep
  <2> QED
    BY <2>1, <2>2, <1>6
<1>13. Derived'
  BY DEF IInv, Derived, Cut
<1>14. Inside'
  <2> SUFFICES ASSUME NEW m \in DOMAIN chunks' PROVE InStream(chunks'[m]) /\ tokens' = tokens
    BY <1>2 DEF Inside, InStream
  <2>1. CASE m \in 1 .. Len(chunks)
    BY <2>1, <1>2, <1>6 DEF IInv, Inside
  <2>2. CASE m = Len(chunks) + 1
    <3>1. chunks'[m].from = i /\ chunks'[m].to = cut
      BY <2>2, <1>4, <1>6
    <3>2. i \in 1 .. Len(tokens) /\ cut - 1 \in 1 .. Len(tokens)
      BY <1>2, <1>3 DEF Typed
    <3>3. DOMAIN tokens = 1 .. Len(tokens)
      BY <1>2, LenProperties DEF Typed
    <3> QED
      BY <3>1, <3>2, <3>3, <1>2 DEF InStream
  <2> QED
    BY <2>1, <2>2, <1>6
<1> QED
  BY <1>9, <1>10, <1>11, <1>12, <1>13, <1>14 DEF IInv

LEMMA StutterKeepsSound == IInv /\ UNCHANGED vars => IInv'
  BY DEF vars, IInv, Typed, Derived, Joined, Gapless, Within, Inside, InStream, Latest, Covered,
         InBudget, InStep

\* The invariant says that nothing is truncated.
LEMMA SoundIsNoTruncation == IInv => NoTruncation
<1> SUFFICES ASSUME IInv PROVE NoTruncation
  OBVIOUS
<1>1. ASSUME at = "done", NEW k \in DOMAIN tokens PROVE Covered(k)
  <2>1. chunks # <<>> /\ Latest.to = Len(tokens) + 1
    BY <1>1, EmptySeq DEF IInv, Joined, Typed
  <2>2. k \in 1 .. Latest.to - 1
    BY <2>1 DEF IInv, Typed
  <2> QED
    BY <2>1, <2>2 DEF IInv, Gapless
<1> QED
  BY <1>1 DEF IInv, Within, InBudget, InStep, Covered, NoTruncation

-----------------------------------------------------------------------------
(* Citations.                                                              *)

\* What the invariant says of one unit of the book.
LEMMA UnitIsFaithful ==
    ASSUME IInv, NEW u \in DOMAIN book.texts
    PROVE  /\ book.texts[u] \in Seq(Char) /\ Ink(u) \in SUBSET Solid(book.texts[u])
           /\ Ink(u) \in SUBSET Nat
           /\ Faithful(book.texts[u], Ink(u), 1, text[u])
           /\ \A f \in Ink(u) : Holds(tokens, u, f)
<1>1. book \in Books /\ text = Searchable(book, settings) /\ tokens = Stream(book, settings)
  BY DEF IInv, Derived
<1>2. Ink(u) = InkIn(book, settings, u)
  BY DEF Ink, InkIn, InkOf
<1>3. /\ book.texts[u] \in Seq(Char) /\ Ink(u) \in SUBSET Solid(book.texts[u])
      /\ Faithful(book.texts[u], Ink(u), 1, text[u])
  BY <1>1, <1>2, SearchableIsFaithful
<1>4. \A f \in Ink(u) : Holds(tokens, u, f)
  BY <1>1, <1>2, StreamIsOverInk
<1>5. Solid(book.texts[u]) \in SUBSET Nat
  <2>1. Len(book.texts[u]) \in Nat /\ DOMAIN book.texts[u] = 1 .. Len(book.texts[u])
    BY <1>3, LenProperties
  <2> QED
    BY <2>1 DEF Solid
<1> QED
  BY <1>3, <1>4, <1>5

\* Each token of the stream begins and ends with ink of its unit.
LEMMA TokenIsOverInk ==
    ASSUME IInv, NEW k \in DOMAIN tokens
    PROVE  /\ tokens[k].unit \in DOMAIN book.texts
           /\ OverInk(tokens[k], tokens[k].unit, Ink(tokens[k].unit))
<1>1. book \in Books /\ tokens = Stream(book, settings)
  BY DEF IInv, Derived
<1>2. PICK u \in DOMAIN book.texts : OverInk(tokens[k], u, InkIn(book, settings, u))
  BY <1>1, StreamIsOverInk
<1>3. Ink(u) = InkIn(book, settings, u)
  BY DEF Ink, InkIn, InkOf
<1> QED
  BY <1>2, <1>3 DEF OverInk

Own(chunk, u) == {k \in chunk.from .. chunk.to - 1 : tokens[k].unit = u}

\* The tokens that a chunk has of a unit.
LEMMA OwnTokens ==
    ASSUME IInv, NEW m \in DOMAIN chunks, NEW u
    PROVE  /\ Own(chunks[m], u) \in SUBSET Nat /\ Own(chunks[m], u) \in SUBSET DOMAIN tokens
           /\ chunks[m].from \in Nat /\ chunks[m].to \in Nat
<1>1. Len(tokens) \in Nat /\ DOMAIN tokens = 1 .. Len(tokens)
  BY LenProperties DEF IInv, Typed
<1>2. chunks[m] \in Chunk
  BY LenProperties DEF IInv, Typed
<1>3. chunks[m].from \in Nat /\ chunks[m].to \in Nat
  BY <1>2 DEF Chunk
<1>4. chunks[m].from \in 1 .. Len(tokens) /\ chunks[m].to - 1 \in 1 .. Len(tokens)
  BY <1>1 DEF IInv, Inside, InStream
<1>5. \A k \in chunks[m].from .. chunks[m].to - 1 : k \in 1 .. Len(tokens) /\ k \in Nat
  BY <1>1, <1>3, <1>4
<1> QED
  BY <1>1, <1>3, <1>5 DEF Own

\* A span goes from the first to the last of its tokens, and begins and ends with ink.
LEMMA SpanIsOfTokens ==
    ASSUME IInv, NEW m \in DOMAIN chunks, NEW u, Own(chunks[m], u) # {}
    PROVE  /\ u \in DOMAIN book.texts /\ Span(chunks[m], u).unit = u
           /\ Span(chunks[m], u).from \in Ink(u) /\ Span(chunks[m], u).to - 1 \in Ink(u)
           /\ Span(chunks[m], u).to \in Nat
           /\ \A k \in Own(chunks[m], u) :
                 Span(chunks[m], u).from <= tokens[k].from /\ tokens[k].to <= Span(chunks[m], u).to
<1> DEFINE own == Own(chunks[m], u)
           ends == {tokens[k].to : k \in own}
           s == Span(chunks[m], u)
<1>1. own \in SUBSET Nat /\ own \in SUBSET DOMAIN tokens /\ own # {}
  BY OwnTokens
<1>2. s = [unit |-> u, from |-> tokens[Min(own)].from, to |-> Max(ends)]
  BY DEF Span, Own
<1> HIDE DEF s
<1>3. \A k \in own : tokens[k].unit = u /\ OverInk(tokens[k], u, Ink(u)) /\ u \in DOMAIN book.texts
  BY <1>1, TokenIsOverInk DEF Own
<1> HIDE DEF own
<1>4. u \in DOMAIN book.texts
  BY <1>1, <1>3
<1>5. Ink(u) \in SUBSET Nat /\ book.texts[u] \in Seq(Char) /\ Ink(u) \in SUBSET Solid(book.texts[u])
  BY <1>4, UnitIsFaithful
<1>6. Min(own) \in own /\ \A y \in own : Min(own) <= y
  BY <1>1, MinOf
<1>7. \A k \in own : /\ tokens[k].to \in Nat /\ tokens[k].to - 1 \in Ink(u)
                     /\ tokens[k].from \in Ink(u) /\ tokens[k].from \in Nat
  <2> SUFFICES ASSUME NEW k \in own
               PROVE  /\ tokens[k].to \in Nat /\ tokens[k].to - 1 \in Ink(u)
                      /\ tokens[k].from \in Ink(u) /\ tokens[k].from \in Nat
    OBVIOUS
  <2>1. tokens[k] \in Token
    BY <1>1, LenProperties DEF IInv, Typed
  <2> QED
    BY <2>1, <1>3, <1>5 DEF OverInk, Token
<1>8. PICK n \in Nat : \A f \in Ink(u) : f <= n
  <2>1. Len(book.texts[u]) \in Nat /\ DOMAIN book.texts[u] = 1 .. Len(book.texts[u])
    BY <1>5, LenProperties
  <2>2. \A f \in Ink(u) : f <= Len(book.texts[u])
    BY <1>5, <2>1 DEF Solid
  <2> QED
    BY <2>1, <2>2
<1>9. \A x \in ends : x \in Nat /\ x <= n + 1
  <2> SUFFICES ASSUME NEW k \in own PROVE tokens[k].to \in Nat /\ tokens[k].to <= n + 1
    OBVIOUS
  <2>1. tokens[k].to \in Nat /\ tokens[k].to - 1 <= n
    BY <1>7, <1>8
  <2> QED
    BY <2>1
<1>10. Max(ends) \in ends /\ \A y \in ends : y <= Max(ends)
  <2>1. ends # {}
    BY <1>1
  <2> HIDE DEF ends
  <2>2. ends \in SUBSET Nat /\ \A x \in ends : x <= n + 1
    BY <1>9
  <2>3. n + 1 \in Nat
    BY <1>8
  <2> QED
    BY <2>1, <2>2, <2>3, MaxOf
<1>11. PICK e \in own : Max(ends) = tokens[e].to
  BY <1>10
<1>12. \A k \in own : tokens[k].to <= Max(ends)
  BY <1>10
<1> HIDE DEF ends
<1>13. \A k \in own : tokens[Min(own)].from <= tokens[k].from
  <2> SUFFICES ASSUME NEW k \in own PROVE tokens[Min(own)].from <= tokens[k].from
    OBVIOUS
  <2>1. PICK a : a = Min(own) /\ a \in own /\ a <= k
    BY <1>6
  <2>2. a \in Nat /\ k \in Nat
    BY <1>1, <2>1
  <2>3. CASE a = k
    BY <2>1, <2>3, <1>7
  <2>4. CASE a < k
    <3>1. InOrder(tokens)
      BY StreamIsOverInk DEF IInv, Derived
    <3>2. tokens[a].unit = tokens[k].unit /\ a \in DOMAIN tokens /\ k \in DOMAIN tokens
      BY <1>1, <1>3, <2>1
    <3> QED
      BY <2>1, <2>4, <3>1, <3>2 DEF InOrder
  <2> QED
    BY <2>1, <2>2, <2>3, <2>4
<1>14. s.unit = u /\ s.from = tokens[Min(own)].from /\ s.to = tokens[e].to /\ s.to = Max(ends)
  BY <1>2, <1>11
<1> QED
  BY <1>4, <1>6, <1>7, <1>11, <1>12, <1>13, <1>14 DEF s, own

\* Every span of a chunk is the span of one of its units.
LEMMA SpansAreOfUnits ==
    ASSUME IInv, NEW m \in DOMAIN chunks, NEW s \in Spans(chunks[m])
    PROVE  /\ s.unit \in DOMAIN book.texts /\ s = Span(chunks[m], s.unit)
           /\ Own(chunks[m], s.unit) # {}
<1>1. PICK k \in chunks[m].from .. chunks[m].to - 1 : s = Span(chunks[m], tokens[k].unit)
  BY DEF Spans
<1>2. s.unit = tokens[k].unit
  BY <1>1 DEF Span
<1>3. k \in Own(chunks[m], s.unit)
  BY <1>1, <1>2 DEF Own
<1> QED
  BY <1>1, <1>2, <1>3, SpanIsOfTokens

\* A searchable character that is no blank is the ink it comes from.
LEMMA NonblankIsInk ==
    ASSUME IInv, NEW u \in DOMAIN book.texts, NEW p \in DOMAIN text[u], text[u][p].c \notin Blank
    PROVE  /\ text[u][p].from \in Ink(u)
           /\ text[u][p] = [c |-> book.texts[u][text[u][p].from], from |-> text[u][p].from,
                            to |-> text[u][p].from + 1]
<1>1. Source(book.texts[u], Ink(u), text[u][p])
  BY UnitIsFaithful DEF Faithful, OfSource
<1> QED
  BY <1>1 DEF Source

\* Ink is in the searchable text, unchanged and with its place.
LEMMA InkIsNonblank ==
    ASSUME IInv, NEW u \in DOMAIN book.texts, NEW f \in Ink(u)
    PROVE  \E p \in DOMAIN text[u] :
              /\ text[u][p].from = f /\ text[u][p].c \notin Blank
              /\ text[u][p] = [c |-> book.texts[u][f], from |-> f, to |-> f + 1]
<1>1. f >= 1
  <2>1. book.texts[u] \in Seq(Char) /\ f \in Solid(book.texts[u])
    BY UnitIsFaithful
  <2>2. Len(book.texts[u]) \in Nat /\ f \in 1 .. Len(book.texts[u])
    BY <2>1, LenProperties DEF Solid
  <2> QED
    BY <2>2
<1>2. Shown(f, text[u])
  BY <1>1, UnitIsFaithful DEF Faithful, AllShown
<1>3. PICK p \in DOMAIN text[u] : text[u][p].from = f /\ text[u][p].c \notin Blank
  BY <1>2 DEF Shown
<1> QED
  BY <1>3, NonblankIsInk

\* The invariant says that citations quote the source.
LEMMA SoundIsQuotesAreSource == IInv => QuotesAreSource
<1> SUFFICES ASSUME IInv PROVE QuotesAreSource
  OBVIOUS
<1>1. ASSUME at = "done", NEW u \in DOMAIN book.texts, NEW f \in Ink(u)
      PROVE  \E m \in DOMAIN chunks : \E s \in Spans(chunks[m]) :
                s.unit = u /\ s.from <= f /\ f < s.to
  <2>1. PICK k \in DOMAIN tokens : tokens[k].unit = u /\ tokens[k].from <= f /\ f < tokens[k].to
    BY UnitIsFaithful DEF Holds
  <2>2. PICK m \in DOMAIN chunks : chunks[m].from <= k /\ k < chunks[m].to
    BY <1>1, SoundIsNoTruncation DEF NoTruncation
  <2>3. chunks[m].from \in Nat /\ chunks[m].to \in Nat /\ k \in Nat
    <3>1. Len(tokens) \in Nat /\ DOMAIN tokens = 1 .. Len(tokens)
      BY LenProperties DEF IInv, Typed
    <3> QED
      BY <3>1, OwnTokens
  <2>4. k \in chunks[m].from .. chunks[m].to - 1
    BY <2>2, <2>3
  <2>5. k \in Own(chunks[m], u)
    BY <2>1, <2>4 DEF Own
  <2> DEFINE s == Span(chunks[m], u)
  <2>6. s \in Spans(chunks[m])
    BY <2>1, <2>4 DEF Spans
  <2>7. /\ s.unit = u /\ s.from \in Nat /\ s.to \in Nat
        /\ s.from <= tokens[k].from /\ tokens[k].to <= s.to
    <3> HIDE DEF s
    <3>1. s.unit = u /\ s.from \in Ink(u) /\ s.to \in Nat
          /\ s.from <= tokens[k].from /\ tokens[k].to <= s.to
      BY <2>5, SpanIsOfTokens DEF s
    <3> QED
      BY <3>1, UnitIsFaithful
  <2> HIDE DEF s
  <2>8. tokens[k].from \in Nat /\ tokens[k].to \in Nat /\ f \in Nat
    <3>1. tokens[k] \in Token
      BY LenProperties DEF IInv, Typed
    <3> QED
      BY <3>1, UnitIsFaithful DEF Token
  <2>9. s.from <= f /\ f < s.to
    BY <2>1, <2>7, <2>8
  <2> QED
    BY <2>6, <2>7, <2>9
<1>2. ASSUME NEW m \in DOMAIN chunks, NEW s \in Spans(chunks[m])
      PROVE  LET t == text[s.unit]
                 cited == {k \in DOMAIN t : /\ t[k].c \notin Blank
                                            /\ s.from <= t[k].from /\ t[k].from < s.to}
                 ink == {k \in Ink(s.unit) : s.from <= k /\ k < s.to}
             IN  /\ {t[k] : k \in cited} =
                        {[c |-> book.texts[s.unit][k], from |-> k, to |-> k + 1] : k \in ink}
                 /\ \A k, l \in cited : k < l => t[k].from < t[l].from
  <2> DEFINE u == s.unit
             t == text[u]
             cited == {k \in DOMAIN t : /\ t[k].c \notin Blank
                                        /\ s.from <= t[k].from /\ t[k].from < s.to}
             ink == {k \in Ink(u) : s.from <= k /\ k < s.to}
             Quoted(f) == [c |-> book.texts[u][f], from |-> f, to |-> f + 1]
  <2>1. u \in DOMAIN book.texts
    BY SpansAreOfUnits
  <2> HIDE DEF u
  <2>2. ASSUME NEW k \in cited PROVE \E f \in ink : t[k] = Quoted(f)
    <3>1. t[k].from \in Ink(u) /\ t[k] = Quoted(t[k].from)
      BY <2>1, NonblankIsInk
    <3> QED
      BY <3>1
  <2>3. ASSUME NEW f \in ink PROVE \E k \in cited : t[k] = Quoted(f)
    <3>1. PICK p \in DOMAIN t : t[p].from = f /\ t[p].c \notin Blank /\ t[p] = Quoted(f)
      BY <2>1, InkIsNonblank
    <3> QED
      BY <3>1
  <2>4. ASSUME NEW k \in cited, NEW l \in cited, k < l PROVE t[k].from < t[l].from
    BY <2>1, <2>4, UnitIsFaithful DEF Faithful, InSourceOrder, Follows
  <2>5. {t[k] : k \in cited} = {Quoted(f) : f \in ink}
    <3> HIDE DEF cited, ink, Quoted, t
    <3> QED
      BY <2>2, <2>3
  <2> QED
    BY <2>4, <2>5 DEF u
<1> QED
  BY <1>1, <1>2 DEF QuotesAreSource

-----------------------------------------------------------------------------
(* Boxes.                                                                  *)

\* Where the words of a unit are found: the search goes on behind a position.
HitsFrom(u, word, m0) ==
    {m \in m0 .. Len(text[u]) : \A k \in word.from .. word.to - 1 :
        /\ m + k - word.from <= Len(text[u])
        /\ text[u][m + k - word.from].c = book.texts[u][k]}
Found(u, H, w) ==
    IF w = 0 THEN [at |-> 0, next |-> 1]
    ELSE IF HitsFrom(u, Words(u)[w], H[w - 1].next) = {}
         THEN [at |-> 0, next |-> H[w - 1].next]
         ELSE [at |-> Min(HitsFrom(u, Words(u)[w], H[w - 1].next)),
               next |-> Min(HitsFrom(u, Words(u)[w], H[w - 1].next)) + 1]
Finds(u) == CHOOSE H : H = [w \in 0 .. Len(Words(u)) |-> Found(u, H, w)]

\* The words that OCR read are the runs of the page.
LEMMA WordsAreRuns ==
    ASSUME IInv, NEW u \in DOMAIN book.texts, book.kind = "ocr"
    PROVE  /\ Words(u) \in Seq([from : Nat, to : Nat]) /\ AreRuns(book.texts[u], Words(u))
           /\ \A p \in Solid(book.texts[u]) : InRun(Words(u), p)
           /\ Len(Words(u)) \in Nat /\ DOMAIN Words(u) = 1 .. Len(Words(u))
           /\ \A w \in DOMAIN Words(u) : Words(u)[w].from \in Nat /\ Words(u)[w].to \in Nat
           /\ \A w \in DOMAIN Words(u) :
                 Words(u)[w].from >= 1 /\ Words(u)[w].from < Words(u)[w].to
           /\ \A w \in DOMAIN Words(u) : Letters(Words(u)[w]) \in SUBSET Solid(book.texts[u])
<1>1. Words(u) = Runs(book.texts[u]) /\ book.texts[u] \in Seq(Char)
  BY UnitIsFaithful DEF Words
<1>2. Words(u) \in Seq([from : Nat, to : Nat]) /\ AreRuns(book.texts[u], Words(u))
  BY <1>1, RunsAreRuns
<1>3. Len(book.texts[u]) \in Nat /\ DOMAIN book.texts[u] = 1 .. Len(book.texts[u])
  BY <1>1, LenProperties
<1>4. \A p \in Solid(book.texts[u]) : InRun(Words(u), p)
  BY <1>1, <1>3, RunsAreRuns DEF Solid
<1>5. Len(Words(u)) \in Nat /\ DOMAIN Words(u) = 1 .. Len(Words(u))
  BY <1>2, LenProperties
<1>6. ASSUME NEW w \in DOMAIN Words(u)
      PROVE  /\ Words(u)[w].from \in Nat /\ Words(u)[w].to \in Nat
             /\ Words(u)[w].from >= 1 /\ Words(u)[w].from < Words(u)[w].to
             /\ Letters(Words(u)[w]) \in SUBSET Solid(book.texts[u])
  <2>1. Words(u)[w] \in [from : Nat, to : Nat] /\ IsRun(book.texts[u], Words(u)[w])
    BY <1>2, <1>5, LenProperties DEF AreRuns
  <2>2. Words(u)[w].from \in Nat /\ Words(u)[w].to \in Nat
    BY <2>1
  <2>3. /\ Words(u)[w].from \in 1 .. Len(book.texts[u])
        /\ Words(u)[w].to \in Words(u)[w].from + 1 .. Len(book.texts[u]) + 1
    BY <2>1 DEF IsRun
  <2>4. Words(u)[w].from >= 1 /\ Words(u)[w].from < Words(u)[w].to
    BY <1>3, <2>2, <2>3
  <2>5. \A p \in Words(u)[w].from .. Words(u)[w].to - 1 : p \in 1 .. Len(book.texts[u])
    BY <1>3, <2>2, <2>3
  <2>6. \A p \in Words(u)[w].from .. Words(u)[w].to - 1 : p \in Solid(book.texts[u])
    BY <1>3, <2>1, <2>5 DEF IsRun, Solid
  <2> QED
    BY <2>2, <2>4, <2>6 DEF Letters
<1> QED
  BY <1>2, <1>4, <1>5, <1>6

\* The first hit is one, and none is before it.
LEMMA HitsArePositions ==
    ASSUME NEW u, NEW word, NEW m0 \in Nat
    PROVE  /\ HitsFrom(u, word, m0) \in SUBSET Nat
           /\ HitsFrom(u, word, m0) # {} => /\ Min(HitsFrom(u, word, m0)) \in HitsFrom(u, word, m0)
                                            /\ Min(HitsFrom(u, word, m0)) \in Nat
                                            /\ \A y \in HitsFrom(u, word, m0) :
                                                  Min(HitsFrom(u, word, m0)) <= y
<1>1. HitsFrom(u, word, m0) \in SUBSET Nat
  <2>1. \A m \in m0 .. Len(text[u]) : m \in Nat
    OBVIOUS
  <2> QED
    BY <2>1 DEF HitsFrom
<1> QED
  BY <1>1, MinOf

\* The search through the words ends.
LEMMA FindsAll ==
    ASSUME IInv, NEW u \in DOMAIN book.texts, book.kind = "ocr"
    PROVE  \A w \in 0 .. Len(Words(u)) : Finds(u)[w] = Found(u, Finds(u), w)
<1> DEFINE S == 0 .. Len(Words(u))
           V == [at : Nat, next : Nat]
           mu == [w \in S |-> w]
           D == [w \in S |-> [H \in [S -> V] |-> Found(u, H, w)]]
           Body(H) == [w \in S |-> Found(u, H, w)]
<1>1. Len(Words(u)) \in Nat
  BY WordsAreRuns
<1>2. mu \in [S -> Nat]
  BY <1>1
<1>3. \A w \in S : w # 0 => w - 1 \in S /\ mu[w - 1] < mu[w]
  BY <1>1
<1>4. D \in [S -> [[S -> V] -> V]]
  <2> SUFFICES ASSUME NEW w \in S, NEW H \in [S -> V] PROVE Found(u, H, w) \in V
    OBVIOUS
  <2>1. CASE w = 0
    BY <2>1 DEF Found
  <2>2. CASE w # 0
    <3> DEFINE next == H[w - 1].next
               hits == HitsFrom(u, Words(u)[w], next)
    <3>1. next \in Nat
      <4>1. H[w - 1] \in V
        BY <1>3, <2>2
      <4> QED
        BY <4>1
    <3>2. Found(u, H, w) = IF hits = {} THEN [at |-> 0, next |-> next]
                           ELSE [at |-> Min(hits), next |-> Min(hits) + 1]
      BY <2>2 DEF Found
    <3> HIDE DEF next
    <3>3. hits # {} => Min(hits) \in Nat
      BY <3>1, HitsArePositions
    <3> HIDE DEF hits
    <3>4. CASE hits = {}
      BY <3>1, <3>2, <3>4
    <3>5. CASE hits # {}
      <4>1. Min(hits) \in Nat /\ Min(hits) + 1 \in Nat
        BY <3>3, <3>5
      <4> QED
        BY <3>2, <3>5, <4>1
    <3> QED
      BY <3>4, <3>5
  <2> QED
    BY <2>1, <2>2
<1>5. UsesLess(S, V, mu, D)
  <2> SUFFICES ASSUME NEW w \in S, NEW f \in [S -> V], NEW g \in [S -> V],
                      \A q \in S : mu[q] < mu[w] => f[q] = g[q]
               PROVE  Found(u, f, w) = Found(u, g, w)
    BY DEF UsesLess
  <2>1. w # 0 => f[w - 1] = g[w - 1]
    <3> HIDE DEF S, mu
    <3> QED
      BY <1>3
  <2> QED
    BY <2>1, Zenon DEF Found
<1>6. PICK F \in [S -> V] : \A w \in S : F[w] = D[w][F]
  <2>1. Solvable(S, V, D)
    <3>1. V # {}
      <4>1. [at |-> 0, next |-> 0] \in V
        OBVIOUS
      <4> QED
        BY <4>1
    <3> HIDE DEF S, V, mu, D
    <3> QED
      BY <1>2, <1>4, <1>5, <3>1, Recursion
  <2> QED
    BY <2>1 DEF Solvable
<1>7. F = Body(F)
  BY <1>6
<1>8. Finds(u) = CHOOSE H : H = Body(H)
  BY DEF Finds
<1> HIDE DEF Body
<1>9. Finds(u) = Body(Finds(u))
  BY <1>7, <1>8
<1> QED
  BY <1>9 DEF Body

LEMMA PlacesAreFinds ==
    ASSUME NEW u
    PROVE  Places(u) = [w \in DOMAIN Words(u) |-> Finds(u)[w].at]
  BY DEF Places, Finds, Found, HitsFrom

\* The searchable text of the unit has its characters at their places in the source.
LEMMA InkInPlace ==
    ASSUME IInv, NEW u \in DOMAIN book.texts, Unshifted(u)
    PROVE  /\ \A p \in DOMAIN text[u] : text[u][p].c \notin Blank =>
                 p \in Ink(u) /\ text[u][p].c = book.texts[u][p]
           /\ \A f \in Ink(u) : f \in DOMAIN text[u] /\ text[u][f].c = book.texts[u][f]
           /\ DOMAIN text[u] = 1 .. Len(text[u]) /\ Len(text[u]) \in Nat
<1>1. ASSUME NEW p \in DOMAIN text[u], text[u][p].c \notin Blank
      PROVE  p \in Ink(u) /\ text[u][p].c = book.texts[u][p]
  <2>1. text[u][p].from = p
    BY DEF Unshifted
  <2>2. p \in Ink(u) /\ text[u][p] = [c |-> book.texts[u][p], from |-> p, to |-> p + 1]
    BY <1>1, <2>1, NonblankIsInk
  <2>3. text[u][p].c = book.texts[u][p]
    BY <2>2
  <2> QED
    BY <2>2, <2>3
<1>2. ASSUME NEW f \in Ink(u) PROVE f \in DOMAIN text[u] /\ text[u][f].c = book.texts[u][f]
  <2>1. PICK p \in DOMAIN text[u] :
            /\ text[u][p].from = f /\ text[u][p].c \notin Blank
            /\ text[u][p] = [c |-> book.texts[u][f], from |-> f, to |-> f + 1]
    BY InkIsNonblank
  <2>2. p = f
    BY <2>1 DEF Unshifted
  <2>3. text[u][p].c = book.texts[u][f]
    BY <2>1
  <2> QED
    BY <2>2, <2>3
<1>3. DOMAIN text[u] = 1 .. Len(text[u]) /\ Len(text[u]) \in Nat
  BY UnitIsFaithful, LenProperties DEF Faithful, IsText
<1> QED
  BY <1>1, <1>2, <1>3

\* What is taken out is taken out behind all that is left.
LEMMA InkComesFirst ==
    ASSUME IInv, NEW u \in DOMAIN book.texts, Unshifted(u),
           NEW p \in Solid(book.texts[u]), NEW f \in Ink(u), p <= f
    PROVE  p \in Ink(u)
<1>1. book.texts[u] \in Seq(Char) /\ f \in Nat /\ f \in DOMAIN text[u]
  BY InkInPlace, UnitIsFaithful
<1>2. p \in 1 .. Len(book.texts[u]) /\ Len(book.texts[u]) \in Nat /\ book.texts[u][p] \notin Blank
  BY <1>1, LenProperties DEF Solid
<1>3. p \in DOMAIN text[u]
  <2>1. DOMAIN text[u] = 1 .. Len(text[u]) /\ Len(text[u]) \in Nat
    BY InkInPlace
  <2>2. f \in 1 .. Len(text[u])
    BY <1>1, <2>1
  <2>3. p \in Nat /\ 1 <= p
    BY <1>2
  <2> QED
    BY <1>1, <2>1, <2>2, <2>3
<1>4. text[u][p].from = p
  BY <1>3 DEF Unshifted
<1>5. text[u][p].c \notin Blank
  <2>1. Source(book.texts[u], Ink(u), text[u][p])
    BY <1>3, UnitIsFaithful DEF Faithful, OfSource
  <2> QED
    BY <1>2, <1>4, <2>1 DEF Source
<1> QED
  BY <1>3, <1>5, InkInPlace

IsShown(u, w) == Letters(Words(u)[w]) \subseteq Ink(u)

\* A word is shown whole or not at all.
LEMMA WholeOrNot ==
    ASSUME IInv, NEW u \in DOMAIN book.texts, ~Halved(u), NEW w \in DOMAIN Words(u),
           NEW p \in Letters(Words(u)[w]), p \in Ink(u)
    PROVE  IsShown(u, w)
<1>1. Words(u)[w] \in Range(Words(u))
  BY DEF Range
<1>2. Letters(Words(u)[w]) \cap Ink(u) \in {{}, Letters(Words(u)[w])}
  BY <1>1 DEF Halved
<1> QED
  BY <1>2 DEF IsShown

\* Where the search goes on when the words up to w have been looked for: behind the
\* beginning of the last one of them that is shown.
Reached(u, w, next) ==
    \/ next = 1 /\ \A x \in 1 .. w : ~IsShown(u, x)
    \/ \E x \in 1 .. w : /\ IsShown(u, x) /\ next = Words(u)[x].from + 1
                         /\ \A y \in x + 1 .. w : ~IsShown(u, y)

\* What is found for a word is its own place or one behind it.
LEMMA HitIsNotBefore ==
    ASSUME IInv, NEW u \in DOMAIN book.texts, book.kind = "ocr",
           Unshifted(u), ~Halved(u), ~Nested(u),
           NEW w \in DOMAIN Words(u), NEW next \in Nat, Reached(u, w - 1, next),
           NEW m \in HitsFrom(u, Words(u)[w], next)
    PROVE  IsShown(u, w) /\ Words(u)[w].from <= m
<1> DEFINE word == Words(u)[w]
<1>1. /\ Len(Words(u)) \in Nat /\ DOMAIN Words(u) = 1 .. Len(Words(u))
      /\ AreRuns(book.texts[u], Words(u))
      /\ \A x \in DOMAIN Words(u) :
            /\ Words(u)[x].from \in Nat /\ Words(u)[x].to \in Nat
            /\ Words(u)[x].from >= 1 /\ Words(u)[x].from < Words(u)[x].to
      /\ \A x \in DOMAIN Words(u) : Letters(Words(u)[x]) \in SUBSET Solid(book.texts[u])
      /\ \A p \in Solid(book.texts[u]) : InRun(Words(u), p)
  BY WordsAreRuns
<1>2. w \in Nat /\ 1 <= w /\ w <= Len(Words(u))
  BY <1>1
<1>3. word.from \in Nat /\ word.to \in Nat /\ word.from < word.to
  BY <1>1
<1>4. /\ m \in next .. Len(text[u])
      /\ \A k \in Letters(word) : /\ m + k - word.from <= Len(text[u])
                                  /\ text[u][m + k - word.from].c = book.texts[u][k]
  BY DEF HitsFrom, Letters
<1> HIDE DEF word
<1>5. DOMAIN text[u] = 1 .. Len(text[u]) /\ Len(text[u]) \in Nat
  BY InkInPlace
<1>6. m \in Nat /\ next <= m
  BY <1>4, <1>5
<1>7. word.from \in Letters(word)
  BY <1>3 DEF Letters
<1>8. 1 <= m
  <2>1. CASE next = 1
    BY <1>6, <2>1
  <2>2. CASE \E x \in 1 .. w - 1 : next = Words(u)[x].from + 1
    <3>1. PICK x \in 1 .. w - 1 : next = Words(u)[x].from + 1
      BY <2>2
    <3>2. x \in DOMAIN Words(u)
      BY <1>1, <1>2
    <3>3. Words(u)[x].from \in Nat
      BY <1>1, <3>2
    <3> QED
      BY <1>6, <3>1, <3>3
  <2> QED
    BY <2>1, <2>2 DEF Reached
<1>9. ASSUME NEW k \in Letters(word)
      PROVE  /\ m + k - word.from \in Ink(u)
             /\ book.texts[u][m + k - word.from] = book.texts[u][k]
  <2>1. k \in Nat /\ word.from <= k
    BY <1>3 DEF Letters
  <2>2. m + k - word.from \in 1 .. Len(text[u])
    <3>1. m + k - word.from <= Len(text[u])
      BY <1>4
    <3> QED
      BY <1>3, <1>5, <1>6, <1>8, <2>1, <3>1
  <2>3. k \in Solid(book.texts[u])
    BY <1>1 DEF word
  <2>4. text[u][m + k - word.from].c = book.texts[u][k] /\ book.texts[u][k] \notin Blank
    BY <1>4, <2>3 DEF Solid
  <2>5. /\ m + k - word.from \in Ink(u)
        /\ text[u][m + k - word.from].c = book.texts[u][m + k - word.from]
    BY <1>5, <2>2, <2>4, InkInPlace
  <2> QED
    BY <2>4, <2>5
<1>10. m \in Ink(u)
  <2>1. m + word.from - word.from = m
    BY <1>3, <1>6
  <2>2. m + word.from - word.from \in Ink(u)
    BY <1>7, <1>9
  <2> QED
    BY <2>1, <2>2
<1>11. m \in Solid(book.texts[u])
  BY <1>10, UnitIsFaithful
<1>12. PICK v \in DOMAIN Words(u) : m \in Letters(Words(u)[v])
  BY <1>1, <1>11 DEF InRun, Letters
<1>13. IsShown(u, v)
  BY <1>10, <1>12, WholeOrNot
<1>14. v \in Nat /\ 1 <= v /\ v <= Len(Words(u))
  BY <1>1
<1>15. /\ Words(u)[v].from \in Nat /\ Words(u)[v].to \in Nat
       /\ Words(u)[v].from <= m /\ m < Words(u)[v].to
  <2>1. Words(u)[v].from \in Nat /\ Words(u)[v].to \in Nat
    BY <1>1
  <2> QED
    BY <1>12, <2>1 DEF Letters
<1>16. ASSUME v < w PROVE FALSE
  <2>1. v \in 1 .. w - 1
    BY <1>2, <1>14, <1>16
  <2>2. PICK x \in 1 .. w - 1 : /\ IsShown(u, x) /\ next = Words(u)[x].from + 1
                                /\ \A y \in x + 1 .. w - 1 : ~IsShown(u, y)
    BY <1>13, <2>1 DEF Reached
  <2>3. x \in Nat /\ x < w /\ x \in DOMAIN Words(u)
    BY <1>1, <1>2, <2>2
  <2>4. Words(u)[x].from \in Nat
    BY <1>1, <2>3
  <2>5. Words(u)[x].from < m
    BY <1>6, <2>2, <2>4
  <2>6. ~(x < v)
    <3>1. x < v => v \in x + 1 .. w - 1
      BY <2>1, <2>3, <1>14, <1>2
    <3> QED
      BY <3>1, <2>2, <1>13
  <2>7. ~(v < x)
    <3> SUFFICES ASSUME v < x PROVE FALSE
      OBVIOUS
    <3>1. Words(u)[v].to <= Words(u)[x].from
      BY <1>1, <2>3 DEF AreRuns
    <3> QED
      BY <3>1, <1>6, <1>15, <2>4, <2>5
  <2>8. v = x
    BY <1>14, <2>3, <2>6, <2>7
  <2>9. m \in Letters(Words(u)[v]) \ {Words(u)[v].from}
    BY <1>12, <1>15, <1>6, <2>5, <2>8
  <2>10. \A y \in v + 1 .. w - 1 : Letters(Words(u)[y]) \cap Ink(u) = {}
    <3> SUFFICES ASSUME NEW y \in v + 1 .. w - 1,
                        NEW p \in Letters(Words(u)[y]), p \in Ink(u)
                 PROVE  FALSE
      OBVIOUS
    <3>1. y \in DOMAIN Words(u)
      BY <1>1, <1>2, <1>14
    <3>2. IsShown(u, y)
      BY <3>1, WholeOrNot
    <3> QED
      BY <3>2, <2>2, <2>8
  <2>11. Nested(u)
    BY <1>9, <1>16, <2>9, <2>10 DEF Nested, word
  <2> QED
    BY <2>11
<1>17. ASSUME w <= v PROVE word.from <= m
  <2>1. CASE w = v
    BY <2>1, <1>15 DEF word
  <2>2. CASE w < v
    <3>1. word.from < Words(u)[v].from
      BY <1>1, <2>2 DEF AreRuns, word
    <3> QED
      BY <3>1, <1>3, <1>6, <1>15
  <2> QED
    BY <1>17, <1>2, <1>14, <2>1, <2>2
<1>18. word.from <= m
  BY <1>2, <1>14, <1>16, <1>17
<1>19. word.from \in Ink(u)
  <2>1. word.from \in Solid(book.texts[u])
    BY <1>1, <1>7 DEF word
  <2> QED
    BY <1>10, <1>18, <2>1, InkComesFirst
<1>20. IsShown(u, w)
  BY <1>7, <1>19, WholeOrNot DEF word
<1> QED
  BY <1>18, <1>20 DEF word

\* A word that is shown is found at its place.
LEMMA PlaceIsHit ==
    ASSUME IInv, NEW u \in DOMAIN book.texts, book.kind = "ocr", Unshifted(u),
           NEW w \in DOMAIN Words(u), IsShown(u, w), NEW next \in Nat, Reached(u, w - 1, next)
    PROVE  Words(u)[w].from \in HitsFrom(u, Words(u)[w], next)
<1> DEFINE word == Words(u)[w]
<1>1. /\ Len(Words(u)) \in Nat /\ DOMAIN Words(u) = 1 .. Len(Words(u))
      /\ AreRuns(book.texts[u], Words(u))
      /\ \A x \in DOMAIN Words(u) :
            /\ Words(u)[x].from \in Nat /\ Words(u)[x].to \in Nat
            /\ Words(u)[x].from >= 1 /\ Words(u)[x].from < Words(u)[x].to
  BY WordsAreRuns
<1>2. word.from \in Nat /\ word.to \in Nat /\ word.from < word.to /\ word.from >= 1
  BY <1>1
<1>3. w \in Nat /\ 1 <= w /\ w <= Len(Words(u))
  BY <1>1
<1>4. next <= word.from
  <2>1. CASE next = 1
    BY <1>2, <2>1
  <2>2. CASE \E x \in 1 .. w - 1 : next = Words(u)[x].from + 1
    <3>1. PICK x \in 1 .. w - 1 : next = Words(u)[x].from + 1
      BY <2>2
    <3>2. x \in DOMAIN Words(u) /\ x < w
      BY <1>1, <1>3
    <3>3. Words(u)[x].from \in Nat /\ Words(u)[x].from < word.from
      BY <1>1, <3>2 DEF AreRuns
    <3> HIDE DEF word
    <3> QED
      BY <1>2, <3>1, <3>3
  <2> QED
    BY <2>1, <2>2 DEF Reached
<1> HIDE DEF word
<1>5. DOMAIN text[u] = 1 .. Len(text[u]) /\ Len(text[u]) \in Nat
  BY InkInPlace
<1>6. ASSUME NEW k \in Letters(word)
      PROVE  /\ word.from + k - word.from <= Len(text[u])
             /\ text[u][word.from + k - word.from].c = book.texts[u][k]
  <2>1. k \in Ink(u)
    BY DEF IsShown, word
  <2>2. k \in DOMAIN text[u] /\ text[u][k].c = book.texts[u][k]
    BY <2>1, InkInPlace
  <2>3. word.from + k - word.from = k
    BY <1>2, <1>5, <2>2
  <2>4. k <= Len(text[u])
    BY <1>5, <2>2
  <2> QED
    BY <2>2, <2>3, <2>4
<1>7. word.from \in Letters(word)
  BY <1>2 DEF Letters
<1>8. word.from \in Ink(u)
  BY <1>7 DEF IsShown, word
<1>9. word.from \in DOMAIN text[u]
  BY <1>8, InkInPlace
<1>10. word.from \in next .. Len(text[u])
  BY <1>2, <1>4, <1>5, <1>9
<1> QED
  BY <1>6, <1>10 DEF HitsFrom, Letters, word

\* Each word is found at its place if it is shown, else nowhere.
LEMMA FindsAreRight ==
    ASSUME IInv, NEW u \in DOMAIN book.texts, book.kind = "ocr",
           Unshifted(u), ~Halved(u), ~Nested(u)
    PROVE  \A w \in DOMAIN Words(u) :
              Places(u)[w] = IF IsShown(u, w) THEN Words(u)[w].from ELSE 0
<1> DEFINE S == 0 .. Len(Words(u))
           find == Finds(u)
           mu == [w \in S |-> w]
           Place(w) == IF IsShown(u, w) THEN Words(u)[w].from ELSE 0
           Right(w) == /\ find[w].next \in Nat /\ Reached(u, w, find[w].next)
                       /\ w # 0 => find[w].at = Place(w)
           P == {w \in S : Right(w)}
<1>1. /\ Len(Words(u)) \in Nat /\ DOMAIN Words(u) = 1 .. Len(Words(u))
      /\ \A x \in DOMAIN Words(u) : Words(u)[x].from \in Nat /\ Words(u)[x].to \in Nat
  BY WordsAreRuns
<1>2. \A w \in S : find[w] = Found(u, find, w)
  BY FindsAll
<1> HIDE DEF find
<1>3. Right(0)
  <2>1. 0 \in S
    BY <1>1
  <2>2. find[0] = [at |-> 0, next |-> 1]
    BY <1>2, <2>1 DEF Found
  <2>3. find[0].next = 1
    BY <2>2
  <2>4. 1 .. 0 = {}
    OBVIOUS
  <2> QED
    BY <2>3, <2>4 DEF Reached
<1>4. ASSUME NEW w \in 1 .. Len(Words(u)), Right(w - 1) PROVE Right(w)
  <2> DEFINE word == Words(u)[w]
             hits == HitsFrom(u, word, find[w - 1].next)
  <2>1. w \in Nat /\ 1 <= w /\ w \in DOMAIN Words(u) /\ w \in S /\ w # 0
    BY <1>1
  <2>2. word.from \in Nat
    BY <1>1, <2>1
  <2>3. find[w] = IF hits = {} THEN [at |-> 0, next |-> find[w - 1].next]
                  ELSE [at |-> Min(hits), next |-> Min(hits) + 1]
    BY <1>2, <2>1 DEF Found
  <2>4. find[w - 1].next \in Nat /\ Reached(u, w - 1, find[w - 1].next)
    BY <1>4
  <2>5. \A m \in hits : IsShown(u, w) /\ word.from <= m
    BY <2>1, <2>4, HitIsNotBefore
  <2>6. IsShown(u, w) => word.from \in hits
    BY <2>1, <2>4, PlaceIsHit
  <2>7. hits \in SUBSET Nat /\ (hits # {} => Min(hits) \in hits /\ \A y \in hits : Min(hits) <= y)
    BY <2>4, HitsArePositions
  <2> HIDE DEF hits
  <2>8. CASE IsShown(u, w)
    <3>1. Min(hits) = word.from /\ hits # {}
      <4>1. /\ Min(hits) \in hits /\ word.from \in hits
            /\ Min(hits) <= word.from /\ word.from <= Min(hits)
        BY <2>5, <2>6, <2>7, <2>8
      <4>2. Min(hits) \in Nat
        BY <2>7, <4>1
      <4> HIDE DEF word
      <4> QED
        BY <2>2, <4>1, <4>2
    <3>2. find[w].at = word.from /\ find[w].next = word.from + 1
      BY <2>3, <3>1
    <3>3. word.from + 1 \in Nat
      BY <2>2
    <3>4. w \in 1 .. w /\ w + 1 .. w = {}
      BY <2>1
    <3>5. Reached(u, w, word.from + 1)
      BY <2>8, <3>4 DEF Reached
    <3> QED
      BY <2>8, <3>2, <3>3, <3>5
  <2>9. CASE ~IsShown(u, w)
    <3>1. hits = {}
      BY <2>5, <2>9
    <3>2. find[w].at = 0 /\ find[w].next = find[w - 1].next
      BY <2>3, <3>1
    <3>3. Reached(u, w, find[w - 1].next)
      <4> DEFINE next == find[w - 1].next
      <4> HIDE DEF next
      <4>1. Reached(u, w - 1, next)
        BY <2>4 DEF next
      <4>2. \A x \in 1 .. w : x = w \/ x \in 1 .. w - 1
        BY <2>1
      <4>3. \A x \in 1 .. w - 1 :
               x \in 1 .. w /\ \A y \in x + 1 .. w : y = w \/ y \in x + 1 .. w - 1
        BY <2>1
      <4>4. Reached(u, w, next)
        BY <2>9, <4>1, <4>2, <4>3 DEF Reached
      <4> QED
        BY <4>4 DEF next
    <3> QED
      BY <2>4, <2>9, <3>2, <3>3
  <2> QED
    BY <2>8, <2>9
<1>5. P = S
  <2>1. mu \in [S -> Nat]
    BY <1>1
  <2>2. \A w \in S : (\A q \in S : mu[q] < mu[w] => q \in P) => w \in P
    <3> SUFFICES ASSUME NEW w \in S, \A q \in S : mu[q] < mu[w] => q \in P PROVE Right(w)
      OBVIOUS
    <3>1. CASE w = 0
      BY <1>3, <3>1
    <3>2. CASE w # 0
      <4>1. w \in 1 .. Len(Words(u)) /\ w - 1 \in S /\ mu[w - 1] < mu[w]
        BY <1>1, <3>2
      <4>2. w - 1 \in P
        <5> HIDE DEF S, P, mu
        <5> QED
          BY <4>1
      <4>3. Right(w - 1)
        BY <4>2
      <4> HIDE DEF Right
      <4> QED
        BY <1>4, <4>1, <4>3
    <3> QED
      BY <3>1, <3>2
  <2>3. P \in SUBSET S
    OBVIOUS
  <2> HIDE DEF P, S, mu
  <2>4. Descends(S, mu, P)
    BY <2>2 DEF Descends
  <2> QED
    BY <2>1, <2>3, <2>4, Descent
<1>6. ASSUME NEW w \in DOMAIN Words(u) PROVE Places(u)[w] = Place(w)
  <2>1. w \in S /\ w # 0
    BY <1>1
  <2>2. find[w].at = Place(w)
    BY <1>5, <2>1
  <2>3. Places(u)[w] = find[w].at
    BY PlacesAreFinds DEF find
  <2> QED
    BY <2>2, <2>3
<1> QED
  BY <1>6

\* The invariant says that spans take their boxes.
LEMMA SoundIsBoxesAreOfSpan == IInv => BoxesAreOfSpan
<1> SUFFICES ASSUME IInv, NEW m \in DOMAIN chunks, NEW s \in Spans(chunks[m]),
                    Unshifted(s.unit), ~Halved(s.unit), ~Nested(s.unit)
             PROVE  Boxes(s) = {w \in DOMAIN Words(s.unit) :
                                   Words(s.unit)[w].from < s.to /\ Words(s.unit)[w].to > s.from}
  BY DEF BoxesAreOfSpan
<1> DEFINE u == s.unit
<1>1. /\ u \in DOMAIN book.texts /\ s.to - 1 \in Ink(u) /\ s.to \in Nat
  BY SpansAreOfUnits, SpanIsOfTokens
<1>2. CASE book.kind # "ocr"
  <2>1. DOMAIN Words(u) = {}
    BY <1>2 DEF Words
  <2> QED
    BY <2>1 DEF Boxes
<1>3. CASE book.kind = "ocr"
  <2>1. ASSUME NEW w \in DOMAIN Words(u)
        PROVE  (/\ Places(u)[w] # 0 /\ Places(u)[w] < s.to
                /\ Places(u)[w] + Words(u)[w].to - Words(u)[w].from > s.from)
               <=> Words(u)[w].from < s.to /\ Words(u)[w].to > s.from
    <3> DEFINE a == Words(u)[w].from
               b == Words(u)[w].to
    <3>1. /\ a \in Nat /\ b \in Nat /\ a >= 1 /\ a < b
          /\ Letters(Words(u)[w]) \in SUBSET Solid(book.texts[u])
      BY <1>1, <1>3, WordsAreRuns
    <3>2. Places(u)[w] = IF IsShown(u, w) THEN a ELSE 0
      BY <1>1, <1>3, FindsAreRight
    <3>3. a \in Letters(Words(u)[w])
      BY <3>1 DEF Letters
    <3> HIDE DEF a, b
    <3>4. CASE IsShown(u, w)
      <4>1. Places(u)[w] = a /\ a # 0 /\ a + b - a = b
        BY <3>1, <3>2, <3>4
      <4> QED
        BY <4>1 DEF a, b
    <3>5. CASE ~IsShown(u, w)
      <4>1. Places(u)[w] = 0
        BY <3>2, <3>5
      <4>2. ASSUME a < s.to PROVE FALSE
        <5>1. a <= s.to - 1
          BY <1>1, <3>1, <4>2
        <5>2. a \in Ink(u)
          BY <1>1, <3>1, <3>3, <5>1, InkComesFirst
        <5> QED
          BY <1>1, <3>3, <3>5, <5>2, WholeOrNot
      <4> QED
        BY <4>1, <4>2 DEF a
    <3> QED
      BY <3>4, <3>5
  <2> QED
    BY <2>1 DEF Boxes
<1> QED
  BY <1>2, <1>3

-----------------------------------------------------------------------------
(* The theorems.                                                           *)

\* The invariant holds in every state.
LEMMA SpecIsSound == Spec => []IInv
<1>1. Init => IInv
  BY InitIsSound
<1>2. IInv /\ [Next]_vars => IInv'
  BY CutKeepsSound, StutterKeepsSound DEF Next
<1> QED
  BY <1>1, <1>2, PTL DEF Spec

\* chunk_units cuts off nothing, keeps to its budget and advances: for every book and every
\* setting that the configuration accepts.
THEOREM NothingIsTruncated == Spec => []NoTruncation
  BY SpecIsSound, SoundIsNoTruncation, PTL

\* Everything of the source that is meant to be searchable is cited by some chunk, and the
\* searchable characters of a cited interval are those of the source, in their order,
\* whatever was collapsed, joined or taken out on the way (_normalize_chars,
\* _build_tokens, _collapse_spans).
THEOREM CitationsQuoteTheSource == Spec => []QuotesAreSource
  BY SpecIsSound, SoundIsQuotesAreSource, PTL

\* Where the searchable text has its characters at their places in the source, no word is
\* halved and none is nested in the one before, _word_source_offsets finds each word at its
\* own place, and a span takes the boxes of its words and no others (_union_word_boxes).
THEOREM SpansTakeTheirBoxes == Spec => []BoxesAreOfSpan
  BY SpecIsSound, SoundIsBoxesAreOfSpan, PTL
=============================================================================
