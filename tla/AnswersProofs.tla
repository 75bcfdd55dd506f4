---------------------------- MODULE AnswersProofs ----------------------------
(***************************************************************************)
(* Theorems about the pool of endpoints, for any number of threads and     *)
(* endpoints and any weights, about the answers made through it, and about *)
(* the search, for any library and limits.                                 *)
(***************************************************************************)
EXTENDS Answers, FiniteSetTheorems, SequenceTheorems, WellFoundedInduction, TLAPS

-----------------------------------------------------------------------------
(* Types of the pool.                                                      *)

LEMMA EndpointsType == Endpoints \in Nat /\ Endpoints > 1 /\ Endpoint = 0 .. Endpoints - 1
  BY PoolAssumption DEF Endpoint

\* The next position, for rr and for a retry.
LEMMA NextEndpoint ==
    ASSUME NEW e \in Endpoint
    PROVE  /\ (e + 1) % Endpoints = IF e + 1 = Endpoints THEN 0 ELSE e + 1
           /\ (e + 1) % Endpoints \in Endpoint
  BY EndpointsType

\* The pool's counters count calls, so they are natural numbers.
Calling(e) == {c \in Caller : call[c].step = "busy" /\ call[c].at = e}

Calls == [step : {"none", "enter", "busy", "replied", "failed"},
          at : Endpoint, tries : Endpoint, tried : SUBSET Endpoint]
CallsType == rr \in Endpoint /\ call \in [Caller -> Calls]

Balanced ==
    /\ inflight \in [Endpoint -> Nat]
    /\ \A e \in Endpoint : inflight[e] = Cardinality(Calling(e))

LEMMA NoCallType == NoCall \in Calls
  BY EndpointsType DEF NoCall, Calls

\* What the call of a thread becomes.
LEMMA Entered ==
    ASSUME CallsType, NEW c \in Caller, Enter(c)
    PROVE  \E r \in Calls :
              /\ call' = [call EXCEPT ![c] = r]
              /\ r.step = "busy" /\ r.at = call[c].at /\ r.tries = call[c].tries
              /\ r.tried = call[c].tried \cup {call[c].at}
<1> DEFINE r == [call[c] EXCEPT !.step = "busy", !.tried = call[c].tried \cup {call[c].at}]
<1>1. call[c] \in Calls
  BY DEF CallsType
<1>2. /\ r \in Calls
      /\ r.step = "busy" /\ r.at = call[c].at /\ r.tries = call[c].tries
      /\ r.tried = call[c].tried \cup {call[c].at}
  BY <1>1 DEF Calls
<1>3. call' = [call EXCEPT ![c] = r]
  BY DEF Enter
<1> HIDE DEF r
<1> QED
  BY <1>2, <1>3

LEMMA Failed ==
    ASSUME CallsType, NEW c \in Caller, Fails(c)
    PROVE  \E r \in Calls :
              /\ call' = [call EXCEPT ![c] = r] /\ r.tried = call[c].tried
              /\ \/ r.step = "failed" /\ NoneLeft(call[c].tries) /\ r.at = call[c].at /\ r.tries = call[c].tries
                 \/ /\ r.step = "enter" /\ r.tries = call[c].tries + 1
                    /\ r.at = (call[c].at + 1) % Endpoints
<1> DEFINE last == [call[c] EXCEPT !.step = "failed"]
           again == [call[c] EXCEPT !.step = "enter", !.tries = call[c].tries + 1,
                                    !.at = (call[c].at + 1) % Endpoints]
<1>1. call[c] \in Calls
  BY DEF CallsType
<1>2. CASE NoneLeft(call[c].tries)
  <2>1. call' = [call EXCEPT ![c] = last]
    BY <1>2 DEF Fails
  <2>2. last \in Calls /\ last.step = "failed" /\ last.tried = call[c].tried /\ last.at = call[c].at
        /\ last.tries = call[c].tries
    BY <1>1 DEF Calls
  <2> QED
    BY <1>2, <2>1, <2>2
<1>3. CASE ~NoneLeft(call[c].tries)
  <2>1. call' = [call EXCEPT ![c] = again]
    BY <1>3 DEF Fails
  <2>2. call[c].tries + 1 \in Endpoint /\ (call[c].at + 1) % Endpoints \in Endpoint
    BY <1>1, <1>3, EndpointsType, NextEndpoint DEF NoneLeft, Calls
  <2>3. again \in Calls /\ again.step = "enter" /\ again.tried = call[c].tried
        /\ again.tries = call[c].tries + 1 /\ again.at = (call[c].at + 1) % Endpoints
    BY <1>1, <2>2 DEF Calls
  <2> QED
    BY <2>1, <2>3
<1> QED
  BY <1>2, <1>3

LEMMA Picked ==
    ASSUME NEW c \in Caller, Pick(c)
    PROVE  \E r \in Calls :
              /\ call' = [call EXCEPT ![c] = r]
              /\ r.step = "enter" /\ r.tries = 0
<1>1. PICK e \in Endpoint : call' = [call EXCEPT ![c] = [NoCall EXCEPT !.step = "enter", !.at = e]]
  BY DEF Pick
<1> DEFINE r == [NoCall EXCEPT !.step = "enter", !.at = e]
<1>2. r \in Calls /\ r.step = "enter" /\ r.tries = 0
  BY NoCallType DEF NoCall, Calls
<1>3. call' = [call EXCEPT ![c] = r]
  BY <1>1
<1> HIDE DEF r
<1> QED
  BY <1>2, <1>3

LEMMA Replied ==
    ASSUME NEW c \in Caller, Reply(c)
    PROVE  \E r \in Calls : call' = [call EXCEPT ![c] = r] /\ r.step = "replied"
<1> DEFINE r == [NoCall EXCEPT !.step = "replied"]
<1>1. r \in Calls /\ r.step = "replied"
  BY NoCallType DEF NoCall, Calls
<1>2. call' = [call EXCEPT ![c] = r]
  BY DEF Reply
<1> HIDE DEF r
<1> QED
  BY <1>1, <1>2

LEMMA CallsStep ==
    ASSUME CallsType, [PoolNext]_pool
    PROVE  CallsType'
<1>1. ASSUME NEW c \in Caller, Pick(c) PROVE CallsType'
  BY <1>1, Picked, NextEndpoint DEF CallsType, Pick
<1>2. ASSUME NEW c \in Caller, Completes(c) PROVE CallsType'
  <2>1. \E r \in Calls : call' = [call EXCEPT ![c] = r]
    BY <1>2, Entered, Failed, Replied DEF Completes
  <2>2. UNCHANGED rr
    BY <1>2 DEF Completes, Enter, Fails, Reply
  <2> QED
    BY <2>1, <2>2 DEF CallsType
<1>3. CASE UNCHANGED pool
  BY <1>3 DEF pool, CallsType
<1> QED
  BY <1>1, <1>2, <1>3 DEF PoolNext

-----------------------------------------------------------------------------
(* The balance.                                                            *)

LEMMA CallingIsFinite == ASSUME NEW e PROVE IsFiniteSet(Calling(e)) /\ Cardinality(Calling(e)) \in Nat
  BY PoolAssumption, FS_Subset, FS_CardinalityType DEF Calling

\* One caller moves: the counters change as the sets of callers do.
LEMMA Enters ==
    ASSUME CallsType, Balanced, NEW c \in Caller, Enter(c)
    PROVE  Balanced'
<1>1. PICK at \in Endpoint : at = call[c].at /\ call[c].step = "enter"
  BY DEF CallsType, Calls, Enter
<1>2. PICK r : call' = [call EXCEPT ![c] = r] /\ r.step = "busy" /\ r.at = at
  BY <1>1, Entered
<1>3. Calling(at)' = Calling(at) \cup {c} /\ c \notin Calling(at)
  BY <1>1, <1>2 DEF CallsType, Calling
<1>4. \A e \in Endpoint : e # at => Calling(e)' = Calling(e)
  BY <1>1, <1>2 DEF CallsType, Calling
<1>5. Cardinality(Calling(at)') = Cardinality(Calling(at)) + 1
  BY <1>3, CallingIsFinite, FS_AddElement
<1>6. inflight' = [inflight EXCEPT ![at] = @ + 1]
  BY <1>1 DEF Enter
<1>7. inflight' \in [Endpoint -> Nat]
  BY <1>1, <1>6 DEF Balanced
<1>8. ASSUME NEW e \in Endpoint PROVE inflight'[e] = Cardinality(Calling(e)')
  <2>1. inflight[e] = Cardinality(Calling(e)) /\ inflight[e] \in Nat
    BY DEF Balanced
  <2>2. CASE e = at
    BY <1>1, <1>5, <1>6, <2>1, <2>2 DEF Balanced
  <2>3. CASE e # at
    <3>1. Calling(e)' = Calling(e)
      BY <1>4, <2>3
    <3> QED
      BY <1>1, <1>6, <2>1, <2>3, <3>1 DEF Balanced
  <2> QED
    BY <2>2, <2>3
<1> QED
  BY <1>7, <1>8 DEF Balanced, Calling

LEMMA Leaves ==
    ASSUME CallsType, Balanced, NEW c \in Caller, Reply(c) \/ Fails(c)
    PROVE  Balanced'
<1>1. PICK at \in Endpoint : at = call[c].at /\ c \in Calling(at)
  BY DEF CallsType, Calls, Reply, Fails, Calling
<1>2. PICK r : call' = [call EXCEPT ![c] = r] /\ r.step # "busy"
  BY Replied, Failed
<1>3. Calling(at)' = Calling(at) \ {c}
  <2>1. \A d \in Caller : call'[d] = IF d = c THEN r ELSE call[d]
    BY <1>2 DEF CallsType
  <2> QED
    BY <1>2, <2>1 DEF Calling
<1>4. \A e \in Endpoint : e # at => Calling(e)' = Calling(e)
  BY <1>1, <1>2 DEF CallsType, Calling
<1>5. /\ Cardinality(Calling(at)') = Cardinality(Calling(at)) - 1
      /\ Cardinality(Calling(at)) \in Nat /\ Cardinality(Calling(at)) # 0
  BY <1>1, <1>3, CallingIsFinite, FS_RemoveElement, FS_EmptySet
<1>6. inflight' = [inflight EXCEPT ![at] = @ - 1]
  BY <1>1 DEF Reply, Fails, Left
<1>7. inflight' \in [Endpoint -> Nat]
  BY <1>1, <1>5, <1>6 DEF Balanced
<1>8. ASSUME NEW e \in Endpoint PROVE inflight'[e] = Cardinality(Calling(e)')
  <2>1. inflight[e] = Cardinality(Calling(e)) /\ inflight[e] \in Nat
    BY DEF Balanced
  <2>2. CASE e = at
    BY <1>1, <1>5, <1>6, <2>1, <2>2 DEF Balanced
  <2>3. CASE e # at
    <3>1. Calling(e)' = Calling(e)
      BY <1>4, <2>3
    <3> QED
      BY <1>1, <1>6, <2>1, <2>3, <3>1 DEF Balanced
  <2> QED
    BY <2>2, <2>3
<1> QED
  BY <1>7, <1>8 DEF Balanced, Calling

LEMMA BalanceStep ==
    ASSUME CallsType, Balanced, [PoolNext]_pool
    PROVE  Balanced'
<1>1. ASSUME NEW c \in Caller, Pick(c) PROVE Balanced'
  <2>1. PICK r : call' = [call EXCEPT ![c] = r] /\ r.step = "enter"
    BY <1>1, Picked
  <2>2. call[c].step # "busy" /\ UNCHANGED inflight
    BY <1>1 DEF Pick
  <2>3. \A e \in Endpoint : Calling(e)' = Calling(e)
    BY <2>1, <2>2 DEF CallsType, Calling
  <2> QED
    BY <2>2, <2>3 DEF Balanced
<1>2. CASE UNCHANGED pool
  BY <1>2 DEF pool, Balanced, Calling
<1> QED
  BY <1>1, <1>2, Enters, Leaves DEF PoolNext, Completes

LEMMA BalanceInit == PoolInit => CallsType /\ Balanced
<1> SUFFICES ASSUME PoolInit PROVE CallsType /\ Balanced
  OBVIOUS
<1>1. CallsType
  BY NoCallType, EndpointsType DEF PoolInit, CallsType
<1>2. \A e \in Endpoint : Calling(e) = {}
  BY DEF PoolInit, Calling, NoCall
<1>3. Balanced
  BY <1>2, FS_EmptySet DEF PoolInit, Balanced
<1> QED
  BY <1>1, <1>3

\* Every call is counted where it is under way and nowhere else, whatever failed before:
\* AnswerModelPool.complete increments and decrements under its lock.
THEOREM PoolIsBalanced == PoolSpec => []InflightIsBalance
<1>1. Balanced => InflightIsBalance
  BY DEF Balanced, InflightIsBalance, Calling
<1>2. CallsType /\ Balanced /\ [PoolNext]_pool => CallsType' /\ Balanced'
  BY CallsStep, BalanceStep
<1> QED
  BY <1>1, <1>2, BalanceInit, PTL DEF PoolSpec

-----------------------------------------------------------------------------
(* The failover.                                                           *)

\* How many tries ago a call that is at endpoint at was at endpoint e.
Back(at, e) == IF e <= at THEN at - e ELSE at + Endpoints - e

LEMMA BackType ==
    ASSUME NEW at \in Endpoint, NEW e \in Endpoint
    PROVE  /\ Back(at, e) \in Endpoint
           /\ Back(at, e) = 0 => e = at
           /\ Back((at + 1) % Endpoints, e) # 0
                => Back((at + 1) % Endpoints, e) = Back(at, e) + 1
<1>1. PICK n \in Endpoint : n = (at + 1) % Endpoints /\ n = IF at + 1 = Endpoints THEN 0 ELSE at + 1
  BY NextEndpoint
<1> QED
  BY <1>1, EndpointsType DEF Back

\* A call has tried its last endpoints, as many as it counts.
Failover(k) ==
    /\ k.step = "enter" =>
          \A e \in Endpoint : Back(k.at, e) # 0 /\ Back(k.at, e) <= k.tries => e \in k.tried
    /\ k.step = "busy" => \A e \in Endpoint : Back(k.at, e) <= k.tries => e \in k.tried
    /\ k.step = "failed" => k.tried = Endpoint
FailoverInv == \A c \in Caller : Failover(call[c])

LEMMA FailoverStep ==
    ASSUME CallsType, FailoverInv, [PoolNext]_pool
    PROVE  FailoverInv'
<1>1. ASSUME NEW c \in Caller, NEW k, call' = [call EXCEPT ![c] = k], Failover(k)
      PROVE  FailoverInv'
  <2>1. \A d \in Caller : call'[d] = IF d = c THEN k ELSE call[d]
    BY <1>1 DEF CallsType
  <2> QED
    BY <1>1, <2>1 DEF FailoverInv
<1>2. ASSUME NEW c \in Caller, Pick(c) PROVE FailoverInv'
  <2>1. PICK k \in Calls : call' = [call EXCEPT ![c] = k] /\ k.step = "enter" /\ k.tries = 0
    BY <1>2, Picked
  <2>2. Failover(k)
    BY <2>1, BackType, EndpointsType DEF Failover, Calls
  <2> QED
    BY <1>1, <2>1, <2>2
<1>3. ASSUME NEW c \in Caller, Enter(c) PROVE FailoverInv'
  <2>1. PICK k \in Calls :
           /\ call' = [call EXCEPT ![c] = k]
           /\ k.step = "busy" /\ k.at = call[c].at /\ k.tries = call[c].tries
           /\ k.tried = call[c].tried \cup {call[c].at}
    BY <1>3, Entered
  <2>2. Failover(call[c]) /\ call[c].step = "enter" /\ call[c] \in Calls
    BY <1>3 DEF Enter, FailoverInv, CallsType
  <2>3. Failover(k)
    BY <2>1, <2>2, BackType DEF Failover, Calls
  <2> QED
    BY <1>1, <2>1, <2>3
<1>4. ASSUME NEW c \in Caller, Reply(c) PROVE FailoverInv'
  <2>1. PICK k \in Calls : call' = [call EXCEPT ![c] = k] /\ k.step = "replied"
    BY <1>4, Replied
  <2>2. Failover(k)
    BY <2>1 DEF Failover
  <2> QED
    BY <1>1, <2>1, <2>2
<1>5. ASSUME NEW c \in Caller, Fails(c) PROVE FailoverInv'
  <2>1. PICK k \in Calls :
           /\ call' = [call EXCEPT ![c] = k] /\ k.tried = call[c].tried
           /\ \/ k.step = "failed" /\ NoneLeft(call[c].tries) /\ k.at = call[c].at /\ k.tries = call[c].tries
              \/ /\ k.step = "enter" /\ k.tries = call[c].tries + 1
                 /\ k.at = (call[c].at + 1) % Endpoints
    BY <1>5, Failed
  <2>2. PICK at \in Endpoint, tries \in Endpoint :
           /\ at = call[c].at /\ tries = call[c].tries
           /\ \A e \in Endpoint : Back(at, e) <= tries => e \in k.tried
    BY <1>5, <2>1 DEF Fails, FailoverInv, Failover, CallsType, Calls
  <2>3. ASSUME k.step = "failed" PROVE Failover(k)
    <3>1. tries + 1 = Endpoints
      BY <2>1, <2>2, <2>3 DEF NoneLeft
    <3>2. ASSUME NEW e \in Endpoint PROVE Back(at, e) <= tries
      <4>1. Back(at, e) \in 0 .. Endpoints - 1
        BY BackType, EndpointsType
      <4> QED
        BY <3>1, <4>1, EndpointsType
    <3>3. k.tried = Endpoint
      BY <2>1, <2>2, <3>2 DEF Calls
    <3> QED
      BY <2>3, <3>3 DEF Failover
  <2>4. ASSUME k.step = "enter" PROVE Failover(k)
    <3>1. k.at = (at + 1) % Endpoints /\ k.tries = tries + 1
      BY <2>1, <2>2, <2>4
    <3>2. ASSUME NEW e \in Endpoint, Back(k.at, e) # 0, Back(k.at, e) <= k.tries
          PROVE  e \in k.tried
      <4>1. Back(k.at, e) = Back(at, e) + 1 /\ Back(at, e) \in Endpoint
        BY <2>2, <3>1, <3>2, BackType
      <4>2. Back(at, e) <= tries
        BY <2>2, <3>1, <3>2, <4>1, EndpointsType
      <4> QED
        BY <2>2, <4>2
    <3> QED
      BY <2>4, <3>2 DEF Failover
  <2>5. Failover(k)
    BY <2>1, <2>3, <2>4
  <2> QED
    BY <1>1, <2>1, <2>5
<1>6. CASE UNCHANGED pool
  BY <1>6 DEF pool, FailoverInv
<1> QED
  BY <1>2, <1>3, <1>4, <1>5, <1>6 DEF PoolNext, Completes

\* A completion fails only after each endpoint was tried for it: the retry goes round from
\* the endpoint that was picked, AnswerModelPool.complete.
THEOREM FailoverIsComplete == PoolSpec => []FailsOnlyIfAllFail
<1>1. PoolInit => FailoverInv
  BY DEF PoolInit, FailoverInv, Failover, NoCall
<1>2. CallsType /\ FailoverInv /\ [PoolNext]_pool => CallsType' /\ FailoverInv'
  BY CallsStep, FailoverStep
<1>3. FailoverInv => FailsOnlyIfAllFail
  BY DEF FailoverInv, Failover, FailsOnlyIfAllFail
<1> QED
  BY <1>1, <1>2, <1>3, BalanceInit, PTL DEF PoolSpec

-----------------------------------------------------------------------------
(* The pool inside the answers.                                            *)

LEMMA AnswersUsePool == ASSUME [Next]_vars PROVE [PoolNext]_pool
<1>1. CASE Question
  BY <1>1 DEF Question
<1>2. CASE Answering
  <2>1. CASE InSearch \/ Place \/ NoEvidence \/ NoModel \/ Unavailable \/ Verdict
    BY <2>1 DEF InSearch, Place, NoEvidence, NoModel, Unavailable, Verdict
  <2>2. CASE BeginCompletion \/ Repair
    BY <2>2, AnswersAssumption DEF BeginCompletion, Repair, PoolNext
  <2>3. CASE InCompletion
    BY <2>3, AnswersAssumption DEF InCompletion, PoolNext, Completes
  <2> QED
    BY <1>2, <2>1, <2>2, <2>3 DEF Answering
<1>3. CASE Others
  BY <1>3 DEF Others, PoolNext
<1>4. CASE LibraryChanges
  BY <1>4 DEF LibraryChanges
<1>5. CASE OpenCitation \/ FindOriginal \/ UNCHANGED vars
  BY <1>5 DEF OpenCitation, FindOriginal, vars
<1> QED
  BY <1>1, <1>2, <1>3, <1>4, <1>5 DEF Next

\* While questions are asked and repaired and other threads complete for themselves, the
\* pool's counters are the calls under way.
THEOREM AnswersKeepBalance == Spec => []InflightIsBalance
<1>1. Init => PoolInit
  BY DEF Init
<1>2. [Next]_vars => [PoolNext]_pool
  BY AnswersUsePool
<1> QED
  BY <1>1, <1>2, PoolIsBalanced, PTL DEF Spec, PoolSpec

-----------------------------------------------------------------------------
(* The manifest and the citations.                                         *)

IsSequence(s) == \E S : s \in Seq(S)

LEMMA Appended ==
    ASSUME NEW s, NEW x, IsSequence(s)
    PROVE  /\ IsSequence(Append(s, x))
           /\ Len(s) \in Nat /\ DOMAIN s = 1 .. Len(s)
           /\ Range(Append(s, x)) = Range(s) \cup {x}
<1>1. PICK S : s \in Seq(S)
  BY DEF IsSequence
<1>2. s \in Seq(S \cup {x}) /\ x \in S \cup {x}
  BY <1>1
<1>3. Append(s, x) \in Seq(S \cup {x})
  BY <1>2
<1>4. /\ Len(s) \in Nat /\ DOMAIN s = 1 .. Len(s)
      /\ DOMAIN Append(s, x) = 1 .. Len(s) + 1
      /\ \A i \in 1 .. Len(s) : Append(s, x)[i] = s[i]
      /\ Append(s, x)[Len(s) + 1] = x
  BY <1>2, AppendProperties, LenProperties
<1>5. Range(Append(s, x)) = Range(s) \cup {x}
  <2>1. Range(Append(s, x)) \subseteq Range(s) \cup {x}
    BY <1>4 DEF Range
  <2>2. Range(s) \subseteq Range(Append(s, x)) /\ x \in Range(Append(s, x))
    BY <1>4 DEF Range
  <2> QED
    BY <2>1, <2>2
<1> QED
  BY <1>3, <1>4, <1>5 DEF IsSequence

\* Removal only goes forward.
RemovedType ==
    /\ removed \in [points : SUBSET Book, rows : SUBSET Book, archive : SUBSET Book]
    /\ removed.archive \subseteq removed.rows

LEMMA RemovalIsFinal ==
    ASSUME RemovedType, [Changes]_<<library, search>>
    PROVE  /\ RemovedType'
           /\ \A b : ~Registered(b) => ~Registered(b)'
<1>1. CASE UNCHANGED removed
  BY <1>1 DEF RemovedType, Registered
<1>2. ASSUME NEW b \in Book, RemovePoints(b)
      PROVE  /\ removed' = [removed EXCEPT !.points = removed.points \cup {b}]
  BY <1>2 DEF RemovePoints
<1>3. ASSUME NEW b \in Book, RemoveRows(b)
      PROVE  removed' = [removed EXCEPT !.rows = removed.rows \cup {b}]
  BY <1>3 DEF RemoveRows
<1>4. ASSUME NEW b \in Book, RemoveOriginal(b)
      PROVE  /\ removed' = [removed EXCEPT !.archive = removed.archive \cup {b}]
             /\ b \in removed.rows
  BY <1>4 DEF RemoveOriginal
<1>5. CASE \E b \in Book : RemovePoints(b) \/ RemoveRows(b) \/ RemoveOriginal(b)
  BY <1>2, <1>3, <1>4, <1>5 DEF RemovedType, Registered
<1> QED
  BY <1>1, <1>5 DEF Changes, NewRevision, PublishB2, PublishB3, PublishB4, library

LEMMA NextRemoves == ASSUME [Next]_vars PROVE [Changes]_<<library, search>> \/ UNCHANGED removed
  BY DEF Next, vars, library, Question, Ask, Answering, InSearch, Searches, Place, NoEvidence,
         NoModel, BeginCompletion, InCompletion, Unavailable, Verdict, Repair, Persist, Stored,
         OpenCitation, FindOriginal, Others, LibraryChanges

\* What the manifest lacks of a book is lacking because it was removed.
Known(s) == \A e \in Range(s) : ~e.placed \/ ~e.titled => ~Registered(e.pub.book)

Manifest ==
    /\ RemovedType
    /\ IsSequence(evidence) /\ Known(evidence)
    /\ stage \in {"idle", "settled"} => evidence = <<>>

LEMMA ManifestStep == ASSUME Manifest, [Next]_vars PROVE Manifest'
<1>1. RemovedType' /\ \A b : ~Registered(b) => ~Registered(b)'
  BY NextRemoves, RemovalIsFinal DEF Manifest, RemovedType, Registered
<1>2. CASE UNCHANGED evidence /\ stage' \notin {"idle", "settled"}
  BY <1>1, <1>2 DEF Manifest, Known
<1>3. CASE UNCHANGED <<stage, evidence>>
  BY <1>1, <1>3 DEF Manifest, Known
<1>4. CASE evidence' = <<>>
  <2>1. IsSequence(<<>>) /\ Range(<<>>) = {}
    BY DEF IsSequence, Range
  <2> QED
    BY <1>1, <1>4, <2>1 DEF Manifest, Known
<1>5. CASE Place
  <2> DEFINE p == search.passages[Len(evidence) + 1]
             before == {e \in Range(evidence) : e.pub = p.pub}
             e0 == [pub |-> p.pub, chunk |-> p.chunk, placed |-> UnitsFound(p),
                    titled |-> IF before = {} THEN Registered(p.pub.book)
                               ELSE \A e \in before : e.titled]
  <2>1. evidence' = Append(evidence, e0) /\ stage = "searching" /\ UNCHANGED <<stage, removed>>
    BY <1>5 DEF Place, Found, library
  <2>2. e0.pub = p.pub /\ e0.placed = UnitsFound(p)
        /\ e0.titled = IF before = {} THEN Registered(p.pub.book) ELSE \A e \in before : e.titled
    OBVIOUS
  <2>3. ~e0.placed \/ ~e0.titled => ~Registered(e0.pub.book)
    BY <2>2 DEF UnitsFound, Manifest, Known
  <2> HIDE DEF e0
  <2>4. IsSequence(evidence') /\ Range(evidence') = Range(evidence) \cup {e0}
    BY <2>1, Appended DEF Manifest
  <2> QED
    BY <1>1, <2>1, <2>3, <2>4 DEF Manifest, Known
<1> QED
  BY <1>2, <1>3, <1>4, <1>5 DEF Next, vars, Question, Answering, InSearch, NoEvidence, NoModel,
     BeginCompletion, InCompletion, Unavailable, Verdict, Judged, Repair, Persist, Stored, OpenCitation,
     FindOriginal, Others, LibraryChanges, Manifest

\* The manifest of an answer misses a title or a place only of a book that was removed:
\* build_manifest reads by the revision and the units that were found, not by what is
\* active when it reads.
THEOREM ManifestIsPlaced == Spec => []EvidenceIsPlaced
<1>1. Init => Manifest
  <2>1. IsSequence(<<>>) /\ Range(<<>>) = {}
    BY DEF IsSequence, Range
  <2> QED
    BY <2>1 DEF Init, SearchInit, Manifest, RemovedType, Known
<1>2. Manifest => EvidenceIsPlaced
  BY DEF Manifest, Known, EvidenceIsPlaced
<1> QED
  BY <1>1, <1>2, ManifestStep, PTL DEF Spec

Stands ==
    LET n == citation.number
    IN  /\ citation.step = "unknown" => n \notin answer.cites
        /\ citation.step = "refused" => ~Registered(citation.pub.book)
        /\ citation.step \in {"original", "available"} => citation.pub = answer.evidence[n].pub

Cited ==
    /\ Manifest
    /\ IsSequence(answer.evidence)
    /\ answer.cites \subseteq DOMAIN answer.evidence
    /\ answer.status = "answered" => answer.cites # {}
    /\ stage # "settled" => answer = NoAnswer /\ citation = NoCitation
    /\ Stands

LEMMA EmptyIsSequence == IsSequence(<<>>)
  BY DEF IsSequence

LEMMA PersistStep ==
    ASSUME Cited, NEW status, NEW cites, Persist(status, cites), stage # "settled",
           cites \subseteq DOMAIN evidence, status = "answered" => cites # {}, Manifest'
    PROVE  Cited'
<1>1. answer' = [status |-> status, cites |-> cites, evidence |-> evidence] /\ stage' = "settled"
  BY DEF Persist, Stored
<1>2. citation' = NoCitation
  BY DEF Persist, Stored, Cited
<1> QED
  BY <1>1, <1>2 DEF Cited, Stands, NoCitation, Manifest

LEMMA PersistNothing ==
    ASSUME Cited, Manifest', stage # "settled",
           Persist("no evidence", {}) \/ Persist("abstained", {}) \/ Persist("failed", {})
    PROVE  Cited'
<1>1. PICK status \in {"no evidence", "abstained", "failed"} : Persist(status, {})
  OBVIOUS
<1>2. {} \subseteq DOMAIN evidence /\ status # "answered"
  OBVIOUS
<1> QED
  BY <1>1, <1>2, PersistStep

LEMMA CitedStep == ASSUME Cited, [Next]_vars PROVE Cited'
<1>0. Manifest' /\ \A b : ~Registered(b) => ~Registered(b)'
  BY ManifestStep, NextRemoves, RemovalIsFinal DEF Cited, Manifest, Registered
<1>1. CASE Question
  <2>1. answer' = NoAnswer /\ citation' = NoCitation
    BY <1>1 DEF Question
  <2> QED
    BY <1>0, <2>1, EmptyIsSequence DEF Cited, Stands, NoAnswer, NoCitation
<1>2. CASE UNCHANGED <<stage, answer, citation>>
  BY <1>0, <1>2 DEF Cited, Stands
<1>3. CASE UNCHANGED <<answer, citation>> /\ stage # "settled"
  BY <1>0, <1>3 DEF Cited, Stands
<1>4. CASE NoEvidence \/ NoModel \/ Unavailable
  <2>1. stage # "settled" /\ (Persist("no evidence", {}) \/ Persist("failed", {}))
    BY <1>4 DEF NoEvidence, NoModel, Unavailable, Placed, Found
  <2> QED
    BY <1>0, <2>1, PersistNothing
<1>5. CASE Verdict
  <2>1. /\ stage # "settled"
        /\ \/ Persist("abstained", {}) \/ Persist("failed", {})
           \/ Persist("answered", raw.cites) /\ raw.cites # {} /\ raw.cites \subseteq DOMAIN evidence
    BY <1>5 DEF Verdict, Judged, Accepted
  <2>2. CASE Persist("abstained", {}) \/ Persist("failed", {})
    BY <1>0, <2>1, <2>2, PersistNothing
  <2>3. CASE Persist("answered", raw.cites) /\ raw.cites # {} /\ raw.cites \subseteq DOMAIN evidence
    BY <1>0, <2>1, <2>3, PersistStep
  <2> QED
    BY <2>1, <2>2, <2>3
<1>6. CASE OpenCitation
  <2>1. PICK n \in 1 .. MaxPassages :
          citation' =
            IF n > Len(answer.evidence) THEN [NoCitation EXCEPT !.step = "unknown", !.number = n]
            ELSE [step |-> IF Resolves(answer.evidence[n].pub) THEN "original" ELSE "refused",
                  number |-> n, pub |-> answer.evidence[n].pub]
    BY <1>6 DEF OpenCitation
  <2>2. stage = "settled" /\ UNCHANGED <<answer, stage, removed>>
    BY <1>6 DEF OpenCitation, Cited, NoAnswer, library
  <2>3. CASE n > Len(answer.evidence)
    <3>1. n \notin DOMAIN answer.evidence
      BY <2>3, Appended DEF Cited
    <3>2. citation'.step = "unknown" /\ citation'.number = n
      BY <2>1, <2>3 DEF NoCitation
    <3> QED
      BY <1>0, <2>2, <3>1, <3>2 DEF Cited, Stands
  <2>4. CASE ~(n > Len(answer.evidence))
    <3>1. /\ citation'.number = n /\ citation'.pub = answer.evidence[n].pub
          /\ citation'.step = IF Resolves(answer.evidence[n].pub) THEN "original" ELSE "refused"
      BY <2>1, <2>4
    <3>2. ~Resolves(answer.evidence[n].pub) => ~Registered(answer.evidence[n].pub.book)
      BY DEF Resolves
    <3> QED
      BY <1>0, <2>2, <3>1, <3>2 DEF Cited, Stands
  <2> QED
    BY <2>3, <2>4
<1>7. CASE FindOriginal
  <2>1. citation.step = "original" /\ UNCHANGED <<answer, stage, removed>>
    BY <1>7 DEF FindOriginal, library
  <2>2. /\ citation'.number = citation.number /\ citation'.pub = citation.pub
        /\ citation'.step \in {"available", "refused"}
        /\ citation'.step = "refused" => citation.pub.book \in removed.archive
    BY <1>7 DEF FindOriginal
  <2>3. stage = "settled"
    BY <2>1 DEF Cited, NoCitation
  <2>4. citation'.step = "refused" => ~Registered(citation.pub.book)'
    BY <2>1, <2>2 DEF Cited, Manifest, RemovedType, Registered
  <2> QED
    BY <1>0, <2>1, <2>2, <2>3, <2>4 DEF Cited, Stands
<1> QED
  BY <1>1, <1>2, <1>3, <1>4, <1>5, <1>6, <1>7 DEF Next, vars, Answering, InSearch, Place, Found,
     BeginCompletion, Placed, InCompletion, Repair, Judged, Others, LibraryChanges

LEMMA CitedInit == Init => Cited
<1>1. Range(<<>>) = {}
  BY DEF Range
<1> QED
  BY <1>1, EmptyIsSequence DEF Init, SearchInit, Cited, Manifest, RemovedType, Known, Stands,
     NoAnswer, NoCitation

\* An answer that is kept cites evidence of its own list only, after the repair as well:
\* answer_query judges both replies alike.
THEOREM AnswersAreCited == Spec => []AnswersCite
<1>1. Cited => AnswersCite
  BY DEF Cited, AnswersCite
<1> QED
  BY <1>1, CitedInit, CitedStep, PTL DEF Spec

\* A stored citation leads to the edition it was found in or, once the book was removed,
\* nowhere: resolve_citation reads the frozen manifest.
THEOREM StoredCitationsStand == Spec => []CitationsStand
<1>1. Cited => CitationsStand
  BY DEF Cited, Stands, CitationsStand
<1> QED
  BY <1>1, CitedInit, CitedStep, PTL DEF Spec

-----------------------------------------------------------------------------
(* Loops, written as recursive functions.                                  *)

\* A set of naturals has a least element: induction, without a predicate as a parameter.
LEMMA LeastNatural ==
    ASSUME NEW T \in SUBSET Nat, T # {}
    PROVE  \E x \in T : \A y \in T : x <= y
<1> DEFINE U == {0 .. x : x \in T}
           R == StrictSubsetOrdering(Nat)
<1>1. U \subseteq FiniteSubsetsOf(Nat) /\ U # {}
  <2>1. \A x \in T : IsFiniteSet(0 .. x) /\ 0 .. x \subseteq Nat
    BY FS_Interval
  <2> QED
    BY <2>1 DEF FiniteSubsetsOf
<1>2. PICK u \in U : \A v \in U : ~ (<<v, u>> \in R)
  <2>1. IsWellFoundedOn(R, FiniteSubsetsOf(Nat))
    BY FS_StrictSubsetOrderingWellFounded
  <2> HIDE DEF U, R
  <2> QED
    BY <1>1, <2>1, WFMin
<1>3. PICK x \in T : u = 0 .. x
  BY <1>2
<1>4. \A y \in T : x <= y
  <2> SUFFICES ASSUME NEW y \in T, y < x
               PROVE  FALSE
    OBVIOUS
  <2>1. x \in 0 .. x /\ x \notin 0 .. y /\ 0 .. y \subseteq 0 .. x
    OBVIOUS
  <2>2. <<0 .. y, 0 .. x>> \in R
    BY <2>1 DEF StrictSubsetOrdering
  <2> QED
    BY <1>2, <1>3, <2>2
<1> QED
  BY <1>4

\* What holds before the loop and is kept by each turn holds after each turn.
LEMMA LoopKeeps ==
    ASSUME NEW n \in Nat, NEW V, NEW f, f[0] \in V[0],
           \A k \in 1 .. n : f[k - 1] \in V[k - 1] => f[k] \in V[k]
    PROVE  \A k \in 0 .. n : f[k] \in V[k]
<1> DEFINE T == {k \in 0 .. n : f[k] \notin V[k]}
<1>1. ASSUME T # {} PROVE FALSE
  <2>1. PICK k \in T : \A j \in T : k <= j
    <3>1. T \in SUBSET Nat
      OBVIOUS
    <3> HIDE DEF T
    <3> QED
      BY <1>1, <3>1, LeastNatural
  <2>2. k # 0 /\ k \in 0 .. n
    OBVIOUS
  <2>3. k - 1 \in 0 .. n /\ ~ (k <= k - 1) /\ k \in 1 .. n
    BY <2>2
  <2>4. f[k - 1] \in V[k - 1]
    BY <2>1, <2>3
  <2> QED
    BY <2>1, <2>3, <2>4
<1> QED
  BY <1>1

\* G is what a turn does to the state, V[k] what the state is after k turns.
Goes(n, V, G) == \A k \in 1 .. n : \A u \in V[k - 1] : G[<<k, u>>] \in V[k]
Runs(n, U, V, G, v) ==
    \E f \in [0 .. n -> U] :
        f[0] = v /\ \A k \in 1 .. n : f[k - 1] \in V[k - 1] /\ f[k] = G[<<k, f[k - 1]>>]

\* A loop of n turns, as a recursive function, has its states.
LEMMA LoopRuns ==
    ASSUME NEW n \in Nat, NEW U, NEW V \in [0 .. n -> SUBSET U], NEW G, NEW v \in V[0],
           Goes(n, V, G)
    PROVE  Runs(n, U, V, G, v)
<1> USE DEF Goes
<1> DEFINE Comes(m, f) == /\ f[0] = v /\ f[m] \in V[m]
                         /\ \A k \in 1 .. m : f[k - 1] \in V[k - 1] /\ f[k] = G[<<k, f[k - 1]>>]
           T == {m \in 0 .. n : ~ \E f \in [0 .. n -> U] : Comes(m, f)}
<1>1. ASSUME T # {} PROVE FALSE
  <2>1. PICK m \in T : \A j \in T : m <= j
    <3>1. T \in SUBSET Nat
      OBVIOUS
    <3> HIDE DEF T
    <3> QED
      BY <1>1, <3>1, LeastNatural
  <2>2. m # 0
    <3>1. [k \in 0 .. n |-> v] \in [0 .. n -> U] /\ Comes(0, [k \in 0 .. n |-> v])
      OBVIOUS
    <3> QED
      BY <2>1, <3>1
  <2>3. m \in 1 .. n /\ m - 1 \in 0 .. n /\ ~ (m <= m - 1)
    BY <2>2
  <2>4. PICK f \in [0 .. n -> U] : Comes(m - 1, f)
    BY <2>1, <2>3
  <2> DEFINE x == G[<<m, f[m - 1]>>]
             g == [f EXCEPT ![m] = x]
  <2>5. x \in V[m]
    BY <2>3, <2>4
  <2>6. g \in [0 .. n -> U] /\ g[m] = x /\ \A k \in 0 .. m - 1 : g[k] = f[k]
    BY <2>3, <2>5
  <2>7. \A k \in 1 .. m : g[k - 1] \in V[k - 1] /\ g[k] = G[<<k, g[k - 1]>>]
    <3>1. \A k \in 1 .. m - 1 : f[k - 1] \in V[k - 1] /\ f[k] = G[<<k, f[k - 1]>>]
      BY <2>4
    <3>2. f[m - 1] \in V[m - 1]
      BY <2>4
    <3> HIDE DEF g, Comes, T
    <3>3. ASSUME NEW k \in 1 .. m - 1
          PROVE  g[k - 1] \in V[k - 1] /\ g[k] = G[<<k, g[k - 1]>>]
      <4>1. k \in 0 .. m - 1 /\ k - 1 \in 0 .. m - 1
        BY <2>3
      <4>2. g[k] = f[k] /\ g[k - 1] = f[k - 1]
        BY <2>6, <4>1
      <4> QED
        BY <3>1, <4>2
    <3>4. g[m - 1] \in V[m - 1] /\ g[m] = G[<<m, g[m - 1]>>]
      <4>1. m - 1 \in 0 .. m - 1
        BY <2>3
      <4>2. g[m - 1] = f[m - 1]
        BY <2>6, <4>1
      <4> QED
        BY <2>6, <3>2, <4>2
    <3>5. \A k \in 1 .. m : k \in 1 .. m - 1 \/ k = m
      BY <2>3
    <3> QED
      BY <3>3, <3>4, <3>5
  <2>8. Comes(m, g)
    BY <2>3, <2>4, <2>5, <2>6, <2>7
  <2> QED
    BY <2>1, <2>6, <2>8
<1>2. PICK f \in [0 .. n -> U] : Comes(n, f)
  <2>1. n \in 0 .. n /\ T = {}
    BY <1>1
  <2> QED
    BY <2>1
<1> QED
  BY <1>2 DEF Runs

-----------------------------------------------------------------------------
(* The ranking of what was found.                                          *)

Ids == Book \X Nat \X Chunk

\* A set that was found has a best element: no infinite ascent.
LEMMA BestIsFound ==
    ASSUME NEW found, NEW ids \in SUBSET Ids, IsFiniteSet(ids), ids # {},
           \A x \in ids : found[x].score \in Nat
    PROVE  Best(found, ids) \in ids
<1> DEFINE Above(x) == {y \in ids : Ahead(found, y, x)}
           W == {Above(x) : x \in ids}
           R == StrictSubsetOrdering(ids)
<1>1. W \subseteq FiniteSubsetsOf(ids) /\ W # {}
  <2>1. \A x \in ids : IsFiniteSet(Above(x)) /\ Above(x) \subseteq ids
    BY FS_Subset
  <2> HIDE DEF Above
  <2> QED
    BY <2>1 DEF FiniteSubsetsOf
<1>2. PICK w \in W : \A v \in W : ~ (<<v, w>> \in R)
  <2>1. IsWellFoundedOn(R, FiniteSubsetsOf(ids))
    BY FS_StrictSubsetOrderingWellFounded
  <2> HIDE DEF W, R
  <2> QED
    BY <1>1, <2>1, WFMin
<1>3. PICK x \in ids : w = Above(x)
  BY <1>2
<1>4. \A y \in ids : DenseRank[<<y[1], y[3]>>] \in Nat
  <2>1. \A y \in ids : <<y[1], y[3]>> \in Book \X Chunk
    BY DEF Ids
  <2>2. DenseRank \in [Book \X Chunk -> Nat]
    BY SearchAssumption DEF Injection
  <2> QED
    BY <2>1, <2>2
<1>5. \A y \in ids : ~Ahead(found, y, x)
  <2> SUFFICES ASSUME NEW y \in ids, Ahead(found, y, x)
               PROVE  FALSE
    OBVIOUS
  <2>1. \A z \in ids : Ahead(found, z, y) => Ahead(found, z, x)
    <3> SUFFICES ASSUME NEW z \in ids, Ahead(found, z, y)
                 PROVE  Ahead(found, z, x)
      OBVIOUS
    <3>1. /\ found[x].score \in Nat /\ found[y].score \in Nat /\ found[z].score \in Nat
          /\ DenseRank[<<x[1], x[3]>>] \in Nat /\ DenseRank[<<y[1], y[3]>>] \in Nat
          /\ DenseRank[<<z[1], z[3]>>] \in Nat
      BY <1>4
    <3> QED
      BY <3>1 DEF Ahead
  <2>2. ~Ahead(found, y, y)
    BY <1>4 DEF Ahead
  <2>3. Above(y) \subseteq Above(x) /\ y \in Above(x) /\ y \notin Above(y)
    BY <2>1, <2>2
  <2>4. <<Above(y), Above(x)>> \in R
    BY <2>3 DEF StrictSubsetOrdering
  <2>5. Above(y) \in W
    OBVIOUS
  <2> QED
    BY <1>2, <1>3, <2>4, <2>5
<1> QED
  BY <1>5 DEF Best

\* The ranking is a permutation of what it ranks.
LEMMA RankingIsWhole ==
    ASSUME NEW found, NEW ids \in SUBSET Ids, IsFiniteSet(ids),
           \A x \in ids : found[x].score \in Nat
    PROVE  /\ Ranking(found, ids) \in Seq(ids)
           /\ Len(Ranking(found, ids)) = Cardinality(ids)
           /\ Range(Ranking(found, ids)) = ids
<1> DEFINE n == Cardinality(ids)
           Grown(s) == Append(s, Best(found, ids \ Range(s)))
           V == [k \in 0 .. n |-> {s \in Seq(ids) : Len(s) = k /\ Cardinality(Range(s)) = k}]
           G == [p \in (1 .. n) \X Seq(ids) |-> Grown(p[2])]
           Body(f) == [k \in 0 .. n |-> IF k = 0 THEN <<>> ELSE Grown(f[k - 1])]
           best == CHOOSE f : f = Body(f)
<1>1. n \in Nat
  BY FS_CardinalityType
<1>2. ASSUME NEW k \in 1 .. n, NEW u \in V[k - 1]
      PROVE  Grown(u) \in V[k]
  <2>1. u \in Seq(ids) /\ Len(u) = k - 1 /\ Cardinality(Range(u)) = k - 1
    BY <1>1, <1>2
  <2>2. Range(u) \subseteq ids /\ IsFiniteSet(Range(u))
    <3>1. Range(u) \subseteq ids
      BY <2>1 DEF Range
    <3> QED
      BY <3>1, FS_Subset
  <2> DEFINE x == Best(found, ids \ Range(u))
  <2>3. x \in ids \ Range(u)
    <3>1. ids \ Range(u) # {}
      <4>1. Range(u) # ids
        BY <1>1, <2>1
      <4> QED
        BY <2>2, <4>1
    <3>2. IsFiniteSet(ids \ Range(u)) /\ ids \ Range(u) \in SUBSET Ids
      BY FS_Subset
    <3> QED
      BY <3>1, <3>2, BestIsFound
  <2>4. Cardinality(Range(u) \cup {x}) = k
    <3> HIDE DEF x
    <3>1. Cardinality(Range(u) \cup {x}) = Cardinality(Range(u)) + 1
      BY <2>2, <2>3, FS_AddElement
    <3> QED
      BY <1>1, <2>1, <3>1
  <2>5. Range(Append(u, x)) = Range(u) \cup {x}
    BY <2>1, Appended DEF IsSequence
  <2>6. Append(u, x) \in Seq(ids) /\ Len(Append(u, x)) = k
    BY <1>1, <2>1, <2>3
  <2>7. Append(u, x) \in V[k]
    <3>1. k \in 0 .. n
      BY <1>1
    <3> HIDE DEF x, n
    <3> QED
      BY <3>1, <2>4, <2>5, <2>6
  <2> QED
    BY <2>7
<1>3. V \in [0 .. n -> SUBSET Seq(ids)] /\ <<>> \in V[0]
  <2>1. Range(<<>>) = {}
    BY DEF Range
  <2>2. <<>> \in Seq(ids) /\ Len(<<>>) = 0 /\ Cardinality({}) = 0 /\ 0 \in 0 .. n
    BY <1>1, FS_EmptySet
  <2> QED
    BY <2>1, <2>2
<1>4. \A k \in 1 .. n : \A u \in V[k - 1] : G[<<k, u>>] = Grown(u)
  <2> SUFFICES ASSUME NEW k \in 1 .. n, NEW u \in V[k - 1]
               PROVE  G[<<k, u>>] = Grown(u)
    OBVIOUS
  <2>1. u \in Seq(ids)
    BY <1>1
  <2> HIDE DEF V, Grown
  <2> QED
    BY <2>1
<1> HIDE DEF G, V, Grown
<1>5. PICK f \in [0 .. n -> Seq(ids)] :
         f[0] = <<>> /\ \A k \in 1 .. n : f[k - 1] \in V[k - 1] /\ f[k] = G[<<k, f[k - 1]>>]
  <2>1. Goes(n, V, G)
    BY <1>2, <1>4 DEF Goes
  <2>2. Runs(n, Seq(ids), V, G, <<>>)
    <3> HIDE DEF n
    <3> QED
      BY <1>1, <1>3, <2>1, LoopRuns
  <2> QED
    BY <2>2 DEF Runs
<1>6. f = Body(f)
  <2>1. \A k \in 1 .. n : f[k] = Grown(f[k - 1])
    BY <1>4, <1>5
  <2>2. \A k \in 0 .. n : k = 0 \/ k \in 1 .. n
    BY <1>1
  <2> HIDE DEF n
  <2> QED
    BY <1>5, <2>1, <2>2
<1>7. best = Body(best)
  <2> HIDE DEF Body
  <2> QED
    BY <1>6
<1>8. Ranking(found, ids) = best[n]
  BY DEF Ranking, Grown
<1>9. best[0] = <<>> /\ \A k \in 1 .. n : best[k] = Grown(best[k - 1])
  <2>1. 0 \in 0 .. n /\ \A k \in 1 .. n : k \in 0 .. n /\ k # 0
    BY <1>1
  <2> HIDE DEF n, best
  <2> QED
    BY <1>7, <2>1
<1> HIDE DEF best, Body
<1>10. \A k \in 0 .. n : best[k] \in V[k]
  <2>1. \A k \in 1 .. n : best[k - 1] \in V[k - 1] => best[k] \in V[k]
    BY <1>2, <1>9
  <2> HIDE DEF n
  <2> QED
    BY <1>1, <1>3, <1>9, <2>1, LoopKeeps
<1>11. best[n] \in Seq(ids) /\ Len(best[n]) = n /\ Cardinality(Range(best[n])) = n
  <2>1. n \in 0 .. n
    BY <1>1
  <2>2. best[n] \in V[n]
    BY <1>10, <2>1
  <2> QED
    BY <2>1, <2>2 DEF V
<1>12. Range(best[n]) = ids
  <2>1. Range(best[n]) \subseteq ids
    BY <1>11 DEF Range
  <2> QED
    BY <1>11, <2>1, FS_Subset
<1> QED
  BY <1>8, <1>11, <1>12

\* The same for a loop whose state has one type throughout.
LEMMA TypedLoopKeeps ==
    ASSUME NEW n \in Nat, NEW U, NEW f, f[0] \in U,
           \A k \in 1 .. n : f[k - 1] \in U => f[k] \in U
    PROVE  \A k \in 0 .. n : f[k] \in U
<1> DEFINE V == [k \in 0 .. n |-> U]
<1>1. \A k \in 0 .. n : V[k] = U
  OBVIOUS
<1>2. 0 \in 0 .. n /\ \A k \in 1 .. n : k \in 0 .. n /\ k - 1 \in 0 .. n
  OBVIOUS
<1> HIDE DEF V
<1>3. f[0] \in V[0] /\ \A k \in 1 .. n : V[k - 1] = U /\ V[k] = U
  BY <1>1, <1>2
<1>4. \A k \in 1 .. n : f[k - 1] \in V[k - 1] => f[k] \in V[k]
  BY <1>3
<1>5. \A k \in 0 .. n : f[k] \in V[k]
  BY <1>3, <1>4, LoopKeeps
<1> QED
  BY <1>1, <1>5

GoesOn(n, U, G) == \A k \in 1 .. n : \A u \in U : G[<<k, u>>] \in U
RunsOn(n, U, G, v) ==
    \E f \in [0 .. n -> U] :
        f[0] = v /\ \A k \in 1 .. n : f[k - 1] \in U /\ f[k] = G[<<k, f[k - 1]>>]

LEMMA TypedLoopRuns ==
    ASSUME NEW n \in Nat, NEW U, NEW G, NEW v \in U, GoesOn(n, U, G)
    PROVE  RunsOn(n, U, G, v)
<1> DEFINE V == [k \in 0 .. n |-> U]
<1>1. \A k \in 0 .. n : V[k] = U
  OBVIOUS
<1>2. 0 \in 0 .. n /\ \A k \in 1 .. n : k \in 0 .. n /\ k - 1 \in 0 .. n
  OBVIOUS
<1>3. V \in [0 .. n -> SUBSET U]
  OBVIOUS
<1> HIDE DEF V
<1>4. v \in V[0] /\ \A k \in 1 .. n : V[k - 1] = U /\ V[k] = U
  BY <1>1, <1>2
<1>5. Goes(n, V, G)
  <2> SUFFICES ASSUME NEW k \in 1 .. n, NEW u \in V[k - 1]
               PROVE  G[<<k, u>>] \in V[k]
    BY DEF Goes
  <2>1. V[k - 1] = U /\ V[k] = U
    BY <1>4
  <2> QED
    BY <2>1 DEF GoesOn
<1>6. Runs(n, U, V, G, v)
  BY <1>3, <1>4, <1>5, LoopRuns
<1> QED
  BY <1>4, <1>6 DEF Runs, RunsOn

\* What the first pass does to its lists keeps them lists of what is selected from.
LEMMA TakenStays ==
    ASSUME NEW S, NEW pass \in [sel : Seq(S), put : Seq(S)], NEW p \in S
    PROVE  Taken(pass, p) \in [sel : Seq(S), put : Seq(S)]
<1>1. /\ [pass EXCEPT !.put = Append(pass.put, p)] \in [sel : Seq(S), put : Seq(S)]
      /\ [pass EXCEPT !.sel = Append(pass.sel, p)] \in [sel : Seq(S), put : Seq(S)]
  <2>1. Append(pass.put, p) \in Seq(S) /\ Append(pass.sel, p) \in Seq(S)
    BY AppendProperties
  <2> QED
    BY <2>1
<1> QED
  BY <1>1 DEF Taken

LEMMA FirstPassStays ==
    ASSUME NEW S, NEW ranked \in Seq(S)
    PROVE  FirstPass(ranked) \in [sel : Seq(S), put : Seq(S)]
<1> DEFINE n == Len(ranked)
           U == [sel : Seq(S), put : Seq(S)]
           G == [x \in (1 .. n) \X U |-> Taken(x[2], ranked[x[1]])]
           start == [sel |-> <<>>, put |-> <<>>]
           Body(f) == [k \in 0 .. n |-> IF k = 0 THEN start ELSE Taken(f[k - 1], ranked[k])]
           pass == CHOOSE f : f = Body(f)
<1>1. n \in Nat /\ \A k \in 1 .. n : ranked[k] \in S
  BY LenProperties
<1>2. \A k \in 1 .. n : \A u \in U : G[<<k, u>>] = Taken(u, ranked[k]) /\ Taken(u, ranked[k]) \in U
  <2> SUFFICES ASSUME NEW k \in 1 .. n, NEW u \in U
               PROVE  G[<<k, u>>] = Taken(u, ranked[k]) /\ Taken(u, ranked[k]) \in U
    OBVIOUS
  <2>1. Taken(u, ranked[k]) \in U
    BY <1>1, TakenStays
  <2> QED
    BY <2>1
<1>3. start \in U
  OBVIOUS
<1> HIDE DEF G, U, n, start
<1>4. PICK f \in [0 .. n -> U] :
         f[0] = start /\ \A k \in 1 .. n : f[k - 1] \in U /\ f[k] = G[<<k, f[k - 1]>>]
  <2>1. GoesOn(n, U, G)
    BY <1>2 DEF GoesOn
  <2>2. RunsOn(n, U, G, start)
    BY <1>1, <1>3, <2>1, TypedLoopRuns
  <2> QED
    BY <2>2 DEF RunsOn
<1>5. f = Body(f)
  <2>1. \A k \in 1 .. n : f[k] = Taken(f[k - 1], ranked[k])
    BY <1>2, <1>4
  <2>2. \A k \in 0 .. n : k = 0 \/ k \in 1 .. n
    BY <1>1
  <2> QED
    BY <1>4, <2>1, <2>2
<1>6. pass = Body(pass)
  <2> HIDE DEF Body
  <2> QED
    BY <1>5
<1>7. FirstPass(ranked) = pass[n]
  BY DEF FirstPass, n, start
<1>8. pass[0] = start /\ \A k \in 1 .. n : pass[k] = Taken(pass[k - 1], ranked[k])
  <2>1. 0 \in 0 .. n /\ \A k \in 1 .. n : k \in 0 .. n /\ k # 0
    BY <1>1
  <2> HIDE DEF pass
  <2> QED
    BY <1>6, <2>1
<1> HIDE DEF pass, Body
<1>9. \A k \in 0 .. n : pass[k] \in U
  <2>1. \A k \in 1 .. n : pass[k - 1] \in U => pass[k] \in U
    BY <1>2, <1>8
  <2>2. pass[0] \in U
    BY <1>3, <1>8
  <2> QED
    BY <1>1, <2>1, <2>2, TypedLoopKeeps
<1>10. pass[n] \in U
  BY <1>1, <1>9
<1> QED
  BY <1>7, <1>10 DEF U

LEMMA FilledStays ==
    ASSUME NEW S, NEW first \in [sel : Seq(S), put : Seq(S)], NEW max
    PROVE  Filled(first, max) \in Seq(S)
<1> DEFINE n == Len(first.put)
           U == Seq(S)
           More(s, p) == IF Len(s) < max /\ Fits(s, p) THEN Append(s, p) ELSE s
           G == [x \in (1 .. n) \X U |-> More(x[2], first.put[x[1]])]
           Body(f) == [k \in 0 .. n |-> IF k = 0 THEN first.sel ELSE More(f[k - 1], first.put[k])]
           fill == CHOOSE f : f = Body(f)
<1>1. n \in Nat /\ first.sel \in U /\ \A k \in 1 .. n : first.put[k] \in S
  BY LenProperties
<1>2. \A k \in 1 .. n : \A u \in U :
         G[<<k, u>>] = More(u, first.put[k]) /\ More(u, first.put[k]) \in U
  <2> SUFFICES ASSUME NEW k \in 1 .. n, NEW u \in U
               PROVE  G[<<k, u>>] = More(u, first.put[k]) /\ More(u, first.put[k]) \in U
    OBVIOUS
  <2>1. More(u, first.put[k]) \in U
    BY <1>1, AppendProperties
  <2> HIDE DEF More
  <2> QED
    BY <2>1
<1>3. first.sel \in U
  OBVIOUS
<1>4. Filled(first, max) = fill[n]
  BY DEF Filled
<1> HIDE DEF G, U, n, More
<1>5. PICK f \in [0 .. n -> U] :
         f[0] = first.sel /\ \A k \in 1 .. n : f[k - 1] \in U /\ f[k] = G[<<k, f[k - 1]>>]
  <2>1. GoesOn(n, U, G)
    BY <1>2 DEF GoesOn
  <2>2. RunsOn(n, U, G, first.sel)
    BY <1>1, <1>3, <2>1, TypedLoopRuns
  <2> QED
    BY <2>2 DEF RunsOn
<1>6. f = Body(f)
  <2>1. \A k \in 1 .. n : f[k] = More(f[k - 1], first.put[k])
    BY <1>2, <1>5
  <2>2. \A k \in 0 .. n : k = 0 \/ k \in 1 .. n
    BY <1>1
  <2> QED
    BY <1>5, <2>1, <2>2
<1>7. fill = Body(fill)
  <2> HIDE DEF Body
  <2> QED
    BY <1>6
<1>8. fill[0] = first.sel /\ \A k \in 1 .. n : fill[k] = More(fill[k - 1], first.put[k])
  <2>1. 0 \in 0 .. n /\ \A k \in 1 .. n : k \in 0 .. n /\ k # 0
    BY <1>1
  <2> HIDE DEF fill
  <2> QED
    BY <1>7, <2>1
<1> HIDE DEF fill, Body
<1>9. \A k \in 0 .. n : fill[k] \in U
  <2>1. \A k \in 1 .. n : fill[k - 1] \in U => fill[k] \in U
    BY <1>2, <1>8
  <2>2. fill[0] \in U
    BY <1>1, <1>3, <1>8
  <2> QED
    BY <1>1, <2>1, <2>2, TypedLoopKeeps
<1>10. fill[n] \in U
  BY <1>1, <1>9
<1> QED
  BY <1>4, <1>10 DEF U

\* What is selected is among what is valid.
LEMMA SelectedIsValid ==
    ASSUME NEW S, NEW valid \in Seq(S)
    PROVE  Selected(Reranked(valid)) \in Seq(S)
<1>1. Reranked(valid) \in Seq(S)
  <2> DEFINE m == IF Len(valid) < RerankMax THEN Len(valid) ELSE RerankMax
  <2>1. RerankMax \in Nat /\ Len(valid) \in Nat
    BY SearchAssumption
  <2>2. m \in Nat /\ m <= Len(valid)
    BY <2>1
  <2>3. SubSeq(valid, 1, m) \in Seq(S)
    BY <2>2
  <2> QED
    BY <2>3 DEF Reranked
<1> QED
  BY <1>1, FirstPassStays, FilledStays DEF Selected

-----------------------------------------------------------------------------

Pubs == [book : Book, rev : Nat, epoch : Nat]
Passages == [pub : Pubs, chunk : Chunk]
Founds(found) ==
    /\ IsFiniteSet(DOMAIN found) /\ DOMAIN found \subseteq Ids
    /\ \A x \in DOMAIN found : /\ found[x] \in [pub : Pubs, score : Nat]
                               /\ found[x].pub.book = x[1] /\ found[x].pub.rev = x[2]

\* The valid passages are those of the found ids whose publication is evidence.
LEMMA ValidIsEvidence ==
    ASSUME NEW found, NEW visible, Founds(found)
    PROVE  LET passages == {[pub |-> found[x].pub, chunk |-> x[3]] :
                               x \in {y \in DOMAIN found : IsEvidence(found[y].pub, visible)}}
           IN  /\ Valid(found, visible) \in Seq(passages)
               /\ Range(Valid(found, visible)) = passages
<1> DEFINE ids == {y \in DOMAIN found : IsEvidence(found[y].pub, visible)}
           order == Ranking(found, ids)
           n == Cardinality(ids)
           P(x) == [pub |-> found[x].pub, chunk |-> x[3]]
           passages == {P(x) : x \in ids}
           valid == [k \in 1 .. n |-> P(order[k])]
<1>1. /\ ids \in SUBSET Ids /\ IsFiniteSet(ids) /\ n \in Nat
      /\ \A x \in ids : found[x].score \in Nat
  BY FS_Subset, FS_CardinalityType DEF Founds
<1>2. order \in Seq(ids) /\ Len(order) = n /\ Range(order) = ids
  <2> HIDE DEF ids
  <2> QED
    BY <1>1, RankingIsWhole
<1>3. Valid(found, visible) = valid
  BY DEF Valid
<1> HIDE DEF ids, order, n, P
<1>4. \A k \in 1 .. n : order[k] \in ids
  BY <1>1, <1>2
<1>5. \A x \in ids : \E k \in 1 .. n : order[k] = x
  <2>1. DOMAIN order = 1 .. n
    BY <1>2
  <2> QED
    BY <1>2, <2>1 DEF Range
<1>6. valid \in [1 .. n -> passages] /\ DOMAIN valid = 1 .. n
  BY <1>4
<1>7. valid \in Seq(passages)
  <2> HIDE DEF valid, passages
  <2> QED
    BY <1>1, <1>6, SeqDef
<1>8. Range(valid) = passages
  <2>1. Range(valid) \subseteq passages
    BY <1>4, <1>6 DEF Range
  <2>2. ASSUME NEW x \in ids PROVE P(x) \in Range(valid)
    <3>1. PICK k \in 1 .. n : order[k] = x
      BY <1>5
    <3>2. valid[k] = P(x)
      BY <3>1
    <3> HIDE DEF valid
    <3> QED
      BY <1>6, <3>2 DEF Range
  <2> HIDE DEF valid
  <2> QED
    BY <2>1, <2>2
<1> QED
  BY <1>3, <1>7, <1>8 DEF ids, P

-----------------------------------------------------------------------------
(* The library under a search.                                             *)

\* A publication that replaces another is on before it is active; what is active is on,
\* but while it is replaced.
Replaces(b) ==
    /\ active[b] \in Pubs /\ active[b].book = b
    /\ next[b] # None => /\ next[b] \in Pubs \cap on /\ next[b].book = b
                         /\ next[b].epoch = active[b].epoch + 1
                         /\ b \notin removed.points
    /\ next[b] = None /\ b \notin removed.points => active[b] \in on

LibraryInv ==
    /\ current \in [Book -> Nat]
    /\ DOMAIN active = Book /\ active = [b \in Book |-> active[b]]
    /\ DOMAIN next = Book /\ next = [b \in Book |-> next[b]]
    /\ on \in SUBSET Pubs /\ IsFiniteSet(on)
    /\ RemovedType /\ removed.rows \subseteq removed.points
    /\ \A b \in Book : Replaces(b)

LEMMA LibraryInit == Init => LibraryInv
<1> SUFFICES ASSUME Init PROVE LibraryInv
  OBVIOUS
<1>1. /\ current = [b \in Book |-> 0] /\ active = [b \in Book |-> First(b)]
      /\ next = [b \in Book |-> None] /\ on = {First(b) : b \in Book}
      /\ removed = [points |-> {}, rows |-> {}, archive |-> {}]
  BY DEF Init, SearchInit
<1>2. IsFiniteSet(on)
  <2> DEFINE f == [b \in Book |-> First(b)]
  <2>1. f \in Surjection(Book, on)
    BY <1>1 DEF Surjection
  <2> HIDE DEF f
  <2> QED
    BY <2>1, SearchAssumption, FS_Surjection
<1>3. \A b \in Book : First(b) \in Pubs /\ First(b).book = b
  BY DEF First, Pubs
<1> QED
  BY <1>1, <1>2, <1>3 DEF LibraryInv, Replaces, RemovedType

\* A publication gives way to one of a later epoch only.
Forward == \A b \in Book : active'[b] = active[b] \/ active[b].epoch < active'[b].epoch

LEMMA RevisionStep ==
    ASSUME LibraryInv, NEW b \in Book, NewRevision(b)
    PROVE  LibraryInv' /\ Forward
<1>1. current' = [current EXCEPT ![b] = @ + 1] /\ UNCHANGED <<active, next, on, removed>>
  BY DEF NewRevision
<1> QED
  BY <1>1 DEF LibraryInv, Replaces, RemovedType, Forward

LEMMA PublishB2Step ==
    ASSUME LibraryInv, NEW b \in Book, PublishB2(b)
    PROVE  LibraryInv' /\ Forward
<1> DEFINE q == [book |-> b, rev |-> current[b], epoch |-> active[b].epoch + 1]
<1>1. /\ next' = [next EXCEPT ![b] = q] /\ on' = on \cup {next'[b]}
      /\ b \notin removed.points /\ next[b] = None /\ UNCHANGED <<current, active, removed>>
  BY DEF PublishB2
<1>2. q \in Pubs /\ q.book = b /\ q.epoch = active[b].epoch + 1
  BY DEF LibraryInv, Replaces, Pubs
<1> HIDE DEF q
<1>3. /\ next'[b] = q /\ on' = on \cup {q}
      /\ \A c \in Book : c # b => next'[c] = next[c]
      /\ DOMAIN next' = Book /\ next' = [c \in Book |-> next'[c]]
  BY <1>1 DEF LibraryInv
<1>4. on' \in SUBSET Pubs /\ IsFiniteSet(on')
  BY <1>2, <1>3, FS_AddElement DEF LibraryInv
<1>5. \A c \in Book : Replaces(c)'
  <2> SUFFICES ASSUME NEW c \in Book
               PROVE  Replaces(c)'
    OBVIOUS
  <2>1. Replaces(c)
    BY DEF LibraryInv
  <2> QED
    BY <1>1, <1>2, <1>3, <2>1 DEF Replaces
<1> QED
  BY <1>1, <1>3, <1>4, <1>5 DEF LibraryInv, RemovedType, Forward

LEMMA PublishB3Step ==
    ASSUME LibraryInv, NEW b \in Book, PublishB3(b)
    PROVE  LibraryInv' /\ Forward
<1>1. /\ on' = on \ {active[b]} /\ next[b] # None /\ UNCHANGED <<current, active, next, removed>>
  BY DEF PublishB3
<1>2. on' \in SUBSET Pubs /\ IsFiniteSet(on')
  BY <1>1, FS_Subset DEF LibraryInv
<1>3. \A c \in Book : Replaces(c)'
  <2> SUFFICES ASSUME NEW c \in Book
               PROVE  Replaces(c)'
    OBVIOUS
  <2>1. Replaces(c) /\ Replaces(b)
    BY DEF LibraryInv
  <2>2. next[c] # None => next[c] # active[b]
    BY <2>1 DEF Replaces, Pubs
  <2>3. next[c] = None => active[c] # active[b]
    BY <1>1, <2>1 DEF Replaces
  <2> QED
    BY <1>1, <2>1, <2>2, <2>3 DEF Replaces
<1> QED
  BY <1>1, <1>2, <1>3 DEF LibraryInv, RemovedType, Forward

LEMMA PublishB4Step ==
    ASSUME LibraryInv, NEW b \in Book, PublishB4(b)
    PROVE  LibraryInv' /\ Forward
<1>1. /\ active' = [active EXCEPT ![b] = next[b]] /\ next' = [next EXCEPT ![b] = None]
      /\ next[b] # None /\ UNCHANGED <<current, on, removed>>
  BY DEF PublishB4
<1>2. /\ next'[b] = None /\ active'[b] = next[b]
      /\ \A c \in Book : c # b => next'[c] = next[c] /\ active'[c] = active[c]
      /\ DOMAIN next' = Book /\ next' = [c \in Book |-> next'[c]]
      /\ DOMAIN active' = Book /\ active' = [c \in Book |-> active'[c]]
  BY <1>1 DEF LibraryInv
<1>3. \A c \in Book : Replaces(c)
  BY DEF LibraryInv
<1>4. \A c \in Book : Replaces(c)'
  <2> SUFFICES ASSUME NEW c \in Book
               PROVE  Replaces(c)'
    OBVIOUS
  <2>1. CASE c = b
    BY <1>1, <1>2, <1>3, <2>1 DEF Replaces
  <2>2. CASE c # b
    BY <1>1, <1>2, <1>3, <2>2 DEF Replaces
  <2> QED
    BY <2>1, <2>2
<1>5. Forward
  <2>1. active[b].epoch < active'[b].epoch
    BY <1>1, <1>2, <1>3 DEF Replaces, Pubs
  <2> QED
    BY <1>2, <2>1 DEF Forward
<1> QED
  BY <1>1, <1>2, <1>4, <1>5 DEF LibraryInv, RemovedType

LEMMA RemovalStep ==
    ASSUME LibraryInv, NEW b \in Book, RemovePoints(b) \/ RemoveRows(b) \/ RemoveOriginal(b)
    PROVE  LibraryInv' /\ Forward
<1>1. CASE RemovePoints(b)
  <2>1. /\ removed' = [removed EXCEPT !.points = removed.points \cup {b}]
        /\ on' = {q \in on : q.book # b} /\ \A d \in Book : next[d] = None
        /\ UNCHANGED <<current, active, next>>
    BY <1>1 DEF RemovePoints
  <2>2. /\ removed'.points = removed.points \cup {b}
        /\ removed'.rows = removed.rows /\ removed'.archive = removed.archive
        /\ RemovedType'
    BY <2>1 DEF LibraryInv, RemovedType
  <2>3. on' \in SUBSET Pubs /\ IsFiniteSet(on')
    BY <2>1, FS_Subset DEF LibraryInv
  <2>4. \A c \in Book : Replaces(c)'
    <3> SUFFICES ASSUME NEW c \in Book
                 PROVE  Replaces(c)'
      OBVIOUS
    <3>1. Replaces(c)
      BY DEF LibraryInv
    <3> QED
      BY <2>1, <2>2, <3>1 DEF Replaces
  <2> QED
    BY <2>1, <2>2, <2>3, <2>4 DEF LibraryInv, Forward
<1>2. CASE RemoveRows(b)
  <2>1. /\ removed' = [removed EXCEPT !.rows = removed.rows \cup {b}] /\ b \in removed.points
        /\ UNCHANGED <<current, active, next, on>>
    BY <1>2 DEF RemoveRows
  <2>2. /\ removed'.points = removed.points
        /\ removed'.rows = removed.rows \cup {b} /\ removed'.archive = removed.archive
        /\ RemovedType'
    BY <2>1 DEF LibraryInv, RemovedType
  <2> QED
    BY <2>1, <2>2 DEF LibraryInv, Replaces, Forward
<1>3. CASE RemoveOriginal(b)
  <2>1. /\ removed' = [removed EXCEPT !.archive = removed.archive \cup {b}] /\ b \in removed.rows
        /\ UNCHANGED <<current, active, next, on>>
    BY <1>3 DEF RemoveOriginal
  <2>2. /\ removed'.points = removed.points
        /\ removed'.rows = removed.rows /\ RemovedType'
    BY <2>1 DEF LibraryInv, RemovedType
  <2> QED
    BY <2>1, <2>2 DEF LibraryInv, Replaces, Forward
<1> QED
  BY <1>1, <1>2, <1>3

LEMMA LibraryStep == ASSUME LibraryInv, [Changes]_library PROVE LibraryInv' /\ Forward
<1>1. CASE UNCHANGED library
  BY <1>1 DEF library, LibraryInv, Replaces, RemovedType, Forward
<1>2. CASE Changes
  BY <1>2, RevisionStep, PublishB2Step, PublishB3Step, PublishB4Step, RemovalStep DEF Changes
<1> QED
  BY <1>1, <1>2

-----------------------------------------------------------------------------
(* What the index returns.                                                 *)

Points(pubs, rank) ==
    {x \in (pubs \cap on) \X Chunk : /\ <<x[1].book, x[2]>> \in DOMAIN rank
                                     /\ search.only \in {None, x[1].book}}
PlaceOf(pubs, rank, x) ==
    Cardinality({y \in Points(pubs, rank) : rank[<<y[1].book, y[2]>>] <= rank[<<x[1].book, x[2]>>]})
IsRank(rank) ==
    DOMAIN rank \subseteq Book \X Chunk /\ \A k \in DOMAIN rank : rank[k] \in Nat

LEMMA RanksType == IsRank(DenseRank) /\ IsRank(SparseRank)
  BY SearchAssumption DEF IsRank, Injection

LEMMA HitsAre ==
    ASSUME NEW pubs, NEW rank, NEW limit
    PROVE  Hits(pubs, rank, limit) =
              {<<x[1], x[2], PlaceOf(pubs, rank, x)>> :
                  x \in {y \in Points(pubs, rank) : PlaceOf(pubs, rank, y) <= limit}}
  BY DEF Hits, PlaceOf, Points

LEMMA PointsAreFinite ==
    ASSUME LibraryInv, NEW pubs, NEW rank, IsRank(rank)
    PROVE  /\ IsFiniteSet(Points(pubs, rank))
           /\ \A x \in Points(pubs, rank) : PlaceOf(pubs, rank, x) \in Nat \ {0}
<1>1. IsFiniteSet(Points(pubs, rank))
  <2>1. IsFiniteSet(pubs \cap on)
    BY FS_Subset DEF LibraryInv
  <2>2. IsFiniteSet((pubs \cap on) \X Chunk)
    BY <2>1, FS_Product, SearchAssumption
  <2> QED
    BY <2>2, FS_Subset DEF Points
<1>2. ASSUME NEW x \in Points(pubs, rank)
      PROVE  PlaceOf(pubs, rank, x) \in Nat \ {0}
  <2> DEFINE S == {y \in Points(pubs, rank) : rank[<<y[1].book, y[2]>>] <= rank[<<x[1].book, x[2]>>]}
  <2>1. IsFiniteSet(S)
    BY <1>1, FS_Subset
  <2>2. x \in S
    <3>1. rank[<<x[1].book, x[2]>>] \in Nat
      BY DEF IsRank, Points
    <3> QED
      BY <3>1
  <2>3. Cardinality(S) \in Nat /\ Cardinality(S) # 0
    <3> HIDE DEF S
    <3> QED
      BY <2>1, <2>2, FS_CardinalityType, FS_EmptySet
  <2> QED
    BY <2>3 DEF PlaceOf
<1> QED
  BY <1>1, <1>2

AreHits(hits) ==
    /\ IsFiniteSet(hits)
    /\ \A h \in hits : h[1] \in Pubs /\ h[2] \in Chunk /\ h[3] \in Nat \ {0}

LEMMA HitsType ==
    ASSUME LibraryInv, NEW pubs, NEW rank, IsRank(rank), NEW limit
    PROVE  /\ AreHits(Hits(pubs, rank, limit))
           /\ \A h \in Hits(pubs, rank, limit) : h[1] \in pubs
<1> DEFINE S == {y \in Points(pubs, rank) : PlaceOf(pubs, rank, y) <= limit}
           f == [x \in S |-> <<x[1], x[2], PlaceOf(pubs, rank, x)>>]
           T == Hits(pubs, rank, limit)
<1>1. T = {<<x[1], x[2], PlaceOf(pubs, rank, x)>> : x \in S}
  BY HitsAre
<1>2. IsFiniteSet(T)
  <2>1. IsFiniteSet(S)
    BY PointsAreFinite, FS_Subset
  <2> HIDE DEF S, T
  <2>2. f \in Surjection(S, T)
    BY <1>1 DEF Surjection
  <2> HIDE DEF f
  <2> QED
    BY <2>1, <2>2, FS_Surjection
<1>3. ASSUME NEW x \in S
      PROVE  /\ x[1] \in pubs \cap on /\ x[1] \in Pubs /\ x[2] \in Chunk
             /\ PlaceOf(pubs, rank, x) \in Nat \ {0}
  BY <1>3, PointsAreFinite DEF Points, LibraryInv
<1> QED
  <2> HIDE DEF S, T
  <2>1. \A h \in T : \E x \in S : h = <<x[1], x[2], PlaceOf(pubs, rank, x)>>
    BY <1>1
  <2>2. \A h \in T : /\ h[1] \in pubs /\ h[1] \in Pubs /\ h[2] \in Chunk
                     /\ h[3] \in Nat \ {0}
    BY <1>3, <2>1
  <2>3. AreHits(T)
    BY <1>2, <2>2 DEF AreHits
  <2> QED
    BY <2>2, <2>3 DEF T

OnePerBook(pubs) == \A p, q \in pubs : p.book = q.book => p = q
Everything == Cardinality(Book) * Cardinality(Chunk)

\* A limit of every chunk of every book cuts nothing off.
LEMMA HitsAll ==
    ASSUME LibraryInv, NEW pubs, OnePerBook(pubs), NEW rank, IsRank(rank),
           NEW limit \in Nat, limit >= Everything,
           NEW x \in Points(pubs, rank)
    PROVE  <<x[1], x[2], PlaceOf(pubs, rank, x)>> \in Hits(pubs, rank, limit)
<1> DEFINE T == Book \X Chunk
           S == {y \in Points(pubs, rank) : rank[<<y[1].book, y[2]>>] <= rank[<<x[1].book, x[2]>>]}
           f == [y \in S |-> <<y[1].book, y[2]>>]
<1>1. IsFiniteSet(T) /\ Cardinality(T) = Everything
  BY FS_Product, SearchAssumption DEF Everything
<1>2. \A y \in S : y[1] \in pubs /\ y[1] \in Pubs /\ y[2] \in Chunk /\ y = <<y[1], y[2]>>
  BY DEF Points, LibraryInv
<1>3. f \in Injection(S, T)
  <2> HIDE DEF S
  <2>1. f \in [S -> T]
    BY <1>2 DEF Pubs
  <2>2. \A y, z \in S : f[y] = f[z] => y = z
    <3> SUFFICES ASSUME NEW y \in S, NEW z \in S, f[y] = f[z]
                 PROVE  y = z
      OBVIOUS
    <3>1. y[1].book = z[1].book /\ y[2] = z[2]
      OBVIOUS
    <3>2. y[1] = z[1]
      BY <1>2, <3>1 DEF OnePerBook
    <3> QED
      BY <1>2, <3>1, <3>2
  <2> HIDE DEF f, T
  <2> QED
    BY <2>1, <2>2 DEF Injection, IsInjective
<1>4. Cardinality(S) <= Everything
  <2> HIDE DEF f, S, T
  <2> QED
    BY <1>1, <1>3, FS_Injection
<1>5. PlaceOf(pubs, rank, x) = Cardinality(S)
  BY DEF PlaceOf
<1>6. PlaceOf(pubs, rank, x) \in Nat /\ Everything \in Nat
  <2>1. Cardinality(T) \in Nat
    <3> HIDE DEF T
    <3> QED
      BY <1>1, FS_CardinalityType
  <2> QED
    BY <1>1, <2>1, PointsAreFinite
<1>7. PlaceOf(pubs, rank, x) <= limit
  <2> HIDE DEF S
  <2> QED
    BY <1>4, <1>5, <1>6
<1> QED
  BY <1>7, HitsAre

-----------------------------------------------------------------------------
(* What the fusion makes of the hits.                                      *)

Joins(found, hits, fused) ==
    /\ Founds(fused)
    /\ DOMAIN fused = DOMAIN found \cup {IdOf(h) : h \in hits}
    /\ \A x \in DOMAIN fused : \/ x \in DOMAIN found /\ fused[x].pub = found[x].pub
                               \/ \E h \in hits : fused[x].pub = h[1]

LEMMA FusedType ==
    ASSUME NEW found, Founds(found), NEW hits, AreHits(hits)
    PROVE  Joins(found, hits, Fused(found, hits))
<1> DEFINE ids == {IdOf(h) : h \in hits}
           Of(x) == CHOOSE h \in hits : IdOf(h) = x
           Gain(x) == Scale \div (RrfK + Of(x)[3])
           fused == [x \in DOMAIN found \cup ids |->
                        IF x \notin ids THEN found[x]
                        ELSE IF x \in DOMAIN found
                             THEN [found[x] EXCEPT !.score = found[x].score + Gain(x)]
                             ELSE [pub |-> Of(x)[1], score |-> Gain(x)]]
<1>1. Fused(found, hits) = fused
  BY DEF Fused
<1>2. ASSUME NEW x \in ids
      PROVE  /\ Of(x) \in hits /\ x \in Ids /\ Gain(x) \in Nat
             /\ Of(x)[1] \in Pubs /\ Of(x)[1].book = x[1] /\ Of(x)[1].rev = x[2]
  <2>1. Of(x) \in hits /\ IdOf(Of(x)) = x
    OBVIOUS
  <2> HIDE DEF Of
  <2>2. Of(x)[1] \in Pubs /\ Of(x)[2] \in Chunk /\ Of(x)[3] \in Nat \ {0}
    BY <2>1 DEF AreHits
  <2>3. x = <<Of(x)[1].book, Of(x)[1].rev, Of(x)[2]>>
    BY <2>1 DEF IdOf
  <2>4. x \in Ids /\ Of(x)[1].book = x[1] /\ Of(x)[1].rev = x[2]
    BY <2>2, <2>3 DEF Ids, Pubs
  <2>5. Gain(x) \in Nat
    BY <2>2, SearchAssumption DEF Scale
  <2> QED
    BY <2>1, <2>2, <2>4, <2>5
<1>3. IsFiniteSet(DOMAIN found \cup ids)
  <2> DEFINE f == [h \in hits |-> IdOf(h)]
  <2>1. f \in Surjection(hits, ids)
    BY DEF Surjection
  <2> HIDE DEF f, ids
  <2>2. IsFiniteSet(ids)
    BY <2>1, FS_Surjection DEF AreHits
  <2> QED
    BY <2>2, FS_Union DEF Founds
<1> HIDE DEF ids, Of, Gain
<1>4. ASSUME NEW x \in DOMAIN found \cup ids
      PROVE  /\ x \in Ids /\ fused[x] \in [pub : Pubs, score : Nat]
             /\ fused[x].pub.book = x[1] /\ fused[x].pub.rev = x[2]
             /\ \/ x \in DOMAIN found /\ fused[x].pub = found[x].pub
                \/ \E h \in hits : fused[x].pub = h[1]
  <2>1. CASE x \notin ids
    BY <2>1 DEF Founds
  <2>2. CASE x \in ids /\ x \in DOMAIN found
    <3>1. /\ found[x] \in [pub : Pubs, score : Nat] /\ x \in Ids
          /\ found[x].pub.book = x[1] /\ found[x].pub.rev = x[2] /\ Gain(x) \in Nat
      BY <1>2, <2>2 DEF Founds
    <3>2. fused[x] = [found[x] EXCEPT !.score = found[x].score + Gain(x)]
      BY <2>2
    <3>3. fused[x] \in [pub : Pubs, score : Nat] /\ fused[x].pub = found[x].pub
      BY <3>1, <3>2
    <3> QED
      BY <2>2, <3>1, <3>3
  <2>3. CASE x \in ids /\ x \notin DOMAIN found
    <3>1. fused[x] = [pub |-> Of(x)[1], score |-> Gain(x)]
      BY <2>3
    <3> QED
      BY <1>2, <2>3, <3>1
  <2> QED
    BY <2>1, <2>2, <2>3
<1>5. DOMAIN fused = DOMAIN found \cup ids
  OBVIOUS
<1> HIDE DEF fused
<1>6. Founds(fused)
  BY <1>3, <1>4, <1>5 DEF Founds
<1>7. Joins(found, hits, fused)
  BY <1>4, <1>5, <1>6 DEF Joins, ids
<1> QED
  BY <1>1, <1>7

-----------------------------------------------------------------------------
(* A search and what it holds, r, against the library.                     *)

IsSearch(r) ==
    r = [step |-> r.step, dense |-> r.dense, only |-> r.only, visible |-> r.visible,
         indexed |-> r.indexed, todo |-> r.todo, found |-> r.found, before |-> r.before,
         limit |-> r.limit, rounds |-> r.rounds, passages |-> r.passages, moved |-> r.moved,
         seen |-> r.seen]
Sound(r) ==
    /\ IsSearch(r) /\ r.limit \in Nat /\ r.moved \in BOOLEAN
    /\ Founds(r.found) /\ r.passages \in Seq(Passages)
    /\ r.step # "done" => r.passages = <<>>
    /\ r.step = "validate" => r.todo = {}
    /\ r.step \in Reading => \A b \in Book : <<b, current[b]>> \in r.seen

\* Publications that were visible once, one of a book.
WereActive(pubs) ==
    /\ OnePerBook(pubs)
    /\ \A p \in pubs : /\ p \in Pubs
                       /\ p.epoch < active[p.book].epoch \/ p = active[p.book]
Committed(passages, seen) ==
    \A p, q \in Range(passages) :
        /\ <<p.pub.book, p.pub.rev>> \in seen
        /\ p.pub.epoch < active[p.pub.book].epoch \/ p.pub = active[p.pub.book]
        /\ p.pub.book = q.pub.book => p.pub = q.pub

\* While nothing moves, the search has what is visible, and of the epochs done every hit.
FoundVisible(found) == \A x \in DOMAIN found : found[x].pub \in Visible
Covered(r) ==
    r.limit >= Everything =>
        \A x \in DOMAIN SparseRank :
            x[1] \notin removed.points /\ r.only \in {None, x[1]}
               /\ active[x[1]].epoch \notin r.todo
            => <<x[1], active[x[1]].rev, x[2]>> \in DOMAIN r.found
Still(r) ==
    r.step \in Reading /\ ~r.moved =>
        /\ Settled
        /\ r.step # "visible" => r.visible = Visible
        /\ r.step \notin {"visible", "epochs"} => r.indexed = Visible
        /\ r.step \in {"sparse", "validate"} => FoundVisible(r.found) /\ Covered(r)

Searched(r) ==
    /\ Sound(r) /\ Committed(r.passages, r.seen) /\ Still(r)
    /\ r.step \in Reading \ {"visible"} => WereActive(r.visible)

LEMMA NothingFound == Founds(<<>>) /\ DOMAIN <<>> = {} /\ <<>> \in Seq(Passages) /\ Range(<<>>) = {}
  BY FS_EmptySet DEF Founds, Range

LEMMA NoSearchIsSound == Searched(NoSearch)
<1>1. /\ IsSearch(NoSearch) /\ NoSearch.limit = Top /\ NoSearch.moved = FALSE
      /\ NoSearch.found = <<>> /\ NoSearch.passages = <<>> /\ NoSearch.step = "idle"
  BY DEF IsSearch, NoSearch
<1>2. Top \in Nat /\ "idle" \notin Reading
  BY SearchAssumption DEF Reading
<1> QED
  BY <1>1, <1>2, NothingFound DEF Searched, Sound, Committed, Still

LEMMA VisibleWasActive ==
    ASSUME LibraryInv
    PROVE  WereActive(Visible) /\ Visible \in SUBSET Pubs
<1>1. \A b \in Book : active[b] \in Pubs /\ active[b].book = b
  BY DEF LibraryInv, Replaces
<1> QED
  BY <1>1 DEF Visible, WereActive, OnePerBook

LEMMA AskedIsSound ==
    ASSUME LibraryInv, NEW dense, NEW only, NEW r,
           r = [NoSearch EXCEPT !.step = "visible", !.dense = dense, !.only = only,
                                !.moved = ~Settled, !.seen = {<<b, current[b]>> : b \in Book}]
    PROVE  Searched(r)
<1>1. /\ IsSearch(r) /\ r.limit = Top /\ r.moved = ~Settled /\ r.found = <<>>
      /\ r.passages = <<>> /\ r.step = "visible" /\ r.seen = {<<b, current[b]>> : b \in Book}
  BY DEF IsSearch, NoSearch
<1>2. Top \in Nat /\ "visible" \in Reading
  BY SearchAssumption DEF Reading
<1>3. r.moved \in BOOLEAN /\ (~r.moved => Settled)
  BY <1>1
<1>4. \A b \in Book : <<b, current[b]>> \in r.seen
  BY <1>1
<1> QED
  BY <1>1, <1>2, <1>3, <1>4, NothingFound DEF Searched, Sound, Committed, Still

LEMMA EndedIsSound ==
    ASSUME NEW passages \in Seq(Passages), Committed(passages, search.seen)
    PROVE  Searched(Ended(passages))
<1> SUFFICES ASSUME NEW r, r = Ended(passages) PROVE Searched(r)
  OBVIOUS
<1>1. /\ IsSearch(r) /\ r.limit = Top /\ r.moved = FALSE /\ r.found = <<>>
      /\ r.passages = passages /\ r.step = "done" /\ r.seen = search.seen
  BY DEF IsSearch, NoSearch, Ended
<1>2. Top \in Nat /\ "done" \notin Reading /\ "done" # "validate"
  BY SearchAssumption DEF Reading
<1> QED
  BY <1>1, <1>2, NothingFound DEF Searched, Sound, Still

LEMMA EndedInVain == Searched(Ended(<<>>))
<1>1. Committed(<<>>, search.seen)
  BY NothingFound DEF Committed
<1> QED
  BY <1>1, NothingFound, EndedIsSound

LEMMA ReadVisibleIsSound ==
    ASSUME LibraryInv, Searched(search), search.step = "visible", NEW r,
           r = [search EXCEPT !.step = "epochs", !.visible = Visible]
    PROVE  Searched(r)
<1>1. /\ IsSearch(r) /\ r.limit = search.limit /\ r.moved = search.moved
      /\ r.found = search.found /\ r.passages = search.passages /\ r.step = "epochs"
      /\ r.seen = search.seen /\ r.visible = Visible
  BY DEF Searched, Sound, IsSearch
<1>2. "epochs" \in Reading /\ "visible" \in Reading
  BY DEF Reading
<1>3. r.passages = <<>> /\ search.step # "done"
  BY <1>1 DEF Searched, Sound
<1>4. Sound(r)
  BY <1>1, <1>2, <1>3 DEF Searched, Sound
<1>5. Still(r)
  BY <1>1, <1>2 DEF Searched, Still
<1> QED
  BY <1>1, <1>3, <1>4, <1>5, VisibleWasActive, NothingFound DEF Searched, Committed

LEMMA ReadEpochsIsSound ==
    ASSUME LibraryInv, Searched(search), search.step = "epochs", NEW r,
           r = [search EXCEPT !.step = "dense", !.indexed = Visible]
    PROVE  Searched(r)
<1>1. /\ IsSearch(r) /\ r.limit = search.limit /\ r.moved = search.moved
      /\ r.found = search.found /\ r.passages = search.passages /\ r.step = "dense"
      /\ r.seen = search.seen /\ r.visible = search.visible /\ r.indexed = Visible
  BY DEF Searched, Sound, IsSearch
<1>2. "epochs" \in Reading /\ "dense" \in Reading
  BY DEF Reading
<1>3. r.passages = <<>> /\ search.step # "done"
  BY <1>1 DEF Searched, Sound
<1>4. Sound(r)
  BY <1>1, <1>2, <1>3 DEF Searched, Sound
<1>5. Still(r)
  BY <1>1, <1>2 DEF Searched, Still
<1>6. WereActive(r.visible)
  BY <1>1, <1>2 DEF Searched
<1> QED
  BY <1>1, <1>3, <1>4, <1>5, <1>6, NothingFound DEF Searched, Committed

LEMMA DenseSearchIsSound ==
    ASSUME LibraryInv, Searched(search), search.step = "dense", NEW hits, NEW r,
           hits = IF search.dense THEN Hits(search.visible, DenseRank, search.limit) ELSE {},
           r = [search EXCEPT !.step = "sparse", !.found = Fused(<<>>, hits),
                              !.todo = EpochsOf(search.indexed)]
    PROVE  Searched(r)
<1>1. /\ IsSearch(r) /\ r.limit = search.limit /\ r.moved = search.moved
      /\ r.found = Fused(<<>>, hits) /\ r.passages = search.passages /\ r.step = "sparse"
      /\ r.seen = search.seen /\ r.visible = search.visible /\ r.indexed = search.indexed
      /\ r.todo = EpochsOf(search.indexed)
  BY DEF Searched, Sound, IsSearch
<1>2. "dense" \in Reading /\ "sparse" \in Reading
  BY DEF Reading
<1>3. r.passages = <<>> /\ search.step # "done"
  BY <1>1 DEF Searched, Sound
<1>4. AreHits(hits) /\ \A h \in hits : h[1] \in search.visible
  BY HitsType, RanksType, FS_EmptySet DEF AreHits
<1>5. /\ Founds(r.found)
      /\ \A x \in DOMAIN r.found : \E h \in hits : r.found[x].pub = h[1]
  <2>1. Joins(<<>>, hits, r.found)
    BY <1>1, <1>4, NothingFound, FusedType
  <2> QED
    BY <2>1, NothingFound DEF Joins
<1>6. Sound(r)
  BY <1>1, <1>2, <1>3, <1>5 DEF Searched, Sound
<1>7. ASSUME ~r.moved PROVE Settled /\ r.visible = Visible /\ r.indexed = Visible
  BY <1>1, <1>2, <1>7 DEF Searched, Still
<1>8. ASSUME ~r.moved PROVE FoundVisible(r.found)
  BY <1>1, <1>4, <1>5, <1>7, <1>8 DEF FoundVisible
<1>9. ASSUME ~r.moved PROVE Covered(r)
  <2> SUFFICES ASSUME NEW x \in DOMAIN SparseRank, x[1] \notin removed.points
               PROVE  active[x[1]].epoch \in r.todo
    BY DEF Covered
  <2>1. Settled /\ r.indexed = Visible /\ x[1] \in Book
    BY <1>7, <1>9, RanksType DEF IsRank
  <2>2. active[x[1]] \in Visible
    BY <2>1 DEF Settled, Visible, Registered
  <2> QED
    BY <1>1, <2>1, <2>2 DEF EpochsOf
<1>10. Still(r)
  BY <1>1, <1>7, <1>8, <1>9 DEF Still
<1>11. WereActive(r.visible)
  BY <1>1, <1>2 DEF Searched
<1> QED
  BY <1>1, <1>3, <1>6, <1>10, <1>11, NothingFound DEF Searched, Committed

LEMMA SparseSearchIsSound ==
    ASSUME LibraryInv, Searched(search), search.step = "sparse", NEW e \in search.todo,
           NEW pubs, NEW hits, NEW r,
           pubs = {q \in search.indexed : q.epoch = e},
           hits = Hits(pubs, SparseRank, search.limit),
           r = [search EXCEPT !.found = Fused(search.found, hits),
                              !.todo = search.todo \ {e},
                              !.step = IF search.todo = {e} THEN "validate" ELSE "sparse"]
    PROVE  Searched(r)
<1>1. /\ IsSearch(r) /\ r.limit = search.limit /\ r.moved = search.moved
      /\ r.found = Fused(search.found, hits) /\ r.passages = search.passages
      /\ r.step = IF search.todo = {e} THEN "validate" ELSE "sparse"
      /\ r.seen = search.seen /\ r.visible = search.visible /\ r.indexed = search.indexed
      /\ r.todo = search.todo \ {e} /\ r.only = search.only
  BY DEF Searched, Sound, IsSearch
<1>2. "sparse" \in Reading /\ "validate" \in Reading /\ r.step \in {"sparse", "validate"}
  BY <1>1 DEF Reading
<1>3. r.passages = <<>> /\ r.limit \in Nat
  BY <1>1 DEF Searched, Sound
<1>4. AreHits(hits) /\ \A h \in hits : h[1] \in pubs
  BY HitsType, RanksType
<1>5. Founds(search.found)
  BY DEF Searched, Sound
<1>6. /\ Founds(r.found)
      /\ DOMAIN r.found = DOMAIN search.found \cup {IdOf(h) : h \in hits}
      /\ \A x \in DOMAIN r.found :
            \/ x \in DOMAIN search.found /\ r.found[x].pub = search.found[x].pub
            \/ \E h \in hits : r.found[x].pub = h[1]
  <2>1. Joins(search.found, hits, r.found)
    BY <1>1, <1>4, <1>5, FusedType
  <2> QED
    BY <2>1 DEF Joins
<1>7. r.step = "validate" => r.todo = {}
  BY <1>1
<1>8. Sound(r)
  BY <1>1, <1>2, <1>3, <1>6, <1>7 DEF Searched, Sound
<1>9. ASSUME ~r.moved
      PROVE  /\ Settled /\ r.visible = Visible /\ r.indexed = Visible
             /\ FoundVisible(search.found) /\ Covered(search)
  BY <1>1, <1>2, <1>9 DEF Searched, Still
<1>10. ASSUME ~r.moved PROVE FoundVisible(r.found)
  <2>1. \A h \in hits : h[1] \in Visible
    BY <1>1, <1>4, <1>9, <1>10
  <2> QED
    BY <1>6, <1>9, <1>10, <2>1 DEF FoundVisible
<1>11. ASSUME ~r.moved PROVE Covered(r)
  <2> SUFFICES ASSUME r.limit >= Everything,
                      NEW x \in DOMAIN SparseRank, x[1] \notin removed.points,
                      r.only \in {None, x[1]}, active[x[1]].epoch \notin r.todo
               PROVE  <<x[1], active[x[1]].rev, x[2]>> \in DOMAIN r.found
    BY DEF Covered
  <2>1. Settled /\ search.indexed = Visible /\ Covered(search)
    BY <1>1, <1>9, <1>11
  <2>2. x[1] \in Book /\ x[2] \in Chunk /\ x = <<x[1], x[2]>>
    BY RanksType DEF IsRank
  <2>3. CASE active[x[1]].epoch \notin search.todo
    BY <1>1, <1>6, <2>1, <2>3 DEF Covered
  <2>4. CASE active[x[1]].epoch = e
    <3> DEFINE q == active[x[1]]
               y == <<q, x[2]>>
    <3>1. /\ q.book = x[1] /\ q \in on /\ q \in Visible
      <4>1. Replaces(x[1]) /\ next[x[1]] = None /\ x[1] \notin removed.rows
        BY <2>1, <2>2 DEF LibraryInv, Settled
      <4> QED
        BY <2>2, <4>1 DEF Replaces, Visible, Registered
    <3>2. q \in pubs
      BY <2>1, <2>4, <3>1
    <3>3. y \in Points(pubs, SparseRank) /\ y[1] = q /\ y[2] = x[2]
      <4>1. <<q.book, x[2]>> \in DOMAIN SparseRank
        BY <2>2, <3>1
      <4> HIDE DEF q
      <4> QED
        BY <1>1, <2>2, <3>1, <3>2, <4>1 DEF Points
    <3>4. OnePerBook(pubs)
      BY <2>1, VisibleWasActive DEF WereActive, OnePerBook
    <3> HIDE DEF q, y
    <3>5. <<y[1], y[2], PlaceOf(pubs, SparseRank, y)>> \in hits
      BY <1>1, <1>3, <3>3, <3>4, RanksType, HitsAll
    <3>6. IdOf(<<y[1], y[2], PlaceOf(pubs, SparseRank, y)>>) = <<x[1], q.rev, x[2]>>
      BY <3>1, <3>3 DEF IdOf
    <3> QED
      BY <1>6, <3>5, <3>6 DEF q
  <2> QED
    BY <1>1, <2>3, <2>4
<1>12. Still(r)
  BY <1>1, <1>9, <1>10, <1>11 DEF Still
<1>13. WereActive(r.visible)
  BY <1>1, <1>2 DEF Searched
<1> QED
  BY <1>3, <1>8, <1>12, <1>13, NothingFound DEF Searched, Committed

\* What is valid is committed.
LEMMA ValidIsCommitted ==
    ASSUME LibraryInv, Searched(search), search.step = "validate"
    PROVE  LET ranked == Valid(search.found, search.visible)
           IN  /\ Selected(Reranked(ranked)) \in Seq(Passages)
               /\ Committed(Selected(Reranked(ranked)), search.seen)
<1> DEFINE ids == {y \in DOMAIN search.found : IsEvidence(search.found[y].pub, search.visible)}
           P(x) == [pub |-> search.found[x].pub, chunk |-> x[3]]
           S == {P(x) : x \in ids}
           ranked == Valid(search.found, search.visible)
           chosen == Selected(Reranked(ranked))
<1>1. Founds(search.found)
  BY DEF Searched, Sound
<1>2. ranked \in Seq(S)
  BY <1>1, ValidIsEvidence
<1> HIDE DEF S, ranked
<1>3. chosen \in Seq(S)
  BY <1>2, SelectedIsValid
<1> HIDE DEF chosen
<1>4. \A s \in S : \E x \in ids : s = P(x)
  BY DEF S
<1>5. ASSUME NEW x \in ids
      PROVE  /\ P(x) \in Passages /\ P(x).pub \in search.visible
             /\ P(x).pub.rev = current[P(x).pub.book] /\ P(x).pub.book \in Book
  <2>1. /\ search.found[x].pub \in Pubs /\ x \in Ids
        /\ IsEvidence(search.found[x].pub, search.visible)
    BY <1>1 DEF Founds
  <2> QED
    BY <2>1 DEF IsEvidence, Passages, Pubs, Ids
<1> HIDE DEF ids, P
<1>6. S \subseteq Passages
  BY <1>4, <1>5
<1>7. chosen \in Seq(Passages)
  BY <1>3, <1>6
<1>8. \A p \in Range(chosen) : p \in S
  BY <1>3 DEF Range
<1>9. \A p \in S : /\ <<p.pub.book, p.pub.rev>> \in search.seen /\ p.pub \in search.visible
  <2>1. "validate" \in Reading
    BY DEF Reading
  <2>2. \A b \in Book : <<b, current[b]>> \in search.seen
    BY <2>1 DEF Searched, Sound
  <2> QED
    BY <1>4, <1>5, <2>2
<1>10. WereActive(search.visible)
  <2>1. "validate" \in Reading /\ "validate" # "visible"
    BY DEF Reading
  <2> QED
    BY <2>1 DEF Searched
<1>11. Committed(chosen, search.seen)
  BY <1>8, <1>9, <1>10 DEF Committed, WereActive, OnePerBook
<1> QED
  BY <1>7, <1>11 DEF chosen, ranked

LEMMA AgainIsSound ==
    ASSUME LibraryInv, Searched(search), search.step = "validate", NEW r,
           r = [search EXCEPT !.step = "dense", !.rounds = search.rounds + 1,
                   !.limit = IF 2 * search.limit < TopupCap THEN 2 * search.limit ELSE TopupCap,
                   !.before = DOMAIN search.found]
    PROVE  Searched(r)
<1>1. /\ IsSearch(r) /\ r.moved = search.moved
      /\ r.limit = IF 2 * search.limit < TopupCap THEN 2 * search.limit ELSE TopupCap
      /\ r.found = search.found /\ r.passages = search.passages /\ r.step = "dense"
      /\ r.seen = search.seen /\ r.visible = search.visible /\ r.indexed = search.indexed
  BY DEF Searched, Sound, IsSearch
<1>2. "validate" \in Reading /\ "dense" \in Reading
  BY DEF Reading
<1>3. r.passages = <<>> /\ search.limit \in Nat
  BY <1>1 DEF Searched, Sound
<1>4. r.limit \in Nat
  BY <1>1, <1>3, SearchAssumption
<1>5. Sound(r)
  BY <1>1, <1>2, <1>3, <1>4 DEF Searched, Sound
<1>6. Still(r)
  BY <1>1, <1>2 DEF Searched, Still
<1>7. WereActive(r.visible)
  BY <1>1, <1>2 DEF Searched
<1> QED
  BY <1>3, <1>5, <1>6, <1>7, NothingFound DEF Searched, Committed

-----------------------------------------------------------------------------
(* The steps.                                                              *)

\* What happens to a search while the library changes: it is told so.
Meanwhile ==
    /\ search' = [search EXCEPT !.moved = search'.moved, !.seen = search'.seen]
    /\ search'.moved \in BOOLEAN /\ search.seen \subseteq search'.seen
    /\ search.step \in Reading => \A b \in Book : <<b, current'[b]>> \in search'.seen
    /\ search.step \in Reading /\ ~search'.moved =>
          /\ ~search.moved /\ UNCHANGED <<current, active, next, on>>
          /\ removed'.points = removed.points /\ removed'.rows = removed.rows

LEMMA ChangesAreSeen ==
    ASSUME LibraryInv, Searched(search), Changes
    PROVE  Meanwhile
<1>1. /\ IsSearch(search) /\ search.moved \in BOOLEAN
      /\ search.step \in Reading => \A b \in Book : <<b, current[b]>> \in search.seen
  BY DEF Searched, Sound
<1>2. /\ Noted.moved \in BOOLEAN /\ Noted.seen = search.seen
      /\ Noted = [search EXCEPT !.moved = Noted.moved]
      /\ IsSearch(Noted) /\ (search.step \in Reading => Noted.moved)
  BY <1>1 DEF Noted, IsSearch
<1>3. ASSUME search' = Noted, UNCHANGED current
      PROVE  Meanwhile
  <2>1. search' = [search EXCEPT !.moved = search'.moved, !.seen = search'.seen]
    BY <1>1, <1>2, <1>3 DEF IsSearch
  <2> QED
    BY <1>1, <1>2, <1>3, <2>1 DEF Meanwhile
<1>4. ASSUME NEW b \in Book, NewRevision(b)
      PROVE  Meanwhile
  <2>1. current' = [current EXCEPT ![b] = current[b] + 1]
    BY <1>4 DEF NewRevision
  <2>2. CASE search.step \in Reading
    <3>1. search' = [Noted EXCEPT !.seen = Noted.seen \cup {<<b, current'[b]>>}]
      BY <1>4, <2>2 DEF NewRevision
    <3>2. search'.moved = Noted.moved /\ search'.seen = search.seen \cup {<<b, current'[b]>>}
      BY <1>2, <3>1 DEF IsSearch
    <3>3. search' = [search EXCEPT !.moved = search'.moved, !.seen = search'.seen]
      BY <1>1, <1>2, <3>1, <3>2 DEF IsSearch
    <3>4. \A c \in Book : <<c, current'[c]>> \in search'.seen
      BY <1>1, <2>1, <2>2, <3>2 DEF LibraryInv
    <3> QED
      BY <1>2, <2>2, <3>2, <3>3, <3>4 DEF Meanwhile
  <2>3. CASE search.step \notin Reading
    <3>1. search' = search
      BY <1>4, <2>3 DEF NewRevision
    <3>2. search' = [search EXCEPT !.moved = search'.moved, !.seen = search'.seen]
      BY <1>1, <3>1 DEF IsSearch
    <3> QED
      BY <1>1, <2>3, <3>1, <3>2 DEF Meanwhile
  <2> QED
    BY <2>2, <2>3
<1>5. ASSUME NEW b \in Book, RemoveOriginal(b)
      PROVE  Meanwhile
  <2>1. /\ removed' = [removed EXCEPT !.archive = removed.archive \cup {b}]
        /\ search' = search /\ UNCHANGED <<current, active, next, on>>
    BY <1>5 DEF RemoveOriginal
  <2>2. removed'.points = removed.points /\ removed'.rows = removed.rows
    BY <2>1 DEF LibraryInv, RemovedType
  <2>3. search' = [search EXCEPT !.moved = search'.moved, !.seen = search'.seen]
    BY <1>1, <2>1 DEF IsSearch
  <2> QED
    BY <1>1, <2>1, <2>2, <2>3 DEF Meanwhile
<1>6. ASSUME NEW b \in Book,
             \/ PublishB2(b) \/ PublishB3(b) \/ PublishB4(b)
             \/ RemovePoints(b) \/ RemoveRows(b)
      PROVE  Meanwhile
  <2>1. search' = Noted /\ UNCHANGED current
    BY <1>6 DEF PublishB2, PublishB3, PublishB4, RemovePoints, RemoveRows
  <2> QED
    BY <1>3, <2>1
<1> QED
  BY <1>4, <1>5, <1>6 DEF Changes

LEMMA MeanwhileStep ==
    ASSUME LibraryInv, Searched(search), Meanwhile, Forward, LibraryInv'
    PROVE  Searched(search)'
<1>1. /\ IsSearch(search') /\ search'.step = search.step /\ search'.only = search.only
      /\ search'.visible = search.visible /\ search'.indexed = search.indexed
      /\ search'.todo = search.todo /\ search'.found = search.found
      /\ search'.limit = search.limit /\ search'.passages = search.passages
  BY DEF Searched, Sound, Meanwhile, IsSearch
<1>2. Sound(search)'
  BY <1>1 DEF Searched, Sound, Meanwhile
<1>3. ASSUME NEW p, p \in Pubs, p.epoch < active[p.book].epoch \/ p = active[p.book]
      PROVE  p.epoch < active'[p.book].epoch \/ p = active'[p.book]
  <2>1. p.book \in Book /\ p.epoch \in Nat
    BY <1>3 DEF Pubs
  <2>2. active[p.book] \in Pubs /\ active'[p.book] \in Pubs
    BY <2>1 DEF LibraryInv, Replaces
  <2>3. active[p.book].epoch \in Nat /\ active'[p.book].epoch \in Nat
    BY <2>2 DEF Pubs
  <2> QED
    BY <1>3, <2>1, <2>3 DEF Forward
<1>4. Committed(search.passages, search.seen)'
  <2>1. \A p \in Range(search.passages) : p.pub \in Pubs
    <3>1. search.passages \in Seq(Passages)
      BY DEF Searched, Sound
    <3>2. \A p \in Range(search.passages) : p \in Passages
      BY <3>1 DEF Range
    <3> QED
      BY <3>2 DEF Passages
  <2>2. Committed(search.passages, search.seen) /\ search.seen \subseteq search'.seen
    BY DEF Searched, Meanwhile
  <2>3. \A p \in Range(search.passages) :
           p.pub.epoch < active'[p.pub.book].epoch \/ p.pub = active'[p.pub.book]
    BY <1>3, <2>1, <2>2 DEF Committed
  <2> QED
    BY <1>1, <2>2, <2>3 DEF Committed
<1>5. search.step \in Reading \ {"visible"} => WereActive(search.visible)'
  BY <1>1, <1>3 DEF Searched, WereActive
<1>6. Still(search)'
  <2> SUFFICES ASSUME search'.step \in Reading, ~search'.moved
               PROVE  Still(search)'
    BY DEF Still
  <2>1. /\ ~search.moved /\ UNCHANGED <<current, active, next, on>>
        /\ removed'.points = removed.points /\ removed'.rows = removed.rows
    BY <1>1 DEF Meanwhile
  <2>2. Still(search)
    BY DEF Searched
  <2>3. Visible' = Visible /\ Settled' = Settled
    BY <2>1 DEF Visible, Registered, Settled
  <2>4. FoundVisible(search.found)' <=> FoundVisible(search.found)
    BY <1>1, <2>3 DEF FoundVisible
  <2>5. Covered(search)' <=> Covered(search)
    BY <1>1, <2>1 DEF Covered
  <2> QED
    BY <1>1, <2>1, <2>2, <2>3, <2>4, <2>5 DEF Still
<1> QED
  BY <1>1, <1>2, <1>4, <1>5, <1>6 DEF Searched

\* What is sound of the next search is sound in the next state, if the library stays.
LEMMA LibraryStays ==
    ASSUME UNCHANGED library, Searched(search')
    PROVE  Searched(search)'
<1>1. UNCHANGED <<current, active, next, on, removed>>
  BY DEF library
<1>2. Visible' = Visible /\ Settled' = Settled
  BY <1>1 DEF Visible, Registered, Settled
<1>3. Still(search') => Still(search)'
  BY <1>1, <1>2 DEF Still, FoundVisible, Covered
<1> QED
  BY <1>1, <1>3 DEF Searched, Sound, Committed, WereActive

LEMMA SearchesStep ==
    ASSUME LibraryInv, Searched(search), Searches
    PROVE  Searched(search')
<1>1. CASE ReadVisible
  <2>1. CASE Visible = {}
    BY <1>1, <2>1, EndedInVain DEF ReadVisible
  <2>2. CASE Visible # {}
    BY <1>1, <2>2, ReadVisibleIsSound DEF ReadVisible
  <2> QED
    BY <2>1, <2>2
<1>2. CASE ReadEpochs
  <2>1. CASE Visible = {}
    BY <1>2, <2>1, EndedInVain DEF ReadEpochs
  <2>2. CASE Visible # {}
    BY <1>2, <2>2, ReadEpochsIsSound DEF ReadEpochs
  <2> QED
    BY <2>1, <2>2
<1>3. CASE DenseSearch
  BY <1>3, DenseSearchIsSound DEF DenseSearch
<1>4. CASE SparseSearch
  BY <1>4, SparseSearchIsSound DEF SparseSearch
<1>5. CASE Validate
  <2> DEFINE valid == Valid(search.found, search.visible)
  <2>1. search.step = "validate"
    BY <1>5 DEF Validate
  <2>2. CASE Len(valid) < MinPassages /\ ~Exhausted
    BY <1>5, <2>1, <2>2, AgainIsSound DEF Validate
  <2>3. CASE ~(Len(valid) < MinPassages /\ ~Exhausted)
    <3>1. search' = Ended(Selected(Reranked(valid)))
      BY <1>5, <2>3 DEF Validate
    <3>2. /\ Selected(Reranked(valid)) \in Seq(Passages)
          /\ Committed(Selected(Reranked(valid)), search.seen)
      BY <2>1, ValidIsCommitted
    <3> HIDE DEF valid
    <3> QED
      BY <3>1, <3>2, EndedIsSound
  <2> QED
    BY <2>2, <2>3
<1> QED
  BY <1>1, <1>2, <1>3, <1>4, <1>5 DEF Searches

LEMMA AskStep == ASSUME LibraryInv, Ask PROVE Searched(search')
  BY AskedIsSound DEF Ask

\* What a step does to the library and to the search.
LEMMA NextSearches ==
    ASSUME [Next]_vars
    PROVE  \/ Changes
           \/ UNCHANGED library /\ (Ask \/ Searches \/ search' = NoSearch \/ search' = search)
<1>1. CASE Question
  BY <1>1 DEF Question, Ask
<1>2. CASE Answering
  BY <1>2 DEF Answering, InSearch, Searches, Place, NoEvidence, NoModel, BeginCompletion,
              InCompletion, Unavailable, Verdict, Repair, Persist
<1>3. CASE OpenCitation \/ FindOriginal \/ Others
  BY <1>3 DEF OpenCitation, FindOriginal, Others
<1>4. CASE LibraryChanges
  BY <1>4 DEF LibraryChanges
<1>5. CASE UNCHANGED vars
  BY <1>5 DEF vars
<1> QED
  BY <1>1, <1>2, <1>3, <1>4, <1>5 DEF Next

SearchInv == LibraryInv /\ Searched(search)

LEMMA SearchInvInit == Init => SearchInv
<1> SUFFICES ASSUME Init PROVE SearchInv
  OBVIOUS
<1>1. search = NoSearch
  BY DEF Init, SearchInit
<1> QED
  BY <1>1, LibraryInit, NoSearchIsSound DEF SearchInv

LEMMA SearchInvStep == ASSUME SearchInv, [Next]_vars PROVE SearchInv'
<1>1. LibraryInv /\ Searched(search)
  BY DEF SearchInv
<1>2. CASE Changes
  <2>1. LibraryInv' /\ Forward
    BY <1>1, <1>2, LibraryStep
  <2> QED
    BY <1>1, <1>2, <2>1, ChangesAreSeen, MeanwhileStep DEF SearchInv
<1>3. CASE UNCHANGED library /\ (Ask \/ Searches \/ search' = NoSearch \/ search' = search)
  <2>1. LibraryInv'
    BY <1>1, <1>3, LibraryStep
  <2>2. Searched(search')
    BY <1>1, <1>3, AskStep, SearchesStep, NoSearchIsSound
  <2> QED
    BY <1>3, <2>1, <2>2, LibraryStays DEF SearchInv
<1> QED
  BY <1>2, <1>3, NextSearches

\* The evidence of an answer is committed and current, and of one publication per book,
\* whatever is scanned, published and removed during the search (retrieval.py, search).
THEOREM EvidenceStaysCommitted == Spec => []EvidenceIsCommitted
<1>1. SearchInv => EvidenceIsCommitted
  BY DEF SearchInv, Searched, Committed, EvidenceIsCommitted
<1> QED
  BY <1>1, SearchInvInit, SearchInvStep, PTL DEF Spec

\* A search that may ask for every point misses no passage with a word of the question,
\* over any number of statistics epochs (retrieval.py, search).
THEOREM NothingIsMissed == Spec => []NoneMissed
<1>1. ASSUME SearchInv PROVE NoneMissed
  <2> SUFFICES ASSUME search.step = "validate", ~search.moved, search.limit >= Everything,
                      NEW x \in DOMAIN SparseRank, x[1] \notin removed.points,
                      search.only \in {None, x[1]}
               PROVE  [pub |-> active[x[1]], chunk |-> x[2]] \in
                          Range(Valid(search.found, search.visible))
    BY DEF NoneMissed, Everything
  <2> DEFINE id == <<x[1], active[x[1]].rev, x[2]>>
  <2>1. "validate" \in Reading /\ "validate" # "visible"
    BY DEF Reading
  <2>2. /\ LibraryInv /\ Founds(search.found) /\ search.todo = {} /\ Settled
        /\ search.visible = Visible /\ FoundVisible(search.found) /\ Covered(search)
    BY <1>1, <2>1 DEF SearchInv, Searched, Sound, Still
  <2>3. id \in DOMAIN search.found
    BY <2>2 DEF Covered
  <2>4. /\ x[1] \in Book /\ x[1] \notin removed.rows
        /\ active[x[1]].rev = current[x[1]] /\ active[x[1]].book = x[1]
    BY <2>2, RanksType DEF IsRank, Settled, LibraryInv, Replaces
  <2>5. search.found[id].pub = active[x[1]]
    <3>1. search.found[id].pub \in Visible /\ search.found[id].pub.book = id[1]
      BY <2>2, <2>3 DEF FoundVisible, Founds
    <3>2. \A c \in Book : active[c].book = c
      BY <2>2 DEF LibraryInv, Replaces
    <3> QED
      BY <3>1, <3>2 DEF Visible
  <2>6. IsEvidence(search.found[id].pub, search.visible)
    BY <2>2, <2>4, <2>5 DEF IsEvidence, Visible, Registered
  <2>7. Range(Valid(search.found, search.visible)) =
            {[pub |-> search.found[y].pub, chunk |-> y[3]] :
                y \in {z \in DOMAIN search.found :
                          IsEvidence(search.found[z].pub, search.visible)}}
    BY <2>2, ValidIsEvidence
  <2> QED
    BY <2>3, <2>5, <2>6, <2>7
<1> QED
  BY <1>1, SearchInvInit, SearchInvStep, PTL DEF Spec
=============================================================================
