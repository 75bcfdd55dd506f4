----------------------------- MODULE AnswerPool -----------------------------
(***************************************************************************)
(* The pool of endpoints that serve the answer model (llm.py): complete(), *)
(* called from several threads at once.                                    *)
(***************************************************************************)
EXTENDS Naturals, FiniteSets

CONSTANTS
    Caller,        \* threads: of the API, of the worker's resume jobs
    Endpoints,     \* number of endpoints in the pool
    Weight         \* endpoint -> its weight

Endpoint == 0 .. Endpoints - 1

ASSUME PoolAssumption ==
    /\ IsFiniteSet(Caller)
    /\ Endpoints \in Nat \ {0, 1} /\ Weight \in [Endpoint -> Nat \ {0}]

VARIABLES
    rr,         \* the round-robin position
    inflight,   \* endpoint -> its counter of calls
    call        \* caller -> its completion; tried: the endpoints it has been to

pool == <<rr, inflight, call>>

NoCall == [step |-> "none", at |-> 0, tries |-> 0, tried |-> {}]
PoolInit ==
    /\ rr = 0
    /\ inflight = [e \in Endpoint |-> 0]
    /\ call = [c \in Caller |-> NoCall]

Less(e, f) == inflight[e] * Weight[f] < inflight[f] * Weight[e]
Turn(e) == (e + Endpoints - rr) % Endpoints
\* _pick_locked: the least loaded endpoint, of equal ones the next in turn.
Preferred(e) == \A f \in Endpoint : Less(e, f) \/ (~Less(f, e) /\ Turn(e) <= Turn(f))

Pick(c) ==
    /\ call[c].step \notin {"enter", "busy"}
    /\ \E e \in Endpoint :
          /\ Preferred(e)
          /\ call' = [call EXCEPT ![c] = [NoCall EXCEPT !.step = "enter", !.at = e]]
    /\ rr' = (rr + 1) % Endpoints
    /\ UNCHANGED inflight

\* The lock is taken again: the choice may be stale by now.
Enter(c) ==
    /\ call[c].step = "enter"
    /\ call' = [call EXCEPT ![c] =
          [call[c] EXCEPT !.step = "busy", !.tried = call[c].tried \cup {call[c].at}]]
    /\ inflight' = [inflight EXCEPT ![call[c].at] = @ + 1]
    /\ UNCHANGED rr

\* The finally clause.
Left(e, ok) == [inflight EXCEPT ![e] = @ - 1]

Reply(c) ==
    /\ call[c].step = "busy"
    /\ call' = [call EXCEPT ![c] = [NoCall EXCEPT !.step = "replied"]]
    /\ inflight' = Left(call[c].at, TRUE)
    /\ UNCHANGED rr

\* Wrong: one try too few.
SlipNoneLeft(tries) == tries + 2 = Endpoints
NoneLeft(tries) == tries + 1 = Endpoints
Fails(c) ==
    /\ call[c].step = "busy"
    /\ call' = [call EXCEPT ![c] =
          IF NoneLeft(call[c].tries) THEN [call[c] EXCEPT !.step = "failed"]
          ELSE [call[c] EXCEPT !.step = "enter", !.tries = call[c].tries + 1,
                               !.at = (call[c].at + 1) % Endpoints]]
    /\ inflight' = Left(call[c].at, FALSE)
    /\ UNCHANGED rr

\* A caller that completes for itself: a resume job, another question.
Completes(c) == Enter(c) \/ Reply(c) \/ Fails(c)

PoolNext == \E c \in Caller : Pick(c) \/ Completes(c)
PoolSpec == PoolInit /\ [][PoolNext]_pool

-----------------------------------------------------------------------------
(* Properties.                                                             *)

\* Every variable keeps its type.
PoolTypeOK ==
    /\ rr \in Endpoint
    /\ inflight \in [Endpoint -> Nat]
    /\ call \in [Caller -> [step : {"none", "enter", "busy", "replied", "failed"},
                            at : Endpoint, tries : Endpoint, tried : SUBSET Endpoint]]

\* The counters of the pool are the calls that are under way, whatever failed before:
\* a counter that drifts would turn the calls away from its endpoint for good.
InflightIsBalance ==
    \A e \in Endpoint :
        inflight[e] = Cardinality({c \in Caller : call[c].step = "busy" /\ call[c].at = e})

\* A completion fails only after every endpoint was tried for it.
FailsOnlyIfAllFail ==
    \A c \in Caller : call[c].step = "failed" => call[c].tried = Endpoint
=============================================================================
