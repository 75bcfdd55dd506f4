------------------------------- MODULE Answers -------------------------------
(***************************************************************************)
(* A question (answers.py): the search over what is published, the         *)
(* manifest of its evidence (citations.py), the completion through the     *)
(* pool, which others use at the same time, the verdict on the citations   *)
(* and one bounded repair; and the citations of an answer, opened later    *)
(* from what was stored with it (api.py).                                  *)
(*                                                                         *)
(* Abstraction.  A reply of the model is what the verdict sees of it: an   *)
(* abstention, or the numbers it cites.  Of a passage's place, its unit,   *)
(* page, anchor and boxes, the model keeps whether it was found.  Of the   *)
(* answers stored it keeps the last one, until the next question.          *)
(***************************************************************************)
EXTENDS Search, AnswerPool

CONSTANT Asker      \* the thread that asks

ASSUME AnswersAssumption == Asker \in Caller

VARIABLES
    stage,       \* idle, searching, completing, repairing, settled
    raw,         \* the reply
    evidence,    \* the manifest, E1 first
    answer,      \* the row of table answers
    citation     \* a citation of it that a reader opens

vars == <<library, search, pool, stage, raw, evidence, answer, citation>>

Entry == [pub : Pub, chunk : Chunk, placed : BOOLEAN, titled : BOOLEAN]
NoReply == [abstains |-> FALSE, cites |-> {}]
NoAnswer == [status |-> "none", cites |-> {}, evidence |-> <<>>]
NoCitation == [step |-> "none", number |-> 0, pub |-> None]

Init ==
    /\ SearchInit /\ PoolInit
    /\ stage = "idle" /\ raw = NoReply /\ evidence = <<>>
    /\ answer = NoAnswer /\ citation = NoCitation

-----------------------------------------------------------------------------
(* The question.                                                           *)

\* _persist_answer: the row, with the manifest of the moment.
Stored(status, cites) == [status |-> status, cites |-> cites, evidence |-> evidence]

\* _persist: answer_query returns.
Persist(status, cites) ==
    /\ stage' = "settled"
    /\ answer' = Stored(status, cites)
    /\ search' = NoSearch /\ raw' = NoReply /\ evidence' = <<>>
    /\ UNCHANGED <<library, citation>>

Question ==
    /\ stage \in {"idle", "settled"}
    /\ Ask
    /\ stage' = "searching" /\ answer' = NoAnswer /\ citation' = NoCitation
    /\ UNCHANGED <<pool, raw, evidence>>

InSearch ==
    /\ stage = "searching"
    /\ UNCHANGED <<pool, stage, raw, evidence, answer, citation>>
    /\ Searches

Found == stage = "searching" /\ search.step = "done"

\* Wrong: the units of what is active now.
SlipUnitsFound(p) == Registered(p.pub.book) /\ p.pub.rev = current[p.pub.book]
\* The rows of source_units that the spans of a passage name
UnitsFound(p) == Registered(p.pub.book)

\* build_manifest, one passage: the row of its revision is read once for all its
\* passages, the rows of its units for each.
Place ==
    LET n == Len(evidence) + 1
        p == search.passages[n]
        before == {e \in Range(evidence) : e.pub = p.pub}
    IN  /\ Found /\ n <= Len(search.passages)
        /\ evidence' = Append(evidence,
               [pub |-> p.pub, chunk |-> p.chunk, placed |-> UnitsFound(p),
                titled |-> IF before = {} THEN Registered(p.pub.book)
                           ELSE \A e \in before : e.titled])
        /\ UNCHANGED <<library, search, pool, stage, raw, answer, citation>>

Placed == Found /\ Len(evidence) = Len(search.passages)

\* Without evidence the answer is an abstention and the model is not called; without a
\* configured model it is a failure.
NoEvidence ==
    /\ Placed /\ evidence = <<>>
    /\ Persist("no evidence", {})
    /\ UNCHANGED pool

NoModel ==
    /\ Placed /\ evidence # <<>>
    /\ Persist("failed", {})
    /\ UNCHANGED pool

\* From here on the manifest stands for the passages.
BeginCompletion ==
    /\ Placed /\ evidence # <<>>
    /\ Pick(Asker) /\ stage' = "completing" /\ search' = NoSearch
    /\ UNCHANGED <<library, raw, evidence, answer, citation>>

\* What a model may answer to the prompt, which lists the evidence: an abstention, no
\* citation, citations known and unknown.
Replies ==
    LET n == Len(evidence)
    IN  {[abstains |-> TRUE, cites |-> {}]} \cup
        {[abstains |-> FALSE, cites |-> s] : s \in {{}, 1 .. n, {1, n + 1}}}

InCompletion ==
    /\ stage \in {"completing", "repairing"}
    /\ UNCHANGED <<library, search, stage, evidence, answer, citation>>
    /\ \/ Enter(Asker) /\ UNCHANGED raw
       \/ Reply(Asker) /\ raw' \in Replies
       \/ Fails(Asker) /\ UNCHANGED raw

Unavailable ==
    /\ stage \in {"completing", "repairing"} /\ call[Asker].step = "failed"
    /\ Persist("failed", {})
    /\ UNCHANGED pool

\* _verdict
Accepted == raw.cites # {} /\ raw.cites \subseteq DOMAIN evidence

Judged == stage \in {"completing", "repairing"} /\ call[Asker].step = "replied"
Verdict ==
    /\ Judged
    /\ \/ raw.abstains /\ Persist("abstained", {})
       \/ ~raw.abstains /\ Accepted /\ Persist("answered", raw.cites)
       \/ ~raw.abstains /\ ~Accepted /\ stage = "repairing" /\ Persist("failed", {})
    /\ UNCHANGED pool

\* Exactly one repair.
Repair ==
    /\ Judged /\ ~raw.abstains /\ ~Accepted /\ stage = "completing"
    /\ Pick(Asker) /\ stage' = "repairing" /\ raw' = NoReply
    /\ UNCHANGED <<library, search, evidence, answer, citation>>

Answering ==
    \/ InSearch \/ Place \/ NoEvidence \/ NoModel \/ BeginCompletion
    \/ InCompletion \/ Unavailable \/ Verdict \/ Repair

-----------------------------------------------------------------------------
(* A citation (resolve_citation), from the stored manifest; unknown         *)
(* numbers are refused.                                                     *)

\* Wrong: only the revision that is active now.
SlipResolves(pub) == Registered(pub.book) /\ pub.rev = current[pub.book]
\* The cited revision is registered, whether or not it is the active one.
Resolves(pub) == Registered(pub.book)

OpenCitation ==
    /\ answer.status # "none" /\ citation.step # "original"
    /\ \E n \in 1 .. MaxPassages :
          citation' =
            IF n > Len(answer.evidence) THEN [NoCitation EXCEPT !.step = "unknown", !.number = n]
            ELSE LET pub == answer.evidence[n].pub
                 IN  [step |-> IF Resolves(pub) THEN "original" ELSE "refused",
                      number |-> n, pub |-> pub]
    /\ UNCHANGED <<library, search, pool, stage, raw, evidence, answer>>

FindOriginal ==
    /\ citation.step = "original"
    /\ citation' =
         [step |-> IF citation.pub.book \notin removed.archive THEN "available" ELSE "refused",
          number |-> citation.number, pub |-> citation.pub]
    /\ UNCHANGED <<library, search, pool, stage, raw, evidence, answer>>

-----------------------------------------------------------------------------

\* Other threads of the process complete through the same pool.
Others ==
    /\ \E c \in Caller \ {Asker} : Pick(c) \/ Completes(c)
    /\ UNCHANGED <<library, search, stage, raw, evidence, answer, citation>>

LibraryChanges == Changes /\ UNCHANGED <<pool, stage, raw, evidence, answer, citation>>

Next == Question \/ Answering \/ OpenCitation \/ FindOriginal \/ Others \/ LibraryChanges
Spec == Init /\ [][Next]_vars

-----------------------------------------------------------------------------
(* Properties.                                                             *)

\* Every variable keeps its type.
TypeOK ==
    /\ SearchTypeOK /\ PoolTypeOK
    /\ stage \in {"idle", "searching", "completing", "repairing", "settled"}
    /\ Range(evidence) \subseteq Entry /\ Range(answer.evidence) \subseteq Entry
    /\ answer.status \in {"none", "no evidence", "abstained", "answered", "failed"}
    /\ citation.step \in {"none", "original", "unknown", "refused", "available"}
    /\ citation.number \in 0 .. MaxPassages /\ citation.pub \in Pub \cup {None}

\* An answer cites evidence, and nothing that is not in its list, after a repair as well.
AnswersCite ==
    answer.status = "answered" =>
        answer.cites # {} /\ answer.cites \subseteq DOMAIN answer.evidence

\* An answer tells the place of what it cites in the edition it was found in, however often
\* the book is scanned and published while the question is worked on: a title or a place
\* is missing only if the book was removed meanwhile.
EvidenceIsPlaced ==
    \A e \in Range(evidence) : ~e.placed \/ ~e.titled => ~Registered(e.pub.book)

\* A stored citation leads to the edition it was found in or, once the book was removed,
\* nowhere: not to a later edition, and no number that the answer cites is unknown.
CitationsStand ==
    LET n == citation.number
    IN  CASE citation.step = "unknown" -> n \notin answer.cites
          [] citation.step = "refused" -> ~Registered(citation.pub.book)
          [] citation.step = "available" -> citation.pub = answer.evidence[n].pub
          [] OTHER -> TRUE
=============================================================================
