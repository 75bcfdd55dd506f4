------------------------------ MODULE MCAnswers ------------------------------
(* Small instances of Answers for TLC.                                     *)
EXTENDS Answers, TLC

CONSTANTS b1, b2

Lengths == <<b1, 1>> :> 1 @@ <<b1, 2>> :> 1 @@ <<b2, 1>> :> 2 @@ <<b2, 2>> :> 4
Dense == <<b1, 1>> :> 1 @@ <<b1, 2>> :> 2 @@ <<b2, 1>> :> 3 @@ <<b2, 2>> :> 4
Sparse == <<b2, 2>> :> 1 @@ <<b1, 2>> :> 2 @@ <<b2, 1>> :> 3
\* The completion and the library do not see each other, nor do other threads' calls and
\* the search: of orders that differ in such steps only, one is taken.
Apart ==
    /\ stage \in {"completing", "repairing"} => library' = library
    /\ ~Placed /\ stage \notin {"completing", "repairing"} => pool' = pool

\* Bound: one question, of a library that may have changed before.
OneQuestion == stage = "settled" => stage' = "settled"

Weights == 0 :> 1 @@ 1 :> 2
=============================================================================
