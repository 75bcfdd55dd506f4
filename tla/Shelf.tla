-------------------------------- MODULE Shelf --------------------------------
(***************************************************************************)
(* What publication promises a reader: a document has nothing on the shelf *)
(* until its first publication is put there, and from then on exactly one, *)
(* which a step replaces at once.  No step touches two documents.          *)
(***************************************************************************)
CONSTANTS Docs, EditionsOf   \* document -> its possible publications

VARIABLE shelf   \* document -> the publications a reader is served

Init == shelf = [d \in Docs |-> {}]

Put(d, e) == shelf' = [shelf EXCEPT ![d] = {e}]

Next == \E d \in Docs : \E e \in EditionsOf[d] : Put(d, e)

Spec == Init /\ [][Next]_shelf
==============================================================================
