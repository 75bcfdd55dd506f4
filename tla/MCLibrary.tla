------------------------------ MODULE MCLibrary ------------------------------
(* Small instances of Library for TLC.                                     *)
EXTENDS Library

CONSTANTS p1, p2, a, b

\* Two different books; an edit makes one of them a copy of the other.
TwoBooks == {[p \in Path |-> IF p = p1 THEN a ELSE b]}
=============================================================================
