---------------------------- MODULE MCPublication ----------------------------
(* Small instances of Publication for TLC.  Threads of a process are numbers *)
(* and stay apart.                                                           *)
EXTENDS Publication, TLC

Symmetry == Permutations(Procs) \cup Permutations(Docs) \cup Permutations(Batches)
==============================================================================
