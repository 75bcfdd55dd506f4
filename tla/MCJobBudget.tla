---------------------------- MODULE MCJobBudget ----------------------------
(* A small instance of JobBudget for TLC.  No symmetry: the run checks     *)
(* liveness.                                                               *)
EXTENDS JobBudget, TLC
============================================================================
