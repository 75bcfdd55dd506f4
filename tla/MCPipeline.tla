----------------------------- MODULE MCPipeline -----------------------------
(* Small instances of Pipeline for TLC: a scanned page and a native one.   *)
EXTENDS Pipeline, TLC

Symmetry == Permutations(Threads)
=============================================================================
