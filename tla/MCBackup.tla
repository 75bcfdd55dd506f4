------------------------------ MODULE MCBackup ------------------------------
EXTENDS Backup
CONSTANTS a, b
L1 == <<a, b>>
L2 == <<b>>
Both == {L1, L2}

(* Two halves: backups of a worker with one thread; two threads, no backup. *)
MCInit == Init /\ (hands = 2 <=> dest = "not set")
MCSpec == MCInit /\ [][Next]_vars
=============================================================================
