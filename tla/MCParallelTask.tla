------------------------------ MODULE MCParallelTask ------------------------------
(* Two workers; each fails or yields, with or without progress shown.        *)
EXTENDS ParallelTask
=============================================================================
