-------------------------------- MODULE MCTaskRun --------------------------------
(***************************************************************************)
(* Runs of one and two workers, with a failure possible at every call that   *)
(* may fail except the listing of a workspace's chain.                      *)
(***************************************************************************)
EXTENDS TaskRun

CONSTANTS w1, w2

MCWorkers == {w1, w2}
MCFaults == FaultKinds \ {"listing"}
=============================================================================
