---------------------------- MODULE MCRecoveryLedger ----------------------------
(* Three runs, one caller with an asynchronous call, a clock of two instants.   *)
EXTENDS RecoveryLedger, TLC

CONSTANTS r1, r2, r3, c1

MCRuns == {r1, r2, r3}
MCCallers == {c1}
MCBlockers == {"corrupt"}
Symmetry == Permutations(MCRuns)
=============================================================================
