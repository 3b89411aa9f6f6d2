---------------------------- MODULE MCChildLedger ----------------------------
(* ChildLedger for TLC: two competing runs, one workspace revision, task    *)
(* runners that start and fail.                                             *)
EXTENDS ChildLedger
MCRuns == {1, 2}
MCRunnerStatuses == {"executing", "failed"}
=============================================================================
