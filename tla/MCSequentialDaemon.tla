-------------------------- MODULE MCSequentialDaemon --------------------------
(* SequentialDaemon for TLC: one process at a time, restarted after losses. *)
EXTENDS SequentialDaemon
MCRuns == 1..5
MCRunnerStatuses == {"executing", "failed", "escalated"}
MCProcs == {"p"}
MCKinds == {"submit", "resume", "other"}
=============================================================================
