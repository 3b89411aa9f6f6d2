--------------------------- MODULE MCSequentialPair ---------------------------
(* SequentialDaemon for TLC: two processes over one ledger at the same time. *)
EXTENDS SequentialDaemon
MCRuns == {1, 2}
MCRunnerStatuses == {"executing", "failed", "escalated"}
MCProcs == {"p", "q"}
MCKinds == {"submit", "resume", "other"}
=============================================================================
