---------------------------- MODULE MCWorkerProcess ----------------------------
(* A worker with two tool calls, one of them the verification suite.           *)
EXTENDS WorkerProcess

CONSTANTS edit, suite

MCTools == {edit, suite}
MCSuites == {suite}
=============================================================================
