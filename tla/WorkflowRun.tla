------------------------------- MODULE WorkflowRun -------------------------------
(***************************************************************************)
(* What running a workflow promises, with no order, chunks or passes: nodes *)
(* start when all their dependencies completed, end with a verdict that     *)
(* stays, and are skipped only over a dependency that failed or was skipped. *)
(***************************************************************************)
CONSTANTS Nodes, Ids

VARIABLES deps, status

In(verdicts) == {n \in Nodes : status[n] \in verdicts}

Init ==
  /\ deps \in [Nodes -> SUBSET Ids]
  /\ status = [n \in Nodes |-> "waiting"]

Start(S) ==
  /\ S \subseteq In({"waiting"})
  /\ \A n \in S : deps[n] \subseteq In({"completed"})
  /\ status' = [n \in Nodes |-> IF n \in S THEN "running" ELSE status[n]]
  /\ UNCHANGED deps

End(S, F) ==
  /\ S \cup F \subseteq In({"running"}) /\ S \cap F = {}
  /\ status' = [n \in Nodes |-> IF n \in S THEN "completed" ELSE IF n \in F THEN "failed" ELSE status[n]]
  /\ UNCHANGED deps

Skip(n) ==
  /\ n \in In({"waiting"})
  /\ deps[n] \cap In({"failed", "skipped"}) # {}
  /\ status' = [status EXCEPT ![n] = "skipped"]
  /\ UNCHANGED deps

Next ==
  \/ \E S, F \in SUBSET Nodes : Start(S) \/ End(S, F)
  \/ \E n \in Nodes : Skip(n)

Spec == Init /\ [][Next]_<<deps, status>>
=============================================================================
