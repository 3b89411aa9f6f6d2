--------------------------- MODULE MCWorkflowScheduler ---------------------------
(* Every graph over four nodes with at most two dependencies each, and some    *)
(* with a dependency that nobody provides or with one too many.                *)
EXTENDS WorkflowScheduler

CONSTANTS n1, n2, n3, n4, ghost

FourNodes == {n1, n2, n3, n4}
FourInput == <<n1, n2, n3, n4>>
FourIds == FourNodes \cup {ghost}
FourWorkflows == [FourNodes -> {S \in SUBSET FourNodes : Cardinality(S) <= 2}]
                  \cup [FourNodes -> {{}, {n2}, {ghost}, {n1, ghost}, {n1, n2, n3}}]
=============================================================================
