------------------------------- MODULE WorkflowDag -------------------------------
(***************************************************************************)
(* Synthesis of a workflow's order (workflow/dag.ts): Kahn's algorithm over *)
(* the nodes in input order, and the refusals; the path a cycle is reported *)
(* with is left out.  A graph is a function from nodes to the ids they      *)
(* depend on, listed in input order, without repetitions.                   *)
(***************************************************************************)
EXTENDS Integers, Sequences, FiniteSets, SequencesExt

CONSTANTS Nodes,      \* ids of the nodes handed in
          Ids,        \* ids a dependency may name: some may be no node's
          Input,      \* the nodes in the order they were handed in
          MaxFanOut   \* DEFAULT_MAX_FAN_OUT

ASSUME NodesAssumption == Nodes \subseteq Ids
ASSUME InputAssumption == Input \in Seq(Nodes) /\ Len(Input) = Cardinality(Nodes) /\ Nodes = {Input[i] : i \in DOMAIN Input}
ASSUME FanOutAssumption == MaxFanOut \in Nat \ {0}

-----------------------------------------------------------------------------
Earlier(m, n) == \E i, j \in DOMAIN Input : i < j /\ Input[i] = m /\ Input[j] = n

\* A set of nodes as the code goes through it, in input order: there is one such list.
Listings(S) == {s \in [1..Cardinality(S) -> S] : \A i, j \in DOMAIN s : i < j => Earlier(s[i], s[j])}

\* The first node in input order that is at fault decides the refusal.
Unknown(deps) == {n \in Nodes : ~(deps[n] \subseteq Nodes)}
Wide(deps) == {n \in Nodes : Cardinality(deps[n]) > MaxFanOut}
Faulty(deps) == Unknown(deps) \cup Wide(deps)
FirstFault(deps) ==
  IF \E n \in Unknown(deps) : \A m \in Faulty(deps) : ~Earlier(m, n)
  THEN "unknown_dependency" ELSE "fan_out_exceeded"

Roots(deps) == {n \in Nodes : deps[n] = {}}
Dependents(deps, d) == {n \in Nodes : d \in deps[n]}

\* Mutant: a dependent joins the queue with its first dependency.
ReleasedEarly(deps, order, id) == {n \in Dependents(deps, id) : deps[n] \cap Range(order) = {}}

\* The dependents whose last missing dependency joins the order join the queue; the
\* code counts down the missing ones.
Released(deps, order, id) == {n \in Dependents(deps, id) : deps[n] \subseteq Range(order) \cup {id}}
=============================================================================
