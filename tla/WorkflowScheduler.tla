---------------------------- MODULE WorkflowScheduler ----------------------------
(***************************************************************************)
(* One build of a workflow (workflow/build.ts and scheduler.ts): synthesis, *)
(* then passes that skip the dependents of failed nodes and run chunks of   *)
(* ready nodes, a chunk ending when all its nodes have.  The node executor  *)
(* is the caller's; it may end in either verdict, or throw, which counts as *)
(* failed.                                                                 *)
(***************************************************************************)
EXTENDS WorkflowDag

CONSTANTS Requests,   \* requested parallelism in halves: 3 is 1.5; none is 0 or less
          Workflows   \* the graphs handed in

ASSUME RequestAssumption == Requests \subseteq Int
ASSUME WorkflowAssumption == Workflows \subseteq [Nodes -> SUBSET Ids]

VARIABLES deps,       \* the dependencies of each node
          requested,  \* the caller's maxParallel, in halves
          plan,       \* synthesis: the refusal, the queue, the order so far
          phase,
          pending, completed, failed, skipped,
          chunk,      \* the nodes handed to the executor and not yet judged
          verdict,    \* of the nodes of the chunk that ended
          events      \* the lifecycle events of each node, in order

input == <<deps, requested, plan>>
sets == <<pending, completed, failed, skipped>>
vars == <<input, phase, sets, chunk, verdict, events>>

-----------------------------------------------------------------------------
effectiveMaxParallel ==
  IF requested <= 0 \/ requested \div 2 > MaxFanOut THEN MaxFanOut ELSE requested \div 2

\* Mutant: a dependency that is still pending counts as failed.
BlockedEarly == {n \in pending : ~(deps[n] \subseteq completed)}

Blocked == {n \in pending : deps[n] \cap (failed \cup skipped) # {}}
\* Mutant: one completed dependency is enough.
ReadyEarly == {n \in pending : deps[n] = {} \/ deps[n] \cap completed # {}}

Ready == {n \in pending : deps[n] \subseteq completed}

Before(m, n) == \E i, j \in DOMAIN plan.order : i < j /\ plan.order[i] = m /\ plan.order[j] = n
NextChunk == {n \in Ready : Cardinality({m \in Ready : Before(m, n)}) < effectiveMaxParallel}

Emit(S, kinds) == events' = [n \in Nodes |-> IF n \in S THEN events[n] \o kinds ELSE events[n]]
Ended(v) == {n \in chunk : verdict[n] = v}

Plan(code, queue, order) == [code |-> code, queue |-> queue, order |-> order]
NoPlan == Plan("none", <<>>, <<>>)

Init ==
  /\ deps \in Workflows /\ requested \in Requests
  /\ plan = NoPlan /\ phase = "synthesize"
  /\ pending = {} /\ completed = {} /\ failed = {} /\ skipped = {}
  /\ chunk = {} /\ verdict = [n \in Nodes |-> "none"]
  /\ events = [n \in Nodes |-> <<>>]

\* The nodes are validated one by one; the roots of a valid graph start the queue.
Synthesize ==
  /\ phase = "synthesize"
  /\ \/ /\ Faulty(deps) # {}
        /\ plan' = Plan(FirstFault(deps), <<>>, <<>>) /\ phase' = "refused"
     \/ /\ Faulty(deps) = {}
        /\ \E q \in Listings(Roots(deps)) : plan' = Plan("none", q, <<>>)
        /\ phase' = "drain"
  /\ UNCHANGED <<deps, requested, sets, chunk, verdict, events>>

\* The head of the queue joins the order, and what it releases the queue.
Drain ==
  /\ phase = "drain" /\ plan.queue # <<>>
  /\ \E released \in Listings(Released(deps, plan.order, Head(plan.queue))) :
       plan' = Plan("none", Tail(plan.queue) \o released, Append(plan.order, Head(plan.queue)))
  /\ UNCHANGED <<deps, requested, phase, sets, chunk, verdict, events>>

\* A node that never joined the order is on a cycle, or depends on one.
EndSynthesis ==
  /\ phase = "drain" /\ plan.queue = <<>>
  /\ \/ /\ Len(plan.order) = Len(Input)
        /\ phase' = "pass" /\ pending' = Range(plan.order)
        /\ plan' = Plan("ok", <<>>, plan.order)
     \/ /\ Len(plan.order) # Len(Input)
        /\ phase' = "refused" /\ pending' = {}
        /\ plan' = Plan("cycle", <<>>, <<>>)
  /\ UNCHANGED <<deps, requested, completed, failed, skipped, chunk, verdict, events>>

\* Mutant: a skipped node's dependents are not looked at.
SkipOfFailed(n) ==
  /\ phase = "pass" /\ n \in pending /\ deps[n] \cap failed # {}
  /\ pending' = pending \ {n} /\ skipped' = skipped \cup {n}
  /\ Emit({n}, <<"routed", "failed">>)
  /\ UNCHANGED <<input, phase, completed, failed, chunk, verdict>>

\* The pass goes through the pending nodes in order, and starts over until it skips none.
Skip(n) ==
  /\ phase = "pass" /\ n \in Blocked
  /\ \A m \in Blocked : ~Before(m, n)
  /\ pending' = pending \ {n} /\ skipped' = skipped \cup {n}
  /\ Emit({n}, <<"routed", "failed">>)
  /\ UNCHANGED <<input, phase, completed, failed, chunk, verdict>>

\* The branch for pending nodes that are neither ready nor blocked is left out: there are none.
StartChunk ==
  /\ phase = "pass" /\ Blocked = {} /\ Ready # {}
  /\ chunk' = NextChunk
  /\ Emit(NextChunk, <<"routed">>)
  /\ phase' = "chunk"
  /\ UNCHANGED <<input, sets, verdict>>

NodeEnds(n, v) ==
  /\ phase = "chunk" /\ n \in chunk /\ verdict[n] = "none"
  /\ verdict' = [verdict EXCEPT ![n] = v]
  /\ UNCHANGED <<input, phase, sets, chunk, events>>

\* Every node of the chunk has ended: the verdicts are applied together.
Judge ==
  /\ phase = "chunk" /\ Ended("none") = {}
  /\ completed' = completed \cup Ended("completed")
  /\ failed' = failed \cup Ended("failed")
  /\ pending' = pending \ chunk
  /\ events' = [n \in Nodes |-> IF n \in chunk THEN Append(events[n], verdict[n]) ELSE events[n]]
  /\ chunk' = {} /\ phase' = "pass"
  /\ UNCHANGED <<input, skipped, verdict>>

Finish ==
  /\ phase = "pass" /\ pending = {}
  /\ phase' = "done"
  /\ UNCHANGED <<input, sets, chunk, verdict, events>>

Next ==
  \/ Synthesize \/ Drain \/ EndSynthesis
  \/ \E n \in Nodes : Skip(n) \/ \E v \in {"completed", "failed"} : NodeEnds(n, v)
  \/ StartChunk \/ Judge \/ Finish

\* The loop never waits but for the executor, whose sessions end by their own timers.
Spec == Init /\ [][Next]_vars
FairSpec == Spec /\ WF_vars(Next)

-----------------------------------------------------------------------------
Phases == {"synthesize", "drain", "pass", "chunk", "done", "refused"}
Verdicts == {"none", "completed", "failed"}
TypeOK ==
  /\ deps \in [Nodes -> SUBSET Ids] /\ requested \in Requests /\ phase \in Phases
  /\ plan.queue \in Seq(Nodes) /\ plan.order \in Seq(Nodes)
  /\ pending \subseteq Nodes /\ completed \subseteq Nodes /\ failed \subseteq Nodes
  /\ skipped \subseteq Nodes /\ chunk \subseteq pending
  /\ verdict \in [Nodes -> Verdicts]
  /\ phase \in {"synthesize", "drain", "refused"} => pending \cup completed \cup failed \cup skipped = {}

\* Nodes of which each waits for another one: a finite graph has such a set if and
\* only if it has a cycle.
Circular(S) == S # {} /\ \A n \in S : deps[n] \cap S # {}

Unrunnable ==
  \/ \E n \in Nodes : ~(deps[n] \subseteq Nodes) \/ Cardinality(deps[n]) > MaxFanOut
  \/ \E S \in SUBSET Nodes : Circular(S)

\* A refusal is never raised for a workflow that could run: it has a dependency nobody
\* provides, a node over the fan-out, or a cycle, and only then.
RefusedIffFaulty ==
  /\ phase = "refused" => Unrunnable
  /\ phase \in {"pass", "chunk", "done"} => ~Unrunnable

\* "One routed + one terminal per node": whatever ran, failed, threw or was skipped.
Lifecycle ==
  \A n \in Nodes :
    events[n] = CASE n \in completed -> <<"routed", "completed">>
                  [] n \in failed \cup skipped -> <<"routed", "failed">>
                  [] n \in chunk -> <<"routed">>
                  [] OTHER -> <<>>

\* Nothing was handed to the executor before all its dependencies completed, and
\* nothing is skipped without a dependency that failed or was skipped itself.
DependenciesFirst ==
  /\ \A n \in chunk \cup completed \cup failed : deps[n] \subseteq completed
  /\ \A n \in skipped : deps[n] \cap (failed \cup skipped) # {}

\* What a build promises, node by node.
Status ==
  [n \in Nodes |-> CASE n \in completed -> "completed"
                     [] n \in failed -> "failed"
                     [] n \in skipped -> "skipped"
                     [] n \in chunk -> "running"
                     [] OTHER -> "waiting"]
Run == INSTANCE WorkflowRun WITH status <- Status

\* The chunked scheduler implements it: a node starts after its dependencies, is judged
\* once, and is skipped only over a failure.
ImplementsWorkflowRun == Run!Spec

\* Every build ends: with a refusal, or with a verdict for each node.
BuildEnds == <>(phase \in {"refused", "done"})
=============================================================================
