------------------------------ MODULE WorkflowProofs ------------------------------
(***************************************************************************)
(* The workflow scheduler for any graph, any input order and any            *)
(* parallelism: what is refused and what is not, dependencies first, one    *)
(* start and one verdict per node, hence an implementation of WorkflowRun.  *)
(* The invariant of the draining queue is that order and queue together     *)
(* list what only depends on the order, which makes the nodes left over at  *)
(* the end a circular set.                                                  *)
(***************************************************************************)
EXTENDS WorkflowScheduler, SequenceTheorems, FiniteSetTheorems, TLAPS

\* No node is in two of the sets, and a chunk is out only in its phase.
Disjoint ==
  /\ pending \cap (completed \cup failed \cup skipped) = {}
  /\ completed \cap (failed \cup skipped) = {}
  /\ failed \cap skipped = {}
  /\ phase # "chunk" => chunk = {}

\* Every dependency precedes its dependent.
Topological(g, order) == \A i \in 1..Len(order) : \A d \in g[order[i]] : \E j \in 1..(i - 1) : order[j] = d

\* What the order and the queue are while the queue drains: together they list, once
\* each, the nodes whose dependencies are all in the order; and no set of nodes with one
\* of the order is circular.
Draining(g, queue, order) ==
  /\ Topological(g, order)
  /\ Faulty(g) = {}
  /\ queue \in Seq(Nodes) /\ IsInjective(queue)
  /\ order \in Seq(Nodes) /\ IsInjective(order)
  /\ Range(order) \cap Range(queue) = {}
  /\ Range(order) \cup Range(queue) = {n \in Nodes : g[n] \subseteq Range(order)}
  /\ \A S \in SUBSET Nodes : S \cap Range(order) # {} => \E n \in S : g[n] \cap S = {}

\* After synthesis every node is in one of the sets, and the order is topological.
Synthesized ==
  /\ plan.code = "ok" => Topological(deps, plan.order)
  /\ phase = "drain" => Draining(deps, plan.queue, plan.order)
  /\ phase \in {"pass", "chunk", "done"} => pending \cup completed \cup failed \cup skipped = Nodes

\* The inductive invariant.
IInv == TypeOK /\ Disjoint /\ Synthesized /\ RefusedIffFaulty /\ DependenciesFirst /\ Lifecycle

-----------------------------------------------------------------------------
(* Sequences without repetitions, which the queue and the order are.       *)

\* The empty list.
LEMMA NoNodes == <<>> \in Seq(Nodes) /\ IsInjective(<<>>) /\ Range(<<>>) = {}
BY EmptySeq DEF IsInjective, Range

\* The lists of a plan are its own.
LEMMA PlanTyped ==
  ASSUME NEW code, NEW queue \in Seq(Nodes), NEW order \in Seq(Nodes), plan' = Plan(code, queue, order)
  PROVE  plan'.queue \in Seq(Nodes) /\ plan'.order \in Seq(Nodes)
BY DEF Plan

\* A new member at the end.
LEMMA AppendNew ==
  ASSUME NEW s \in Seq(Nodes), IsInjective(s), NEW x \in Nodes \ Range(s)
  PROVE  /\ Append(s, x) \in Seq(Nodes) /\ IsInjective(Append(s, x))
         /\ Range(Append(s, x)) = Range(s) \cup {x}
<1> DEFINE t == Append(s, x)
<1>1. /\ t \in Seq(Nodes) /\ Len(t) = Len(s) + 1 /\ t[Len(s) + 1] = x
      /\ \A i \in 1..Len(s) : t[i] = s[i]
  BY AppendProperties
<1>2. DOMAIN s = 1..Len(s) /\ DOMAIN t = 1..Len(t) /\ Len(s) \in Nat  BY <1>1, LenProperties
<1>3. \A i \in 1..Len(s) : s[i] # x  BY <1>2 DEF Range
<1> HIDE DEF t
<1>4. IsInjective(t)  BY <1>1, <1>2, <1>3 DEF IsInjective
<1>5. Range(t) = Range(s) \cup {x}
  <2>1. Range(t) = {t[i] : i \in 1..Len(t)} /\ Range(s) = {s[i] : i \in 1..Len(s)}
    BY <1>1, RangeEquality
  <2>2. QED  BY <1>1, <1>2, <2>1
<1>6. QED  BY <1>1, <1>4, <1>5 DEF t

\* Without its head a list has the other members.
LEMMA DropHead ==
  ASSUME NEW s \in Seq(Nodes), s # <<>>, IsInjective(s)
  PROVE  /\ Head(s) \in Range(s) /\ Tail(s) \in Seq(Nodes) /\ IsInjective(Tail(s))
         /\ Range(Tail(s)) = Range(s) \ {Head(s)}
<1> DEFINE t == Tail(s)
<1>1. t \in Seq(Nodes) /\ Len(t) = Len(s) - 1 /\ \A i \in 1..Len(t) : t[i] = s[i + 1]
  BY HeadTailProperties
<1>2. DOMAIN s = 1..Len(s) /\ DOMAIN t = 1..Len(t) /\ Len(s) \in Nat /\ Len(s) # 0
  BY <1>1, LenProperties, EmptySeq
<1>3. Head(s) = s[1]  OBVIOUS
<1> HIDE DEF t
<1>4. IsInjective(t)  BY <1>1, <1>2 DEF IsInjective
<1>5. Range(t) = {t[i] : i \in 1..Len(t)} /\ Range(s) = {s[i] : i \in 1..Len(s)}
  BY <1>1, RangeEquality
<1>6. Range(t) \subseteq Range(s) \ {Head(s)}  BY <1>1, <1>2, <1>3, <1>5 DEF IsInjective
<1>7. ASSUME NEW i \in 1..Len(s), i # 1  PROVE s[i] \in Range(t)
  <2>1. i - 1 \in 1..Len(t) /\ t[i - 1] = s[i]  BY <1>1, <1>2, <1>7
  <2>2. QED  BY <1>5, <2>1
<1>8. QED  BY <1>1, <1>2, <1>3, <1>4, <1>5, <1>6, <1>7 DEF t

\* Two lists with no member in common.
LEMMA JoinDisjoint ==
  ASSUME NEW s \in Seq(Nodes), NEW t \in Seq(Nodes), IsInjective(s), IsInjective(t),
         Range(s) \cap Range(t) = {}
  PROVE  s \o t \in Seq(Nodes) /\ IsInjective(s \o t) /\ Range(s \o t) = Range(s) \cup Range(t)
<1> DEFINE u == s \o t
<1>1. /\ u \in Seq(Nodes) /\ Len(u) = Len(s) + Len(t)
      /\ \A i \in 1..Len(s) + Len(t) : u[i] = IF i <= Len(s) THEN s[i] ELSE t[i - Len(s)]
  BY ConcatProperties
<1>2. /\ DOMAIN s = 1..Len(s) /\ DOMAIN t = 1..Len(t) /\ DOMAIN u = 1..Len(u)
      /\ Len(s) \in Nat /\ Len(t) \in Nat
  BY <1>1, LenProperties
<1>3. Range(u) = Range(s) \cup Range(t)  BY RangeConcatenation
<1> HIDE DEF u
<1>4. \A i \in 1..Len(s), j \in 1..Len(t) : s[i] # t[j]  BY <1>2 DEF Range
<1>5. IsInjective(u)
  <2>1. SUFFICES ASSUME NEW i \in 1..Len(u), NEW j \in 1..Len(u), u[i] = u[j]  PROVE i = j
    BY <1>2 DEF IsInjective
  <2>2. CASE i <= Len(s) /\ j <= Len(s)
    BY <1>1, <1>2, <2>1, <2>2 DEF IsInjective
  <2>3. CASE ~(i <= Len(s)) /\ ~(j <= Len(s))
    <3>1. i - Len(s) \in 1..Len(t) /\ j - Len(s) \in 1..Len(t)  BY <1>1, <1>2, <2>3
    <3>2. t[i - Len(s)] = t[j - Len(s)]  BY <1>1, <1>2, <2>1, <2>3
    <3>3. i - Len(s) = j - Len(s)  BY <1>2, <3>1, <3>2 DEF IsInjective
    <3>4. QED  BY <1>2, <3>3
  <2>4. CASE i <= Len(s) /\ ~(j <= Len(s))
    <3>1. i \in 1..Len(s) /\ j - Len(s) \in 1..Len(t)  BY <1>1, <1>2, <2>4
    <3>2. QED  BY <1>1, <1>4, <2>1, <2>4, <3>1
  <2>5. CASE ~(i <= Len(s)) /\ j <= Len(s)
    <3>1. i - Len(s) \in 1..Len(t) /\ j \in 1..Len(s)  BY <1>1, <1>2, <2>5
    <3>2. QED  BY <1>1, <1>4, <2>1, <2>5, <3>1
  <2>6. QED  BY <2>2, <2>3, <2>4, <2>5
<1>6. QED  BY <1>1, <1>3, <1>5 DEF u

\* The nodes are finitely many, and the input lists each once.
LEMMA InputLists ==
  /\ IsFiniteSet(Nodes) /\ Cardinality(Nodes) = Len(Input)
  /\ \A m, n \in Nodes : Earlier(m, n) => m # n
<1>1. Input \in Seq(Nodes) /\ Len(Input) = Cardinality(Nodes)  BY InputAssumption
<1>2. Len(Input) \in Nat /\ DOMAIN Input = 1..Len(Input) /\ Input \in [1..Len(Input) -> Nodes]
  BY <1>1, LenProperties
<1>3. Input \in Surjection(1..Len(Input), Nodes)
  BY <1>2, InputAssumption DEF Surjection
<1>4. IsFiniteSet(1..Len(Input)) /\ Cardinality(1..Len(Input)) = Len(Input)
  BY <1>2, FS_Interval
<1>5. IsFiniteSet(Nodes)  BY <1>3, <1>4, FS_Surjection
<1>6. Input \in Injection(1..Len(Input), Nodes)
  BY <1>1, <1>3, <1>4, FS_SurjSameCardinalityImpliesInj
<1>7. \A i, j \in DOMAIN Input : i < j => Input[i] # Input[j]
  BY <1>2, <1>6 DEF Injection, IsInjective
<1>8. QED  BY <1>1, <1>5, <1>7 DEF Earlier

\* A list of a set has its members, each once.
LEMMA ListingIs ==
  ASSUME NEW S \in SUBSET Nodes, NEW s \in Listings(S)
  PROVE  s \in Seq(Nodes) /\ Range(s) = S /\ IsInjective(s)
<1> DEFINE k == Cardinality(S)
<1>1. IsFiniteSet(S) /\ k \in Nat  BY InputLists, FS_Subset, FS_CardinalityType
<1> HIDE DEF k
<1>2. s \in [1..k -> S] /\ \A i, j \in 1..k : i < j => Earlier(s[i], s[j])
  BY DEF Listings, k
<1>3. ASSUME NEW i \in 1..k, NEW j \in 1..k, s[i] = s[j]  PROVE i = j
  <2>1. ~Earlier(s[i], s[j]) /\ ~Earlier(s[j], s[i])  BY <1>2, <1>3, InputLists
  <2>2. ~(i < j) /\ ~(j < i)  BY <1>2, <2>1
  <2>3. QED  BY <1>1, <2>2
<1>4. s \in Injection(1..k, S)  BY <1>2, <1>3 DEF Injection, IsInjective
<1>5. Cardinality(1..k) = k  BY <1>1, FS_Interval
<1>6. s \in Surjection(1..k, S)  BY <1>1, <1>4, <1>5, FS_Injection DEF k
<1>7. Range(s) = S  BY <1>2, <1>6 DEF Surjection, Range
<1>8. s \in Seq(S) /\ s \in Seq(Nodes)  BY <1>1, <1>2, IsASeq
<1>9. QED  BY <1>4, <1>7, <1>8 DEF Injection

\* A list without repetitions is as long as the input only if it has every node.
LEMMA FullLength ==
  ASSUME NEW s \in Seq(Nodes), IsInjective(s)
  PROVE  Len(s) = Len(Input) <=> Range(s) = Nodes
<1>1. Len(s) \in Nat /\ DOMAIN s = 1..Len(s) /\ s \in [1..Len(s) -> Nodes]  BY LenProperties
<1>2. s \in Injection(1..Len(s), Nodes)  BY <1>1 DEF Injection
<1>3. Cardinality(1..Len(s)) = Len(s)  BY <1>1, FS_Interval
<1>4. Len(s) = Len(Input) <=> s \in Surjection(1..Len(s), Nodes)
  BY <1>2, <1>3, InputLists, FS_Injection
<1>5. s \in Surjection(1..Len(s), Nodes) <=> Range(s) = Nodes
  BY <1>1 DEF Surjection, Range
<1>6. QED  BY <1>4, <1>5

-----------------------------------------------------------------------------
(* Kahn's algorithm on a graph g, whatever ids it names.                    *)

\* A node whose dependencies are in the order may follow.
LEMMA TopologicalAppend ==
  ASSUME NEW g, NEW order \in Seq(Nodes), Topological(g, order), NEW n \in Nodes, g[n] \subseteq Range(order)
  PROVE  Topological(g, Append(order, n))
<1> DEFINE o == Append(order, n)
           k == Len(order)
<1>1. k \in Nat /\ Range(order) = {order[i] : i \in 1..k}  BY LenProperties, RangeEquality
<1>2. Len(o) = k + 1 /\ o[k + 1] = n /\ \A i \in 1..k : o[i] = order[i]  BY AppendProperties
<1>3. \A i \in 1..k : \A d \in g[order[i]] : \E j \in 1..(i - 1) : order[j] = d  BY DEF Topological
<1> HIDE DEF o, k
<1>4. SUFFICES ASSUME NEW i \in 1..(k + 1), NEW d \in g[o[i]]  PROVE \E j \in 1..(i - 1) : o[j] = d
  BY <1>2 DEF Topological, o
<1>5. CASE i = k + 1
  <2>1. d \in Range(order)  BY <1>2, <1>4, <1>5
  <2>2. PICK j \in 1..k : order[j] = d  BY <1>1, <2>1
  <2>3. QED  BY <1>1, <1>2, <1>5, <2>2
<1>6. CASE i \in 1..k
  <2>1. PICK j \in 1..(i - 1) : order[j] = d  BY <1>2, <1>3, <1>4, <1>6
  <2>2. j \in 1..k  BY <1>1, <1>6, <2>1
  <2>3. QED  BY <1>2, <2>1, <2>2
<1>7. QED  BY <1>1, <1>5, <1>6

\* The roots are the nodes that depend on nothing of the empty order.
LEMMA DrainingStarts ==
  ASSUME NEW g \in [Nodes -> SUBSET Ids], Faulty(g) = {}, NEW q \in Listings(Roots(g))
  PROVE  Draining(g, q, <<>>)
<1>1. q \in Seq(Nodes) /\ IsInjective(q) /\ Range(q) = Roots(g)  BY ListingIs DEF Roots
<1>2. <<>> \in Seq(Nodes) /\ IsInjective(<<>>) /\ Range(<<>>) = {}
  BY NoNodes
<1>3. Roots(g) = {n \in Nodes : g[n] \subseteq {}}  BY DEF Roots
<1>4. Topological(g, <<>>)  BY EmptySeq DEF Topological
<1>5. QED  BY <1>1, <1>2, <1>3, <1>4 DEF Draining

\* The head of the queue may join the order: what it depends on is there, so a set with it
\* and nothing else of the order has it as a member that depends on none of the set.
LEMMA DrainingGoesOn ==
  ASSUME NEW g \in [Nodes -> SUBSET Ids], NEW queue, NEW order, Draining(g, queue, order),
         queue # <<>>, NEW released \in Listings(Released(g, order, Head(queue)))
  PROVE  Draining(g, Tail(queue) \o released, Append(order, Head(queue)))
<1> DEFINE d == Head(queue)
           R == Released(g, order, d)
           q == Tail(queue) \o released
           o == Append(order, d)
<1>1. /\ Faulty(g) = {} /\ queue \in Seq(Nodes) /\ IsInjective(queue)
      /\ order \in Seq(Nodes) /\ IsInjective(order) /\ Range(order) \cap Range(queue) = {}
      /\ Range(order) \cup Range(queue) = {n \in Nodes : g[n] \subseteq Range(order)}
      /\ \A S \in SUBSET Nodes : S \cap Range(order) # {} => \E n \in S : g[n] \cap S = {}
  BY DEF Draining
<1>2. /\ d \in Range(queue) /\ Tail(queue) \in Seq(Nodes) /\ IsInjective(Tail(queue))
      /\ Range(Tail(queue)) = Range(queue) \ {d}
  BY <1>1, DropHead
<1>3. d \in Nodes /\ d \notin Range(order) /\ g[d] \subseteq Range(order)
  <2>1. d \notin Range(order)  BY <1>1, <1>2
  <2>2. d \in {n \in Nodes : g[n] \subseteq Range(order)}  BY <1>1, <1>2
  <2>3. QED  BY <2>1, <2>2
<1>4. o \in Seq(Nodes) /\ IsInjective(o) /\ Range(o) = Range(order) \cup {d}
  BY <1>1, <1>3, AppendNew
<1>5. R = {n \in Nodes : d \in g[n] /\ g[n] \subseteq Range(order) \cup {d}}
  BY DEF Released, Dependents
<1>6. released \in Seq(Nodes) /\ IsInjective(released) /\ Range(released) = R
  BY <1>5, ListingIs
<1> HIDE DEF d, R, o
<1>7. R \cap (Range(order) \cup Range(queue)) = {}
  <2>1. R \cap {n \in Nodes : g[n] \subseteq Range(order)} = {}  BY <1>3, <1>5
  <2>2. QED  BY <1>1, <2>1
<1>8. q \in Seq(Nodes) /\ IsInjective(q) /\ Range(q) = (Range(queue) \ {d}) \cup R
  <2>1. Range(Tail(queue)) \cap Range(released) = {}  BY <1>2, <1>6, <1>7
  <2>2. QED  BY <1>2, <1>6, <2>1, JoinDisjoint
<1> HIDE DEF q
<1>9. Range(o) \cap Range(q) = {}  BY <1>1, <1>4, <1>7, <1>8, <1>3, <1>5
<1>10. Range(o) \cup Range(q) = {n \in Nodes : g[n] \subseteq Range(o)}
  <2>1. Range(o) \cup Range(q) = {n \in Nodes : g[n] \subseteq Range(order)} \cup R
    BY <1>1, <1>2, <1>4, <1>8
  <2>2. {n \in Nodes : g[n] \subseteq Range(order) \cup {d}} = {n \in Nodes : g[n] \subseteq Range(order)} \cup R
    BY <1>5
  <2>3. QED  BY <1>4, <2>1, <2>2
<1>11. ASSUME NEW S \in SUBSET Nodes, S \cap Range(o) # {}  PROVE \E n \in S : g[n] \cap S = {}
  <2>1. CASE S \cap Range(order) # {}  BY <1>1, <2>1
  <2>2. CASE S \cap Range(order) = {}  BY <1>3, <1>4, <1>11, <2>2
  <2>3. QED  BY <2>1, <2>2
<1>12. Topological(g, o)  BY <1>1, <1>3, TopologicalAppend DEF Draining, o
<1>13. Draining(g, q, o)  BY <1>1, <1>4, <1>8, <1>9, <1>10, <1>11, <1>12 DEF Draining
<1>14. QED  BY <1>13 DEF q, o, d

\* When the queue is empty, either every node joined and no set of nodes is circular, or
\* the nodes that did not join are such a set.
LEMMA DrainingEnds ==
  ASSUME NEW g \in [Nodes -> SUBSET Ids], NEW order, Draining(g, <<>>, order)
  PROVE  /\ Len(order) = Len(Input) =>
              Range(order) = Nodes /\ \A S \in SUBSET Nodes : S # {} => \E n \in S : g[n] \cap S = {}
         /\ Len(order) # Len(Input) =>
              \E S \in SUBSET Nodes : S # {} /\ \A n \in S : g[n] \cap S # {}
<1>1. /\ order \in Seq(Nodes) /\ IsInjective(order) /\ Range(<<>>) = {}
      /\ Range(order) = {n \in Nodes : g[n] \subseteq Range(order)}
      /\ \A n \in Nodes : g[n] \subseteq Nodes
      /\ \A S \in SUBSET Nodes : S \cap Range(order) # {} => \E n \in S : g[n] \cap S = {}
  <2>1. Range(<<>>) = {}  BY NoNodes
  <2>2. \A n \in Nodes : g[n] \subseteq Nodes  BY DEF Draining, Faulty, Unknown
  <2>3. QED  BY <2>1, <2>2 DEF Draining
<1>2. Len(order) = Len(Input) <=> Range(order) = Nodes  BY <1>1, FullLength
<1>3. CASE Range(order) = Nodes  BY <1>1, <1>2, <1>3
<1>4. CASE Range(order) # Nodes
  <2> DEFINE S == Nodes \ Range(order)
  <2>1. S \in SUBSET Nodes /\ S # {}  BY <1>1, <1>4
  <2>2. ASSUME NEW n \in S  PROVE g[n] \cap S # {}
    <3>1. g[n] \subseteq Nodes /\ ~(g[n] \subseteq Range(order))  BY <1>1
    <3>2. QED  BY <3>1
  <2>3. QED  BY <1>2, <1>4, <2>1, <2>2
<1>5. QED  BY <1>3, <1>4

-----------------------------------------------------------------------------
-----------------------------------------------------------------------------
(* The inductive invariant.                                                *)

LEMMA InitInv == Init => IInv
BY WorkflowAssumption, NoNodes
DEF Init, IInv, TypeOK, Disjoint, Synthesized, RefusedIffFaulty, DependenciesFirst, Lifecycle,
    Verdicts, Phases, NoPlan, Plan

\* The sets stay typed and disjoint, the chunk part of the pending nodes.
LEMMA StepType ==
  ASSUME TypeOK, Disjoint, [Next]_vars
  PROVE  TypeOK' /\ Disjoint'
<1> USE DEF TypeOK, Disjoint, Phases, Verdicts
<1>1. CASE UNCHANGED vars  BY <1>1 DEF vars, input, sets
<1>2. CASE Synthesize
  <2>1. phase = "synthesize" /\ phase' \in {"drain", "refused"}  BY <1>2 DEF Synthesize
  <2>2. UNCHANGED <<deps, requested, sets, chunk, verdict>>  BY <1>2 DEF Synthesize
  <2>3. plan'.queue \in Seq(Nodes) /\ plan'.order \in Seq(Nodes)
    <3>1. Roots(deps) \in SUBSET Nodes  BY DEF Roots
    <3>2. plan' = Plan(FirstFault(deps), <<>>, <<>>) \/ \E q \in Listings(Roots(deps)) : plan' = Plan("none", q, <<>>)
      BY <1>2 DEF Synthesize
    <3>3. CASE plan' = Plan(FirstFault(deps), <<>>, <<>>)  BY <3>3, NoNodes, PlanTyped, Zenon
    <3>4. CASE \E q \in Listings(Roots(deps)) : plan' = Plan("none", q, <<>>)
      <4>1. PICK q \in Listings(Roots(deps)) : plan' = Plan("none", q, <<>>)  BY <3>4
      <4>2. q \in Seq(Nodes)  BY <3>1, ListingIs
      <4>3. QED  BY <4>1, <4>2, NoNodes, PlanTyped, Zenon
    <3>5. QED  BY <3>2, <3>3, <3>4
  <2>4. QED  BY <2>1, <2>2, <2>3 DEF sets
<1>9. CASE Drain
  <2>1. plan'.queue \in Seq(Nodes) /\ plan'.order \in Seq(Nodes)
    <3>1. PICK released \in Listings(Released(deps, plan.order, Head(plan.queue))) :
            plan' = Plan("none", Tail(plan.queue) \o released, Append(plan.order, Head(plan.queue)))
      BY <1>9 DEF Drain
    <3>2. Released(deps, plan.order, Head(plan.queue)) \in SUBSET Nodes  BY DEF Released, Dependents
    <3>3. released \in Seq(Nodes)  BY <3>2, ListingIs
    <3>4. Head(plan.queue) \in Nodes /\ Tail(plan.queue) \in Seq(Nodes)
      BY <1>9, HeadTailProperties DEF Drain
    <3>5. QED  BY <3>1, <3>3, <3>4, AppendProperties, ConcatProperties DEF Plan
  <2>2. UNCHANGED <<deps, requested, phase, sets, chunk, verdict>>  BY <1>9 DEF Drain
  <2>3. QED  BY <2>1, <2>2 DEF sets
<1>10. CASE EndSynthesis
  <2>1. phase = "drain" /\ phase' \in {"pass", "refused"} /\ UNCHANGED <<deps, requested, completed, failed, skipped, chunk, verdict>>
    BY <1>10 DEF EndSynthesis
  <2>2. pending' \subseteq Nodes /\ (phase' = "refused" => pending' = {})
    BY <1>10, RangeOfSeq DEF EndSynthesis
  <2>3. plan'.queue \in Seq(Nodes) /\ plan'.order \in Seq(Nodes)
    <3>1. plan' = Plan("ok", <<>>, plan.order) \/ plan' = Plan("cycle", <<>>, <<>>)
      BY <1>10 DEF EndSynthesis
    <3>2. QED  BY <3>1, NoNodes, PlanTyped, Zenon DEF TypeOK
  <2>4. QED  BY <2>1, <2>2, <2>3
<1>3. CASE \E n \in Nodes : Skip(n)
  <2>1. PICK n \in Nodes : Skip(n)  BY <1>3
  <2>2. n \in pending /\ pending' = pending \ {n} /\ skipped' = skipped \cup {n}
    BY <2>1 DEF Skip, Blocked
  <2>3. UNCHANGED <<input, phase, completed, failed, chunk, verdict>> /\ phase = "pass"
    BY <2>1 DEF Skip
  <2>4. TypeOK'  BY <2>2, <2>3 DEF input
  <2>5. Disjoint'  BY <2>2, <2>3
  <2>6. QED  BY <2>4, <2>5
<1>4. CASE \E n \in Nodes : \E v \in {"completed", "failed"} : NodeEnds(n, v)
  BY <1>4 DEF NodeEnds, input, sets
<1>5. CASE StartChunk  BY <1>5 DEF StartChunk, NextChunk, Ready, input, sets
<1>6. CASE Judge  BY <1>6 DEF Judge, Ended, input
<1>7. CASE Finish  BY <1>7 DEF Finish, input, sets
<1>8. QED  BY <1>1, <1>2, <1>3, <1>4, <1>5, <1>6, <1>7, <1>9, <1>10 DEF Next

\* A node starts when its dependencies completed, and is skipped over a failure.
LEMMA StepDependencies ==
  ASSUME TypeOK, Disjoint, DependenciesFirst, [Next]_vars
  PROVE  DependenciesFirst'
<1> USE DEF TypeOK, Disjoint, DependenciesFirst
<1>1. CASE UNCHANGED vars  BY <1>1 DEF vars, input, sets
<1>2. CASE Synthesize \/ Drain \/ EndSynthesis
  BY <1>2 DEF Synthesize, Drain, EndSynthesis, sets
<1>3. CASE \E n \in Nodes : Skip(n)  BY <1>3 DEF Skip, Blocked, input
<1>4. CASE \E n \in Nodes : \E v \in {"completed", "failed"} : NodeEnds(n, v)
  BY <1>4 DEF NodeEnds, input, sets
<1>5. CASE StartChunk  BY <1>5 DEF StartChunk, NextChunk, Ready, input, sets
<1>6. CASE Judge  BY <1>6 DEF Judge, Ended, input
<1>7. CASE Finish  BY <1>7 DEF Finish, input, sets
<1>8. QED  BY <1>1, <1>2, <1>3, <1>4, <1>5, <1>6, <1>7 DEF Next

\* Adding one element to a sequence of one.
LEMMA AppendOne ==
  ASSUME NEW S, NEW x \in S, NEW y \in S
  PROVE  Append(<<x>>, y) = <<x, y>>
<1> DEFINE s == Append(<<x>>, y)  t == <<x, y>>
<1>1. <<x>> \in Seq(S) /\ t \in Seq(S)  OBVIOUS
<1>2. Len(<<x>>) = 1 /\ <<x>>[1] = x /\ Len(t) = 2 /\ t[1] = x /\ t[2] = y  OBVIOUS
<1>3. s \in Seq(S) /\ Len(s) = 2 /\ s[1] = x /\ s[2] = y
  BY <1>1, <1>2, AppendProperties
<1> HIDE DEF s, t
<1>4. \A i \in 1..Len(s) : s[i] = t[i]  BY <1>2, <1>3
<1>5. s = t  BY <1>1, <1>2, <1>3, <1>4, SeqEqual
<1>6. QED  BY <1>5 DEF s, t

\* The short sequences of events a node may have.
LEMMA Events ==
  /\ <<>> \o <<"routed">> = <<"routed">>
  /\ <<>> \o <<"routed", "failed">> = <<"routed", "failed">>
  /\ Append(<<"routed">>, "completed") = <<"routed", "completed">>
  /\ Append(<<"routed">>, "failed") = <<"routed", "failed">>
<1> DEFINE K == {"routed", "completed", "failed"}
<1>1. "routed" \in K /\ "completed" \in K /\ "failed" \in K  OBVIOUS
<1> HIDE DEF K
<1>2. <<"routed">> \in Seq(K) /\ <<"routed", "failed">> \in Seq(K)  BY <1>1
<1>3. <<>> \o <<"routed">> = <<"routed">>  BY <1>2, ConcatEmptySeq
<1>4. <<>> \o <<"routed", "failed">> = <<"routed", "failed">>  BY <1>2, ConcatEmptySeq
<1>5. QED  BY <1>1, <1>3, <1>4, AppendOne

LEMMA StepEvents ==
  ASSUME TypeOK, Disjoint, Lifecycle, [Next]_vars
  PROVE  Lifecycle'
<1> USE DEF TypeOK, Disjoint, Lifecycle
<1>1. CASE UNCHANGED vars  BY <1>1 DEF vars, input, sets
<1>2. CASE Synthesize \/ Drain \/ EndSynthesis
  BY <1>2 DEF Synthesize, Drain, EndSynthesis, sets
<1>3. CASE \E n \in Nodes : Skip(n)
  <2>1. PICK n \in Nodes : Skip(n)  BY <1>3
  <2>2. n \in pending /\ chunk = {} /\ skipped' = skipped \cup {n} /\ UNCHANGED <<completed, failed, chunk>>
    BY <2>1 DEF Skip, Blocked
  <2>3. \A m \in Nodes : events'[m] = IF m = n THEN events[m] \o <<"routed", "failed">> ELSE events[m]
    BY <2>1 DEF Skip, Emit
  <2>4. events[n] = <<>>  BY <2>2
  <2>5. events'[n] = <<"routed", "failed">>  BY <2>3, <2>4, Events
  <2>6. QED  BY <2>2, <2>3, <2>5
<1>4. CASE \E n \in Nodes : \E v \in {"completed", "failed"} : NodeEnds(n, v)
  BY <1>4 DEF NodeEnds, input, sets
<1>5. CASE StartChunk  BY <1>5, Events DEF StartChunk, NextChunk, Ready, input, sets, Emit
<1>6. CASE Judge  BY <1>6, Events DEF Judge, Ended, input, Verdicts
<1>7. CASE Finish  BY <1>7 DEF Finish, input, sets
<1>8. QED  BY <1>1, <1>2, <1>3, <1>4, <1>5, <1>6, <1>7 DEF Next

\* Synthesis refuses what cannot run and nothing else, and no node is lost afterwards.
LEMMA StepSynthesis ==
  ASSUME TypeOK, Disjoint, Synthesized, RefusedIffFaulty, [Next]_vars
  PROVE  Synthesized' /\ RefusedIffFaulty'
<1> USE DEF Synthesized
<1> deps \in [Nodes -> SUBSET Ids]  BY DEF TypeOK
<1> Faulty(deps) = {} <=> ~\E n \in Nodes : ~(deps[n] \subseteq Nodes) \/ Cardinality(deps[n]) > MaxFanOut
  BY DEF Faulty, Unknown, Wide
<1>1. CASE UNCHANGED vars
  BY <1>1 DEF vars, input, sets, RefusedIffFaulty, Unrunnable, Circular
<1>2. CASE Synthesize
  <2>1. deps' = deps /\ phase' \in {"refused", "drain"}  BY <1>2 DEF Synthesize
  <2>2. phase' = "refused" => Unrunnable'  BY <1>2, <2>1 DEF Synthesize, Unrunnable
  <2>3. ASSUME phase' = "drain"  PROVE Draining(deps, plan'.queue, plan'.order)
    <3>1. PICK q \in Listings(Roots(deps)) : plan' = Plan("none", q, <<>>) /\ Faulty(deps) = {}
      BY <1>2, <2>3 DEF Synthesize
    <3>2. plan'.queue = q /\ plan'.order = <<>>  BY <3>1 DEF Plan
    <3>3. Draining(deps, q, <<>>)  BY <3>1, DrainingStarts
    <3>4. QED  BY <3>2, <3>3
  <2>4. plan'.code # "ok"  BY <1>2 DEF Synthesize, Plan, FirstFault
  <2>5. QED  BY <2>1, <2>2, <2>3, <2>4 DEF RefusedIffFaulty
<1>3. CASE Drain
  <2>1. deps' = deps /\ phase = "drain" /\ phase' = "drain" /\ plan.queue # <<>>  BY <1>3 DEF Drain
  <2>2. PICK released \in Listings(Released(deps, plan.order, Head(plan.queue))) :
          plan' = Plan("none", Tail(plan.queue) \o released, Append(plan.order, Head(plan.queue)))
    BY <1>3 DEF Drain
  <2>3. plan'.queue = Tail(plan.queue) \o released /\ plan'.order = Append(plan.order, Head(plan.queue))
    BY <2>2 DEF Plan
  <2>4. Draining(deps, plan.queue, plan.order)  BY <2>1
  <2>5. Draining(deps, Tail(plan.queue) \o released, Append(plan.order, Head(plan.queue)))
    BY <2>1, <2>2, <2>4, DrainingGoesOn
  <2>6. plan'.code = "none"  BY <2>2 DEF Plan
  <2>7. QED  BY <2>1, <2>3, <2>5, <2>6 DEF RefusedIffFaulty
<1>4. CASE EndSynthesis
  <2>1. deps' = deps /\ phase = "drain" /\ plan.queue = <<>> /\ phase' \in {"pass", "refused"}
    BY <1>4 DEF EndSynthesis
  <2>2. Draining(deps, <<>>, plan.order)  BY <2>1
  <2>3. /\ Len(plan.order) = Len(Input) =>
             Range(plan.order) = Nodes /\ \A S \in SUBSET Nodes : S # {} => \E n \in S : deps[n] \cap S = {}
        /\ Len(plan.order) # Len(Input) =>
             \E S \in SUBSET Nodes : S # {} /\ \A n \in S : deps[n] \cap S # {}
    BY <2>2, DrainingEnds
  <2>4. Faulty(deps) = {}  BY <2>2 DEF Draining
  <2>5. CASE Len(plan.order) = Len(Input)
    <3>1. phase' = "pass" /\ pending' = Nodes  BY <1>4, <2>3, <2>5 DEF EndSynthesis
    <3>2. ~Unrunnable  BY <2>3, <2>4, <2>5 DEF Unrunnable, Circular
    <3>3. ~Unrunnable'  BY <2>1, <3>2 DEF Unrunnable, Circular
    <3>4. completed' \subseteq Nodes /\ failed' \subseteq Nodes /\ skipped' \subseteq Nodes
      BY <1>4 DEF EndSynthesis, TypeOK
    <3>5. plan'.order = plan.order /\ Topological(deps, plan.order)
      BY <1>4, <2>2, <2>5 DEF EndSynthesis, Plan, Draining
    <3>6. QED  BY <2>1, <3>1, <3>3, <3>4, <3>5 DEF RefusedIffFaulty
  <2>6. CASE Len(plan.order) # Len(Input)
    <3>1. phase' = "refused"  BY <1>4, <2>6 DEF EndSynthesis
    <3>2. Unrunnable'  BY <2>1, <2>3, <2>6 DEF Unrunnable, Circular
    <3>3. plan'.code = "cycle"  BY <1>4, <2>6 DEF EndSynthesis, Plan
    <3>4. QED  BY <3>1, <3>2, <3>3 DEF RefusedIffFaulty
  <2>7. QED  BY <2>5, <2>6
<1>5. CASE \/ \E n \in Nodes : Skip(n)
           \/ \E n \in Nodes, v \in {"completed", "failed"} : NodeEnds(n, v)
           \/ StartChunk \/ Judge \/ Finish
  <2>1. /\ deps' = deps /\ plan' = plan
        /\ phase \in {"pass", "chunk", "done"} /\ phase' \in {"pass", "chunk", "done"}
    BY <1>5 DEF Skip, NodeEnds, StartChunk, Judge, Finish, input
  <2>2. RefusedIffFaulty'  BY <2>1 DEF RefusedIffFaulty, Unrunnable, Circular
  <2>3. (pending \cup completed \cup failed \cup skipped = Nodes)'
    <3>1. CASE Judge
      <4>1. /\ completed' = completed \cup Ended("completed") /\ failed' = failed \cup Ended("failed")
            /\ pending' = pending \ chunk /\ skipped' = skipped
        BY <3>1 DEF Judge
      <4>2. chunk = Ended("completed") \cup Ended("failed")
        BY <3>1 DEF Judge, Ended, TypeOK, Verdicts
      <4>3. chunk \subseteq Nodes /\ pending \cup completed \cup failed \cup skipped = Nodes
        BY <2>1 DEF TypeOK
      <4>4. QED  BY <4>1, <4>2, <4>3
    <3>2. CASE \E n \in Nodes : Skip(n)
      BY <2>1, <3>2 DEF Skip, Blocked
    <3>3. CASE UNCHANGED sets  BY <2>1, <3>3 DEF sets
    <3>4. QED  BY <1>5, <3>1, <3>2, <3>3 DEF NodeEnds, StartChunk, Finish
  <2>4. QED  BY <2>1, <2>2, <2>3
<1>6. QED
  <2>1. UNCHANGED vars \/ Next  OBVIOUS
  <2>2. QED  BY <1>1, <1>2, <1>3, <1>4, <1>5, <2>1 DEF Next

LEMMA StepInv == IInv /\ [Next]_vars => IInv'
BY StepType, StepSynthesis, StepDependencies, StepEvents DEF IInv

THEOREM Invariant == Spec => []IInv
<1>1. Init => IInv  BY InitInv
<1>2. IInv /\ [Next]_vars => IInv'  BY StepInv
<1>3. QED  BY <1>1, <1>2, PTL DEF Spec

\* The sets and the chunk stay well typed, and disjoint as the code keeps them.
THEOREM TypeCorrect == Spec => []TypeOK
BY Invariant, PTL DEF IInv

\* A workflow is refused if and only if it cannot run: for any graph and input order,
\* Kahn's algorithm finds every cycle and only cycles.
THEOREM RefusedOnlyIfFaulty == Spec => []RefusedIffFaulty
BY Invariant, PTL DEF IInv

\* "Every dependency precedes its dependent" in the order synthesis returns.
OrderIsTopological == plan.code = "ok" => Topological(deps, plan.order)

THEOREM DependenciesPrecede == Spec => []OrderIsTopological
<1>1. IInv => OrderIsTopological  BY DEF IInv, Synthesized, OrderIsTopological
<1>2. QED  BY <1>1, Invariant, PTL

\* The branch of the scheduler for pending nodes that are neither ready nor blocked is
\* never taken: in a graph that was not refused, one of the pending nodes waits for none.
NeverStuck == phase = "pass" /\ pending # {} => Blocked # {} \/ Ready # {}

THEOREM AlwaysProgress == Spec => []NeverStuck
<1>1. IInv => NeverStuck
  <2> SUFFICES ASSUME IInv, phase = "pass", pending # {}  PROVE Blocked # {} \/ Ready # {}
    BY DEF NeverStuck
  <2>1. /\ pending \in SUBSET Nodes /\ ~Unrunnable
        /\ pending \cup completed \cup failed \cup skipped = Nodes
    BY DEF IInv, TypeOK, RefusedIffFaulty, Synthesized
  <2>2. PICK n \in pending : deps[n] \cap pending = {}  BY <2>1 DEF Unrunnable, Circular
  <2>3. deps[n] \subseteq Nodes  BY <2>1, <2>2 DEF Unrunnable
  <2>4. deps[n] \subseteq completed \/ deps[n] \cap (failed \cup skipped) # {}  BY <2>1, <2>2, <2>3
  <2>5. QED  BY <2>2, <2>4 DEF Blocked, Ready
<1>2. QED  BY <1>1, Invariant, PTL

\* No node is started before its dependencies completed, or skipped without cause.
THEOREM DependenciesAlwaysFirst == Spec => []DependenciesFirst
BY Invariant, PTL DEF IInv

\* Every node has one routed event, and after it at most one verdict.
THEOREM OneLifecycle == Spec => []Lifecycle
BY Invariant, PTL DEF IInv

-----------------------------------------------------------------------------
(* The refinement.                                                         *)

LEMMA StatusIs ==
  ASSUME TypeOK, Disjoint, NEW n \in Nodes
  PROVE  /\ n \in completed <=> Status[n] = "completed"
         /\ n \in failed <=> Status[n] = "failed"
         /\ n \in skipped <=> Status[n] = "skipped"
         /\ n \in chunk <=> Status[n] = "running"
         /\ n \notin completed \cup failed \cup skipped \cup chunk <=> Status[n] = "waiting"
BY DEF TypeOK, Disjoint, Status

LEMMA InitRun == Init => Run!Init
BY WorkflowAssumption DEF Init, Run!Init, Status

LEMMA StepRun == IInv /\ IInv' /\ [Next]_vars => [Run!Next]_<<deps, Status>>
<1> SUFFICES ASSUME IInv, IInv', [Next]_vars PROVE [Run!Next]_<<deps, Status>>  OBVIOUS
<1> USE DEF IInv
<1>1. CASE UNCHANGED vars  BY <1>1 DEF vars, input, sets, Status
<1>2. CASE Synthesize \/ Drain \/ EndSynthesis
  BY <1>2 DEF Synthesize, Drain, EndSynthesis, sets, Status
<1>3. CASE \E n \in Nodes : Skip(n)
  <2>1. PICK n \in Nodes : Skip(n)  BY <1>3
  <2>2. n \in pending /\ chunk = {} /\ skipped' = skipped \cup {n} /\ UNCHANGED <<deps, completed, failed, chunk>>
    BY <2>1 DEF Skip, Blocked, input, TypeOK, Disjoint
  <2>3. Status[n] = "waiting"  BY <2>2, StatusIs DEF Disjoint
  <2>4. deps[n] \cap Run!In({"failed", "skipped"}) # {}
    BY <2>1, StatusIs DEF Skip, Blocked, Run!In, TypeOK
  <2>5. Status' = [Status EXCEPT ![n] = "skipped"]  BY <2>2 DEF Status, Disjoint
  <2>6. Run!Skip(n)  BY <2>2, <2>3, <2>4, <2>5 DEF Run!Skip, Run!In
  <2>7. QED  BY <2>6 DEF Run!Next
<1>4. CASE \E n \in Nodes : \E v \in {"completed", "failed"} : NodeEnds(n, v)
  BY <1>4 DEF NodeEnds, input, sets, Status
<1>5. CASE StartChunk
  <2>1. NextChunk \subseteq Ready /\ chunk = {} /\ chunk' = NextChunk /\ UNCHANGED <<deps, completed, failed, skipped>>
    BY <1>5 DEF StartChunk, NextChunk, input, sets, Disjoint
  <2>2. NextChunk \subseteq Run!In({"waiting"})
    BY <2>1, StatusIs DEF Run!In, Ready, TypeOK, Disjoint
  <2>3. \A n \in NextChunk : deps[n] \subseteq Run!In({"completed"})
    BY <2>1, StatusIs DEF Run!In, Ready, TypeOK
  <2>4. Status' = [n \in Nodes |-> IF n \in NextChunk THEN "running" ELSE Status[n]]
    BY <2>1, <2>2 DEF Status, Run!In
  <2>5. Run!Start(NextChunk)  BY <2>1, <2>2, <2>3, <2>4 DEF Run!Start
  <2>6. NextChunk \in SUBSET Nodes  BY <2>2 DEF Run!In
  <2>7. QED  BY <2>5, <2>6 DEF Run!Next
<1>6. CASE Judge
  <2> DEFINE S == Ended("completed")  F == Ended("failed")
  <2>1. S \cup F = chunk /\ S \cap F = {} /\ chunk' = {} /\ UNCHANGED <<deps, skipped>>
    BY <1>6 DEF Judge, Ended, input, TypeOK, Verdicts
  <2>2. completed' = completed \cup S /\ failed' = failed \cup F  BY <1>6 DEF Judge
  <2> HIDE DEF S, F
  <2>3. S \cup F \subseteq Run!In({"running"})  BY <2>1, StatusIs DEF Run!In, TypeOK
  <2>4. Status' = [n \in Nodes |-> IF n \in S THEN "completed" ELSE IF n \in F THEN "failed" ELSE Status[n]]
    BY <2>1, <2>2 DEF Status, TypeOK, Disjoint
  <2>5. Run!End(S, F)  BY <2>1, <2>3, <2>4 DEF Run!End
  <2>6. S \in SUBSET Nodes /\ F \in SUBSET Nodes  BY <2>3 DEF Run!In
  <2>7. QED  BY <2>5, <2>6 DEF Run!Next
<1>7. CASE Finish  BY <1>7 DEF Finish, input, sets, Status
<1>8. QED  BY <1>1, <1>2, <1>3, <1>4, <1>5, <1>6, <1>7 DEF Next

\* The scheduler implements the promise of a build, node by node.
THEOREM Refinement == Spec => ImplementsWorkflowRun
<1>1. Init => Run!Init  BY InitRun
<1>2. IInv /\ IInv' /\ [Next]_vars => [Run!Next]_<<deps, Status>>  BY StepRun
<1>3. QED  BY <1>1, <1>2, Invariant, PTL DEF Spec, Run!Spec, ImplementsWorkflowRun
=============================================================================
