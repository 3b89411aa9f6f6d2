------------------------------ MODULE TaskRunProofs ------------------------------
(***************************************************************************)
(* Proofs about TaskRun, for any set of workers, any suite and any limits:  *)
(* the state is well typed, what is accepted or completed is proven, and     *)
(* recorded work is kept as long as the listing of a chain does not fail.    *)
(***************************************************************************)
EXTENDS TaskRun, TLAPS

Delivery == {"receipt", "trace", "final", "terminal", "rollback"}
Undecided == {"start", "working", "finalizing", "judging", "combining", "squashed", "materializing", "verifying",
              "publishing", "releasing"}

-----------------------------------------------------------------------------
(* Types.                                                                   *)

\* A command that runs is one of the suite's and ends within the wall and the grace.
SuiteBounded ==
  /\ SuiteTypeOK
  /\ suite.phase = "running" =>
       suite.ran < Commands /\ suite.time <= suite.due /\ suite.due <= SuiteWall + SuiteGrace
  /\ suite.phase \in {"between", "ended"} => suite.time <= SuiteWall + SuiteGrace

LEMMA SuiteStarts ==
  ASSUME StartSuite
  PROVE  SuiteBounded'
<1>1. suite' = [phase |-> "between", time |-> 0, due |-> 0, ran |-> 0, failed |-> FALSE]  BY DEF StartSuite, NoSuite
<1>2. suite'.phase = "between" /\ suite'.time = 0 BY <1>1
<1>3. SuiteTypeOK'  BY <1>1, SuiteAssumption DEF SuiteTypeOK
<1>4. QED  BY <1>2, <1>3, SuiteAssumption DEF SuiteBounded

LEMMA SuiteGoesOn ==
  ASSUME SuiteBounded, SuiteStep
  PROVE  SuiteBounded'
<1> DEFINE Fields == /\ suite.time \in Nat /\ suite.due \in Nat /\ suite.ran \in 0..Commands /\ suite.failed \in BOOLEAN
                     /\ suite.phase \in {"idle", "between", "running", "ended", "threw"}
<1>0. Fields /\ suite = [phase |-> suite.phase, time |-> suite.time, due |-> suite.due, ran |-> suite.ran, failed |-> suite.failed]
  BY DEF SuiteBounded, SuiteTypeOK
<1>1. SUFFICES
        /\ Fields'
        /\ suite' = [phase |-> suite'.phase, time |-> suite'.time, due |-> suite'.due, ran |-> suite'.ran, failed |-> suite'.failed]
        /\ suite'.phase = "running" =>
             suite'.ran < Commands /\ suite'.time <= suite'.due /\ suite'.due <= SuiteWall + SuiteGrace
        /\ suite'.phase \in {"between", "ended"} => suite'.time <= SuiteWall + SuiteGrace
  BY DEF SuiteBounded, SuiteTypeOK
<1> USE <1>0, SuiteAssumption DEF SuiteBounded
<1>2. CASE StartCommand
  <2> DEFINE limit == Least(CommandLimit, SuiteWall - suite.time + SuiteGrace)
  <2>1. /\ suite' = [phase |-> "running", time |-> suite.time, due |-> suite.time + limit, ran |-> suite.ran, failed |-> suite.failed]
        /\ suite.ran < Commands /\ SuiteWall - suite.time > 0
    BY <1>2 DEF StartCommand, Remaining
  <2>2. limit \in Nat /\ suite.time + limit <= SuiteWall + SuiteGrace
    <3>1. limit = CommandLimit \/ limit = SuiteWall - suite.time + SuiteGrace  BY DEF Least
    <3>2. limit <= SuiteWall - suite.time + SuiteGrace  BY DEF Least
    <3>3. QED  BY <2>1, <3>1, <3>2
  <2> HIDE DEF limit
  <2>3. /\ suite'.phase = "running" /\ suite'.time = suite.time /\ suite'.due = suite.time + limit
        /\ suite'.ran = suite.ran /\ suite'.failed = suite.failed
    BY <2>1
  <2>4. QED  BY <2>1, <2>2, <2>3
<1>3. CASE CommandExits
  <2>1. PICK ok \in BOOLEAN :
          suite' = [phase |-> "between", time |-> suite.time, due |-> 0, ran |-> suite.ran + 1, failed |-> suite.failed \/ ~ok]
    BY <1>3 DEF CommandExits
  <2>2. suite.phase = "running"  BY <1>3 DEF CommandExits
  <2>3. /\ suite'.phase = "between" /\ suite'.time = suite.time /\ suite'.due = 0
        /\ suite'.ran = suite.ran + 1 /\ suite'.failed = (suite.failed \/ ~ok)
    BY <2>1
  <2>4. suite'.failed \in BOOLEAN  BY <2>3
  <2>5. QED  BY <2>1, <2>2, <2>3, <2>4
<1>4. CASE CommandTimesOut
  <2>1. /\ suite' = [phase |-> "between", time |-> suite.time, due |-> 0, ran |-> suite.ran + 1, failed |-> TRUE]
        /\ suite.phase = "running"
    BY <1>4 DEF CommandTimesOut
  <2>2. /\ suite'.phase = "between" /\ suite'.time = suite.time /\ suite'.due = 0
        /\ suite'.ran = suite.ran + 1 /\ suite'.failed = TRUE
    BY <2>1
  <2>3. QED  BY <2>1, <2>2
<1>5. CASE SuiteEnds       BY <1>5 DEF SuiteEnds
<1>6. CASE SuiteThrows     BY <1>6 DEF SuiteThrows
<1>7. CASE SuiteTick       BY <1>7 DEF SuiteTick
<1>8. QED  BY <1>2, <1>3, <1>4, <1>5, <1>6, <1>7 DEF SuiteStep

LEMMA RowTypes ==
  ASSUME NEW rows \in [Workers \cup {Agg} -> Statuses], NEW set, NEW status \in Statuses
  PROVE  /\ Mark(rows, set, status) \in [Workers \cup {Agg} -> Statuses]
         /\ MarkAgg(rows, status) \in [Workers \cup {Agg} -> Statuses]
BY DEF Mark, MarkAgg

LEMMA WorkspaceRowTypes ==
  ASSUME TypeOK, NEW set, NEW status \in {"absent", "active", "released", "orphaned"}
  PROVE  MarkWorkspaces(set, status) \in [Workers -> {"absent", "active", "released", "orphaned"}]
BY DEF MarkWorkspaces, TypeOK

\* The workspaces stay well typed under every operation of the driver.
LEMMA WorkspaceTypes ==
  ASSUME JjTypeOK, NEW w \in Workers, NEW x \in Workspace
  PROVE  /\ Snapshotted(x) \in Workspace /\ Described(x) \in Workspace /\ Committed(x) \in Workspace
         /\ [x EXCEPT !.edits = TRUE] \in Workspace
         /\ [x EXCEPT !.live = FALSE] \in Workspace /\ [x EXCEPT !.commits = FALSE] \in Workspace
         /\ [ws EXCEPT ![w] = x] \in [Workers -> Workspace]
BY DEF JjTypeOK, Workspace, Snapshotted, Described, Committed

LEMMA JjUnchanged ==
  ASSUME JjTypeOK, UNCHANGED jj
  PROVE  JjTypeOK'
BY DEF JjTypeOK, jj

LEMMA JjTypes ==
  ASSUME JjTypeOK,
         \/ \E made \in SUBSET Workers : CreateWorkspaces(made) \/ Squash(made) \/ RecoverNothing(made)
         \/ \E w \in Workers : \/ AgentWorks(w) \/ FinalizeWorkspace(w) \/ FinalizeFails(w) \/ CleanupWorkspace(w)
                              \/ PublishBookmark(w) \/ RecoverWorkspace(w)
         \/ ForgetWorkspaces
  PROVE  JjTypeOK'
<1> USE DEF JjTypeOK
<1>0. \A w \in Workers : /\ ws[w] \in Workspace /\ [NoWorkspace EXCEPT !.live = TRUE] \in Workspace
                          /\ [ws[w] EXCEPT !.at = "stub", !.commits = FALSE] \in Workspace
                          /\ [ws[w] EXCEPT !.live = FALSE] \in Workspace
  BY DEF NoWorkspace, Workspace
<1>1. ASSUME NEW made \in SUBSET Workers, CreateWorkspaces(made)
      PROVE  JjTypeOK'
  BY <1>0, <1>1 DEF CreateWorkspaces
<1>2. ASSUME NEW given \in SUBSET Workers, Squash(given)
      PROVE  JjTypeOK'
  <2>1. ws' \in [Workers -> Workspace]  BY <1>0, <1>2 DEF Squash
  <2>2. base' \subseteq Workers  BY <1>2 DEF Squash
  <2>3. QED  BY <1>2, <2>1, <2>2 DEF Squash
<1>3. CASE \E given \in SUBSET Workers : RecoverNothing(given)
  BY <1>3 DEF RecoverNothing
<1>4. ASSUME NEW w \in Workers, AgentWorks(w) \/ FinalizeWorkspace(w) \/ FinalizeFails(w) \/ CleanupWorkspace(w)
      PROVE  JjTypeOK'
  <2>1. ws[w] \in Workspace  OBVIOUS
  <2>2. /\ Snapshotted(ws[w]) \in Workspace /\ Described(Snapshotted(ws[w])) \in Workspace /\ Committed(ws[w]) \in Workspace
        /\ [ws[w] EXCEPT !.edits = TRUE] \in Workspace /\ [ws[w] EXCEPT !.live = FALSE] \in Workspace
    BY <2>1, WorkspaceTypes
  <2>3. \E x \in Workspace : ws' = [ws EXCEPT ![w] = x]
    BY <1>4, <2>1, <2>2 DEF AgentWorks, FinalizeWorkspace, FinalizeFails, CleanupWorkspace
  <2>4. ws' \in [Workers -> Workspace]  BY <2>3
  <2>5. QED  BY <1>4, <2>4 DEF AgentWorks, FinalizeWorkspace, FinalizeFails, CleanupWorkspace
<1>5. ASSUME NEW w \in Workers, PublishBookmark(w)
      PROVE  JjTypeOK'
  BY <1>5 DEF PublishBookmark
<1>6. ASSUME NEW w \in Workers, RecoverWorkspace(w)
      PROVE  JjTypeOK'
  <2>1. Described(ws[w]) \in Workspace /\ [Described(ws[w]) EXCEPT !.commits = FALSE] \in Workspace  BY WorkspaceTypes
  <2>2. Detached(ws[w]) \in Workspace  BY <1>0 DEF Workspace, Detached
  <2>3. pm \in [seen : SUBSET Workers, forget : SUBSET Workers]  OBVIOUS
  <2>4. CASE Stacks(w)
    <3>1. ws' = [ws EXCEPT ![w] = Detached(ws[w])]  BY <2>4 DEF Stacks
    <3>2. ws' \in [Workers -> Workspace]  BY <2>2, <3>1
    <3>3. QED  BY <1>6, <2>3, <2>4, <3>2 DEF Stacks, RecoverWorkspace
  <2>5. CASE StackFails(w)
    <3>1. ws' \in [Workers -> Workspace]  BY <2>1, <2>5 DEF StackFails
    <3>2. pm' = [seen |-> pm.seen \cup {w}, forget |-> pm.forget]  BY <2>3, <2>5 DEF StackFails
    <3>3. QED  BY <1>6, <2>3, <2>5, <3>1, <3>2 DEF StackFails, RecoverWorkspace
  <2>6. CASE NothingToStack(w)
    <3>1. ws' \in [Workers -> Workspace]  BY <2>1, <2>6 DEF NothingToStack
    <3>2. QED  BY <1>6, <2>3, <2>6, <3>1 DEF NothingToStack, RecoverWorkspace
  <2>7. QED  BY <1>6, <2>4, <2>5, <2>6 DEF RecoverWorkspace
<1>7. CASE ForgetWorkspaces
  BY <1>0, <1>7 DEF ForgetWorkspaces
<1>8. QED  BY <1>1, <1>2, <1>3, <1>4, <1>5, <1>6, <1>7

-----------------------------------------------------------------------------
(* The step preserves the types.                                            *)

LEMMA TypesStep ==
  ASSUME TypeOK, SuiteBounded, Next
  PROVE  TypeOK' /\ SuiteBounded'
<1> USE DEF TypeOK
<1>0. ASSUME UNCHANGED suite PROVE SuiteBounded'  BY <1>0 DEF SuiteBounded, SuiteTypeOK
<1>1. CASE Provision
  <2>1. row' \in [Workers \cup {Agg} -> Statuses]  BY <1>1, RowTypes DEF Provision, Statuses
  <2>2. wrow' \in [Workers -> {"absent", "active", "released", "orphaned"}]
    BY <1>1, WorkspaceRowTypes DEF Provision
  <2>3. JjTypeOK'  BY <1>1, JjTypes DEF Provision
  <2>4. QED  BY <1>0, <1>1, <2>1, <2>2, <2>3 DEF Provision, Labels, SuiteTypeOK
<1>2. CASE AllEnd \/ AllFinalized \/ AllPublished \/ Crash
  <2>1. JjTypeOK'  BY <1>2, JjUnchanged DEF AllEnd, AllFinalized, AllPublished, Crash
  <2>2. QED  BY <1>0, <1>2, <2>1 DEF AllEnd, AllFinalized, AllPublished, Crash, Labels, ledger, SuiteTypeOK
<1>3. CASE Judge \/ Boot
  <2>1. JjTypeOK'  BY <1>3, JjUnchanged DEF Judge, Boot
  <2>2. row' \in [Workers \cup {Agg} -> Statuses]  BY <1>3 DEF Judge, Boot, Statuses
  <2>3. QED  BY <1>0, <1>3, <2>1, <2>2 DEF Judge, Boot, Labels, SuiteTypeOK
<1>4. CASE AllReleased \/ Complete
  <2>1. JjTypeOK'  BY <1>4, JjUnchanged DEF AllReleased, Complete
  <2>2. row' \in [Workers \cup {Agg} -> Statuses]
    <3>1. Mark(row, Healthy, "completed") \in [Workers \cup {Agg} -> Statuses]  BY RowTypes DEF Statuses
    <3>2. CASE AllReleased  BY <3>2, RowTypes DEF AllReleased, Statuses
    <3>3. CASE Complete
      <4>1. /\ MarkAgg(Mark(row, Healthy, "completed"), "completed") \in [Workers \cup {Agg} -> Statuses]
            /\ MarkAgg(row, "delivery_pending") \in [Workers \cup {Agg} -> Statuses]
        BY <3>1, RowTypes DEF Statuses
      <4>2. QED  BY <3>3, <4>1 DEF Complete
    <3>4. QED  BY <1>4, <3>2, <3>3
  <2>3. QED  BY <1>0, <1>4, <2>1, <2>2 DEF AllReleased, Complete, Labels, SuiteTypeOK
<1>5. CASE Combine
  <2>1. JjTypeOK'
    <3>1. CASE Squash(Healthy)  BY <3>1, JjTypes DEF Healthy
    <3>2. CASE UNCHANGED jj  BY <3>2, JjUnchanged
    <3>3. QED  BY <1>5, <3>1, <3>2 DEF Combine
  <2>2. /\ pc' \in Labels /\ cause' \in {"none", "ladder", "conflict", "gate", "failed"}
        /\ wrow' = wrow \/ wrow' = MarkWorkspaces(team, "orphaned")
        /\ conflicts' \in BOOLEAN
        /\ UNCHANGED <<suite, kind, team, outcome, final, row, accepted, receipt, files>>
    BY <1>5, Zenon DEF Combine, Recover, Labels
  <2>3. wrow' \in [Workers -> {"absent", "active", "released", "orphaned"}]  BY <2>2, WorkspaceRowTypes
  <2>4. QED  BY <1>0, <2>1, <2>2, <2>3 DEF SuiteTypeOK
<1>6. CASE AfterSquash
  <2>1. JjTypeOK'  BY <1>6, JjUnchanged DEF AfterSquash
  <2>2. /\ pc' \in Labels /\ cause' \in {"none", "ladder", "conflict", "gate", "failed"}
        /\ wrow' = wrow \/ wrow' = MarkWorkspaces(team, "orphaned")
        /\ row' = row \/ row' = Mark(row, Healthy, "verifying")
        /\ conflicts' \in BOOLEAN
        /\ UNCHANGED <<suite, kind, team, outcome, final, accepted, receipt, files>>
    BY <1>6, Zenon DEF AfterSquash, Recover, Labels
  <2>3. wrow' \in [Workers -> {"absent", "active", "released", "orphaned"}]  BY <2>2, WorkspaceRowTypes
  <2>4. row' \in [Workers \cup {Agg} -> Statuses]  BY <2>2, RowTypes DEF Statuses
  <2>5. QED  BY <1>0, <2>1, <2>2, <2>3, <2>4 DEF SuiteTypeOK
<1>7. CASE Materialize
  <2>1. JjTypeOK'  BY <1>7, JjUnchanged DEF Materialize
  <2>2. SuiteBounded'  BY <1>0, <1>7, SuiteStarts DEF Materialize
  <2>3. wrow' \in [Workers -> {"absent", "active", "released", "orphaned"}]
    BY <1>7, WorkspaceRowTypes DEF Materialize, Recover
  <2>4. QED  BY <1>7, <2>1, <2>2, <2>3 DEF Materialize, Recover, Labels, SuiteBounded
<1>8. CASE Verify
  <2>1. JjTypeOK'  BY <1>8, JjUnchanged DEF Verify
  <2>2. SuiteBounded'  BY <1>8, SuiteGoesOn DEF Verify
  <2>3. QED  BY <1>8, <2>1, <2>2 DEF Verify, ledger, SuiteBounded
<1>9. CASE VerifyThrew \/ Decide
  <2>1. JjTypeOK'  BY <1>9, JjUnchanged DEF VerifyThrew, Decide
  <2>2. wrow' \in [Workers -> {"absent", "active", "released", "orphaned"}]
    BY <1>9, WorkspaceRowTypes DEF VerifyThrew, Decide, Recover
  <2>3. QED  BY <1>0, <1>9, <2>1, <2>2 DEF VerifyThrew, Decide, Recover, Labels, SuiteTypeOK
<1>10. CASE PostMortem
  <2>1. JjTypeOK'  BY <1>10, JjTypes DEF PostMortem
  <2>2. QED  BY <1>0, <1>10, <2>1 DEF PostMortem, ledger, SuiteTypeOK
<1>11. CASE EndRecovery
  <2>1. JjTypeOK'  BY <1>11, JjTypes DEF EndRecovery
  <2>2. /\ MarkAgg(row, "escalated") \in [Workers \cup {Agg} -> Statuses]
        /\ MarkAgg(row, "failed") \in [Workers \cup {Agg} -> Statuses]
    BY RowTypes DEF Statuses
  <2>3. row' \in [Workers \cup {Agg} -> Statuses]  BY <1>11, <2>2, RowTypes DEF EndRecovery, RowsOfFailure, Statuses
  <2>4. QED  BY <1>0, <1>11, <2>1, <2>3 DEF EndRecovery, Labels, SuiteTypeOK
<1>12. CASE Deliver
  <2>1. JjTypeOK'
    BY <1>12, JjUnchanged
    DEF Deliver, DeliverReceipt, DeliverTrace, DeliverFinalReceipt, DeliverTerminalTrace, RollBackReceipt, Delivering
  <2>2. row' \in [Workers \cup {Agg} -> Statuses]
    BY <1>12, RowTypes
    DEF Deliver, DeliverReceipt, DeliverTrace, DeliverFinalReceipt, DeliverTerminalTrace, RollBackReceipt, Statuses
  <2>3. files' \in [receipt : {"none", "failed", "ship"}, trace : {"none", "failed", "ship"}] /\ pc' \in Labels
    BY <1>12
    DEF Deliver, DeliverReceipt, DeliverTrace, DeliverFinalReceipt, DeliverTerminalTrace, RollBackReceipt, Write, WriteFails, Labels
  <2>4. /\ UNCHANGED <<suite, kind, team, outcome, final, conflicts, cause, wrow, accepted, receipt>>
    BY <1>12
    DEF Deliver, DeliverReceipt, DeliverTrace, DeliverFinalReceipt, DeliverTerminalTrace, RollBackReceipt, Delivering
  <2>5. QED  BY <1>0, <2>1, <2>2, <2>3, <2>4 DEF SuiteTypeOK
<1>13. ASSUME NEW w \in Workers, Finalize(w) \/ Publish(w) \/ Agent(w)
       PROVE  TypeOK' /\ SuiteBounded'
  <2>1. JjTypeOK'  BY <1>13, JjTypes, JjUnchanged DEF Finalize, Publish, Agent
  <2>2. QED  BY <1>0, <1>13, <2>1 DEF Finalize, Publish, Agent, Labels, ledger, SuiteTypeOK
<1>14. ASSUME NEW w \in Workers, Release(w) \/ Cleanup(w)
       PROVE  TypeOK' /\ SuiteBounded'
  <2>1. JjTypeOK'
    <3>1. CASE CleanupWorkspace(w)  BY <3>1, JjTypes
    <3>2. CASE UNCHANGED jj  BY <3>2, JjUnchanged
    <3>3. QED  BY <1>14, <3>1, <3>2 DEF Release, Cleanup
  <2>2. wrow' \in [Workers -> {"absent", "active", "released", "orphaned"}]
    BY <1>14, WorkspaceRowTypes DEF Release, Cleanup
  <2>3. QED  BY <1>0, <1>14, <2>1, <2>2 DEF Release, Cleanup, Labels, SuiteTypeOK
<1>15. ASSUME NEW w \in Workers, SessionEnds(w)
       PROVE  TypeOK' /\ SuiteBounded'
  <2>1. JjTypeOK'  BY <1>15, JjUnchanged DEF SessionEnds
  <2>2. QED  BY <1>0, <1>15, <2>1 DEF SessionEnds, ledger, SuiteTypeOK
<1>16. QED
  BY <1>1, <1>2, <1>3, <1>4, <1>5, <1>6, <1>7, <1>8, <1>9, <1>10, <1>11, <1>12, <1>13, <1>14, <1>15 DEF Next, Progress

-----------------------------------------------------------------------------
(* What the labels say.                                                     *)

\* A label tells the kind of the run; before a decision nothing is accepted and the
\* post-mortem has not begun.
LabelsTell ==
  /\ pc \in {"publishing", "releasing"} => ~TaskBase
  /\ pc \in {"finalizing", "combining", "squashed", "materializing", "verifying", "recovering", "cleaning"} => TaskBase
  /\ pc \in Delivery => kind = "standalone"
  /\ pc \in Undecided \cup {"recovering"} => ~accepted
  /\ pc \in {"cleaning"} \cup Delivery => accepted
  /\ pc \in Undecided => pm.seen = {}

LEMMA LabelsTellStep ==
  ASSUME TypeOK, LabelsTell, Next
  PROVE  LabelsTell'
<1> USE DEF LabelsTell, Delivery, Undecided, TaskBase
<1>1. CASE Provision  BY <1>1 DEF Provision, CreateWorkspaces
<1>2. CASE AllEnd \/ AllFinalized \/ AllPublished \/ Crash  BY <1>2 DEF AllEnd, AllFinalized, AllPublished, Crash, jj
<1>3. CASE Judge \/ Boot \/ AllReleased \/ Complete  BY <1>3 DEF Judge, Boot, AllReleased, Complete, jj
<1>4. CASE Combine  BY <1>4 DEF Combine, Recover, Squash, jj
<1>5. CASE AfterSquash  BY <1>5 DEF AfterSquash, Recover, jj
<1>6. CASE Materialize \/ Verify \/ VerifyThrew  BY <1>6 DEF Materialize, Verify, VerifyThrew, Recover, jj
<1>7. CASE Decide  BY <1>7 DEF Decide, Recover, jj
<1>8. CASE PostMortem \/ EndRecovery  BY <1>8 DEF PostMortem, EndRecovery
<1>9. CASE Deliver
  BY <1>9
  DEF Deliver, DeliverReceipt, DeliverTrace, DeliverFinalReceipt, DeliverTerminalTrace, RollBackReceipt, Delivering,
      Write, WriteFails, jj
<1>10. ASSUME NEW w \in Workers, Finalize(w) \/ Publish(w) \/ Agent(w)
       PROVE  LabelsTell'
  BY <1>10 DEF Finalize, Publish, Agent, FinalizeWorkspace, FinalizeFails, PublishBookmark, AgentWorks, jj
<1>11. ASSUME NEW w \in Workers, Release(w) \/ Cleanup(w) \/ SessionEnds(w)
       PROVE  LabelsTell'
  BY <1>11 DEF Release, Cleanup, SessionEnds, CleanupWorkspace, jj
<1>12. QED
  BY <1>1, <1>2, <1>3, <1>4, <1>5, <1>6, <1>7, <1>8, <1>9, <1>10, <1>11 DEF Next, Progress

-----------------------------------------------------------------------------
(* From the finalization of the workers to the acceptance of the run.       *)

\* What has been established of the workers' content by each label.
Integration ==
  /\ pc \in {"start", "working"} => \A w \in team : final[w] = "none"
  /\ pc \in {"finalizing", "judging", "combining"} => \A w \in team : final[w] = "ok" => ~ws[w].edits
  /\ pc \in {"judging", "combining"} /\ TaskBase => \A w \in team : final[w] # "none"
  /\ pc \in {"squashed", "materializing", "verifying"} => \A w \in Healthy : ~ws[w].edits /\ ~Recorded(ws[w])
  /\ pc \in {"materializing", "verifying"} => ~conflicts

LEMMA IntegrationStep ==
  ASSUME TypeOK, LabelsTell, Integration, Next
  PROVE  Integration'
<1> USE DEF Integration, TaskBase
<1>1. CASE Provision  BY <1>1 DEF Provision
<1>2. CASE AllEnd  BY <1>2 DEF AllEnd, TaskBase, jj
<1>3. CASE AllFinalized  BY <1>3 DEF AllFinalized, jj
<1>4. CASE Judge  BY <1>4, Zenon DEF Judge, jj
<1>5. CASE AllPublished \/ AllReleased \/ Crash \/ Boot \/ Complete
  BY <1>5 DEF AllPublished, AllReleased, Crash, Boot, Complete
<1>6. CASE Combine
  <2>1. SUFFICES ASSUME pc' = "squashed", NEW w \in Healthy'
                 PROVE  ~ws'[w].edits /\ ~Recorded(ws'[w])
    BY <1>6 DEF Combine, Recover
  <2>2. Squash(Healthy) /\ Healthy' = Healthy /\ pc = "combining" /\ TaskBase
    BY <1>6, <2>1 DEF Combine, Recover, Healthy, Ships, LabelsTell
  <2>3. w \in team /\ final[w] = "ok"
    BY <2>1, <2>2 DEF Healthy, Ships, TypeOK
  <2>4. ~ws[w].edits  BY <2>2, <2>3
  <2>5. w \in Workers /\ ws'[w] = [ws[w] EXCEPT !.at = "stub", !.commits = FALSE]
    BY <2>1, <2>2, <2>3 DEF Squash, TypeOK
  <2>6. QED  BY <2>4, <2>5 DEF Recorded, TypeOK, JjTypeOK, Workspace
<1>7. CASE AfterSquash
  <2>1. Healthy' = Healthy /\ ws' = ws /\ pc = "squashed"  BY <1>7 DEF AfterSquash, Healthy, Ships, jj
  <2>2. pc' \in {"materializing", "recovering"} /\ (pc' = "materializing" => ~conflicts')
    BY <1>7 DEF AfterSquash, Recover, TypeOK
  <2>3. QED  BY <2>1, <2>2
<1>8. CASE Materialize \/ Verify \/ VerifyThrew \/ Decide
  <2>1. Healthy' = Healthy /\ ws' = ws /\ conflicts' = conflicts /\ pc \in {"materializing", "verifying"}
    BY <1>8 DEF Materialize, Verify, VerifyThrew, Decide, Healthy, Ships, jj
  <2>2. pc' \in {"verifying", "cleaning", "recovering"}
    BY <1>8 DEF Materialize, Verify, VerifyThrew, Decide, Recover
  <2>3. QED  BY <2>1, <2>2
<1>9. CASE PostMortem \/ EndRecovery  BY <1>9 DEF PostMortem, EndRecovery
<1>10. CASE Deliver
  BY <1>10
  DEF Deliver, DeliverReceipt, DeliverTrace, DeliverFinalReceipt, DeliverTerminalTrace, RollBackReceipt, Write, WriteFails
<1>11. ASSUME NEW w \in Workers, Finalize(w)
       PROVE  Integration'
  <2>1. pc = "finalizing" /\ pc' = pc /\ team' = team /\ \A v \in team \ {w} : ws'[v] = ws[v] /\ final'[v] = final[v]
    BY <1>11 DEF Finalize, FinalizeWorkspace, FinalizeFails, TypeOK, JjTypeOK
  <2>2. final'[w] = "ok" => ~ws'[w].edits
    <3>1. CASE FinalizeWorkspace(w)
      <4>1. ws'[w] = Committed(ws[w])  BY <3>1 DEF FinalizeWorkspace, TypeOK, JjTypeOK
      <4>2. QED  BY <4>1 DEF Committed, TypeOK, JjTypeOK, Workspace
    <3>2. CASE final'[w] = "failed"  BY <3>2
    <3>3. QED  BY <1>11, <3>1, <3>2 DEF Finalize, TypeOK
  <2>3. QED  BY <2>1, <2>2
<1>12. ASSUME NEW w \in Workers, Agent(w) \/ SessionEnds(w) \/ Publish(w) \/ Release(w) \/ Cleanup(w)
       PROVE  Integration'
  BY <1>12 DEF Agent, SessionEnds, Publish, Release, Cleanup
<1>13. QED
  BY <1>1, <1>2, <1>3, <1>4, <1>5, <1>6, <1>7, <1>8, <1>9, <1>10, <1>11, <1>12 DEF Next, Progress

\* The first part of CompletedIsProven.
AcceptedIsProven ==
  accepted => /\ \A w \in team : Ships(w) /\ ~ws[w].edits /\ ~Recorded(ws[w])
              /\ suite.ran = Commands /\ ~suite.failed /\ suite.time <= SuiteWall + SuiteGrace
              /\ ~conflicts

\* Removing a workspace changes nothing of what it holds.
LEMMA CleanupKeeps ==
  ASSUME JjTypeOK, NEW w \in Workers, CleanupWorkspace(w), NEW v \in Workers
  PROVE  /\ ws'[v].edits = ws[v].edits /\ Recorded(ws'[v]) = Recorded(ws[v])
         /\ v # w => ws'[v] = ws[v]
<1>1. ws \in [Workers -> Workspace] /\ ws' = [ws EXCEPT ![w] = [ws[w] EXCEPT !.live = FALSE]]
  BY DEF JjTypeOK, CleanupWorkspace
<1>2. v # w => ws'[v] = ws[v]  BY <1>1
<1>3. ASSUME v = w
      PROVE  ws'[v].edits = ws[v].edits /\ ws'[v].at = ws[v].at /\ ws'[v].commits = ws[v].commits
  <2>1. ws'[v] = [ws[v] EXCEPT !.live = FALSE] /\ ws[v] \in Workspace  BY <1>1, <1>3
  <2>2. QED  BY <2>1 DEF Workspace
<1>4. QED  BY <1>2, <1>3 DEF Recorded

LEMMA AcceptedStep ==
  ASSUME TypeOK, LabelsTell, Integration, SuiteBounded, AcceptedIsProven, Next
  PROVE  AcceptedIsProven'
<1>1. CASE Decide
  <2>1. SUFFICES ASSUME accepted' = TRUE
                 PROVE  AcceptedIsProven'
    BY DEF AcceptedIsProven
  <2>2. pc = "verifying" /\ ~accepted /\ accepted'  BY <1>1, <2>1 DEF Decide, LabelsTell, Undecided
  <2>3. ~anyFailed /\ passed /\ UNCHANGED <<jj, suite, team, kind, outcome, final, conflicts>>  BY <1>1, <2>2 DEF Decide
  <2>4. \A w \in team : Ships(w) /\ ~ws[w].edits /\ ~Recorded(ws[w])
    BY <2>2, <2>3 DEF anyFailed, Healthy, Integration
  <2>5. suite.ran = Commands /\ ~suite.failed /\ suite.time <= SuiteWall + SuiteGrace /\ ~conflicts
    BY <2>2, <2>3 DEF passed, SuiteBounded, Integration
  <2>6. QED  BY <2>3, <2>4, <2>5 DEF AcceptedIsProven, Ships, jj
<1>2. CASE ~accepted'  BY <1>2 DEF AcceptedIsProven
<1>3. ASSUME UNCHANGED <<ws, suite, kind, team, outcome, final, conflicts, accepted>>
      PROVE  AcceptedIsProven'
  BY <1>3 DEF AcceptedIsProven, Ships
<1>4. ASSUME pc \in Undecided \cup {"recovering"}, UNCHANGED accepted
      PROVE  AcceptedIsProven'
  BY <1>4 DEF AcceptedIsProven, LabelsTell
<1>5. CASE \/ Provision \/ AllEnd \/ AllFinalized \/ Judge \/ AllPublished \/ AllReleased \/ Combine \/ AfterSquash
           \/ Materialize \/ Verify \/ VerifyThrew \/ PostMortem \/ EndRecovery
  BY <1>4, <1>5
  DEF Provision, AllEnd, AllFinalized, Judge, AllPublished, AllReleased, Combine, AfterSquash, Materialize, Verify,
      VerifyThrew, PostMortem, EndRecovery, Undecided
<1>6. CASE Complete \/ Crash \/ Boot \/ Deliver
  BY <1>3, <1>6
  DEF Complete, Crash, Boot, Deliver, DeliverReceipt, DeliverTrace, DeliverFinalReceipt, DeliverTerminalTrace,
      RollBackReceipt, Delivering, jj
<1>7. ASSUME NEW w \in Workers, Finalize(w) \/ Publish(w) \/ Agent(w) \/ Release(w) \/ SessionEnds(w)
      PROVE  AcceptedIsProven'
  BY <1>4, <1>7 DEF Finalize, Publish, Agent, Release, SessionEnds, Undecided
<1>8. ASSUME NEW w \in Workers, Cleanup(w)
      PROVE  AcceptedIsProven'
  <2>1. UNCHANGED <<suite, kind, team, outcome, final, conflicts, accepted>>  BY <1>8 DEF Cleanup
  <2>2. \A v \in Workers : ws'[v].edits = ws[v].edits /\ Recorded(ws'[v]) = Recorded(ws[v])
    BY <1>8, CleanupKeeps DEF Cleanup, jj, TypeOK
  <2>3. QED  BY <2>1, <2>2 DEF AcceptedIsProven, Ships, TypeOK
<1>9. QED  BY <1>1, <1>5, <1>6, <1>7, <1>8 DEF Next, Progress

\* The other parts of CompletedIsProven, and what delivery has reached at each label.
CompletedIsDelivered ==
  /\ TaskBase /\ row[Agg] \in {"delivery_pending", "completed"} => accepted
  /\ kind = "standalone" /\ row[Agg] = "completed" => files = [receipt |-> "ship", trace |-> "ship"]
  /\ pc \in Delivery => row[Agg] = "delivery_pending"
  /\ pc = "terminal" => files.receipt = "ship"

LEMMA CompletedStep ==
  ASSUME TypeOK, LabelsTell, CompletedIsDelivered, Next
  PROVE  CompletedIsDelivered'
<1>0. Agg \notin Workers /\ Agg \in DOMAIN row /\ \A w \in team : w # Agg  BY RowAssumption DEF TypeOK
<1>1. ASSUME UNCHANGED <<kind, accepted, files>>, pc' \notin Delivery,
             row'[Agg] = row[Agg] \/ row'[Agg] \notin {"delivery_pending", "completed"}
      PROVE  CompletedIsDelivered'
  BY <1>1 DEF CompletedIsDelivered, TaskBase, Delivery
<1>2. CASE Provision
  BY <1>0, <1>1, <1>2 DEF Provision, Delivery, Mark, MarkAgg, TypeOK
<1>3. CASE AllEnd \/ AllFinalized \/ AllPublished \/ Crash \/ Verify \/ PostMortem
  BY <1>1, <1>3 DEF AllEnd, AllFinalized, AllPublished, Crash, Verify, PostMortem, Delivery, ledger
<1>4. CASE Combine \/ Materialize \/ VerifyThrew
  BY <1>1, <1>4 DEF Combine, Materialize, VerifyThrew, Recover, Delivery
<1>5. CASE Judge
  <2>1. row'[Agg] = row[Agg] \/ row'[Agg] = "failed"  BY <1>0, <1>5 DEF Judge, Healthy
  <2>2. QED  BY <1>1, <1>5, <2>1 DEF Judge, Delivery
<1>6. CASE Boot
  <2>1. row'[Agg] = row[Agg] \/ row'[Agg] = "queued"  BY <1>0, <1>6 DEF Boot
  <2>2. QED  BY <1>1, <1>6, <2>1 DEF Boot, Delivery
<1>7. CASE AfterSquash
  <2>1. row'[Agg] = row[Agg] \/ row'[Agg] = "verifying"  BY <1>0, <1>7 DEF AfterSquash, Mark
  <2>2. QED  BY <1>1, <1>7, <2>1 DEF AfterSquash, Recover, Delivery
<1>8. CASE Decide
  BY <1>8 DEF Decide, Recover, CompletedIsDelivered, LabelsTell, TaskBase, Delivery, Undecided
<1>9. CASE AllReleased
  BY <1>9 DEF AllReleased, CompletedIsDelivered, LabelsTell, TaskBase, Delivery
<1>10. CASE Complete
  <2>1. accepted  BY <1>10 DEF Complete, LabelsTell
  <2>2. CASE kind = "standalone"
    <3>1. row'[Agg] = "delivery_pending"  BY <1>0, <1>10, <2>2 DEF Complete, MarkAgg, TypeOK
    <3>2. QED  BY <1>10, <2>1, <2>2, <3>1 DEF Complete, CompletedIsDelivered, Delivery
  <2>3. CASE kind # "standalone"  BY <1>10, <2>1, <2>3 DEF Complete, CompletedIsDelivered, Delivery
  <2>4. QED  BY <2>2, <2>3
<1>11. CASE EndRecovery
  <2>1. row'[Agg] \in {"failed", "escalated"}
    BY <1>0, <1>11 DEF EndRecovery, RowsOfFailure, Mark, MarkAgg, TypeOK
  <2>2. QED  BY <1>1, <1>11, <2>1 DEF EndRecovery, Delivery
<1>12. CASE Deliver
  <2>1. pc \in Delivery /\ accepted /\ accepted' /\ kind = "standalone" /\ kind' = kind /\ row[Agg] = "delivery_pending"
    BY <1>12
    DEF Deliver, DeliverReceipt, DeliverTrace, DeliverFinalReceipt, DeliverTerminalTrace, RollBackReceipt, Delivering,
        Delivery, LabelsTell, CompletedIsDelivered
  <2>2. CASE DeliverTerminalTrace
    <3>1. files.receipt = "ship"  BY <2>2 DEF DeliverTerminalTrace, CompletedIsDelivered
    <3>2. CASE row' = MarkAgg(row, "completed")
      <4>1. (files' = [files EXCEPT !["trace"] = "ship"] /\ pc' = "returned") \/ row'[Agg] = row[Agg]
        BY <2>2, <3>2 DEF DeliverTerminalTrace, Write
      <4>2. QED
        BY <2>1, <2>2, <3>1, <3>2, <4>1
        DEF DeliverTerminalTrace, Write, WriteFails, CompletedIsDelivered, Delivery, TypeOK
    <3>3. CASE row' = row /\ pc' = "rollback"
      BY <2>1, <3>3 DEF CompletedIsDelivered, Delivery
    <3>4. QED  BY <2>2, <3>2, <3>3 DEF DeliverTerminalTrace, WriteFails
  <2>3. CASE DeliverReceipt \/ DeliverTrace \/ DeliverFinalReceipt \/ RollBackReceipt
    BY <2>1, <2>3
    DEF DeliverReceipt, DeliverTrace, DeliverFinalReceipt, RollBackReceipt, Write, WriteFails, CompletedIsDelivered,
        Delivery, TypeOK
  <2>4. QED  BY <1>12, <2>2, <2>3 DEF Deliver
<1>13. ASSUME NEW w \in Workers, Finalize(w) \/ Publish(w) \/ Agent(w) \/ Release(w) \/ SessionEnds(w) \/ Cleanup(w)
       PROVE  CompletedIsDelivered'
  BY <1>1, <1>13 DEF Finalize, Publish, Agent, Release, SessionEnds, Cleanup, Delivery, ledger
<1>14. QED
  BY <1>2, <1>3, <1>4, <1>5, <1>6, <1>7, <1>8, <1>9, <1>10, <1>11, <1>12, <1>13 DEF Next, Progress

-----------------------------------------------------------------------------
(* What jj has recorded is kept.                                            *)

\* Until it decides, a run's workspaces are live; what the post-mortem is to forget holds
\* nothing recorded.
Kept ==
  /\ pc \in {"working", "finalizing"} => \A w \in team : ws[w].live
  /\ pm.forget \subseteq pm.seen
  /\ \A w \in pm.forget : ~Recorded(ws[w])
  /\ WorkIsKept

LEMMA KeptInRecovery ==
  ASSUME TypeOK, Kept, "listing" \notin Faults, NEW w \in Workers, RecoverWorkspace(w), team' = team, kind' = kind,
         pc = "recovering", pc' = pc
  PROVE  Kept'
<1> USE DEF TypeOK, JjTypeOK
<1>1. ws[w] \in Workspace /\ w \notin pm.seen  BY DEF RecoverWorkspace
<1>2. /\ Recorded(Described(ws[w])) = Recorded(ws[w]) /\ Described(ws[w]).live = ws[w].live
      /\ ~Recorded(Detached(ws[w])) /\ Detached(ws[w]).live = ws[w].live
      /\ [Described(ws[w]) EXCEPT !.commits = FALSE].live = ws[w].live
  BY <1>1 DEF Recorded, Described, Detached, Workspace
<1>3. PICK x : ws' = [ws EXCEPT ![w] = x] /\ x \in {Described(ws[w]), Detached(ws[w]), [Described(ws[w]) EXCEPT !.commits = FALSE]}
  BY DEF RecoverWorkspace, Stacks, StackFails, NothingToStack
<1>4. /\ ws'[w] = x /\ \A v \in Workers \ {w} : ws'[v] = ws[v]
      /\ pm'.seen = pm.seen \cup {w}
      /\ pm'.forget = pm.forget \/ (pm'.forget = pm.forget \cup {w} /\ ~Recorded(x))
  <2>1. CASE Stacks(w)
    <3>1. ws'[w] = Detached(ws[w])  BY <2>1 DEF Stacks
    <3>2. QED  BY <1>2, <1>3, <2>1, <3>1 DEF Stacks
  <2>2. CASE StackFails(w)
    <3>1. pm'.forget = pm.forget /\ pm'.seen = pm.seen \cup {w}  BY <2>2 DEF StackFails
    <3>2. ws'[w] = x /\ \A v \in Workers \ {w} : ws'[v] = ws[v]  BY <1>3
    <3>3. QED  BY <3>1, <3>2
  <2>3. CASE NothingToStack(w)
    <3>1. ws'[w] = Described(ws[w])  BY <2>3 DEF NothingToStack
    <3>2. QED  BY <1>2, <1>3, <2>3, <3>1 DEF NothingToStack
  <2>4. QED  BY <2>1, <2>2, <2>3 DEF RecoverWorkspace
<1>5. pm'.forget \subseteq pm'.seen  BY <1>4 DEF Kept
<1>6. ASSUME NEW v \in pm'.forget PROVE ~Recorded(ws'[v])
  <2>1. pm.forget \subseteq Workers  OBVIOUS
  <2>2. CASE v = w  BY <1>1, <1>4, <1>6, <2>2 DEF Kept
  <2>3. CASE v # w  BY <1>4, <1>6, <2>1, <2>3 DEF Kept
  <2>4. QED  BY <2>2, <2>3
<1>7. WorkIsKept'
  <2>1. SUFFICES ASSUME TaskBase', NEW v \in Workers, Recorded(ws'[v])
                 PROVE  ws'[v].live
    BY DEF WorkIsKept
  <2>2. TaskBase /\ (Recorded(ws[v]) => ws[v].live)  BY <2>1 DEF TaskBase, Kept, WorkIsKept
  <2>3. CASE v # w  BY <1>4, <2>1, <2>2, <2>3
  <2>4. CASE v = w
    <3>1. ws'[v].live = ws[v].live  BY <1>2, <1>3, <1>4, <2>4
    <3>2. Recorded(ws[v])
      <4>1. CASE StackFails(w) \/ Stacks(w)  BY <2>4, <4>1 DEF StackFails, Stacks
      <4>2. CASE NothingToStack(w)
        <5>1. ws'[v] = Described(ws[v])  BY <2>4, <4>2 DEF NothingToStack
        <5>2. QED  BY <1>2, <2>1, <2>4, <5>1
      <4>3. QED  BY <4>1, <4>2 DEF RecoverWorkspace
    <3>3. QED  BY <2>2, <3>1, <3>2
  <2>5. QED  BY <2>3, <2>4
<1>8. QED  BY <1>5, <1>6, <1>7 DEF Kept

LEMMA KeptStep ==
  ASSUME TypeOK, LabelsTell, AcceptedIsProven, Kept, "listing" \notin Faults, Next
  PROVE  Kept'
<1> USE DEF TypeOK, JjTypeOK
<1>1. ASSUME UNCHANGED <<jj, kind, team>>, pc' \notin {"working", "finalizing"} \/ pc \in {"working", "finalizing"}
      PROVE  Kept'
  BY <1>1 DEF Kept, WorkIsKept, TaskBase, jj
<1>2. CASE \/ AllEnd \/ AllFinalized \/ Judge \/ AllPublished \/ AllReleased \/ Crash \/ Boot \/ Complete \/ AfterSquash
           \/ Materialize \/ Verify \/ VerifyThrew \/ Decide
  BY <1>1, <1>2
  DEF AllEnd, AllFinalized, Judge, AllPublished, AllReleased, Crash, Boot, Complete, AfterSquash, Materialize, Verify,
      VerifyThrew, Decide, Recover
<1>3. CASE Deliver
  BY <1>1, <1>3
  DEF Deliver, DeliverReceipt, DeliverTrace, DeliverFinalReceipt, DeliverTerminalTrace, RollBackReceipt, Delivering,
      Write, WriteFails
<1>4. ASSUME NEW made \in SUBSET team, CreateWorkspaces(made), Provision, pc' = "working" => made = team
      PROVE  Kept'
  <2>1. /\ pc' \in {"working", "thrown"} /\ pm' = pm /\ pm.seen = {} /\ UNCHANGED <<team, kind>>
        /\ ws' = [w \in Workers |-> IF w \in made THEN [NoWorkspace EXCEPT !.live = TRUE] ELSE ws[w]]
    BY <1>4 DEF Provision, CreateWorkspaces, LabelsTell, Undecided
  <2>2. \A w \in Workers : w \in made => ws'[w].live /\ ~Recorded(ws'[w])  BY <2>1 DEF NoWorkspace, Recorded
  <2>3. \A w \in Workers : w \notin made => ws'[w] = ws[w]  BY <2>1
  <2>4. QED  BY <1>4, <2>1, <2>2, <2>3 DEF Kept, WorkIsKept, TaskBase
<1>5. ASSUME NEW w \in Workers, Agent(w) \/ Finalize(w)
      PROVE  Kept'
  <2>1. /\ pc \in {"working", "finalizing"} /\ pc' = pc /\ w \in team /\ pm' = pm /\ UNCHANGED <<team, kind>>
    BY <1>5 DEF Agent, Finalize, AgentWorks, FinalizeWorkspace, FinalizeFails
  <2>2. pm.forget = {}  BY <2>1 DEF LabelsTell, Undecided, Kept
  <2>3. ws[w].live /\ ws[w] \in Workspace  BY <2>1 DEF Kept
  <2>4. /\ Snapshotted(ws[w]).live /\ Described(Snapshotted(ws[w])).live /\ Committed(ws[w]).live
        /\ [ws[w] EXCEPT !.edits = TRUE].live
    BY <2>3 DEF Workspace, Snapshotted, Described, Committed
  <2>5. \/ AgentWorks(w)
        \/ ws' = [ws EXCEPT ![w] = Committed(ws[w])]
        \/ FinalizeFails(w)
    BY <1>5 DEF Agent, Finalize, FinalizeWorkspace
  <2>6. \E x \in {ws[w], [ws[w] EXCEPT !.edits = TRUE], Snapshotted(ws[w]), Described(Snapshotted(ws[w])), Committed(ws[w])} :
          ws' = [ws EXCEPT ![w] = x]
    BY <2>5 DEF AgentWorks, FinalizeFails
  <2>7. PICK x \in {ws[w], [ws[w] EXCEPT !.edits = TRUE], Snapshotted(ws[w]), Described(Snapshotted(ws[w])), Committed(ws[w])} :
          ws' = [ws EXCEPT ![w] = x]
    BY <2>6
  <2>8. ws'[w].live /\ \A v \in Workers \ {w} : ws'[v] = ws[v]
    <3>1. x.live  BY <2>3, <2>4, <2>7
    <3>2. ws'[w] = x /\ \A v \in Workers \ {w} : ws'[v] = ws[v]  BY <2>7
    <3>3. QED  BY <3>1, <3>2
  <2>9. QED  BY <2>1, <2>2, <2>8 DEF Kept, WorkIsKept, TaskBase
<1>6. CASE Combine
  <2>1. CASE UNCHANGED jj
    <3>1. pc' \notin {"working", "finalizing"} /\ UNCHANGED <<kind, team>>  BY <1>6 DEF Combine, Recover
    <3>2. QED  BY <1>1, <2>1, <3>1
  <2>2. CASE Squash(Healthy)
    <3>1. /\ pc = "combining" /\ pc' \notin {"working", "finalizing"} /\ UNCHANGED <<team, kind>> /\ pm' = pm
          /\ ws' = [w \in Workers |-> IF w \in Healthy THEN [ws[w] EXCEPT !.at = "stub", !.commits = FALSE] ELSE ws[w]]
      BY <1>6, <2>2 DEF Combine, Squash, Recover
    <3>2. pm.forget = {}  BY <3>1 DEF LabelsTell, Undecided, Kept
    <3>3. ASSUME NEW w \in Workers
          PROVE  ws'[w].live = ws[w].live /\ (Recorded(ws'[w]) => Recorded(ws[w]))
      <4>1. ws[w] \in Workspace  OBVIOUS
      <4>2. CASE w \in Healthy
        <5>1. ws'[w] = [ws[w] EXCEPT !.at = "stub", !.commits = FALSE]  BY <3>1, <4>2
        <5>2. ws'[w].live = ws[w].live /\ ws'[w].at = "stub" /\ ws'[w].commits = FALSE  BY <4>1, <5>1 DEF Workspace
        <5>3. QED  BY <5>2 DEF Recorded
      <4>3. CASE w \notin Healthy
        <5>1. ws'[w] = ws[w]  BY <3>1, <4>3
        <5>2. QED  BY <5>1
      <4>4. QED  BY <4>2, <4>3
    <3>4. QED  BY <3>1, <3>2, <3>3 DEF Kept, WorkIsKept, TaskBase
  <2>3. QED  BY <1>6, <2>1, <2>2 DEF Combine
<1>7. ASSUME NEW w \in Workers, Cleanup(w) \/ Release(w)
      PROVE  Kept'
  <2>0. pc' \in {"cleaning", "releasing", "thrown"} /\ UNCHANGED <<team, kind>>  BY <1>7 DEF Cleanup, Release
  <2>1. CASE UNCHANGED jj  BY <1>1, <2>0, <2>1
  <2>2. CASE CleanupWorkspace(w)
    <3>1. /\ pc \in {"cleaning", "releasing"} /\ pc' \in {"cleaning", "releasing", "thrown"}
          /\ pm' = pm /\ w \in team /\ UNCHANGED <<team, kind>>
      BY <1>7, <2>2 DEF Cleanup, Release, CleanupWorkspace
    <3>2. \A v \in Workers : Recorded(ws'[v]) = Recorded(ws[v]) /\ (v # w => ws'[v] = ws[v])
      BY <2>2, CleanupKeeps
    <3>3. TaskBase => ~Recorded(ws[w])  BY <3>1 DEF LabelsTell, AcceptedIsProven, TaskBase
    <3>4. WorkIsKept'  BY <3>1, <3>2, <3>3 DEF WorkIsKept, Kept, TaskBase
    <3>5. \A v \in pm.forget : ~Recorded(ws'[v])  BY <3>2 DEF Kept
    <3>6. QED  BY <3>1, <3>4, <3>5 DEF Kept
  <2>3. QED  BY <1>7, <2>1, <2>2 DEF Cleanup, Release
<1>8. ASSUME NEW w \in Workers, Publish(w) \/ SessionEnds(w)
      PROVE  Kept'
  BY <1>8 DEF Publish, PublishBookmark, SessionEnds, Kept, WorkIsKept, TaskBase, jj
<1>9. CASE PostMortem
  <2>1. pc = "recovering" /\ UNCHANGED <<pc, team, kind>>  BY <1>9 DEF PostMortem
  <2>2. CASE RecoverNothing(team)
    <3>1. pm'.forget = pm.forget /\ pm'.seen = team /\ pm.seen = {} /\ ws' = ws  BY <2>2 DEF RecoverNothing
    <3>2. QED  BY <2>1, <3>1 DEF Kept, WorkIsKept, TaskBase
  <2>3. QED  BY <1>9, <2>1, <2>2, KeptInRecovery DEF PostMortem
<1>10. CASE EndRecovery
  <2>1. pc' = "returned" /\ UNCHANGED <<team, kind, pm>>  BY <1>10 DEF EndRecovery, ForgetWorkspaces
  <2>2. PICK gone \in SUBSET pm.forget :
          ws' = [w \in Workers |-> IF w \in gone THEN [ws[w] EXCEPT !.live = FALSE] ELSE ws[w]]
    BY <1>10 DEF EndRecovery, ForgetWorkspaces
  <2>3. \A w \in Workers : Recorded(ws'[w]) = Recorded(ws[w])  BY <2>2 DEF Recorded, Workspace
  <2>4. \A w \in Workers : w \notin gone => ws'[w] = ws[w]  BY <2>2
  <2>5. QED  BY <2>1, <2>2, <2>3, <2>4 DEF Kept, WorkIsKept, TaskBase
<1>11. CASE Provision
  BY <1>4, <1>11 DEF Provision
<1>12. QED
  BY <1>2, <1>3, <1>5, <1>6, <1>7, <1>8, <1>9, <1>10, <1>11 DEF Next, Progress

-----------------------------------------------------------------------------
(* The theorems.                                                            *)

Proven == TypeOK /\ SuiteBounded /\ LabelsTell /\ Integration /\ AcceptedIsProven /\ CompletedIsDelivered

LEMMA ProvenInit ==
  ASSUME Init
  PROVE  Proven /\ Kept
<1> USE RowAssumption, SuiteAssumption DEF Init, JjInit, NoSuite, NoWorkspace
<1>1. TypeOK
  <2>1. JjTypeOK  BY DEF JjTypeOK, Workspace
  <2>2. SuiteTypeOK  BY DEF SuiteTypeOK
  <2>3. QED  BY <2>1, <2>2 DEF TypeOK, Kinds, Labels, Statuses
<1>2. SuiteBounded
  <2>1. suite.phase = "idle"  OBVIOUS
  <2>2. SuiteTypeOK  BY <1>1 DEF TypeOK
  <2>3. QED  BY <2>1, <2>2 DEF SuiteBounded
<1>3. LabelsTell /\ Integration /\ AcceptedIsProven /\ CompletedIsDelivered
  BY DEF LabelsTell, Integration, AcceptedIsProven, CompletedIsDelivered, Delivery, Undecided, TaskBase
<1>4. Kept  BY DEF Kept, WorkIsKept, Recorded
<1>5. QED  BY <1>1, <1>2, <1>3, <1>4 DEF Proven

LEMMA ProvenStep ==
  ASSUME Proven, [Next]_vars
  PROVE  Proven'
<1>1. CASE Next
  BY <1>1, TypesStep, LabelsTellStep, IntegrationStep, AcceptedStep, CompletedStep DEF Proven
<1>2. CASE UNCHANGED vars
  BY <1>2
  DEF Proven, TypeOK, SuiteBounded, LabelsTell, Integration, AcceptedIsProven, CompletedIsDelivered, vars, jj, ledger,
      JjTypeOK, SuiteTypeOK, Healthy, Ships, TaskBase
<1>3. QED  BY <1>1, <1>2

\* The rows, the workspaces, the suite and the artifacts of a run are what their types say.
THEOREM TypeCorrect == Spec => []TypeOK
<1>1. Init => Proven  BY ProvenInit
<1>2. Proven /\ [Next]_vars => Proven'  BY ProvenStep
<1>3. Proven => TypeOK  BY DEF Proven
<1>4. QED  BY <1>1, <1>2, <1>3, PTL DEF Spec

\* Whatever the suite, its limits, the faults and the workers, what is accepted is whole and
\* verified and what is completed is accepted and delivered (parallel.ts 1374-1430, cli.ts 896).
THEOREM CompletedAlwaysProven == Spec => []CompletedIsProven
<1>1. Init => Proven  BY ProvenInit
<1>2. Proven /\ [Next]_vars => Proven'  BY ProvenStep
<1>3. Proven => CompletedIsProven  BY DEF Proven, AcceptedIsProven, CompletedIsDelivered, CompletedIsProven
<1>4. QED  BY <1>1, <1>2, <1>3, PTL DEF Spec

\* As long as the listing of a chain does not fail, no call that fails and no loss of the
\* process makes jj lose what it has recorded of a worker (failure-hygiene.ts 301-331).
THEOREM RecordedWorkIsKept ==
  ASSUME "listing" \notin Faults
  PROVE  Spec => []WorkIsKept
<1> DEFINE IInv == Proven /\ Kept
<1>1. Init => IInv  BY ProvenInit
<1>2. IInv /\ [Next]_vars => IInv'
  <2>1. ASSUME IInv, Next PROVE Kept'
    <3>1. TypeOK /\ LabelsTell /\ AcceptedIsProven /\ Kept  BY <2>1 DEF Proven
    <3>2. QED  BY <2>1, <3>1, KeptStep
  <2>2. ASSUME IInv, UNCHANGED vars PROVE Kept'
    BY <2>2 DEF Kept, WorkIsKept, TaskBase, vars, jj
  <2>3. QED  BY <2>1, <2>2, ProvenStep
<1>3. IInv => WorkIsKept  BY DEF Kept
<1>4. QED
  <2> HIDE DEF IInv
  <2>1. QED  BY <1>1, <1>2, <1>3, PTL DEF Spec

=============================================================================
