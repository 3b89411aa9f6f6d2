-------------------------- MODULE ChildLedgerProofs --------------------------
(***************************************************************************)
(* What the ledger guarantees whatever its callers do, for any number of   *)
(* runs, workspace revisions and retries.  The inductive invariant IInv is *)
(* TypeOK, the three safety invariants of ChildLedger, and the two facts   *)
(* about rows that their preservation needs.                               *)
(***************************************************************************)
EXTENDS ChildLedger, TLAPS

TaskRow == [base : TaskBase, over : Extended \cup {"none"}, retries : 0..MaxRetries]
ContRow == [base : ContBase, over : ContOver, rev : Revisions \cup {0}]

\* Every status a caller or a method of the ledger writes to a task.
TaskStatuses == Extended \cup (TaskBase \ {"absent"})

\* An edge without a row has no override row, and a preparing edge is ready below.
EdgeShape ==
  /\ edge.base = "absent" => edge.over = "none"
  /\ edge.over = "preparing" => edge.base = "ready"

\* An outbox has a terminal status exactly when it is installed, and nothing is
\* acknowledged before it is linked.
OutboxShape ==
  /\ outbox.state # "none" <=> outbox.status \in Terminal
  /\ outbox.state # "linked" => outbox.acks = {}

Safe ==
  /\ OutboxShape
  /\ EdgeShape
  /\ OverlayNeverHidesOutcome
  /\ LinkedFixesOutcome
  /\ DeliveredMeansTerminal

IInv == TypeOK /\ Safe

\* setTaskStatus keeps a well-formed row.
LEMMA WithStatusType ==
  ASSUME NEW row \in TaskRow, NEW s \in TaskStatuses
  PROVE  WithStatus(row, s) \in TaskRow
BY DEF TaskRow, TaskStatuses, WithStatus, Extended, TaskBase, Terminal

\* Writing one task keeps the table of tasks well formed.
LEMMA SetTaskType ==
  ASSUME NEW rows \in [Tasks -> TaskRow], NEW t \in Tasks, NEW s \in TaskStatuses
  PROVE  SetTask(rows, t, s) \in [Tasks -> TaskRow]
BY WithStatusType DEF SetTask

\* Writing both tasks keeps the table of tasks well formed.
LEMMA SetTasksType ==
  ASSUME NEW rows \in [Tasks -> TaskRow], NEW s \in TaskStatuses, NEW c \in TaskStatuses
  PROVE  SetTasks(rows, s, c) \in [Tasks -> TaskRow]
<1>1. "parent" \in Tasks /\ "child" \in Tasks BY DEF Tasks
<1>2. SetTask(rows, "parent", s) \in [Tasks -> TaskRow] BY <1>1, SetTaskType
<1> QED BY <1>1, <1>2, SetTaskType DEF SetTasks

\* An update of the continuation keeps a well-formed row, or its absence.
LEMMA ContWithType ==
  ASSUME cont \in ContRow, NEW b \in ContBase, NEW o \in ContOver
  PROVE  ContWith(b, o) \in ContRow
BY DEF ContWith, ContRow

\* The statuses the daemon's methods write are statuses of a task.
LEMMA StatusFacts ==
  /\ "preparing" \in TaskStatuses /\ "awaiting_child" \in TaskStatuses
  /\ "awaiting_execution" \in TaskStatuses /\ "resumable" \in TaskStatuses
  /\ "delivery_pending" \in TaskStatuses /\ "failed" \in TaskStatuses
  /\ RunnerStatuses \subseteq TaskStatuses
  /\ "parent" \in Tasks /\ "child" \in Tasks
BY RunnerAssumption DEF TaskStatuses, Extended, TaskBase, Terminal, Tasks

\* A row created by insertTask is well formed.
LEMMA NewTaskType == NewTask \in TaskRow
BY RetryAssumption DEF NewTask, TaskRow, TaskBase, Extended

\* TypeOK with the rows named.
LEMMA TypeRows ==
  TypeOK => task \in [Tasks -> TaskRow] /\ cont \in ContRow
BY DEF TypeOK, TaskRow, ContRow

-----------------------------------------------------------------------------
\* The ledger starts well typed.
LEMMA InitType == LedgerInit => TypeOK
BY RetryAssumption DEF LedgerInit, TypeOK, OwnerStatuses, EdgeBase, EdgeOver, ContBase, ContOver,
   TaskBase, Extended, Terminal, Steps

\* The methods on tasks, workspaces and the preparation owner keep the types.
LEMMA OwnerStepType ==
  ASSUME TypeOK, TaskStep \/ WorkspaceStep \/ OwnerStep
  PROVE  TypeOK'
<1> USE TypeRows, StatusFacts, NewTaskType DEF TypeOK
<1>1. ASSUME NEW t \in Tasks, InsertTask(t) PROVE TypeOK'
  BY <1>1 DEF InsertTask, TaskRow
<1>2. ASSUME NEW t \in Tasks, NEW s \in RunnerStatuses, SetTaskStatus(t, s) PROVE TypeOK'
  <2>1. task' \in [Tasks -> TaskRow] BY <1>2, SetTaskType DEF SetTaskStatus
  <2> QED BY <1>2, <2>1 DEF SetTaskStatus, TaskRow
<1>3. CASE WorkspaceStep
  BY <1>3 DEF WorkspaceStep, SetWorkspaceStatus
<1>4. ASSUME NEW capable \in BOOLEAN, PersistChildPreparationOwner(capable) PROVE TypeOK'
  <2>1. task' \in [Tasks -> TaskRow] BY <1>4, SetTaskType DEF PersistChildPreparationOwner
  <2> QED BY <1>4, <2>1 DEF PersistChildPreparationOwner, TaskRow, OwnerStatuses
<1>5. CASE BeginChildParentExecution
  BY <1>5 DEF BeginChildParentExecution
<1>6. ASSUME NEW r \in Runs, RecordChildParentAcceptance(r) PROVE TypeOK'
  <2>1. task' \in [Tasks -> TaskRow] BY <1>6, SetTaskType DEF RecordChildParentAcceptance
  <2> QED BY <1>6, <2>1 DEF RecordChildParentAcceptance, TaskRow, OwnerStatuses
<1>7. CASE BeginChildArtifactPersistence
  BY <1>7 DEF BeginChildArtifactPersistence, OwnerStatuses
<1>8. CASE BlockChildPreparation
  <2>1. task' \in [Tasks -> TaskRow] BY <1>8, SetTaskType DEF BlockChildPreparation
  <2> QED BY <1>8, <2>1 DEF BlockChildPreparation, TaskRow, OwnerStatuses
<1> QED BY <1>1, <1>2, <1>3, <1>4, <1>5, <1>6, <1>7, <1>8 DEF TaskStep, OwnerStep

\* Attaching a child, and completing its preparation, keeps the types.
LEMMA AttachStepType ==
  ASSUME TypeOK, AttachStep
  PROVE  TypeOK'
<1> USE TypeRows, StatusFacts, NewTaskType DEF TypeOK
<1>w. WithChild(task) \in [Tasks -> TaskRow] BY DEF WithChild
<1>1. CASE PersistBlockedChildIntent
  BY <1>1, <1>w DEF PersistBlockedChildIntent, TaskRow, EdgeBase, EdgeOver, OwnerStatuses
<1>2. ASSUME NEW r \in Revisions \cup {0}, NEW c \in Revisions \cup {0}, PersistReadyChildIntent(r, c)
      PROVE TypeOK'
  BY <1>2 DEF PersistReadyChildIntent, EdgeBase, EdgeOver, ContBase, ContOver
<1>3. ASSUME NEW c \in Revisions, PersistPreparingChildIntent(c) PROVE TypeOK'
  <2>1. task' \in [Tasks -> TaskRow] BY <1>3, <1>w, SetTasksType DEF PersistPreparingChildIntent
  <2> QED BY <1>3, <2>1 DEF PersistPreparingChildIntent, TaskRow, EdgeBase, EdgeOver, OwnerStatuses
<1>4. ASSUME NEW r \in Revisions, CompleteChildPreparation(r) PROVE TypeOK'
  <2>1. task' \in [Tasks -> TaskRow] BY <1>4, SetTasksType DEF CompleteChildPreparation
  <2> QED BY <1>4, <2>1 DEF CompleteChildPreparation, TaskRow, EdgeOver, ContBase, ContOver, OwnerStatuses
<1> QED BY <1>1, <1>2, <1>3, <1>4 DEF AttachStep

\* Claims, refreshes and blocks keep the types.
LEMMA EdgeStepType ==
  ASSUME TypeOK, EdgeStep
  PROVE  TypeOK'
<1> USE TypeRows, StatusFacts DEF TypeOK
<1>1. ASSUME NEW from, Claim(from) PROVE TypeOK'
  <2>1. cont' \in ContRow BY <1>1, ContWithType DEF Claim, ContBase, ContOver
  <2> QED BY <1>1, <2>1 DEF Claim, ContRow, EdgeBase, EdgeOver
<1>2. ASSUME NEW r \in Revisions, UpdateResumableChild(r) PROVE TypeOK'
  <2>1. task' \in [Tasks -> TaskRow] BY <1>2, SetTasksType DEF UpdateResumableChild
  <2> QED BY <1>2, <2>1 DEF UpdateResumableChild, TaskRow, EdgeOver, ContBase, ContOver
<1>3. CASE BlockChild
  <2>1. task' \in [Tasks -> TaskRow] BY <1>3, SetTasksType DEF BlockChild, Blockable
  <2>2. cont.over \in ContOver OBVIOUS
  <2>3. cont' \in ContRow BY <1>3, <2>2, ContWithType DEF BlockChild, Blockable, ContBase
  <2> QED BY <1>3, <2>1, <2>3 DEF BlockChild, Blockable, TaskRow, ContRow, EdgeBase, EdgeOver
<1> QED BY <1>1, <1>2, <1>3 DEF EdgeStep, ClaimReadyChild, ClaimResumableChild

\* Settlement and acknowledgement keep the types; an acknowledged outbox has a
\* terminal status to commit.
LEMMA SettleStepType ==
  ASSUME TypeOK, OutboxShape, SettleStep
  PROVE  TypeOK'
<1> USE TypeRows, StatusFacts DEF TypeOK
<1>o. Linked \in [state : {"none", "pending", "linked"}, status : Terminal \cup {"none"},
                  evidence : Runs \cup {NoRun}, acks : SUBSET Steps]
  BY DEF Linked
<1>1. ASSUME NEW s \in Terminal, NEW e \in Runs, BeginChildTerminalSettlement(s, e) PROVE TypeOK'
  BY <1>1 DEF BeginChildTerminalSettlement
<1>2. ASSUME NEW s \in Terminal, NEW e \in Runs, SettleDeferred(s, e) PROVE TypeOK'
  <2>1. task' \in [Tasks -> TaskRow] BY <1>2, SetTasksType DEF SettleDeferred
  <2>c. cont.base \in ContBase /\ "delivery_pending" \in ContOver BY DEF ContOver
  <2>2. cont' \in ContRow BY <1>2, <2>c, ContWithType DEF SettleDeferred
  <2> QED BY <1>2, <1>o, <2>1, <2>2 DEF SettleDeferred, TaskRow, ContRow, EdgeOver
<1>3. ASSUME NEW s \in Terminal, NEW e \in Runs, SettleDirect(s, e) PROVE TypeOK'
  <2>s. s \in TaskBase BY DEF TaskBase
  <2>1. task' \in [Tasks -> TaskRow] BY <1>3, <2>s DEF SettleDirect, TaskRow
  <2>2. cont' \in ContRow BY <1>3, ContWithType DEF SettleDirect, ContBase, ContOver
  <2> QED BY <1>3, <1>o, <2>1, <2>2 DEF SettleDirect, TaskRow, ContRow, EdgeBase, EdgeOver
<1>4. ASSUME NEW step \in Steps, AcknowledgeChildDeliveryStep(step) PROVE TypeOK'
  <2>1. outbox.status \in Terminal BY <1>4 DEF AcknowledgeChildDeliveryStep, OutboxShape
  <2>2. CASE outbox.acks \cup {step} = Steps
    <3>1. outbox.status \in TaskBase /\ outbox.status \in ContBase BY <2>1 DEF TaskBase, ContBase
    <3>0. /\ task' = [t \in Tasks |-> [task[t] EXCEPT !.base = outbox.status, !.over = "none"]]
          /\ edge' = [base |-> outbox.status, over |-> "none"]
          /\ cont' = ContWith(outbox.status, "none")
      BY <1>4, <2>2, Zenon DEF AcknowledgeChildDeliveryStep
    <3>2. task' \in [Tasks -> TaskRow] BY <3>0, <3>1 DEF TaskRow
    <3>3. cont' \in ContRow BY <3>0, <3>1, ContWithType DEF ContOver
    <3>4. edge' \in [base : EdgeBase, over : EdgeOver]
      BY <2>1, <3>0 DEF EdgeBase, EdgeOver
    <3> QED BY <1>4, <3>2, <3>3, <3>4 DEF AcknowledgeChildDeliveryStep, TaskRow, ContRow
  <2>3. CASE outbox.acks \cup {step} # Steps
    BY <1>4, <2>3 DEF AcknowledgeChildDeliveryStep
  <2> QED BY <2>2, <2>3
<1> QED BY <1>1, <1>2, <1>3, <1>4 DEF SettleStep

\* Boot reconciliation keeps the types.
LEMMA BootStepType ==
  ASSUME TypeOK, BootStep
  PROVE  TypeOK'
<1> USE TypeRows, StatusFacts DEF TypeOK
<1>f. FencedParent \in [Tasks -> TaskRow] BY SetTaskType DEF FencedParent
<1>1. ASSUME NEW v, BootKeeps(v) PROVE TypeOK'
  BY <1>1, <1>f DEF BootKeeps, TaskRow
<1>2. ASSUME NEW v, BootResumes(v) PROVE TypeOK'
  <2>1. task' \in [Tasks -> TaskRow] BY <1>2, <1>f, SetTasksType DEF BootResumes
  <2>2. cont' \in ContRow BY <1>2, ContWithType DEF BootResumes, ContBase, ContOver
  <2> QED BY <1>2, <2>1, <2>2 DEF BootResumes, TaskRow, ContRow, EdgeBase, EdgeOver
<1>3. ASSUME NEW v, BootBlocks(v) PROVE TypeOK'
  <2>1. task' \in [Tasks -> TaskRow] BY <1>3, <1>f, SetTasksType DEF BootBlocks
  <2>2. cont' \in ContRow BY <1>3, ContWithType DEF BootBlocks, ContBase, ContOver
  <2> QED BY <1>3, <2>1, <2>2 DEF BootBlocks, TaskRow, ContRow, EdgeBase, EdgeOver
<1>4. CASE ReconcileOnBoot
  <2>1. ASSUME NEW t \in Tasks, task[t].retries < MaxRetries
        PROVE  task[t].retries + 1 \in 0..MaxRetries
    BY <2>1, RetryAssumption DEF TaskRow
  <2>2. ASSUME NEW t \in Tasks PROVE task'[t] \in TaskRow
    BY <1>4, <2>1 DEF ReconcileOnBoot, TaskRow, TaskBase, Terminal
  <2>3. task' \in [Tasks -> TaskRow] BY <1>4, <2>2 DEF ReconcileOnBoot
  <2>4. UNCHANGED <<owner, edge, prep, cont, cfg, outbox, ws>> BY <1>4 DEF ReconcileOnBoot
  <2> QED BY <2>3, <2>4 DEF TaskRow
<1> QED BY <1>1, <1>2, <1>3, <1>4 DEF BootStep, ReconcileChildEdgesOnBoot

-----------------------------------------------------------------------------
\* The types are preserved by every step.
LEMMA TypeStep ==
  ASSUME TypeOK, OutboxShape, [LedgerNext]_ledger
  PROVE  TypeOK'
<1>1. CASE UNCHANGED ledger BY <1>1 DEF ledger, TypeOK
<1>2. CASE LedgerNext
  BY <1>2, OwnerStepType, AttachStepType, EdgeStepType, SettleStepType, BootStepType DEF LedgerNext
<1> QED BY <1>1, <1>2

\* The effective statuses of a well-typed edge, and what they tell of its columns.
LEMMA EffectiveFacts ==
  ASSUME TypeOK, EdgeShape, OverlayNeverHidesOutcome
  PROVE  /\ edge.base = "absent" <=> Effective(edge) = "absent"
         /\ edge.base = "blocked" <=> Effective(edge) = "blocked"
         /\ \A s \in Terminal : edge.base = s <=> Effective(edge) = s
         /\ Effective(edge) \in Terminal \cup {"blocked", "absent"} => edge.over = "none"
BY DEF TypeOK, EdgeShape, OverlayNeverHidesOutcome, Effective, EdgeBase, EdgeOver, Terminal

\* Methods that leave the edge and the outbox alone preserve what Safe says of them.
LEMMA SafeUnchanged ==
  ASSUME Safe, UNCHANGED <<edge, outbox>>
  PROVE  Safe'
BY DEF Safe, OutboxShape, EdgeShape, OverlayNeverHidesOutcome, LinkedFixesOutcome,
       DeliveredMeansTerminal, Effective

\* A change of an edge that no linked outbox has decided preserves Safe when the
\* new row is one status, or hides neither a settled base nor an absent row.
LEMMA SafeEdgeMove ==
  ASSUME Safe, TypeOK, UNCHANGED outbox,
         Effective(edge) \notin Terminal \cup {"delivery_pending"},
         edge'.base # "absent",
         edge'.base \in Terminal \cup {"blocked"} => edge'.over = "none",
         edge'.over = "preparing" => edge'.base = "ready"
  PROVE  Safe'
<1>1. outbox.state # "linked"
  BY DEF Safe, LinkedFixesOutcome, OutboxShape
<1> QED BY <1>1 DEF Safe, OutboxShape, EdgeShape, OverlayNeverHidesOutcome, LinkedFixesOutcome,
                    DeliveredMeansTerminal

\* The methods on tasks, workspaces and the preparation owner preserve Safe.
LEMMA OwnerStepSafe ==
  ASSUME IInv, TaskStep \/ WorkspaceStep \/ OwnerStep
  PROVE  Safe'
<1>1. UNCHANGED <<edge, outbox>>
  BY DEF TaskStep, WorkspaceStep, OwnerStep, InsertTask, SetTaskStatus, SetWorkspaceStatus,
     PersistChildPreparationOwner, BeginChildParentExecution, RecordChildParentAcceptance,
     BeginChildArtifactPersistence, BlockChildPreparation
<1> QED BY <1>1, SafeUnchanged DEF IInv

\* Attaching a child finds no edge, and completing its preparation a preparing one.
LEMMA AttachStepSafe ==
  ASSUME IInv, AttachStep
  PROVE  Safe'
<1> USE EffectiveFacts DEF IInv, Safe
<1>1. CASE PersistBlockedChildIntent
  BY <1>1, SafeEdgeMove DEF PersistBlockedChildIntent, Terminal
<1>2. ASSUME NEW r \in Revisions \cup {0}, NEW c \in Revisions \cup {0}, PersistReadyChildIntent(r, c)
      PROVE Safe'
  BY <1>2, SafeEdgeMove DEF PersistReadyChildIntent, Terminal
<1>3. ASSUME NEW c \in Revisions, PersistPreparingChildIntent(c) PROVE Safe'
  BY <1>3, SafeEdgeMove DEF PersistPreparingChildIntent, Terminal
<1>4. ASSUME NEW r \in Revisions, CompleteChildPreparation(r) PROVE Safe'
  BY <1>4, SafeEdgeMove DEF CompleteChildPreparation, Terminal, TypeOK
<1> QED BY <1>1, <1>2, <1>3, <1>4 DEF AttachStep

\* Claims, refreshes and blocks are refused on a decided edge.
LEMMA EdgeStepSafe ==
  ASSUME IInv, EdgeStep
  PROVE  Safe'
<1> USE EffectiveFacts DEF IInv, Safe
<1>1. ASSUME NEW from \in {"ready", "resumable"}, Claim(from) PROVE Safe'
  BY <1>1, SafeEdgeMove DEF Claim, Terminal
<1>2. ASSUME NEW r \in Revisions, UpdateResumableChild(r) PROVE Safe'
  BY <1>2, SafeEdgeMove DEF UpdateResumableChild, Terminal, Recoverable, TypeOK
<1>3. CASE BlockChild
  BY <1>3, SafeEdgeMove DEF BlockChild, Blockable, Terminal
<1> QED BY <1>1, <1>2, <1>3 DEF EdgeStep, ClaimReadyChild, ClaimResumableChild

\* Linking an outbox fixes its own outcome; the last acknowledgement commits it.
LEMMA SettleStepSafe ==
  ASSUME IInv, SettleStep
  PROVE  Safe'
<1> USE EffectiveFacts DEF IInv, Safe
<1>1. ASSUME NEW s \in Terminal, NEW e \in Runs, BeginChildTerminalSettlement(s, e) PROVE Safe'
  BY <1>1 DEF BeginChildTerminalSettlement, TypeOK, OutboxShape, EdgeShape,
     OverlayNeverHidesOutcome, LinkedFixesOutcome, DeliveredMeansTerminal, Effective
<1>2. ASSUME NEW s \in Terminal, NEW e \in Runs, MaySettle(s, e, "delivery_pending") \/ MaySettle(s, e, s)
      PROVE  /\ outbox.state # "linked"
             /\ outbox.state = "pending" => outbox.status = s
             /\ edge.base # "absent"
             /\ edge.base \notin Terminal \cup {"blocked"}
             /\ outbox.acks = {}
  BY <1>2 DEF MaySettle, SettlementInstalled, TypeOK, OutboxShape, LinkedFixesOutcome,
     Recoverable, Terminal
<1>3. ASSUME NEW s \in Terminal, NEW e \in Runs, SettleDeferred(s, e) PROVE Safe'
  <2>1. /\ edge'.base = edge.base /\ edge'.over = "delivery_pending"
        /\ outbox'.state \in {"none", "linked"}
        /\ outbox'.status = outbox.status /\ outbox'.acks = {}
        /\ outbox'.state = "none" <=> outbox.state = "none"
    BY <1>2, <1>3 DEF SettleDeferred, Linked, TypeOK
  <2> QED BY <1>2, <1>3, <2>1 DEF SettleDeferred, OutboxShape, EdgeShape, TypeOK, Steps,
          OverlayNeverHidesOutcome, LinkedFixesOutcome, DeliveredMeansTerminal, Effective
<1>4. ASSUME NEW s \in Terminal, NEW e \in Runs, SettleDirect(s, e) PROVE Safe'
  <2>1. /\ edge'.base = s /\ edge'.over = "none"
        /\ outbox'.state \in {"none", "linked"}
        /\ outbox'.status = outbox.status /\ outbox'.acks = {}
        /\ outbox'.state = "none" <=> outbox.state = "none"
    BY <1>2, <1>4 DEF SettleDirect, Linked, TypeOK
  <2>2. outbox.state # "none" => outbox.status = s
    BY <1>2, <1>4 DEF SettleDirect, TypeOK
  <2> QED BY <1>4, <2>1, <2>2 DEF SettleDirect, OutboxShape, EdgeShape, Terminal,
          OverlayNeverHidesOutcome, LinkedFixesOutcome, DeliveredMeansTerminal, Effective
<1>5. ASSUME NEW step \in Steps, AcknowledgeChildDeliveryStep(step) PROVE Safe'
  <2>0. /\ outbox.state = "linked" /\ outbox'.state = "linked"
        /\ outbox'.status = outbox.status /\ outbox.status \in Terminal
        /\ outbox'.acks = outbox.acks \cup {step}
    BY <1>5 DEF AcknowledgeChildDeliveryStep, OutboxShape, TypeOK
  <2>1. CASE outbox.acks \cup {step} = Steps
    <3>1. edge' = [base |-> outbox.status, over |-> "none"]
      BY <1>5, <2>1, Zenon DEF AcknowledgeChildDeliveryStep
    <3> QED BY <2>0, <3>1 DEF OutboxShape, EdgeShape, Terminal,
            OverlayNeverHidesOutcome, LinkedFixesOutcome, DeliveredMeansTerminal, Effective
  <2>2. CASE outbox.acks \cup {step} # Steps
    <3>1. edge' = edge
      BY <1>5, <2>2, Zenon DEF AcknowledgeChildDeliveryStep
    <3> QED BY <2>0, <2>2, <3>1 DEF OutboxShape, EdgeShape,
            OverlayNeverHidesOutcome, LinkedFixesOutcome, DeliveredMeansTerminal, Effective
  <2> QED BY <2>1, <2>2
<1> QED BY <1>1, <1>3, <1>4, <1>5 DEF SettleStep

\* Boot leaves an edge with an outbox alone, and a settled edge always.
LEMMA BootStepSafe ==
  ASSUME IInv, BootStep
  PROVE  Safe'
<1> USE EffectiveFacts DEF IInv, Safe
<1>1. ASSUME NEW v, BootKeeps(v) PROVE Safe'
  BY <1>1, SafeUnchanged DEF BootKeeps
<1>2. ASSUME NEW v, ~BootLeavesEdge(v), UNCHANGED outbox, edge'.base \in {"resumable", "blocked"},
             edge'.base = "blocked" => edge'.over = "none", edge'.over # "preparing"
      PROVE Safe'
  <2>1. outbox.state = "none" /\ Effective(edge) \in EdgeActive /\ outbox.acks = {}
    BY <1>2 DEF BootLeavesEdge, OutboxShape
  <2> QED BY <1>2, <2>1 DEF OutboxShape, EdgeShape, Terminal,
          OverlayNeverHidesOutcome, LinkedFixesOutcome, DeliveredMeansTerminal
<1>3. ASSUME NEW v, BootResumes(v) PROVE Safe'
  BY <1>2, <1>3 DEF BootResumes
<1>4. ASSUME NEW v, BootBlocks(v) PROVE Safe'
  BY <1>2, <1>4 DEF BootBlocks
<1>5. CASE ReconcileOnBoot
  BY <1>5, SafeUnchanged DEF ReconcileOnBoot
<1> QED BY <1>1, <1>3, <1>4, <1>5 DEF BootStep, ReconcileChildEdgesOnBoot

\* IInv is inductive.
LEMMA InvStep ==
  ASSUME IInv, [LedgerNext]_ledger
  PROVE  IInv'
<1>1. TypeOK' BY TypeStep DEF IInv, Safe
<1>2. CASE UNCHANGED ledger
  BY <1>1, <1>2, SafeUnchanged DEF IInv, ledger
<1>3. CASE LedgerNext
  BY <1>1, <1>3, OwnerStepSafe, AttachStepSafe, EdgeStepSafe, SettleStepSafe, BootStepSafe
  DEF LedgerNext, IInv
<1> QED BY <1>2, <1>3

\* IInv holds initially.
LEMMA InvInit == LedgerInit => IInv
<1>1. LedgerInit => Safe
  BY DEF LedgerInit, Safe, OutboxShape, EdgeShape, OverlayNeverHidesOutcome,
     LinkedFixesOutcome, DeliveredMeansTerminal, Terminal
<1> QED BY <1>1, InitType DEF IInv

\* The inductive invariant holds in every reachable state of the ledger.
THEOREM Invariance == LedgerSpec => []IInv
BY InvInit, InvStep, PTL DEF LedgerSpec

\* Every reachable ledger is well typed.
THEOREM TypeCorrect == LedgerSpec => []TypeOK
<1>1. IInv => TypeOK BY DEF IInv
<1> QED BY <1>1, Invariance, PTL

\* OverlayNeverHidesOutcome: no override hides a settled or blocked edge.
THEOREM NoHiddenOutcome == LedgerSpec => []OverlayNeverHidesOutcome
<1>1. IInv => OverlayNeverHidesOutcome BY DEF IInv, Safe
<1> QED BY <1>1, Invariance, PTL

\* LinkedFixesOutcome: linked evidence decides the edge for good.
THEOREM LinkedEvidenceDecides == LedgerSpec => []LinkedFixesOutcome
<1>1. IInv => LinkedFixesOutcome BY DEF IInv, Safe
<1> QED BY <1>1, Invariance, PTL

\* DeliveredMeansTerminal: three acknowledgements leave a terminal edge.
THEOREM DeliveryCommits == LedgerSpec => []DeliveredMeansTerminal
<1>1. IInv => DeliveredMeansTerminal BY DEF IInv, Safe
<1> QED BY <1>1, Invariance, PTL

-----------------------------------------------------------------------------
(* The ledger implements ChildEdge.                                        *)

\* What the phase and the outcome of the abstract edge are made of.
LEMMA OutcomeFacts ==
  ASSUME IInv
  PROVE  /\ Outcome \in Terminal \cup {"none"}
         /\ outbox.state = "linked" => Outcome = outbox.status
         /\ Effective(edge) \in Terminal => Outcome = Effective(edge)
         /\ outbox.state # "linked" /\ Effective(edge) \notin Terminal => Outcome = "none"
BY DEF IInv, Safe, OutboxShape, LinkedFixesOutcome, Outcome, TypeOK, Terminal

\* An undecided edge that moves to an undecided phase has the outcome "none"
\* before and after.
LEMMA Undecided ==
  ASSUME IInv, UNCHANGED outbox,
         Effective(edge) \notin Terminal \cup {"delivery_pending"},
         Effective(edge)' \notin Terminal
  PROVE  Outcome = "none" /\ Outcome' = "none"
<1>1. outbox.state # "linked"
  BY DEF IInv, Safe, OutboxShape, LinkedFixesOutcome
<1> QED BY <1>1 DEF Outcome

\* Steps that write neither the edge nor the outbox stutter.
LEMMA SameEdge ==
  ASSUME UNCHANGED <<edge, outbox>>
  PROVE  UNCHANGED <<Effective(edge), Outcome>>
BY DEF Effective, Outcome

\* Attaching and completing the preparation.
LEMMA AttachStepMaps ==
  ASSUME IInv, AttachStep
  PROVE  [Abstract!Next]_<<Effective(edge), Outcome>>
<1> USE EffectiveFacts, Undecided DEF IInv, Safe, Abstract!Next, Abstract!Attach, Abstract!Prepared
<1>1. CASE PersistBlockedChildIntent
  BY <1>1 DEF PersistBlockedChildIntent, Terminal, Effective
<1>2. ASSUME NEW r \in Revisions \cup {0}, NEW c \in Revisions \cup {0}, PersistReadyChildIntent(r, c)
      PROVE Abstract!Next
  BY <1>2 DEF PersistReadyChildIntent, Terminal, Effective
<1>3. ASSUME NEW c \in Revisions, PersistPreparingChildIntent(c) PROVE Abstract!Next
  BY <1>3 DEF PersistPreparingChildIntent, Terminal, Effective
<1>4. ASSUME NEW r \in Revisions, CompleteChildPreparation(r) PROVE Abstract!Next
  <2>1. /\ Effective(edge) = "preparing" /\ Effective(edge)' = "ready" /\ UNCHANGED outbox
    BY <1>4 DEF CompleteChildPreparation, TypeOK, EdgeShape, Effective, EdgeBase, EdgeOver, Terminal
  <2> QED BY <2>1 DEF Terminal
<1> QED BY <1>1, <1>2, <1>3, <1>4 DEF AttachStep

\* Claims take an edge, refreshes release it, blocks close it.
LEMMA EdgeStepMaps ==
  ASSUME IInv, EdgeStep
  PROVE  [Abstract!Next]_<<Effective(edge), Outcome>>
<1> USE EffectiveFacts, Undecided DEF IInv, Safe, Abstract!Next
<1>1. ASSUME NEW from \in {"ready", "resumable"}, Claim(from) PROVE Abstract!Next
  BY <1>1 DEF Claim, Terminal, Effective, Abstract!Take
<1>2. ASSUME NEW r \in Revisions, UpdateResumableChild(r) PROVE Abstract!Next
  <2>1. Effective(edge)' = "resumable" /\ UNCHANGED outbox
    BY <1>2 DEF UpdateResumableChild, Effective, TypeOK
  <2> QED BY <1>2, <2>1 DEF UpdateResumableChild, Terminal, Recoverable, Abstract!Release
<1>3. CASE BlockChild
  <2>1. Effective(edge)' = "blocked" /\ UNCHANGED outbox
    BY <1>3 DEF BlockChild, Blockable, Effective
  <2>2. Effective(edge) \in Abstract!Open \cup {"blocked"}
    BY <1>3 DEF BlockChild, Blockable, TypeOK, Effective, EdgeBase, EdgeOver, Abstract!Open
  <2> QED BY <1>3, <2>1, <2>2 DEF BlockChild, Blockable, Terminal, Abstract!Block
<1> QED BY <1>1, <1>2, <1>3 DEF EdgeStep, ClaimReadyChild, ClaimResumableChild

\* Installing an outbox stutters, settling decides, the last acknowledgement delivers.
LEMMA SettleStepMaps ==
  ASSUME IInv, SettleStep
  PROVE  [Abstract!Next]_<<Effective(edge), Outcome>>
<1> USE EffectiveFacts, OutcomeFacts DEF IInv, Safe, Abstract!Next
<1>1. ASSUME NEW s \in Terminal, NEW e \in Runs, BeginChildTerminalSettlement(s, e)
      PROVE  UNCHANGED <<Effective(edge), Outcome>>
  BY <1>1 DEF BeginChildTerminalSettlement, TypeOK, Effective, Outcome
<1>2. ASSUME NEW s \in Terminal, NEW e \in Runs, SettleDeferred(s, e) PROVE Abstract!Next
  <2>1. Effective(edge)' = "delivery_pending"
    BY <1>2 DEF SettleDeferred, TypeOK, Effective
  <2>2. Outcome' \in Terminal \cup {"none"}
    BY <1>2, <2>1 DEF SettleDeferred, MaySettle, SettlementInstalled, Linked, TypeOK, Outcome, Terminal
  <2> QED BY <1>2, <2>1, <2>2
          DEF SettleDeferred, MaySettle, Recoverable, Abstract!Defer, Abstract!Outcomes, Terminal
<1>3. ASSUME NEW s \in Terminal, NEW e \in Runs, SettleDirect(s, e) PROVE Abstract!Next
  <2>1. Effective(edge)' = s
    BY <1>3 DEF SettleDirect, Effective
  <2>2. outbox.state \in {"none", "pending"}
    BY <1>3 DEF SettleDirect, MaySettle, LinkedFixesOutcome, OutboxShape, Recoverable, Terminal, TypeOK
  <2>3. outbox'.state = "linked" => outbox'.status = s
    BY <1>3, <2>2 DEF SettleDirect, MaySettle, SettlementInstalled, Linked, TypeOK
  <2>4. Outcome' = s
    BY <2>1, <2>3 DEF Outcome
  <2> QED BY <1>3, <2>1, <2>4
          DEF SettleDirect, MaySettle, Recoverable, Abstract!Settle, Abstract!Outcomes, Terminal
<1>4. ASSUME NEW step \in Steps, AcknowledgeChildDeliveryStep(step)
      PROVE  [Abstract!Next]_<<Effective(edge), Outcome>>
  <2>1. /\ outbox.state = "linked" /\ outbox'.state = "linked"
        /\ outbox'.status = outbox.status /\ outbox.status \in Terminal
    BY <1>4 DEF AcknowledgeChildDeliveryStep, OutboxShape, TypeOK
  <2>2. Outcome = outbox.status /\ Outcome' = outbox.status BY <2>1 DEF Outcome
  <2>3. CASE outbox.acks \cup {step} = Steps
    <3>1. edge' = [base |-> outbox.status, over |-> "none"]
      BY <1>4, <2>3, Zenon DEF AcknowledgeChildDeliveryStep
    <3>2. Effective(edge)' = outbox.status BY <3>1 DEF Effective
    <3> QED BY <2>1, <2>2, <3>2 DEF LinkedFixesOutcome, Abstract!Deliver, Abstract!Outcomes, Terminal
  <2>4. CASE outbox.acks \cup {step} # Steps
    <3>1. edge' = edge BY <1>4, <2>4, Zenon DEF AcknowledgeChildDeliveryStep
    <3> QED BY <2>2, <3>1 DEF Effective
  <2> QED BY <2>3, <2>4
<1> QED BY <1>1, <1>2, <1>3, <1>4 DEF SettleStep

\* Boot leaves the edge, returns it to resumable, or blocks it; never with an outbox.
LEMMA BootStepMaps ==
  ASSUME IInv, BootStep
  PROVE  [Abstract!Next]_<<Effective(edge), Outcome>>
<1> USE EffectiveFacts, OutcomeFacts DEF IInv, Safe, Abstract!Next
<1>1. ASSUME NEW v, BootKeeps(v) PROVE UNCHANGED <<Effective(edge), Outcome>>
  BY <1>1, SameEdge DEF BootKeeps
<1>2. ASSUME NEW v, ~BootLeavesEdge(v), UNCHANGED outbox
      PROVE  /\ outbox.state = "none" /\ outbox'.state = "none"
             /\ Effective(edge) \in EdgeActive \ {"preparing"}
             /\ Effective(edge) \notin Terminal /\ Outcome = "none"
             /\ v = "valid" => Effective(edge) = "claimed"
  BY <1>2 DEF BootLeavesEdge, EdgeActive, Terminal, TypeOK
<1>3. ASSUME NEW v, BootResumes(v) PROVE Abstract!Next
  <2>1. Effective(edge)' = "resumable" BY <1>3 DEF BootResumes, Effective
  <2>2. Outcome' = "none" BY <1>2, <1>3, <2>1 DEF BootResumes, Outcome, Terminal
  <2> QED BY <1>2, <1>3, <2>1, <2>2 DEF BootResumes, Abstract!Release
<1>4. ASSUME NEW v, BootBlocks(v) PROVE Abstract!Next
  <2>1. Effective(edge)' = "blocked" BY <1>4 DEF BootBlocks, Effective
  <2>2. Outcome' = "none" BY <1>2, <1>4, <2>1 DEF BootBlocks, Outcome, Terminal
  <2> QED BY <1>2, <1>4, <2>1, <2>2 DEF BootBlocks, EdgeActive, Abstract!Block, Abstract!Open
<1>5. CASE ReconcileOnBoot
  BY <1>5, SameEdge DEF ReconcileOnBoot
<1> QED BY <1>1, <1>3, <1>4, <1>5 DEF BootStep, ReconcileChildEdgesOnBoot

\* Every step of the ledger is a step of the abstract edge, or none.
LEMMA StepMaps ==
  ASSUME IInv, [LedgerNext]_ledger
  PROVE  [Abstract!Next]_<<Effective(edge), Outcome>>
<1>1. CASE UNCHANGED ledger BY <1>1, SameEdge DEF ledger
<1>2. CASE TaskStep \/ WorkspaceStep \/ OwnerStep
  <2>1. UNCHANGED <<edge, outbox>>
    BY <1>2 DEF TaskStep, WorkspaceStep, OwnerStep, InsertTask, SetTaskStatus, SetWorkspaceStatus,
       PersistChildPreparationOwner, BeginChildParentExecution, RecordChildParentAcceptance,
       BeginChildArtifactPersistence, BlockChildPreparation
  <2> QED BY <2>1, SameEdge
<1> QED BY <1>1, <1>2, AttachStepMaps, EdgeStepMaps, SettleStepMaps, BootStepMaps DEF LedgerNext

\* The initial ledger has no edge and no outcome.
LEMMA InitMaps == LedgerInit => Abstract!Init
BY DEF LedgerInit, Abstract!Init, Effective, Outcome, Terminal

\* ImplementsChildEdge: the tables, their overrides and the outbox implement ChildEdge.
THEOREM Refinement == LedgerSpec => ImplementsChildEdge
BY InitMaps, StepMaps, Invariance, PTL DEF LedgerSpec, ImplementsChildEdge, Abstract!Spec

\* TerminalImmutable: no method moves a terminal edge, because no abstract step does.
THEOREM TerminalRowsAreImmutable == LedgerSpec => TerminalImmutable
<1>1. ASSUME IInv, [LedgerNext]_ledger
      PROVE  Effective(edge) \in Terminal => Effective(edge') = Effective(edge)
  <2>1. [Abstract!Next]_<<Effective(edge), Outcome>> BY <1>1, StepMaps
  <2>2. Effective(edge)' = Effective(edge') BY DEF Effective
  <2> QED BY <2>1, <2>2 DEF Abstract!Next, Abstract!Attach, Abstract!Prepared, Abstract!Take,
          Abstract!Release, Abstract!Block, Abstract!Defer, Abstract!Settle, Abstract!Deliver,
          Abstract!Open, Terminal
<1> QED BY <1>1, Invariance, PTL DEF LedgerSpec, TerminalImmutable

-----------------------------------------------------------------------------
(* The outbox and the acceptance of the parent.                            *)

\* OutboxImmutable: an installed outbox keeps its outcome, evidence and acknowledgements.
THEOREM OutboxIsImmutable == LedgerSpec => OutboxImmutable
<1> DEFINE Kept == outbox.state # "none" =>
             /\ outbox'.status = outbox.status /\ outbox'.evidence = outbox.evidence
             /\ outbox'.state \in {outbox.state, "linked"}
             /\ outbox.acks \subseteq outbox'.acks
<1>1. ASSUME IInv, LedgerNext PROVE Kept
  <2> USE <1>1 DEF IInv, TypeOK
  <2>1. CASE TaskStep \/ WorkspaceStep \/ OwnerStep \/ AttachStep \/ EdgeStep \/ BootStep
    <3>1. UNCHANGED outbox
      BY <2>1 DEF TaskStep, WorkspaceStep, OwnerStep, InsertTask, SetTaskStatus, SetWorkspaceStatus,
         PersistChildPreparationOwner, BeginChildParentExecution, RecordChildParentAcceptance,
         BeginChildArtifactPersistence, BlockChildPreparation, AttachStep, PersistBlockedChildIntent,
         PersistReadyChildIntent, PersistPreparingChildIntent, CompleteChildPreparation, EdgeStep,
         ClaimReadyChild, ClaimResumableChild, Claim, UpdateResumableChild, BlockChild, BootStep,
         ReconcileChildEdgesOnBoot, BootKeeps, BootResumes, BootBlocks, ReconcileOnBoot
    <3> QED BY <3>1
  <2>2. ASSUME NEW s \in Terminal, NEW e \in Runs,
               BeginChildTerminalSettlement(s, e) \/ SettleDeferred(s, e) \/ SettleDirect(s, e)
        PROVE  Kept
    BY <2>2 DEF BeginChildTerminalSettlement, SettleDeferred, SettleDirect, Linked
  <2>3. ASSUME NEW step \in Steps, AcknowledgeChildDeliveryStep(step) PROVE Kept
    BY <2>3 DEF AcknowledgeChildDeliveryStep
  <2> QED BY <2>1, <2>2, <2>3 DEF LedgerNext, SettleStep
<1>2. ASSUME IInv, [LedgerNext]_ledger PROVE [Kept]_ledger
  BY <1>1, <1>2
<1> QED BY <1>2, Invariance, PTL DEF LedgerSpec, OutboxImmutable

\* Before the parent is accepted there is no receipt.
OwnerShape == owner.status \in {"none", "parent_pending"} => owner.receipt = NoRun

\* What one step does to the owner: acceptance is the only way to a receipt.
LEMMA OwnerMoves ==
  ASSUME TypeOK, LedgerNext
  PROVE  \/ UNCHANGED owner
         \/ owner.status = "none" /\ owner'.status = "parent_pending" /\ owner'.receipt = NoRun
         \/ owner.status = "parent_pending" /\ owner'.status = "parent_accepted"
         \/ owner'.receipt = owner.receipt /\ owner'.status = owner.status
         \/ owner'.receipt = owner.receipt /\ owner'.status \notin {"none", "parent_pending"}
<1> USE DEF TypeOK
<1>1. CASE TaskStep \/ WorkspaceStep \/ EdgeStep \/ SettleStep \/ BootStep
  BY <1>1 DEF TaskStep, WorkspaceStep, EdgeStep, SettleStep, BootStep, InsertTask, SetTaskStatus,
     SetWorkspaceStatus, ClaimReadyChild, ClaimResumableChild, Claim, UpdateResumableChild, BlockChild,
     BeginChildTerminalSettlement, SettleDeferred, SettleDirect, AcknowledgeChildDeliveryStep,
     ReconcileChildEdgesOnBoot, BootKeeps, BootResumes, BootBlocks, ReconcileOnBoot
<1>2. CASE OwnerStep
  <2>1. ASSUME NEW capable \in BOOLEAN, PersistChildPreparationOwner(capable)
        PROVE  owner.status = "none" /\ owner'.status = "parent_pending" /\ owner'.receipt = NoRun
    BY <2>1 DEF PersistChildPreparationOwner
  <2>2. ASSUME NEW r \in Runs, RecordChildParentAcceptance(r)
        PROVE  owner.status = "parent_pending" /\ owner'.status = "parent_accepted"
    BY <2>2 DEF RecordChildParentAcceptance
  <2>3. CASE BeginChildParentExecution
    BY <2>3 DEF BeginChildParentExecution
  <2>4. CASE BeginChildArtifactPersistence \/ BlockChildPreparation
    BY <2>4 DEF BeginChildArtifactPersistence, BlockChildPreparation
  <2> QED BY <1>2, <2>1, <2>2, <2>3, <2>4 DEF OwnerStep
<1>3. CASE AttachStep
  BY <1>3 DEF AttachStep, PersistBlockedChildIntent, PersistReadyChildIntent,
     PersistPreparingChildIntent, CompleteChildPreparation
<1> QED BY <1>1, <1>2, <1>3 DEF LedgerNext

\* AcceptanceDurable: a recorded acceptance is never replaced, so no restart and
\* no competing caller can make the ledger wait for the parent a second time.
THEOREM AcceptanceIsDurable == LedgerSpec => AcceptanceDurable
<1> DEFINE Kept == owner.receipt # NoRun =>
             owner'.receipt = owner.receipt /\ owner'.status # "parent_pending"
<1>1. LedgerInit => OwnerShape BY DEF LedgerInit, OwnerShape
<1>2. ASSUME IInv, OwnerShape, [LedgerNext]_ledger PROVE OwnerShape' /\ [Kept]_ledger
  <2>1. CASE UNCHANGED ledger
    <3>1. owner' = owner BY <2>1 DEF ledger
    <3> QED BY <1>2, <2>1, <3>1 DEF OwnerShape
  <2>2. CASE LedgerNext
    BY <1>2, <2>2, OwnerMoves DEF IInv, OwnerShape
  <2> QED BY <1>2, <2>1, <2>2
<1> QED BY <1>1, <1>2, Invariance, PTL DEF LedgerSpec, AcceptanceDurable
=============================================================================
