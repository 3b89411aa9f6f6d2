----------------------------- MODULE ChildLedger -----------------------------
(***************************************************************************)
(* The durable rows of one sequential parent-to-child edge and the ledger  *)
(* methods that write them (packages/core-v2/src/ledger/store.ts).  Every  *)
(* method is one SQLite transaction, hence one action; a method that       *)
(* throws is rolled back and is a disabled action here.  A row's status is *)
(* its base column unless an override row covers it.                       *)
(*                                                                         *)
(* The specification below lets any caller invoke any method at any time:  *)
(* it states what the ledger guarantees by itself.  SequentialDaemon adds  *)
(* the processes that call it.                                             *)
(***************************************************************************)
EXTENDS Naturals

CONSTANTS Runs,        \* identities of the runs that produce receipts and evidence
          MaxRev,      \* workspace revisions are 1..MaxRev
          MaxRetries,  \* tasks.max_retries
          RunnerStatuses \* what task runners write; "planning", "verifying" and "reviewing"
                         \* are in flight like "executing": no guard here tells them apart

ASSUME RunsAssumption == Runs \subseteq Nat \ {0}
ASSUME RevAssumption == MaxRev \in Nat \ {0}
ASSUME RetryAssumption == MaxRetries \in Nat
ASSUME RunnerAssumption == RunnerStatuses \subseteq {"executing", "failed", "escalated"}

VARIABLES owner,       \* child_preparation_ownership
          edge,        \* task_edges + task_edge_status_overrides
          prep,        \* child_preparations
          cont,        \* workspace_continuations + continuation_status_overrides
          cfg,         \* source revision of sequential_edge_configs, 0 without a row
          task,        \* tasks + task_status_overrides, for the parent and the child
          outbox,      \* child_terminal_settlements
          ws           \* status of the child's workspaces row

ledger == <<owner, edge, prep, cont, cfg, task, outbox, ws>>

-----------------------------------------------------------------------------
Revisions == 1..MaxRev
NoRun == 0
Tasks == {"parent", "child"}
Terminal == {"completed", "failed", "escalated"}
Steps == {"receipt", "trace", "final_receipt"}

OwnerStatuses == {"none", "parent_pending", "parent_accepted", "artifacts_pending",
                  "provider_preparing", "ready", "blocked"}
OwnerActive == {"parent_pending", "parent_accepted", "artifacts_pending", "provider_preparing"}
OwnerAccepted == {"parent_accepted", "artifacts_pending", "provider_preparing", "ready"}
EdgeBase == {"absent", "ready", "claimed", "resumable", "blocked"} \cup Terminal
EdgeOver == {"none", "preparing", "resumable", "delivery_pending"}
EdgeActive == {"preparing", "ready", "claimed", "resumable", "delivery_pending"}
Recoverable == {"claimed", "resumable"}
ContBase == {"absent", "ready", "claimed", "resumable", "blocked"} \cup Terminal
ContOver == {"none", "resumable", "delivery_pending"}
TaskBase == {"absent", "queued", "executing"} \cup Terminal
Extended == {"awaiting_child", "preparing", "awaiting_execution", "resumable", "delivery_pending"}

\* A row's status: the override when there is one, else the base column.
Effective(row) == IF row.over # "none" THEN row.over ELSE row.base

NewTask == [base |-> "queued", over |-> "none", retries |-> 0]

\* setTaskStatus: an extended status only overlays the base; a base status
\* removes the overlay.
WithStatus(row, s) == IF s \in Extended THEN [row EXCEPT !.over = s]
                                        ELSE [row EXCEPT !.base = s, !.over = "none"]
SetTask(rows, t, s) == [rows EXCEPT ![t] = WithStatus(@, s)]
SetTasks(rows, s, c) == SetTask(SetTask(rows, "parent", s), "child", c)

\* Updates of the continuation row touch nothing when the edge has none.
ContWith(b, o) == IF cont.base = "absent" THEN cont ELSE [cont EXCEPT !.base = b, !.over = o]

TypeOK ==
  /\ owner \in [status : OwnerStatuses, started : BOOLEAN,
                receipt : Runs \cup {NoRun}, capable : BOOLEAN]
  /\ edge \in [base : EdgeBase, over : EdgeOver]
  /\ prep \in {"none", "preparing", "ready"}
  /\ cont \in [base : ContBase, over : ContOver, rev : Revisions \cup {0}]
  /\ cfg \in Revisions \cup {0}
  /\ task \in [Tasks -> [base : TaskBase, over : Extended \cup {"none"}, retries : 0..MaxRetries]]
  /\ outbox \in [state : {"none", "pending", "linked"}, status : Terminal \cup {"none"},
                 evidence : Runs \cup {NoRun}, acks : SUBSET Steps]
  /\ ws \in {"absent", "active", "released", "orphaned"}

LedgerInit ==
  /\ owner = [status |-> "none", started |-> FALSE, receipt |-> NoRun, capable |-> FALSE]
  /\ edge = [base |-> "absent", over |-> "none"]
  /\ prep = "none"
  /\ cont = [base |-> "absent", over |-> "none", rev |-> 0]
  /\ cfg = 0
  /\ task = [t \in Tasks |-> [base |-> "absent", over |-> "none", retries |-> 0]]
  /\ outbox = [state |-> "none", status |-> "none", evidence |-> NoRun, acks |-> {}]
  /\ ws = "absent"

-----------------------------------------------------------------------------
(* Tasks and preparation ownership.                                        *)

InsertTask(t) ==
  /\ task[t].base = "absent"
  /\ task' = [task EXCEPT ![t] = NewTask]
  /\ UNCHANGED <<owner, edge, prep, cont, cfg, outbox, ws>>

SetTaskStatus(t, s) ==
  /\ task[t].base # "absent"
  /\ task' = SetTask(task, t, s)
  /\ UNCHANGED <<owner, edge, prep, cont, cfg, outbox, ws>>

SetWorkspaceStatus(s) ==
  /\ ws # "absent"
  /\ ws' = s
  /\ UNCHANGED <<owner, edge, prep, cont, cfg, task, outbox>>

\* A repeated reservation returns the existing row unchanged.
PersistChildPreparationOwner(capable) ==
  /\ task["parent"].base # "absent"
  /\ owner.status = "none"
  /\ owner' = [status |-> "parent_pending", started |-> FALSE, receipt |-> NoRun, capable |-> capable]
  /\ task' = SetTask(task, "parent", "preparing")
  /\ UNCHANGED <<edge, prep, cont, cfg, outbox, ws>>

\* Mutant: the mark of an earlier execution is not looked at.
BeginExecutionAgain ==
  /\ owner.status = "parent_pending"
  /\ owner' = [owner EXCEPT !.started = TRUE]
  /\ UNCHANGED <<edge, prep, cont, cfg, task, outbox, ws>>

\* The execution fence: acquired = TRUE exactly when this action is enabled.
BeginChildParentExecution ==
  /\ owner.status = "parent_pending"
  /\ ~owner.started
  /\ owner' = [owner EXCEPT !.started = TRUE]
  /\ UNCHANGED <<edge, prep, cont, cfg, task, outbox, ws>>

RecordChildParentAcceptance(r) ==
  /\ owner.status = "parent_pending"
  /\ owner' = [owner EXCEPT !.status = "parent_accepted", !.receipt = r]
  /\ task' = SetTask(task, "parent", "awaiting_child")
  /\ UNCHANGED <<edge, prep, cont, cfg, outbox, ws>>

\* The same acceptance recorded before: returned unchanged.
AcceptanceRecorded(r) == owner.status \in OwnerAccepted /\ owner.receipt = r

BeginChildArtifactPersistence ==
  /\ owner.status = "parent_accepted"
  /\ owner' = [owner EXCEPT !.status = "artifacts_pending"]
  /\ UNCHANGED <<edge, prep, cont, cfg, task, outbox, ws>>

BlockChildPreparation ==
  /\ owner.status # "none"
  /\ owner' = [owner EXCEPT !.status = "blocked"]
  /\ task' = SetTask(task, "parent", "failed")
  /\ UNCHANGED <<edge, prep, cont, cfg, outbox, ws>>

-----------------------------------------------------------------------------
(* Attaching the child.                                                    *)

WithChild(rows) == IF rows["child"].base = "absent" THEN [rows EXCEPT !["child"] = NewTask] ELSE rows

\* A provider without continuation support: the edge is attached, then blocked
\* by a later call of blockChild.
PersistBlockedChildIntent ==
  /\ owner.status # "none"
  /\ edge.base = "absent"
  /\ task["parent"].base # "absent"
  /\ task' = WithChild(task)
  /\ edge' = [base |-> "ready", over |-> "none"]
  /\ owner' = [owner EXCEPT !.status = "blocked"]
  /\ UNCHANGED <<prep, cont, cfg, outbox, ws>>

\* The direct attach of a ready edge, with or without a continuation and config.
PersistReadyChildIntent(r, c) ==
  /\ edge.base = "absent"
  /\ \A t \in Tasks : task[t].base # "absent"
  /\ edge' = [base |-> "ready", over |-> "none"]
  /\ cont' = IF r = 0 THEN cont ELSE [base |-> "ready", over |-> "none", rev |-> r]
  /\ cfg' = c
  /\ UNCHANGED <<owner, prep, task, outbox, ws>>

PersistPreparingChildIntent(c) ==
  /\ owner.status \in {"artifacts_pending", "parent_accepted"}
  /\ edge.base = "absent"
  /\ task["parent"].base # "absent"
  /\ edge' = [base |-> "ready", over |-> "preparing"]
  /\ prep' = "preparing"
  /\ cfg' = c
  /\ task' = SetTasks(WithChild(task), "awaiting_child", "preparing")
  /\ owner' = [owner EXCEPT !.status = "provider_preparing"]
  /\ UNCHANGED <<cont, outbox, ws>>

\* The intent attached before: the existing edge is returned unchanged.
IntentAttached == owner.status \in {"provider_preparing", "ready"} /\ edge.base # "absent"

CompleteChildPreparation(r) ==
  /\ Effective(edge) = "preparing"
  /\ cont.base # "absent" => cont.rev = r
  /\ edge' = [edge EXCEPT !.over = "none"]
  /\ cont' = [base |-> "ready", over |-> cont.over, rev |-> r]
  /\ cfg' = r
  /\ prep' = "ready"
  /\ ws' = "active"
  /\ owner' = [owner EXCEPT !.status = "ready"]
  /\ task' = SetTasks(task, "awaiting_child", "awaiting_execution")
  /\ UNCHANGED <<outbox>>

\* Completed before: the ready edge is returned unchanged.
PreparationComplete == Effective(edge) = "ready" /\ owner.status = "ready"

-----------------------------------------------------------------------------
(* Claims, refresh and blocking.                                           *)

\* Mutant: the compare-and-set reads the base column, not the effective status.
ClaimBase(from) ==
  /\ edge.base = from
  /\ edge' = [base |-> "claimed", over |-> "none"]
  /\ cont' = ContWith("claimed", "none")
  /\ UNCHANGED <<owner, prep, cfg, task, outbox, ws>>

\* claimReadyChild and claimResumableChild: a compare-and-set on the effective
\* status; the loser gets null and changes nothing.
Claim(from) ==
  /\ edge.base # "absent"
  /\ Effective(edge) = from
  /\ edge' = [base |-> "claimed", over |-> "none"]
  /\ cont' = ContWith("claimed", "none")
  /\ UNCHANGED <<owner, prep, cfg, task, outbox, ws>>

ClaimReadyChild == Claim("ready")
ClaimResumableChild == Claim("resumable")

\* Mutant: the refresh leaves the manifest's revision.
RefreshKeepsManifest(r) ==
  /\ Effective(edge) \in Recoverable
  /\ cont.base # "absent"
  /\ cont' = [base |-> "resumable", over |-> "resumable", rev |-> r]
  /\ edge' = [edge EXCEPT !.over = "resumable"]
  /\ task' = SetTasks(task, "awaiting_child", "resumable")
  /\ UNCHANGED <<owner, prep, cfg, outbox, ws>>

UpdateResumableChild(r) ==
  /\ Effective(edge) \in Recoverable
  /\ cont.base # "absent"
  /\ cont' = [base |-> "resumable", over |-> "resumable", rev |-> r]
  /\ edge' = [edge EXCEPT !.over = "resumable"]
  /\ cfg' = r
  /\ task' = SetTasks(task, "awaiting_child", "resumable")
  /\ UNCHANGED <<owner, prep, outbox, ws>>

\* Elsewhere blockChild throws.
Blockable == edge.base # "absent" /\ Effective(edge) \notin Terminal \cup {"delivery_pending"}

\* markChildBlocked leaves the override of the continuation in place.
BlockChild ==
  /\ Blockable
  /\ edge' = [base |-> "blocked", over |-> "none"]
  /\ cont' = IF edge.base = "blocked" THEN cont ELSE ContWith("blocked", cont.over)
  /\ task' = SetTasks(task, "failed", "failed")
  /\ UNCHANGED <<owner, prep, cfg, outbox, ws>>

-----------------------------------------------------------------------------
(* Terminal settlement and delivery.                                       *)

BeginChildTerminalSettlement(s, e) ==
  /\ outbox.state = "none"
  /\ Effective(edge) \in Recoverable
  /\ outbox' = [outbox EXCEPT !.state = "pending", !.status = s, !.evidence = e]
  /\ UNCHANGED <<owner, edge, prep, cont, cfg, task, ws>>

\* The identical settlement installed before: returned unchanged.
SettlementInstalled(s, e) == outbox.state # "none" /\ outbox.status = s /\ outbox.evidence = e

MaySettle(s, e, parentStatus) ==
  /\ Effective(edge) \in Recoverable
  /\ outbox.state = "pending" => SettlementInstalled(s, e)
  /\ Effective(task["child"]) \in Terminal => Effective(task["child"]) = s
  /\ Effective(task["parent"]) \in Terminal => Effective(task["parent"]) = parentStatus

Linked == IF outbox.state = "none" THEN outbox ELSE [outbox EXCEPT !.state = "linked"]

\* settleChild(..., { deliveryAcknowledged: false }).
SettleDeferred(s, e) ==
  /\ MaySettle(s, e, "delivery_pending")
  /\ task' = SetTasks(task, "delivery_pending", "delivery_pending")
  /\ edge' = [edge EXCEPT !.over = "delivery_pending"]
  /\ cont' = ContWith(cont.base, "delivery_pending")
  /\ outbox' = Linked
  /\ UNCHANGED <<owner, prep, cfg, ws>>

\* The rows a direct settlement leaves alone.
Settled(t) == IF t = "parent" THEN Effective(task[t]) \in Terminal ELSE task[t].base \in Terminal

\* settleChild without the option.  A base already terminal under an override
\* makes the parent's update throw, and is silently kept for the child.
SettleDirect(s, e) ==
  /\ MaySettle(s, e, s)
  /\ Effective(task["parent"]) \notin Terminal => task["parent"].base \notin Terminal
  /\ edge.base \in Recoverable
  /\ task' = [t \in Tasks |->
       IF Settled(t) THEN [task[t] EXCEPT !.over = "none"]
                     ELSE [task[t] EXCEPT !.base = s, !.over = "none"]]
  /\ edge' = [base |-> s, over |-> "none"]
  /\ cont' = ContWith(s, "none")
  /\ outbox' = Linked
  /\ UNCHANGED <<owner, prep, cfg, ws>>

\* Mutant: the final acknowledgement leaves the edge's override row.
AcknowledgeKeepsOverride(step) ==
  /\ outbox.state = "linked"
  /\ outbox' = [outbox EXCEPT !.acks = @ \cup {step}]
  /\ IF outbox.acks \cup {step} = Steps
       THEN /\ task' = [t \in Tasks |-> [task[t] EXCEPT !.base = outbox.status, !.over = "none"]]
            /\ edge' = [edge EXCEPT !.base = outbox.status]
            /\ cont' = ContWith(outbox.status, "none")
       ELSE UNCHANGED <<task, edge, cont>>
  /\ UNCHANGED <<owner, prep, cfg, ws>>

\* The third acknowledgement commits the terminal outcome everywhere.
AcknowledgeChildDeliveryStep(step) ==
  /\ outbox.state = "linked"
  /\ outbox' = [outbox EXCEPT !.acks = @ \cup {step}]
  /\ IF outbox.acks \cup {step} = Steps
       THEN /\ task' = [t \in Tasks |-> [task[t] EXCEPT !.base = outbox.status, !.over = "none"]]
            /\ edge' = [base |-> outbox.status, over |-> "none"]
            /\ cont' = ContWith(outbox.status, "none")
       ELSE UNCHANGED <<task, edge, cont>>
  /\ UNCHANGED <<owner, prep, cfg, ws>>

\* recordChildDeliveryFailure and noteChildDeliveryProcessLoss write error columns
\* that only reports read; they are left out.

-----------------------------------------------------------------------------
(* Boot reconciliation.  v is the boot validation of the edge: "valid",     *)
(* "invalid", or "none" when the edge was not among the validated ones.     *)

FencedParent == IF owner.status = "parent_pending" /\ owner.started
                  THEN SetTask(task, "parent", "preparing") ELSE task

\* Mutant: boot does not look for an outbox.
BootLeavesEdgeNoOutbox(v) ==
  \/ edge.base = "absent" \/ Effective(edge) \notin EdgeActive
  \/ Effective(edge) = "preparing"
  \/ Effective(edge) = "ready" /\ v # "invalid"
  \/ Effective(edge) # "claimed" /\ v = "valid"

BootLeavesEdge(v) ==
  \/ edge.base = "absent" \/ Effective(edge) \notin EdgeActive
  \/ outbox.state # "none"
  \/ Effective(edge) = "preparing"
  \/ Effective(edge) = "ready" /\ v # "invalid"
  \/ Effective(edge) # "claimed" /\ v = "valid"

BootKeeps(v) ==
  /\ BootLeavesEdge(v)
  /\ task' = FencedParent
  /\ UNCHANGED <<owner, edge, prep, cont, cfg, outbox, ws>>

BootResumes(v) ==
  /\ ~BootLeavesEdge(v)
  /\ v = "valid"
  /\ edge' = [base |-> "resumable", over |-> "resumable"]
  /\ cont' = ContWith("resumable", "resumable")
  /\ task' = SetTasks(FencedParent, "awaiting_child", "resumable")
  /\ UNCHANGED <<owner, prep, cfg, outbox, ws>>

BootBlocks(v) ==
  /\ ~BootLeavesEdge(v)
  /\ v # "valid"
  /\ edge' = [base |-> "blocked", over |-> "none"]
  /\ cont' = ContWith("blocked", "none")
  /\ task' = SetTasks(FencedParent, "failed", "failed")
  /\ UNCHANGED <<owner, prep, cfg, outbox, ws>>

ReconcileChildEdgesOnBoot(v) == BootKeeps(v) \/ BootResumes(v) \/ BootBlocks(v)

\* Mutant: a claimed edge does not own its tasks.
EdgeOwnedUnlessClaimed == edge.base # "absent" /\ Effective(edge) \in EdgeActive \ {"claimed"}

EdgeOwned == edge.base # "absent" /\ Effective(edge) \in EdgeActive
Orphaned(t) == Effective(task[t]) = "executing" /\ ~EdgeOwned /\ owner.status \notin OwnerActive

\* reconcileOnBoot with reconcileCrashedTask: requeue while retries remain.
ReconcileOnBoot ==
  /\ task' = [t \in Tasks |->
       IF ~Orphaned(t) THEN task[t]
       ELSE IF task[t].retries < MaxRetries
              THEN [task[t] EXCEPT !.base = "queued", !.retries = @ + 1]
              ELSE [task[t] EXCEPT !.base = "failed"]]
  /\ UNCHANGED <<owner, edge, prep, cont, cfg, outbox, ws>>

-----------------------------------------------------------------------------
TaskStep == \E t \in Tasks : InsertTask(t) \/ \E s \in RunnerStatuses : SetTaskStatus(t, s)

WorkspaceStep == \E s \in {"active", "released", "orphaned"} : SetWorkspaceStatus(s)

OwnerStep ==
  \/ \E capable \in BOOLEAN : PersistChildPreparationOwner(capable)
  \/ BeginChildParentExecution
  \/ \E r \in Runs : RecordChildParentAcceptance(r)
  \/ BeginChildArtifactPersistence
  \/ BlockChildPreparation

AttachStep ==
  \/ PersistBlockedChildIntent
  \/ \E r, c \in Revisions \cup {0} : PersistReadyChildIntent(r, c)
  \/ \E c \in Revisions : PersistPreparingChildIntent(c)
  \/ \E r \in Revisions : CompleteChildPreparation(r)

EdgeStep ==
  \/ ClaimReadyChild
  \/ ClaimResumableChild
  \/ \E r \in Revisions : UpdateResumableChild(r)
  \/ BlockChild

SettleStep ==
  \/ \E s \in Terminal, e \in Runs :
       \/ BeginChildTerminalSettlement(s, e)
       \/ SettleDeferred(s, e)
       \/ SettleDirect(s, e)
  \/ \E step \in Steps : AcknowledgeChildDeliveryStep(step)

BootStep ==
  \/ \E v \in {"none", "valid", "invalid"} : ReconcileChildEdgesOnBoot(v)
  \/ ReconcileOnBoot

LedgerNext ==
  TaskStep \/ WorkspaceStep \/ OwnerStep \/ AttachStep \/ EdgeStep \/ SettleStep \/ BootStep

LedgerSpec == LedgerInit /\ [][LedgerNext]_ledger

-----------------------------------------------------------------------------
(* The lifecycle the ledger implements: ChildEdge over the status readers   *)
(* see and the outcome the linked outbox, or a direct settlement, fixed.    *)

Outcome == IF outbox.state = "linked" THEN outbox.status
           ELSE IF Effective(edge) \in Terminal THEN Effective(edge) ELSE "none"

Abstract == INSTANCE ChildEdge WITH phase <- Effective(edge), outcome <- Outcome

\* Whatever the callers do, the two tables and the outbox together move the edge
\* only as ChildEdge allows: an edge never leaves a terminal or blocked phase, is
\* never claimed twice without a release, and evidence once linked decides it.
ImplementsChildEdge == Abstract!Spec

\* An override never hides a settled base: a terminal or blocked edge row has
\* none, so every reader that joins the overlay sees the outcome.
OverlayNeverHidesOutcome == edge.base \in Terminal \cup {"blocked"} => edge.over = "none"

\* Linked terminal evidence decides the edge: it is delivery-pending or has
\* exactly the status the outbox holds, whatever is called afterwards.
LinkedFixesOutcome ==
  outbox.state = "linked" => Effective(edge) \in {"delivery_pending", outbox.status}

\* The edge of a linked outbox still waits while one of the three external
\* deliveries is missing, unless it was settled directly; once all three are
\* acknowledged, it is terminal.
DeliveredMeansTerminal ==
  outbox.state = "linked" /\ outbox.acks = Steps => Effective(edge) = outbox.status

\* Terminal rows are immutable (settleChild, blockChild): no method moves an
\* edge from a terminal status to another status.
TerminalImmutable == [][Effective(edge) \in Terminal => Effective(edge') = Effective(edge)]_ledger

\* "Repeating the call must describe the exact same terminal outcome": an
\* installed outbox never changes its outcome or evidence, never goes back
\* from linked, and never loses an acknowledgement.
OutboxImmutable ==
  [][outbox.state # "none" =>
       /\ outbox'.status = outbox.status /\ outbox'.evidence = outbox.evidence
       /\ outbox'.state \in {outbox.state, "linked"}
       /\ outbox.acks \subseteq outbox'.acks]_ledger

\* The acceptance of the parent is durable: once recorded, its receipt is never
\* replaced and the owner never waits for the parent again.
AcceptanceDurable ==
  [][owner.receipt # NoRun =>
       owner'.receipt = owner.receipt /\ owner'.status # "parent_pending"]_ledger
=============================================================================
