------------------------ MODULE SequentialDaemonProofs ------------------------
(***************************************************************************)
(* Proofs about SequentialDaemon, for any processes, kinds of invocation,  *)
(* runs and revisions, any number of losses and of faults.                 *)
(*                                                                         *)
(* Whatever number of processes share the ledger: every step is a step of  *)
(* LedgerSpec, so that ChildLedgerProofs speaks of the daemon too; the     *)
(* parent runs once; deliveries come in order; the workspace is kept; the  *)
(* manifest and the continuation agree.                                    *)
(*                                                                         *)
(* Three promises are about one process at a time (OneProcess), lost and   *)
(* restarted at will: a second process's boot takes the live claim of the  *)
(* first one for a dead one, and then they fail.  That the outbox stays    *)
(* recoverable also needs ~Resubmit, as the run resubmit_strands_outbox    *)
(* shows.                                                                  *)
(***************************************************************************)
EXTENDS SequentialDaemon, ChildLedgerProofs

-----------------------------------------------------------------------------
(* The program counter's labels and the type of a process's locals.        *)

\* Labels of boot, of a submission, and all of them.
Booting == {"validate", "reconcile", "generic"}
Submitting == {"recheck", "lookup", "insert", "reserve", "decide", "fence", "blockprep",
               "parent", "parentrun", "artifacts", "attach"}
Labels == Booting \cup Submitting \cup
  {"idle", "provider", "complete", "blockedge", "select", "read", "outbox", "manifest", "claim", "resume",
   "child", "spawn", "childrun", "preserve", "refresh", "giveup", "begin", "abandon", "write", "settle",
   "cleanup", "replay", "resettle", "canon", "receipt", "trace", "final"}

\* The values a process's locals take.
Locals == [pc : Labels, kind : {"none", "submit", "resume", "other"}, v : {"none", "valid", "invalid"},
           edge : EdgeBase \cup EdgeOver, own : OwnerStatuses, fenced : BOOLEAN, sess : BOOLEAN, saw : BOOLEAN,
           cap : BOOLEAN, cfg : Revisions \cup {0}, rev : Revisions \cup {0}, res : Terminal \cup {"none"},
           run : Runs \cup {NoRun}, pend : BOOLEAN, ok : BOOLEAN]

Typed == proc \in [Procs -> Locals]

-----------------------------------------------------------------------------
(* What the daemon calls of the ledger.                                    *)

\* The parent's preparation has left its first phase for good.
Past == owner.status \notin {"none", "parent_pending"}

\* The ledger calls that a process may make wherever it is.
Quiet ==
  \/ \E t \in Tasks : InsertTask(t) \/ \E s \in {"failed", "escalated"} : SetTaskStatus(t, s)
  \/ SetWorkspaceStatus("active")
  \/ outbox.state = "linked" /\ \E s \in {"released", "orphaned"} : SetWorkspaceStatus(s)
  \/ OwnerStep
  \/ Past /\ PersistBlockedChildIntent
  \/ \E c \in Revisions : PersistPreparingChildIntent(c)
  \/ \E r \in Revisions : CompleteChildPreparation(r)
  \/ ClaimReadyChild \/ ClaimResumableChild
  \/ \E r \in Revisions : UpdateResumableChild(r)
  \/ \E s \in Terminal, e \in Runs : BeginChildTerminalSettlement(s, e) \/ SettleDeferred(s, e)
  \/ \E step \in Steps : /\ step = "final_receipt" => "receipt" \in outbox.acks /\ "trace" \in outbox.acks
                         /\ AcknowledgeChildDeliveryStep(step)
  \/ BootStep

\* A runner marks a task as executing.
Launch(t) == SetTaskStatus(t, "executing")

\* All ledger calls of the daemon.
DaemonCall == Quiet \/ (\E t \in Tasks : Launch(t)) \/ BlockChild

\* Every ledger call of the daemon is one of LedgerSpec's methods.
LEMMA CallIsLedgerStep ==
  ASSUME DaemonCall
  PROVE  LedgerNext
<1>1. CASE Quiet
  BY <1>1, RunnersAssumption DEF Quiet, LedgerNext, TaskStep, WorkspaceStep, AttachStep, EdgeStep, SettleStep
<1>2. CASE \E t \in Tasks : Launch(t)
  BY <1>2, RunnersAssumption DEF Launch, LedgerNext, TaskStep
<1>3. CASE BlockChild
  BY <1>3 DEF LedgerNext, EdgeStep
<1> QED BY <1>1, <1>2, <1>3 DEF DaemonCall

\* An outbox names the evidence it was installed with.
Evidenced == outbox.state # "none" => outbox.evidence \in Runs

\* A continuation belongs to an edge and is at the manifest's revision.
ContShape == /\ edge.base = "absent" => cont.base = "absent"
             /\ cont.base # "absent" => cont.rev = cfg

\* What a call does to the outbox: nothing, install it, link it, or acknowledge
\* a step, the final receipt only after the other two.
LEMMA OutboxMoves ==
  ASSUME TypeOK, DaemonCall
  PROVE  \/ UNCHANGED outbox
         \/ /\ outbox.state = "none" /\ outbox'.state = "pending" /\ outbox'.acks = outbox.acks
            /\ outbox'.evidence \in Runs
         \/ /\ outbox.state # "none" /\ outbox'.state = "linked" /\ outbox'.acks = outbox.acks
            /\ outbox'.evidence = outbox.evidence
         \/ /\ outbox.state = "linked" /\ outbox'.state = "linked"
            /\ outbox'.evidence = outbox.evidence
            /\ outbox.acks \subseteq outbox'.acks /\ outbox'.acks \subseteq Steps
            /\ "final_receipt" \in outbox'.acks =>
                 "final_receipt" \in outbox.acks \/ ("receipt" \in outbox.acks /\ "trace" \in outbox.acks)
<1> USE DEF TypeOK
<1>1. ASSUME NEW s \in Terminal, NEW e \in Runs, BeginChildTerminalSettlement(s, e)
      PROVE  /\ outbox.state = "none" /\ outbox'.state = "pending" /\ outbox'.acks = outbox.acks
             /\ outbox'.evidence \in Runs
  BY <1>1 DEF BeginChildTerminalSettlement
<1>2. ASSUME NEW s \in Terminal, NEW e \in Runs, SettleDeferred(s, e)
      PROVE  \/ UNCHANGED outbox
             \/ /\ outbox.state # "none" /\ outbox'.state = "linked" /\ outbox'.acks = outbox.acks
                /\ outbox'.evidence = outbox.evidence
  BY <1>2 DEF SettleDeferred, Linked
<1>3. ASSUME NEW step \in Steps, AcknowledgeChildDeliveryStep(step),
             step = "final_receipt" => "receipt" \in outbox.acks /\ "trace" \in outbox.acks
      PROVE  /\ outbox.state = "linked" /\ outbox'.state = "linked"
             /\ outbox'.evidence = outbox.evidence
             /\ outbox.acks \subseteq outbox'.acks /\ outbox'.acks \subseteq Steps
             /\ "final_receipt" \in outbox'.acks =>
                  "final_receipt" \in outbox.acks \/ ("receipt" \in outbox.acks /\ "trace" \in outbox.acks)
  <2>1. /\ outbox.state = "linked" /\ outbox'.state = "linked"
        /\ outbox'.evidence = outbox.evidence /\ outbox'.acks = outbox.acks \cup {step}
    BY <1>3 DEF AcknowledgeChildDeliveryStep
  <2> QED BY <1>3, <2>1
<1>4. ASSUME NEW t \in Tasks, NEW s, InsertTask(t) \/ SetTaskStatus(t, s) \/ SetWorkspaceStatus(s)
      PROVE  UNCHANGED outbox
  BY <1>4 DEF InsertTask, SetTaskStatus, SetWorkspaceStatus
<1>5. ASSUME NEW r, OwnerStep \/ PersistBlockedChildIntent \/ PersistPreparingChildIntent(r) \/ CompleteChildPreparation(r)
      PROVE  UNCHANGED outbox
  BY <1>5 DEF OwnerStep, PersistChildPreparationOwner, BeginChildParentExecution, RecordChildParentAcceptance,
     BeginChildArtifactPersistence, BlockChildPreparation, PersistBlockedChildIntent,
     PersistPreparingChildIntent, CompleteChildPreparation
<1>6. ASSUME NEW r, ClaimReadyChild \/ ClaimResumableChild \/ UpdateResumableChild(r) \/ BlockChild \/ BootStep
      PROVE  UNCHANGED outbox
  BY <1>6 DEF ClaimReadyChild, ClaimResumableChild, Claim, UpdateResumableChild, BlockChild, BootStep,
     ReconcileChildEdgesOnBoot, BootKeeps, BootResumes, BootBlocks, ReconcileOnBoot
<1>8. CASE Quiet
  BY <1>1, <1>2, <1>3, <1>4, <1>5, <1>6, <1>8 DEF Quiet, Tasks
<1> QED BY <1>4, <1>6, <1>8 DEF DaemonCall, Launch

\* A reservation is never taken back, nor its execution mark, and a preparation never
\* goes back to its first phase.
LEMMA OwnerRemains ==
  ASSUME TypeOK, DaemonCall
  PROVE  /\ owner.status # "none" => owner'.status # "none"
         /\ Past => Past'
         /\ owner.started /\ owner.status # "none" => owner'.started
         /\ owner'.started => owner.started \/ owner'.status # "none"
<1> USE DEF TypeOK
<1>1. ASSUME NEW t \in Tasks, NEW s, InsertTask(t) \/ SetTaskStatus(t, s) \/ SetWorkspaceStatus(s)
      PROVE  UNCHANGED owner
  BY <1>1 DEF InsertTask, SetTaskStatus, SetWorkspaceStatus
<1>2. ASSUME NEW s, NEW e, BeginChildTerminalSettlement(s, e) \/ SettleDeferred(s, e)
                             \/ AcknowledgeChildDeliveryStep(s) \/ UpdateResumableChild(s)
      PROVE  UNCHANGED owner
  BY <1>2 DEF BeginChildTerminalSettlement, SettleDeferred, AcknowledgeChildDeliveryStep, UpdateResumableChild
<1>3. ASSUME ClaimReadyChild \/ ClaimResumableChild \/ BlockChild \/ BootStep
      PROVE  UNCHANGED owner
  BY <1>3 DEF ClaimReadyChild, ClaimResumableChild, Claim, BlockChild, BootStep,
     ReconcileChildEdgesOnBoot, BootKeeps, BootResumes, BootBlocks, ReconcileOnBoot
<1> DEFINE Remains == /\ owner.status # "none" => owner'.status # "none"
                      /\ Past => Past'
                      /\ owner.started /\ owner.status # "none" => owner'.started
                      /\ owner'.started => owner.started \/ owner'.status # "none"
<1>u. UNCHANGED owner => Remains BY DEF Past
<1>4. CASE OwnerStep
  <2>1. ASSUME NEW capable \in BOOLEAN, PersistChildPreparationOwner(capable) PROVE Remains
    BY <2>1 DEF PersistChildPreparationOwner, Past
  <2>2. CASE BeginChildParentExecution
    BY <2>2 DEF BeginChildParentExecution, Past
  <2>3. ASSUME NEW r \in Runs, RecordChildParentAcceptance(r) PROVE Remains
    BY <2>3 DEF RecordChildParentAcceptance, Past
  <2>4. CASE BeginChildArtifactPersistence \/ BlockChildPreparation
    BY <2>4 DEF BeginChildArtifactPersistence, BlockChildPreparation, Past
  <2> QED BY <1>4, <2>1, <2>2, <2>3, <2>4 DEF OwnerStep
<1>5. ASSUME NEW r, PersistBlockedChildIntent \/ PersistPreparingChildIntent(r)
             \/ CompleteChildPreparation(r)
      PROVE  Remains
  BY <1>5 DEF PersistBlockedChildIntent, PersistPreparingChildIntent, CompleteChildPreparation, Past
<1>8. ASSUME Quiet PROVE Remains
  BY <1>1, <1>2, <1>3, <1>4, <1>5, <1>8, Zenon, <1>u DEF Quiet, Tasks
<1>9. Remains BY <1>1, <1>3, <1>8, <1>u DEF DaemonCall, Launch
<1> QED BY <1>9

\* The outbox's evidence and the order of its acknowledgements survive every call,
\* and an outbox only goes forward.
LEMMA OutboxFacts ==
  ASSUME IInv, DaemonCall, Evidenced, FinalReceiptLast
  PROVE  /\ Evidenced' /\ FinalReceiptLast'
         /\ outbox.state # "none" => outbox'.state # "none"
         /\ outbox.state = "linked" => outbox'.state = "linked"
         /\ outbox.acks \subseteq outbox'.acks
<1>0. TypeOK BY DEF IInv
<1>1. /\ Evidenced'
      /\ outbox.state # "none" => outbox'.state # "none"
      /\ outbox.state = "linked" => outbox'.state = "linked"
  BY <1>0, OutboxMoves DEF Evidenced
<1>2. outbox.acks \subseteq outbox'.acks
  BY <1>0, OutboxMoves
<1>3. FinalReceiptLast'
  <2>1. CASE outbox'.acks = outbox.acks BY <2>1 DEF FinalReceiptLast
  <2>2. CASE /\ outbox'.acks \subseteq Steps
             /\ "final_receipt" \in outbox'.acks =>
                  "final_receipt" \in outbox.acks \/ ("receipt" \in outbox.acks /\ "trace" \in outbox.acks)
    BY <1>2, <2>2 DEF FinalReceiptLast, Steps
  <2> QED BY <1>0, <2>1, <2>2, OutboxMoves
<1> QED BY <1>1, <1>2, <1>3

\* Writing a continuation's status leaves its revision alone.
LEMMA StatusKeepsRevision ==
  ASSUME NEW b, NEW o, cont \in ContRow, b # "absent"
  PROVE  /\ ContWith(b, o).rev = cont.rev
         /\ ContWith(b, o).base = "absent" <=> cont.base = "absent"
BY DEF ContWith, ContRow

\* Every method that writes the continuation or the manifest writes the other as well.
LEMMA ContinuationFacts ==
  ASSUME IInv, DaemonCall, ContShape
  PROVE  ContShape'
<1> USE TypeRows, EffectiveFacts DEF IInv, Safe
<1> DEFINE Restated == /\ cont'.rev = cont.rev /\ cfg' = cfg
                       /\ cont'.base = "absent" <=> cont.base = "absent"
                       /\ edge'.base = "absent" => edge.base = "absent"
<1>r. Restated => ContShape' BY DEF ContShape
<1>1. ASSUME NEW t, NEW s, NEW e, InsertTask(t) \/ SetTaskStatus(t, s) \/ SetWorkspaceStatus(s) \/ OwnerStep
                                \/ BeginChildTerminalSettlement(s, e) \/ ReconcileOnBoot
      PROVE  Restated
  BY <1>1 DEF InsertTask, SetTaskStatus, SetWorkspaceStatus, OwnerStep, PersistChildPreparationOwner,
     BeginChildParentExecution, RecordChildParentAcceptance, BeginChildArtifactPersistence,
     BlockChildPreparation, BeginChildTerminalSettlement, ReconcileOnBoot
<1>2. ASSUME NEW r, PersistBlockedChildIntent \/ PersistPreparingChildIntent(r) PROVE ContShape'
  BY <1>2 DEF PersistBlockedChildIntent, PersistPreparingChildIntent, ContShape
<1>3. ASSUME NEW r, CompleteChildPreparation(r) \/ UpdateResumableChild(r) PROVE ContShape'
  <2>1. cont'.rev = r /\ cfg' = r /\ edge'.base = edge.base /\ edge.base # "absent"
    BY <1>3 DEF CompleteChildPreparation, UpdateResumableChild, TypeOK, Recoverable
  <2> QED BY <2>1 DEF ContShape
<1>4. ASSUME NEW from, Claim(from) \/ BlockChild PROVE Restated
  BY <1>4, StatusKeepsRevision DEF Claim, BlockChild, Blockable
<1>5. ASSUME NEW v, BootKeeps(v) \/ BootResumes(v) \/ BootBlocks(v) PROVE Restated
  BY <1>5, StatusKeepsRevision DEF BootKeeps, BootResumes, BootBlocks
<1>6. ASSUME NEW s, NEW e, SettleDeferred(s, e) PROVE Restated
  <2>1. edge'.base = edge.base BY <1>6 DEF SettleDeferred, TypeOK
  <2>2. cont.base = "absent" => cont' = cont BY <1>6 DEF SettleDeferred, ContWith
  <2>3. cont.base # "absent" => cont'.rev = cont.rev /\ cont'.base # "absent"
    BY <1>6, StatusKeepsRevision DEF SettleDeferred
  <2> QED BY <1>6, <2>1, <2>2, <2>3 DEF SettleDeferred
<1>7. ASSUME NEW step \in Steps, AcknowledgeChildDeliveryStep(step) PROVE Restated
  <2>1. outbox.status \in Terminal /\ outbox.status # "absent" /\ cfg' = cfg
    BY <1>7 DEF AcknowledgeChildDeliveryStep, OutboxShape, TypeOK, Terminal
  <2>2. CASE outbox.acks \cup {step} = Steps
    <3>1. edge' = [base |-> outbox.status, over |-> "none"] /\ cont' = ContWith(outbox.status, "none")
      BY <1>7, <2>2, Zenon DEF AcknowledgeChildDeliveryStep
    <3> QED BY <2>1, <3>1, StatusKeepsRevision
  <2>3. CASE outbox.acks \cup {step} # Steps
    <3>1. edge' = edge /\ cont' = cont BY <1>7, <2>3, Zenon DEF AcknowledgeChildDeliveryStep
    <3> QED BY <2>1, <3>1
  <2> QED BY <2>2, <2>3
<1>8. BootStep => ContShape'
  BY <1>1, <1>5, <1>r, Zenon DEF BootStep, ReconcileChildEdgesOnBoot
<1> HIDE DEF Restated
<1>9. Quiet => ContShape'
  BY <1>1, <1>2, <1>3, <1>4, <1>6, <1>7, <1>8, <1>r, Zenon DEF Quiet, ClaimReadyChild, ClaimResumableChild
<1> QED BY <1>1, <1>4, <1>9, <1>r, Zenon DEF DaemonCall, Launch

\* The workspace is released or orphaned only under a linked outbox.
LEMMA WorkspaceFacts ==
  ASSUME IInv, DaemonCall, Evidenced, FinalReceiptLast, WorkspaceOutlivesRecovery
  PROVE  WorkspaceOutlivesRecovery'
<1> DEFINE Held == ws' \in {"released", "orphaned"} => ws' = ws \/ outbox.state = "linked"
<1>1. ASSUME NEW t, NEW s, NEW e, InsertTask(t) \/ SetTaskStatus(t, s) \/ OwnerStep \/ BlockChild
               \/ BeginChildTerminalSettlement(s, e) \/ SettleDeferred(s, e) \/ AcknowledgeChildDeliveryStep(s)
      PROVE  Held
  BY <1>1 DEF InsertTask, SetTaskStatus, OwnerStep, PersistChildPreparationOwner, BlockChild,
     BeginChildParentExecution, RecordChildParentAcceptance, BeginChildArtifactPersistence, SettleDeferred,
     BlockChildPreparation, BeginChildTerminalSettlement, AcknowledgeChildDeliveryStep
<1>2. ASSUME NEW r, PersistBlockedChildIntent \/ PersistPreparingChildIntent(r) \/ CompleteChildPreparation(r)
               \/ UpdateResumableChild(r) \/ Claim(r)
      PROVE Held
  BY <1>2 DEF PersistBlockedChildIntent, PersistPreparingChildIntent, CompleteChildPreparation,
     UpdateResumableChild, Claim
<1>3. BootStep => Held
  BY DEF BootStep, ReconcileChildEdgesOnBoot, BootKeeps, BootResumes, BootBlocks, ReconcileOnBoot
<1>4. SetWorkspaceStatus("active") => Held
  BY DEF SetWorkspaceStatus
<1>5. outbox.state = "linked" => Held OBVIOUS
<1>6. Held
  BY <1>1, <1>2, <1>3, <1>4, <1>5, Zenon DEF DaemonCall, Launch, Quiet, ClaimReadyChild, ClaimResumableChild
<1> QED BY <1>6, OutboxFacts DEF WorkspaceOutlivesRecovery

-----------------------------------------------------------------------------
(* One process moves: what each assignment to proc does.                   *)

\* Process p moves, and no other.
Alone(p) == /\ proc' \in [Procs -> Locals]
            /\ \A q \in Procs \ {p} : proc'[q] = proc[q]

\* Process p's locals become n.
Becomes(p, n) == Alone(p) /\ proc'[p] = n

\* Assigning locals of the right type keeps Typed.
LEMMA SetLocals ==
  ASSUME Typed, NEW p \in Procs, NEW n \in Locals, proc' = [proc EXCEPT ![p] = n]
  PROVE  Becomes(p, n)
BY DEF Typed, Becomes, Alone

\* Process p goes on to label l; what later steps rely on is as it was.
Hop(p, l) == /\ Alone(p)
             /\ proc'[p].pc = l
             /\ proc'[p].kind = proc[p].kind
             /\ proc'[p].edge = proc[p].edge
             /\ proc'[p].own = proc[p].own
             /\ proc'[p].saw = proc[p].saw
             /\ proc'[p].rev = proc[p].rev
             /\ proc'[p].res = proc[p].res
             /\ proc'[p].run = proc[p].run
             /\ proc'[p].ok = proc[p].ok

\* Go changes the label only.
LEMMA GoHops ==
  ASSUME Typed, NEW p \in Procs, NEW l \in Labels, Go(p, l)
  PROVE  Hop(p, l)
<1>1. proc' = [proc EXCEPT ![p] = [proc[p] EXCEPT !.pc = l]]
  BY DEF Go, Typed
<1>2. proc[p] \in Locals BY DEF Typed
<1>3. [proc[p] EXCEPT !.pc = l] \in Locals BY <1>2 DEF Locals
<1>4. Becomes(p, [proc[p] EXCEPT !.pc = l]) BY <1>1, <1>3, SetLocals
<1> QED BY <1>2, <1>4 DEF Becomes, Hop, Locals

\* Stop forgets the locals.
LEMMA StopIdles ==
  ASSUME Typed, NEW p \in Procs, Stop(p)
  PROVE  Becomes(p, Idle)
<1>1. Idle \in Locals BY DEF Idle, Locals, NoRun, Labels, EdgeBase, OwnerStatuses
<1> QED BY <1>1, SetLocals DEF Stop

\* The step that keeps boot's validation result.
LEMMA HopV ==
  ASSUME Typed, NEW p \in Procs, NEW l \in Labels, NEW v \in {"none", "valid", "invalid"},
         proc' = [proc EXCEPT ![p].pc = l, ![p].v = v]
  PROVE  /\ Alone(p) /\ proc'[p].pc = l
         /\ proc'[p].kind = proc[p].kind /\ proc'[p].edge = proc[p].edge /\ proc'[p].own = proc[p].own
         /\ proc'[p].saw = proc[p].saw /\ proc'[p].rev = proc[p].rev /\ proc'[p].res = proc[p].res
         /\ proc'[p].run = proc[p].run /\ proc'[p].ok = proc[p].ok
<1> DEFINE n == [proc[p] EXCEPT !.pc = l, !.v = v]
<1>1. proc' = [proc EXCEPT ![p] = n] BY DEF Typed
<1>2. proc[p] \in Locals BY DEF Typed
<1>3. n \in Locals BY <1>2 DEF Locals
<1>4. Becomes(p, n) BY <1>1, <1>3, SetLocals
<1>5. n.pc = l /\ n.kind = proc[p].kind /\ n.edge = proc[p].edge /\ n.own = proc[p].own /\ n.saw = proc[p].saw /\ n.rev = proc[p].rev /\ n.res = proc[p].res /\ n.run = proc[p].run /\ n.ok = proc[p].ok
  BY <1>2 DEF Locals
<1> HIDE DEF n
<1> QED BY <1>4, <1>5 DEF Becomes

\* The step that keeps whether an owner was seen.
LEMMA HopSaw ==
  ASSUME Typed, NEW p \in Procs, NEW l \in Labels, NEW b \in BOOLEAN,
         proc' = [proc EXCEPT ![p].pc = l, ![p].saw = b]
  PROVE  /\ Alone(p) /\ proc'[p].pc = l
         /\ proc'[p].saw = b
         /\ proc'[p].kind = proc[p].kind /\ proc'[p].edge = proc[p].edge /\ proc'[p].own = proc[p].own
         /\ proc'[p].rev = proc[p].rev /\ proc'[p].res = proc[p].res /\ proc'[p].run = proc[p].run
         /\ proc'[p].ok = proc[p].ok
<1> DEFINE n == [proc[p] EXCEPT !.pc = l, !.saw = b]
<1>1. proc' = [proc EXCEPT ![p] = n] BY DEF Typed
<1>2. proc[p] \in Locals BY DEF Typed
<1>3. n \in Locals BY <1>2 DEF Locals
<1>4. Becomes(p, n) BY <1>1, <1>3, SetLocals
<1>5. n.pc = l /\ n.kind = proc[p].kind /\ n.edge = proc[p].edge /\ n.own = proc[p].own /\ n.saw = b /\ n.rev = proc[p].rev /\ n.res = proc[p].res /\ n.run = proc[p].run /\ n.ok = proc[p].ok
  BY <1>2 DEF Locals
<1> HIDE DEF n
<1> QED BY <1>4, <1>5 DEF Becomes

\* The step that keeps a reservation's status and capability.
LEMMA HopOwner ==
  ASSUME Typed, NEW p \in Procs, NEW l \in Labels, NEW c \in BOOLEAN, NEW o \in OwnerStatuses,
         proc' = [proc EXCEPT ![p].pc = l, ![p].cap = c, ![p].own = o]
  PROVE  /\ Alone(p) /\ proc'[p].pc = l
         /\ proc'[p].own = o
         /\ proc'[p].kind = proc[p].kind /\ proc'[p].edge = proc[p].edge /\ proc'[p].saw = proc[p].saw
         /\ proc'[p].rev = proc[p].rev /\ proc'[p].res = proc[p].res /\ proc'[p].run = proc[p].run
         /\ proc'[p].ok = proc[p].ok
<1> DEFINE n == [proc[p] EXCEPT !.pc = l, !.cap = c, !.own = o]
<1>1. proc' = [proc EXCEPT ![p] = n] BY DEF Typed
<1>2. proc[p] \in Locals BY DEF Typed
<1>3. n \in Locals BY <1>2 DEF Locals
<1>4. Becomes(p, n) BY <1>1, <1>3, SetLocals
<1>5. n.pc = l /\ n.kind = proc[p].kind /\ n.edge = proc[p].edge /\ n.own = o /\ n.saw = proc[p].saw /\ n.rev = proc[p].rev /\ n.res = proc[p].res /\ n.run = proc[p].run /\ n.ok = proc[p].ok
  BY <1>2 DEF Locals
<1> HIDE DEF n
<1> QED BY <1>4, <1>5 DEF Becomes

\* The step that reads them from the owner's row.
LEMMA HopOwnerSeen ==
  ASSUME Typed, TypeOK, NEW p \in Procs,
         proc' = [proc EXCEPT ![p].pc = "decide", ![p].cap = owner.capable, ![p].own = owner.status,
                              ![p].fenced = owner.started]
  PROVE  /\ Alone(p) /\ proc'[p].pc = "decide"
         /\ proc'[p].own = owner.status /\ proc'[p].ok = proc[p].ok
<1> DEFINE n == [proc[p] EXCEPT !.pc = "decide", !.cap = owner.capable, !.own = owner.status,
                                !.fenced = owner.started]
<1>1. proc' = [proc EXCEPT ![p] = n] BY DEF Typed
<1>2. proc[p] \in Locals BY DEF Typed
<1>3. owner.status \in OwnerStatuses /\ owner.capable \in BOOLEAN /\ owner.started \in BOOLEAN
  BY DEF TypeOK
<1>4. "decide" \in Labels BY DEF Labels, Submitting
<1>5. n \in Locals BY <1>2, <1>3, <1>4 DEF Locals
<1>6. Becomes(p, n) BY <1>1, <1>5, SetLocals
<1>7. n.pc = "decide" /\ n.own = owner.status /\ n.ok = proc[p].ok BY <1>2 DEF Locals
<1> HIDE DEF n
<1> QED BY <1>6, <1>7 DEF Becomes

\* The step that keeps whether a parent session was seen.
LEMMA HopSess ==
  ASSUME Typed, NEW p \in Procs, NEW l \in Labels, NEW b \in BOOLEAN,
         proc' = [proc EXCEPT ![p].pc = l, ![p].sess = b]
  PROVE  /\ Alone(p) /\ proc'[p].pc = l
         /\ proc'[p].kind = proc[p].kind /\ proc'[p].edge = proc[p].edge /\ proc'[p].own = proc[p].own
         /\ proc'[p].saw = proc[p].saw /\ proc'[p].rev = proc[p].rev /\ proc'[p].res = proc[p].res
         /\ proc'[p].run = proc[p].run /\ proc'[p].ok = proc[p].ok
<1> DEFINE n == [proc[p] EXCEPT !.pc = l, !.sess = b]
<1>1. proc' = [proc EXCEPT ![p] = n] BY DEF Typed
<1>2. proc[p] \in Locals BY DEF Typed
<1>3. n \in Locals BY <1>2 DEF Locals
<1>4. Becomes(p, n) BY <1>1, <1>3, SetLocals
<1>5. n.pc = l /\ n.kind = proc[p].kind /\ n.edge = proc[p].edge /\ n.own = proc[p].own /\ n.saw = proc[p].saw /\ n.rev = proc[p].rev /\ n.res = proc[p].res /\ n.run = proc[p].run /\ n.ok = proc[p].ok
  BY <1>2 DEF Locals
<1> HIDE DEF n
<1> QED BY <1>4, <1>5 DEF Becomes

\* The step that keeps a run.
LEMMA HopRun ==
  ASSUME Typed, NEW p \in Procs, NEW l \in Labels, NEW r \in Runs \cup {NoRun},
         proc' = [proc EXCEPT ![p].pc = l, ![p].run = r]
  PROVE  /\ Alone(p) /\ proc'[p].pc = l
         /\ proc'[p].run = r
         /\ proc'[p].kind = proc[p].kind /\ proc'[p].edge = proc[p].edge /\ proc'[p].own = proc[p].own
         /\ proc'[p].saw = proc[p].saw /\ proc'[p].rev = proc[p].rev /\ proc'[p].res = proc[p].res
         /\ proc'[p].ok = proc[p].ok
<1> DEFINE n == [proc[p] EXCEPT !.pc = l, !.run = r]
<1>1. proc' = [proc EXCEPT ![p] = n] BY DEF Typed
<1>2. proc[p] \in Locals BY DEF Typed
<1>3. n \in Locals BY <1>2 DEF Locals
<1>4. Becomes(p, n) BY <1>1, <1>3, SetLocals
<1>5. n.pc = l /\ n.kind = proc[p].kind /\ n.edge = proc[p].edge /\ n.own = proc[p].own /\ n.saw = proc[p].saw /\ n.rev = proc[p].rev /\ n.res = proc[p].res /\ n.run = r /\ n.ok = proc[p].ok
  BY <1>2 DEF Locals
<1> HIDE DEF n
<1> QED BY <1>4, <1>5 DEF Becomes

\* The step that keeps a revision.
LEMMA HopRev ==
  ASSUME Typed, NEW p \in Procs, NEW l \in Labels, NEW r \in Revisions \cup {0},
         proc' = [proc EXCEPT ![p].pc = l, ![p].rev = r]
  PROVE  /\ Alone(p) /\ proc'[p].pc = l
         /\ proc'[p].rev = r
         /\ proc'[p].kind = proc[p].kind /\ proc'[p].edge = proc[p].edge /\ proc'[p].own = proc[p].own
         /\ proc'[p].saw = proc[p].saw /\ proc'[p].res = proc[p].res /\ proc'[p].run = proc[p].run
         /\ proc'[p].ok = proc[p].ok
<1> DEFINE n == [proc[p] EXCEPT !.pc = l, !.rev = r]
<1>1. proc' = [proc EXCEPT ![p] = n] BY DEF Typed
<1>2. proc[p] \in Locals BY DEF Typed
<1>3. n \in Locals BY <1>2 DEF Locals
<1>4. Becomes(p, n) BY <1>1, <1>3, SetLocals
<1>5. n.pc = l /\ n.kind = proc[p].kind /\ n.edge = proc[p].edge /\ n.own = proc[p].own /\ n.saw = proc[p].saw /\ n.rev = r /\ n.res = proc[p].res /\ n.run = proc[p].run /\ n.ok = proc[p].ok
  BY <1>2 DEF Locals
<1> HIDE DEF n
<1> QED BY <1>4, <1>5 DEF Becomes

\* The step that keeps the edge status read.
LEMMA HopEdge ==
  ASSUME Typed, NEW p \in Procs, NEW l \in Labels, NEW e \in EdgeBase \cup EdgeOver,
         proc' = [proc EXCEPT ![p].pc = l, ![p].edge = e]
  PROVE  /\ Alone(p) /\ proc'[p].pc = l
         /\ proc'[p].edge = e
         /\ proc'[p].kind = proc[p].kind /\ proc'[p].own = proc[p].own /\ proc'[p].saw = proc[p].saw
         /\ proc'[p].rev = proc[p].rev /\ proc'[p].res = proc[p].res /\ proc'[p].run = proc[p].run
         /\ proc'[p].ok = proc[p].ok
<1> DEFINE n == [proc[p] EXCEPT !.pc = l, !.edge = e]
<1>1. proc' = [proc EXCEPT ![p] = n] BY DEF Typed
<1>2. proc[p] \in Locals BY DEF Typed
<1>3. n \in Locals BY <1>2 DEF Locals
<1>4. Becomes(p, n) BY <1>1, <1>3, SetLocals
<1>5. n.pc = l /\ n.kind = proc[p].kind /\ n.edge = e /\ n.own = proc[p].own /\ n.saw = proc[p].saw /\ n.rev = proc[p].rev /\ n.res = proc[p].res /\ n.run = proc[p].run /\ n.ok = proc[p].ok
  BY <1>2 DEF Locals
<1> HIDE DEF n
<1> QED BY <1>4, <1>5 DEF Becomes

\* The step that keeps the manifest's revision.
LEMMA HopCfg ==
  ASSUME Typed, NEW p \in Procs, NEW l \in Labels, NEW c \in Revisions \cup {0},
         proc' = [proc EXCEPT ![p].pc = l, ![p].cfg = c]
  PROVE  /\ Alone(p) /\ proc'[p].pc = l
         /\ proc'[p].kind = proc[p].kind /\ proc'[p].edge = proc[p].edge /\ proc'[p].own = proc[p].own
         /\ proc'[p].saw = proc[p].saw /\ proc'[p].rev = proc[p].rev /\ proc'[p].res = proc[p].res
         /\ proc'[p].run = proc[p].run /\ proc'[p].ok = proc[p].ok
<1> DEFINE n == [proc[p] EXCEPT !.pc = l, !.cfg = c]
<1>1. proc' = [proc EXCEPT ![p] = n] BY DEF Typed
<1>2. proc[p] \in Locals BY DEF Typed
<1>3. n \in Locals BY <1>2 DEF Locals
<1>4. Becomes(p, n) BY <1>1, <1>3, SetLocals
<1>5. n.pc = l /\ n.kind = proc[p].kind /\ n.edge = proc[p].edge /\ n.own = proc[p].own /\ n.saw = proc[p].saw /\ n.rev = proc[p].rev /\ n.res = proc[p].res /\ n.run = proc[p].run /\ n.ok = proc[p].ok
  BY <1>2 DEF Locals
<1> HIDE DEF n
<1> QED BY <1>4, <1>5 DEF Becomes

\* The step that keeps the session's outcome.
LEMMA HopRes ==
  ASSUME Typed, NEW p \in Procs, NEW l \in Labels, NEW s \in Terminal \cup {"none"},
         proc' = [proc EXCEPT ![p].pc = l, ![p].res = s]
  PROVE  /\ Alone(p) /\ proc'[p].pc = l
         /\ proc'[p].res = s
         /\ proc'[p].kind = proc[p].kind /\ proc'[p].edge = proc[p].edge /\ proc'[p].own = proc[p].own
         /\ proc'[p].saw = proc[p].saw /\ proc'[p].rev = proc[p].rev /\ proc'[p].run = proc[p].run
         /\ proc'[p].ok = proc[p].ok
<1> DEFINE n == [proc[p] EXCEPT !.pc = l, !.res = s]
<1>1. proc' = [proc EXCEPT ![p] = n] BY DEF Typed
<1>2. proc[p] \in Locals BY DEF Typed
<1>3. n \in Locals BY <1>2 DEF Locals
<1>4. Becomes(p, n) BY <1>1, <1>3, SetLocals
<1>5. n.pc = l /\ n.kind = proc[p].kind /\ n.edge = proc[p].edge /\ n.own = proc[p].own /\ n.saw = proc[p].saw /\ n.rev = proc[p].rev /\ n.res = s /\ n.run = proc[p].run /\ n.ok = proc[p].ok
  BY <1>2 DEF Locals
<1> HIDE DEF n
<1> QED BY <1>4, <1>5 DEF Becomes

\* The step that keeps whether the receipt was acknowledged.
LEMMA HopOk ==
  ASSUME Typed, NEW p \in Procs, NEW l \in Labels, NEW b \in BOOLEAN,
         proc' = [proc EXCEPT ![p].pc = l, ![p].ok = b]
  PROVE  /\ Alone(p) /\ proc'[p].pc = l
         /\ proc'[p].ok = b
         /\ proc'[p].kind = proc[p].kind /\ proc'[p].edge = proc[p].edge /\ proc'[p].own = proc[p].own
         /\ proc'[p].saw = proc[p].saw /\ proc'[p].rev = proc[p].rev /\ proc'[p].res = proc[p].res
         /\ proc'[p].run = proc[p].run
<1> DEFINE n == [proc[p] EXCEPT !.pc = l, !.ok = b]
<1>1. proc' = [proc EXCEPT ![p] = n] BY DEF Typed
<1>2. proc[p] \in Locals BY DEF Typed
<1>3. n \in Locals BY <1>2 DEF Locals
<1>4. Becomes(p, n) BY <1>1, <1>3, SetLocals
<1>5. n.pc = l /\ n.kind = proc[p].kind /\ n.edge = proc[p].edge /\ n.own = proc[p].own /\ n.saw = proc[p].saw /\ n.rev = proc[p].rev /\ n.res = proc[p].res /\ n.run = proc[p].run /\ n.ok = b
  BY <1>2 DEF Locals
<1> HIDE DEF n
<1> QED BY <1>4, <1>5 DEF Becomes

\* The step that takes over what the outbox says.
LEMMA HopReplay ==
  ASSUME Typed, NEW p \in Procs, outbox.status \in Terminal, outbox.evidence \in Runs,
         proc' = [proc EXCEPT ![p].pc = "replay", ![p].pend = (outbox.state = "pending"),
                              ![p].res = outbox.status, ![p].run = outbox.evidence]
  PROVE  /\ Alone(p) /\ proc'[p].pc = "replay" /\ proc'[p].ok = proc[p].ok
         /\ proc'[p].res = outbox.status /\ proc'[p].run = outbox.evidence
<1> DEFINE b == (outbox.state = "pending")
           n == [proc[p] EXCEPT !.pc = "replay", !.pend = b, !.res = outbox.status, !.run = outbox.evidence]
<1>1. proc' = [proc EXCEPT ![p] = n] BY DEF Typed
<1>2. proc[p] \in Locals BY DEF Typed
<1>3. "replay" \in Labels BY DEF Labels
<1>4. b \in BOOLEAN BY Zenon
<1> HIDE DEF b
<1>5. n \in Locals BY <1>2, <1>3, <1>4 DEF Locals
<1>6. Becomes(p, n) BY <1>1, <1>5, SetLocals
<1>7. /\ n.pc = "replay" /\ n.ok = proc[p].ok
      /\ n.res = outbox.status /\ n.run = outbox.evidence
  BY <1>2 DEF Locals
<1> HIDE DEF n
<1> QED BY <1>6, <1>7 DEF Becomes

\* The step that begins an invocation.
LEMMA HopKind ==
  ASSUME Typed, NEW p \in Procs, NEW l \in Labels, NEW k \in {"none", "submit", "resume", "other"}, NEW b \in BOOLEAN,
         proc' = [proc EXCEPT ![p].pc = l, ![p].kind = k, ![p].saw = b]
  PROVE  /\ Alone(p) /\ proc'[p].pc = l
         /\ proc'[p].kind = k
         /\ proc'[p].saw = b
         /\ proc'[p].edge = proc[p].edge /\ proc'[p].own = proc[p].own /\ proc'[p].rev = proc[p].rev
         /\ proc'[p].res = proc[p].res /\ proc'[p].run = proc[p].run /\ proc'[p].ok = proc[p].ok
<1> DEFINE n == [proc[p] EXCEPT !.pc = l, !.kind = k, !.saw = b]
<1>1. proc' = [proc EXCEPT ![p] = n] BY DEF Typed
<1>2. proc[p] \in Locals BY DEF Typed
<1>3. n \in Locals BY <1>2 DEF Locals
<1>4. Becomes(p, n) BY <1>1, <1>3, SetLocals
<1>5. n.pc = l /\ n.kind = k /\ n.edge = proc[p].edge /\ n.own = proc[p].own /\ n.saw = b /\ n.rev = proc[p].rev /\ n.res = proc[p].res /\ n.run = proc[p].run /\ n.ok = proc[p].ok
  BY <1>2 DEF Locals
<1> HIDE DEF n
<1> QED BY <1>4, <1>5 DEF Becomes

-----------------------------------------------------------------------------
(* The inductive invariant for any number of processes.                    *)

\* The locals that a label's call needs were set before it.
Ready(l) ==
  /\ l.pc \in {"parentrun", "childrun", "begin", "write", "settle", "replay", "resettle"} => l.run \in Runs
  /\ l.pc \in {"begin", "write", "settle", "replay", "resettle"} => l.res \in Terminal
  /\ l.pc \in {"complete", "refresh"} => l.rev \in Revisions
  /\ l.pc \in {"manifest", "claim"} => l.edge \in {"ready", "resumable"}

\* What a process read, or did, and nobody can undo: this is what makes it safe to use a
\* value read several calls ago.
Seen(l) ==
  /\ l.ok => "receipt" \in outbox.acks
  /\ l.pc = "final" => "receipt" \in outbox.acks /\ "trace" \in outbox.acks
  /\ l.pc \in {"write", "settle", "replay", "resettle"} => outbox.state # "none"
  /\ l.pc = "cleanup" => outbox.state = "linked"
  /\ l.pc \in {"insert", "reserve"} /\ l.saw => owner.status # "none"
  /\ l.pc = "decide" => l.own = "parent_pending" \/ Past
  /\ l.pc \in {"artifacts", "attach"} => Past

\* Only the winner of the fence is at the parent's session, before it was opened.
ParentOnce ==
  /\ owner.started => owner.status # "none"
  /\ parentRuns \in {0, 1}
  /\ parentRuns = 1 => owner.started
  /\ \A p \in Procs : At(p, "parent") =>
       owner.started /\ parentRuns = 0 /\ \A q \in Procs : At(q, "parent") => q = p

\* The invariant but for the parent's session.
GInv ==
  /\ IInv /\ Typed /\ wsRev \in Revisions /\ parentRuns \in Nat
  /\ \A p \in Procs : Ready(proc[p]) /\ Seen(proc[p])
  /\ Evidenced /\ ContShape /\ WorkspaceOutlivesRecovery /\ FinalReceiptLast

-----------------------------------------------------------------------------
(* One step of one process, action by action.                              *)

\* The ledger calls of process p; two of them, and the blocking of an edge, only at
\* their own labels.
Call(p) ==
  \/ Quiet
  \/ At(p, "parent") /\ Launch("parent")
  \/ At(p, "child") /\ Launch("child")
  \/ proc[p].pc \in {"blockedge", "giveup", "abandon"} /\ BlockChild

\* What a step does to the fence: win it, use it, or leave it.
ParentMoves(p) ==
  \/ proc'[p].pc = "parent" /\ ~owner.started /\ owner'.started /\ parentRuns' = parentRuns
  \/ proc'[p].pc # "parent" /\ parentRuns' = parentRuns
  \/ proc'[p].pc # "parent" /\ At(p, "parent") /\ parentRuns' = parentRuns + 1 /\ UNCHANGED owner

\* A step of process p: one call at most, and p's own facts hold afterwards.
Fine(p) == /\ Alone(p) /\ (UNCHANGED ledger \/ Call(p)) /\ wsRev' \in Revisions
           /\ Ready(proc'[p]) /\ Seen(proc[p])' /\ ParentMoves(p)

\* The labels of which Ready, Seen and ParentOnce ask nothing.
Plain == Labels \ {"parent", "parentrun", "childrun", "begin", "write", "settle", "replay", "resettle", "complete",
                   "refresh", "manifest", "claim", "final", "cleanup", "insert", "reserve", "decide", "artifacts", "attach"}

\* The calls of a process are calls of the daemon.
LEMMA CallIsDaemonCall ==
  ASSUME NEW p \in Procs, Call(p)
  PROVE  DaemonCall
BY DEF Call, DaemonCall, Tasks

\* No call takes an acknowledgement back.
LEMMA AcksStay ==
  ASSUME GInv, NEW p \in Procs, UNCHANGED ledger \/ Call(p)
  PROVE  outbox.acks \subseteq outbox'.acks
BY CallIsDaemonCall, OutboxFacts DEF GInv, ledger

\* Going on to a label that asks nothing.
LEMMA PlainHop ==
  ASSUME GInv, NEW p \in Procs, NEW l \in Plain, Hop(p, l), UNCHANGED ledger \/ Call(p),
         UNCHANGED parentRuns, wsRev' \in Revisions
  PROVE  Fine(p)
<1>1. /\ Alone(p) /\ proc'[p].pc = l /\ proc'[p].ok = proc[p].ok BY DEF Hop
<1>2. Ready(proc'[p]) BY <1>1 DEF Plain, Ready
<1>3. proc[p].ok => "receipt" \in outbox'.acks BY AcksStay DEF GInv, Seen
<1>4. Seen(proc[p])' BY <1>1, <1>3 DEF Plain, Seen, Past
<1>5. ParentMoves(p) BY <1>1 DEF Plain, ParentMoves
<1> QED BY <1>1, <1>2, <1>4, <1>5 DEF Fine

\* Returning, or being lost.
LEMMA StopFine ==
  ASSUME GInv, NEW p \in Procs, Stop(p), UNCHANGED ledger \/ Call(p),
         UNCHANGED parentRuns, wsRev' \in Revisions
  PROVE  Fine(p)
<1>1. Becomes(p, Idle) BY StopIdles DEF GInv
<1>2. Idle.pc = "idle" /\ ~Idle.ok BY DEF Idle
<1>3. Alone(p) /\ proc'[p] = Idle BY <1>1 DEF Becomes
<1>4. Ready(proc'[p]) BY <1>2, <1>3 DEF Ready
<1>5. Seen(proc[p])' BY <1>2, <1>3 DEF Seen, Past
<1> QED BY <1>2, <1>3, <1>4, <1>5 DEF Fine, ParentMoves

\* The labels are labels.
LEMMA LabelFacts ==
  /\ Plain \subseteq Labels
  /\ {"parent", "parentrun", "childrun", "begin", "write", "settle", "replay", "resettle", "complete",
      "refresh", "manifest", "claim", "final", "cleanup", "insert", "reserve", "decide", "artifacts",
      "attach"} \subseteq Labels
BY DEF Plain, Labels, Submitting

\* Boot, the operator's commands and the loss of a process are Fine.
LEMMA BootFine ==
  ASSUME GInv, NEW p \in Procs, BootProcess(p) \/ Crash(p) \/ \E k \in Kinds : Invoke(p, k)
  PROVE  Fine(p)
<1> USE DEF GInv
<1>1. CASE ValidateEdges(p)
  <2>1. PICK v \in {"none", "valid", "invalid"} : proc' = [proc EXCEPT ![p].pc = "reconcile", ![p].v = v]
    BY <1>1 DEF ValidateEdges
  <2>2. "reconcile" \in Labels BY DEF Labels, Booting
  <2>3. /\ Alone(p) /\ proc'[p].pc = "reconcile" /\ proc'[p].ok = proc[p].ok
    BY <2>1, <2>2, HopV
  <2>4. UNCHANGED <<ledger, parentRuns, wsRev>> BY <1>1 DEF ValidateEdges, Calm, Fault, world
  <2> QED BY <2>3, <2>4 DEF Fine, Ready, Seen, Past, ParentMoves, ledger
<1>2. CASE BootEdges(p)
  <2>1. "generic" \in Plain /\ "generic" \in Labels BY DEF Labels, Plain, Booting
  <2>2. Hop(p, "generic") BY <1>2, <2>1, GoHops DEF BootEdges
  <2>3. proc[p] \in Locals BY DEF Typed
  <2>4. Call(p) BY <1>2, <2>3 DEF BootEdges, Call, Quiet, BootStep, Locals
  <2> QED BY <1>2, <2>1, <2>2, <2>4, PlainHop DEF BootEdges, Calm, world
<1>3. CASE BootTasks(p)
  <2>1. Call(p) /\ UNCHANGED <<parentRuns, wsRev>> BY <1>3 DEF BootTasks, Call, Quiet, BootStep, Calm, world
  <2>2. {"recheck", "select"} \subseteq Plain \cap Labels BY DEF Labels, Plain, Submitting
  <2>3. Go(p, "recheck") \/ Go(p, "select") \/ Stop(p) BY <1>3 DEF BootTasks
  <2> QED BY <2>1, <2>2, <2>3, GoHops, PlainHop, StopFine
<1>4. CASE Crash(p)
  BY <1>4, StopFine DEF Crash
<1>5. ASSUME NEW k \in Kinds, Invoke(p, k) PROVE Fine(p)
  <2>1. proc' = [proc EXCEPT ![p].pc = "validate", ![p].kind = k, ![p].saw = (k = "submit" /\ OwnerFound)]
    BY <1>5 DEF Invoke
  <2>2. "validate" \in Labels BY DEF Labels, Booting
  <2>3. k \in {"none", "submit", "resume", "other"} BY KindsAssumption
  <2>4. /\ Alone(p) /\ proc'[p].pc = "validate" /\ proc'[p].ok = proc[p].ok
    BY <2>1, <2>2, <2>3, HopKind
  <2>5. UNCHANGED <<ledger, parentRuns, wsRev>> BY <1>5 DEF Invoke, Calm, world
  <2> QED BY <2>4, <2>5 DEF Fine, Ready, Seen, Past, ParentMoves, ledger
<1> QED BY <1>1, <1>2, <1>3, <1>4, <1>5 DEF BootProcess

\* The steps up to the reservation are Fine.
LEMMA ReserveFine ==
  ASSUME GInv, NEW p \in Procs, Recheck(p) \/ LookupOwner(p) \/ InsertParent(p) \/ Reserve(p)
  PROVE  Fine(p)
<1> USE DEF GInv
<1>p. proc[p].ok => "receipt" \in outbox.acks BY DEF Seen
<1>l. "lookup" \in Plain /\ "lookup" \in Labels /\ "insert" \in Labels /\ "reserve" \in Labels
  BY DEF Labels, Plain, Submitting
<1>m. "decide" \in Labels BY DEF Labels, Submitting
<1>1. CASE Recheck(p)
  <2>1. UNCHANGED <<ledger, parentRuns, wsRev>> BY <1>1 DEF Recheck, Calm, world
  <2>2. Go(p, "lookup") \/ Stop(p) BY <1>1 DEF Recheck
  <2> QED BY <1>l, <2>1, <2>2, GoHops, PlainHop, StopFine
<1>2. CASE LookupOwner(p)
  <2> DEFINE b == (owner.status # "none")
  <2>0. b \in BOOLEAN BY Zenon
  <2>1. proc' = [proc EXCEPT ![p].pc = "insert", ![p].saw = b] BY <1>2 DEF LookupOwner
  <2>2. /\ Alone(p) /\ proc'[p].pc = "insert" /\ proc'[p].ok = proc[p].ok /\ proc'[p].saw = b
    <3> HIDE DEF b
    <3> QED BY <1>l, <2>0, <2>1, HopSaw, Zenon
  <2>3. UNCHANGED <<ledger, parentRuns, wsRev>> BY <1>2 DEF LookupOwner, Calm, world
  <2> QED BY <1>p, <2>2, <2>3 DEF Fine, Ready, Seen, Past, ParentMoves, ledger
<1>3. CASE InsertParent(p)
  <2>1. Hop(p, "reserve") BY <1>3, <1>l, GoHops DEF InsertParent
  <2>2. UNCHANGED ledger \/ InsertTask("parent") BY <1>3 DEF InsertParent
  <2>3. UNCHANGED ledger \/ Call(p) BY <2>2 DEF Call, Quiet, Tasks
  <2>4. UNCHANGED <<owner, outbox, parentRuns, wsRev>> BY <1>3, <2>2 DEF InsertParent, InsertTask, ledger, Calm, world
  <2>5. proc[p].saw => owner.status # "none" BY <1>3 DEF InsertParent, At, Seen
  <2> QED BY <1>p, <2>1, <2>3, <2>4, <2>5 DEF Hop, Fine, Ready, Seen, Past, ParentMoves
<1>4. CASE Reserve(p)
  <2>0. UNCHANGED <<parentRuns, wsRev>> BY <1>4 DEF Reserve, Calm, world
  <2>1. ASSUME NEW cap \in BOOLEAN, PersistChildPreparationOwner(cap),
               proc' = [proc EXCEPT ![p].pc = "decide", ![p].cap = cap, ![p].own = "parent_pending"]
        PROVE  Fine(p)
    <3>1. "parent_pending" \in OwnerStatuses BY DEF OwnerStatuses
    <3>2. /\ Alone(p) /\ proc'[p].pc = "decide" /\ proc'[p].ok = proc[p].ok /\ proc'[p].own = "parent_pending"
      BY <1>m, <2>1, <3>1, HopOwner, Zenon
    <3>3. Call(p) BY <2>1 DEF Call, Quiet, OwnerStep
    <3>4. UNCHANGED outbox BY <2>1 DEF PersistChildPreparationOwner
    <3> QED BY <1>p, <2>0, <3>2, <3>3, <3>4 DEF Fine, Ready, Seen, ParentMoves
  <2>2. ASSUME proc[p].saw, UNCHANGED ledger, At(p, "reserve"),
               proc' = [proc EXCEPT ![p].pc = "decide", ![p].cap = owner.capable, ![p].own = owner.status,
                                    ![p].fenced = owner.started]
        PROVE  Fine(p)
    <3>1. TypeOK BY DEF IInv
    <3>2. /\ Alone(p) /\ proc'[p].pc = "decide" /\ proc'[p].ok = proc[p].ok /\ proc'[p].own = owner.status
      BY <2>2, <3>1, HopOwnerSeen, Zenon
    <3>3. owner.status # "none" BY <2>2 DEF At, Seen
    <3> QED BY <1>p, <2>0, <2>2, <3>2, <3>3 DEF Fine, Ready, Seen, Past, ParentMoves, ledger
  <2>3. CASE UNCHANGED ledger /\ Stop(p) BY <2>0, <2>3, StopFine
  <2> QED BY <1>4, <2>1, <2>2, <2>3 DEF Reserve
<1> QED BY <1>1, <1>2, <1>3, <1>4

\* The steps from the decision to the parent's outcome are Fine: a process that wins
\* the fence finds it down, and no parent session.
LEMMA ParentFine ==
  ASSUME GInv, NEW p \in Procs,
         Decide(p) \/ BeginParent(p) \/ BlockPreparation(p) \/ StartParent(p) \/ AcceptParent(p) \/ ParentFails(p)
  PROVE  Fine(p)
<1> USE DEF GInv
<1>p. proc[p].ok => "receipt" \in outbox.acks BY DEF Seen
<1>l. {"read", "canon", "blockprep"} \subseteq Plain \cap Labels
  BY DEF Labels, Plain, Submitting
<1>m. "fence" \in Labels /\ "parent" \in Labels /\ "parentrun" \in Labels /\ "artifacts" \in Labels
  BY DEF Labels, Submitting
<1>a. ASSUME Hop(p, "artifacts"), Past', UNCHANGED <<outbox, parentRuns, wsRev>>, UNCHANGED ledger \/ Call(p)
      PROVE  Fine(p)
  BY <1>p, <1>a DEF Hop, Fine, Ready, Seen, ParentMoves
<1>1. CASE Decide(p)
  <2>0. UNCHANGED <<ledger, parentRuns, wsRev>> BY <1>1 DEF Decide, Calm, Fault, world
  <2>1. CASE Go(p, "canon") \/ Go(p, "read") \/ Go(p, "blockprep")
    BY <1>l, <2>0, <2>1, GoHops, PlainHop
  <2>2. CASE proc' = [proc EXCEPT ![p].pc = "fence", ![p].sess = (parentRuns > 0)]
    <3>1. /\ Alone(p) /\ proc'[p].pc = "fence" /\ proc'[p].ok = proc[p].ok
      <4> DEFINE b == (parentRuns > 0)
      <4>1. b \in BOOLEAN OBVIOUS
      <4>2. proc' = [proc EXCEPT ![p].pc = "fence", ![p].sess = b] BY <2>2
      <4> HIDE DEF b
      <4> QED BY <1>m, <4>1, <4>2, HopSess, Zenon
    <3> QED BY <1>p, <2>0, <3>1 DEF Fine, Ready, Seen, Past, ParentMoves, ledger
  <2>3. CASE proc[p].own # "parent_pending" /\ Go(p, "artifacts")
    <3>1. Past BY <1>1, <2>3 DEF Decide, At, Seen
    <3>2. Past' /\ UNCHANGED outbox BY <2>0, <3>1 DEF Past, ledger
    <3> QED BY <1>a, <1>m, <2>0, <2>3, <3>2, GoHops
  <2> QED BY <1>1, <2>1, <2>2, <2>3 DEF Decide
<1>2. CASE BeginParent(p)
  <2>0. UNCHANGED <<parentRuns, wsRev>> BY <1>2 DEF BeginParent, Calm, world
  <2>1. CASE BeginChildParentExecution /\ Go(p, "parent")
    <3>1. Hop(p, "parent") BY <1>m, <2>1, GoHops
    <3>2. Call(p) BY <2>1 DEF Call, Quiet, OwnerStep
    <3>3. ~owner.started /\ owner'.started /\ UNCHANGED outbox
      BY <2>1 DEF BeginChildParentExecution, IInv, TypeOK
    <3> QED BY <1>p, <2>0, <3>1, <3>2, <3>3 DEF Hop, Fine, Ready, Seen, Past, ParentMoves
  <2>2. CASE UNCHANGED ledger /\ (Go(p, "blockprep") \/ Go(p, "canon"))
    BY <1>l, <2>0, <2>2, GoHops, PlainHop
  <2> QED BY <1>2, <2>1, <2>2 DEF BeginParent
<1>3. CASE BlockPreparation(p)
  <2>1. Call(p) BY <1>3 DEF BlockPreparation, Call, Quiet, OwnerStep
  <2> QED BY <1>3, <1>l, <2>1, GoHops, PlainHop DEF BlockPreparation, Calm, world
<1>4. CASE StartParent(p)
  <2>1. parentRuns + 1 \in Runs
        /\ proc' = [proc EXCEPT ![p].pc = "parentrun", ![p].run = parentRuns + 1]
    BY <1>4 DEF StartParent
  <2>2. /\ Alone(p) /\ proc'[p].pc = "parentrun" /\ proc'[p].ok = proc[p].ok /\ proc'[p].run = parentRuns + 1
    <3>1. parentRuns + 1 \in Runs \cup {NoRun} BY <2>1
    <3> QED BY <1>m, <2>1, <3>1, HopRun, Zenon
  <2>3. Call(p) BY <1>4 DEF StartParent, Call, Launch
  <2>4. UNCHANGED <<owner, outbox>> BY <1>4 DEF StartParent, SetTaskStatus
  <2>5. At(p, "parent") /\ parentRuns' = parentRuns + 1 /\ UNCHANGED wsRev BY <1>4 DEF StartParent
  <2> QED BY <1>p, <2>1, <2>2, <2>3, <2>4, <2>5 DEF Fine, Ready, Seen, Past, ParentMoves
<1>5. CASE AcceptParent(p)
  <2>0. UNCHANGED <<parentRuns, wsRev>> BY <1>5 DEF AcceptParent, Calm, world
  <2>1. proc[p].run \in Runs BY <1>5 DEF AcceptParent, At, Ready
  <2>2. CASE RecordChildParentAcceptance(proc[p].run) /\ Go(p, "artifacts")
    <3>1. Call(p) BY <2>1, <2>2 DEF Call, Quiet, OwnerStep
    <3>2. Past' /\ UNCHANGED outbox BY <2>2 DEF RecordChildParentAcceptance, Past, IInv, TypeOK
    <3> QED BY <1>a, <1>m, <2>0, <2>2, <3>1, <3>2, GoHops
  <2>3. CASE AcceptanceRecorded(proc[p].run) /\ UNCHANGED ledger /\ Go(p, "artifacts")
    <3>1. Past' /\ UNCHANGED outbox BY <2>3 DEF AcceptanceRecorded, OwnerAccepted, Past, ledger
    <3> QED BY <1>a, <1>m, <2>0, <2>3, <3>1, GoHops
  <2>4. CASE UNCHANGED ledger /\ Stop(p) BY <2>0, <2>4, StopFine
  <2> QED BY <1>5, <2>2, <2>3, <2>4 DEF AcceptParent
<1>6. CASE ParentFails(p)
  <2>1. Call(p) BY <1>6 DEF ParentFails, Call, Quiet, Tasks
  <2> QED BY <1>6, <1>l, <2>1, GoHops, PlainHop DEF ParentFails, Calm, world
<1> QED BY <1>1, <1>2, <1>3, <1>4, <1>5, <1>6

\* The steps from the artifacts to the completed preparation are Fine.
LEMMA AttachFine ==
  ASSUME GInv, NEW p \in Procs,
         BeginArtifacts(p) \/ Attach(p) \/ BlockEdge(p) \/ PrepareProvider(p) \/ CompletePreparation(p)
  PROVE  Fine(p)
<1> USE DEF GInv
<1>p. proc[p].ok => "receipt" \in outbox.acks BY DEF Seen
<1>l. {"provider", "blockedge", "canon", "read"} \subseteq Plain \cap Labels
  BY DEF Labels, Plain, Submitting
<1>m. "attach" \in Labels /\ "complete" \in Labels
  BY DEF Labels, Submitting
<1>1. CASE BeginArtifacts(p)
  <2>0. UNCHANGED <<parentRuns, wsRev>> BY <1>1 DEF BeginArtifacts, Calm, world
  <2>1. CASE UNCHANGED ledger /\ Stop(p) BY <2>0, <2>1, StopFine
  <2>2. CASE (UNCHANGED ledger \/ BeginChildArtifactPersistence) /\ Go(p, "attach")
    <3>1. Hop(p, "attach") BY <1>m, <2>2, GoHops
    <3>2. UNCHANGED ledger \/ Call(p) BY <2>2 DEF Call, Quiet, OwnerStep
    <3>3. Past BY <1>1 DEF BeginArtifacts, At, Seen
    <3>4. Past' /\ UNCHANGED outbox BY <2>2, <3>3 DEF BeginChildArtifactPersistence, Past, ledger, IInv, TypeOK
    <3> QED BY <1>p, <2>0, <3>1, <3>2, <3>4 DEF Hop, Fine, Ready, Seen, ParentMoves
  <2> QED BY <1>1, <2>1, <2>2 DEF BeginArtifacts
<1>2. CASE Attach(p)
  <2>0. UNCHANGED <<parentRuns, wsRev>> BY <1>2 DEF Attach, Calm, world
  <2>1. Past BY <1>2 DEF Attach, At, Seen
  <2>2. 1 \in Revisions BY RevAssumption DEF Revisions
  <2>3. PersistPreparingChildIntent(1) \/ PersistBlockedChildIntent => Call(p)
    BY <2>1, <2>2 DEF Call, Quiet
  <2>4. /\ UNCHANGED ledger \/ PersistPreparingChildIntent(1) \/ PersistBlockedChildIntent
        /\ Go(p, "provider") \/ Go(p, "blockedge") \/ Stop(p)
    BY <1>2 DEF Attach
  <2> QED BY <1>l, <2>0, <2>3, <2>4, GoHops, PlainHop, StopFine
<1>3. CASE BlockEdge(p)
  <2>1. UNCHANGED <<parentRuns, wsRev>> BY <1>3 DEF BlockEdge, Calm, world
  <2>2. UNCHANGED ledger \/ Call(p) BY <1>3 DEF BlockEdge, At, Call
  <2>3. Go(p, "canon") \/ Stop(p) BY <1>3 DEF BlockEdge, ReturnBlocked
  <2> QED BY <1>l, <2>1, <2>2, <2>3, GoHops, PlainHop, StopFine
<1>4. CASE PrepareProvider(p)
  <2>0. UNCHANGED <<ledger, parentRuns, wsRev>> BY <1>4 DEF PrepareProvider, Calm, Fault, world
  <2>1. CASE proc' = [proc EXCEPT ![p].pc = "complete", ![p].rev = wsRev]
    <3>1. /\ Alone(p) /\ proc'[p].pc = "complete" /\ proc'[p].ok = proc[p].ok /\ proc'[p].rev = wsRev
      <4>1. wsRev \in Revisions \cup {0} OBVIOUS
      <4> QED BY <1>m, <2>1, <4>1, HopRev, Zenon
    <3> QED BY <1>p, <2>0, <3>1 DEF Fine, Ready, Seen, Past, ParentMoves, ledger
  <2>2. CASE Go(p, "blockedge")
    BY <1>l, <2>0, <2>2, GoHops, PlainHop
  <2> QED BY <1>4, <2>1, <2>2 DEF PrepareProvider
<1>5. CASE CompletePreparation(p)
  <2>0. UNCHANGED <<parentRuns, wsRev>> BY <1>5 DEF CompletePreparation, Calm, world
  <2>1. proc[p].rev \in Revisions BY <1>5 DEF CompletePreparation, At, Ready
  <2>2. CompleteChildPreparation(proc[p].rev) => Call(p) BY <2>1 DEF Call, Quiet
  <2>3. /\ UNCHANGED ledger \/ CompleteChildPreparation(proc[p].rev)
        /\ Go(p, "read") \/ Go(p, "blockedge")
    BY <1>5 DEF CompletePreparation
  <2> QED BY <1>l, <2>0, <2>2, <2>3, GoHops, PlainHop
<1> QED BY <1>1, <1>2, <1>3, <1>4, <1>5

\* The steps that read the edge, its outbox and its manifest are Fine.
LEMMA ReadFine ==
  ASSUME GInv, NEW p \in Procs, Select(p) \/ ReadEdge(p) \/ ReadOutbox(p) \/ ValidateManifest(p)
  PROVE  Fine(p)
<1> USE DEF GInv
<1>p. proc[p].ok => "receipt" \in outbox.acks BY DEF Seen
<1>l. {"read", "canon", "blockedge", "provider"} \subseteq Plain \cap Labels
  BY DEF Labels, Plain, Submitting
<1>m. "outbox" \in Labels /\ "replay" \in Labels /\ "manifest" \in Labels /\ "claim" \in Labels
  BY DEF Labels
<1>t. TypeOK BY DEF IInv
<1>1. CASE Select(p)
  <2>1. UNCHANGED <<ledger, parentRuns, wsRev>> BY <1>1 DEF Select, Calm, world
  <2>2. Go(p, "read") \/ Stop(p) BY <1>1 DEF Select
  <2> QED BY <1>l, <2>1, <2>2, GoHops, PlainHop, StopFine
<1>2. CASE ReadEdge(p)
  <2>1. proc' = [proc EXCEPT ![p].pc = "outbox", ![p].edge = Effective(edge)] BY <1>2 DEF ReadEdge
  <2>2. Effective(edge) \in EdgeBase \cup EdgeOver BY <1>t DEF TypeOK, Effective
  <2>3. /\ Alone(p) /\ proc'[p].pc = "outbox" /\ proc'[p].ok = proc[p].ok
    BY <1>m, <2>1, <2>2, HopEdge, Zenon
  <2>4. UNCHANGED <<ledger, parentRuns, wsRev>> BY <1>2 DEF ReadEdge, Calm, world
  <2> QED BY <1>p, <2>3, <2>4 DEF Fine, Ready, Seen, Past, ParentMoves, ledger
<1>3. CASE ReadOutbox(p)
  <2>0. UNCHANGED <<ledger, parentRuns, wsRev>> BY <1>3 DEF ReadOutbox, Calm, Fault, world
  <2>1. CASE /\ outbox.state # "none"
             /\ proc' = [proc EXCEPT ![p].pc = "replay", ![p].pend = (outbox.state = "pending"),
                                     ![p].res = outbox.status, ![p].run = outbox.evidence]
    <3>1. outbox.status \in Terminal /\ outbox.evidence \in Runs
      BY <2>1 DEF IInv, Safe, OutboxShape, Evidenced
    <3>2. /\ Alone(p) /\ proc'[p].pc = "replay" /\ proc'[p].ok = proc[p].ok
          /\ proc'[p].res = outbox.status /\ proc'[p].run = outbox.evidence
      BY <2>1, <3>1, HopReplay, Zenon
    <3> QED BY <1>p, <2>0, <2>1, <3>1, <3>2 DEF Fine, Ready, Seen, Past, ParentMoves, ledger
  <2>2. CASE /\ proc[p].edge \in {"ready", "resumable"}
             /\ proc' = [proc EXCEPT ![p].pc = "manifest", ![p].cfg = cfg]
    <3>0. proc' = [proc EXCEPT ![p].pc = "manifest", ![p].cfg = cfg] BY <2>2
    <3>1. cfg \in Revisions \cup {0} BY <1>t DEF TypeOK
    <3>2. /\ Alone(p) /\ proc'[p].pc = "manifest" /\ proc'[p].ok = proc[p].ok /\ proc'[p].edge = proc[p].edge
      BY <1>m, <3>0, <3>1, HopCfg, Zenon
    <3> QED BY <1>p, <2>0, <2>2, <3>2 DEF Fine, Ready, Seen, Past, ParentMoves, ledger
  <2>3. CASE Go(p, "canon") \/ Go(p, "blockedge") \/ Go(p, "provider") \/ Stop(p)
    BY <1>l, <2>0, <2>3, GoHops, PlainHop, StopFine
  <2>4. CASE outbox.state # "none" BY <1>3, <2>1, <2>4 DEF ReadOutbox
  <2>5. CASE outbox.state = "none" BY <1>3, <2>2, <2>3, <2>5 DEF ReadOutbox, ReturnBlocked
  <2> QED BY <2>4, <2>5
<1>4. CASE ValidateManifest(p)
  <2>0. UNCHANGED <<ledger, parentRuns, wsRev>> BY <1>4 DEF ValidateManifest, Calm, Fault, world
  <2>1. CASE proc' = [proc EXCEPT ![p].pc = "claim", ![p].rev = cont.rev]
    <3>1. cont.rev \in Revisions \cup {0} BY <1>t DEF TypeOK
    <3>2. /\ Alone(p) /\ proc'[p].pc = "claim" /\ proc'[p].ok = proc[p].ok /\ proc'[p].edge = proc[p].edge
      BY <1>m, <2>1, <3>1, HopRev, Zenon
    <3>3. proc[p].edge \in {"ready", "resumable"} BY <1>4 DEF ValidateManifest, At, Ready
    <3> QED BY <1>p, <2>0, <3>2, <3>3 DEF Fine, Ready, Seen, Past, ParentMoves, ledger
  <2>2. CASE Go(p, "blockedge")
    BY <1>l, <2>0, <2>2, GoHops, PlainHop
  <2> QED BY <1>4, <2>1, <2>2 DEF ValidateManifest
<1> QED BY <1>1, <1>2, <1>3, <1>4

\* The claim and the child's session are Fine.
LEMMA ChildFine ==
  ASSUME GInv, NEW p \in Procs,
         \/ ClaimChild(p) \/ ResumeProvider(p) \/ StartChild(p) \/ OpenChildSession(p)
         \/ ChildWorks(p) \/ ChildInterrupted(p) \/ ChildFinishes(p)
  PROVE  Fine(p)
<1> USE DEF GInv
<1>p. proc[p].ok => "receipt" \in outbox.acks BY DEF Seen
<1>l. {"resume", "canon", "blockedge", "child", "spawn", "preserve"} \subseteq Plain \cap Labels
  BY DEF Labels, Plain, Submitting
<1>m. "childrun" \in Labels /\ "begin" \in Labels BY DEF Labels
<1>1. CASE ClaimChild(p)
  <2>0. UNCHANGED <<parentRuns, wsRev>> BY <1>1 DEF ClaimChild, Calm, world
  <2>1. proc[p].edge \in {"ready", "resumable"} BY <1>1 DEF ClaimChild, At, Ready
  <2>2. Claim(proc[p].edge) => Call(p)
    BY <2>1 DEF Call, Quiet, ClaimReadyChild, ClaimResumableChild
  <2>3. /\ UNCHANGED ledger \/ Claim(proc[p].edge)
        /\ Go(p, "resume") \/ Go(p, "canon") \/ Stop(p)
    BY <1>1 DEF ClaimChild, ReturnBlocked
  <2> QED BY <1>l, <2>0, <2>2, <2>3, GoHops, PlainHop, StopFine
<1>2. CASE ResumeProvider(p)
  <2>1. UNCHANGED <<ledger, parentRuns, wsRev>> BY <1>2 DEF ResumeProvider, Calm, Fault, world
  <2>2. Go(p, "child") \/ Go(p, "blockedge") BY <1>2 DEF ResumeProvider
  <2> QED BY <1>l, <2>1, <2>2, GoHops, PlainHop
<1>3. CASE StartChild(p)
  <2>1. UNCHANGED <<parentRuns, wsRev>> BY <1>3 DEF StartChild, Calm, world
  <2>2. Call(p) /\ Go(p, "spawn") BY <1>3 DEF StartChild, Call, Launch
  <2> QED BY <1>l, <2>1, <2>2, GoHops, PlainHop
<1>4. CASE OpenChildSession(p)
  <2>1. UNCHANGED <<parentRuns, wsRev, outbox>> BY <1>4 DEF OpenChildSession, SetWorkspaceStatus
  <2>2. Call(p) BY <1>4 DEF OpenChildSession, Call, Quiet
  <2>3. childRuns + 1 \in Runs /\ proc' = [proc EXCEPT ![p].pc = "childrun", ![p].run = childRuns + 1]
    BY <1>4 DEF OpenChildSession
  <2>4. childRuns + 1 \in Runs \cup {NoRun} BY <2>3
  <2>5. /\ Alone(p) /\ proc'[p].pc = "childrun" /\ proc'[p].ok = proc[p].ok /\ proc'[p].run = childRuns + 1
    BY <1>m, <2>3, <2>4, HopRun, Zenon
  <2> QED BY <1>p, <2>1, <2>2, <2>3, <2>5 DEF Fine, Ready, Seen, Past, ParentMoves
<1>5. CASE ChildWorks(p)
  <2>1. UNCHANGED <<ledger, proc, parentRuns>> BY <1>5 DEF ChildWorks
  <2>2. wsRev' \in Revisions BY <1>5, RevAssumption DEF ChildWorks, Revisions
  <2>3. Alone(p) BY <2>1 DEF Alone, Typed
  <2>4. proc[p].pc = "childrun" BY <1>5 DEF ChildWorks, At
  <2>5. Ready(proc'[p]) /\ Seen(proc[p])' BY <2>1 DEF Seen, Past, ledger
  <2> QED BY <2>1, <2>2, <2>3, <2>4, <2>5 DEF Fine, ParentMoves
<1>6. CASE ChildInterrupted(p)
  <2>1. UNCHANGED <<ledger, parentRuns, wsRev>> /\ Go(p, "preserve") BY <1>6 DEF ChildInterrupted, Fault
  <2> QED BY <1>l, <2>1, GoHops, PlainHop
<1>7. CASE ChildFinishes(p)
  <2>1. UNCHANGED <<parentRuns, wsRev>> BY <1>7 DEF ChildFinishes, Calm, world
  <2>2. PICK s \in Terminal : /\ IF s = "completed" THEN UNCHANGED ledger ELSE SetTaskStatus("child", s)
                              /\ proc' = [proc EXCEPT ![p].pc = "begin", ![p].res = s]
    BY <1>7 DEF ChildFinishes
  <2>3. UNCHANGED ledger \/ Call(p) BY <2>2 DEF Call, Quiet, Tasks, Terminal
  <2>4. UNCHANGED outbox BY <2>2 DEF SetTaskStatus, ledger
  <2>5. proc[p].run \in Runs BY <1>7 DEF ChildFinishes, At, Ready
  <2>6. proc' = [proc EXCEPT ![p].pc = "begin", ![p].res = s] BY <2>2
  <2>7. s \in Terminal \cup {"none"} OBVIOUS
  <2>8. /\ Alone(p) /\ proc'[p].pc = "begin" /\ proc'[p].ok = proc[p].ok /\ proc'[p].run = proc[p].run
        /\ proc'[p].res = s
    BY <1>m, <2>6, <2>7, HopRes, Zenon
  <2> QED BY <1>p, <2>1, <2>3, <2>4, <2>5, <2>8 DEF Fine, Ready, Seen, Past, ParentMoves
<1> QED BY <1>1, <1>2, <1>3, <1>4, <1>5, <1>6, <1>7

\* Preserving the child, installing its outbox and settling are Fine.
LEMMA SettleFine ==
  ASSUME GInv, NEW p \in Procs,
         \/ PreserveChild(p) \/ RefreshChild(p) \/ InstallOutbox(p)
         \/ WriteEvidence(p) \/ Settle(p) \/ Cleanup(p)
  PROVE  Fine(p)
<1> USE DEF GInv
<1>p. proc[p].ok => "receipt" \in outbox.acks BY DEF Seen
<1>l. {"canon", "giveup", "abandon"} \subseteq Plain \cap Labels BY DEF Labels, Plain, Submitting
<1>m. "refresh" \in Labels BY DEF Labels
<1>n. "write" \in Labels /\ "settle" \in Labels /\ "resettle" \in Labels /\ "cleanup" \in Labels BY DEF Labels
<1>1. CASE PreserveChild(p)
  <2>0. UNCHANGED <<ledger, parentRuns, wsRev>> BY <1>1 DEF PreserveChild, Calm, Fault, world
  <2>1. CASE proc' = [proc EXCEPT ![p].pc = "refresh", ![p].rev = wsRev]
    <3>1. wsRev \in Revisions \cup {0} OBVIOUS
    <3>2. /\ Alone(p) /\ proc'[p].pc = "refresh" /\ proc'[p].ok = proc[p].ok /\ proc'[p].rev = wsRev
      BY <1>m, <2>1, <3>1, HopRev, Zenon
    <3> QED BY <1>p, <2>0, <3>2 DEF Fine, Ready, Seen, Past, ParentMoves, ledger
  <2>2. CASE Go(p, "giveup")
    BY <1>l, <2>0, <2>2, GoHops, PlainHop
  <2> QED BY <1>1, <2>1, <2>2 DEF PreserveChild
<1>2. CASE RefreshChild(p)
  <2>0. UNCHANGED <<parentRuns, wsRev>> BY <1>2 DEF RefreshChild, Calm, world
  <2>1. proc[p].rev \in Revisions BY <1>2 DEF RefreshChild, At, Ready
  <2>2. UpdateResumableChild(proc[p].rev) => Call(p) BY <2>1 DEF Call, Quiet
  <2>3. /\ UNCHANGED ledger \/ UpdateResumableChild(proc[p].rev)
        /\ Go(p, "canon") \/ Go(p, "giveup")
    BY <1>2 DEF RefreshChild
  <2> QED BY <1>l, <2>0, <2>2, <2>3, GoHops, PlainHop
<1>3. CASE InstallOutbox(p)
  <2>0. UNCHANGED <<parentRuns, wsRev>> BY <1>3 DEF InstallOutbox, Calm, Fault, world
  <2>1. proc[p].res \in Terminal /\ proc[p].run \in Runs BY <1>3 DEF InstallOutbox, At, Ready
  <2>2. CASE /\ Go(p, "write")
             /\ \/ BeginChildTerminalSettlement(proc[p].res, proc[p].run)
                \/ SettlementInstalled(proc[p].res, proc[p].run) /\ UNCHANGED ledger
    <3>1. Hop(p, "write") BY <1>n, <2>2, GoHops
    <3>2. UNCHANGED ledger \/ Call(p) BY <2>1, <2>2 DEF Call, Quiet
    <3>3. outbox'.state # "none" /\ outbox'.acks = outbox.acks
      BY <2>2 DEF BeginChildTerminalSettlement, SettlementInstalled, ledger, IInv, TypeOK
    <3> QED BY <1>p, <2>0, <2>1, <3>1, <3>2, <3>3 DEF Hop, Fine, Ready, Seen, Past, ParentMoves
  <2>3. CASE UNCHANGED ledger /\ Go(p, "abandon")
    BY <1>l, <2>0, <2>3, GoHops, PlainHop
  <2> QED BY <1>3, <2>2, <2>3 DEF InstallOutbox
<1>4. CASE WriteEvidence(p)
  <2>0. UNCHANGED <<ledger, parentRuns, wsRev>> BY <1>4 DEF WriteEvidence, Calm, Fault, world
  <2>1. CASE Go(p, "canon")
    BY <1>l, <2>0, <2>1, GoHops, PlainHop
  <2>2. ASSUME NEW l \in {"settle", "resettle"}, Go(p, l) PROVE Fine(p)
    <3>1. Hop(p, l) BY <1>n, <2>2, GoHops
    <3>2. proc[p].res \in Terminal /\ proc[p].run \in Runs BY <1>4 DEF WriteEvidence, At, Ready
    <3>3. outbox.state # "none" BY <1>4 DEF WriteEvidence, At, Seen
    <3> QED BY <1>p, <2>0, <3>1, <3>2, <3>3 DEF Hop, Fine, Ready, Seen, Past, ParentMoves, ledger
  <2> QED BY <1>4, <2>1, <2>2 DEF WriteEvidence
<1>5. CASE Settle(p)
  <2>0. UNCHANGED <<parentRuns, wsRev>> BY <1>5 DEF Settle, Calm, world
  <2>1. proc[p].res \in Terminal /\ proc[p].run \in Runs BY <1>5 DEF Settle, At, Ready
  <2>2. SettleDeferred(proc[p].res, proc[p].run) => Call(p) BY <2>1 DEF Call, Quiet
  <2>3. CASE Go(p, "canon") /\ (UNCHANGED ledger \/ SettleDeferred(proc[p].res, proc[p].run))
    BY <1>l, <2>0, <2>2, <2>3, GoHops, PlainHop
  <2>4. CASE Go(p, "cleanup") /\ SettleDeferred(proc[p].res, proc[p].run)
    <3>1. Hop(p, "cleanup") BY <1>n, <2>4, GoHops
    <3>2. outbox.state # "none" BY <1>5 DEF Settle, At, Seen
    <3>3. outbox'.state = "linked" /\ outbox'.acks = outbox.acks
      BY <2>4, <3>2 DEF SettleDeferred, Linked, IInv, TypeOK
    <3> QED BY <1>p, <2>0, <2>2, <2>4, <3>1, <3>3 DEF Hop, Fine, Ready, Seen, Past, ParentMoves
  <2> QED BY <1>5, <2>3, <2>4 DEF Settle
<1>6. CASE Cleanup(p)
  <2>0. UNCHANGED <<parentRuns, wsRev>> /\ Go(p, "canon") BY <1>6 DEF Cleanup, Calm, Fault, world
  <2>1. outbox.state = "linked" BY <1>6 DEF Cleanup, At, Seen
  <2>2. Call(p) BY <1>6, <2>1 DEF Cleanup, Call, Quiet
  <2> QED BY <1>l, <2>0, <2>2, GoHops, PlainHop
<1> QED BY <1>1, <1>2, <1>3, <1>4, <1>5, <1>6

\* The delivery steps are Fine: the final receipt waits for both acknowledgements.
LEMMA DeliverFine ==
  ASSUME GInv, NEW p \in Procs, Deliver(p)
  PROVE  Fine(p)
<1> USE DEF GInv
<1>p. proc[p].ok => "receipt" \in outbox.acks BY DEF Seen
<1>t. outbox.acks \subseteq Steps BY DEF IInv, TypeOK
<1>l. {"receipt", "trace"} \subseteq Plain \cap Labels BY DEF Labels, Plain, Submitting
<1>m. "trace" \in Labels /\ "final" \in Labels BY DEF Labels
<1>1. CASE ReadCanonical(p)
  <2>1. UNCHANGED <<ledger, parentRuns, wsRev>> /\ Go(p, "receipt") BY <1>1 DEF ReadCanonical, Calm, world
  <2> QED BY <1>l, <2>1, GoHops, PlainHop
<1>2. CASE DeliverReceipt(p)
  <2>0. UNCHANGED <<parentRuns, wsRev>> BY <1>2 DEF DeliverReceipt, Calm, Fault, world
  <2>1. CASE UNCHANGED ledger /\ Go(p, "trace")
    BY <1>l, <2>0, <2>1, GoHops, PlainHop
  <2>2. CASE /\ AcknowledgeChildDeliveryStep("receipt")
             /\ proc' = [proc EXCEPT ![p].pc = "trace", ![p].ok = TRUE]
    <3>1. proc' = [proc EXCEPT ![p].pc = "trace", ![p].ok = TRUE] BY <2>2
    <3>2. TRUE \in BOOLEAN OBVIOUS
    <3>3. /\ Alone(p) /\ proc'[p].pc = "trace"
      BY <1>m, <3>1, <3>2, HopOk, Zenon
    <3>4. Call(p) BY <2>2 DEF Call, Quiet, Steps
    <3>5. "receipt" \in outbox'.acks BY <2>2 DEF AcknowledgeChildDeliveryStep, IInv, TypeOK
    <3> QED BY <2>0, <3>3, <3>4, <3>5 DEF Fine, Ready, Seen, Past, ParentMoves
  <2> QED BY <1>2, <2>1, <2>2 DEF DeliverReceipt
<1>3. CASE DeliverTrace(p)
  <2>0. UNCHANGED <<parentRuns, wsRev>> BY <1>3 DEF DeliverTrace, Calm, Fault, world
  <2>1. AcknowledgeChildDeliveryStep("trace") => Call(p) BY DEF Call, Quiet, Steps
  <2>2. CASE Stop(p) /\ (UNCHANGED ledger \/ AcknowledgeChildDeliveryStep("trace"))
    BY <2>0, <2>1, <2>2, StopFine
  <2>3. CASE Go(p, "final") /\ proc[p].ok /\ AcknowledgeChildDeliveryStep("trace")
    <3>1. Hop(p, "final") BY <1>m, <2>3, GoHops
    <3>2. "receipt" \in outbox'.acks /\ "trace" \in outbox'.acks
      BY <1>p, <2>3 DEF AcknowledgeChildDeliveryStep, IInv, TypeOK
    <3> QED BY <2>0, <2>1, <2>3, <3>1, <3>2 DEF Hop, Fine, Ready, Seen, Past, ParentMoves
  <2> QED BY <1>3, <2>2, <2>3 DEF DeliverTrace
<1>4. CASE DeliverFinalReceipt(p)
  <2>0. UNCHANGED <<parentRuns, wsRev>> /\ Stop(p) BY <1>4 DEF DeliverFinalReceipt, Calm, Fault, world
  <2>1. "receipt" \in outbox.acks /\ "trace" \in outbox.acks BY <1>4 DEF DeliverFinalReceipt, At, Seen
  <2>2. AcknowledgeChildDeliveryStep("final_receipt") => Call(p) BY <2>1 DEF Call, Quiet, Steps
  <2>3. UNCHANGED ledger \/ Call(p) BY <1>4, <2>2 DEF DeliverFinalReceipt
  <2> QED BY <2>0, <2>3, StopFine
<1> QED BY <1>1, <1>2, <1>3, <1>4 DEF Deliver

\* Every step of the daemon is a Fine step of one process.
LEMMA NextFine ==
  ASSUME GInv, DaemonNext
  PROVE  \E p \in Procs : Fine(p)
<1>1. PICK p \in Procs : Step(p) \/ Crash(p) \/ \E k \in Kinds : Invoke(p, k) BY DEF DaemonNext
<1>2. CASE BootProcess(p) \/ Crash(p) \/ \E k \in Kinds : Invoke(p, k) BY <1>2, BootFine
<1>3. CASE Prepare(p) BY <1>3, ReserveFine, ParentFine, AttachFine DEF Prepare
<1>4. CASE Resume(p) BY <1>4, ReadFine, ChildFine, SettleFine DEF Resume
<1>5. CASE Deliver(p) BY <1>5, DeliverFine
<1> QED BY <1>1, <1>2, <1>3, <1>4, <1>5 DEF Step

\* A call keeps the ledger's part of the invariant, and what Seen is about only grows.
LEMMA CallKeeps ==
  ASSUME GInv, NEW p \in Procs, UNCHANGED ledger \/ Call(p)
  PROVE  /\ IInv' /\ Evidenced' /\ ContShape' /\ WorkspaceOutlivesRecovery' /\ FinalReceiptLast'
         /\ outbox.state # "none" => outbox'.state # "none"
         /\ outbox.state = "linked" => outbox'.state = "linked"
         /\ outbox.acks \subseteq outbox'.acks
         /\ owner.status # "none" => owner'.status # "none"
         /\ Past => Past'
         /\ owner.started /\ owner.status # "none" => owner'.started
         /\ owner'.started => owner.started \/ owner'.status # "none"
<1>1. TypeOK BY DEF GInv, IInv
<1>2. CASE UNCHANGED ledger
  <2>1. IInv' BY <1>2, InvStep DEF GInv
  <2> QED BY <1>2, <2>1 DEF GInv, Evidenced, ContShape, WorkspaceOutlivesRecovery, FinalReceiptLast, Past, ledger
<1>3. CASE Call(p)
  <2>1. DaemonCall BY <1>3, CallIsDaemonCall
  <2>2. IInv' BY <2>1, CallIsLedgerStep, InvStep DEF GInv
  <2>3. ContShape' /\ WorkspaceOutlivesRecovery' BY <2>1, ContinuationFacts, WorkspaceFacts DEF GInv
  <2> QED BY <1>1, <2>1, <2>2, <2>3, OutboxFacts, OwnerRemains DEF GInv
<1> QED BY <1>2, <1>3

\* GInv is inductive.
LEMMA GInvStep ==
  ASSUME GInv, DaemonNext
  PROVE  GInv'
<1>1. PICK p \in Procs : Fine(p) BY NextFine
<1>2. /\ Alone(p) /\ (UNCHANGED ledger \/ Call(p)) /\ wsRev' \in Revisions
      /\ Ready(proc'[p]) /\ Seen(proc[p])' /\ ParentMoves(p)
  BY <1>1 DEF Fine
<1>3. Typed' BY <1>2 DEF Alone, Typed
<1>4. parentRuns' \in Nat BY <1>2 DEF ParentMoves, GInv
<1>5. ASSUME NEW q \in Procs, q # p PROVE Ready(proc'[q]) /\ Seen(proc[q])'
  <2>1. proc'[q] = proc[q] BY <1>2, <1>5 DEF Alone
  <2>2. Ready(proc[q]) /\ Seen(proc[q]) BY DEF GInv
  <2>3. /\ outbox.state # "none" => outbox'.state # "none"
        /\ outbox.state = "linked" => outbox'.state = "linked"
        /\ outbox.acks \subseteq outbox'.acks
        /\ owner.status # "none" => owner'.status # "none"
        /\ Past => Past'
    BY <1>2, CallKeeps
  <2> QED BY <2>1, <2>2, <2>3 DEF Seen
<1>6. \A q \in Procs : (Ready(proc[q]) /\ Seen(proc[q]))' BY <1>2, <1>5
<1>7. IInv' /\ Evidenced' /\ ContShape' /\ WorkspaceOutlivesRecovery' /\ FinalReceiptLast'
  BY <1>2, CallKeeps
<1> QED BY <1>2, <1>3, <1>4, <1>6, <1>7 DEF GInv

\* ParentOnce is kept: the fence is won once, and by one process.
LEMMA ParentOnceStep ==
  ASSUME GInv, ParentOnce, DaemonNext
  PROVE  ParentOnce'
<1>1. PICK p \in Procs : Fine(p) BY NextFine
<1>2. Alone(p) /\ ParentMoves(p) /\ (UNCHANGED ledger \/ Call(p)) BY <1>1 DEF Fine
<1>3. /\ owner.status # "none" => owner'.status # "none"
      /\ owner.started /\ owner.status # "none" => owner'.started
      /\ owner'.started => owner.started \/ owner'.status # "none"
  BY <1>2, CallKeeps
<1>4. \A q \in Procs \ {p} : proc'[q] = proc[q] BY <1>2 DEF Alone
<1>5. (owner'.started => owner'.status # "none") /\ (owner.started => owner'.started)
  BY <1>3 DEF ParentOnce
<1>6. CASE proc'[p].pc = "parent" /\ ~owner.started /\ owner'.started /\ parentRuns' = parentRuns
  BY <1>4, <1>5, <1>6 DEF ParentOnce, At
<1>7. CASE proc'[p].pc # "parent" /\ parentRuns' = parentRuns
  BY <1>4, <1>5, <1>7 DEF ParentOnce, At
<1>8. CASE proc'[p].pc # "parent" /\ At(p, "parent") /\ parentRuns' = parentRuns + 1 /\ UNCHANGED owner
  BY <1>4, <1>5, <1>8 DEF ParentOnce, At
<1> QED BY <1>2, <1>6, <1>7, <1>8 DEF ParentMoves

-----------------------------------------------------------------------------
(* The invariant and its theorems.                                         *)

\* The inductive invariant.
DInv == GInv /\ ParentOnce

\* It holds initially.
LEMMA DInvInit == DaemonInit => DInv
<1> SUFFICES ASSUME DaemonInit PROVE DInv OBVIOUS
<1>1. LedgerInit /\ IInv BY InvInit DEF DaemonInit
<1>2. Idle \in Locals BY DEF Idle, Locals, NoRun, Labels, EdgeBase, OwnerStatuses
<1>3. proc = [p \in Procs |-> Idle] /\ parentRuns = 0 /\ wsRev = 1 BY DEF DaemonInit
<1>4. Typed BY <1>2, <1>3 DEF Typed
<1>5. \A p \in Procs : proc[p] = Idle BY <1>3
<1>6. Ready(Idle) /\ Seen(Idle) BY DEF Ready, Seen, Idle
<1>7. \A p \in Procs : Ready(proc[p]) /\ Seen(proc[p]) BY <1>5, <1>6
<1>8. Evidenced /\ ContShape /\ WorkspaceOutlivesRecovery /\ FinalReceiptLast
  BY <1>1 DEF LedgerInit, Evidenced, ContShape, WorkspaceOutlivesRecovery, FinalReceiptLast
<1>9. ParentOnce
  <2>1. \A p \in Procs : ~At(p, "parent") BY <1>5 DEF At, Idle
  <2> QED BY <1>1, <1>3, <2>1 DEF ParentOnce, LedgerInit
<1>10. wsRev \in Revisions /\ parentRuns \in Nat BY <1>3, RevAssumption DEF Revisions
<1> QED BY <1>1, <1>4, <1>7, <1>8, <1>9, <1>10 DEF DInv, GInv

\* Every step keeps it.
LEMMA DInvStep ==
  ASSUME DInv, [DaemonNext]_vars
  PROVE  DInv'
<1>1. CASE DaemonNext BY <1>1, GInvStep, ParentOnceStep DEF DInv
<1>2. CASE UNCHANGED vars
  <2>1. UNCHANGED <<ledger, proc, parentRuns, wsRev>> BY <1>2 DEF vars, world
  <2>2. IInv' BY <2>1, InvStep DEF DInv, GInv
  <2>3. (Typed /\ wsRev \in Revisions /\ parentRuns \in Nat)' BY <2>1 DEF DInv, GInv, Typed
  <2>4. \A p \in Procs : (Ready(proc[p]) /\ Seen(proc[p]))'
    BY <2>1 DEF DInv, GInv, Seen, Past, ledger
  <2>5. (Evidenced /\ ContShape /\ WorkspaceOutlivesRecovery /\ FinalReceiptLast)'
    BY <2>1 DEF DInv, GInv, Evidenced, ContShape, WorkspaceOutlivesRecovery, FinalReceiptLast, ledger
  <2>6. ParentOnce' BY <2>1 DEF DInv, ParentOnce, At, ledger
  <2> QED BY <2>2, <2>3, <2>4, <2>5, <2>6 DEF DInv, GInv
<1> QED BY <1>1, <1>2

\* DInv holds in every reachable state, whatever is lost, repeated or run at the same time.
THEOREM DaemonInvariance == DaemonSpec => []DInv
BY DInvInit, DInvStep, PTL DEF DaemonSpec

\* One step of the daemon is one step of the ledger's specification, or none.
LEMMA StepIsLedgerStep ==
  ASSUME DInv, [DaemonNext]_vars
  PROVE  [LedgerNext]_ledger
<1>1. CASE DaemonNext
  <2>1. PICK p \in Procs : Fine(p) BY <1>1, NextFine DEF DInv
  <2> QED BY <2>1, CallIsDaemonCall, CallIsLedgerStep DEF Fine
<1>2. CASE UNCHANGED vars BY <1>2 DEF vars
<1> QED BY <1>1, <1>2

\* The daemon uses the ledger as LedgerSpec lets anybody use it: everything that is
\* proved of LedgerSpec holds while processes interleave, are lost and come back.
THEOREM DaemonRefinesLedger == DaemonSpec => LedgerSpec
<1>1. DaemonInit => LedgerInit BY DEF DaemonInit
<1> QED BY <1>1, DaemonInvariance, StepIsLedgerStep, PTL DEF DaemonSpec, LedgerSpec

\* Hence the daemon implements the abstract edge: a decided outcome is never replaced
\* or hidden, however many processes work on the edge.
THEOREM DaemonImplementsChildEdge == DaemonSpec => ImplementsChildEdge
BY DaemonRefinesLedger, Refinement

\* ParentRunsOnce: beginChildParentExecution lets one process through, once, for as long
\* as the ledger lives.
THEOREM ParentExecutesOnce == DaemonSpec => []ParentRunsOnce
<1>1. DInv => ParentRunsOnce BY DEF DInv, ParentOnce, ParentRunsOnce
<1> QED BY <1>1, DaemonInvariance, PTL

\* FinalReceiptLast: the final receipt is acknowledged after the receipt and the trace,
\* also when several processes deliver at the same time.
THEOREM FinalReceiptComesLast == DaemonSpec => []FinalReceiptLast
<1>1. DInv => FinalReceiptLast BY DEF DInv, GInv
<1> QED BY <1>1, DaemonInvariance, PTL

\* WorkspaceOutlivesRecovery: the child's workspace is cleaned up only under a linked
\* outbox, when nothing can ask for it again.
THEOREM WorkspaceKept == DaemonSpec => []WorkspaceOutlivesRecovery
<1>1. DInv => WorkspaceOutlivesRecovery BY DEF DInv, GInv
<1> QED BY <1>1, DaemonInvariance, PTL

\* ManifestMatchesContinuation: a continuation is always at the revision its manifest names.
THEOREM ManifestMatches == DaemonSpec => []ManifestMatchesContinuation
<1>1. DInv => ManifestMatchesContinuation BY DEF DInv, GInv, ContShape, ManifestMatchesContinuation
<1> QED BY <1>1, DaemonInvariance, PTL

-----------------------------------------------------------------------------
(* One process at a time: the claim it works under is its own.             *)

\* From the manifest to the child's outcome.
Zone == {"manifest", "claim", "resume", "child", "spawn", "childrun", "begin", "preserve", "refresh",
         "giveup", "abandon"}

\* What a process that runs alone knows of the ledger at each label.
Single(l) ==
  /\ l.pc \in Zone => outbox.state = "none"
  /\ l.pc \in {"resume", "child"} => Effective(edge) = "claimed"
  /\ l.pc \in {"parent", "parentrun"} => owner.status = "parent_pending"

\* Process p goes on to label l within the same invocation.
Lands(p, l) == proc'[p].pc = l /\ proc'[p].kind = proc[p].kind

\* A process that stops is idle.
LEMMA StopLands ==
  ASSUME Typed, NEW p \in Procs, Stop(p)
  PROVE  proc'[p].pc = "idle"
BY DEF Typed, Stop, Idle

\* Go lands at its label.
LEMMA GoLands ==
  ASSUME Typed, NEW p \in Procs, NEW l, Go(p, l)
  PROVE  Lands(p, l)
BY DEF Typed, Locals, Go, Lands

\* An invocation starts with the validation of boot.
LEMMA InvokeLands ==
  ASSUME Typed, NEW p \in Procs, NEW k, Invoke(p, k)
  PROVE  proc'[p].pc = "validate" /\ proc'[p].kind = k
BY DEF Invoke, Typed, Locals

\* A reservation leads to the decision, or ends the invocation.
LEMMA ReserveLands ==
  ASSUME Typed, NEW p \in Procs, Reserve(p)
  PROVE  Lands(p, "decide") \/ Stop(p)
<1>1. ASSUME NEW cap, proc' = [proc EXCEPT ![p].pc = "decide", ![p].cap = cap, ![p].own = "parent_pending"]
      PROVE  Lands(p, "decide")
  BY <1>1 DEF Typed, Locals, Lands
<1>2. ASSUME NEW cap, NEW own, NEW fenced,
             proc' = [proc EXCEPT ![p].pc = "decide", ![p].cap = cap, ![p].own = own, ![p].fenced = fenced]
      PROVE  Lands(p, "decide")
  BY <1>2 DEF Typed, Locals, Lands
<1>3. (\E cap \in BOOLEAN : proc' = [proc EXCEPT ![p].pc = "decide", ![p].cap = cap, ![p].own = "parent_pending"])
      \/ proc' = [proc EXCEPT ![p].pc = "decide", ![p].cap = owner.capable, ![p].own = owner.status,
                              ![p].fenced = owner.started]
      \/ Stop(p)
  BY DEF Reserve
<1> QED BY <1>1, <1>2, <1>3, Zenon

\* Boot, delivery, loss and the operator leave Single true: their labels ask nothing.
LEMMA SingleBoot ==
  ASSUME Typed, NEW p \in Procs, BootProcess(p) \/ Deliver(p) \/ Crash(p) \/ \E k \in Kinds : Invoke(p, k)
  PROVE  Single(proc[p])'
<1>1. CASE BootProcess(p)
  <2>1. proc'[p].pc \in {"reconcile", "generic", "recheck", "select", "idle"}
    BY <1>1, StopLands, GoLands DEF BootProcess, ValidateEdges, BootEdges, BootTasks, Lands, Typed, Locals
  <2> QED BY <2>1 DEF Single, Zone
<1>2. CASE Deliver(p)
  <2>1. proc'[p].pc \in {"receipt", "trace", "final", "idle"}
    BY <1>2, StopLands, GoLands
    DEF Deliver, ReadCanonical, DeliverReceipt, DeliverTrace, DeliverFinalReceipt, Lands, Typed, Locals
  <2> QED BY <2>1 DEF Single, Zone
<1>3. CASE Crash(p) BY <1>3, StopLands DEF Crash, Single, Zone
<1>4. ASSUME NEW k \in Kinds, Invoke(p, k) PROVE Single(proc[p])'
  <2>1. proc'[p].pc = "validate" BY <1>4, InvokeLands
  <2> QED BY <2>1 DEF Single, Zone
<1> QED BY <1>1, <1>2, <1>3, <1>4

\* The preparation steps: the parent's session is under a pending reservation.
LEMMA SinglePrepare ==
  ASSUME Typed, NEW p \in Procs, Single(proc[p]), Prepare(p)
  PROVE  Single(proc[p])'
<1>1. CASE BeginParent(p)
  <2>1. CASE BeginChildParentExecution /\ Go(p, "parent")
    <3>1. proc'[p].pc = "parent" BY <2>1, GoLands DEF Lands
    <3>2. owner'.status = "parent_pending" BY <2>1 DEF BeginChildParentExecution
    <3> QED BY <3>1, <3>2 DEF Single, Zone
  <2>2. CASE Go(p, "blockprep") \/ Go(p, "canon")
    <3>1. proc'[p].pc \in {"blockprep", "canon"} BY <2>2, GoLands DEF Lands
    <3> QED BY <3>1 DEF Single, Zone
  <2> QED BY <1>1, <2>1, <2>2 DEF BeginParent
<1>2. CASE StartParent(p)
  <2>1. proc'[p].pc = "parentrun" BY <1>2 DEF StartParent, Typed, Locals
  <2>2. UNCHANGED owner BY <1>2 DEF StartParent, SetTaskStatus
  <2>3. owner.status = "parent_pending" BY <1>2 DEF StartParent, At, Single
  <2> QED BY <2>1, <2>2, <2>3 DEF Single, Zone
<1>3. CASE Recheck(p) \/ LookupOwner(p) \/ InsertParent(p) \/ Reserve(p) \/ Decide(p) \/ BlockPreparation(p)
  <2>1. proc'[p].pc \in {"lookup", "insert", "reserve", "decide", "read", "canon", "fence", "artifacts",
                         "blockprep", "idle"}
    BY <1>3, StopLands, GoLands, ReserveLands
    DEF Recheck, LookupOwner, InsertParent, Decide, BlockPreparation, Lands, Typed, Locals
  <2> QED BY <2>1 DEF Single, Zone
<1>4. CASE AcceptParent(p) \/ ParentFails(p) \/ BeginArtifacts(p) \/ Attach(p) \/ BlockEdge(p)
           \/ PrepareProvider(p) \/ CompletePreparation(p)
  <2>1. proc'[p].pc \in {"artifacts", "blockprep", "attach", "provider", "blockedge", "complete", "read",
                         "canon", "idle"}
    BY <1>4, StopLands, GoLands
    DEF AcceptParent, ParentFails, BeginArtifacts, Attach, BlockEdge, ReturnBlocked, PrepareProvider,
        CompletePreparation, Lands, Typed, Locals
  <2> QED BY <2>1 DEF Single, Zone
<1> QED BY <1>1, <1>2, <1>3, <1>4 DEF Prepare

\* The steps of resuming: the manifest is reached without an outbox, the session
\* under the claim.
LEMMA SingleResume ==
  ASSUME Typed, NEW p \in Procs, Single(proc[p]), Resume(p)
  PROVE  Single(proc[p])'
<1>1. CASE Select(p) \/ ReadEdge(p) \/ WriteEvidence(p) \/ Settle(p) \/ Cleanup(p)
  <2>1. proc'[p].pc \in {"read", "outbox", "settle", "resettle", "cleanup", "canon", "idle"}
    BY <1>1, StopLands, GoLands
    DEF Select, ReadEdge, WriteEvidence, Settle, Cleanup, Lands, Typed, Locals
  <2> QED BY <2>1 DEF Single, Zone
<1>2. CASE ReadOutbox(p)
  <2>1. \/ proc'[p].pc \in {"replay", "canon", "provider", "blockedge", "idle"}
        \/ outbox.state = "none" /\ proc'[p].pc = "manifest"
    BY <1>2, StopLands, GoLands DEF ReadOutbox, ReturnBlocked, Lands, Typed, Locals
  <2>2. UNCHANGED outbox BY <1>2 DEF ReadOutbox, ledger
  <2> QED BY <2>1, <2>2 DEF Single, Zone
<1>3. CASE ValidateManifest(p)
  <2>1. proc'[p].pc \in {"claim", "blockedge"} /\ UNCHANGED outbox
    BY <1>3, GoLands DEF ValidateManifest, Lands, Typed, Locals, ledger
  <2>2. outbox.state = "none" BY <1>3 DEF ValidateManifest, At, Single, Zone
  <2> QED BY <2>1, <2>2 DEF Single, Zone
<1>4. CASE ClaimChild(p)
  <2>1. outbox.state = "none" BY <1>4 DEF ClaimChild, At, Single, Zone
  <2>2. CASE Claim(proc[p].edge) /\ Go(p, "resume")
    <3>1. Effective(edge)' = "claimed" /\ UNCHANGED outbox BY <2>2 DEF Claim, Effective
    <3>2. proc'[p].pc = "resume" BY <2>2, GoLands DEF Lands
    <3> QED BY <2>1, <3>1, <3>2 DEF Single, Zone
  <2>3. CASE ReturnBlocked(p)
    <3>1. proc'[p].pc \in {"idle", "canon"} BY <2>3, StopLands, GoLands DEF ReturnBlocked, Lands
    <3> QED BY <3>1 DEF Single, Zone
  <2> QED BY <1>4, <2>2, <2>3 DEF ClaimChild
<1>5. CASE ResumeProvider(p)
  <2>1. proc'[p].pc \in {"child", "blockedge"} /\ UNCHANGED <<outbox, edge>>
    BY <1>5, GoLands DEF ResumeProvider, Lands, ledger
  <2>2. outbox.state = "none" /\ Effective(edge) = "claimed" BY <1>5 DEF ResumeProvider, At, Single, Zone
  <2> QED BY <2>1, <2>2 DEF Single, Zone, Effective
<1>6. CASE StartChild(p) \/ OpenChildSession(p) \/ ChildInterrupted(p) \/ ChildFinishes(p)
  <2>1. proc'[p].pc \in {"spawn", "childrun", "preserve", "begin"}
    BY <1>6, GoLands DEF StartChild, OpenChildSession, ChildInterrupted, ChildFinishes, Lands, Typed, Locals
  <2>2. UNCHANGED outbox
    BY <1>6 DEF StartChild, OpenChildSession, ChildInterrupted, ChildFinishes, SetTaskStatus,
                SetWorkspaceStatus, ledger
  <2>3. proc[p].pc \in Zone
    BY <1>6 DEF StartChild, OpenChildSession, ChildInterrupted, ChildFinishes, At, Zone
  <2> QED BY <2>1, <2>2, <2>3 DEF Single, Zone
<1>7. CASE ChildWorks(p) BY <1>7 DEF ChildWorks, Single, ledger
<1>8. CASE PreserveChild(p) \/ RefreshChild(p) \/ InstallOutbox(p)
  <2>1. proc[p].pc \in Zone BY <1>8 DEF PreserveChild, RefreshChild, InstallOutbox, At, Zone
  <2>2. \/ proc'[p].pc \in {"canon", "write"}
        \/ proc'[p].pc \in {"refresh", "giveup", "abandon"} /\ UNCHANGED outbox
    BY <1>8, GoLands DEF PreserveChild, RefreshChild, InstallOutbox, Lands, Typed, Locals, ledger
  <2> QED BY <2>1, <2>2 DEF Single, Zone
<1> QED BY <1>1, <1>2, <1>3, <1>4, <1>5, <1>6, <1>7, <1>8 DEF Resume

-----------------------------------------------------------------------------
(* The rows of the two tasks.                                              *)

\* An executing parent has a pending reservation, an executing child an active edge, and a
\* task that was never inserted was never retried.
TaskFacts ==
  /\ Effective(task["parent"]) = "executing" => owner.status = "parent_pending"
  /\ Effective(task["child"]) = "executing" => Effective(edge) \in EdgeActive
  /\ \A t \in Tasks : task[t].base = "absent" => task[t].retries = 0

\* Setting one task's status touches that row, and no counter.
LEMMA SetTaskFacts ==
  ASSUME NEW rows \in [Tasks -> TaskRow], NEW t \in Tasks, NEW s \in TaskStatuses
  PROVE  /\ SetTask(rows, t, s) \in [Tasks -> TaskRow]
         /\ Effective(SetTask(rows, t, s)[t]) = s
         /\ \A u \in Tasks \ {t} : SetTask(rows, t, s)[u] = rows[u]
         /\ \A u \in Tasks : SetTask(rows, t, s)[u].retries = rows[u].retries
         /\ \A u \in Tasks : SetTask(rows, t, s)[u].base = "absent" => rows[u].base = "absent"
<1>1. rows[t] \in TaskRow OBVIOUS
<1>2. /\ Effective(WithStatus(rows[t], s)) = s
      /\ WithStatus(rows[t], s).retries = rows[t].retries
      /\ WithStatus(rows[t], s).base = "absent" => rows[t].base = "absent"
  BY <1>1 DEF WithStatus, Effective, TaskRow, Extended, TaskStatuses, TaskBase
<1>3. SetTask(rows, t, s) \in [Tasks -> TaskRow] BY SetTaskType
<1>4. SetTask(rows, t, s)[t] = WithStatus(rows[t], s) BY DEF SetTask
<1>5. \A u \in Tasks \ {t} : SetTask(rows, t, s)[u] = rows[u] BY DEF SetTask
<1> QED BY <1>2, <1>3, <1>4, <1>5

\* Setting both statuses touches no counter.
LEMMA SetTasksFacts ==
  ASSUME NEW rows \in [Tasks -> TaskRow], NEW s \in TaskStatuses, NEW c \in TaskStatuses
  PROVE  /\ Effective(SetTasks(rows, s, c)["parent"]) = s
         /\ Effective(SetTasks(rows, s, c)["child"]) = c
         /\ \A u \in Tasks : SetTasks(rows, s, c)[u].retries = rows[u].retries
         /\ \A u \in Tasks : SetTasks(rows, s, c)[u].base = "absent" => rows[u].base = "absent"
<1> DEFINE r == SetTask(rows, "parent", s)
<1>1. /\ r \in [Tasks -> TaskRow] /\ Effective(r["parent"]) = s
      /\ \A u \in Tasks : r[u].retries = rows[u].retries
      /\ \A u \in Tasks : r[u].base = "absent" => rows[u].base = "absent"
  BY SetTaskFacts, StatusFacts
<1> HIDE DEF r
<1>2. /\ Effective(SetTask(r, "child", c)["child"]) = c
      /\ SetTask(r, "child", c)["parent"] = r["parent"]
      /\ \A u \in Tasks : SetTask(r, "child", c)[u].retries = r[u].retries
      /\ \A u \in Tasks : SetTask(r, "child", c)[u].base = "absent" => r[u].base = "absent"
  <2>1. "parent" \in Tasks \ {"child"} /\ "child" \in Tasks BY DEF Tasks
  <2>2. r \in [Tasks -> TaskRow] BY <1>1
  <2>3. \A u \in Tasks \ {"child"} : SetTask(r, "child", c)[u] = r[u] BY <2>1, <2>2, SetTaskFacts, Zenon
  <2> QED BY <2>1, <2>2, <2>3, SetTaskFacts
<1> QED BY <1>1, <1>2 DEF SetTasks, r

\* The rows differ from the table's in statuses only.
Alike(rows) == /\ rows \in [Tasks -> TaskRow]
               /\ \A t \in Tasks : /\ rows[t].retries = task[t].retries
                                   /\ rows[t].base = "absent" => task[t].base = "absent"

\* The step keeps TaskFacts, and no task was retried.
Tasked == TaskFacts' /\ \A t \in Tasks : task'[t].retries = task[t].retries

\* The rows that reservations and edges start from are like the table's.
LEMMA RowsAlike ==
  ASSUME TypeOK, TaskFacts
  PROVE  Alike(task) /\ Alike(WithChild(task)) /\ Alike(FencedParent)
<1>1. task \in [Tasks -> TaskRow] BY TypeRows
<1>2. Alike(task) BY <1>1 DEF Alike
<1>3. Alike(WithChild(task))
  <2>1. CASE task["child"].base # "absent" BY <1>2, <2>1 DEF WithChild
  <2>2. CASE task["child"].base = "absent"
    <3>1. task["child"].retries = 0 BY <2>2, StatusFacts DEF TaskFacts
    <3>2. WithChild(task) = [task EXCEPT !["child"] = NewTask] BY <2>2 DEF WithChild
    <3>3. NewTask \in TaskRow /\ NewTask.retries = 0 /\ NewTask.base = "queued" BY NewTaskType DEF NewTask
    <3> QED BY <1>1, <3>1, <3>2, <3>3 DEF Alike
  <2> QED BY <2>1, <2>2
<1>4. Alike(FencedParent)
  BY <1>1, <1>2, SetTaskFacts, StatusFacts DEF FencedParent, Alike
<1> QED BY <1>2, <1>3, <1>4

\* Writing both statuses, neither as executing.
LEMMA BothWritten ==
  ASSUME TypeOK, TaskFacts, NEW rows, Alike(rows),
         NEW s \in TaskStatuses \ {"executing"}, NEW c \in TaskStatuses \ {"executing"},
         task' = SetTasks(rows, s, c)
  PROVE  Tasked
<1>1. rows \in [Tasks -> TaskRow] BY DEF Alike
<1>2. /\ Effective(task'["parent"]) = s /\ Effective(task'["child"]) = c
      /\ \A u \in Tasks : task'[u].retries = rows[u].retries
      /\ \A u \in Tasks : task'[u].base = "absent" => rows[u].base = "absent"
  BY <1>1, SetTasksFacts
<1> QED BY <1>2 DEF Tasked, TaskFacts, Alike

\* Writing one status.
LEMMA OneWritten ==
  ASSUME TypeOK, TaskFacts, NEW t \in Tasks, NEW s \in TaskStatuses, task' = SetTask(task, t, s),
         s = "executing" => \/ t = "parent" /\ owner'.status = "parent_pending"
                            \/ t = "child" /\ Effective(edge') \in EdgeActive,
         t = "child" => UNCHANGED owner,
         t = "parent" => UNCHANGED edge
  PROVE  Tasked
<1>1. task \in [Tasks -> TaskRow] BY TypeRows
<1>2. /\ Effective(task'[t]) = s
      /\ \A u \in Tasks \ {t} : task'[u] = task[u]
      /\ \A u \in Tasks : task'[u].retries = task[u].retries
      /\ \A u \in Tasks : task'[u].base = "absent" => task[u].base = "absent"
  BY <1>1, SetTaskFacts
<1>3. "parent" \in Tasks /\ "child" \in Tasks /\ t \in {"parent", "child"} BY DEF Tasks
<1> QED BY <1>2, <1>3 DEF Tasked, TaskFacts

\* Every executing task is owned by the edge, so boot has no orphan to requeue.
LEMMA NoneOrphaned ==
  ASSUME IInv, TaskFacts, NEW t \in Tasks
  PROVE  ~Orphaned(t)
<1>1. Effective(edge) \in EdgeActive => edge.base # "absent"
  BY DEF IInv, Safe, EdgeShape, Effective, EdgeActive
<1> QED BY <1>1 DEF Orphaned, EdgeOwned, TaskFacts, Tasks, OwnerActive

\* Every call keeps TaskFacts and the counters.
LEMMA CallTasked ==
  ASSUME IInv, TaskFacts, NEW p \in Procs, Single(proc[p]), Call(p)
  PROVE  Tasked
<1>t. TypeOK BY DEF IInv
<1>r. task \in [Tasks -> TaskRow] BY <1>t, TypeRows
<1>a. Alike(task) /\ Alike(WithChild(task)) /\ Alike(FencedParent) BY <1>t, RowsAlike
<1>s. /\ {"preparing", "awaiting_child", "awaiting_execution", "resumable", "delivery_pending", "failed",
          "escalated"} \subseteq TaskStatuses \ {"executing"}
      /\ "executing" \in TaskStatuses /\ "parent" \in Tasks /\ "child" \in Tasks
  BY DEF TaskStatuses, Extended, TaskBase, Terminal, Tasks
<1>k. ASSUME UNCHANGED task, owner.status = "parent_pending" => owner'.status = "parent_pending",
             Effective(edge) \in EdgeActive => Effective(edge') \in EdgeActive
      PROVE  Tasked
  BY <1>k DEF Tasked, TaskFacts
<1>1. ASSUME NEW t \in Tasks, InsertTask(t) PROVE Tasked
  <2>1. task' = [task EXCEPT ![t] = NewTask] /\ task[t].retries = 0 /\ UNCHANGED <<owner, edge>>
    BY <1>1 DEF InsertTask, TaskFacts
  <2>2. NewTask \in TaskRow /\ NewTask.retries = 0 /\ NewTask.base = "queued" /\ Effective(NewTask) = "queued"
    BY NewTaskType DEF NewTask, Effective
  <2> HIDE DEF NewTask
  <2>3. /\ Effective(task'[t]) = "queued" /\ task'[t].retries = 0 /\ task'[t].base = "queued"
        /\ \A u \in Tasks \ {t} : task'[u] = task[u]
    BY <1>r, <2>1, <2>2
  <2> QED BY <1>s, <2>1, <2>3 DEF Tasked, TaskFacts
<1>2. ASSUME NEW t \in Tasks, NEW s \in {"failed", "escalated"}, SetTaskStatus(t, s) PROVE Tasked
  BY <1>2, <1>s, <1>t, OneWritten DEF SetTaskStatus
<1>3. CASE At(p, "parent") /\ Launch("parent")
  <2>1. owner.status = "parent_pending" BY <1>3 DEF At, Single
  <2> QED BY <1>3, <1>s, <1>t, <2>1, OneWritten DEF Launch, SetTaskStatus
<1>4. CASE At(p, "child") /\ Launch("child")
  <2>1. Effective(edge) \in EdgeActive BY <1>4 DEF At, Single, EdgeActive
  <2> QED BY <1>4, <1>s, <1>t, <2>1, OneWritten DEF Launch, SetTaskStatus
<1>5. CASE BlockChild
  BY <1>5, <1>a, <1>s, <1>t, BothWritten DEF BlockChild
<1>6. ASSUME NEW s, SetWorkspaceStatus(s) PROVE Tasked
  BY <1>6, <1>k DEF SetWorkspaceStatus
<1>7. CASE OwnerStep
  <2>1. ASSUME NEW capable \in BOOLEAN, PersistChildPreparationOwner(capable) PROVE Tasked
    BY <1>s, <1>t, <2>1, OneWritten DEF PersistChildPreparationOwner
  <2>2. ASSUME NEW r \in Runs, RecordChildParentAcceptance(r) PROVE Tasked
    BY <1>s, <1>t, <2>2, OneWritten DEF RecordChildParentAcceptance
  <2>3. CASE BlockChildPreparation
    BY <1>s, <1>t, <2>3, OneWritten DEF BlockChildPreparation
  <2>4. CASE BeginChildParentExecution \/ BeginChildArtifactPersistence
    BY <1>k, <1>t, <2>4 DEF BeginChildParentExecution, BeginChildArtifactPersistence, TypeOK
  <2> QED BY <1>7, <2>1, <2>2, <2>3, <2>4 DEF OwnerStep
<1>8. CASE Past /\ PersistBlockedChildIntent
  <2>1. task' = WithChild(task) /\ edge' = [base |-> "ready", over |-> "none"]
    BY <1>8 DEF PersistBlockedChildIntent
  <2>2. Effective(task["parent"]) # "executing" BY <1>8 DEF Past, TaskFacts
  <2>3. task'["parent"] = task["parent"]
    BY <1>r, <1>s, <2>1 DEF WithChild
  <2>4. Effective(edge') \in EdgeActive BY <2>1 DEF Effective, EdgeActive
  <2> QED BY <1>a, <2>1, <2>2, <2>3, <2>4 DEF Tasked, TaskFacts, Alike
<1>9. ASSUME NEW r \in Revisions, PersistPreparingChildIntent(r) PROVE Tasked
  BY <1>9, <1>a, <1>s, <1>t, BothWritten DEF PersistPreparingChildIntent
<1>10. ASSUME NEW r \in Revisions, CompleteChildPreparation(r) \/ UpdateResumableChild(r) PROVE Tasked
  BY <1>10, <1>a, <1>s, <1>t, BothWritten DEF CompleteChildPreparation, UpdateResumableChild
<1>11. ASSUME NEW from, Claim(from) PROVE Tasked
  BY <1>11, <1>k DEF Claim, Effective, EdgeActive
<1>12. ASSUME NEW s \in Terminal, NEW e \in Runs, BeginChildTerminalSettlement(s, e) PROVE Tasked
  BY <1>12, <1>k DEF BeginChildTerminalSettlement
<1>13. ASSUME NEW s \in Terminal, NEW e \in Runs, SettleDeferred(s, e) PROVE Tasked
  BY <1>13, <1>a, <1>s, <1>t, BothWritten DEF SettleDeferred
<1>14. ASSUME NEW step \in Steps, AcknowledgeChildDeliveryStep(step) PROVE Tasked
  <2>1. outbox.status \in Terminal /\ UNCHANGED owner
    BY <1>14 DEF AcknowledgeChildDeliveryStep, IInv, Safe, OutboxShape
  <2>2. CASE outbox.acks \cup {step} = Steps
    <3>1. task' = [t \in Tasks |-> [task[t] EXCEPT !.base = outbox.status, !.over = "none"]]
      BY <1>14, <2>2, Zenon DEF AcknowledgeChildDeliveryStep
    <3>2. \A t \in Tasks : /\ Effective(task'[t]) = outbox.status
                           /\ task'[t].base = outbox.status /\ task'[t].retries = task[t].retries
      BY <1>r, <3>1 DEF TaskRow, Effective
    <3> QED BY <1>s, <2>1, <3>2 DEF Tasked, TaskFacts, Terminal
  <2>3. CASE outbox.acks \cup {step} # Steps
    <3>1. UNCHANGED <<task, edge>> BY <1>14, <2>3, Zenon DEF AcknowledgeChildDeliveryStep
    <3> QED BY <1>k, <2>1, <3>1
  <2> QED BY <2>2, <2>3
<1>15. ASSUME NEW v, ReconcileChildEdgesOnBoot(v) PROVE Tasked
  <2>1. CASE BootKeeps(v)
    <3>1. task' = FencedParent /\ UNCHANGED <<owner, edge>> BY <2>1 DEF BootKeeps
    <3>2. CASE task' = task BY <1>k, <3>1, <3>2
    <3>3. CASE task' = SetTask(task, "parent", "preparing")
      BY <1>s, <1>t, <3>1, <3>3, OneWritten
    <3> QED BY <3>1, <3>2, <3>3 DEF FencedParent
  <2>2. CASE BootResumes(v) \/ BootBlocks(v)
    BY <1>a, <1>s, <1>t, <2>2, BothWritten DEF BootResumes, BootBlocks
  <2> QED BY <1>15, <2>1, <2>2 DEF ReconcileChildEdgesOnBoot
<1>16. CASE ReconcileOnBoot
  <2>1. task' = [t \in Tasks |-> task[t]]
    BY <1>16, NoneOrphaned DEF ReconcileOnBoot
  <2>2. UNCHANGED <<task, owner, edge>> BY <1>16, <1>r, <2>1 DEF ReconcileOnBoot
  <2> QED BY <1>k, <2>2
<1>17. CASE BootStep BY <1>15, <1>16, <1>17 DEF BootStep
<1>18. CASE Quiet
  BY <1>1, <1>2, <1>6, <1>7, <1>8, <1>9, <1>10, <1>11, <1>12, <1>13, <1>14, <1>17, <1>18, Zenon
  DEF Quiet, ClaimReadyChild, ClaimResumableChild
<1> QED BY <1>3, <1>4, <1>5, <1>18 DEF Call

-----------------------------------------------------------------------------
(* Boot never requeues an owned task, and the child is never run again.    *)

\* There is one process at a time.
OneProcess == \A p, q \in Procs : p = q

\* The invariant for one process at a time.
SInv == DInv /\ TaskFacts /\ \A p \in Procs : Single(proc[p])

\* Every step keeps Single.
LEMMA NextSingle ==
  ASSUME Typed, NEW p \in Procs, Single(proc[p]),
         Step(p) \/ Crash(p) \/ \E k \in Kinds : Invoke(p, k)
  PROVE  Single(proc[p])'
BY SingleBoot, SinglePrepare, SingleResume DEF Step

\* SInv holds initially.
LEMMA SInvInit == DaemonInit => SInv
<1> SUFFICES ASSUME DaemonInit PROVE SInv OBVIOUS
<1>1. DInv BY DInvInit
<1>2. TaskFacts BY DEF DaemonInit, LedgerInit, TaskFacts, Tasks, Effective
<1>3. \A p \in Procs : proc[p] = Idle BY DEF DaemonInit
<1>4. Single(Idle) BY DEF Single, Idle, Zone
<1> QED BY <1>1, <1>2, <1>3, <1>4 DEF SInv

\* One process's steps keep SInv, and retry no task.
LEMMA SInvStep ==
  ASSUME OneProcess, SInv, [DaemonNext]_vars
  PROVE  /\ SInv' /\ \A t \in Tasks : task'[t].retries = task[t].retries
<1>1. DInv' BY DInvStep DEF SInv
<1>2. CASE DaemonNext
  <2>1. PICK p \in Procs : Step(p) \/ Crash(p) \/ \E k \in Kinds : Invoke(p, k) BY <1>2 DEF DaemonNext
  <2>2. \A q \in Procs : q = p BY DEF OneProcess
  <2>3. Single(proc[p])' BY <2>1, NextSingle DEF SInv, DInv, GInv
  <2>4. PICK q \in Procs : Fine(q) BY <1>2, NextFine DEF SInv, DInv
  <2>5. UNCHANGED ledger \/ Call(q) BY <2>4 DEF Fine
  <2>6. CASE UNCHANGED ledger BY <1>1, <2>2, <2>3, <2>6 DEF SInv, TaskFacts, ledger
  <2>7. CASE Call(q)
    <3>1. Tasked BY <2>7, CallTasked DEF SInv, DInv, GInv
    <3> QED BY <1>1, <2>2, <2>3, <3>1 DEF SInv, Tasked
  <2> QED BY <2>5, <2>6, <2>7
<1>3. CASE UNCHANGED vars
  <2>1. UNCHANGED <<ledger, proc>> BY <1>3 DEF vars
  <2>2. TaskFacts' /\ (\A t \in Tasks : task'[t].retries = task[t].retries)
        /\ \A p \in Procs : Single(proc[p])'
    BY <2>1 DEF SInv, TaskFacts, Single, ledger
  <2> QED BY <1>1, <2>2 DEF SInv
<1> QED BY <1>2, <1>3

\* OwnedTasksNotRetried: however often a process is lost, the boot of the next one
\* never requeues a task of the edge.
THEOREM NeverRetried ==
  ASSUME OneProcess
  PROVE  DaemonSpec => OwnedTasksNotRetried
<1>1. SInv /\ [DaemonNext]_vars
        => SInv' /\ [owner.status # "none" => \A t \in Tasks : task'[t].retries = task[t].retries]_vars
  BY SInvStep
<1> QED BY <1>1, SInvInit, PTL DEF DaemonSpec, OwnedTasksNotRetried

\* A session is opened only while there is no outbox.
LEMMA SpawnsBeforeOutbox ==
  ASSUME SInv, [DaemonNext]_vars, outbox.state # "none"
  PROVE  childRuns' = childRuns
<1>1. CASE DaemonNext
  <2>1. PICK p \in Procs : Step(p) \/ Crash(p) \/ \E k \in Kinds : Invoke(p, k) BY <1>1 DEF DaemonNext
  <2>2. ~OpenChildSession(p) BY DEF OpenChildSession, At, SInv, Single, Zone
  <2>3. CASE BootProcess(p) \/ Crash(p) \/ Deliver(p) \/ \E k \in Kinds : Invoke(p, k)
    BY <2>3 DEF BootProcess, ValidateEdges, BootEdges, BootTasks, Crash, Deliver, ReadCanonical, DeliverReceipt,
       DeliverTrace, DeliverFinalReceipt, Invoke, Calm, Fault, world
  <2>4. CASE Prepare(p)
    BY <2>4 DEF Prepare, Recheck, LookupOwner, InsertParent, Reserve, Decide, BeginParent, BlockPreparation,
       StartParent, AcceptParent, ParentFails, BeginArtifacts, Attach, BlockEdge, PrepareProvider,
       CompletePreparation, Calm, Fault, world
  <2>5. CASE Resume(p)
    BY <2>2, <2>5 DEF Resume, Select, ReadEdge, ReadOutbox, ValidateManifest, ClaimChild, ResumeProvider, StartChild,
       ChildWorks, ChildInterrupted, ChildFinishes, PreserveChild, RefreshChild, InstallOutbox,
       WriteEvidence, Settle, Cleanup, Calm, Fault, world
  <2> QED BY <2>1, <2>3, <2>4, <2>5 DEF Step
<1>2. CASE UNCHANGED vars BY <1>2 DEF vars, world
<1> QED BY <1>1, <1>2

\* NoRespawnAfterOutbox: once the outbox is installed the child is never run again,
\* wherever the process is lost and however it is started again.
THEOREM NoRespawn ==
  ASSUME OneProcess
  PROVE  DaemonSpec => NoRespawnAfterOutbox
<1>1. SInv /\ [DaemonNext]_vars => SInv' /\ [outbox.state # "none" => childRuns' = childRuns]_vars
  BY SInvStep, SpawnsBeforeOutbox
<1> QED BY <1>1, SInvInit, PTL DEF DaemonSpec, NoRespawnAfterOutbox

-----------------------------------------------------------------------------
(* With one submission, a pending outbox stays recoverable.                *)

\* What a process knows when nobody submits over an existing edge.
Once(l) ==
  /\ l.pc \in Submitting \/ (l.pc \in Booting /\ l.kind = "submit") => edge.base = "absent"
  /\ l.pc \in {"provider", "complete", "blockedge"} => outbox.state = "none"

\* An outbox belongs to an edge.
Attached == outbox.state # "none" => edge.base # "absent"

\* The calls that keep an outbox's edge recoverable; only blocking it may not.
LEMMA RecoverableKept ==
  ASSUME IInv, Attached, OutboxRecoverable,
         Quiet \/ (\E t \in Tasks : Launch(t)) \/ (outbox.state = "none" /\ BlockChild)
  PROVE  Attached' /\ OutboxRecoverable'
<1> USE DEF Attached, OutboxRecoverable
<1> DEFINE Kept == Attached' /\ OutboxRecoverable'
<1>t. TypeOK /\ EdgeShape BY DEF IInv, Safe
<1>1. ASSUME NEW t, NEW s, InsertTask(t) \/ SetTaskStatus(t, s) \/ SetWorkspaceStatus(s) \/ OwnerStep \/ ReconcileOnBoot
      PROVE  Kept
  <2>1. UNCHANGED <<edge, outbox>>
    BY <1>1 DEF InsertTask, SetTaskStatus, SetWorkspaceStatus, OwnerStep, PersistChildPreparationOwner,
       BeginChildParentExecution, RecordChildParentAcceptance, BeginChildArtifactPersistence,
       BlockChildPreparation, ReconcileOnBoot
  <2> QED BY <2>1
<1>2. ASSUME NEW r, PersistBlockedChildIntent \/ PersistPreparingChildIntent(r) PROVE Kept
  <2>1. edge.base = "absent" /\ UNCHANGED outbox BY <1>2 DEF PersistBlockedChildIntent, PersistPreparingChildIntent
  <2>2. outbox'.state = "none" BY <1>t, <2>1 DEF TypeOK
  <2> QED BY <2>2
<1>3. ASSUME NEW r, CompleteChildPreparation(r) PROVE Kept
  <2>1. Effective(edge) = "preparing" /\ UNCHANGED outbox /\ edge'.base = edge.base
    BY <1>3, <1>t DEF CompleteChildPreparation, TypeOK
  <2>2. outbox.state # "pending" BY <2>1 DEF Recoverable
  <2> QED BY <2>1, <2>2
<1>4. ASSUME NEW r, Claim(r) \/ UpdateResumableChild(r) PROVE Kept
  <2>1. UNCHANGED outbox /\ edge'.base # "absent" /\ Effective(edge') \in Recoverable
    BY <1>4, <1>t DEF Claim, UpdateResumableChild, Effective, Recoverable, EdgeShape, TypeOK
  <2> QED BY <2>1
<1>5. ASSUME NEW s \in Terminal, NEW e \in Runs, BeginChildTerminalSettlement(s, e) PROVE Kept
  BY <1>5, <1>t DEF BeginChildTerminalSettlement, EdgeShape, Effective, Recoverable
<1>6. ASSUME NEW s \in Terminal, NEW e \in Runs, SettleDeferred(s, e) PROVE Kept
  BY <1>6, <1>t DEF SettleDeferred, Linked, TypeOK
<1>7. ASSUME NEW step \in Steps, AcknowledgeChildDeliveryStep(step) PROVE Kept
  <2>1. outbox.state = "linked" /\ outbox'.state = "linked" /\ outbox.status \in Terminal
    BY <1>7, <1>t DEF AcknowledgeChildDeliveryStep, TypeOK, IInv, Safe, OutboxShape
  <2>2. CASE outbox.acks \cup {step} = Steps
    <3>1. edge' = [base |-> outbox.status, over |-> "none"]
      BY <1>7, <2>2, Zenon DEF AcknowledgeChildDeliveryStep
    <3> QED BY <2>1, <3>1 DEF Terminal
  <2>3. CASE outbox.acks \cup {step} # Steps
    <3>1. edge' = edge BY <1>7, <2>3, Zenon DEF AcknowledgeChildDeliveryStep
    <3> QED BY <2>1, <3>1
  <2> QED BY <2>2, <2>3
<1>8. ASSUME NEW v, ReconcileChildEdgesOnBoot(v) PROVE Kept
  <2>1. CASE outbox.state # "none"
    <3>1. UNCHANGED <<edge, outbox>>
      BY <1>8, <2>1 DEF ReconcileChildEdgesOnBoot, BootKeeps, BootResumes, BootBlocks, BootLeavesEdge
    <3> QED BY <3>1
  <2>2. CASE outbox.state = "none"
    <3>1. UNCHANGED outbox BY <1>8 DEF ReconcileChildEdgesOnBoot, BootKeeps, BootResumes, BootBlocks
    <3> QED BY <2>2, <3>1
  <2> QED BY <2>1, <2>2
<1>9. outbox.state = "none" /\ BlockChild => Kept
  BY DEF BlockChild
<1> HIDE DEF Kept
<1>10. BootStep => Kept BY <1>1, <1>8, Zenon DEF BootStep
<1>11. Quiet => Kept
  BY <1>1, <1>2, <1>3, <1>4, <1>5, <1>6, <1>7, <1>10, Zenon DEF Quiet, ClaimReadyChild, ClaimResumableChild
<1>12. (\E t \in Tasks : Launch(t)) => Kept BY <1>1, Zenon DEF Launch
<1>13. Kept BY <1>9, <1>11, <1>12, Zenon
<1> QED BY <1>13 DEF Kept

\* Boot, delivery, loss and the operator keep Once: a submission is accepted only
\* while there is no edge.
LEMMA OnceBoot ==
  ASSUME Typed, ~Resubmit, NEW p \in Procs, Once(proc[p]),
         BootProcess(p) \/ Deliver(p) \/ Crash(p) \/ \E k \in Kinds : Invoke(p, k)
  PROVE  Once(proc[p])'
<1>1. CASE ValidateEdges(p)
  <2>1. Lands(p, "reconcile") /\ UNCHANGED edge /\ At(p, "validate")
    BY <1>1 DEF ValidateEdges, Lands, Typed, Locals, ledger
  <2> QED BY <2>1 DEF Once, Lands, At, Booting, Submitting
<1>2. CASE BootEdges(p)
  <2>1. Lands(p, "generic") /\ At(p, "reconcile") BY <1>2, GoLands DEF BootEdges
  <2>2. edge.base = "absent" => UNCHANGED edge
    BY <1>2 DEF BootEdges, ReconcileChildEdgesOnBoot, BootKeeps, BootResumes, BootBlocks, BootLeavesEdge
  <2> QED BY <2>1, <2>2 DEF Once, Lands, At, Booting, Submitting
<1>3. CASE BootTasks(p)
  <2>1. UNCHANGED edge /\ At(p, "generic") BY <1>3 DEF BootTasks, ReconcileOnBoot
  <2>2. \/ Lands(p, "recheck") /\ proc[p].kind = "submit"
        \/ proc'[p].pc \in {"select", "idle"}
    BY <1>3, GoLands, StopLands DEF BootTasks, Lands
  <2> QED BY <2>1, <2>2 DEF Once, Lands, At, Booting, Submitting
<1>4. CASE Deliver(p)
  <2>1. proc'[p].pc \in {"receipt", "trace", "final", "idle"}
    BY <1>4, StopLands, GoLands
    DEF Deliver, ReadCanonical, DeliverReceipt, DeliverTrace, DeliverFinalReceipt, Lands, Typed, Locals
  <2> QED BY <2>1 DEF Once, Booting, Submitting
<1>5. CASE Crash(p) BY <1>5, StopLands DEF Crash, Once, Booting, Submitting
<1>6. ASSUME NEW k \in Kinds, Invoke(p, k) PROVE Once(proc[p])'
  <2>1. proc'[p].pc = "validate" /\ proc'[p].kind = k BY <1>6, InvokeLands
  <2>2. (k = "submit" => edge.base = "absent") /\ UNCHANGED edge BY <1>6 DEF Invoke, ledger
  <2> QED BY <2>1, <2>2 DEF Once, Booting, Submitting
<1> QED BY <1>1, <1>2, <1>3, <1>4, <1>5, <1>6 DEF BootProcess

\* The preparation steps keep Once: the edge is attached when the reservation is past, and
\* until then there is none.
LEMMA OncePrepare ==
  ASSUME Typed, TypeOK, Attached, NEW p \in Procs, Once(proc[p]), Prepare(p)
  PROVE  Once(proc[p])'
<1>1. CASE Recheck(p) \/ LookupOwner(p) \/ InsertParent(p) \/ Reserve(p) \/ Decide(p) \/ BeginParent(p)
           \/ BlockPreparation(p)
  <2>1. proc[p].pc \in Submitting
    BY <1>1 DEF Recheck, LookupOwner, InsertParent, Reserve, Decide, BeginParent, BlockPreparation, At,
                Submitting
  <2>2. proc'[p].pc \in Submitting \cup {"read", "canon", "idle"}
    BY <1>1, StopLands, GoLands, ReserveLands
    DEF Recheck, LookupOwner, InsertParent, Decide, BeginParent, BlockPreparation, Lands, Typed, Locals,
        Submitting
  <2>3. UNCHANGED edge
    BY <1>1 DEF Recheck, LookupOwner, InsertParent, Reserve, Decide, BeginParent, BlockPreparation, ledger,
                InsertTask, PersistChildPreparationOwner, BeginChildParentExecution, BlockChildPreparation
  <2> QED BY <2>1, <2>2, <2>3 DEF Once, Booting, Submitting
<1>2. CASE StartParent(p) \/ AcceptParent(p) \/ ParentFails(p) \/ BeginArtifacts(p)
  <2>1. proc[p].pc \in Submitting
    BY <1>2 DEF StartParent, AcceptParent, ParentFails, BeginArtifacts, At, Submitting
  <2>2. proc'[p].pc \in Submitting \cup {"idle"}
    BY <1>2, StopLands, GoLands
    DEF StartParent, AcceptParent, ParentFails, BeginArtifacts, Lands, Typed, Locals, Submitting
  <2>3. UNCHANGED edge
    BY <1>2 DEF StartParent, AcceptParent, ParentFails, BeginArtifacts, ledger, SetTaskStatus,
                RecordChildParentAcceptance, BeginChildArtifactPersistence
  <2> QED BY <2>1, <2>2, <2>3 DEF Once, Booting, Submitting
<1>3. CASE Attach(p)
  <2>1. proc'[p].pc \in {"provider", "blockedge", "idle"}
    BY <1>3, StopLands, GoLands DEF Attach, Lands
  <2>2. edge.base = "absent" BY <1>3 DEF Attach, At, Once, Submitting
  <2>3. UNCHANGED outbox
    BY <1>3 DEF Attach, PersistPreparingChildIntent, PersistBlockedChildIntent, ledger
  <2>4. outbox'.state = "none" BY <2>2, <2>3 DEF Attached, TypeOK
  <2> QED BY <2>1, <2>4 DEF Once, Booting, Submitting
<1>4. CASE BlockEdge(p)
  <2>1. proc'[p].pc \in {"canon", "idle"}
    BY <1>4, StopLands, GoLands DEF BlockEdge, ReturnBlocked, Lands
  <2> QED BY <2>1 DEF Once, Booting, Submitting
<1>5. CASE PrepareProvider(p) \/ CompletePreparation(p)
  <2>1. outbox.state = "none" BY <1>5 DEF PrepareProvider, CompletePreparation, At, Once
  <2>2. UNCHANGED outbox BY <1>5 DEF PrepareProvider, CompletePreparation, CompleteChildPreparation, ledger
  <2>3. proc'[p].pc \in {"complete", "blockedge", "read"}
    BY <1>5, GoLands DEF PrepareProvider, CompletePreparation, Lands, Typed, Locals
  <2> QED BY <2>1, <2>2, <2>3 DEF Once, Booting, Submitting
<1> QED BY <1>1, <1>2, <1>3, <1>4, <1>5 DEF Prepare

\* The steps of resuming keep Once: what may block the edge has seen no outbox.
LEMMA OnceResume ==
  ASSUME Typed, NEW p \in Procs, Single(proc[p]), Once(proc[p]), Resume(p)
  PROVE  Once(proc[p])'
<1>1. CASE Select(p) \/ ReadEdge(p) \/ ClaimChild(p) \/ WriteEvidence(p) \/ Settle(p) \/ Cleanup(p)
  <2>1. proc'[p].pc \in {"read", "outbox", "resume", "settle", "resettle", "cleanup", "canon", "idle"}
    BY <1>1, StopLands, GoLands
    DEF Select, ReadEdge, ClaimChild, WriteEvidence, Settle, Cleanup, ReturnBlocked, Lands, Typed, Locals
  <2> QED BY <2>1 DEF Once, Booting, Submitting
<1>2. CASE ReadOutbox(p)
  <2>1. \/ proc'[p].pc \in {"replay", "canon", "manifest", "idle"}
        \/ outbox.state = "none" /\ proc'[p].pc \in {"provider", "blockedge"}
    BY <1>2, StopLands, GoLands DEF ReadOutbox, ReturnBlocked, Lands, Typed, Locals
  <2>2. UNCHANGED outbox BY <1>2 DEF ReadOutbox, ledger
  <2> QED BY <2>1, <2>2 DEF Once, Booting, Submitting
<1>3. CASE ValidateManifest(p) \/ ResumeProvider(p)
  <2>1. proc'[p].pc \in {"claim", "child", "blockedge"} /\ UNCHANGED outbox
    BY <1>3, GoLands DEF ValidateManifest, ResumeProvider, Lands, Typed, Locals, ledger
  <2>2. outbox.state = "none" BY <1>3 DEF ValidateManifest, ResumeProvider, At, Single, Zone
  <2> QED BY <2>1, <2>2 DEF Once, Booting, Submitting
<1>4. CASE StartChild(p) \/ OpenChildSession(p) \/ ChildInterrupted(p) \/ ChildFinishes(p)
           \/ PreserveChild(p) \/ RefreshChild(p) \/ InstallOutbox(p)
  <2>1. proc'[p].pc \in {"spawn", "childrun", "preserve", "begin", "refresh", "giveup", "abandon", "canon", "write"}
    BY <1>4, GoLands
    DEF StartChild, OpenChildSession, ChildInterrupted, ChildFinishes, PreserveChild, RefreshChild,
        InstallOutbox, Lands, Typed, Locals
  <2> QED BY <2>1 DEF Once, Booting, Submitting
<1>5. CASE ChildWorks(p) BY <1>5 DEF ChildWorks, Once, ledger
<1> QED BY <1>1, <1>2, <1>3, <1>4, <1>5 DEF Resume

\* The invariant for one process and one submission.
OInv == SInv /\ Attached /\ OutboxRecoverable /\ \A p \in Procs : Once(proc[p])

\* OInv holds initially.
LEMMA OInvInit == DaemonInit => OInv
<1> SUFFICES ASSUME DaemonInit PROVE OInv OBVIOUS
<1>1. SInv BY SInvInit
<1>2. Attached /\ OutboxRecoverable BY DEF DaemonInit, LedgerInit, Attached, OutboxRecoverable
<1>3. \A p \in Procs : proc[p] = Idle BY DEF DaemonInit
<1>4. Once(Idle) BY DEF Once, Idle, Booting, Submitting
<1> QED BY <1>1, <1>2, <1>3, <1>4 DEF OInv

\* Every step keeps OInv.
LEMMA OInvStep ==
  ASSUME OneProcess, ~Resubmit, OInv, [DaemonNext]_vars
  PROVE  OInv'
<1>1. SInv' BY SInvStep DEF OInv
<1>2. CASE DaemonNext
  <2>1. PICK p \in Procs : Step(p) \/ Crash(p) \/ \E k \in Kinds : Invoke(p, k) BY <1>2 DEF DaemonNext
  <2>2. \A q \in Procs : q = p BY DEF OneProcess
  <2>3. Typed /\ TypeOK /\ Single(proc[p]) /\ Once(proc[p]) /\ Attached
    BY DEF OInv, SInv, DInv, GInv, IInv
  <2>4. Once(proc[p])' BY <2>1, <2>3, OnceBoot, OncePrepare, OnceResume DEF Step
  <2>5. PICK q \in Procs : Fine(q) BY <1>2, NextFine DEF OInv, SInv, DInv
  <2>6. UNCHANGED ledger \/ Call(q) BY <2>5 DEF Fine
  <2>7. Attached' /\ OutboxRecoverable'
    <3>1. CASE UNCHANGED ledger BY <3>1 DEF OInv, Attached, OutboxRecoverable, ledger
    <3>2. CASE Call(q)
      <4>1. proc[q].pc \in {"blockedge", "giveup", "abandon"} => outbox.state = "none"
        BY DEF OInv, SInv, Single, Once, Zone
      <4>2. Quiet \/ (\E t \in Tasks : Launch(t)) \/ (outbox.state = "none" /\ BlockChild)
        BY <3>2, <4>1 DEF Call, Tasks
      <4> QED BY <4>2, RecoverableKept DEF OInv, SInv, DInv, GInv
    <3> QED BY <2>6, <3>1, <3>2
  <2> QED BY <1>1, <2>2, <2>4, <2>7 DEF OInv
<1>3. CASE UNCHANGED vars
  <2>1. UNCHANGED <<ledger, proc>> BY <1>3 DEF vars
  <2>2. Attached' /\ OutboxRecoverable' /\ \A p \in Procs : Once(proc[p])'
    BY <2>1 DEF OInv, Attached, OutboxRecoverable, Once, ledger
  <2> QED BY <1>1, <2>2 DEF OInv
<1> QED BY <1>2, <1>3

\* OutboxRecoverable: if the operator resumes instead of submitting again, a pending outbox
\* always finds its edge in a status from which it can be settled, at whatever write the
\* process was lost.
THEOREM OutboxStaysRecoverable ==
  ASSUME OneProcess, ~Resubmit
  PROVE  DaemonSpec => []OutboxRecoverable
<1>1. OInv /\ [DaemonNext]_vars => OInv' BY OInvStep
<1>2. OInv => OutboxRecoverable BY DEF OInv
<1> QED BY <1>1, <1>2, OInvInit, PTL DEF DaemonSpec
=============================================================================
