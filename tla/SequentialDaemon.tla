--------------------------- MODULE SequentialDaemon ---------------------------
(***************************************************************************)
(* The processes that drive one sequential parent-to-child edge: CLI runs  *)
(* that boot the daemon over a shared ledger and then submit the parent    *)
(* and child specs, resume the edge, or do something else.  A process      *)
(* reads and writes the ledger one method at a time; between two calls     *)
(* every other process may run, and it may be lost for good.               *)
(*                                                                         *)
(* cli.ts (runCli), daemon/start.ts, daemon/child-reconciliation.ts and    *)
(* daemon/sequential.ts are modelled as the program each process executes; *)
(* a provider, artifact or session failure is a fault.                     *)
(***************************************************************************)
EXTENDS ChildLedger

CONSTANTS Procs,       \* operating-system processes
          Kinds,       \* what they are invoked for: subset of {"submit", "resume", "other"}
          Resubmit,    \* the operator may submit again while an edge exists
          MaxCrashes,  \* bound: process losses
          MaxFaults    \* bound: failing provider, artifact, session or delivery calls

ASSUME KindsAssumption == Kinds \subseteq {"submit", "resume", "other"}
ASSUME RunnersAssumption == RunnerStatuses = {"executing", "failed", "escalated"}
ASSUME BoundsAssumption == Resubmit \in BOOLEAN /\ MaxCrashes \in Nat /\ MaxFaults \in Nat

VARIABLES proc,        \* the program counter and locals of each process
          parentRuns,  \* parent sessions ever started
          childRuns,   \* child sessions ever started
          wsRev,       \* revision the provider holds for the child's workspace
          crashes, faults

world == <<parentRuns, childRuns, wsRev, crashes, faults>>
vars == <<ledger, proc, world>>

-----------------------------------------------------------------------------
(* Locals: v the boot validation; edge and own the statuses read; fenced and *)
(* sess whether the parent's execution mark and session were seen; saw       *)
(* whether an owner was; cap continuation support; cfg and rev the revisions *)
(* read; res and run the session's outcome; pend whether the outbox read was *)
(* pending; ok whether the receipt was acknowledged.                         *)

Idle == [pc |-> "idle", kind |-> "none", v |-> "none", edge |-> "absent", own |-> "none",
         fenced |-> FALSE, sess |-> FALSE, saw |-> FALSE, cap |-> TRUE, cfg |-> 0, rev |-> 0,
         res |-> "none", run |-> NoRun, pend |-> FALSE, ok |-> FALSE]

At(p, l) == proc[p].pc = l
Go(p, l) == proc' = [proc EXCEPT ![p].pc = l]
Stop(p) == proc' = [proc EXCEPT ![p] = Idle]

Calm == UNCHANGED world
Fault == faults < MaxFaults /\ faults' = faults + 1
         /\ UNCHANGED <<parentRuns, childRuns, wsRev, crashes>>

\* resumeSequentialChild or prepareSequentialChild returns: the CLI of a resumed
\* blocked edge exits, every other result goes on to artifact delivery.
ReturnBlocked(p) == IF proc[p].kind = "resume" THEN Stop(p) ELSE Go(p, "canon")

DaemonInit ==
  /\ LedgerInit
  /\ proc = [p \in Procs |-> Idle]
  /\ parentRuns = 0 /\ childRuns = 0 /\ wsRev = 1
  /\ crashes = 0 /\ faults = 0

-----------------------------------------------------------------------------
(* Invocation and boot.                                                    *)

\* getActiveChildPreparationOwnershipByParent.
OwnerFound ==
  /\ owner.status \in OwnerActive \cup {"ready"} \/ (owner.status = "blocked" /\ owner.started)
  /\ edge.base = "absent" \/ Effective(edge) \in EdgeActive

\* A submission is for this edge when it finds the owner, or when its family has
\* no attempt yet; a later attempt of the family is about another edge.
Invoke(p, k) ==
  /\ At(p, "idle")
  /\ k = "submit" => OwnerFound \/ task["parent"].base = "absent"
  /\ k = "submit" /\ ~Resubmit => edge.base = "absent"
  /\ proc' = [proc EXCEPT ![p].pc = "validate", ![p].kind = k, ![p].saw = (k = "submit" /\ OwnerFound)]
  /\ UNCHANGED ledger /\ Calm

\* validateChildEdgeOnBoot: only a resume brings the artifacts and the provider.
BootValid == owner.status = "ready" /\ cont.base # "absent" /\ cfg # 0
             /\ cont.rev = cfg /\ cfg = wsRev

Listed(k) == edge.base # "absent" /\
  (Effective(edge) \in Recoverable \/ (k = "resume" /\ Effective(edge) = "ready" /\ cfg # 0))

ValidateEdges(p) ==
  /\ At(p, "validate")
  /\ \E v \in {"none", "valid", "invalid"} :
       /\ IF ~Listed(proc[p].kind) THEN v = "none" /\ Calm
          ELSE \/ v = "valid" /\ proc[p].kind = "resume" /\ BootValid /\ Calm
               \/ v = "invalid" /\ ~(proc[p].kind = "resume" /\ BootValid) /\ Calm
               \/ v = "invalid" /\ proc[p].kind = "resume" /\ BootValid /\ Fault
       /\ proc' = [proc EXCEPT ![p].pc = "reconcile", ![p].v = v]
  /\ UNCHANGED ledger

BootEdges(p) ==
  /\ At(p, "reconcile")
  /\ ReconcileChildEdgesOnBoot(proc[p].v)
  /\ Go(p, "generic") /\ Calm

BootTasks(p) ==
  /\ At(p, "generic")
  /\ ReconcileOnBoot
  /\ CASE proc[p].kind = "submit" -> Go(p, "recheck")
       [] proc[p].kind = "resume" -> Go(p, "select")
       [] OTHER -> Stop(p)
  /\ Calm

-----------------------------------------------------------------------------
(* prepareSequentialChild.                                                 *)

\* Without an owner the attempt identity must not have been taken meanwhile.
Recheck(p) ==
  /\ At(p, "recheck")
  /\ IF ~proc[p].saw /\ task["parent"].base # "absent" THEN Stop(p) ELSE Go(p, "lookup")
  /\ UNCHANGED ledger /\ Calm

LookupOwner(p) ==
  /\ At(p, "lookup")
  /\ proc' = [proc EXCEPT ![p].pc = "insert", ![p].saw = (owner.status # "none")]
  /\ UNCHANGED ledger /\ Calm

InsertParent(p) ==
  /\ At(p, "insert")
  /\ IF task["parent"].base = "absent" THEN InsertTask("parent") ELSE UNCHANGED ledger
  /\ Go(p, "reserve") /\ Calm

\* The provider, hence its continuation support, does not change between
\* invocations.  A reservation the lookup did not see conflicts.
Reserve(p) ==
  /\ At(p, "reserve") /\ Calm
  /\ \/ /\ ~proc[p].saw
        /\ \E cap \in BOOLEAN :
             /\ PersistChildPreparationOwner(cap)
             /\ proc' = [proc EXCEPT ![p].pc = "decide", ![p].cap = cap, ![p].own = "parent_pending"]
     \/ /\ proc[p].saw
        /\ UNCHANGED ledger
        /\ proc' = [proc EXCEPT ![p].pc = "decide", ![p].cap = owner.capable, ![p].own = owner.status,
                                ![p].fenced = owner.started]
     \/ /\ ~proc[p].saw /\ owner.status # "none"
        /\ UNCHANGED ledger /\ Stop(p)

Decide(p) ==
  /\ At(p, "decide")
  /\ UNCHANGED ledger
  /\ \/ proc[p].own = "blocked" /\ Go(p, "canon") /\ Calm
     \/ /\ proc[p].own # "blocked"
        /\ \/ Effective(edge) = "delivery_pending" /\ Go(p, "read") /\ Calm
           \/ Effective(edge) \in Terminal /\ Go(p, "canon") /\ Calm
           \/ /\ Effective(edge) \notin Terminal \cup {"delivery_pending"}
              /\ \/ /\ proc[p].own = "parent_pending"
                    /\ proc' = [proc EXCEPT ![p].pc = "fence", ![p].sess = (parentRuns > 0)]
                    /\ Calm
                 \/ proc[p].own # "parent_pending" /\ Go(p, "artifacts") /\ Calm
                 \/ proc[p].own # "parent_pending" /\ Go(p, "blockprep") /\ Fault

\* Mutant: a lost fence is always taken for a concurrent winner's.
FencedLoserWaits(p) ==
  /\ At(p, "fence") /\ Calm
  /\ \/ BeginChildParentExecution /\ Go(p, "parent")
     \/ /\ owner.status # "parent_pending" \/ owner.started
        /\ UNCHANGED ledger /\ Go(p, "canon")

\* The fence is lost to an earlier process, or to a concurrent one.
BeginParent(p) ==
  /\ At(p, "fence") /\ Calm
  /\ \/ BeginChildParentExecution /\ Go(p, "parent")
     \/ /\ owner.status # "parent_pending" \/ owner.started
        /\ UNCHANGED ledger
        /\ IF proc[p].fenced \/ proc[p].sess THEN Go(p, "blockprep") ELSE Go(p, "canon")

BlockPreparation(p) ==
  /\ At(p, "blockprep")
  /\ BlockChildPreparation
  /\ Go(p, "canon") /\ Calm

\* runIsolatedTask opens a session for the parent.
StartParent(p) ==
  /\ At(p, "parent")
  /\ parentRuns + 1 \in Runs
  /\ SetTaskStatus("parent", "executing")
  /\ parentRuns' = parentRuns + 1
  /\ proc' = [proc EXCEPT ![p].pc = "parentrun", ![p].run = parentRuns + 1]
  /\ UNCHANGED <<childRuns, wsRev, crashes, faults>>

\* onAccepted records the receipt inside the run; a conflict fails the run.
AcceptParent(p) ==
  /\ At(p, "parentrun") /\ Calm
  /\ \/ RecordChildParentAcceptance(proc[p].run) /\ Go(p, "artifacts")
     \/ AcceptanceRecorded(proc[p].run) /\ UNCHANGED ledger /\ Go(p, "artifacts")
     \/ /\ owner.status # "parent_pending" /\ ~AcceptanceRecorded(proc[p].run)
        /\ UNCHANGED ledger /\ Stop(p)

ParentFails(p) ==
  /\ At(p, "parentrun") /\ Calm
  /\ \E s \in {"failed", "escalated"} : SetTaskStatus("parent", s)
  /\ Go(p, "blockprep")

BeginArtifacts(p) ==
  /\ At(p, "artifacts") /\ Calm
  /\ \/ BeginChildArtifactPersistence /\ Go(p, "attach")
     \/ /\ owner.status \in {"artifacts_pending", "provider_preparing", "ready"}
        /\ UNCHANGED ledger /\ Go(p, "attach")
     \/ /\ owner.status \notin {"parent_accepted", "artifacts_pending", "provider_preparing", "ready"}
        /\ UNCHANGED ledger /\ Stop(p)

\* parentRevision is the revision the initial manifest names.
Attach(p) ==
  /\ At(p, "attach") /\ Calm
  /\ IF proc[p].cap
       THEN \/ ~IntentAttached /\ PersistPreparingChildIntent(1) /\ Go(p, "provider")
            \/ IntentAttached /\ UNCHANGED ledger /\ Go(p, "provider")
            \/ /\ ~IntentAttached
               /\ edge.base # "absent" \/ owner.status \notin {"artifacts_pending", "parent_accepted"}
               /\ UNCHANGED ledger /\ Stop(p)
       ELSE \/ PersistBlockedChildIntent /\ Go(p, "blockedge")
            \/ edge.base # "absent" /\ UNCHANGED ledger /\ Stop(p)

\* blockChild in an error path.  It throws on a decided edge, which ends the
\* invocation, except after an interrupted session ("giveup") and after evidence
\* that could not be built ("abandon"), where the throw is swallowed.
BlockEdge(p) ==
  /\ Calm
  /\ \/ BlockChild
     \/ ~Blockable /\ UNCHANGED ledger
  /\ \/ At(p, "blockedge") /\ Blockable /\ ReturnBlocked(p)
     \/ At(p, "blockedge") /\ ~Blockable /\ Stop(p)
     \/ At(p, "giveup") /\ ReturnBlocked(p)
     \/ At(p, "abandon") /\ Go(p, "canon")

\* prepareContinuation finds or creates the workspace and snapshots it.
PrepareProvider(p) ==
  /\ At(p, "provider")
  /\ UNCHANGED ledger
  /\ \/ Calm /\ proc' = [proc EXCEPT ![p].pc = "complete", ![p].rev = wsRev]
     \/ Fault /\ Go(p, "blockedge")

CompletePreparation(p) ==
  /\ At(p, "complete") /\ Calm
  /\ \/ CompleteChildPreparation(proc[p].rev) /\ Go(p, "read")
     \/ PreparationComplete /\ UNCHANGED ledger /\ Go(p, "read")
     \/ /\ ~PreparationComplete
        /\ Effective(edge) # "preparing" \/ (cont.base # "absent" /\ cont.rev # proc[p].rev)
        /\ UNCHANGED ledger /\ Go(p, "blockedge")

-----------------------------------------------------------------------------
(* resumeSequentialChild.                                                  *)

\* Mutant: an edge that waits for delivery is taken for a finished one.
SelectSkipsDelivery(p) ==
  /\ At(p, "select")
  /\ IF edge.base = "absent" \/ Effective(edge) \in Terminal \cup {"blocked", "delivery_pending"}
       THEN Stop(p) ELSE Go(p, "read")
  /\ UNCHANGED ledger /\ Calm

\* The CLI refuses an unknown, blocked or terminal edge.
Select(p) ==
  /\ At(p, "select")
  /\ IF edge.base = "absent" \/ Effective(edge) \in Terminal \cup {"blocked"}
       THEN Stop(p) ELSE Go(p, "read")
  /\ UNCHANGED ledger /\ Calm

ReadEdge(p) ==
  /\ At(p, "read")
  /\ proc' = [proc EXCEPT ![p].pc = "outbox", ![p].edge = Effective(edge)]
  /\ UNCHANGED ledger /\ Calm

\* Mutant: no outbox lookup, and a claimed edge is taken for an interrupted one.
ReadNoOutbox(p) ==
  /\ At(p, "outbox") /\ Calm
  /\ UNCHANGED ledger
  /\ IF proc[p].edge \in {"ready", "resumable", "claimed"}
       THEN proc' = [proc EXCEPT ![p].pc = "manifest", ![p].cfg = cfg]
       ELSE IF proc[p].edge = "preparing" THEN Go(p, "provider") ELSE ReturnBlocked(p)

\* The outbox is looked for before anything else; a fault here is a runtime
\* identity that does not match, or an unreadable parent receipt.
ReadOutbox(p) ==
  /\ At(p, "outbox")
  /\ UNCHANGED ledger
  /\ IF outbox.state # "none"
       THEN proc' = [proc EXCEPT ![p].pc = "replay", ![p].pend = (outbox.state = "pending"),
                                 ![p].res = outbox.status, ![p].run = outbox.evidence] /\ Calm
       ELSE \/ cfg = 0 /\ ReturnBlocked(p) /\ Calm
            \/ cfg # 0 /\ Fault /\ Go(p, "blockedge")
            \/ /\ cfg # 0 /\ Fault
               /\ proc[p].edge \notin {"ready", "resumable", "claimed"} /\ ReturnBlocked(p)
            \/ /\ cfg # 0 /\ Calm
               /\ CASE proc[p].edge = "preparing" -> Go(p, "provider")
                    [] proc[p].edge \in {"ready", "resumable"} ->
                         proc' = [proc EXCEPT ![p].pc = "manifest", ![p].cfg = cfg]
                    [] proc[p].edge \in Terminal -> Go(p, "canon")
                    [] OTHER -> ReturnBlocked(p)

\* The manifest, its references and the continuation row must agree.
ValidateManifest(p) ==
  /\ At(p, "manifest")
  /\ UNCHANGED ledger
  /\ \/ /\ cont.rev = proc[p].cfg /\ Calm
        /\ proc' = [proc EXCEPT ![p].pc = "claim", ![p].rev = cont.rev]
     \/ cont.rev # proc[p].cfg /\ Calm /\ Go(p, "blockedge")
     \/ Fault /\ Go(p, "blockedge")

ClaimChild(p) ==
  /\ At(p, "claim") /\ Calm
  /\ \/ Claim(proc[p].edge) /\ Go(p, "resume")
     \/ Effective(edge) # proc[p].edge /\ UNCHANGED ledger /\ ReturnBlocked(p)

\* resumeContinuation refuses a workspace that is not at the claimed revision.
ResumeProvider(p) ==
  /\ At(p, "resume")
  /\ UNCHANGED ledger
  /\ \/ proc[p].rev = wsRev /\ Calm /\ Go(p, "child")
     \/ proc[p].rev # wsRev /\ Calm /\ Go(p, "blockedge")
     \/ Fault /\ Go(p, "blockedge")

StartChild(p) ==
  /\ At(p, "child") /\ Calm
  /\ SetTaskStatus("child", "executing")
  /\ Go(p, "spawn")

\* The retained workspace is marked active and the session row inserted.
OpenChildSession(p) ==
  /\ At(p, "spawn")
  /\ childRuns + 1 \in Runs
  /\ SetWorkspaceStatus("active")
  /\ childRuns' = childRuns + 1
  /\ proc' = [proc EXCEPT ![p].pc = "childrun", ![p].run = childRuns + 1]
  /\ UNCHANGED <<parentRuns, wsRev, crashes, faults>>

\* The child's session snapshots its work.
ChildWorks(p) ==
  /\ At(p, "childrun") /\ wsRev < MaxRev
  /\ wsRev' = wsRev + 1
  /\ UNCHANGED <<ledger, proc, parentRuns, childRuns, crashes, faults>>

\* An interrupted or throwing session is preserved, not failed.
ChildInterrupted(p) ==
  /\ proc[p].pc \in {"child", "spawn", "childrun"}
  /\ Fault
  /\ Go(p, "preserve") /\ UNCHANGED ledger

\* The runner writes a failure itself; a success is left to the settlement.
ChildFinishes(p) ==
  /\ At(p, "childrun") /\ Calm
  /\ \E s \in Terminal :
       /\ IF s = "completed" THEN UNCHANGED ledger ELSE SetTaskStatus("child", s)
       /\ proc' = [proc EXCEPT ![p].pc = "begin", ![p].res = s]

PreserveChild(p) ==
  /\ At(p, "preserve")
  /\ UNCHANGED ledger
  /\ \/ Calm /\ proc' = [proc EXCEPT ![p].pc = "refresh", ![p].rev = wsRev]
     \/ Fault /\ Go(p, "giveup")

RefreshChild(p) ==
  /\ At(p, "refresh") /\ Calm
  /\ \/ UpdateResumableChild(proc[p].rev) /\ Go(p, "canon")
     \/ Effective(edge) \notin Recoverable /\ UNCHANGED ledger /\ Go(p, "giveup")

\* Evidence is built, then the outbox is installed before any of it is written.
InstallOutbox(p) ==
  /\ At(p, "begin")
  /\ \/ BeginChildTerminalSettlement(proc[p].res, proc[p].run) /\ Calm /\ Go(p, "write")
     \/ SettlementInstalled(proc[p].res, proc[p].run) /\ UNCHANGED ledger /\ Calm /\ Go(p, "write")
     \/ /\ ~SettlementInstalled(proc[p].res, proc[p].run)
        /\ outbox.state # "none" \/ Effective(edge) \notin Recoverable
        /\ UNCHANGED ledger /\ Calm /\ Go(p, "abandon")
     \/ Fault /\ UNCHANGED ledger /\ Go(p, "abandon")

\* Mutant: a failed write still cleans the workspace up.
WriteEvidenceThenCleanup(p) ==
  /\ At(p, "write") \/ At(p, "replay")
  /\ UNCHANGED ledger
  /\ \/ Calm /\ Go(p, IF At(p, "write") THEN "settle" ELSE IF proc[p].pend THEN "resettle" ELSE "canon")
     \/ Fault /\ Go(p, "cleanup")

\* A failed write leaves the outbox pending and reports "resumable".
WriteEvidence(p) ==
  /\ At(p, "write") \/ At(p, "replay")
  /\ UNCHANGED ledger
  /\ \/ /\ Calm
        /\ CASE At(p, "write") -> Go(p, "settle")
             [] At(p, "replay") /\ proc[p].pend -> Go(p, "resettle")
             [] OTHER -> Go(p, "canon")
     \/ Fault /\ Go(p, "canon")

\* A replayed settlement does not clean the workspace up.
Settle(p) ==
  /\ At(p, "settle") \/ At(p, "resettle")
  /\ Calm
  /\ \/ /\ SettleDeferred(proc[p].res, proc[p].run)
        /\ IF At(p, "settle") THEN Go(p, "cleanup") ELSE Go(p, "canon")
     \/ /\ ~MaySettle(proc[p].res, proc[p].run, "delivery_pending")
        /\ UNCHANGED ledger /\ Go(p, "canon")

Cleanup(p) ==
  /\ At(p, "cleanup")
  /\ \/ SetWorkspaceStatus("released") /\ Calm
     \/ SetWorkspaceStatus("orphaned") /\ Fault
  /\ Go(p, "canon")

-----------------------------------------------------------------------------
(* Artifact delivery by the CLI.                                           *)

\* The receipt to deliver is the outbox's when there is one, else a fallback: its text only.
ReadCanonical(p) == At(p, "canon") /\ Go(p, "receipt") /\ UNCHANGED ledger /\ Calm

DeliverReceipt(p) ==
  /\ At(p, "receipt")
  /\ \/ /\ AcknowledgeChildDeliveryStep("receipt") /\ Calm
        /\ proc' = [proc EXCEPT ![p].pc = "trace", ![p].ok = TRUE]
     \/ outbox.state # "linked" /\ UNCHANGED ledger /\ Calm /\ Go(p, "trace")
     \/ UNCHANGED ledger /\ Fault /\ Go(p, "trace")

\* Mutant: the final receipt does not wait for the provisional one.
TraceThenFinal(p) ==
  /\ At(p, "trace")
  /\ \/ AcknowledgeChildDeliveryStep("trace") /\ Calm /\ Go(p, "final")
     \/ outbox.state # "linked" /\ UNCHANGED ledger /\ Calm /\ Stop(p)
     \/ UNCHANGED ledger /\ Fault /\ Stop(p)

\* The trace is written and acknowledged even when the receipt was not.
DeliverTrace(p) ==
  /\ At(p, "trace")
  /\ \/ /\ AcknowledgeChildDeliveryStep("trace") /\ Calm
        /\ IF proc[p].ok THEN Go(p, "final") ELSE Stop(p)
     \/ outbox.state # "linked" /\ UNCHANGED ledger /\ Calm /\ Stop(p)
     \/ UNCHANGED ledger /\ Fault /\ Stop(p)

DeliverFinalReceipt(p) ==
  /\ At(p, "final")
  /\ \/ AcknowledgeChildDeliveryStep("final_receipt") /\ Calm
     \/ UNCHANGED ledger /\ Fault
  /\ Stop(p)

-----------------------------------------------------------------------------
\* The process is lost with its locals; the ledger and the workspace stay.
Crash(p) ==
  /\ ~At(p, "idle") /\ crashes < MaxCrashes
  /\ crashes' = crashes + 1
  /\ Stop(p)
  /\ UNCHANGED <<ledger, parentRuns, childRuns, wsRev, faults>>

BootProcess(p) == ValidateEdges(p) \/ BootEdges(p) \/ BootTasks(p)

Prepare(p) ==
  \/ Recheck(p) \/ LookupOwner(p) \/ InsertParent(p) \/ Reserve(p) \/ Decide(p)
  \/ BeginParent(p) \/ BlockPreparation(p) \/ StartParent(p) \/ AcceptParent(p)
  \/ ParentFails(p) \/ BeginArtifacts(p) \/ Attach(p) \/ BlockEdge(p)
  \/ PrepareProvider(p) \/ CompletePreparation(p)

Resume(p) ==
  \/ Select(p) \/ ReadEdge(p) \/ ReadOutbox(p) \/ ValidateManifest(p) \/ ClaimChild(p)
  \/ ResumeProvider(p) \/ StartChild(p) \/ OpenChildSession(p) \/ ChildWorks(p) \/ ChildInterrupted(p)
  \/ ChildFinishes(p) \/ PreserveChild(p) \/ RefreshChild(p) \/ InstallOutbox(p)
  \/ WriteEvidence(p) \/ Settle(p) \/ Cleanup(p)

Deliver(p) == ReadCanonical(p) \/ DeliverReceipt(p) \/ DeliverTrace(p) \/ DeliverFinalReceipt(p)

\* One step of a process that is not lost.
Step(p) == BootProcess(p) \/ Prepare(p) \/ Resume(p) \/ Deliver(p)

DaemonNext == \E p \in Procs : Step(p) \/ Crash(p) \/ \E k \in Kinds : Invoke(p, k)

DaemonSpec == DaemonInit /\ [][DaemonNext]_vars

\* A process that is not lost keeps running (sessions end: their watchdogs see to
\* it), and the operator keeps repeating the commands that act on the edge.
Fairness ==
  \A p \in Procs : /\ WF_vars(Step(p))
                   /\ SF_vars(Invoke(p, "submit")) /\ SF_vars(Invoke(p, "resume"))

FairSpec == DaemonSpec /\ Fairness

-----------------------------------------------------------------------------
(* Safety.                                                                 *)

\* "A marked reservation is never replayed": whatever is lost, repeated or run
\* concurrently, at most one session is ever opened for the parent.
ParentRunsOnce == parentRuns <= 1

\* "A crash at any subsequent write boundary replays this outbox, not the child":
\* after the outbox is installed no session is opened for the child.
NoRespawnAfterOutbox == [][outbox.state # "none" => childRuns' = childRuns]_vars

\* The same promise from the ledger's side: while the outbox is pending the edge
\* stays in a status from which settleChild accepts it.
OutboxRecoverable == outbox.state = "pending" => Effective(edge) \in Recoverable

\* The workspace is given up only once the outcome is linked, so every earlier
\* crash still finds what a retry would need.
WorkspaceOutlivesRecovery == ws \in {"released", "orphaned"} => outbox.state = "linked"

\* "A truthful non-ship receipt first ... upgraded only after the trace has also
\* been durably delivered": over any number of failed and repeated deliveries.
FinalReceiptLast == "final_receipt" \in outbox.acks => outbox.acks = Steps

\* Generic crash recovery never retries a task that the edge's owner drives:
\* neither the parent during its preparation nor the child under its claim.
OwnedTasksNotRetried ==
  [][owner.status # "none" => \A t \in Tasks : task'[t].retries = task[t].retries]_vars

\* The manifest and the continuation of an edge that can be claimed name the same
\* revision, over any number of interruptions and refreshes.
ManifestMatchesContinuation ==
  Effective(edge) \in {"ready", "resumable"} /\ cont.base # "absent" => cont.rev = cfg

\* "A losing concurrent caller does not block the winner; it observes preparation
\* ownership instead": a process that reserved before the execution was marked does
\* not go on to block the preparation while another one executes the parent.
LosersLeaveWinner ==
  \A p, q \in Procs :
    p # q /\ (At(q, "parent") \/ At(q, "parentrun")) /\ At(p, "blockprep") => proc[p].fenced

(* Liveness.                                                               *)

\* A reserved edge is eventually decided: its preparation or the edge is blocked,
\* or the child's outcome is delivered.
EdgeDecided ==
  owner.status # "none" ~>
    owner.status = "blocked" \/ Effective(edge) \in Terminal \cup {"blocked"}

\* "Pending terminal evidence is recoverable": an installed outbox is delivered.
OutboxDelivered == outbox.state = "pending" ~> Effective(edge) \in Terminal
=============================================================================
