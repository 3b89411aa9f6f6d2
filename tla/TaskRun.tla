--------------------------------- MODULE TaskRun ---------------------------------
(***************************************************************************)
(* One run of core-v2's runParallelTask (daemon/parallel.ts), from its rows *)
(* to its receipt: as the CLI's standalone task with the delivery of its     *)
(* artifacts (cli.ts), as several workers integrated into one base, or in     *)
(* feature-branch mode.  Labels are the points between two awaits.  What      *)
(* ends a worker's session is SessionGroup's; here it just ends.  The process *)
(* may be lost at any label, and the next boot judges the rows.               *)
(***************************************************************************)
EXTENDS JjWorkspaces, VerificationRun

CONSTANT Agg   \* the row of the whole run

ASSUME RowAssumption == Agg \notin Workers

VARIABLES kind,      \* standalone, parallel or branches
          team,      \* the run's workers
          pc,
          outcome,   \* how each worker's session ended
          final,     \* what finalizeWorkspace said of each
          conflicts, \* the base holds a conflict
          cause,     \* why the run is being recovered
          row,       \* tasks
          wrow,      \* workspaces
          accepted,  \* the aggregate has passed every gate
          receipt,   \* the verdict runParallelTask returned
          files      \* the verdicts of the CLI's artifacts on disk

ledger == <<row, wrow>>
vars == <<jj, suite, kind, team, pc, outcome, final, conflicts, cause, ledger, accepted, receipt, files>>

Kinds == {"standalone", "parallel", "branches"}
Labels == {"start", "working", "finalizing", "judging", "combining", "squashed", "materializing", "verifying",
           "cleaning", "recovering", "publishing", "releasing", "receipt", "trace", "final", "terminal",
           "rollback", "returned", "thrown", "lost", "booted"}
Ends == {"returned", "thrown", "lost", "booted"}
Statuses == {"absent", "queued", "executing", "verifying", "delivery_pending", "completed", "failed", "escalated"}
InFlight == {"executing", "verifying"}

\* A standalone task is its own worker.
RowOf(w) == IF kind = "standalone" THEN Agg ELSE w
TaskBase == kind # "branches"

TypeOK ==
  /\ JjTypeOK /\ SuiteTypeOK
  /\ kind \in Kinds /\ team \subseteq Workers /\ pc \in Labels
  /\ outcome \in [Workers -> {"working", "yielded", "settled", "failed"}]
  /\ final \in [Workers -> {"none", "ok", "failed"}]
  /\ conflicts \in BOOLEAN /\ accepted \in BOOLEAN
  /\ cause \in {"none", "ladder", "conflict", "gate", "failed"}
  /\ row \in [Workers \cup {Agg} -> Statuses]
  /\ wrow \in [Workers -> {"absent", "active", "released", "orphaned"}]
  /\ receipt \in {"none", "ship", "failed", "escalate"}
  /\ files \in [receipt : {"none", "failed", "ship"}, trace : {"none", "failed", "ship"}]

Init ==
  /\ JjInit /\ suite = NoSuite
  /\ kind \in Kinds
  /\ team \in SUBSET Workers /\ team # {}
  /\ kind = "standalone" => \A v, w \in team : v = w
  /\ pc = "start"
  /\ outcome = [w \in Workers |-> "working"] /\ final = [w \in Workers |-> "none"]
  /\ conflicts = FALSE /\ cause = "none" /\ accepted = FALSE /\ receipt = "none"
  /\ row = [r \in Workers \cup {Agg} |-> "absent"] /\ wrow = [w \in Workers |-> "absent"]
  /\ files = [receipt |-> "none", trace |-> "none"]

\* Rows of a set of workers, and of the run.
Mark(rows, set, status) == [r \in DOMAIN rows |-> IF \E w \in set : r = RowOf(w) THEN status ELSE rows[r]]
MarkAgg(rows, status) == [rows EXCEPT ![Agg] = status]
MarkWorkspaces(set, status) == [w \in Workers |-> IF w \in set THEN status ELSE wrow[w]]

-----------------------------------------------------------------------------
(* Provisioning and the workers.                                            *)

\* The rows come first; preparing the repository, its base, the workspaces and the
\* sessions may fail at any point, and the exception leaves the rows behind.
Provision ==
  /\ pc = "start"
  /\ \/ CreateWorkspaces(team) /\ pc' = "working" /\ wrow' = MarkWorkspaces(team, "active")
     \/ /\ "provision" \in Faults
        /\ \E made \in SUBSET team : CreateWorkspaces(made) /\ wrow' = MarkWorkspaces(made, "active")
        /\ pc' = "thrown"
  /\ row' = MarkAgg(Mark(row, team, "executing"), "executing")
  /\ UNCHANGED <<suite, kind, team, outcome, final, conflicts, cause, accepted, receipt, files>>

\* An agent at work (external).
Agent(w) ==
  /\ pc = "working" /\ w \in team /\ outcome[w] = "working"
  /\ AgentWorks(w)
  /\ UNCHANGED <<suite, kind, team, pc, outcome, final, conflicts, cause, ledger, accepted, receipt, files>>

\* A worker's session ends: SessionGroup says that it does, and how.
SessionEnds(w) ==
  /\ pc = "working" /\ w \in team /\ outcome[w] = "working"
  /\ \E o \in {"yielded", "settled", "failed"} : outcome' = [outcome EXCEPT ![w] = o]
  /\ UNCHANGED <<jj, suite, kind, team, pc, final, conflicts, cause, ledger, accepted, receipt, files>>

\* Promise.allSettled over the prompts; finalization only where there is a base.
AllEnd ==
  /\ pc = "working" /\ \A w \in team : outcome[w] # "working"
  /\ pc' = IF TaskBase THEN "finalizing" ELSE "judging"
  /\ UNCHANGED <<jj, suite, kind, team, outcome, final, conflicts, cause, ledger, accepted, receipt, files>>

\* Every workspace is finalized, a failed worker's too, all at once.
Finalize(w) ==
  /\ pc = "finalizing" /\ w \in team /\ final[w] = "none"
  /\ \/ FinalizeWorkspace(w) /\ final' = [final EXCEPT ![w] = "ok"]
     \/ FinalizeFails(w) /\ final' = [final EXCEPT ![w] = "failed"]
  /\ UNCHANGED <<suite, kind, team, pc, outcome, conflicts, cause, ledger, accepted, receipt, files>>

AllFinalized ==
  /\ pc = "finalizing" /\ \A w \in team : final[w] # "none"
  /\ pc' = "judging"
  /\ UNCHANGED <<jj, suite, kind, team, outcome, final, conflicts, cause, ledger, accepted, receipt, files>>

-----------------------------------------------------------------------------
(* The workers' verdicts, and the branches of feature-branch mode.          *)

\* A session that settled without a yield counts in the standalone lane, on provider evidence.
Ships(w) ==
  /\ \/ outcome[w] = "yielded"
     \/ outcome[w] = "settled" /\ kind = "standalone" /\ final[w] = "ok"
  /\ final[w] # "failed"

Healthy == {w \in team : Ships(w)}
anyFailed == Healthy # team

Judge ==
  /\ pc = "judging"
  /\ row' = [r \in DOMAIN row |->
               IF \E w \in team \ Healthy : r = RowOf(w) THEN "failed"
               ELSE IF kind # "standalone" /\ r \in Healthy THEN "completed"
               ELSE row[r]]
  /\ pc' = IF TaskBase THEN "combining" ELSE "publishing"
  /\ UNCHANGED <<jj, suite, kind, team, outcome, final, conflicts, cause, wrow, accepted, receipt, files>>

\* A bookmark that cannot be set escapes as well.
Publish(w) ==
  /\ pc = "publishing" /\ w \in team \ bookmarks
  /\ \/ PublishBookmark(w) /\ UNCHANGED pc
     \/ "publish" \in Faults /\ pc' = "thrown" /\ UNCHANGED jj
  /\ UNCHANGED <<suite, kind, team, outcome, final, conflicts, cause, ledger, accepted, receipt, files>>

AllPublished ==
  /\ pc = "publishing" /\ team \subseteq bookmarks
  /\ pc' = "releasing"
  /\ UNCHANGED <<jj, suite, kind, team, outcome, final, conflicts, cause, ledger, accepted, receipt, files>>

\* Every workspace is removed, whatever its worker's verdict; a failure escapes.
Release(w) ==
  /\ pc = "releasing" /\ w \in team /\ ws[w].live
  /\ \/ CleanupWorkspace(w) /\ wrow' = MarkWorkspaces({w}, "released") /\ UNCHANGED pc
     \/ "cleanup" \in Faults /\ pc' = "thrown" /\ UNCHANGED <<jj, wrow>>
  /\ UNCHANGED <<suite, kind, team, outcome, final, conflicts, cause, row, accepted, receipt, files>>

AllReleased ==
  /\ pc = "releasing" /\ \A w \in team : ~ws[w].live
  /\ row' = MarkAgg(row, IF anyFailed THEN "failed" ELSE "completed")
  /\ receipt' = IF anyFailed THEN "failed" ELSE "ship"
  /\ pc' = "returned"
  /\ UNCHANGED <<jj, suite, kind, team, outcome, final, conflicts, cause, wrow, accepted, files>>

-----------------------------------------------------------------------------
(* Integration: combine, union, materialize, verify, accept.                *)

\* The failing paths start alike: orphan the workspaces, then the post-mortem.
Recover(why) ==
  /\ pc' = "recovering" /\ cause' = why
  /\ wrow' = MarkWorkspaces(team, "orphaned")

\* The healthy chains are squashed into the base, or the ladder fails before that.
Combine ==
  /\ pc = "combining"
  /\ \/ /\ Squash(Healthy)
        /\ conflicts' \in {FALSE, \E v, w \in base' : v # w}
        /\ pc' = "squashed"
        /\ UNCHANGED <<cause, wrow>>
     \/ "combine" \in Faults /\ Recover("ladder") /\ UNCHANGED <<jj, conflicts>>
  /\ UNCHANGED <<suite, kind, team, outcome, final, row, accepted, receipt, files>>

\* After the squash: consumption check, union of the conflicts, consistency gate.  The union
\* may leave conflicts behind; any of the calls may fail.
AfterSquash ==
  /\ pc = "squashed"
  /\ \/ /\ conflicts' \in {FALSE, conflicts}
        /\ row' = Mark(row, Healthy, "verifying")
        /\ IF conflicts' THEN Recover("conflict") ELSE pc' = "materializing" /\ UNCHANGED <<cause, wrow>>
     \/ "combine" \in Faults /\ Recover("ladder") /\ UNCHANGED <<row, conflicts>>
  /\ UNCHANGED <<jj, suite, kind, team, outcome, final, accepted, receipt, files>>

Materialize ==
  /\ pc = "materializing"
  /\ \/ StartSuite /\ pc' = "verifying" /\ UNCHANGED <<cause, wrow>>
     \/ "materialize" \in Faults /\ Recover("gate") /\ UNCHANGED suite
  /\ UNCHANGED <<jj, kind, team, outcome, final, conflicts, row, accepted, receipt, files>>

Verify ==
  /\ pc = "verifying"
  /\ SuiteStep
  /\ suite'.phase = "threw" => "environment" \in Faults
  /\ UNCHANGED <<jj, kind, team, pc, outcome, final, conflicts, cause, ledger, accepted, receipt, files>>

VerifyThrew ==
  /\ pc = "verifying" /\ suite.phase = "threw"
  /\ Recover("gate")
  /\ UNCHANGED <<jj, suite, kind, team, outcome, final, conflicts, row, accepted, receipt, files>>

\* Mutant: the suite alone decides.
DecideOnSuite ==
  /\ pc = "verifying" /\ suite.phase = "ended"
  /\ \/ /\ passed
        /\ accepted' = TRUE /\ pc' = "cleaning"
        /\ UNCHANGED <<cause, wrow>>
     \/ Recover("failed") /\ UNCHANGED accepted
  /\ UNCHANGED <<jj, suite, kind, team, outcome, final, conflicts, row, receipt, files>>

\* The gates: every worker shipped, the suite passed in full, the content is accepted.
Decide ==
  /\ pc = "verifying" /\ suite.phase = "ended"
  /\ \/ /\ ~anyFailed /\ passed
        /\ accepted' = TRUE /\ pc' = "cleaning"
        /\ UNCHANGED <<cause, wrow>>
     \/ Recover("failed") /\ UNCHANGED accepted
  /\ UNCHANGED <<jj, suite, kind, team, outcome, final, conflicts, row, receipt, files>>

\* The workspaces of an accepted run are removed one by one; a failure escapes.
Cleanup(w) ==
  /\ pc = "cleaning" /\ w \in team /\ ws[w].live
  /\ \/ CleanupWorkspace(w) /\ wrow' = MarkWorkspaces({w}, "released") /\ UNCHANGED pc
     \/ "cleanup" \in Faults /\ pc' = "thrown" /\ UNCHANGED <<jj, wrow>>
  /\ UNCHANGED <<suite, kind, team, outcome, final, conflicts, cause, row, accepted, receipt, files>>

\* A standalone task ships only after its delivery.
Complete ==
  /\ pc = "cleaning" /\ \A w \in team : ~ws[w].live
  /\ receipt' = "ship"
  /\ IF kind = "standalone"
     THEN row' = MarkAgg(row, "delivery_pending") /\ pc' = "receipt"
     ELSE row' = MarkAgg(Mark(row, Healthy, "completed"), "completed") /\ pc' = "returned"
  /\ UNCHANGED <<jj, suite, kind, team, outcome, final, conflicts, cause, wrow, accepted, files>>

-----------------------------------------------------------------------------
(* A failed run: the post-mortem, then the rows.                            *)

PostMortem ==
  /\ pc = "recovering" /\ ~(team \subseteq pm.seen)
  /\ (\E w \in team : RecoverWorkspace(w)) \/ RecoverNothing(team)
  /\ UNCHANGED <<suite, kind, team, pc, outcome, final, conflicts, cause, ledger, accepted, receipt, files>>

\* The rows a failed run leaves: of a conflict the run escalates and then the healthy workers
\* fail; a failure of the ladder or of a gate fails everyone.
RowsOfFailure ==
  CASE cause = "conflict"           -> Mark(MarkAgg(row, "escalated"), Healthy, "failed")
    [] cause \in {"ladder", "gate"} -> Mark(MarkAgg(row, "failed"), team, "failed")
    [] OTHER                        -> Mark(MarkAgg(row, "failed"), Healthy, "failed")

\* Mutant: an exception of the ladder escapes without touching the rows.
EndRecoveryBare ==
  /\ pc = "recovering" /\ team \subseteq pm.seen
  /\ ForgetWorkspaces
  /\ row' = IF cause = "ladder" THEN row ELSE RowsOfFailure
  /\ receipt' = IF cause = "conflict" THEN "escalate" ELSE "failed"
  /\ pc' = "returned"
  /\ UNCHANGED <<suite, kind, team, outcome, final, conflicts, cause, wrow, accepted, files>>

EndRecovery ==
  /\ pc = "recovering" /\ team \subseteq pm.seen
  /\ ForgetWorkspaces
  /\ row' = RowsOfFailure
  /\ receipt' = IF cause = "conflict" THEN "escalate" ELSE "failed"
  /\ pc' = "returned"
  /\ UNCHANGED <<suite, kind, team, outcome, final, conflicts, cause, wrow, accepted, files>>

-----------------------------------------------------------------------------
(* Delivery of a standalone task: a receipt and a trace that do not claim    *)
(* success, the receipt that does, the trace that does, and only then the    *)
(* row.  Each write is atomic and may fail.                                  *)

Write(file, verdict, next) ==
  /\ files' = [files EXCEPT ![file] = verdict]
  /\ pc' = next

WriteFails(next) == "delivery" \in Faults /\ pc' = next /\ UNCHANGED files

Delivering == UNCHANGED <<jj, suite, kind, team, outcome, final, conflicts, cause, wrow, accepted, receipt>>

DeliverReceipt ==
  /\ pc = "receipt"
  /\ Write("receipt", "failed", "trace") \/ WriteFails("trace")
  /\ UNCHANGED row /\ Delivering

DeliverTrace ==
  /\ pc = "trace"
  /\ \/ Write("trace", "failed", IF files.receipt = "none" THEN "returned" ELSE "final")
     \/ WriteFails("returned")
  /\ UNCHANGED row /\ Delivering

DeliverFinalReceipt ==
  /\ pc = "final"
  /\ Write("receipt", "ship", "terminal") \/ WriteFails("returned")
  /\ UNCHANGED row /\ Delivering

DeliverTerminalTrace ==
  /\ pc = "terminal"
  /\ \/ Write("trace", "ship", "returned") /\ row' = MarkAgg(row, "completed")
     \/ WriteFails("rollback") /\ UNCHANGED row
  /\ Delivering

\* The trace failed: the receipt is written back, which may fail as well.
RollBackReceipt ==
  /\ pc = "rollback"
  /\ Write("receipt", "failed", "returned") \/ WriteFails("returned")
  /\ UNCHANGED row /\ Delivering

-----------------------------------------------------------------------------
(* The loss of the process, and the next boot.                              *)

Crash ==
  /\ pc \notin Ends \cup {"start"}
  /\ pc' = "lost"
  /\ UNCHANGED <<jj, suite, kind, team, outcome, final, conflicts, cause, ledger, accepted, receipt, files>>

\* reconcileOnBoot: rows in flight are queued again; these have retries left.
Boot ==
  /\ pc \in {"lost", "thrown"}
  /\ row' = [r \in DOMAIN row |-> IF row[r] \in InFlight THEN "queued" ELSE row[r]]
  /\ pc' = "booted"
  /\ UNCHANGED <<jj, suite, kind, team, outcome, final, conflicts, cause, wrow, accepted, receipt, files>>

Deliver == DeliverReceipt \/ DeliverTrace \/ DeliverFinalReceipt \/ DeliverTerminalTrace \/ RollBackReceipt

Progress ==
  \/ Provision \/ AllEnd \/ AllFinalized \/ Judge \/ AllPublished \/ AllReleased
  \/ Combine \/ AfterSquash \/ Materialize \/ Verify \/ VerifyThrew \/ Decide \/ Complete
  \/ PostMortem \/ EndRecovery \/ Deliver \/ Boot
  \/ \E w \in Workers : Finalize(w) \/ Publish(w) \/ Release(w) \/ Cleanup(w)

Next == Progress \/ Crash \/ \E w \in Workers : Agent(w) \/ SessionEnds(w)

Spec == Init /\ [][Next]_vars

\* Calls into jj, the environment and the file system return, a suite's clock goes on,
\* sessions end, and somebody starts the program again.
Fairness == WF_vars(Progress) /\ \A w \in Workers : WF_vars(SessionEnds(w))

FairSpec == Spec /\ Fairness

-----------------------------------------------------------------------------
(* Properties.                                                              *)

\* What was accepted has every worker's work in the base and nowhere else, without a conflict
\* left, under a suite all of whose commands ran, within its wall and its grace, and passed; a
\* run with a base completes only when accepted, and a standalone task only when receipt and
\* trace on disk say so (parallel.ts 1374-1430, verify/run.ts 132, cli.ts 896).
CompletedIsProven ==
  /\ accepted => /\ \A w \in team : Ships(w) /\ ~ws[w].edits /\ ~Recorded(ws[w])
                 /\ suite.ran = Commands /\ ~suite.failed /\ suite.time <= SuiteWall + SuiteGrace
                 /\ ~conflicts
  /\ TaskBase /\ row[Agg] \in {"delivery_pending", "completed"} => accepted
  /\ kind = "standalone" /\ row[Agg] = "completed" => files = [receipt |-> "ship", trace |-> "ship"]

\* Nothing jj has recorded of a worker is ever only in a workspace that was forgotten or
\* removed: it is in a live workspace, the base or the stack (failure-hygiene.ts 301-331).
WorkIsKept == TaskBase => \A w \in Workers : Recorded(ws[w]) => ws[w].live

\* The rows of a run that has returned say what its receipt says, and no child is completed
\* under a parent that is not (parallel.ts 1139).
Agreed ==
  /\ \A r \in DOMAIN row : row[r] \notin InFlight
  /\ receipt = "ship"     => row[Agg] \in {"delivery_pending", "completed"}
  /\ receipt = "failed"   => row[Agg] = "failed"
  /\ receipt = "escalate" => row[Agg] = "escalated"
  /\ TaskBase /\ row[Agg] # "completed" => \A w \in Workers : row[w] # "completed"
  /\ TaskBase => \A w \in team : wrow[w] = IF receipt = "ship" THEN "released" ELSE "orphaned"

\* Every run comes to an end whose rows agree, or its process is lost and a boot takes its
\* rows out of flight.
RunDecides ==
  <>[](\/ /\ pc = "returned"
         /\ Agreed
      \/ /\ pc = "booted"
         /\ \A r \in DOMAIN row : row[r] \notin InFlight)

\* In feature-branch mode the bookmark of a worker of a shipped run holds all its work
\* (contracts/workspace-driver.ts 201).
BranchHoldsWork == kind = "branches" /\ receipt = "ship" => \A w \in team : ~ws[w].edits /\ ws[w].at = "stub"

=============================================================================
