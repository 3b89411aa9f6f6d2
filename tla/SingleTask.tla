-------------------------------- MODULE SingleTask --------------------------------
(***************************************************************************)
(* One task with one worker (executeSingle of orchestrator.ts): the worker,   *)
(* the verification gate, the forked review and the bounded fix loop, the     *)
(* salvage of a worker that stopped without its yield, the hygiene after a    *)
(* failure, and the gate of the next dispatch in the same repository.         *)
(* The worker itself is WorkerProcess; here it is what it leaves behind.      *)
(***************************************************************************)
EXTENDS RunFiles, Integers

CONSTANTS Commands,  \* the verification commands of the spec
          MaxFixes   \* maxFixIterations

ASSUME SingleAssumption == MaxFixes \in Nat

VARIABLE single

singleVars == <<single, disk>>

\* rev counts the commits made since the base, wip says that the working copy holds more;
\* diff is the revision the reviewer is shown, checked the tree the gate ran on.
SingleInit ==
  single = [pc |-> "idle", review |-> FALSE, baseline |-> [c \in Commands |-> "green"],
            results |-> [c \in Commands |-> "pass"], suspects |-> {}, rev |-> 0, wip |-> FALSE,
            diff |-> 0, checked |-> <<0, FALSE>>, blockers |-> FALSE, fixes |-> 0,
            outcome |-> "none", caveat |-> FALSE, leftover |-> "none"]

At(label) == single.pc = label
Finishes(outcome) == [single EXCEPT !.pc = "finishing", !.outcome = outcome]

\* captureVerificationBaseline: a broken command rejects the dispatch.
StartSingle ==
  /\ At("idle")
  /\ \/ single' = [single EXCEPT !.pc = "ended", !.outcome = "threw"]
     \/ \E review \in BOOLEAN, baseline \in [Commands -> {"green", "red"}] :
          single' = [single EXCEPT !.pc = "working", !.review = review, !.baseline = baseline]
  /\ UNCHANGED disk

-----------------------------------------------------------------------------
(* Worker and fix worker.                                                   *)

\* What a session may leave: commits, edits made since the last of them, both or none.
LeftAt(rev, wip) == [single EXCEPT !.rev = rev, !.wip = wip]
Left == {LeftAt(rev, wip) : rev \in {single.rev, single.rev + 1}, wip \in BOOLEAN}

\* rescueAbortedWorkBestEffort: the edits become a commit, unless jj fails.
Rescued(s) == {s} \cup {[s EXCEPT !.rev = @ + 1, !.wip = FALSE] : t \in {s.wip} \cap {TRUE}}

\* The diff for the review is taken at the yield; it fails with jj, or without a session.
WorkerYields ==
  /\ At("working")
  /\ \E s \in Left :
       \/ single' = [s EXCEPT !.pc = "verify", !.diff = s.rev]
       \/ s.review /\ single' = [s EXCEPT !.pc = "finishing", !.outcome = "threw"]
  /\ UNCHANGED disk

\* singleRunFailureHygiene, the failure artifact, and the error is thrown again.
FailsAfterRescue(left) ==
  /\ \E s \in left : \E t \in Rescued(s) : single' = [t EXCEPT !.pc = "finishing", !.outcome = "threw"]
  /\ writeFailureArtifact("worker")

\* The turn budget is used up, the model swap failed, or the worker failed mid-work.
WorkerFails == At("working") /\ FailsAfterRescue(Left)

\* No yield, or an abort with every requirement done: the tree decides.
WorkerIncomplete ==
  /\ At("working")
  /\ \E s \in Left : \E t \in Rescued(s) : single' = [t EXCEPT !.pc = "salvage"]
  /\ UNCHANGED disk

-----------------------------------------------------------------------------
(* The verification gate.  A failure that is the baseline's own is identical. *)

Gates == {r \in [Commands -> {"pass", "identical", "new"}] :
            \A c \in Commands : r[c] = "identical" => single.baseline[c] = "red"}

passed(s) == \A c \in Commands : s.results[c] = "pass"

\* classifyVerificationFailures, of which a dispute can uphold nothing more.
specDefectSuspected(s) == {c \in Commands : s.results[c] = "identical"}
actionable(s) == {c \in Commands : s.results[c] = "new"}

\* runVerification, on the working copy as it is.
Verified == {[single EXCEPT !.results = r, !.checked = <<single.rev, single.wip>>] : r \in Gates}

Salvage ==
  /\ At("salvage")
  /\ \E s \in Verified :
       \/ /\ passed(s) /\ writeManifest
          /\ single' = [s EXCEPT !.pc = "finishing", !.outcome = "success", !.caveat = TRUE]
       \/ ~passed(s) /\ FailsAfterRescue({s})

VerifyWork ==
  /\ At("verify")
  /\ \E s \in Verified :
       LET t == [s EXCEPT !.suspects = @ \cup specDefectSuspected(s)]
       IN  IF s.review /\ (passed(s) \/ actionable(s) # {})
           THEN single' = [t EXCEPT !.pc = "reviewing"] /\ UNCHANGED disk
           ELSE /\ single' = [t EXCEPT !.pc = "finishing", !.outcome = IF passed(s) THEN "success" ELSE "failed"]
                /\ writeManifest

-----------------------------------------------------------------------------
(* Review and fix loop.                                                     *)

decideFixLoop(blockers) ==
  IF passed(single) /\ ~blockers THEN "ship"
  ELSE IF single.fixes >= MaxFixes THEN "escalate" ELSE "fix"

ReviewFails ==
  /\ At("reviewing")
  /\ single' = Finishes("threw")
  /\ writeFailureArtifact("review")

Review ==
  /\ At("reviewing")
  /\ \E blockers \in BOOLEAN :
       LET decision == decideFixLoop(blockers)
       IN  IF decision = "fix"
           THEN single' = [single EXCEPT !.pc = "fixing", !.blockers = blockers] /\ UNCHANGED disk
           ELSE /\ single' = [Finishes(IF decision = "ship" THEN "success" ELSE "failed") EXCEPT !.blockers = blockers]
                /\ writeManifest

\* Mutant: the diff of the first yield is shown to every review.
FixYieldsOldDiff ==
  /\ At("fixing")
  /\ \E s \in Left : single' = [s EXCEPT !.pc = "verify", !.fixes = @ + 1]
  /\ UNCHANGED disk

FixYields ==
  /\ At("fixing")
  /\ \E s \in Left :
       \/ single' = [s EXCEPT !.pc = "verify", !.fixes = @ + 1, !.diff = s.rev]
       \/ single' = [s EXCEPT !.pc = "finishing", !.fixes = @ + 1, !.outcome = "threw"]
  /\ UNCHANGED disk

\* A fix worker that fails leaves its edits where they are.
FixFails ==
  /\ At("fixing")
  /\ \E s \in Left : single' = [s EXCEPT !.pc = "finishing", !.outcome = "threw"]
  /\ writeFailureArtifact("worker")

-----------------------------------------------------------------------------
(* The working copy goes back to the user, and is looked at once more.       *)

\* jj new leaves the edits behind in the commit that was the working copy: the task base,
\* which is described, or what the last commit opened, which is not.
Restore ==
  /\ At("finishing")
  /\ single' = [single EXCEPT !.pc = "ended",
                               !.leftover = IF ~single.wip THEN "none"
                                            ELSE IF single.rev = 0 THEN "described" ELSE "snapshot"]
  /\ UNCHANGED disk

\* ensureDispatchableTree of the next task abandons what the engine authored undescribed.
NextDispatch ==
  /\ At("ended") /\ single.leftover = "snapshot"
  /\ single' = [single EXCEPT !.leftover = "swept"]
  /\ UNCHANGED disk

SingleStep ==
  \/ WorkerYields \/ WorkerFails \/ WorkerIncomplete \/ Salvage \/ VerifyWork
  \/ ReviewFails \/ Review \/ FixYields \/ FixFails \/ Restore

-----------------------------------------------------------------------------
\* A run succeeds only on a gate that passed in the very state it ends with and, where a
\* review was asked for, after a review without blockers of all that was committed.
ShipIsReviewed ==
  single.outcome = "success" =>
    /\ disk.manifest /\ passed(single) /\ single.checked = <<single.rev, single.wip>>
    /\ single.review /\ ~single.caveat => single.diff = single.rev /\ ~single.blockers

\* The gate of a dispatch "only ever removes" what PAST FAILED runs left: what the
\* verification of a run that succeeded has seen is not swept.
SuccessIsNotSwept == single.outcome = "success" => single.leftover # "swept"
=============================================================================
