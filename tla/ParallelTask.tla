------------------------------- MODULE ParallelTask -------------------------------
(***************************************************************************)
(* One task with several workers (the parallel path of executeTask): a        *)
(* workspace and a session per worker, the classification of their failures,  *)
(* the merge of all workspaces at once, the gates on the merged tree, the     *)
(* post-mortem of a run whose workers failed, and the clean-up.               *)
(***************************************************************************)
EXTENDS RunFiles, Integers

CONSTANT N  \* the number of workers

ASSUME ParallelAssumption == N \in Nat \ {0}

Workers == 1..N

VARIABLES session,  \* of each worker: none, running, yielded, failed
          relay,    \* what its checklist relay showed last: none, some, all
          work,     \* its commits: none, own (in the workspace), base (merged), stack
          tail,     \* what it has not committed: none, dirty, snapshot (jj has seen it), lost
          space,    \* its workspace: none, live, forgotten
          run       \* the run itself

workerVars == <<session, relay, work, tail, space>>
parallelVars == <<workerVars, run, disk>>

\* next is the workspace a loop is at, forget what the post-mortem may forget, expected the
\* workers whose recorded work has a file that only it brings.
ParallelInit ==
  /\ session = [i \in Workers |-> "none"] /\ relay = [i \in Workers |-> "none"]
  /\ work = [i \in Workers |-> "none"] /\ tail = [i \in Workers |-> "none"]
  /\ space = [i \in Workers |-> "none"]
  /\ run = [pc |-> "idle", next |-> 1, swap |-> FALSE, incomplete |-> {}, failed |-> FALSE, expected |-> {},
            landed |-> FALSE, conflicts |-> FALSE, verdict |-> "none", forget |-> {}, outcome |-> "none"]

Phase(label) == run.pc = label
Has(i) == work[i] = "own" \/ tail[i] = "snapshot"

-----------------------------------------------------------------------------
(* Dispatch.  An error here leaves the workspaces made so far.               *)

StartParallel ==
  /\ Phase("idle")
  /\ \/ run' = [run EXCEPT !.pc = "ended", !.outcome = "threw"]
     \/ run' = [run EXCEPT !.pc = "adding"]
  /\ UNCHANGED <<workerVars, disk>>

createWorkspace ==
  /\ Phase("adding")
  /\ \/ /\ run' = [run EXCEPT !.pc = "ended", !.outcome = "threw"]
        /\ UNCHANGED <<session, space>>
     \/ /\ space' = [space EXCEPT ![run.next] = "live"]
        /\ IF run.next < N THEN run' = [run EXCEPT !.next = @ + 1] /\ UNCHANGED session
           ELSE /\ run' = [run EXCEPT !.pc = "working", !.next = 1]
                /\ session' = [i \in Workers |-> "running"]
  /\ UNCHANGED <<relay, work, tail, disk>>

-----------------------------------------------------------------------------
(* The workers.                                                             *)

Running(i) == session[i] = "running" /\ run.pc = "working"

\* It edits, and now and then runs a jj command that takes a snapshot; or it commits.
Edits(i) ==
  /\ Running(i)
  /\ \E t \in {"dirty", "snapshot"} : tail' = [tail EXCEPT ![i] = t]
  /\ UNCHANGED <<session, relay, work, space, run, disk>>

Commits(i) ==
  /\ Running(i) /\ tail[i] # "none"
  /\ work' = [work EXCEPT ![i] = "own"]
  /\ tail' = [tail EXCEPT ![i] = "none"]
  /\ UNCHANGED <<session, relay, space, run, disk>>

Ticks(i) ==
  /\ Running(i) /\ relay[i] # "all"
  /\ \E r \in {"some", "all"} : relay' = [relay EXCEPT ![i] = r]
  /\ UNCHANGED <<session, work, tail, space, run, disk>>

Yields(i) ==
  /\ Running(i)
  /\ session' = [session EXCEPT ![i] = "yielded"]
  /\ UNCHANGED <<relay, work, tail, space, run, disk>>

\* A watchdog, the user, or a model swap that failed and aborts its own session.
Fails(i) ==
  /\ Running(i)
  /\ session' = [session EXCEPT ![i] = "failed"]
  /\ \E swap \in BOOLEAN : run' = [run EXCEPT !.swap = @ \/ swap]
  /\ UNCHANGED <<relay, work, tail, space, disk>>

failures == {i \in Workers : session[i] = "failed"}

\* Mutant: one worker that was done is enough.
MergesForAny == \E i \in failures : relay[i] = "all"

\* classifyWorkerFailures, on the progress of the failed workers that showed any.
Merges == LET shown == {i \in failures : relay[i] # "none"}
          IN  shown # {} /\ \A i \in shown : relay[i] = "all"

AllSettled ==
  /\ Phase("working") /\ \A i \in Workers : session[i] \in {"yielded", "failed"}
  /\ run' = [run EXCEPT !.pc = IF run.swap THEN "cleaning"
                               ELSE IF failures = {} \/ Merges THEN "merging" ELSE "rescuing",
                        !.outcome = IF run.swap THEN "threw" ELSE @,
                        !.incomplete = IF ~run.swap /\ Merges THEN failures ELSE {}]
  /\ UNCHANGED <<workerVars, disk>>

-----------------------------------------------------------------------------
(* The post-mortem, one workspace after the other, best effort throughout.   *)

Next1(label) == IF run.next < N THEN [run EXCEPT !.next = @ + 1] ELSE [run EXCEPT !.pc = label, !.next = 1]

\* rescueWorkspaceStateBestEffort: jj status takes the snapshot, jj commit describes it.
rescueWorkspaceState ==
  /\ Phase("rescuing")
  /\ LET i == run.next
     IN  \/ UNCHANGED <<work, tail>>
         \/ tail[i] # "none" /\ tail' = [tail EXCEPT ![i] = "snapshot"] /\ UNCHANGED work
         \/ tail[i] # "none" /\ tail' = [tail EXCEPT ![i] = "none"] /\ work' = [work EXCEPT ![i] = "own"]
  /\ run' = Next1("stacking")
  /\ UNCHANGED <<session, relay, space, disk>>

\* parallelRunPostMortem: a chain is rebased onto the stack and its workspace may go; one
\* whose rebase fails stays; one whose chain is empty, or cannot be listed, may go as well.
Stack ==
  /\ Phase("stacking")
  /\ LET i == run.next
         gone == [Next1("forgetting") EXCEPT !.forget = @ \cup {i}]
     IN  \/ run' = gone /\ UNCHANGED <<work, tail>>
         \/ /\ Has(i)
            /\ \/ run' = Next1("forgetting") /\ UNCHANGED <<work, tail>>
               \/ /\ work' = [work EXCEPT ![i] = "stack"]
                  /\ tail' = [tail EXCEPT ![i] = IF @ = "snapshot" THEN "none" ELSE @]
                  /\ \/ run' = gone
                     \/ tail[i] = "snapshot" /\ run' = Next1("forgetting")
  /\ UNCHANGED <<session, relay, space, disk>>

\* jj workspace forget abandons a working copy that was never committed.
Forgotten(who) ==
  /\ space' = [i \in Workers |-> IF i \in who THEN "forgotten" ELSE space[i]]
  /\ tail' = [i \in Workers |-> IF i \in who /\ tail[i] = "snapshot" THEN "lost" ELSE tail[i]]

ForgetStacked ==
  /\ Phase("forgetting")
  /\ \E who \in SUBSET run.forget : Forgotten(who)
  /\ run' = [run EXCEPT !.pc = "cleaning", !.failed = TRUE, !.outcome = "threw"]
  /\ writeFailureArtifact("parallel")
  /\ UNCHANGED <<session, relay, work>>

-----------------------------------------------------------------------------
(* The merge.                                                               *)

MergeError ==
  /\ run' = [run EXCEPT !.pc = "cleaning", !.failed = TRUE, !.outcome = "threw"]
  /\ writeFailureArtifact("parallel")

\* Before the squash nothing has moved; the squash takes what jj has recorded.
MergeFails ==
  /\ Phase("merging")
  /\ MergeError
  /\ UNCHANGED workerVars

Squashed(who) ==
  /\ work' = [i \in Workers |-> IF i \in who /\ Has(i) THEN "base" ELSE work[i]]
  /\ tail' = [i \in Workers |-> IF i \in who /\ tail[i] = "snapshot" THEN "none" ELSE tail[i]]

\* The files the workspaces add or modify are listed before the squash.  mergeWorkspacesAtomic:
\* a squash that left a snapshot behind (assertWorkspacesConsumed), or a jj error after it, is
\* an error, and the merge then counts as not landed.
mergeWorkspacesAtomic ==
  /\ Phase("merging")
  /\ \E who \in SUBSET Workers, files \in SUBSET {i \in Workers : Has(i)} :
       /\ Squashed(who)
       /\ \/ MergeError
          \/ /\ \A i \in Workers \ who : tail[i] # "snapshot"
             /\ run' = [run EXCEPT !.pc = "gating", !.landed = TRUE, !.expected = files]
             /\ UNCHANGED disk
  /\ UNCHANGED <<session, relay, space>>

\* The merged tree must have every file that was listed before the squash: what was left behind
\* is missed when it adds a file, and not when it edits or deletes files the tree has anyway.
assertMerged == \A i \in run.expected : work[i] # "own"

\* Mutant: nobody asks whether the merged tree holds the files of every worker.
GateUnchecked ==
  /\ Phase("gating")
  /\ run' = [run EXCEPT !.pc = "verifying"]
  /\ UNCHANGED <<workerVars, disk>>

\* The gate passes, and the union tool leaves no conflict, or some, which are put on record.
GateMerged ==
  /\ Phase("gating")
  /\ \/ MergeError
     \/ /\ assertMerged
        /\ \E conflicts \in BOOLEAN :
             /\ run' = [run EXCEPT !.pc = "verifying", !.conflicts = conflicts]
             /\ IF conflicts THEN writeFailureArtifact("parallel") ELSE UNCHANGED disk
  /\ UNCHANGED workerVars

\* With conflicts left the gate is not run.  A failed gate after unfinished workers is an error.
VerifyMerged ==
  /\ Phase("verifying")
  /\ \E verdict \in IF run.conflicts THEN {"skipped"} ELSE {"pass", "fail"} :
       IF verdict = "fail" /\ run.incomplete # {}
       THEN /\ run' = [run EXCEPT !.pc = "cleaning", !.verdict = verdict, !.failed = TRUE, !.outcome = "threw"]
            /\ writeFailureArtifact("parallel")
       ELSE /\ run' = [run EXCEPT !.pc = "cleaning", !.verdict = verdict]
            /\ UNCHANGED disk
  /\ UNCHANGED workerVars

-----------------------------------------------------------------------------
(* The finally block and the result.                                        *)

\* The workspaces are forgotten unless the run failed; their directories go in any case.
CleanUp ==
  /\ Phase("cleaning")
  /\ LET who == IF run.failed THEN {} ELSE Workers
     IN  /\ space' = [i \in Workers |-> IF i \in who THEN "forgotten" ELSE space[i]]
         /\ tail' = [i \in Workers |-> IF tail[i] = "dirty" \/ (i \in who /\ tail[i] = "snapshot") THEN "lost" ELSE tail[i]]
  /\ run' = [run EXCEPT !.pc = IF run.outcome = "threw" THEN "ended" ELSE "reporting"]
  /\ UNCHANGED <<session, relay, work, disk>>

\* jj cannot resolve the merged commit.
ReportFails ==
  /\ Phase("reporting")
  /\ run' = [run EXCEPT !.pc = "ended", !.outcome = "unresolved"]
  /\ UNCHANGED <<workerVars, disk>>

\* aggregateExecutePhase adds up the usage of the results: that of a worker that did not
\* yield is undefined, and reading its usage throws.
Report ==
  /\ Phase("reporting")
  /\ IF run.incomplete # {}
     THEN run' = [run EXCEPT !.pc = "ended", !.outcome = "threw"] /\ UNCHANGED disk
     ELSE /\ run' = [run EXCEPT !.pc = "ended",
                                !.outcome = IF run.verdict = "pass" /\ ~run.conflicts THEN "success" ELSE "failed"]
          /\ writeManifest
  /\ UNCHANGED workerVars

WorkerStep(i) == Edits(i) \/ Commits(i) \/ Ticks(i) \/ Yields(i) \/ Fails(i)
RunStep ==
  \/ createWorkspace \/ AllSettled \/ rescueWorkspaceState \/ Stack \/ ForgetStacked \/ MergeFails
  \/ mergeWorkspacesAtomic \/ GateMerged \/ VerifyMerged \/ CleanUp
  \/ ReportFails \/ Report

ParallelNext == StartParallel \/ RunStep \/ \E i \in Workers : WorkerStep(i)
ParallelSpec == ParallelInit /\ disk = NoFiles /\ [][ParallelNext]_parallelVars

-----------------------------------------------------------------------------
\* "Never merge or claim success without the gate": a run that succeeds has landed its merge,
\* without conflicts, the gate has passed on that tree, and the tree has the files each worker
\* added; every session had ended, and one that failed had not shown that it was mid-work.
GreenIsIntegrated ==
  run.outcome = "success" =>
    /\ run.landed /\ ~run.conflicts /\ run.verdict = "pass" /\ disk.manifest
    /\ \A i \in run.expected : work[i] # "own"
    /\ \A i \in Workers : session[i] = "yielded" \/ (session[i] = "failed" /\ relay[i] # "some")

\* A run in which a failed worker had shown that it was mid-work merges nothing.
PartialNeverMerged ==
  (\E i \in Workers : session[i] = "failed" /\ relay[i] = "some") => \A i \in Workers : work[i] # "base"

\* "ANY failed worker aborted mid-work: abort": neither does one in which a failed worker
\* had shown nothing at all.
SilentNeverMerged ==
  (\E i \in Workers : session[i] = "failed" /\ relay[i] = "none") => \A i \in Workers : work[i] # "base"

\* "pass: success-with-caveat": a run whose unfinished workers were merged and whose gate
\* has passed does not end in an error.
GreenRecoverySucceeds ==
  run.incomplete # {} /\ run.verdict = "pass" => run.outcome # "threw"

\* A workspace whose chain was not stacked stays live, "forgetting it would abandon
\* content-bearing commits".
ForgottenIsStacked ==
  run.failed => \A i \in Workers : space[i] = "forgotten" => work[i] # "own" /\ tail[i] # "lost"
=============================================================================
