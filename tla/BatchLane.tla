-------------------------------- MODULE BatchLane --------------------------------
(***************************************************************************)
(* The batch lane of one run: batch.ts (submit, poll, collect, the job-state *)
(* file and its recovery entry points) and executeBatchLane of               *)
(* orchestrator.ts (apply, commit, verify).  A step is what happens between   *)
(* two awaits, or one answer of the provider.  Every item asks for one file.  *)
(***************************************************************************)
EXTENDS RunFiles, Integers, Sequences

CONSTANTS Items,    \* the requirements of the spec
          MaxJobs   \* bound: submissions the provider accepts

ASSUME BatchAssumption == MaxJobs \in Nat

VARIABLES file,  \* <run_id>.batch.json; job 0 is no job
          jobs,  \* the provider's jobs, in order of submission
          lane,  \* the runBatchLane in progress and what its caller does with it
          tree   \* the working copy and what was committed from it

laneVars == <<file, jobs, lane, tree>>
batchVars == <<laneVars, disk>>

NoItems == [i \in Items |-> "none"]
NoFile == [status |-> "none", job |-> 0, items |-> NoItems]
Idle == [pc |-> "idle", recovery |-> FALSE, items |-> {}, sent |-> 0, job |-> 0,
         signal |-> FALSE, late |-> FALSE, code |-> "none"]

LaneInit ==
  /\ file = NoFile
  /\ jobs = <<>>
  /\ lane = Idle
  /\ tree = [user |-> "none", files |-> {}, committed |-> {}, swept |-> "none"]

\* makeState: every item pending, no job yet.
makeState(ids) ==
  [status |-> "submitting", job |-> 0, items |-> [i \in Items |-> IF i \in ids THEN "pending" ELSE "none"]]

\* incompleteItems, of the items the file records.
incompleteItems == {i \in Items : file.items[i] \notin {"none", "completed"}}

\* The typed errors, for which the caller of the lane writes a failure artifact that names
\* the job-state file; it passes no run id, so the artifact gets an id of its own.
BatchErrors == {"submit_failed", "aborted", "poll_timeout", "http_error", "job_failed",
                "items_incomplete", "invalid_output", "existing_file"}
Ends(code) ==
  /\ lane' = [lane EXCEPT !.pc = "ended", !.code = code]
  /\ disk' = IF lane.recovery \/ code \notin BatchErrors THEN disk ELSE [disk EXCEPT !.stray = TRUE]

-----------------------------------------------------------------------------
(* Submission and recovery.                                                 *)

Begin(l) ==
  /\ lane' = l
  /\ file' = makeState(l.items)
  /\ UNCHANGED <<jobs, tree, disk>>

\* The lane of a run submits every item, unless the baseline or jj refuses the run; a
\* resubmission only those that failed.
Start ==
  \/ Begin([Idle EXCEPT !.pc = "submitting", !.items = Items])
  \/ Ends("refused") /\ UNCHANGED <<file, jobs, tree>>
Resubmit ==
  /\ lane.pc \in {"idle", "ended"} /\ incompleteItems # {}
  /\ Begin([Idle EXCEPT !.pc = "submitting", !.items = incompleteItems, !.recovery = TRUE])

\* resumeBatchJob: the recorded job, and all the items of the spec.
Resume ==
  /\ lane.pc \in {"idle", "ended"} /\ file.job # 0
  /\ Begin([Idle EXCEPT !.pc = "resuming", !.items = Items, !.sent = file.job, !.recovery = TRUE])

Accept ==
  /\ lane.pc = "submitting" /\ lane.sent = 0 /\ Len(jobs) < MaxJobs
  /\ jobs' = Append(jobs, [items |-> lane.items, phase |-> "in_progress", outcome |-> NoItems])
  /\ lane' = [lane EXCEPT !.sent = Len(jobs) + 1]
  /\ UNCHANGED <<file, tree, disk>>

\* The job id is known: recorded with the first state of the polling.
Submitted ==
  /\ lane.pc \in {"submitting", "resuming"} /\ lane.sent # 0
  /\ lane' = [lane EXCEPT !.pc = "polling", !.job = lane.sent]
  /\ file' = [file EXCEPT !.job = lane.sent, !.status = "in_progress"]
  /\ UNCHANGED <<jobs, tree, disk>>

\* The call fails, whether or not the provider took the job.
SubmitFails ==
  /\ lane.pc = "submitting"
  /\ file' = [file EXCEPT !.status = "failed"]
  /\ Ends("submit_failed")
  /\ UNCHANGED <<jobs, tree>>

-----------------------------------------------------------------------------
(* The provider, which answers with a phase and one result per item.        *)

JobEnds(j) ==
  /\ jobs[j].phase = "in_progress"
  /\ \/ jobs' = [jobs EXCEPT ![j] = [@ EXCEPT !.phase = "failed"]]
     \/ \E outcome \in [jobs[j].items -> {"completed", "invalid", "failed", "missing"}] :
          jobs' = [jobs EXCEPT ![j] = [@ EXCEPT !.phase = "completed", !.outcome =
                     [i \in Items |-> IF i \in jobs[j].items THEN outcome[i] ELSE "none"]]]
  /\ UNCHANGED <<file, lane, tree, disk>>

-----------------------------------------------------------------------------
(* Polling.  The loop looks at the signal, then at the deadline, then asks.  *)

Polling == lane.pc = "polling"

AbortSignal ==
  /\ lane.pc \in {"submitting", "polling", "collecting"} /\ lane.recovery /\ ~lane.signal
  /\ lane' = [lane EXCEPT !.signal = TRUE]
  /\ UNCHANGED <<file, jobs, tree, disk>>

DeadlinePasses ==
  /\ Polling /\ ~lane.late
  /\ lane' = [lane EXCEPT !.late = TRUE]
  /\ UNCHANGED <<file, jobs, tree, disk>>

\* Mutant: the aborted state is made anew.
PollAbortsAnew ==
  /\ Polling /\ lane.signal
  /\ file' = [makeState(lane.items) EXCEPT !.status = "aborted"]
  /\ Ends("aborted")
  /\ UNCHANGED <<jobs, tree>>

PollAborts ==
  /\ Polling /\ lane.signal
  /\ file' = [file EXCEPT !.status = "aborted"]
  /\ Ends("aborted")
  /\ UNCHANGED <<jobs, tree>>

\* Mutant: only an answer that the job is over ends the loop.
PollTimesOutAnswered ==
  /\ Polling /\ ~lane.signal /\ lane.late /\ jobs[lane.job].phase # "in_progress"
  /\ Ends("poll_timeout")
  /\ UNCHANGED <<file, jobs, tree>>

PollTimesOut ==
  /\ Polling /\ ~lane.signal /\ lane.late
  /\ Ends("poll_timeout")
  /\ UNCHANGED <<file, jobs, tree>>

Asks == Polling /\ ~lane.signal /\ ~lane.late

PollFails ==
  /\ Asks
  /\ Ends("http_error")
  /\ UNCHANGED <<file, jobs, tree>>

PollCompleted ==
  /\ Asks /\ jobs[lane.job].phase = "completed"
  /\ lane' = [lane EXCEPT !.pc = "collecting"]
  /\ UNCHANGED <<file, jobs, tree, disk>>

PollFailed ==
  /\ Asks /\ jobs[lane.job].phase = "failed"
  /\ file' = [file EXCEPT !.status = "failed"]
  /\ Ends("job_failed")
  /\ UNCHANGED <<jobs, tree>>

-----------------------------------------------------------------------------
(* Collection.                                                              *)

CollectFails ==
  /\ lane.pc = "collecting"
  /\ Ends("http_error")
  /\ UNCHANGED <<file, jobs, tree>>

\* Mutant: an item absent from the results is passed over.
RecordsPresent(j) ==
  [i \in Items |-> IF i \in lane.items /\ jobs[j].outcome[i] # "missing" THEN jobs[j].outcome[i] ELSE "none"]

\* The lane's items, an item the results do not name being missing.
Records(j) ==
  [i \in Items |-> IF i \notin lane.items THEN "none"
                   ELSE IF i \in jobs[j].items THEN jobs[j].outcome[i] ELSE "missing"]

Incomplete(records) == \E i \in Items : records[i] \notin {"none", "completed"}

\* A lane that recovers a job only hands its results back.
Collect ==
  /\ lane.pc = "collecting"
  /\ LET records == Records(lane.job)
     IN  /\ file' = [file EXCEPT !.items = records,
                                 !.status = IF Incomplete(records) THEN "failed" ELSE "completed"]
         /\ IF Incomplete(records) THEN Ends("items_incomplete")
            ELSE IF lane.recovery THEN Ends("green")
            ELSE lane' = [lane EXCEPT !.pc = "applying"] /\ UNCHANGED disk
  /\ UNCHANGED <<jobs, tree>>

-----------------------------------------------------------------------------
(* The caller of the lane: apply, commit, verify.                           *)

\* The user works in the same tree; early is before the tree is checked again.
UserEdits ==
  /\ tree.user = "none" /\ lane.pc # "idle"
  /\ tree' = [tree EXCEPT !.user = IF lane.pc \in {"committing", "verifying", "ended"} THEN "late" ELSE "early"]
  /\ UNCHANGED <<file, jobs, lane, disk>>

\* Mutant: the tree is not checked after the poll.
ApplyUnchecked ==
  /\ lane.pc = "applying"
  /\ tree' = [tree EXCEPT !.files = Items]
  /\ lane' = [lane EXCEPT !.pc = "committing"]
  /\ UNCHANGED <<file, jobs, disk>>

\* The tree must be clean, the outputs must extract and merge, and no target may exist;
\* the files are written one after the other until one does.
Apply ==
  /\ lane.pc = "applying"
  /\ \/ tree.user # "none" /\ Ends("dirty") /\ UNCHANGED tree
     \/ tree.user = "none" /\ Ends("invalid_output") /\ UNCHANGED tree
     \/ /\ tree.user = "none"
        /\ \E written \in SUBSET Items :
             /\ tree' = [tree EXCEPT !.files = written]
             /\ IF written = Items THEN lane' = [lane EXCEPT !.pc = "committing"] /\ UNCHANGED disk
                ELSE Ends("existing_file")
  /\ UNCHANGED <<file, jobs>>

\* jj commit takes whatever the tree holds.
Commit ==
  /\ lane.pc = "committing"
  /\ \/ Ends("commit_failed") /\ UNCHANGED tree
     \/ /\ tree' = [user |-> "none", files |-> {}, committed |-> tree.files, swept |-> tree.user]
        /\ lane' = [lane EXCEPT !.pc = "verifying"]
        /\ UNCHANGED disk
  /\ UNCHANGED <<file, jobs>>

\* The verdict decides success, not whether the run is recorded.
Verify ==
  /\ lane.pc = "verifying"
  /\ lane' = [lane EXCEPT !.pc = "ended", !.code = "green"]
  /\ writeManifest
  /\ UNCHANGED <<file, jobs, tree>>

\* The process that runs the lane is lost.
LaneLost ==
  /\ lane' = Idle
  /\ UNCHANGED <<file, jobs, tree, disk>>

LaneStep ==
  \/ Submitted \/ SubmitFails \/ PollAborts \/ PollTimesOut \/ PollFails \/ PollCompleted \/ PollFailed
  \/ CollectFails \/ Collect \/ Apply \/ Commit \/ Verify
LaneEnv == Accept \/ AbortSignal \/ DeadlinePasses \/ UserEdits \/ \E j \in DOMAIN jobs : JobEnds(j)

-----------------------------------------------------------------------------
\* "An aborted or timed-out run leaves the job id in the state file so polling can resume":
\* from the first poll on the file names the job, and so it does after every error but
\* that of the submission or one before it; a lane lost at any of these points can be resumed.
HandleKept ==
  lane.pc \notin {"idle", "submitting", "resuming"} /\ lane.code \notin {"refused", "submit_failed"} =>
    file.job = lane.job /\ lane.job \in DOMAIN jobs

\* Nothing is committed, and no lane ends well, unless every item of the spec was answered
\* and its answer kept its contract in the one job the file names.
GreenIsComplete ==
  LET completed(j) == {i \in Items : jobs[j].outcome[i] = "completed"}
  IN  /\ lane.code = "green" => lane.items \subseteq completed(lane.job)
      /\ tree.committed # {} => \E j \in DOMAIN jobs : completed(j) = Items

\* "User work-in-progress started during that window must never be swept into the batch
\* commit"; what is typed between the check and the commit is.
PollDirtNotSwept == tree.swept # "early"

\* "No new submission, so no double-spend", and a resubmission carries "only the given
\* failed" items: no item is submitted again once its answer was collected as completed.
NoDoubleSpend ==
  [][\A i \in Items : (\E j \in DOMAIN jobs : jobs[j].outcome[i] = "completed" /\ file.job = j) =>
       ~(Len(jobs') > Len(jobs) /\ i \in jobs'[Len(jobs')].items)]_laneVars
=============================================================================
