-------------------------------- MODULE DetachedRun --------------------------------
(***************************************************************************)
(* A run dispatched by the task tool (index.ts, scheduler.ts) to a child      *)
(* process (runner.ts) that executes the task and leaves its result in the    *)
(* files of the run id, from which a later reader tells how the run stands.   *)
(* The child executes one of BatchLane, SingleTask and ParallelTask.          *)
(***************************************************************************)
EXTENDS BatchLane, SingleTask, ParallelTask

VARIABLES child,  \* the child process, and the route executeTask takes in it
          reads   \* every read of the status that may be under way

detachedVars == <<file, jobs, lane, tree, single, workerVars, run, disk, child>>
taskVars == <<file, jobs, lane, tree, single, workerVars, run>>

DetachedInit ==
  /\ LaneInit /\ SingleInit /\ ParallelInit
  /\ disk = NoFiles
  /\ child = [pc |-> "none", route |-> "none"]
  /\ reads = ReadsOn({}, NoFiles)

Child(label) == child.pc = label
Gone == child.pc \in {"returned", "ended", "refused", "dead"}
Goes(label) == child' = [child EXCEPT !.pc = label]

-----------------------------------------------------------------------------
(* The dispatch.                                                            *)

\* writeRunRequest, then spawn, which may fail at once: the request is dropped.
Dispatch ==
  /\ Child("none")
  /\ \/ /\ Goes("spawned")
        /\ disk' = [disk EXCEPT !.request = TRUE]
     \/ /\ Goes("ended")
        /\ UNCHANGED disk
  /\ UNCHANGED taskVars

\* The child process emits an error: the dispatcher records the failure.
SpawnError ==
  /\ Child("spawned")
  /\ Goes("ended")
  /\ writeFailureArtifact("worker")
  /\ UNCHANGED taskVars

\* runChild: the request is read, the first heartbeat written, and executeTask routes.
ChildUp ==
  /\ Child("spawned")
  /\ \E route \in {"batch", "single", "parallel"} : child' = [pc |-> "up", route |-> route]
  /\ disk' = [disk EXCEPT !.live = TRUE]
  /\ UNCHANGED taskVars

\* Or the request cannot be read, or a module cannot be loaded: the child exits at once.
ChildRefuses ==
  /\ Child("spawned")
  /\ Goes("refused")
  /\ UNCHANGED <<taskVars, disk>>

-----------------------------------------------------------------------------
(* The task.                                                                *)

BatchRuns == ((lane.pc = "idle" /\ Start) \/ LaneStep \/ LaneEnv) /\ UNCHANGED <<single, workerVars, run>>
SingleRuns == (StartSingle \/ SingleStep) /\ UNCHANGED <<laneVars, workerVars, run>>
ParallelRuns == ParallelNext /\ UNCHANGED <<laneVars, single>>

TaskRuns ==
  /\ Child("up")
  /\ \/ child.route = "batch" /\ BatchRuns
     \/ child.route = "single" /\ SingleRuns
     \/ child.route = "parallel" /\ ParallelRuns
  /\ UNCHANGED child

\* What executeTask did: ended with a result, or with an error.
Over == \/ child.route = "batch" /\ lane.pc = "ended"
        \/ child.route = "single" /\ single.pc = "ended"
        \/ child.route = "parallel" /\ run.pc = "ended"
Returned == lane.code = "green" \/ single.outcome \in {"success", "failed"} \/ run.outcome \in {"success", "failed"}

\* A result: the manifest is there, the heartbeat goes.
ChildReturns ==
  /\ Child("up") /\ Over /\ Returned
  /\ Goes("returned")
  /\ disk' = [disk EXCEPT !.live = FALSE]
  /\ UNCHANGED taskVars

\* Mutant: the heartbeat goes before the failure is on record.
ChildThrowsEarly ==
  /\ Child("up") /\ Over /\ ~Returned
  /\ Goes("closing")
  /\ disk' = [disk EXCEPT !.live = FALSE]
  /\ UNCHANGED taskVars

\* Mutant: only an error of the worker itself is put on record.
ChildThrowsQuietly ==
  /\ Child("up") /\ Over /\ ~Returned
  /\ Goes("closing")
  /\ IF disk.failure = "none" /\ child.route = "single" THEN writeFailureArtifact("worker") ELSE UNCHANGED disk
  /\ UNCHANGED taskVars

\* An error: an artifact is written unless there is one, or a manifest; then the heartbeat goes.
ChildThrows ==
  /\ Child("up") /\ Over /\ ~Returned
  /\ Goes("closing")
  /\ IF disk.failure = "none" /\ ~disk.manifest THEN writeFailureArtifact("worker") ELSE UNCHANGED disk
  /\ UNCHANGED taskVars

ChildCloses ==
  /\ Child("closing")
  /\ Goes("ended")
  /\ disk' = [disk EXCEPT !.live = FALSE]
  /\ UNCHANGED taskVars

\* The process is killed, at any point.
ChildDies ==
  /\ child.pc \in {"spawned", "up", "closing"}
  /\ Goes("dead")
  /\ lane' = Idle
  /\ UNCHANGED <<file, jobs, tree, single, workerVars, run, disk>>

-----------------------------------------------------------------------------
(* Later, by hand: the job of a batch run is polled again, or what it left    *)
(* incomplete is submitted again.                                            *)
Recovery ==
  /\ child.route = "batch" /\ Gone
  /\ Resume \/ Resubmit \/ (lane.recovery /\ (LaneStep \/ LaneLost)) \/ LaneEnv
  /\ UNCHANGED <<single, workerVars, run, child>>

\* The next task of the repository.
Later == Gone /\ NextDispatch /\ UNCHANGED <<laneVars, workerVars, run, child>>

DispatchStep == Dispatch \/ SpawnError \/ ChildUp \/ ChildRefuses
ChildStep == TaskRuns \/ ChildReturns \/ ChildThrows \/ ChildCloses \/ ChildDies

\* With what each step leaves in the files, the reads go on.
DetachedNext ==
  /\ DispatchStep \/ ChildStep \/ Recovery \/ Later
  /\ reads' = IF disk' = disk THEN reads ELSE ReadsOn(reads, disk')

DetachedSpec == DetachedInit /\ [][DetachedNext]_<<detachedVars, reads>>

\* Every session ends at its watchdogs' (WorkerProcess), the clock passes the deadline of the
\* batch job, requests and commands return, and the code goes on; nothing makes a job end.
Fairness ==
  /\ WF_detachedVars(ChildUp \/ SpawnError \/ ChildRefuses) /\ WF_detachedVars(ChildReturns \/ ChildThrows) /\ WF_detachedVars(ChildCloses)
  /\ WF_detachedVars(Child("up") /\ child.route = "batch" /\ lane.pc = "idle" /\ TaskRuns)
  /\ WF_detachedVars(Child("up") /\ (Submitted \/ SubmitFails) /\ TaskRuns)
  /\ WF_detachedVars(Child("up") /\ DeadlinePasses /\ TaskRuns)
  /\ WF_detachedVars(Child("up") /\ PollTimesOut /\ TaskRuns)
  /\ WF_detachedVars(Child("up") /\ (Collect \/ CollectFails \/ Apply \/ Commit \/ Verify) /\ TaskRuns)
  /\ WF_detachedVars(Child("up") /\ (StartSingle \/ SingleStep) /\ TaskRuns)
  /\ WF_detachedVars(Child("up") /\ (StartParallel \/ RunStep) /\ TaskRuns)
  /\ \A i \in Workers : WF_detachedVars(Child("up") /\ (Yields(i) \/ Fails(i)) /\ TaskRuns)

FairDetached == DetachedSpec /\ Fairness

-----------------------------------------------------------------------------
\* What readers are told goes forward, although their calls fall between the writes of the
\* child: a read that begins after an answer gives no earlier one.  Except that a read may miss
\* the heartbeat the child removes as it ends, and say "starting" of a run that was seen
\* running: then the end is on record, for the next read to find.
StatusForward ==
  \A r \in reads :
    LET answer == readRunStatus(r, disk)
    IN  answer # "none" =>
          \/ rank(answer) >= rank(r.told)
          \/ r.told = "live" /\ answer = "starting" /\ statusNow \in {"failed", "finished"}

\* "/task-status must be able to find the failure even when the orchestrator's internal
\* best-effort writes didn't cover it": a child that is gone in order has left the failure
\* of a task that threw, and the result of one that returned.
EndedIsDecided ==
  /\ Child("ended") /\ disk.request => statusNow = "failed"
  /\ Child("returned") => statusNow = "finished"

\* Every dispatched run is decided, unless its child is killed or cannot start the task.
RunDecided ==
  [](Child("spawned") => <>(statusNow \in {"failed", "finished"} \/ Child("dead") \/ Child("refused")))

\* "The failure artifact must land under THIS id", "the failure artifact carries the
\* state-file path, the recovery handle": a batch run that failed with a typed error is
\* found with its handle.
FailureHasHandle == Child("ended") /\ disk.stray => disk.failure = "batch"
=============================================================================
