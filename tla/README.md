# A TLA+ verification of pi-task

pi-task delegates coding tasks to agent sessions, and does so twice. The first
engine is an extension of the pi agent (`extensions/task`, "v1" below): worker
subprocesses, detached runs, a batch lane, state in files. The second
(`packages/core-v2`) keeps every decision in a SQLite ledger so that a process
can be lost at any point and another one can carry on. This directory holds the
TLA+ models of both engines, the TLC configurations that check them on small
instances, and TLAPS proofs of what holds for every value of the constants.

All line numbers below are those of the sources the modules were written from.

## 1. Inventory

### 1.1 Parts of the system

| Part | State it keeps | Operations | What makes it correct |
|---|---|---|---|
| Ledger (`ledger/store.ts`) | tasks, workspaces, sessions, child preparation ownership, edges, continuations, manifests, terminal outboxes, recovery rows, each status in a base column and an optional override row | one method per transition, each one SQLite transaction; two boot reconciliations | a status is decided once; an outcome, once linked, is never replaced or hidden; two callers never both win a transition |
| Recovery ledger (in `ledger/store.ts`) | one row per failed run, its successor, its continuation body | create, claim, block, delete, clean up, prune; three of them also asynchronously | one successor per failure; nothing claimed or blocked becomes resumable again |
| Sequential daemon (`daemon/sequential.ts`, `cli.ts`) | nothing but locals; everything durable is in the ledger, the artifact directory and the provider's workspace | prepare a parent-to-child edge, resume it, settle it, deliver its artifacts | neither session is repeated where it must not be; no crash strands the edge |
| Boot (`daemon/start.ts`, `child-reconciliation.ts`) | none | validate edges, reclassify them, requeue crashed tasks | takes no live or recoverable edge away |
| Parallel and task runners (`daemon/parallel.ts`, `task-runner.ts`) | tasks of one run, their sessions and commits | provision, run, finalize, judge, integrate, verify, accept or recover, deliver | nothing is accepted that is not whole and verified; rows agree with the receipt, whatever fails |
| Sessions (`sessions/host.ts`, `tools.ts`) | the SDK session, the captured yield, the checklist | prompt, abort, close | one yield, announced before the settle |
| Watchdogs (`guards/*`) | start, last activity, tools in flight, nudge and terminal latches | on event, on tick | a hung session is ended in bounded time; one abort; a late event changes nothing |
| Workflow (`workflow/*`) | the DAG, the pending, completed, failed and skipped sets | synthesize, schedule in chunks | each node once, after its dependencies, never after a failed one |
| Gateway, surfaces, plugins | subscriptions; the list of hooks | emit, subscribe, approve | a throwing handler disturbs nobody |
| Context (`context/*`, `continuation/*`) | content-addressed artifacts and continuation records | store, publish, compile, retrieve | a published record names artifacts that exist |
| Workspaces (`workspaces/*`) | jj workspaces and the revision each holds; the post-mortem's stack | create, snapshot, squash, stack, forget, clean up | recorded work is never left only in a workspace that is gone |
| Verification (`verify/*`) | the commands of a suite, its clock | run a command, limit it, end | a pass means every command ran, within the wall and its grace |
| v1 worker (`extensions/task/worker.ts`) | one subprocess, its tool stack, its timers, its requests; the retry facade | spawn, read a line, abort, escalate, retry | a worker that hangs is ended in bounded time, and nobody is told before it is gone |
| v1 orchestrator (`orchestrator.ts`, `workspace.ts`) | one working copy or several workspaces; verdicts, review, fixes | run one worker, several, or a batch; verify, review, merge, recover | a success was verified and reviewed in the state it ends with; partial work is not merged |
| v1 batch lane (`batch.ts`) | the job-state file of a run | submit, poll, collect, resume, resubmit | the job can be found again from the file; nothing incomplete is committed |
| v1 detached runs (`index.ts`, `runner.ts`) | the files of a run id | dispatch, heartbeat, result or failure, read | a reader is told how a run ended, and answers go forward from one read to the next |
| v1 scheduler (`scheduler.ts`) | a timetable in a file | due, spawn, record | a due task is started once |

### 1.2 How the parts interact

The CLI boots the daemon (edge validation, edge reconciliation, generic
reconciliation), then runs the sequential program; the program calls the ledger
one method at a time, the provider between two of them, and the runner for a
session. Nothing locks the ledger between two calls: two processes interleave
at every call. SQLite makes each method atomic, and only that.

`runParallelTask` is the runner under all of them: it writes its rows, has the
driver make a workspace per worker, hosts the sessions under the watchdogs,
squashes what healthy workers left into the base, materializes it, has the
verification runner decide, and marks the rows; on any failure it asks the
post-mortem to stack what the workers had committed. A standalone task of the
CLI is such a run with one worker, followed by the delivery of its receipt and trace.

In v1 the task tool writes a request and spawns a child process; the child
heartbeats, executes the task by one of three routes (one worker, several, the
batch lane), and leaves a manifest or a failure file. Whoever asks later, the
same process or another, has only the files.

### 1.3 What is hard

* A status has two homes. `store.ts` reads the override row first and the base
  column second, and some methods compare the one, some the other.
* A process may be lost between any two calls, and what finds the edge next is a
  boot that may or may not have the artifacts, followed by a command of the
  operator's choice: resume, submit again, or something else.
* The outcome of the child is written several times over (outbox, evidence
  files, settlement, workspace, three delivery steps), and each write can fail.
* Losers of a race decide from what they read before the race.
* A run's outcome lives in four places at once: its rows, the base, the workspaces and
  the artifacts. Every one of some ten calls between the first session and the last
  row can throw, and each has a recovery of its own.
* In v1 a worker is a process that may be slow to die: a timeout, a signal, a
  late yield and the exit race, and a retry must not start over a live one.
* In v1 nothing but the files outlives a killed child.

`PROJECT.json` lists these as hazards, each at its line, with the properties
that would notice.

## 2. Modules

| Module | What it is |
|---|---|
| `ChildEdge` | the abstract edge: what a parent-to-child edge promises, with no tables and no processes |
| `ChildLedger` | the tables of one edge and every ledger method that changes them, each an action; `LedgerSpec` lets any caller call any method the daemon uses at any time |
| `ChildLedgerProofs` | TLAPS: the inductive invariant of `ChildLedger`, its safety and action properties and the refinement of `ChildEdge` |
| `SequentialDaemon` | the processes: EXTENDS `ChildLedger` and calls its actions from a program counter, with crashes, faults and an operator |
| `SequentialDaemonProofs` | TLAPS: every step of every process is a step of `LedgerSpec`; the parent runs once, and the rest of what `sequential_restarts` checks of safety |
| `RecoveryLedger` | the standalone recovery rows, their continuation bodies and the calls on them, synchronous and asynchronous |
| `RecoveryProofs` | TLAPS: its inductive invariant, lineages, permissions, successors, bodies |
| `WorkflowDag` | the parts of a workflow's synthesis: what is at fault, the roots, what a node releases |
| `WorkflowScheduler` | one build: synthesis, then passes of skips and chunks; EXTENDS `WorkflowDag` |
| `WorkflowRun` | the abstract build: what a build promises node by node |
| `WorkflowProofs` | TLAPS: its inductive invariant, Kahn's algorithm, and the refinement of `WorkflowRun` |
| `SessionGroup` | the agent sessions of a parallel run: host, watchdog driver and runner over an agent that may hang |
| `SessionGroupProofs` | TLAPS: hangs are bounded, silence is silence, a yield is heard |
| `JjWorkspaces` | the workspaces of one run and where each worker's content is; every call of the driver and of the post-mortem an action |
| `VerificationRun` | one suite under its wall, grace and command limits |
| `TaskRun` | one `runParallelTask` from its rows to its receipt, with delivery and the next boot; EXTENDS the two above |
| `TaskRunProofs` | TLAPS: types, what acceptance and completion mean, and that recorded work is kept |
| `WorkerProcess` | v1: one worker subprocess, its watchdogs, its kill escalation and the retry facade |
| `WorkerProcessProofs` | TLAPS: hangs are bounded, results wait for the exit, the signal ends the retries |
| `RunFiles` | v1: the files of one run id and the status read from them |
| `BatchLane`, `SingleTask`, `ParallelTask` | v1: the three routes of a task, each EXTENDS `RunFiles` |
| `DetachedRun` | v1: dispatch, child process and later readers; EXTENDS the three routes |
| `DetachedRunProofs` | TLAPS: what each route calls a success, what is never merged or swept, and what a reader is told |
| `MC*` | the instances TLC checks |

### 2.1 ChildLedger

One record per table: `owner` (child_preparation_ownership), `edge`
(task_edges and its override), `cont` (workspace_continuations and its
override), `cfg` (the revision named by sequential_edge_configs), `prep` (the completed
preparation), `outbox` (the terminal settlement with its acknowledgements),
`ws` (workspaces) and `task` (the parent's and the child's rows). `Effective`
is the override-then-base reading of `getTaskEdge`. An action is enabled where
the method changes something; where it throws or returns early it is not, and
`SequentialDaemon` says what its caller then does. Identities and hashes are
abstracted to what the code compares: the identity of the one edge is fixed, a
manifest is the revision it names, evidence is the session run it came from.

### 2.2 SequentialDaemon

Each process has a program counter and the locals that the source keeps across
calls. A label is the point before one ledger method, one provider call or one
artifact write, so every interleaving of two processes at call granularity is a
behaviour. `Crash` loses a process with its locals at any label. A failing
provider, artifact, session or delivery call is the second disjunct of its
action and counts as a fault. `ReadOutbox` and `ValidateEdges` are one step where the code reads more
than once before it writes (sequential.ts:607 and 650, and the validation at boot): with one
process nothing comes in between, and the run with two (`losers_block_winner`) needs only one behaviour.
`Invoke` is the operator: `submit` (the parent and
child specs), `resume` (the edge), `other` (any invocation that boots the daemon).

### 2.3 RecoveryLedger

`row` is a run's standalone_recovery row with its override (`base`, `over`),
its permission to resume, its blocker, its successor and its expiry; `bodies` is
the set of runs whose continuation body exists (the continuation record and
the workspace state count as one); `call` is the asynchronous call a process has
in flight. A synchronous method is one action, the removal of its body
included. `deleteRecoveryRecordBodyAsync`, `cleanupOnSuccessAsync` and
`pruneExpiredRecoveriesAsync` are a `Begin...`, an action that removes a body
and an `End...`, because they await a file removal between reading and writing.
`Latest` is where following successors ends, as `resolveToLatestFailed` returns it:
the end of the least set that contains the run and follows successors (`Lineage`).

These methods are the public surface of `docs/adr/m5.5-linear-recovery.md`; nothing under
src calls them yet, so the module lets any caller call any of them. The
phases "failed" and "completed" of the schema are written by no method and left
out. A failing removal, which the code ignores, leaves a file nothing refers to and
is left out with it.

### 2.4 WorkflowDag, WorkflowScheduler, WorkflowRun

`synthesizeDag` is the start, the iterations and the end of its loop: `Synthesize` validates
the nodes and queues the roots, `Drain` moves the head of the queue to the order, and
`EndSynthesis` compares the lengths. Nothing runs in between; the steps are apart so that the
loop has an invariant. Kahn's in-degree count is
expressed by what it counts: a dependent is `Released` when its last missing
dependency joins the order. Dependencies are without repetition, and what is
queued together is listed in input order (`Listings`). `scheduleDag` is the phases of a build: `Skip` is one iteration of
the synchronous pass that fails the dependents of failed nodes, `StartChunk`
takes the first ready nodes in synthesized order, `NodeEnds` is the executor's
answer for one of them, in any order, and `Judge` applies the verdicts of the
chunk together. The requested parallelism is counted in halves, because the code
floors it after testing it. `MaxFanOut` is two in the instance and eight in the
code. The scheduler's last branch, which gives up pending nodes that are
neither ready nor blocked, is left out: there are none (`AlwaysProgress`). Also left out: the refusal of duplicate ids, since nodes are a set, and the
approval gate, one read before anything starts.

### 2.5 SessionGroup

Each worker is `agent` (the SDK's session, external: it may turn, run tools,
yield, settle or hang as it likes, and settles once it is interrupted), `prompt` (the call the
runner waits for, with the host's own limit), `dog` (the watchdog driver's
fields under their own names), `obs` (what the runner keeps of the events and of
the watchdog's action) and `result` (the captured yield). A step is one callback of
the event loop with everything it calls: an event goes to the runner's listener
and to the driver, whose abort goes on to the session and back to the runner
(`Become`). `Settle` is the host's forwarding of `agent_settled`: yield first,
then settle, then the driver's nudge, which begins another run with a limit of its
own (`NudgeTimesOut`). `Collect` and `Judge` are the runner after all prompts
have settled. `observe` is the settlement lane (`settledAction: "observe"`).

The driver's map of tool calls is a set of them with their starts (`InFlight`): the calls are in
the map in the order they started, so the first overdue one is the oldest. Timers are served before the clock moves. The event an interrupted or refused
nudge ends with is folded into the settle it follows. The early return for a retained
sequential child that was interrupted (parallel.ts:797-828) fails every worker and
belongs to `SequentialDaemon`'s `preserve`.

### 2.6 JjWorkspaces, VerificationRun, TaskRun

A worker's content is `edits` (on disk only), `at` (the working-copy commit:
empty, an undescribed snapshot, or described content) and `commits` (its chain);
`base` and `stack` are the workers whose content the integration base or the
post-mortem's stack holds. `Faults` names the calls that may fail, and an action
that models a call has a disjunct for each point it may fail at: `finalizeWorkspace` fails
before its snapshot, before it describes, before the commit or after it.

`suite` is what `runVerification` keeps. A command may start as long as the wall
has not passed, and may then use the grace besides; its limit is the smaller of its
own and of what is left. Only a suite whose commands all ran can pass.

`TaskRun` is a program counter over the awaits of `runParallelTask`. `kind` tells the
three uses apart: the CLI's standalone task (whose one worker has the run's own
row, `RowOf`), several workers integrated into a base, and feature-branch mode, which has no base:
workers are neither finalized nor integrated, they get bookmarks. `Recover` is the
common beginning of all failing paths and `RowsOfFailure` their end, which differs by
`cause`. `Deliver...` are the four artifact writes of `cli.ts`, and the one that takes
the receipt back. `Crash` loses the process at any label and `Boot` is the generic
reconciliation. What a session does before it ends is `SessionGroup`'s; here it yields,
settles without a yield or fails. Left out: reservations and receipts rows that are only
appended, the plugin hooks around the run, and the retained sequential child, which is
`SequentialDaemon`'s.

### 2.7 WorkerProcess

`proc` and `agent` are the subprocess (external: it speaks, starts and ends tools,
yields, settles, closes or hangs as it likes); `w` is the record of `spawnWorkerSession` with
its timers as instants; `facade` is `spawnWorkerSessionResilient`. A step is one callback of the event
loop, or one line the process writes together with what the session does on reading it.
`ToolEnded` pops the last entry whatever tool it was for, as the code does, so that
entries and tools may differ. A process that cannot be spawned settles the session
at its `error` event; a pending request is only rejected at `close`. Timers that are due are served before the clock moves. The clock restarts
with each attempt. A request is one of the session's `request` calls.

### 2.8 RunFiles, BatchLane, SingleTask, ParallelTask, DetachedRun

`disk` is the set of files of one run id. A file is written to one side and renamed, so it is
there or not. Reading a run's status is eight calls of another process: it asks for the four files
in order (`locateRun`), then parses those it found, in the same order, until one can be parsed
(`readRunStatus`); between any two calls the child may write or remove a file. `reads` holds every read that
may be under way, with what it has found so far and the best answer that was given before it began. Since readers write
nothing, they are followed all at once (`ReadsOn`), and `reads` changes only with `disk`. `statusNow` is the
answer of a read during which nothing is written. The writes of a manifest, a failure or a heartbeat
do not fail in the model. `BatchLane` has the provider's `jobs` (external), the job-state `file`, the
`lane` in progress and the `tree` it writes to, with the user working in the same
tree; `Resume` and `Resubmit` are the two commands an operator recovers a job with.
`SingleTask` counts revisions: `diff` is the one the reviewer was shown, `checked`
the state the gate ran on. `ParallelTask` keeps for each worker what it has
committed (`work`) and what it has not (`tail`), and what its checklist relay showed
last, because that is what `classifyWorkerFailures` decides from. A merge may leave any worker's
commits out of the squash; `run.expected` is the workers that add a file which no other adds: only their absence
can be noticed by `assertMerged`, which looks for paths, neither for commits nor for contents. `DetachedRun` puts a child process
around one of the routes, which may be unable to start the task (`ChildRefuses`) or be killed at any point; after
that only `Recovery` and the next dispatch act.

## 3. What is checked

| Run | Instance | Shows |
|---|---|---|
| `ledger_api` | 3 runner statuses, 2 runs | under any sequence of calls the tables agree with each other and implement `ChildEdge` |
| `sequential_restarts` | one process, 2 crashes, 2 faults, resubmission off | the parent runs once, the outbox stays recoverable, the workspace outlives what recovers it, the manifest matches the continuation, the deliveries keep their order, no session is opened under an installed outbox; with repeated commands every reservation is decided and every outbox delivered |
| `recovery_api` | 3 runs, 1 caller with an asynchronous call, 2 instants | successors are unique, lineages end, nothing is reopened, and what a claim would be granted on has its body |
| `workflow` | all graphs over 4 nodes with up to 2 dependencies each, and 625 more with unknown or too many dependencies; 1 or 2 nodes at a time | refusals are right, dependencies come first, and the build implements `WorkflowRun` and ends |
| `session_group` | 1 worker, 2 tools, limits of 2 to 6 ticks of the clock, 2 turns | hangs are bounded, a working session is not taken for a silent one, a yield is heard, the run ends |
| `task_run` | 1 or 2 workers in each of the three modes, 2 commands, every fault but a failing listing | what is accepted is whole and verified, recorded work is kept, every run ends with rows that agree with its receipt |
| `worker_process` | 2 tools, one of which verifies; 1 retry; 6 ticks | hangs are bounded, no result and no further attempt before the process is gone, the signal ends the retries, every run settles |
| `detached_run` | 2 items, 2 submissions, 2 commands, 1 fix, 2 workers | the batch handle is kept, nothing incomplete or unreviewed is green, no read gives an earlier answer than one before it (with the exception that section 5 explains), an ended child is decided, and so is every run whose child starts its task and is not killed |

Four further runs are expected to violate their property. Each is a sentence of
the sources that the code does not keep; section 5 explains them.

### Bounds

* Daemon. `Runs` bounds the sessions ever started: more than the crashes and faults of
  the run can start. `MaxRev` is three in `sequential_restarts`, so that there is an earlier, a
  current and a later revision. One edge is enough: no method of the ledger reads a second edge to
  change a first, except the boot loops, which treat each edge by itself. `MaxCrashes` and
  `MaxFaults` of two let the recovery from a failure fail again.
* Recovery. Three runs make a lineage with a middle; one asynchronous caller besides
  any number of synchronous calls meets every pair of overlapping operations of
  which one awaits. Two instants tell expired from not expired.
* Workflow. Four nodes contain the diamond, chains, two components and every
  cycle with a tail; a fan-out of two is reached and exceeded.
* Sessions. The wall is six ticks, the window two, the tool limit ends
  between ticks, a prompt's limit ends before the wall, and a nudge's
  limit can end before and after it. The clock stops two instants after the
  wall, when nothing is left to fire. One worker suffices: workers only meet in `Collect`,
  and with one worker it may still come arbitrarily late.
* Task run. Two workers are the least that can conflict and disagree; a third adds a
  member to sets that are only asked whether they are empty, equal or contain a worker. A wall of
  two ticks, a command limit of two and a grace of one let a suite end before its second command,
  and let a command live on the grace. `listing` is left out of the faults because the
  property does not hold with it (section 5).
* Worker. Each limit is one or two ticks, so that each timer can fire before and
  after each other one; the clock ends at six, after the wall (3), the grace (1)
  and the kill delay (1). One retry tells a first attempt from a last one.
* Detached run. Two items make a job complete, partial and wrong; the second submission is
  the resubmission. Two commands tell "all" from "one", one fix reaches the limit of the
  loop.

Deadlock is not checked where the system may have nothing left to do:
`CHECK_DEADLOCK FALSE` in the cfgs stands for the end of the work (or, in
`SessionGroup`, `WorkerProcess` and `RecoveryLedger`, of the clock).

### Fairness

* `SequentialDaemon`: a process that is not lost keeps taking steps, since the
  program has no wait other than for sessions and provider calls, and those end
  by their own timers; and the operator keeps repeating the commands (strong
  fairness of `Invoke`, since each process is busy again and again): the edge has
  no background driver, `cli.ts` only acts when it is run. Crashes and faults are
  bounded, which is the usual reading of "eventually no failure".
* `WorkflowScheduler`: weak fairness of the whole next step. The loop waits for
  nothing but the executor, whose sessions end by their own timers.
* `SessionGroup`: the clock goes on, due timers fire, promises that may settle do,
  and an agent that was interrupted settles (the SDK's `abort`). Nothing is assumed
  of an agent that was not: its turns, tools and settles have no fairness, which is what
  makes `RunEnds` say something about the watchdogs.
* `TaskRun`: calls into jj, the environment and the file system return, one way or the
  other; a suite's clock goes on; sessions end (that is `RunEnds`); and somebody starts
  the program again after it was lost. A crash is never required.
* `WorkerProcess`: timers fire, a process that was started comes up or fails, and one that was
  killed closes. Nothing is assumed of the agent: `RunSettles` holds for one that never ends.
* `DetachedRun`: a session ends (`WorkerProcess`), the clock passes the deadline of the
  batch job, requests and commands return, and the code goes on. Nothing makes the
  provider's job end.

## 4. What is proved

`ChildLedgerProofs` proves, for any set of runner statuses, runs and revisions
that meet the assumptions of `ChildLedger`, that `LedgerSpec` implies each of the
properties of `ledger_api`. The argument is one inductive invariant, `IInv`: the
type invariant with the shape of the outbox (pending or linked exactly when it
has a status and evidence), with the two overlay rules (no override over a terminal or blocked
base; a continuation's override only over a live one), with the relation
between outbox and edge (a linked outbox fixes the effective status to
`delivery_pending` or to its own status), and with the rule that a missing edge has no
outbox. `TypeOK` alone does not suffice: `AcknowledgeChildDeliveryStep` writes the
outbox's status into the edge, and that it is a terminal one is only known from
the outbox's shape. The refinement is proved step by step from the same invariant; the
action properties follow from it one method at a time. `TerminalImmutable` is a
corollary of the refinement and has no run of its own.

`SequentialDaemonProofs` carries this to the processes. Its first result is that, whatever number of them
there are and whatever is lost, every step calls at most one method in a state in which
`LedgerSpec` allows it (`DaemonRefinesLedger`), so all of the above holds of the daemon, and it
implements `ChildEdge`. The invariant is about what a process relies on several calls after it
read it: `Ready` says which locals a label needs, `Seen` which facts about the ledger stay true
whoever writes in between (an acknowledgement, an outbox, a linked outbox, a reservation that
is past its first phase). Besides, a released workspace is under a linked outbox and a
continuation is at its manifest's revision. That the parent runs once is `ParentOnce`: a process is at the
parent's session only if it alone won the fence. Four of the theorems hold for any number of processes.
Three are about one process at a time (`OneProcess`), lost and restarted at will, because with two a boot
takes a live claim for a dead one (section 5): the child is not run again
under an outbox and boot does not requeue a task of the edge. There the invariant adds
`Single`, what the process knows of the ledger because nobody else moved it (no outbox from the manifest to the child's
outcome, its own claim around the session), and `TaskFacts` (an executing parent is under a
pending reservation, an executing child under an active edge). That the outbox stays recoverable also needs that nobody
submits over an existing edge, which the run `resubmit_strands_outbox` shows to be necessary; `Once` then
says that nothing reaches an error path of the preparation with an outbox installed.

`RecoveryProofs` goes row by row: `RowStep` lists the eight things any method may do to
one row, one lemma per group of methods shows that it does nothing else, and every
property follows from the list. The invariant adds to `TypeOK` that calls in
flight hold rows that exist and that absent rows are empty: without the first, the
end of an asynchronous call could write a row that was never created. That
lineages end is stated without recursion (every set of rows has one whose
successor lies outside it) and is kept because a new link always names a run
that has no row.
That what can be claimed has its body (`ClaimableHasBody`) needs lineages to have one end (`OneEnd`) and only to
grow (`LineageGrows`): a run that lost its body to the pruning of an earlier one remains that
one's latest member until it is itself succeeded. Added to the invariant is that what an asynchronous pruning
has still to visit is blocked (`VisitedAreBlocked`), so that a run that can be claimed is never
visited itself. A body that is removed in the same step as the permission, or by a call in flight that
will withdraw it, are the other two ways.

`WorkflowProofs` proves, for any graph, input order, fan-out and parallelism, that
the sets stay typed and disjoint, that dependencies come first, that events follow
one lifecycle, and that the scheduler implements `WorkflowRun`. None of this uses what
synthesis computes: the order only decides who goes first. That a workflow is refused exactly when it cannot
run (`RefusedIffFaulty`) is the correctness of Kahn's algorithm. While the queue drains, order and
queue list, once each, the nodes whose dependencies are all in the order (`Draining`), so the nodes that
never joined each wait for another of them; and no set with a node of the order is circular, because its
first node to join waits for none of the others. The lengths tell the two
apart because nothing is listed twice. A cycle is stated as a set of nodes that each depend on
another, or on themselves (`Circular`), which in a finite graph is the same. From it follow that every dependency precedes its
dependent in the order, and that the scheduler always has a node to start or to skip (`AlwaysProgress`): one
of the pending nodes depends on no pending one.

`SessionGroupProofs` proves, for any workers, tools and limits, the three safety properties of
`session_group`. Worker by worker and until its driver ends: the last tick found each
limit kept, the next tick is not overdue (`Timed`), and the driver has every tool of its session
in flight (`Paired`). It may have more: an interrupted prompt need not report the end of its
tools, and the nudge begins another run with them still in flight, which the driver then
takes for progress. The nudge's own limit, or the wall, bounds that run, if the host's limit is no longer than the
window or ends at most a window before the wall (`PromptLimitAssumption`). The
runner sees to that: it gives host and wall the same limit, or leaves
both at their defaults. `LimitAssumption` alone does not suffice (section 5).

`TaskRunProofs` proves, for any workers, suite, limits and faults, that what is
accepted has every worker's work in the base under a suite that passed in full
within its wall and grace, that a run with a base completes only when accepted, and
a standalone one only when both artifacts say so. The invariant says what has been established
by each label: `SuiteBounded` bounds a running command's limit, `LabelsTell` ties labels to
the kind of the run and to acceptance, `Integration` follows a worker's content from
its finalization (nothing only on disk) to the squash (nothing left outside the base), and
`CompletedIsDelivered` follows the delivery. `RecordedWorkIsKept` assumes that the listing
of a chain does not fail, and adds `Kept`: workspaces are live until the run decides, and
what the post-mortem is going to forget holds nothing recorded. All other faults may happen,
any number of times, the loss of the process included.

`WorkerProcessProofs` proves, for any tools, limits and intervals, the three safety
properties of `worker_process`. What bounds a hang is not what the timers look at: they look at
the oldest entry, and entries are popped whatever tool they were for. The invariant is that there
are as many entries as tools in flight and that the oldest entry is no younger than any tool
(popping the newest entry can only make the remaining ones older than the tools they stand for), that no timer is
overdue, and that the last check of each timer was within its interval. A failed session is an aborted
one; a result is only taken from a process that is dead.

`DetachedRunProofs` proves, for any items, commands, fixes and workers, all safety properties of
`detached_run`. Each route has its invariant (`SingleInv`, `ParallelInv`, `BatchInv`) and a
`...Tells` that says how much of the shared files one of its steps may change; `ChildInv` ties
the files to the child. The properties themselves are not inductive. That a reviewed run ships what the
reviewer saw needs the diff to be of the current revision from the yield to the review, and the gate's tree to be
the one under review; that nothing partial is merged needs every session to have ended, and
the unfinished ones to be known, from the merge on; that a batch commit is complete needs each job's
phase and answers to be final once it completed, and the second lane of a recovery to stay away from the tree.
`EndedIsDecided` needs that a manifest is there exactly when the task
returned a result, since the code writes no failure over a manifest. One fact, `FilesGrow`, is shown of every step of
every route and of the child: records are only added, and the heartbeat goes only when an end
is on record. `StatusForward` rests on it: `ReadsInv` says of each read under way that what it found is still there, the
heartbeat apart; that what an earlier answer told of was either found, is still to be asked for, or was passed over
for a later record; and that a read that missed the heartbeat leaves an end on record. That a green parallel run
holds what it should (`GreenIsIntegrated`) says no more than `assertMerged` can establish.

Proved besides, without a run of their own: that each invariant's types hold
(`TypeCorrect`), that an installed outbox and a recorded acceptance never
change (`OutboxIsImmutable`, `AcceptanceIsDurable`), that terminal rows stay
(`TerminalRowsAreImmutable`), that three acknowledgements leave a terminal edge
(`DeliveryCommits`), that a permission to resume is only on a failed run
(`AllowedAlwaysResumable`), and that a node's events follow one lifecycle (`OneLifecycle`).

Proved besides of the workflow: `DependenciesPrecede` and `AlwaysProgress`. Only model-checked is
liveness, since fairness and ENABLED are beyond the prover: `EdgeDecided`, `OutboxDelivered`,
`BuildEnds`, `RunEnds`, `RunDecided`, `RunSettles`, `RunDecides`; and that there is a listing of any set in
input order, so that `Synthesize` and `Drain` can always take their step, which `BuildEnds` shows.

## 5. Findings

* `resubmit_strands_outbox`: submitting again, instead of resuming, after a crash
  between the outbox and its settlement blocks the edge, after which the outbox
  can be neither settled nor delivered.
* `losers_block_winner`: a concurrent caller that reserved before the winner and
  looks for the parent's session after it takes the winner for an earlier,
  dead process and blocks its preparation.
* `unfinished_merge_throws`: a v1 parallel run whose unfinished workers were merged and whose
  gate passed ends in a TypeError, where its comment promises a success with a caveat.
* `silent_worker_merged`: a failed v1 worker that never showed progress is left
  out of the classification, and its work is merged when another failed one had ticked everything.

Seen while modelling, and not kept as runs:

* `markChildResumable` (store.ts:1640) compares the base column alone and could
  reopen a delivered edge; it has no caller.
* Blocking an edge (store.ts:1660) leaves the continuation's override in place,
  so the continuation of a blocked edge still reads as resumable; the boot
  path (1988) deletes it.
* Two failed runs may name the same successor (store.ts:2141), which joins their
  lineages, while the decision record says "a retry is a line".
* A losing claim on an expired, already claimed row still rewrites it, because
  expiry is tested before the phase (store.ts:2131).
* A requested parallelism between 0 and 1 is floored to 0 after it has been found
  positive (scheduler.ts:52): the loop takes empty chunks for ever. With
  `Requests = {1}` TLC finds `BuildEnds` violated.
* The path a cyclic workflow is refused with need not be a cycle (dag.ts:140): the walk
  starts at the first node that has a dependency and follows first
  dependencies. With n3 depending on n1 and on itself it reports n3 → n1.
* The driver's map of tools in flight is not cleared when a prompt's limit interrupts a session
  (watchdog-driver.ts:201 only drops what is reported as ended). With limits the runner does not set, a nudged run
  that hangs then passes for one in a tool: with a host limit of 5, a window of 1, a tool limit of 9 and a wall of
  20, TLC finds `HangsBounded` violated.
* The runner does not wait for the answer to a nudge: the prompt it waits for ends
  with the first settle, and the session is closed once all have.
* A second process's boot reclassifies a live claim (`start.ts`), and can lead to a second child
  session under an installed outbox. The check needs two processes and a resubmission.
* The asynchronous prune reads a pruned run's status after the rows are committed
  (store.ts:2324) and removes the body of the lineage's latest member, which may be live:
  `PruneTakesItsBody` does not hold.
* The watchdogs of a parallel run are disposed of together, so a worker that has
  yielded can be aborted as silent, and then failed, while another one still works.
* In feature-branch mode workers are never finalized (parallel.ts:835) and the bookmark is
  at the parent of the working-copy commit, so work that a shipped worker did not commit
  itself goes with its workspace: `BranchHoldsWork` does not hold. A failed worker also leaves
  its siblings completed under a failed parent.
* When the listing of a chain fails, the post-mortem takes the chain for empty and
  forgets a workspace that holds content (failure-hygiene.ts:439). With `listing` among
  the faults TLC finds `WorkIsKept` violated.
* A worker whose finalization fails before its snapshot has its edits on disk only, and
  the post-mortem may forget that workspace, whose chain is empty.
* An integrated worker's row says completed before the combination and the gates (parallel.ts:940; the
  comment at 1139 says that rows follow the gate); a process lost in between leaves it so.
* Exceptions of provisioning, of the bookmarks and of the clean-up escape `runParallelTask` and leave the rows
  executing or verifying; the next boot queues them again, in the second case although the run
  was accepted and integrated.
* A process lost between the combination and the materialization leaves the user's working copy at
  a described commit with content, which later dispatches refuse.
* When the terminal trace cannot be written and the receipt cannot be taken back either,
  or the process dies in between, a shipped receipt stays without a shipped trace. Nothing
  replays a standalone task that is left `delivery_pending`.
* The verification runner's hard timeout is one SIGTERM (verify/run.ts:73-115).
* The grace of a v1 worker does not let it yield: the yield is a tool that verifies nothing, and ends the grace
  in a failure (`GraceLetsYield` does not hold).
* The facade's `abort` during a backoff does not end the retries (`AbortStopsRetries` does not hold); the
  caller's signal does.
* A resumed batch job records the items of the whole spec as missing when the job was a
  resubmission of some, so an item already answered can be submitted again (`NoDoubleSpend` does not hold).
* The caller of the batch lane passes no run id to the failure artifact, which lands under another (`FailureHasHandle`
  does not hold). A child lost between the submission and the first state write leaves a job
  nobody has the id of (batch.ts:973).
* The next dispatch may sweep what a successful single run left uncommitted (`SuccessIsNotSwept` does not hold).
* The directories of workspaces that were kept for recovery are removed all the same
  (orchestrator.ts:3318), and a squash that landed counts as not merged when a check after it fails.
* A reader that looks while the child ends may find no manifest yet, find the heartbeat, and no longer find it when
  it parses: it answers "starting" (runner.ts:424) of a run that was seen running. The next read tells the end.
  `StatusForward` excepts this one case, and is violated without the exception.
* `assertMerged` (workspace.ts:775) looks for the paths of added and modified files in the merged base. Commits left out of
  the squash that only modify or delete files that are there anyway pass it, while its comment (741) and
  the orchestrator's speak of every worker's work.
* The v1 scheduler writes its state after all due tasks were spawned, and a child that fails
  before its first heartbeat leaves a run that reads as starting.

## 6. Not modelled, and the plan

Not modelled and not planned: prompt text, schemas, rendering, metrics, benchmarks, the
command lines of jj and mise, the router's table, the tests. `PROJECT.json` gives each part's reason.

Modelled in part: `task-runner.ts`, whose single lane repeats the standalone one's calls;
the single run's post-mortem and the sweep of stray changes, which look at a repository
rather than at a run; the v1 worker's line protocol and progress view; the age limit of a
heartbeat.

Not modelled yet, in the order in which they would be taken up:

1. `ContextStore`: publication order of artifacts and the records that name them.
2. `Gateway`: subscriptions, approval round trips, handlers that throw.
3. The v1 scheduler's timetable and state file around `DetachedRun`.
