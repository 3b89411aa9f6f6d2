------------------------------ MODULE WorkerProcess ------------------------------
(***************************************************************************)
(* One worker of the extension (extensions/task/worker.ts): a subprocess    *)
(* that speaks an event stream, the watchdogs over it, the escalation that  *)
(* ends it, and the facade that starts another attempt after a failure of   *)
(* the provider's capacity.  A step is one callback of the event loop, or    *)
(* one move of the subprocess with the line it writes.  The clock restarts   *)
(* with each attempt.                                                       *)
(***************************************************************************)
EXTENDS Integers, Sequences, FiniteSets, SequencesExt

CONSTANTS Tools,     \* tool calls
          Suites,    \* those that run one of the task's verification commands
          TextArgs,  \* those whose arguments are a plain text, not an object
          Wall, Grace, Window, ToolLimit,   \* limits of the watchdogs
          SilenceCheck, ToolCheck,          \* their intervals
          KillDelay, RequestLimit,
          Retries,   \* number of backoff delays
          MaxTime    \* bound: the clock stops here, later than any timer

ASSUME LimitAssumption ==
  /\ Suites \subseteq Tools /\ TextArgs \subseteq Tools
  /\ {Wall, Grace, Window, ToolLimit, SilenceCheck, ToolCheck, KillDelay, RequestLimit} \subseteq Nat \ {0}
  /\ Retries \in Nat /\ MaxTime \in Nat

VARIABLES now,
          proc,    \* the subprocess: starting, up, killed or closed
          agent,   \* what goes on in it: [tool, start] records in flight
          w,       \* the state of spawnWorkerSession
          asked,   \* a request to the worker: none, pending, answered or rejected
          signal,  \* the caller's abort signal
          facade   \* spawnWorkerSessionResilient

vars == <<now, proc, agent, w, asked, signal, facade>>

-----------------------------------------------------------------------------
(* The session's record.                                                    *)

NoKill == 0

\* Mutant: the escalation asks whether a signal was sent, which SIGTERM has just done.
AbortGently(x) == [x EXCEPT !.aborted = TRUE]

\* abort(): an abort command, SIGTERM, and SIGKILL after a delay.
Abort(x) == [x EXCEPT !.aborted = TRUE, !.kill = IF @ = NoKill THEN now + KillDelay ELSE @]

Fail(x, code) == [Abort(x) EXCEPT !.failed = TRUE, !.code = code]

\* Arguments are summarized as text before they are compared with a command: an object
\* becomes JSON, which neither begins nor ends with it.
isVerificationCommand(t) == t \in Suites \cap TextArgs

verificationInFlight(x) == \E i \in DOMAIN x.stack : isVerificationCommand(x.stack[i].tool)

\* A tool starts; while the grace runs, one that verifies nothing ends the worker.
ToolStarted(x, t) ==
  LET b == [x EXCEPT !.last = now, !.stack = Append(@, [tool |-> t, start |-> now])]
  IN  IF b.grace /\ ~isVerificationCommand(t) THEN Fail([b EXCEPT !.grace = FALSE], "wall_timeout") ELSE b

\* A tool ends: the last entry goes, whichever tool it was for.
ToolEnded(x) == [x EXCEPT !.last = now, !.stack = IF @ = <<>> THEN @ ELSE Front(@)]

\* The agent settles: a first time without a yield is reminded, a second time fails.
AgentSettled(x) ==
  LET b == [x EXCEPT !.last = now]
  IN  IF b.aborted \/ b.failed \/ b.yielded THEN b
      ELSE IF b.nudged THEN Fail(b, "no_yield")
      ELSE [b EXCEPT !.nudged = TRUE]

Spawned == [aborted |-> FALSE, failed |-> FALSE, nudged |-> FALSE, yielded |-> FALSE, code |-> "none",
            stack |-> <<>>, last |-> 0, wall |-> TRUE, grace |-> FALSE, kill |-> NoKill,
            silenceAt |-> SilenceCheck, toolAt |-> ToolCheck]

Fresh == [busy |-> TRUE, tools |-> {}, leaving |-> FALSE]
Gone == [Fresh EXCEPT !.busy = FALSE]

Init ==
  /\ now = 0 /\ proc = "starting" /\ agent = Fresh
  /\ asked \in {"none", "pending"}
  /\ signal \in BOOLEAN
  /\ w = [Spawned EXCEPT !.aborted = signal, !.kill = IF signal THEN KillDelay ELSE NoKill]
  /\ facade = [aborted |-> FALSE, attempt |-> 0, sleeping |-> FALSE, outcome |-> "pending"]

-----------------------------------------------------------------------------
(* The facade.                                                              *)

\* An attempt fails, with a message that names a capacity condition or not.
Failed(capacity) ==
  facade' = IF facade.aborted \/ signal \/ facade.attempt >= Retries \/ ~capacity
            THEN [facade EXCEPT !.outcome = "failed"]
            ELSE [facade EXCEPT !.sleeping = TRUE]

\* Mutant: the signal is not looked at when the backoff ends.
SleepEndsBlindly ==
  /\ facade.sleeping
  /\ facade' = [facade EXCEPT !.sleeping = FALSE, !.attempt = @ + 1]
  /\ now' = 0 /\ proc' = "starting" /\ agent' = Fresh /\ w' = Spawned
  /\ asked' \in {"none", "pending"}
  /\ UNCHANGED signal

\* The backoff ends, of itself or by the signal; the next attempt is a new session.
SleepEnds ==
  /\ facade.sleeping
  /\ IF signal
     THEN /\ facade' = [facade EXCEPT !.sleeping = FALSE, !.outcome = "failed"]
          /\ UNCHANGED <<now, proc, agent, w, asked>>
     ELSE /\ facade' = [facade EXCEPT !.sleeping = FALSE, !.attempt = @ + 1]
          /\ now' = 0 /\ proc' = "starting" /\ agent' = Fresh /\ w' = Spawned
          /\ asked' \in {"none", "pending"}
  /\ UNCHANGED signal

FacadeAbort ==
  /\ ~facade.aborted /\ facade.outcome = "pending"
  /\ facade' = [facade EXCEPT !.aborted = TRUE]
  /\ w' = IF proc = "closed" THEN w ELSE Abort(w)
  /\ UNCHANGED <<now, proc, agent, asked, signal>>

\* The session listens to the signal until its process closes.
SignalAborts ==
  /\ ~signal /\ facade.outcome = "pending"
  /\ signal' = TRUE
  /\ w' = IF proc = "closed" THEN w ELSE Abort(w)
  /\ UNCHANGED <<now, proc, agent, asked, facade>>

-----------------------------------------------------------------------------
(* The subprocess.                                                          *)

Boot ==
  /\ proc = "starting" /\ proc' = "up"
  /\ UNCHANGED <<now, agent, w, asked, signal, facade>>

\* The error event settles the attempt; what was asked is rejected at the close that follows.
SpawnFails ==
  /\ proc = "starting" /\ proc' = "killed"
  /\ Failed(FALSE)
  /\ UNCHANGED <<now, agent, w, asked, signal>>

\* The first prompt cannot be written: SIGKILL at once.
PromptRefused ==
  /\ proc = "starting" /\ proc' = "killed"
  /\ Failed(FALSE)
  /\ UNCHANGED <<now, agent, w, asked, signal>>

Busy == proc = "up" /\ agent.busy
InFlight == {t.tool : t \in agent.tools}

Speak ==
  /\ Busy
  /\ w' = [w EXCEPT !.last = now]
  /\ UNCHANGED <<now, proc, agent, asked, signal, facade>>

ToolStart(t) ==
  /\ Busy /\ ~agent.leaving /\ t \notin InFlight
  /\ agent' = [agent EXCEPT !.tools = @ \cup {[tool |-> t, start |-> now]}]
  /\ w' = ToolStarted(w, t)
  /\ UNCHANGED <<now, proc, asked, signal, facade>>

ToolEnd(t) ==
  /\ proc = "up" /\ t \in agent.tools
  /\ agent' = [agent EXCEPT !.tools = @ \ {t}]
  /\ w' = ToolEnded(w)
  /\ UNCHANGED <<now, proc, asked, signal, facade>>

\* The yield tool starts and ends like any tool, and asks the session to shut down.
Yield ==
  /\ Busy /\ ~agent.leaving
  /\ agent' = [agent EXCEPT !.leaving = TRUE]
  /\ w' = [ToolEnded(ToolStarted(w, "yield")) EXCEPT !.yielded = TRUE]
  /\ UNCHANGED <<now, proc, asked, signal, facade>>

\* The reminder is a prompt, on which the agent goes on.
Settle ==
  /\ Busy /\ agent.tools = {}
  /\ w' = AgentSettled(w)
  /\ agent' = [agent EXCEPT !.busy = AgentSettled(w).nudged # w.nudged]
  /\ UNCHANGED <<now, proc, asked, signal, facade>>

Answer ==
  /\ proc = "up" /\ asked = "pending"
  /\ asked' = "answered"
  /\ w' = [w EXCEPT !.last = now]
  /\ UNCHANGED <<now, proc, agent, signal, facade>>

Unanswered == IF asked = "pending" THEN "rejected" ELSE asked

\* The process closes, of itself, by a signal or lost; an aborted session rejects even
\* if it yielded.  The message carries the end of what the process wrote to stderr.
Close(capacity) ==
  /\ proc \in {"up", "killed"} /\ proc' = "closed" /\ agent' = Gone
  /\ asked' = Unanswered
  /\ IF facade.outcome # "pending" THEN UNCHANGED facade
     ELSE IF w.yielded /\ ~w.aborted THEN facade' = [facade EXCEPT !.outcome = "ok"]
     ELSE Failed(capacity)
  /\ now' = 0 /\ w' = Spawned
  /\ UNCHANGED signal

-----------------------------------------------------------------------------
(* Timers, which the event loop serves before the clock moves on.           *)

Open == proc \in {"starting", "up"}
Live == proc = "up"

DueKill == Live /\ w.kill # NoKill /\ now >= w.kill
DueWall == Live /\ w.wall /\ now >= Wall
DueGrace == Live /\ w.grace /\ now >= Wall + Grace
DueSilence == Live /\ now >= w.silenceAt
DueTool == Live /\ now >= w.toolAt
DueRequest == asked = "pending" /\ now >= RequestLimit

Kill ==
  /\ DueKill
  /\ proc' = "killed" /\ agent' = Gone
  /\ UNCHANGED <<now, w, asked, signal, facade>>

\* Mutant: the wall rejects the result itself, and the facade goes on at once.
WallRejects ==
  /\ DueWall
  /\ w' = Fail([w EXCEPT !.wall = FALSE], "wall_timeout")
  /\ IF facade.outcome = "pending" THEN Failed(FALSE) ELSE UNCHANGED facade
  /\ UNCHANGED <<now, proc, agent, asked, signal>>

\* The wall grants a grace to a suite in flight; else it fails the worker, also one that
\* has already failed or was aborted.
WallExpires ==
  /\ DueWall
  /\ LET x == [w EXCEPT !.wall = FALSE]
     IN  w' = IF verificationInFlight(x) THEN [x EXCEPT !.grace = TRUE] ELSE Fail(x, "wall_timeout")
  /\ UNCHANGED <<now, proc, agent, asked, signal, facade>>

GraceExhausted ==
  /\ DueGrace
  /\ w' = Fail([w EXCEPT !.grace = FALSE], "wall_timeout")
  /\ UNCHANGED <<now, proc, agent, asked, signal, facade>>

Watching(x) == ~x.aborted /\ ~x.failed

Silent(x) == x.stack = <<>> /\ now - x.last >= Window

CheckSilence ==
  /\ DueSilence
  /\ LET x == [w EXCEPT !.silenceAt = @ + SilenceCheck]
     IN  w' = IF Watching(x) /\ Silent(x) THEN Fail(x, "no_progress") ELSE x
  /\ UNCHANGED <<now, proc, agent, asked, signal, facade>>

\* Mutant: the latest tool is bounded, not the oldest.
OverdueLatest(x) == x.stack # <<>> /\ now - Last(x.stack).start >= ToolLimit

Overdue(x) == x.stack # <<>> /\ now - Head(x.stack).start >= ToolLimit

CheckTool ==
  /\ DueTool
  /\ LET x == [w EXCEPT !.toolAt = @ + ToolCheck]
     IN  w' = IF Watching(x) /\ Overdue(x) THEN Fail(x, "tool_timeout") ELSE x
  /\ UNCHANGED <<now, proc, agent, asked, signal, facade>>

RequestTimesOut ==
  /\ DueRequest
  /\ asked' = "rejected"
  /\ UNCHANGED <<now, proc, agent, w, signal, facade>>

Advance ==
  /\ Live /\ now < MaxTime
  /\ ~DueKill /\ ~DueWall /\ ~DueGrace /\ ~DueSilence /\ ~DueTool /\ ~DueRequest
  /\ now' = now + 1
  /\ UNCHANGED <<proc, agent, w, asked, signal, facade>>

Next ==
  \/ Boot \/ SpawnFails \/ PromptRefused \/ Speak \/ Yield \/ Settle \/ Answer
  \/ \E t \in Tools : ToolStart(t)
  \/ \E t \in agent.tools : ToolEnd(t)
  \/ \E capacity \in BOOLEAN : Close(capacity)
  \/ Kill \/ WallExpires \/ GraceExhausted \/ CheckSilence \/ CheckTool \/ RequestTimesOut \/ Advance
  \/ SleepEnds \/ FacadeAbort \/ SignalAborts

Spec == Init /\ [][Next]_vars

\* Timers fire, a started process comes up or fails, a killed one closes; what the
\* worker itself does is up to it.
Fairness ==
  /\ WF_vars(Boot \/ SpawnFails \/ PromptRefused)
  /\ WF_vars(proc = "killed" /\ \E capacity \in BOOLEAN : Close(capacity))
  /\ WF_vars(Kill) /\ WF_vars(WallExpires) /\ WF_vars(GraceExhausted)
  /\ WF_vars(CheckSilence) /\ WF_vars(CheckTool) /\ WF_vars(RequestTimesOut)
  /\ WF_vars(Advance) /\ WF_vars(SleepEnds)
FairSpec == Spec /\ Fairness

-----------------------------------------------------------------------------
\* A worker that hangs is ended in bounded time, whatever it hangs in: while none has
\* given it up, something of it was heard in the window or is in flight, no tool that is
\* really in flight has outrun its budget although the entries may be of other tools, and
\* it is past the wall only on the grace, with no new work but verification.
HangsBounded ==
  Live /\ ~w.aborted =>
    /\ agent.tools = {} => now - w.last < Window + SilenceCheck
    /\ \A t \in agent.tools : now - t.start < ToolLimit + ToolCheck
    /\ now <= Wall + Grace
    /\ now > Wall => w.grace /\ \A t \in agent.tools : t.start > Wall => isVerificationCommand(t.tool)

\* The single rejection comes from the close handler: nobody is told how the worker ended,
\* and no other attempt begins, while its process still works in the workspace.
ResultAfterExit == facade.outcome # "pending" \/ facade.sleeping => proc \in {"killed", "closed"}

\* The caller's signal ends the retry loop, wherever it arrives.
SignalStopsRetries == [][signal => facade'.attempt = facade.attempt]_vars

\* Every run ends: the process is gone, the result settled, no request left waiting.
RunSettles == <>(facade.outcome # "pending" /\ proc = "closed" /\ asked # "pending")

\* "So the suite can finish and the worker can yield a real verification result": a worker
\* that yields while the grace runs is not failed for it.
GraceLetsYield == [][w.grace /\ ~w.yielded /\ w'.yielded => ~w'.failed]_vars

\* "Abort kills the current attempt and stops the retry loop."
AbortStopsRetries == [][facade.aborted => facade'.attempt = facade.attempt]_vars
=============================================================================
