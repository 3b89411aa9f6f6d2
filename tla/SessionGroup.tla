------------------------------- MODULE SessionGroup -------------------------------
(***************************************************************************)
(* The sessions of one parallel run (daemon/parallel.ts), from the moment   *)
(* their watchdogs are attached and their prompts sent to the verdicts.     *)
(* Each worker is an agent (the SDK's session, external), the host that     *)
(* wraps it (sessions/host.ts), its watchdog driver (guards) and what the     *)
(* runner observed.  A step is one callback of the event loop: an event of  *)
(* the agent with everything its listeners do, one timer, or one            *)
(* continuation of the runner.                                              *)
(***************************************************************************)
EXTENDS Integers

CONSTANTS Workers,
          Tools,        \* tool calls
          Wall, Window, ToolLimit, Interval,  \* limits of the watchdogs
          MaxTurns,     \* zero for no cap
          HostTimeout,  \* limit of one prompt
          MaxTime       \* bound: the clock stops here

ASSUME LimitAssumption ==
  /\ {Wall, Window, ToolLimit, Interval, HostTimeout} \subseteq Nat \ {0}
  /\ MaxTurns \in Nat /\ MaxTime \in Nat

\* The runner gives the host and the wall the same limit (sessionTimeoutMs), or leaves
\* both at their defaults, of which the host's is no longer than the silence window.
ASSUME PromptLimitAssumption == HostTimeout <= Window \/ Wall <= HostTimeout + Window

VARIABLES observe,  \* the engine-settlement lane: a settle is only observed
          now,
          agent,    \* the session behind each handle
          prompt,   \* the worker prompt: pending, aborting, aborted, ok or failed
          result,   \* the host captured the yield
          dog,      \* the watchdog driver
          obs,      \* what the runner keeps: the abort and the last terminal event
          stage, verdict

vars == <<observe, now, agent, prompt, result, dog, obs, stage, verdict>>

Aborts == {"wall_timeout", "no_progress", "tool_timeout", "settled_without_yield", "budget_exceeded"}

Init ==
  /\ observe \in BOOLEAN
  /\ now = 0
  /\ agent = [w \in Workers |-> [busy |-> TRUE, tools |-> {}, payload |-> FALSE,
                                 aborted |-> FALSE, settled |-> FALSE, since |-> 0]]
  /\ prompt = [w \in Workers |-> "pending"]
  /\ result = [w \in Workers |-> FALSE]
  /\ dog = [w \in Workers |-> [terminal |-> "none", nudged |-> FALSE, yielded |-> FALSE, turns |-> 0,
                               last |-> 0, inFlight |-> {}, next |-> Interval]]
  /\ obs = [w \in Workers |-> [abort |-> "none", disposition |-> "none"]]
  /\ stage = "prompting"
  /\ verdict = [w \in Workers |-> "none"]

-----------------------------------------------------------------------------
(* The watchdog driver.  Its map of the tools in flight keeps insertion     *)
(* order, which is the order of their starts.                               *)

InFlight == [tool : Tools, start : Nat]
Calls(d) == {f.tool : f \in d.inFlight}

\* A settle without a yield: a nudge, then an abort.
Settled(d) ==
  IF observe \/ d.yielded THEN d
  ELSE IF d.nudged THEN [d EXCEPT !.terminal = "settled_without_yield"]
  ELSE [d EXCEPT !.nudged = TRUE]

TurnStarted(d) ==
  [d EXCEPT !.turns = @ + 1,
            !.terminal = IF MaxTurns > 0 /\ d.turns + 1 >= MaxTurns THEN "budget_exceeded" ELSE @]

\* What an event does to a driver that has not ended; any event is activity.
Heard(d, e, t) ==
  LET a == [d EXCEPT !.last = now]
  IN  CASE e = "turnStart" -> TurnStarted(a)
        [] e = "toolStart" -> [a EXCEPT !.inFlight = @ \cup {[tool |-> t, start |-> now]}]
        [] e = "toolEnd"   -> [a EXCEPT !.inFlight = {f \in @ : f.tool # t}]
        [] e = "yielded"   -> [a EXCEPT !.yielded = TRUE]
        [] e = "settled"   -> Settled(a)
        [] OTHER -> a

\* After an abort "no further events or ticks act".
Hear(d, e, t) == IF d.terminal # "none" THEN d ELSE Heard(d, e, t)

\* Mutant: a tool in flight is not progress.
DecideSilent(d) ==
  IF now >= Wall THEN "wall_timeout"
  ELSE IF now - d.last >= Window THEN "no_progress"
  ELSE "none"

\* Mutant: a tool counts as progress, however long it runs.
DecideNoTool(d) ==
  IF now >= Wall THEN "wall_timeout"
  ELSE IF d.inFlight = {} /\ now - d.last >= Window THEN "no_progress"
  ELSE "none"

\* The time-based decisions, in the order a tick makes them.  The oldest tool is over
\* the limit when any is.
Decide(d) ==
  IF now >= Wall THEN "wall_timeout"
  ELSE IF d.inFlight = {} /\ now - d.last >= Window THEN "no_progress"
  ELSE IF \E f \in d.inFlight : now - f.start >= ToolLimit THEN "tool_timeout"
  ELSE "none"

\* Mutant: a session with a tool in flight is not interrupted.
AbortUnlessInTool(a) == [a EXCEPT !.aborted = a.tools = {}]

Abort(a) == [a EXCEPT !.aborted = TRUE]

\* What the runner notes of an event: the last terminal one, a settle only if it is the first.
Noted(o, e) ==
  IF e \in {"yielded", "error"} THEN [o EXCEPT !.disposition = e]
  ELSE IF e = "settled" /\ o.disposition = "none" THEN [o EXCEPT !.disposition = e]
  ELSE o

\* The worker's session, driver and observation become a, d and o; a new abort of the
\* driver goes on to the session, whose handle reports "cancelled", and to the runner.
Become(w, a, d, o) ==
  LET ends == d.terminal # dog[w].terminal
  IN  /\ dog' = [dog EXCEPT ![w] = d]
      /\ agent' = [agent EXCEPT ![w] = IF ends THEN Abort(a) ELSE a]
      /\ obs' = [obs EXCEPT ![w] = IF ends THEN [abort |-> d.terminal, disposition |-> "cancelled"] ELSE o]

\* The agent becomes a with one event, which all listeners hear.
Event(w, a, e, t) == Become(w, a, Hear(dog[w], e, t), Noted(obs[w], e))

-----------------------------------------------------------------------------
(* The agent and its host.                                                  *)

Open == stage # "judged"
Working(w) == Open /\ agent[w].busy /\ ~agent[w].aborted
MaxTurnEvents == IF MaxTurns > 0 THEN MaxTurns ELSE 1   \* bound of the counter

TurnStart(w) ==
  /\ Working(w) /\ agent[w].tools = {} /\ dog[w].turns < MaxTurnEvents
  /\ Event(w, agent[w], "turnStart", "-")
  /\ UNCHANGED <<observe, now, prompt, result, stage, verdict>>

\* The identifiers of calls are unique: one whose end was never announced is not used again.
ToolStart(w, t) ==
  /\ Working(w) /\ t \notin agent[w].tools \cup Calls(dog[w])
  /\ Event(w, [agent[w] EXCEPT !.tools = @ \cup {t}], "toolStart", t)
  /\ UNCHANGED <<observe, now, prompt, result, stage, verdict>>

ToolEnd(w, t) ==
  /\ Open /\ t \in agent[w].tools
  /\ Event(w, [agent[w] EXCEPT !.tools = @ \ {t}], "toolEnd", t)
  /\ UNCHANGED <<observe, now, prompt, result, stage, verdict>>

\* The yield tool hands its payload to the host, which keeps it until the settle.
YieldTool(w) ==
  /\ Working(w) /\ ~agent[w].payload
  /\ agent' = [agent EXCEPT ![w].payload = TRUE]
  /\ UNCHANGED <<observe, now, prompt, result, dog, obs, stage, verdict>>

Captures(w) == agent[w].payload /\ ~result[w]

\* Mutant: the settle is announced before the yield.
AnnouncedSettleFirst(w) ==
  LET d == Hear(dog[w], "settled", "-")
  IN  IF Captures(w) THEN Hear(d, "yielded", "-") ELSE d

\* "Yield BEFORE settle": what the driver makes of the host's two events.
Announced(w) ==
  LET d == IF Captures(w) THEN Hear(dog[w], "yielded", "-") ELSE dog[w]
  IN  Hear(d, "settled", "-")

\* The agent settles, of itself or interrupted.  A nudge prompts it again, which begins
\* a new run or is refused.
Settle(w) ==
  /\ Open /\ agent[w].busy /\ (agent[w].tools = {} \/ agent[w].aborted)
  /\ LET d == Announced(w)
         noted == Noted(IF Captures(w) THEN Noted(obs[w], "yielded") ELSE obs[w], "settled")
         idle == [agent[w] EXCEPT !.busy = FALSE, !.tools = {}, !.settled = TRUE]
     IN  /\ result' = [result EXCEPT ![w] = @ \/ agent[w].payload]
         /\ IF d.nudged = dog[w].nudged THEN Become(w, idle, d, noted)
            ELSE \/ Become(w, [idle EXCEPT !.busy = TRUE, !.aborted = FALSE, !.since = now], d, noted)
                 \/ Become(w, idle, d, Noted(noted, "error"))
  /\ prompt' = [prompt EXCEPT ![w] = IF @ = "aborting" THEN "aborted" ELSE @]
  /\ UNCHANGED <<observe, now, stage, verdict>>

\* The prompt ends well; a yield no settle has announced yet is announced now.
PromptResolves(w) ==
  /\ Open /\ prompt[w] = "pending" /\ agent[w].settled
  /\ prompt' = [prompt EXCEPT ![w] = "ok"]
  /\ result' = [result EXCEPT ![w] = @ \/ agent[w].payload]
  /\ IF Captures(w) THEN Event(w, agent[w], "yielded", "-") ELSE UNCHANGED <<agent, dog, obs>>
  /\ UNCHANGED <<observe, now, stage, verdict>>

\* The SDK rejects the prompt; the run is over.
PromptFails(w) ==
  /\ Open /\ prompt[w] = "pending" /\ ~agent[w].settled
  /\ prompt' = [prompt EXCEPT ![w] = "failed"]
  /\ Event(w, [agent[w] EXCEPT !.busy = FALSE, !.tools = {}], "error", "-")
  /\ UNCHANGED <<observe, now, result, stage, verdict>>

\* The prompt's own limit aborts the session and waits for it.
DuePrompt(w) == Open /\ prompt[w] = "pending" /\ now >= HostTimeout
DueNudge(w) == Working(w) /\ dog[w].nudged /\ now - agent[w].since >= HostTimeout

PromptTimesOut(w) ==
  /\ DuePrompt(w)
  /\ prompt' = [prompt EXCEPT ![w] = IF agent[w].busy THEN "aborting" ELSE "aborted"]
  /\ agent' = [agent EXCEPT ![w] = Abort(@)]
  /\ UNCHANGED <<observe, now, result, dog, obs, stage, verdict>>

PromptRejects(w) ==
  /\ Open /\ prompt[w] = "aborted"
  /\ prompt' = [prompt EXCEPT ![w] = "failed"]
  /\ Event(w, agent[w], "error", "-")
  /\ UNCHANGED <<observe, now, result, stage, verdict>>

\* The nudge's prompt has the same limit, counted from the nudge.
NudgeTimesOut(w) ==
  /\ DueNudge(w)
  /\ agent' = [agent EXCEPT ![w] = Abort(@)]
  /\ UNCHANGED <<observe, now, prompt, result, dog, obs, stage, verdict>>

-----------------------------------------------------------------------------
(* Timers.  The event loop serves a timer before the clock moves on.        *)

Armed(w) == Open /\ dog[w].terminal = "none"
DueTick(w) == Armed(w) /\ dog[w].next <= now

Tick(w) ==
  /\ DueTick(w)
  /\ Become(w, agent[w], [dog[w] EXCEPT !.next = @ + Interval, !.terminal = Decide(dog[w])], obs[w])
  /\ UNCHANGED <<observe, now, prompt, result, stage, verdict>>

Advance ==
  /\ Open /\ now < MaxTime
  /\ \A w \in Workers : ~DueTick(w) /\ ~DuePrompt(w) /\ ~DueNudge(w)
  /\ now' = now + 1
  /\ UNCHANGED <<observe, agent, prompt, result, dog, obs, stage, verdict>>

-----------------------------------------------------------------------------
(* The runner.                                                              *)

\* All prompts have settled; the usage of every session is asked for.
Collect ==
  /\ stage = "prompting" /\ \A w \in Workers : prompt[w] \in {"ok", "failed"}
  /\ stage' = "collecting"
  /\ UNCHANGED <<observe, now, agent, prompt, result, dog, obs, verdict>>

\* A worker ships with its yield, or in the settlement lane with objective evidence
\* of a run that only settled.
Ships(w, evidence) ==
  evidence # "invalid" /\ prompt[w] = "ok" /\ obs[w].abort = "none"
    /\ (result[w] \/ (observe /\ evidence = "objective" /\ obs[w].disposition = "settled"))

\* The sessions are closed and the watchdogs disposed of; then the provider is asked
\* for its evidence, which may be none, objective or invalid.
Judge(evidence) ==
  /\ stage = "collecting"
  /\ stage' = "judged"
  /\ verdict' = [w \in Workers |-> IF Ships(w, evidence[w]) THEN "ship" ELSE "failed"]
  /\ UNCHANGED <<observe, now, agent, prompt, result, dog, obs>>

Step(w) ==
  \/ TurnStart(w) \/ YieldTool(w) \/ Settle(w)
  \/ \E t \in Tools : ToolStart(w, t) \/ ToolEnd(w, t)
  \/ PromptResolves(w) \/ PromptFails(w) \/ PromptTimesOut(w) \/ PromptRejects(w) \/ NudgeTimesOut(w)
  \/ Tick(w)

Next ==
  \/ \E w \in Workers : Step(w)
  \/ Advance \/ Collect
  \/ \E evidence \in [Workers -> {"none", "objective", "invalid"}] : Judge(evidence)

Spec == Init /\ [][Next]_vars

\* Timers fire, promises settle, and an agent that was interrupted settles; one that
\* was not may go on, or hang, for ever.
Fairness ==
  /\ WF_vars(Advance) /\ WF_vars(Collect)
  /\ WF_vars(\E evidence \in [Workers -> {"none", "objective", "invalid"}] : Judge(evidence))
  /\ \A w \in Workers :
       /\ WF_vars(Tick(w)) /\ WF_vars(PromptTimesOut(w)) /\ WF_vars(PromptRejects(w)) /\ WF_vars(NudgeTimesOut(w))
       /\ WF_vars(PromptResolves(w)) /\ WF_vars(agent[w].aborted /\ Settle(w))
FairSpec == Spec /\ Fairness

-----------------------------------------------------------------------------
\* A session that only hangs is ended in bounded time: one that is at work under an
\* armed driver has been heard within the window and a tick or has a tool in flight,
\* none of its tools has run for longer than the budget and a tick, and no driver is
\* armed past the wall and a tick.
HangsBounded ==
  \A w \in Workers : Armed(w) =>
    /\ now < Wall + Interval
    /\ Working(w) =>
         /\ agent[w].tools = {} => now - dog[w].last < Window + Interval
         /\ \A t \in agent[w].tools : \E f \in dog[w].inFlight :
              f.tool = t /\ now - f.start < ToolLimit + Interval

\* "An in-flight tool counts as progress": a session is given up as silent only when
\* nothing of it is running, and only after a full window without an event.
SilenceIsSilence ==
  [][\A w \in Workers : dog[w].terminal = "none" /\ dog'[w].terminal = "no_progress" =>
       agent[w].tools = {} /\ now - dog[w].last >= Window]_vars

\* "Downstream guards treat settled-without-yield as a failure signal": a worker that
\* has called yield is neither reminded to nor aborted for not having called it.
YieldIsHeard ==
  [][\A w \in Workers :
       agent[w].payload => /\ dog'[w].nudged = dog[w].nudged
                           /\ dog'[w].terminal \in {dog[w].terminal} \cup (Aborts \ {"settled_without_yield"})]_vars

\* Hanging agents included, the run ends with a verdict for every worker.
RunEnds == <>(stage = "judged")

\* "Only a session idle between tool calls can be deemed hung": a worker whose yield was
\* captured and whose prompt has ended is not given up as silent.
FinishedNotHung ==
  [][\A w \in Workers : prompt[w] = "ok" /\ result[w] => dog'[w].terminal = dog[w].terminal]_vars
=============================================================================
