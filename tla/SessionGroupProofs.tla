-------------------------- MODULE SessionGroupProofs --------------------------
(***************************************************************************)
(* Proofs about SessionGroup, for any workers, tools and limits that meet  *)
(* its assumptions: a session that hangs is ended in bounded time, only a  *)
(* silent one is given up as silent, and a yield is heard before the       *)
(* settle.                                                                 *)
(***************************************************************************)
EXTENDS SessionGroup, TLAPS

\* The values of a session, a driver and an observation.
Agents == [busy : BOOLEAN, tools : SUBSET Tools, payload : BOOLEAN,
           aborted : BOOLEAN, settled : BOOLEAN, since : Nat]
Dogs == [terminal : Aborts \cup {"none"}, nudged : BOOLEAN, yielded : BOOLEAN, turns : Nat,
         last : Nat, inFlight : SUBSET InFlight, next : Nat]
Notes == [abort : Aborts \cup {"none"}, disposition : {"none", "yielded", "error", "settled", "cancelled"}]

\* The types.
TypeOK ==
  /\ observe \in BOOLEAN
  /\ now \in Nat
  /\ agent \in [Workers -> Agents]
  /\ prompt \in [Workers -> {"pending", "aborting", "aborted", "ok", "failed"}]
  /\ result \in [Workers -> BOOLEAN]
  /\ dog \in [Workers -> Dogs]
  /\ obs \in [Workers -> Notes]
  /\ stage \in {"prompting", "collecting", "judged"}
  /\ verdict \in [Workers -> {"none", "ship", "failed"}]

\* The last tick found every limit kept, and the next one is not overdue.
Timed(d) ==
  /\ d.last <= now /\ now <= d.next /\ d.next - Interval <= now /\ d.next - Interval < Wall
  /\ d.inFlight = {} => d.next - Interval - d.last < Window
  /\ \A f \in d.inFlight : d.next - Interval - f.start < ToolLimit

\* The driver has every tool of its session in flight; it has others only in the run of a
\* nudge, after a prompt that timed out, and that run has a limit of its own.
Paired(a, d) ==
  /\ a.tools \subseteq Calls(d)
  /\ a.aborted => now >= HostTimeout
  /\ a.busy /\ ~a.aborted /\ d.nudged => now - a.since <= HostTimeout /\ a.since <= d.last
  /\ a.busy /\ ~a.aborted /\ Calls(d) # a.tools => d.nudged /\ HostTimeout <= a.since

\* What holds of a worker until its driver ends.
Sound(w) ==
  dog[w].terminal = "none" =>
    /\ Timed(dog[w]) /\ Paired(agent[w], dog[w])
    /\ result[w] => dog[w].yielded

\* The inductive invariant.
IInv == TypeOK /\ \A w \in Workers : Sound(w)

\* What a driver may hear.
Events == {"turnStart", "toolStart", "toolEnd", "yielded", "settled", "error"}

-----------------------------------------------------------------------------
(* The driver, event by event.                                             *)

\* The limits are positive numbers.
LEMMA Limits == /\ Wall \in Nat /\ Wall > 0 /\ Window \in Nat /\ Window > 0
                /\ ToolLimit \in Nat /\ ToolLimit > 0 /\ Interval \in Nat /\ Interval > 0
                /\ HostTimeout \in Nat /\ HostTimeout > 0 /\ MaxTurns \in Nat
BY LimitAssumption

\* A driver that has just heard something and started or dropped a tool is as timely as before.
LEMMA HeardTimed ==
  ASSUME now \in Nat, NEW d \in Dogs, d.terminal = "none", Timed(d), NEW h \in Dogs,
         h.last = now, h.next = d.next, h.inFlight \subseteq d.inFlight \cup [tool : Tools, start : {now}]
  PROVE  Timed(h)
<1>1. d.next \in Nat /\ h.next \in Nat /\ h.last \in Nat BY DEF Dogs
<1>2. \A f \in h.inFlight : d.next - Interval - f.start < ToolLimit
  <2>1. TAKE f \in h.inFlight
  <2>2. CASE f \in d.inFlight BY <2>2 DEF Timed
  <2>3. CASE f \in [tool : Tools, start : {now}]
    <3>1. f.start = now BY <2>3
    <3> QED BY <3>1, <1>1, Limits DEF Timed
  <2> QED BY <2>1, <2>2, <2>3
<1> QED BY <1>1, <1>2, Limits DEF Timed

\* What each event does to a driver that has not ended.
LEMMA HeardFacts ==
  ASSUME TypeOK, NEW d \in Dogs, d.terminal = "none", Timed(d), NEW e \in Events, NEW t,
         e \in {"toolStart", "toolEnd"} => t \in Tools, NEW h, h = Heard(d, e, t)
  PROVE  /\ h \in Dogs /\ Timed(h) /\ h.last = now
         /\ e = "toolStart" => Calls(h) = Calls(d) \cup {t}
         /\ e = "toolEnd" => Calls(h) = Calls(d) \ {t}
         /\ e \notin {"toolStart", "toolEnd"} => Calls(h) = Calls(d)
         /\ h.yielded <=> d.yielded \/ e = "yielded"
         /\ h.nudged # d.nudged => e = "settled" /\ ~d.nudged
         /\ e = "settled" /\ d.yielded => h.nudged = d.nudged /\ h.terminal = "none"
         /\ h.terminal \in {"none", "budget_exceeded", "settled_without_yield"}
         /\ h.terminal = "settled_without_yield" => e = "settled"
<1> DEFINE a == [d EXCEPT !.last = now]
<1>1. /\ a \in Dogs /\ a.last = now /\ a.next = d.next /\ a.inFlight = d.inFlight /\ a.terminal = "none"
      /\ a.yielded = d.yielded /\ a.nudged = d.nudged /\ a.turns = d.turns /\ a.turns \in Nat
  BY DEF Dogs, TypeOK
<1> HIDE DEF a
<1>2. CASE e = "turnStart"
  <2>1. h = TurnStarted(a) BY <1>2 DEF Heard, a
  <2> DEFINE n == a.turns + 1
             c == IF MaxTurns > 0 /\ n >= MaxTurns THEN "budget_exceeded" ELSE a.terminal
  <2>4. h = [a EXCEPT !.turns = n, !.terminal = c] BY <2>1 DEF TurnStarted
  <2>5. n \in Nat BY <1>1
  <2>6. c \in {"none", "budget_exceeded"} /\ c \in Aborts \cup {"none"} BY <1>1 DEF Aborts
  <2> HIDE DEF n, c
  <2>2. /\ h \in Dogs /\ h.last = now /\ h.next = d.next /\ h.inFlight = d.inFlight
        /\ h.terminal \in {"none", "budget_exceeded"} /\ h.yielded = d.yielded /\ h.nudged = d.nudged
    BY <1>1, <2>4, <2>5, <2>6 DEF Dogs
  <2>3. Timed(h) BY <2>2, HeardTimed DEF TypeOK
  <2> QED BY <1>2, <2>2, <2>3 DEF Calls
<1>3. CASE e = "toolStart"
  <2> DEFINE f == [tool |-> t, start |-> now]
  <2>1. h = [a EXCEPT !.inFlight = @ \cup {f}] BY <1>3 DEF Heard, a
  <2>2. f \in InFlight /\ f \in [tool : Tools, start : {now}] /\ f.tool = t BY <1>3 DEF InFlight, TypeOK
  <2> HIDE DEF f
  <2>3. /\ h \in Dogs /\ h.last = now /\ h.next = d.next /\ h.inFlight = d.inFlight \cup {f}
        /\ h.terminal = "none" /\ h.yielded = d.yielded /\ h.nudged = d.nudged
    BY <1>1, <2>1, <2>2 DEF Dogs
  <2>4. Timed(h) BY <2>2, <2>3, HeardTimed DEF TypeOK
  <2>5. Calls(h) = Calls(d) \cup {t} BY <2>2, <2>3 DEF Calls
  <2> QED BY <1>3, <2>3, <2>4, <2>5
<1>4. CASE e = "toolEnd"
  <2>1. h = [a EXCEPT !.inFlight = {f \in @ : f.tool # t}] BY <1>4 DEF Heard, a
  <2>3. /\ h \in Dogs /\ h.last = now /\ h.next = d.next /\ h.inFlight = {f \in d.inFlight : f.tool # t}
        /\ h.terminal = "none" /\ h.yielded = d.yielded /\ h.nudged = d.nudged
    BY <1>1, <2>1 DEF Dogs
  <2>4. Timed(h) BY <2>3, HeardTimed DEF TypeOK
  <2>5. Calls(h) = Calls(d) \ {t} BY <2>3 DEF Calls
  <2> QED BY <1>4, <2>3, <2>4, <2>5
<1>5. CASE e = "yielded"
  <2>1. h = [a EXCEPT !.yielded = TRUE] BY <1>5 DEF Heard, a
  <2>2. /\ h \in Dogs /\ h.last = now /\ h.next = d.next /\ h.inFlight = d.inFlight
        /\ h.terminal = "none" /\ h.yielded /\ h.nudged = d.nudged
    BY <1>1, <2>1 DEF Dogs
  <2>3. Timed(h) BY <2>2, HeardTimed DEF TypeOK
  <2> QED BY <1>5, <2>2, <2>3 DEF Calls
<1>6. CASE e = "settled"
  <2>1. h = Settled(a) BY <1>6 DEF Heard, a
  <2>2. /\ h \in Dogs /\ h.last = now /\ h.next = d.next /\ h.inFlight = d.inFlight
        /\ h.terminal \in {"none", "settled_without_yield"} /\ h.yielded = d.yielded
        /\ h.nudged # d.nudged => ~d.nudged
        /\ d.yielded => h.nudged = d.nudged /\ h.terminal = "none"
    BY <1>1, <2>1 DEF Settled, Dogs, Aborts
  <2>3. Timed(h) BY <2>2, HeardTimed DEF TypeOK
  <2> QED BY <1>6, <2>2, <2>3 DEF Calls
<1>7. CASE e = "error"
  <2>1. h = a BY <1>7 DEF Heard, a
  <2>3. Timed(h) BY <1>1, <2>1, HeardTimed DEF TypeOK
  <2> QED BY <1>1, <1>7, <2>1, <2>3 DEF Calls
<1> QED BY <1>2, <1>3, <1>4, <1>5, <1>6, <1>7 DEF Events

-----------------------------------------------------------------------------
(* The steps of one worker.                                                *)

\* A step of worker w: it concerns nobody else, keeps w sound and breaks neither promise.
Good(w) ==
  /\ TypeOK' /\ now' = now
  /\ \A q \in Workers \ {w} : dog'[q] = dog[q] /\ agent'[q] = agent[q] /\ result'[q] = result[q]
  /\ Sound(w)'
  /\ dog[w].terminal = "none" /\ dog'[w].terminal = "no_progress" =>
       agent[w].tools = {} /\ now - dog[w].last >= Window
  /\ agent[w].payload => /\ dog'[w].nudged = dog[w].nudged
                         /\ dog'[w].terminal \in {dog[w].terminal} \cup (Aborts \ {"settled_without_yield"})

\* An observation stays one.
LEMMA NotedTyped ==
  ASSUME NEW o \in Notes, NEW e \in Events
  PROVE  Noted(o, e) \in Notes
BY DEF Noted, Notes

\* Become changes w alone, and interrupts the session only with a new abort.
LEMMA BecomeFacts ==
  ASSUME TypeOK, NEW w \in Workers, NEW a \in Agents, NEW d \in Dogs, NEW o \in Notes, Become(w, a, d, o)
  PROVE  /\ dog' \in [Workers -> Dogs] /\ agent' \in [Workers -> Agents] /\ obs' \in [Workers -> Notes]
         /\ dog'[w] = d
         /\ d.terminal = dog[w].terminal => agent'[w] = a
         /\ \A q \in Workers \ {w} : dog'[q] = dog[q] /\ agent'[q] = agent[q]
<1> DEFINE ends == d.terminal # dog[w].terminal
           b == IF ends THEN Abort(a) ELSE a
           n == IF ends THEN [abort |-> d.terminal, disposition |-> "cancelled"] ELSE o
<1>1. b \in Agents BY DEF Agents, Abort
<1>2. n \in Notes BY DEF Notes, Dogs
<1>3. dog' = [dog EXCEPT ![w] = d] /\ agent' = [agent EXCEPT ![w] = b] /\ obs' = [obs EXCEPT ![w] = n]
  BY DEF Become
<1>4. ~ends => b = a OBVIOUS
<1>5. agent \in [Workers -> Agents] /\ dog \in [Workers -> Dogs] /\ obs \in [Workers -> Notes] BY DEF TypeOK
<1> HIDE DEF b, n
<1> QED BY <1>1, <1>2, <1>3, <1>4, <1>5

\* An event that moves the same tool at the session and at the driver keeps them paired.
LEMMA StillPaired ==
  ASSUME TypeOK, NEW a \in Agents, NEW b \in Agents, NEW d \in Dogs, NEW h \in Dogs, Paired(a, d),
         b.aborted = a.aborted, b.since = a.since, b.busy => a.busy,
         a.since <= d.last => a.since <= h.last,
         b.busy => h.nudged = d.nudged,
         b.tools \subseteq Calls(h),
         b.busy => (Calls(h) # b.tools => Calls(d) # a.tools)
  PROVE  Paired(b, h)
BY DEF Paired

\* Timed and Paired of the next state, from the values it takes.
LEMMA SamePlace ==
  ASSUME now' = now, NEW w \in Workers, NEW a, NEW d, agent'[w] = a, dog'[w] = d, Timed(d), Paired(a, d)
  PROVE  Timed(dog[w])' /\ Paired(agent[w], dog[w])'
BY DEF Timed, Paired, Calls

\* Every event but the settle: each is heard by the driver as it happens in the session.
LEMMA EventGood ==
  ASSUME IInv, NEW w \in Workers, NEW a \in Agents, NEW e \in Events \ {"settled"}, NEW t,
         e \in {"toolStart", "toolEnd"} => t \in Tools,
         Event(w, a, e, t), UNCHANGED <<observe, now, stage, verdict>>,
         prompt' \in [Workers -> {"pending", "aborting", "aborted", "ok", "failed"}],
         result' \in [Workers -> BOOLEAN],
         \A q \in Workers \ {w} : result'[q] = result[q],
         result'[w] => result[w] \/ e = "yielded",
         a.aborted = agent[w].aborted, a.since = agent[w].since, a.busy => agent[w].busy,
         e = "toolStart" => a.tools = agent[w].tools \cup {t},
         e = "toolEnd" => a.tools = agent[w].tools \ {t},
         e \notin {"toolStart", "toolEnd"} => a.tools = agent[w].tools \/ (~a.busy /\ a.tools = {})
  PROVE  Good(w)
<1> DEFINE d == dog[w]
           h == Hear(d, e, t)
           o == Noted(obs[w], e)
<1>1. d \in Dogs /\ agent[w] \in Agents /\ obs[w] \in Notes BY DEF IInv, TypeOK
<1>2. o \in Notes BY <1>1, NotedTyped
<1>3. Become(w, a, h, o) BY DEF Event
<1>4. CASE d.terminal # "none"
  <2>1. h = d BY <1>4 DEF Hear
  <2>2. /\ dog' \in [Workers -> Dogs] /\ agent' \in [Workers -> Agents] /\ obs' \in [Workers -> Notes]
        /\ dog'[w] = d /\ \A q \in Workers \ {w} : dog'[q] = dog[q] /\ agent'[q] = agent[q]
    BY <1>1, <1>2, <1>3, <2>1, BecomeFacts DEF IInv
  <2>3. TypeOK' BY <2>2 DEF IInv, TypeOK
  <2> QED BY <2>2, <2>3, <1>4 DEF Good, Sound
<1>5. CASE d.terminal = "none"
  <2>1. h = Heard(d, e, t) BY <1>5 DEF Hear
  <2>2. Timed(d) /\ Paired(agent[w], d) /\ (result[w] => d.yielded) BY <1>5 DEF IInv, Sound
  <2>3. /\ h \in Dogs /\ Timed(h) /\ h.last = now
        /\ e = "toolStart" => Calls(h) = Calls(d) \cup {t}
        /\ e = "toolEnd" => Calls(h) = Calls(d) \ {t}
        /\ e \notin {"toolStart", "toolEnd"} => Calls(h) = Calls(d)
        /\ h.yielded <=> d.yielded \/ e = "yielded"
        /\ h.nudged = d.nudged
        /\ h.terminal \in {"none", "budget_exceeded"}
    BY <1>1, <1>5, <2>1, <2>2, HeardFacts DEF IInv
  <2> HIDE DEF h, d, o
  <2>4. /\ dog' \in [Workers -> Dogs] /\ agent' \in [Workers -> Agents] /\ obs' \in [Workers -> Notes]
        /\ dog'[w] = h /\ (h.terminal = dog[w].terminal => agent'[w] = a)
        /\ \A q \in Workers \ {w} : dog'[q] = dog[q] /\ agent'[q] = agent[q]
    BY <1>2, <1>3, <2>3, BecomeFacts DEF IInv
  <2>5. TypeOK' BY <2>4 DEF IInv, TypeOK
  <2>6. now \in Nat /\ d.last \in Nat /\ d.last <= now BY <1>1, <2>2 DEF IInv, TypeOK, Dogs, Timed
  <2>7. agent[w].since \in Nat BY <1>1 DEF Agents
  <2>8. agent[w].since <= d.last => agent[w].since <= h.last BY <2>3, <2>6, <2>7
  <2>9. agent[w].tools \subseteq Calls(d) BY <2>2 DEF Paired
  <2>10. a.tools \subseteq Calls(h) BY <2>3, <2>9
  <2>11. a.busy => (Calls(h) # a.tools => Calls(d) # agent[w].tools) BY <2>3
  <2>12. Paired(a, h) BY <1>1, <2>2, <2>3, <2>8, <2>10, <2>11, StillPaired DEF IInv
  <2>13. Sound(w)'
    <3>1. SUFFICES ASSUME dog'[w].terminal = "none"
                   PROVE  Timed(dog[w])' /\ Paired(agent[w], dog[w])' /\ (result'[w] => dog'[w].yielded)
      BY DEF Sound
    <3>2. agent'[w] = a /\ dog'[w] = h BY <1>5, <2>4, <3>1 DEF d
    <3>3. result'[w] => dog'[w].yielded BY <2>2, <2>3, <3>2
    <3> QED BY <2>3, <2>12, <3>2, <3>3, SamePlace
  <2>14. dog[w].nudged = dog'[w].nudged /\ dog'[w].terminal \in {"none", "budget_exceeded"}
    BY <2>3, <2>4 DEF d
  <2> QED BY <1>5, <2>4, <2>5, <2>13, <2>14 DEF Good, Aborts, d
<1> QED BY <1>4, <1>5

\* Turns, tools and failing prompts.
LEMMA AgentEvents ==
  ASSUME IInv, NEW w \in Workers,
         TurnStart(w) \/ (\E t \in Tools : ToolStart(w, t) \/ ToolEnd(w, t)) \/ PromptFails(w) \/ PromptRejects(w)
  PROVE  Good(w)
<1>1. /\ agent[w] \in Agents /\ result \in [Workers -> BOOLEAN]
      /\ prompt \in [Workers -> {"pending", "aborting", "aborted", "ok", "failed"}]
  BY DEF IInv, TypeOK
<1>2. {"turnStart", "toolStart", "toolEnd", "yielded", "error"} \subseteq Events \ {"settled"} BY DEF Events
<1>3. CASE TurnStart(w)
  <2>1. Event(w, agent[w], "turnStart", "-") /\ UNCHANGED <<observe, now, prompt, result, stage, verdict>>
    BY <1>3 DEF TurnStart
  <2> QED BY <1>1, <1>2, <2>1, EventGood
<1>4. ASSUME NEW t \in Tools, ToolStart(w, t) PROVE Good(w)
  <2> DEFINE a == [agent[w] EXCEPT !.tools = @ \cup {t}]
  <2>1. Event(w, a, "toolStart", t) /\ UNCHANGED <<observe, now, prompt, result, stage, verdict>>
    BY <1>4 DEF ToolStart
  <2>2. /\ a \in Agents /\ a.tools = agent[w].tools \cup {t} /\ a.aborted = agent[w].aborted
        /\ a.since = agent[w].since /\ a.busy = agent[w].busy
    BY <1>1 DEF Agents
  <2> HIDE DEF a
  <2> QED BY <1>1, <1>2, <2>1, <2>2, EventGood
<1>5. ASSUME NEW t \in Tools, ToolEnd(w, t) PROVE Good(w)
  <2> DEFINE a == [agent[w] EXCEPT !.tools = @ \ {t}]
  <2>1. Event(w, a, "toolEnd", t) /\ UNCHANGED <<observe, now, prompt, result, stage, verdict>>
    BY <1>5 DEF ToolEnd
  <2>2. /\ a \in Agents /\ a.tools = agent[w].tools \ {t} /\ a.aborted = agent[w].aborted
        /\ a.since = agent[w].since /\ a.busy = agent[w].busy
    BY <1>1 DEF Agents
  <2> HIDE DEF a
  <2> QED BY <1>1, <1>2, <2>1, <2>2, EventGood
<1>6. CASE PromptFails(w)
  <2> DEFINE a == [agent[w] EXCEPT !.busy = FALSE, !.tools = {}]
  <2>1. /\ Event(w, a, "error", "-") /\ UNCHANGED <<observe, now, result, stage, verdict>>
        /\ prompt' \in [Workers -> {"pending", "aborting", "aborted", "ok", "failed"}]
    BY <1>1, <1>6 DEF PromptFails
  <2>2. /\ a \in Agents /\ a.tools = {} /\ a.aborted = agent[w].aborted
        /\ a.since = agent[w].since /\ ~a.busy
    BY <1>1 DEF Agents
  <2> HIDE DEF a
  <2> QED BY <1>1, <1>2, <2>1, <2>2, EventGood
<1>7. CASE PromptRejects(w)
  <2>1. /\ Event(w, agent[w], "error", "-") /\ UNCHANGED <<observe, now, result, stage, verdict>>
        /\ prompt' \in [Workers -> {"pending", "aborting", "aborted", "ok", "failed"}]
    BY <1>1, <1>7 DEF PromptRejects
  <2> QED BY <1>1, <1>2, <2>1, EventGood
<1> QED BY <1>3, <1>4, <1>5, <1>6, <1>7

\* The steps the driver does not hear of: only an interruption, and that after the prompt's limit.
LEMMA QuietGood ==
  ASSUME IInv, NEW w \in Workers, UNCHANGED <<observe, now, result, dog, obs, stage, verdict>>,
         NEW a \in Agents, agent' = [agent EXCEPT ![w] = a],
         prompt' \in [Workers -> {"pending", "aborting", "aborted", "ok", "failed"}],
         a.tools = agent[w].tools, a.since = agent[w].since, a.busy = agent[w].busy,
         agent[w].aborted => a.aborted, a.aborted => agent[w].aborted \/ now >= HostTimeout
  PROVE  Good(w)
<1>1. agent \in [Workers -> Agents] /\ dog \in [Workers -> Dogs] BY DEF IInv, TypeOK
<1>2. agent'[w] = a /\ \A q \in Workers \ {w} : agent'[q] = agent[q] BY <1>1
<1>3. TypeOK' BY <1>1 DEF IInv, TypeOK
<1>4. Sound(w)'
  <2>1. SUFFICES ASSUME dog'[w].terminal = "none"
                 PROVE  Timed(dog[w])' /\ Paired(agent[w], dog[w])' /\ (result'[w] => dog'[w].yielded)
    BY DEF Sound
  <2>2. dog'[w] = dog[w] /\ result'[w] = result[w] OBVIOUS
  <2>3. Timed(dog[w]) /\ Paired(agent[w], dog[w]) /\ (result[w] => dog[w].yielded) BY <2>1, <2>2 DEF IInv, Sound
  <2>4. Paired(a, dog[w]) BY <2>3 DEF Paired
  <2> QED BY <1>2, <2>2, <2>3, <2>4, SamePlace
<1> QED BY <1>2, <1>3, <1>4 DEF Good

\* The yield tool, the limits of prompts, and a prompt that ends well.
LEMMA HostGood ==
  ASSUME IInv, NEW w \in Workers, YieldTool(w) \/ PromptTimesOut(w) \/ NudgeTimesOut(w) \/ PromptResolves(w)
  PROVE  Good(w)
<1>1. /\ agent[w] \in Agents /\ agent \in [Workers -> Agents] /\ result \in [Workers -> BOOLEAN]
      /\ prompt \in [Workers -> {"pending", "aborting", "aborted", "ok", "failed"}] /\ now \in Nat
  BY DEF IInv, TypeOK
<1>2. CASE YieldTool(w)
  <2> DEFINE a == [agent[w] EXCEPT !.payload = TRUE]
  <2>1. agent' = [agent EXCEPT ![w] = a] /\ UNCHANGED <<observe, now, prompt, result, dog, obs, stage, verdict>>
    BY <1>1, <1>2 DEF YieldTool
  <2>2. /\ a \in Agents /\ a.tools = agent[w].tools /\ a.aborted = agent[w].aborted
        /\ a.since = agent[w].since /\ a.busy = agent[w].busy
    BY <1>1 DEF Agents
  <2> HIDE DEF a
  <2> QED BY <1>1, <2>1, <2>2, QuietGood
<1>3. CASE PromptTimesOut(w)
  <2> DEFINE a == Abort(agent[w])
  <2>1. /\ agent' = [agent EXCEPT ![w] = a] /\ UNCHANGED <<observe, now, result, dog, obs, stage, verdict>>
        /\ prompt' \in [Workers -> {"pending", "aborting", "aborted", "ok", "failed"}]
    BY <1>1, <1>3 DEF PromptTimesOut
  <2>2. /\ a \in Agents /\ a.tools = agent[w].tools /\ a.aborted
        /\ a.since = agent[w].since /\ a.busy = agent[w].busy
    BY <1>1 DEF Agents, Abort
  <2>3. now >= HostTimeout BY <1>3 DEF PromptTimesOut, DuePrompt
  <2> HIDE DEF a
  <2> QED BY <2>1, <2>2, <2>3, QuietGood
<1>4. CASE NudgeTimesOut(w)
  <2> DEFINE a == Abort(agent[w])
  <2>1. agent' = [agent EXCEPT ![w] = a] /\ UNCHANGED <<observe, now, prompt, result, dog, obs, stage, verdict>>
    BY <1>1, <1>4 DEF NudgeTimesOut
  <2>2. /\ a \in Agents /\ a.tools = agent[w].tools /\ a.aborted
        /\ a.since = agent[w].since /\ a.busy = agent[w].busy /\ a.since \in Nat
    BY <1>1 DEF Agents, Abort
  <2>3. now >= HostTimeout BY <1>1, <1>4, <2>2, Limits DEF NudgeTimesOut, DueNudge
  <2> HIDE DEF a
  <2> QED BY <1>1, <2>1, <2>2, <2>3, QuietGood
<1>5. CASE PromptResolves(w)
  <2>1. /\ UNCHANGED <<observe, now, stage, verdict>>
        /\ prompt' \in [Workers -> {"pending", "aborting", "aborted", "ok", "failed"}]
    BY <1>1, <1>5 DEF PromptResolves
  <2>2. /\ result' \in [Workers -> BOOLEAN] /\ \A q \in Workers \ {w} : result'[q] = result[q]
        /\ result'[w] = (result[w] \/ agent[w].payload)
    <3>1. (result[w] \/ agent[w].payload) \in BOOLEAN BY Zenon
    <3>2. result' = [result EXCEPT ![w] = (result[w] \/ agent[w].payload)] BY <1>5 DEF PromptResolves
    <3> QED BY <1>1, <3>1, <3>2
  <2>3. CASE Captures(w)
    <3>1. Event(w, agent[w], "yielded", "-") BY <1>5, <2>3 DEF PromptResolves
    <3>2. "yielded" \in Events \ {"settled"} BY DEF Events
    <3> QED BY <1>1, <2>1, <2>2, <3>1, <3>2, EventGood
  <2>4. CASE ~Captures(w)
    <3>1. UNCHANGED <<agent, dog, obs>> BY <1>5, <2>4 DEF PromptResolves
    <3>2. result'[w] = result[w] BY <1>1, <2>2, <2>4 DEF Captures
    <3>3. result' = result BY <1>1, <2>2, <3>2
    <3>4. agent' = [agent EXCEPT ![w] = agent[w]] BY <1>1, <3>1
    <3> QED BY <1>1, <2>1, <3>1, <3>3, <3>4, QuietGood
  <2> QED BY <2>3, <2>4
<1> QED BY <1>2, <1>3, <1>4, <1>5

\* A tick: the driver ends, or every limit is kept now.
LEMMA TickGood ==
  ASSUME IInv, NEW w \in Workers, Tick(w)
  PROVE  Good(w)
<1> DEFINE d == dog[w]
           c == Decide(d)
           h == [d EXCEPT !.next = @ + Interval, !.terminal = c]
<1>1. d \in Dogs /\ agent[w] \in Agents /\ obs[w] \in Notes /\ now \in Nat BY DEF IInv, TypeOK
<1>2. d.terminal = "none" /\ d.next <= now BY DEF Tick, DueTick, Armed
<1>3. Timed(d) /\ Paired(agent[w], d) /\ (result[w] => d.yielded) BY <1>2 DEF IInv, Sound
<1>4. d.next \in Nat /\ d.next = now BY <1>1, <1>2, <1>3 DEF Timed, Dogs
<1>5. /\ c \in {"none", "wall_timeout", "no_progress", "tool_timeout"} /\ c \in Aborts \cup {"none"}
      /\ c = "no_progress" => d.inFlight = {} /\ now - d.last >= Window
      /\ c = "none" => /\ ~(now >= Wall) /\ ~(d.inFlight = {} /\ now - d.last >= Window)
                       /\ ~\E f \in d.inFlight : now - f.start >= ToolLimit
  BY DEF Decide, Aborts
<1> HIDE DEF c
<1>6. d.next + Interval \in Nat BY <1>4, Limits
<1>7. /\ h \in Dogs /\ h.next = now + Interval /\ h.terminal = c /\ h.last = d.last /\ h.inFlight = d.inFlight
      /\ h.nudged = d.nudged /\ h.yielded = d.yielded
  BY <1>1, <1>4, <1>5, <1>6 DEF Dogs
<1>8. Become(w, agent[w], h, obs[w]) /\ UNCHANGED <<observe, now, prompt, result, stage, verdict>>
  BY DEF Tick, c
<1> HIDE DEF d, h
<1>9. /\ dog' \in [Workers -> Dogs] /\ agent' \in [Workers -> Agents] /\ obs' \in [Workers -> Notes]
      /\ dog'[w] = h /\ (h.terminal = dog[w].terminal => agent'[w] = agent[w])
      /\ \A q \in Workers \ {w} : dog'[q] = dog[q] /\ agent'[q] = agent[q]
  BY <1>1, <1>7, <1>8, BecomeFacts DEF IInv
<1>10. TypeOK' BY <1>8, <1>9 DEF IInv, TypeOK
<1>11. c = "none" => Timed(h)
  <2>1. SUFFICES ASSUME c = "none" PROVE Timed(h) OBVIOUS
  <2>2. d.last \in Nat /\ h.next - Interval = now BY <1>1, <1>7, Limits DEF Dogs
  <2>3. h.inFlight = {} => now - h.last < Window BY <1>1, <1>5, <1>7, <2>1, <2>2, Limits
  <2>4. \A f \in h.inFlight : now - f.start < ToolLimit
    <3>1. TAKE f \in h.inFlight
    <3>2. f \in InFlight BY <1>1, <1>7, <3>1 DEF Dogs
    <3>3. f.start \in Nat BY <3>2 DEF InFlight
    <3> QED BY <1>1, <1>5, <1>7, <2>1, <3>1, <3>3, Limits
  <2> QED BY <1>1, <1>3, <1>5, <1>7, <2>1, <2>2, <2>3, <2>4, Limits DEF Timed
<1>12. Paired(agent[w], h) BY <1>3, <1>7 DEF Paired, Calls
<1>13. Sound(w)'
  <2>1. SUFFICES ASSUME dog'[w].terminal = "none"
                 PROVE  Timed(dog[w])' /\ Paired(agent[w], dog[w])' /\ (result'[w] => dog'[w].yielded)
    BY DEF Sound
  <2>2. c = "none" /\ agent'[w] = agent[w] /\ dog'[w] = h BY <1>2, <1>7, <1>9, <2>1 DEF d
  <2> QED BY <1>3, <1>7, <1>8, <1>11, <1>12, <2>2, SamePlace
<1>14. dog'[w].terminal = "no_progress" => agent[w].tools = {} /\ now - dog[w].last >= Window
  <2>1. c = "no_progress" => Calls(d) = {} BY <1>5 DEF Calls
  <2> QED BY <1>3, <1>5, <1>7, <1>9, <2>1 DEF Paired, d
<1>15. dog'[w].nudged = dog[w].nudged /\ dog'[w].terminal \in {dog[w].terminal} \cup (Aborts \ {"settled_without_yield"})
  BY <1>2, <1>5, <1>7, <1>9 DEF d
<1> QED BY <1>8, <1>9, <1>10, <1>13, <1>14, <1>15 DEF Good

\* The driver after the host announced a settle, and before it a yield it had not announced.
LEMMA AnnouncedFacts ==
  ASSUME IInv, NEW w \in Workers, dog[w].terminal = "none", NEW d, d = Announced(w)
  PROVE  /\ d \in Dogs /\ Timed(d) /\ d.last = now /\ Calls(d) = Calls(dog[w])
         /\ d.nudged # dog[w].nudged => ~dog[w].nudged
         /\ d.terminal \in {"none", "budget_exceeded", "settled_without_yield"}
         /\ dog[w].yielded => d.yielded
         /\ agent[w].payload => d.yielded /\ d.nudged = dog[w].nudged /\ d.terminal = "none"
<1>1. dog[w] \in Dogs /\ TypeOK BY DEF IInv, TypeOK
<1>2. Timed(dog[w]) /\ (result[w] => dog[w].yielded) BY DEF IInv, Sound
<1>3. {"yielded", "settled"} \subseteq Events BY DEF Events
<1>4. CASE Captures(w)
  <2> DEFINE y == Heard(dog[w], "yielded", "-")
  <2>1. /\ y \in Dogs /\ Timed(y) /\ Calls(y) = Calls(dog[w]) /\ y.yielded /\ y.nudged = dog[w].nudged
        /\ y.terminal = "none"
    <3>1. y = [[dog[w] EXCEPT !.last = now] EXCEPT !.yielded = TRUE] BY DEF Heard
    <3>2. y.terminal = "none" BY <1>1, <3>1 DEF Dogs
    <3> HIDE DEF y
    <3>3. y = Heard(dog[w], "yielded", "-") BY DEF y
    <3> QED BY <1>1, <1>2, <1>3, <3>2, <3>3, HeardFacts
  <2>2. d = Heard(y, "settled", "-")
    <3>1. Hear(dog[w], "yielded", "-") = y BY DEF Hear
    <3>2. Hear(y, "settled", "-") = Heard(y, "settled", "-") BY <2>1 DEF Hear
    <3> QED BY <1>4, <3>1, <3>2 DEF Announced
  <2> HIDE DEF y
  <2> QED BY <1>1, <1>3, <2>1, <2>2, HeardFacts
<1>5. CASE ~Captures(w)
  <2>1. d = Heard(dog[w], "settled", "-") BY <1>5 DEF Announced, Hear
  <2>2. agent[w].payload => dog[w].yielded BY <1>2, <1>5 DEF Captures
  <2> QED BY <1>1, <1>2, <1>3, <2>1, <2>2, HeardFacts
<1> QED BY <1>4, <1>5

\* The settle: a nudge begins a run without tools, whose driver may still hold those of the
\* run that was interrupted.
LEMMA SettleGood ==
  ASSUME IInv, NEW w \in Workers, Settle(w)
  PROVE  Good(w)
<1> DEFINE a == agent[w]
           d == Announced(w)
           noted == Noted(IF Captures(w) THEN Noted(obs[w], "yielded") ELSE obs[w], "settled")
           idle == [a EXCEPT !.busy = FALSE, !.tools = {}, !.settled = TRUE]
           again == [idle EXCEPT !.busy = TRUE, !.aborted = FALSE, !.since = now]
<1>1. /\ a \in Agents /\ dog[w] \in Dogs /\ obs[w] \in Notes /\ now \in Nat /\ result \in [Workers -> BOOLEAN]
      /\ prompt \in [Workers -> {"pending", "aborting", "aborted", "ok", "failed"}]
  BY DEF IInv, TypeOK
<1>2. noted \in Notes /\ Noted(noted, "error") \in Notes BY <1>1, NotedTyped DEF Events
<1>3. a.busy /\ (a.tools = {} \/ a.aborted) BY DEF Settle
<1>4. /\ UNCHANGED <<observe, now, stage, verdict>>
      /\ prompt' \in [Workers -> {"pending", "aborting", "aborted", "ok", "failed"}]
  BY <1>1 DEF Settle
<1>5. /\ result' \in [Workers -> BOOLEAN] /\ \A q \in Workers \ {w} : result'[q] = result[q]
      /\ result'[w] = (result[w] \/ a.payload)
  <2>1. (result[w] \/ a.payload) \in BOOLEAN BY Zenon
  <2>2. result' = [result EXCEPT ![w] = (result[w] \/ a.payload)] BY DEF Settle
  <2> QED BY <1>1, <2>1, <2>2
<1>6. PICK b \in {idle, again}, o \in Notes :
        /\ Become(w, b, d, o)
        /\ b = again => d.nudged # dog[w].nudged
  <2>1. CASE d.nudged = dog[w].nudged
    <3>1. Become(w, idle, d, noted) BY <2>1 DEF Settle
    <3>2. idle # again BY <1>1 DEF Agents
    <3> QED BY <1>2, <3>1, <3>2
  <2>2. CASE d.nudged # dog[w].nudged
    <3>1. Become(w, again, d, noted) \/ Become(w, idle, d, Noted(noted, "error")) BY <2>2 DEF Settle
    <3> QED BY <1>2, <2>2, <3>1
  <2> QED BY <2>1, <2>2
<1>7. /\ idle \in Agents /\ idle.tools = {} /\ idle.aborted = a.aborted /\ ~idle.busy
      /\ again \in Agents /\ again.tools = {} /\ ~again.aborted /\ again.busy /\ again.since = now
  BY <1>1 DEF Agents
<1>8. CASE dog[w].terminal # "none"
  <2>1. d = dog[w] BY <1>8 DEF Announced, Hear
  <2>2. /\ dog' \in [Workers -> Dogs] /\ agent' \in [Workers -> Agents] /\ obs' \in [Workers -> Notes]
        /\ dog'[w] = dog[w] /\ \A q \in Workers \ {w} : dog'[q] = dog[q] /\ agent'[q] = agent[q]
    BY <1>1, <1>6, <1>7, <2>1, BecomeFacts DEF IInv
  <2>3. TypeOK' BY <1>4, <1>5, <2>2 DEF IInv, TypeOK
  <2> QED BY <1>4, <1>5, <1>8, <2>2, <2>3 DEF Good, Sound
<1>9. CASE dog[w].terminal = "none"
  <2>1. /\ d \in Dogs /\ Timed(d) /\ d.last = now /\ Calls(d) = Calls(dog[w])
        /\ d.nudged # dog[w].nudged => ~dog[w].nudged
        /\ d.terminal \in {"none", "budget_exceeded", "settled_without_yield"}
        /\ dog[w].yielded => d.yielded
        /\ a.payload => d.yielded /\ d.nudged = dog[w].nudged /\ d.terminal = "none"
    <3> HIDE DEF d
    <3>1. d = Announced(w) BY DEF d
    <3> QED BY <1>9, <3>1, AnnouncedFacts
  <2>2. Paired(a, dog[w]) /\ (result[w] => dog[w].yielded) BY <1>9 DEF IInv, Sound
  <2> HIDE DEF d, a, idle, again, noted
  <2>3. /\ dog' \in [Workers -> Dogs] /\ agent' \in [Workers -> Agents] /\ obs' \in [Workers -> Notes]
        /\ dog'[w] = d /\ (d.terminal = dog[w].terminal => agent'[w] = b)
        /\ \A q \in Workers \ {w} : dog'[q] = dog[q] /\ agent'[q] = agent[q]
    BY <1>1, <1>6, <1>7, <2>1, BecomeFacts DEF IInv
  <2>4. TypeOK' BY <1>4, <1>5, <2>3 DEF IInv, TypeOK
  <2>5. Paired(b, d)
    <3>1. CASE b = idle BY <1>7, <2>1, <2>2, <3>1 DEF Paired
    <3>2. CASE b = again
      <4>1. d.nudged /\ ~dog[w].nudged BY <1>1, <1>6, <2>1, <3>2 DEF Dogs
      <4>2. Calls(d) # {} => HostTimeout <= now
        <5>1. a.aborted => HostTimeout <= now BY <1>1, <2>2, Limits DEF Paired
        <5>2. ~a.aborted => Calls(d) = {} BY <1>3, <2>1, <2>2, <4>1 DEF Paired
        <5> QED BY <5>1, <5>2
      <4>3. now - now <= HostTimeout /\ now <= d.last BY <1>1, <2>1, Limits
      <4> QED BY <1>7, <3>2, <4>1, <4>2, <4>3 DEF Paired
    <3> QED BY <1>6, <3>1, <3>2
  <2>6. Sound(w)'
    <3>1. SUFFICES ASSUME dog'[w].terminal = "none"
                   PROVE  Timed(dog[w])' /\ Paired(agent[w], dog[w])' /\ (result'[w] => dog'[w].yielded)
      BY DEF Sound
    <3>2. agent'[w] = b /\ dog'[w] = d BY <1>9, <2>3, <3>1
    <3>3. result'[w] => d.yielded BY <1>5, <2>1, <2>2
    <3> QED BY <1>4, <2>1, <2>5, <3>2, <3>3, SamePlace
  <2>7. agent[w].payload => dog'[w].nudged = dog[w].nudged /\ dog'[w].terminal = dog[w].terminal
    BY <1>9, <2>1, <2>3 DEF a
  <2>8. dog'[w].terminal # "no_progress" BY <2>1, <2>3
  <2> QED BY <1>4, <1>5, <2>3, <2>4, <2>6, <2>7, <2>8 DEF Good
<1> QED BY <1>8, <1>9

-----------------------------------------------------------------------------
(* The invariant.                                                          *)

\* Every step of a worker is Good.
LEMMA StepGood ==
  ASSUME IInv, NEW w \in Workers, Step(w)
  PROVE  Good(w)
BY AgentEvents, HostGood, TickGood, SettleGood DEF Step

\* The clock only moves when nothing is due.
LEMMA AdvanceSound ==
  ASSUME IInv, Advance
  PROVE  IInv'
<1>1. /\ now' = now + 1 /\ now \in Nat /\ Open /\ UNCHANGED <<observe, agent, prompt, result, dog, obs, stage, verdict>>
  BY DEF Advance, IInv, TypeOK
<1>2. TypeOK' BY <1>1 DEF IInv, TypeOK
<1>3. ASSUME NEW w \in Workers, dog'[w].terminal = "none"
      PROVE  Timed(dog[w])' /\ Paired(agent[w], dog[w])' /\ (result'[w] => dog'[w].yielded)
  <2>1. dog[w] \in Dogs /\ agent[w] \in Agents BY DEF IInv, TypeOK
  <2>2. Timed(dog[w]) /\ Paired(agent[w], dog[w]) /\ (result[w] => dog[w].yielded) BY <1>1, <1>3 DEF IInv, Sound
  <2>3. dog[w].next \in Nat /\ dog[w].last \in Nat /\ agent[w].since \in Nat BY <2>1 DEF Dogs, Agents
  <2>4. now < dog[w].next BY <1>1, <1>3, <2>3 DEF Advance, DueTick, Armed
  <2>5. Timed(dog[w])' BY <1>1, <2>2, <2>3, <2>4, Limits DEF Timed
  <2>6. agent[w].busy /\ ~agent[w].aborted /\ dog[w].nudged => now - agent[w].since < HostTimeout
    BY <1>1, <2>3, Limits DEF Advance, DueNudge, Working
  <2>7. agent[w].aborted => now' >= HostTimeout BY <1>1, <2>2, Limits DEF Paired
  <2>8. agent[w].busy /\ ~agent[w].aborted /\ dog[w].nudged =>
          now' - agent[w].since <= HostTimeout /\ agent[w].since <= dog[w].last
    BY <1>1, <2>2, <2>3, <2>6, Limits DEF Paired
  <2>9. Paired(agent[w], dog[w])' BY <1>1, <2>2, <2>7, <2>8 DEF Paired, Calls
  <2> QED BY <1>1, <2>2, <2>5, <2>9
<1> QED BY <1>2, <1>3 DEF IInv, Sound

\* A worker that does not move stays sound.
LEMMA SoundStays ==
  ASSUME now' = now, NEW q \in Workers, Sound(q), dog'[q] = dog[q], agent'[q] = agent[q], result'[q] = result[q]
  PROVE  Sound(q)'
BY DEF Sound, Timed, Paired, Calls

\* The invariant holds initially.
LEMMA InvInit == Init => IInv
<1> SUFFICES ASSUME Init PROVE IInv OBVIOUS
<1>1. /\ observe \in BOOLEAN /\ now = 0 /\ stage = "prompting" BY DEF Init
<1>2. \A w \in Workers :
        /\ agent[w] = [busy |-> TRUE, tools |-> {}, payload |-> FALSE, aborted |-> FALSE, settled |-> FALSE, since |-> 0]
        /\ dog[w] = [terminal |-> "none", nudged |-> FALSE, yielded |-> FALSE, turns |-> 0,
                     last |-> 0, inFlight |-> {}, next |-> Interval]
        /\ result[w] = FALSE
  BY DEF Init
<1>3. TypeOK
  <2>1. agent \in [Workers -> Agents] BY DEF Init, Agents
  <2>2. dog \in [Workers -> Dogs] BY Limits DEF Init, Dogs
  <2>3. obs \in [Workers -> Notes] BY DEF Init, Notes
  <2>4. /\ prompt \in [Workers -> {"pending", "aborting", "aborted", "ok", "failed"}]
        /\ result \in [Workers -> BOOLEAN] /\ verdict \in [Workers -> {"none", "ship", "failed"}]
    BY DEF Init
  <2> QED BY <1>1, <2>1, <2>2, <2>3, <2>4 DEF TypeOK
<1>4. ASSUME NEW w \in Workers PROVE Sound(w)
  <2>1. Timed(dog[w]) BY <1>1, <1>2, Limits DEF Timed
  <2>2. Paired(agent[w], dog[w]) BY <1>1, <1>2 DEF Paired, Calls
  <2> QED BY <1>2, <2>1, <2>2 DEF Sound
<1> QED BY <1>3, <1>4 DEF IInv

\* Every step keeps it.
LEMMA InvStep ==
  ASSUME IInv, [Next]_vars
  PROVE  IInv'
<1>1. CASE \E w \in Workers : Step(w)
  <2>1. PICK w \in Workers : Good(w) BY <1>1, StepGood
  <2>2. \A q \in Workers \ {w} : Sound(q)' BY <2>1, SoundStays DEF Good, IInv
  <2> QED BY <2>1, <2>2 DEF Good, IInv
<1>2. CASE Advance BY <1>2, AdvanceSound
<1>3. CASE \/ Collect \/ UNCHANGED vars
           \/ \E evidence \in [Workers -> {"none", "objective", "invalid"}] : Judge(evidence)
  <2>1. UNCHANGED <<observe, now, agent, prompt, result, dog, obs>> BY <1>3 DEF Collect, Judge, vars
  <2>2. stage' \in {"prompting", "collecting", "judged"} /\ verdict' \in [Workers -> {"none", "ship", "failed"}]
    BY <1>3 DEF Collect, Judge, vars, IInv, TypeOK
  <2>3. TypeOK' BY <2>1, <2>2 DEF IInv, TypeOK
  <2>4. \A q \in Workers : Sound(q)' BY <2>1, SoundStays DEF IInv
  <2> QED BY <2>3, <2>4 DEF IInv
<1> QED BY <1>1, <1>2, <1>3 DEF Next

\* IInv holds in every reachable state, whatever the agents do.
THEOREM Invariance == Spec => []IInv
BY InvInit, InvStep, PTL DEF Spec

-----------------------------------------------------------------------------
(* The theorems.                                                           *)

\* One worker's bounds.  A tool that only the driver still has in flight delays the silence
\* abort, and then the nudge's own limit, or the wall, comes first.
LEMMA Bounded ==
  ASSUME IInv, NEW w \in Workers, Armed(w)
  PROVE  /\ now < Wall + Interval
         /\ Working(w) =>
              /\ agent[w].tools = {} => now - dog[w].last < Window + Interval
              /\ \A t \in agent[w].tools : \E f \in dog[w].inFlight :
                   f.tool = t /\ now - f.start < ToolLimit + Interval
<1> DEFINE a == agent[w]
           d == dog[w]
<1>1. Timed(d) /\ Paired(a, d) BY DEF IInv, Sound, Armed
<1>2. d \in Dogs /\ a \in Agents /\ now \in Nat BY DEF IInv, TypeOK
<1>3. d.next \in Nat /\ d.last \in Nat /\ a.since \in Nat BY <1>2 DEF Dogs, Agents
<1>4. now < Wall + Interval BY <1>1, <1>2, <1>3, Limits DEF Timed
<1>5. ASSUME Working(w), a.tools = {} PROVE now - d.last < Window + Interval
  <2>1. CASE d.inFlight = {} BY <1>1, <1>2, <1>3, <2>1, Limits DEF Timed
  <2>2. CASE d.inFlight # {}
    <3>1. Calls(d) # a.tools BY <1>5, <2>2 DEF Calls
    <3>2. a.busy /\ ~a.aborted BY <1>5 DEF Working
    <3>3. HostTimeout <= a.since /\ now - a.since <= HostTimeout /\ a.since <= d.last BY <1>1, <3>1, <3>2 DEF Paired
    <3> QED BY <1>2, <1>3, <1>4, <3>3, Limits, PromptLimitAssumption
  <2> QED BY <2>1, <2>2
<1>6. ASSUME NEW t \in a.tools PROVE \E f \in d.inFlight : f.tool = t /\ now - f.start < ToolLimit + Interval
  <2>1. PICK f \in d.inFlight : f.tool = t BY <1>1 DEF Paired, Calls
  <2>2. f \in InFlight BY <1>2 DEF Dogs
  <2>3. f.start \in Nat BY <2>2 DEF InFlight
  <2>4. d.next - Interval - f.start < ToolLimit /\ now <= d.next BY <1>1 DEF Timed
  <2>5. now - f.start < ToolLimit + Interval BY <1>2, <1>3, <2>3, <2>4, Limits
  <2> QED BY <2>1, <2>5
<1> QED BY <1>4, <1>5, <1>6

\* HangsBounded: hung sessions are ended in bounded time, for any limits the runner sets.
THEOREM HangsAreBounded == Spec => []HangsBounded
<1>1. IInv => HangsBounded BY Bounded DEF HangsBounded
<1> QED BY <1>1, Invariance, PTL

\* What one step may do to one worker's driver.
LEMMA StepTells ==
  ASSUME IInv, [Next]_vars, NEW w \in Workers
  PROVE  /\ dog[w].terminal = "none" /\ dog'[w].terminal = "no_progress" =>
              agent[w].tools = {} /\ now - dog[w].last >= Window
         /\ agent[w].payload => /\ dog'[w].nudged = dog[w].nudged
                                /\ dog'[w].terminal \in {dog[w].terminal} \cup (Aborts \ {"settled_without_yield"})
<1>1. CASE \E q \in Workers : Step(q)
  <2>1. PICK q \in Workers : Good(q) BY <1>1, StepGood
  <2>2. CASE q = w BY <2>1, <2>2 DEF Good
  <2>3. CASE q # w
    <3>1. dog'[w] = dog[w] BY <2>1, <2>3 DEF Good
    <3> QED BY <3>1
  <2> QED BY <2>2, <2>3
<1>2. CASE ~\E q \in Workers : Step(q)
  <2>1. dog' = dog BY <1>2 DEF Next, Advance, Collect, Judge, vars
  <2> QED BY <2>1
<1> QED BY <1>1, <1>2

\* SilenceIsSilence: no session is given up as silent while one of its tools runs.
THEOREM OnlySilenceIsGivenUp == Spec => SilenceIsSilence
<1> DEFINE P == \A w \in Workers : dog[w].terminal = "none" /\ dog'[w].terminal = "no_progress" =>
                  agent[w].tools = {} /\ now - dog[w].last >= Window
<1>1. ASSUME IInv, [Next]_vars PROVE P BY <1>1, StepTells
<1> QED BY <1>1, Invariance, PTL DEF Spec, SilenceIsSilence

\* YieldIsHeard: a worker that called yield is neither reminded nor aborted for not having called it.
THEOREM YieldsAreHeard == Spec => YieldIsHeard
<1> DEFINE P == \A w \in Workers :
       agent[w].payload => /\ dog'[w].nudged = dog[w].nudged
                           /\ dog'[w].terminal \in {dog[w].terminal} \cup (Aborts \ {"settled_without_yield"})
<1>1. ASSUME IInv, [Next]_vars PROVE P BY <1>1, StepTells
<1> QED BY <1>1, Invariance, PTL DEF Spec, YieldIsHeard
=============================================================================
