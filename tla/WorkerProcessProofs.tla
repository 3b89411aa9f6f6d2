--------------------------- MODULE WorkerProcessProofs ---------------------------
(***************************************************************************)
(* Proofs about WorkerProcess, for any tools, limits and intervals: a worker *)
(* that hangs is given up in bounded time, nobody is told how an attempt      *)
(* ended before its process is gone, and the signal ends the retries.        *)
(***************************************************************************)
EXTENDS WorkerProcess, FiniteSetTheorems, SequenceTheorems, TLAPS

Entry == [tool : Tools \cup {"yield"}, start : Nat]

Session == [aborted : BOOLEAN, failed : BOOLEAN, nudged : BOOLEAN, yielded : BOOLEAN,
            code : {"none", "wall_timeout", "no_yield", "no_progress", "tool_timeout"},
            stack : Seq(Entry), last : Nat, wall : BOOLEAN, grace : BOOLEAN, kill : Nat,
            silenceAt : Nat, toolAt : Nat]

TypeOK ==
  /\ now \in Nat
  /\ proc \in {"starting", "up", "killed", "closed"}
  /\ agent \in [busy : BOOLEAN, tools : SUBSET [tool : Tools, start : Nat], leaving : BOOLEAN]
  /\ w \in Session
  /\ asked \in {"none", "pending", "answered", "rejected"}
  /\ signal \in BOOLEAN
  /\ facade \in [aborted : BOOLEAN, attempt : Nat, sleeping : BOOLEAN, outcome : {"pending", "ok", "failed"}]

-----------------------------------------------------------------------------
(* The session's record, field by field.                                    *)

LEMMA FrontOf ==
  ASSUME NEW E, NEW s \in Seq(E), s # <<>>
  PROVE  /\ Front(s) \in Seq(E) /\ Len(Front(s)) = Len(s) - 1
         /\ Len(s) > 1 => Front(s) # <<>> /\ Head(Front(s)) = Head(s)
<1> DEFINE n == Len(s) - 1
           f == SubSeq(s, 1, n)
<1>1. n \in Nat  BY LenProperties
<1>2. \A i \in 1..n : s[i] \in E  BY LenProperties
<1>3. f \in Seq(E) /\ Len(f) = n /\ \A i \in 1..n : f[i] = s[i]
  <2>1. /\ f \in Seq(E) /\ Len(f) = IF 1 <= n THEN n - 1 + 1 ELSE 0
        /\ \A i \in 1..(n - 1 + 1) : f[i] = s[1 + i - 1]
    BY <1>1, <1>2, SubSeqProperties
  <2> HIDE DEF f, n
  <2>2. n - 1 + 1 = n /\ (IF 1 <= n THEN n - 1 + 1 ELSE 0) = n /\ \A i \in 1..n : 1 + i - 1 = i  BY <1>1
  <2>3. QED  BY <2>1, <2>2
<1>4. Front(s) = f  BY DEF Front
<1> HIDE DEF f
<1>5. n > 0 => f # <<>> /\ Head(f) = Head(s)
  <2>1. n > 0 => f # <<>> /\ f[1] = s[1]  BY <1>1, <1>3
  <2>2. n > 0 => Head(f) = f[1]  BY <1>3, <2>1
  <2>3. Head(s) = s[1]  BY LenProperties
  <2>4. QED  BY <2>1, <2>2, <2>3
<1>6. QED  BY <1>1, <1>3, <1>4, <1>5

LEMMA AppendOf ==
  ASSUME NEW E, NEW s \in Seq(E), NEW e \in E
  PROVE  /\ Append(s, e) \in Seq(E) /\ Append(s, e) # <<>> /\ Len(Append(s, e)) = Len(s) + 1
         /\ Head(Append(s, e)) = IF s = <<>> THEN e ELSE Head(s)
         /\ Front(Append(s, e)) = s
<1> DEFINE a == Append(s, e)
<1>1. a \in Seq(E) /\ Len(a) = Len(s) + 1 /\ (\A i \in 1..Len(s) : a[i] = s[i]) /\ a[Len(s) + 1] = e
  BY AppendProperties
<1>2. a # <<>> /\ Len(s) \in Nat  BY <1>1, LenProperties
<1>3. Head(a) = a[1]  BY <1>1, <1>2
<1>4. s = <<>> => Len(s) = 0  OBVIOUS
<1>5. s # <<>> => Len(s) > 0 /\ Head(s) = s[1]  BY LenProperties
<1>6. Front(a) = s
  <2> DEFINE f == SubSeq(a, 1, Len(s))
  <2>1. Front(a) = f  BY <1>1, <1>2 DEF Front
  <2>2. \A i \in 1..Len(s) : a[i] \in E  BY <1>1, LenProperties
  <2>3. /\ f \in Seq(E) /\ Len(f) = IF 1 <= Len(s) THEN Len(s) - 1 + 1 ELSE 0
        /\ \A i \in 1..(Len(s) - 1 + 1) : f[i] = a[1 + i - 1]
    BY <1>2, <2>2, SubSeqProperties
  <2>4. Len(f) = Len(s) /\ \A i \in 1..Len(s) : f[i] = s[i]  BY <1>1, <1>2, <2>3
  <2>5. f = s
    <3> HIDE DEF f
    <3>1. QED  BY <2>3, <2>4, SeqEqual
  <2>6. QED  BY <2>1, <2>5
<1>7. QED  BY <1>1, <1>2, <1>3, <1>4, <1>5, <1>6

\* What abort and fail leave as it is.
Others(x, y) ==
  /\ x.nudged = y.nudged /\ x.yielded = y.yielded /\ x.stack = y.stack /\ x.last = y.last
  /\ x.wall = y.wall /\ x.grace = y.grace /\ x.silenceAt = y.silenceAt /\ x.toolAt = y.toolAt

LEMMA AbortOf ==
  ASSUME now \in Nat, NEW x \in Session
  PROVE  Abort(x) \in Session /\ Abort(x).aborted /\ Abort(x).failed = x.failed /\ Others(Abort(x), x)
<1> DEFINE k == IF x.kill = NoKill THEN now + KillDelay ELSE x.kill
<1>1. k \in Nat
  <2>1. KillDelay \in Nat  BY LimitAssumption
  <2>2. now + KillDelay \in Nat /\ x.kill \in Nat  BY <2>1 DEF Session
  <2>3. QED  BY <2>2
<1>2. Abort(x) = [x EXCEPT !.aborted = TRUE, !.kill = k]  BY DEF Abort
<1> HIDE DEF k
<1>3. QED  BY <1>1, <1>2 DEF Session, Others

LEMMA FailOf ==
  ASSUME now \in Nat, NEW x \in Session, NEW code \in {"wall_timeout", "no_yield", "no_progress", "tool_timeout"}
  PROVE  Fail(x, code) \in Session /\ Fail(x, code).aborted /\ Fail(x, code).failed /\ Others(Fail(x, code), x)
<1> DEFINE a == Abort(x)
<1>1. a \in Session /\ a.aborted /\ Others(a, x)  BY AbortOf
<1>2. Fail(x, code) = [a EXCEPT !.failed = TRUE, !.code = code]  BY DEF Fail
<1> DEFINE b == [a EXCEPT !.failed = TRUE, !.code = code]
<1> HIDE DEF a
<1>3. b \in Session  BY <1>1 DEF Session
<1>4. b.aborted /\ b.failed  BY <1>1 DEF Session
<1>5. Others(b, a)  BY <1>1 DEF Session, Others
<1>6. Others(b, x)  BY <1>1, <1>5 DEF Others
<1>7. QED  BY <1>2, <1>3, <1>4, <1>6

\* A tool that starts: an entry for it, and the end of a grace it does not verify in.
LEMMA ToolStartedOf ==
  ASSUME now \in Nat, NEW x \in Session, NEW t \in Tools \cup {"yield"}
  PROVE  LET y == ToolStarted(x, t)
         IN  /\ y \in Session /\ y.stack = Append(x.stack, [tool |-> t, start |-> now]) /\ y.last = now
             /\ y.wall = x.wall /\ y.silenceAt = x.silenceAt /\ y.toolAt = x.toolAt
             /\ y.nudged = x.nudged /\ y.yielded = x.yielded
             /\ IF x.grace /\ ~isVerificationCommand(t)
                THEN y.aborted /\ y.failed /\ ~y.grace
                ELSE y.aborted = x.aborted /\ y.failed = x.failed /\ y.grace = x.grace
<1> DEFINE b == [x EXCEPT !.last = now, !.stack = Append(x.stack, [tool |-> t, start |-> now])]
           c == [b EXCEPT !.grace = FALSE]
<1>1. [tool |-> t, start |-> now] \in Entry  BY DEF Entry
<1>2. Append(x.stack, [tool |-> t, start |-> now]) \in Seq(Entry)  BY <1>1 DEF Session
<1>3. /\ b \in Session /\ b.stack = Append(x.stack, [tool |-> t, start |-> now]) /\ b.last = now
      /\ b.wall = x.wall /\ b.silenceAt = x.silenceAt /\ b.toolAt = x.toolAt
      /\ b.nudged = x.nudged /\ b.yielded = x.yielded
      /\ b.aborted = x.aborted /\ b.failed = x.failed /\ b.grace = x.grace
  BY <1>2 DEF Session
<1>4. ToolStarted(x, t) = IF b.grace /\ ~isVerificationCommand(t) THEN Fail(c, "wall_timeout") ELSE b
  BY DEF ToolStarted
<1> HIDE DEF b
<1>5. /\ c \in Session /\ c.stack = b.stack /\ c.last = b.last /\ c.wall = b.wall /\ c.silenceAt = b.silenceAt
      /\ c.toolAt = b.toolAt /\ c.nudged = b.nudged /\ c.yielded = b.yielded /\ ~c.grace
  BY <1>3 DEF Session
<1> HIDE DEF c
<1>6. /\ Fail(c, "wall_timeout") \in Session /\ Fail(c, "wall_timeout").aborted /\ Fail(c, "wall_timeout").failed
      /\ Others(Fail(c, "wall_timeout"), c)
  BY <1>5, FailOf
<1>7. QED  BY <1>3, <1>4, <1>5, <1>6 DEF Others

LEMMA ToolEndedOf ==
  ASSUME now \in Nat, NEW x \in Session
  PROVE  LET y == ToolEnded(x)
         IN  /\ y \in Session /\ y.stack = (IF x.stack = <<>> THEN x.stack ELSE Front(x.stack)) /\ y.last = now
             /\ y.wall = x.wall /\ y.silenceAt = x.silenceAt /\ y.toolAt = x.toolAt /\ y.grace = x.grace
             /\ y.nudged = x.nudged /\ y.yielded = x.yielded /\ y.aborted = x.aborted /\ y.failed = x.failed
<1>1. x.stack \in Seq(Entry)  BY DEF Session
<1>2. (IF x.stack = <<>> THEN x.stack ELSE Front(x.stack)) \in Seq(Entry)  BY <1>1, FrontOf
<1>3. QED  BY <1>2 DEF ToolEnded, Session

LEMMA AgentSettledOf ==
  ASSUME now \in Nat, NEW x \in Session
  PROVE  LET y == AgentSettled(x)
         IN  /\ y \in Session /\ y.stack = x.stack /\ y.last = now /\ y.wall = x.wall /\ y.grace = x.grace
             /\ y.silenceAt = x.silenceAt /\ y.toolAt = x.toolAt
             /\ (y.aborted = x.aborted /\ y.failed = x.failed) \/ (y.aborted /\ y.failed)
<1> DEFINE b == [x EXCEPT !.last = now]
           n == [b EXCEPT !.nudged = TRUE]
<1>1. /\ b \in Session /\ b.stack = x.stack /\ b.last = now /\ b.wall = x.wall /\ b.grace = x.grace
      /\ b.silenceAt = x.silenceAt /\ b.toolAt = x.toolAt /\ b.aborted = x.aborted /\ b.failed = x.failed
  BY DEF Session
<1>2. AgentSettled(x) \in {b, Fail(b, "no_yield"), n}  BY DEF AgentSettled
<1> HIDE DEF b
<1>3. n \in Session /\ Others([n EXCEPT !.nudged = b.nudged], b) /\ n.aborted = b.aborted /\ n.failed = b.failed
      /\ n.stack = b.stack /\ n.last = b.last /\ n.wall = b.wall /\ n.grace = b.grace
      /\ n.silenceAt = b.silenceAt /\ n.toolAt = b.toolAt
  BY <1>1 DEF Session, Others
<1>4. /\ Fail(b, "no_yield") \in Session /\ Fail(b, "no_yield").aborted /\ Fail(b, "no_yield").failed
      /\ Others(Fail(b, "no_yield"), b)
  BY <1>1, FailOf
<1>5. QED  BY <1>1, <1>2, <1>3, <1>4 DEF Others

-----------------------------------------------------------------------------
(* The invariant.                                                           *)

\* While an attempt watches: it is before the wall or in the grace, the time since the last
\* check is within the window or the budget of the oldest entry, and what has started
\* in the grace verifies.
Watched(n, T, x) ==
  /\ x.wall \/ x.grace
  /\ x.stack = <<>> => x.silenceAt - SilenceCheck - x.last < Window
  /\ x.stack # <<>> => x.toolAt - ToolCheck - Head(x.stack).start < ToolLimit
  /\ x.grace => \A t \in T : t.start > Wall => isVerificationCommand(t.tool)

\* At time n, with T in flight: as many entries as tools, the oldest entry no younger than any
\* tool although the entries may be of others, and no timer overdue.
Paired(n, T, x) ==
  /\ IsFiniteSet(T) /\ Len(x.stack) = Cardinality(T)
  /\ x.last <= n /\ \A t \in T : t.start <= n
  /\ x.stack # <<>> => \A t \in T : Head(x.stack).start <= t.start
  /\ n <= x.silenceAt /\ x.silenceAt <= n + SilenceCheck
  /\ n <= x.toolAt /\ x.toolAt <= n + ToolCheck
  /\ x.wall => n <= Wall
  /\ x.grace => n <= Wall + Grace

Bounded(n, T, x) ==
  /\ Paired(n, T, x)
  /\ x.failed => x.aborted
  /\ ~x.aborted => Watched(n, T, x)

IInv ==
  /\ proc = "starting" => now = 0 /\ agent.tools = {}
  /\ Open => Bounded(now, agent.tools, w)

LEMMA Limits == /\ Wall \in Nat /\ Wall > 0 /\ Grace \in Nat /\ Grace > 0 /\ Window \in Nat /\ Window > 0
                /\ ToolLimit \in Nat /\ ToolLimit > 0 /\ SilenceCheck \in Nat /\ SilenceCheck > 0
                /\ ToolCheck \in Nat /\ ToolCheck > 0 /\ KillDelay \in Nat /\ KillDelay > 0
BY LimitAssumption

LEMMA SpawnedOf == Spawned \in Session /\ Bounded(0, {}, Spawned)
<1>1. <<>> \in Seq(Entry) /\ Len(<<>>) = 0  OBVIOUS
<1>2. Spawned \in Session  BY <1>1, Limits DEF Spawned, Session, NoKill
<1>3. Paired(0, {}, Spawned)  BY <1>1, Limits, FS_EmptySet DEF Spawned, Paired
<1>4. Bounded(0, {}, Spawned)  BY <1>3, Limits DEF Spawned, Bounded, Watched
<1>5. QED  BY <1>2, <1>4

LEMMA NoEntries == \A s \in Seq(Entry) : Len(s) = 0 <=> s = <<>>
OBVIOUS

\* What is given up is no longer watched, whatever else a step does to it.
LEMMA AbortBounded ==
  ASSUME now \in Nat, NEW T, NEW x \in Session, Bounded(now, T, x)
  PROVE  Abort(x) \in Session /\ Bounded(now, T, Abort(x))
<1>1. Abort(x) \in Session /\ Abort(x).aborted /\ Abort(x).failed = x.failed /\ Others(Abort(x), x)  BY AbortOf
<1>2. QED  BY <1>1 DEF Bounded, Paired, Others

LEMMA FailBounded ==
  ASSUME now \in Nat, NEW T, NEW x \in Session, Paired(now, T, x),
         NEW code \in {"wall_timeout", "no_yield", "no_progress", "tool_timeout"}
  PROVE  Fail(x, code) \in Session /\ Bounded(now, T, Fail(x, code))
<1>1. /\ Fail(x, code) \in Session /\ Fail(x, code).aborted /\ Fail(x, code).failed /\ Others(Fail(x, code), x)
  BY FailOf
<1>2. QED  BY <1>1 DEF Bounded, Paired, Others

\* A line of the process that names no tool.
LEMMA HeardBounded ==
  ASSUME now \in Nat, NEW T, NEW x \in Session, Bounded(now, T, x)
  PROVE  [x EXCEPT !.last = now] \in Session /\ Bounded(now, T, [x EXCEPT !.last = now])
<1> DEFINE y == [x EXCEPT !.last = now]
<1>1. /\ y \in Session /\ y.last = now /\ y.stack = x.stack /\ y.wall = x.wall /\ y.grace = x.grace
      /\ y.silenceAt = x.silenceAt /\ y.toolAt = x.toolAt /\ y.aborted = x.aborted /\ y.failed = x.failed
  BY DEF Session
<1>2. x.silenceAt \in Nat /\ x.toolAt \in Nat  BY DEF Session
<1> HIDE DEF y
<1>3. Paired(now, T, y)  BY <1>1 DEF Bounded, Paired
<1>4. ~y.aborted => Watched(now, T, y)  BY <1>1, <1>2, Limits DEF Bounded, Paired, Watched
<1>5. Bounded(now, T, y)  BY <1>1, <1>3, <1>4 DEF Bounded
<1>6. QED  BY <1>1, <1>5 DEF y

\* A tool starts: another entry, the youngest.
LEMMA ToolStartedBounded ==
  ASSUME now \in Nat, NEW T \in SUBSET [tool : Tools, start : Nat], NEW x \in Session, Bounded(now, T, x),
         NEW t \in Tools, [tool |-> t, start |-> now] \notin T
  PROVE  /\ ToolStarted(x, t) \in Session
         /\ Bounded(now, T \cup {[tool |-> t, start |-> now]}, ToolStarted(x, t))
<1> DEFINE e == [tool |-> t, start |-> now]
           U == T \cup {e}
           y == ToolStarted(x, t)
<1>1. /\ y \in Session /\ y.stack = Append(x.stack, e) /\ y.last = now
      /\ y.wall = x.wall /\ y.silenceAt = x.silenceAt /\ y.toolAt = x.toolAt
      /\ IF x.grace /\ ~isVerificationCommand(t)
         THEN y.aborted /\ y.failed /\ ~y.grace
         ELSE y.aborted = x.aborted /\ y.failed = x.failed /\ y.grace = x.grace
  BY ToolStartedOf
<1>2. e \in Entry /\ e.start = now /\ e.tool = t /\ x.stack \in Seq(Entry)  BY DEF Entry, Session
<1>3. /\ Append(x.stack, e) # <<>> /\ Len(Append(x.stack, e)) = Len(x.stack) + 1
      /\ Head(Append(x.stack, e)) = IF x.stack = <<>> THEN e ELSE Head(x.stack)
  BY <1>2, AppendOf
<1>4. IsFiniteSet(T) /\ Len(x.stack) = Cardinality(T)  BY DEF Bounded, Paired
<1>5. IsFiniteSet(U) /\ Cardinality(U) = Cardinality(T) + 1  BY <1>4, FS_AddElement
<1>6. x.stack = <<>> => T = {}
  <2>1. x.stack = <<>> => Len(x.stack) = 0  BY <1>2, NoEntries
  <2>2. QED  BY <1>4, <2>1, FS_EmptySet
<1>7. x.stack # <<>> => Head(x.stack).start \in Nat /\ Head(x.stack).start <= now
  <2>1. SUFFICES ASSUME x.stack # <<>>  PROVE Head(x.stack).start \in Nat /\ Head(x.stack).start <= now
    OBVIOUS
  <2>2. Head(x.stack) \in Entry  BY <1>2, <2>1, HeadTailProperties
  <2>3. T # {}
    <3>1. Len(x.stack) # 0  BY <1>2, <2>1, NoEntries
    <3>2. QED  BY <1>4, <3>1, FS_EmptySet
  <2>4. PICK u \in T : TRUE  BY <2>3
  <2>5. u.start \in Nat /\ u.start <= now /\ Head(x.stack).start <= u.start  BY <2>1 DEF Bounded, Paired
  <2>6. QED  BY <2>2, <2>5 DEF Entry
<1>8. x.toolAt \in Nat /\ x.silenceAt \in Nat  BY DEF Session
<1> HIDE DEF y, e, U
<1>9. y.stack # <<>> /\ Head(y.stack).start = IF x.stack = <<>> THEN now ELSE Head(x.stack).start
  BY <1>1, <1>2, <1>3
<1>10. Paired(now, U, y)
  <2>1. \A u \in U : u.start <= now  BY <1>2 DEF U, Bounded, Paired
  <2>2. \A u \in U : Head(y.stack).start <= u.start
    BY <1>2, <1>6, <1>7, <1>9 DEF U, Bounded, Paired
  <2>3. QED  BY <1>1, <1>3, <1>4, <1>5, <2>1, <2>2 DEF Bounded, Paired
<1>11. ~y.aborted => Watched(now, U, y)
  <2>1. SUFFICES ASSUME ~y.aborted  PROVE Watched(now, U, y)  OBVIOUS
  <2>2. y.grace = x.grace /\ ~x.aborted /\ (x.grace => isVerificationCommand(t))  BY <1>1, <2>1
  <2>3. Watched(now, T, x)  BY <2>2 DEF Bounded
  <2>4. y.toolAt - ToolCheck - Head(y.stack).start < ToolLimit
    BY <1>1, <1>8, <1>9, <2>3, Limits DEF Bounded, Paired, Watched
  <2>5. y.grace => \A u \in U : u.start > Wall => isVerificationCommand(u.tool)
    BY <1>2, <2>2, <2>3 DEF U, Watched
  <2>6. QED  BY <1>1, <1>9, <2>2, <2>3, <2>4, <2>5 DEF Watched
<1>12. Bounded(now, U, y)  BY <1>1, <1>10, <1>11 DEF Bounded
<1>13. QED  BY <1>1, <1>12 DEF y, U, e

\* A tool ends: an entry goes, the oldest only with the last of the tools.
LEMMA ToolEndedBounded ==
  ASSUME now \in Nat, NEW T \in SUBSET [tool : Tools, start : Nat], NEW x \in Session, Bounded(now, T, x),
         NEW t \in T
  PROVE  ToolEnded(x) \in Session /\ Bounded(now, T \ {t}, ToolEnded(x))
<1> DEFINE U == T \ {t}
           y == ToolEnded(x)
<1>1. x.stack \in Seq(Entry) /\ IsFiniteSet(T) /\ Len(x.stack) = Cardinality(T)  BY DEF Session, Bounded, Paired
<1>2. IsFiniteSet(U) /\ Cardinality(U) = Cardinality(T) - 1  BY <1>1, FS_RemoveElement
<1>3. x.stack # <<>>
  <2>1. x.stack = <<>> => Len(x.stack) = 0  BY <1>1, NoEntries
  <2>2. Cardinality(T) # 0  BY <1>1, FS_EmptySet
  <2>3. QED  BY <1>1, <2>1, <2>2
<1>4. /\ Front(x.stack) \in Seq(Entry) /\ Len(Front(x.stack)) = Len(x.stack) - 1
      /\ Len(x.stack) > 1 => Front(x.stack) # <<>> /\ Head(Front(x.stack)) = Head(x.stack)
  BY <1>1, <1>3, FrontOf
<1>5. /\ y \in Session /\ y.stack = Front(x.stack) /\ y.last = now
      /\ y.wall = x.wall /\ y.silenceAt = x.silenceAt /\ y.toolAt = x.toolAt /\ y.grace = x.grace
      /\ y.aborted = x.aborted /\ y.failed = x.failed
  BY <1>3, ToolEndedOf
<1>6. x.toolAt \in Nat /\ x.silenceAt \in Nat  BY DEF Session
<1> HIDE DEF y, U
<1>7. y.stack # <<>> => Head(y.stack) = Head(x.stack)
  <2>1. y.stack # <<>> => Len(y.stack) > 0  BY <1>4, <1>5
  <2>2. Len(x.stack) \in Nat  BY <1>1
  <2>3. QED  BY <1>4, <1>5, <2>1, <2>2
<1>8. Paired(now, U, y)
  <2>1. U \subseteq T  BY DEF U
  <2>2. QED  BY <1>1, <1>2, <1>3, <1>4, <1>5, <1>7, <2>1 DEF Bounded, Paired
<1>9. ~y.aborted => Watched(now, U, y)
  BY <1>3, <1>5, <1>6, <1>7, Limits DEF Bounded, Paired, Watched, U
<1>10. Bounded(now, U, y)  BY <1>5, <1>8, <1>9 DEF Bounded
<1>11. QED  BY <1>5, <1>10 DEF y, U

\* The agent settles: nothing of the entries or the clock changes but what was heard.
LEMMA AgentSettledBounded ==
  ASSUME now \in Nat, NEW T, NEW x \in Session, Bounded(now, T, x)
  PROVE  AgentSettled(x) \in Session /\ Bounded(now, T, AgentSettled(x))
<1> DEFINE b == [x EXCEPT !.last = now]
           y == AgentSettled(x)
<1>1. b \in Session /\ Bounded(now, T, b)  BY HeardBounded
<1>2. /\ y \in Session /\ y.stack = x.stack /\ y.last = now /\ y.wall = x.wall /\ y.grace = x.grace
      /\ y.silenceAt = x.silenceAt /\ y.toolAt = x.toolAt
      /\ (y.aborted = x.aborted /\ y.failed = x.failed) \/ (y.aborted /\ y.failed)
  BY AgentSettledOf
<1>3. /\ b.stack = x.stack /\ b.last = now /\ b.wall = x.wall /\ b.grace = x.grace
      /\ b.silenceAt = x.silenceAt /\ b.toolAt = x.toolAt /\ b.aborted = x.aborted /\ b.failed = x.failed
  BY DEF Session
<1> HIDE DEF b, y
<1>4. QED  BY <1>1, <1>2, <1>3 DEF y, Bounded, Paired, Watched

-----------------------------------------------------------------------------
(* The timers.                                                              *)

LEMMA WallBounded ==
  ASSUME TypeOK, IInv, WallExpires
  PROVE  w' \in Session /\ Bounded(now, agent.tools, w')
<1> DEFINE x == [w EXCEPT !.wall = FALSE]
           g == [x EXCEPT !.grace = TRUE]
<1>1. now \in Nat /\ w \in Session /\ Bounded(now, agent.tools, w) /\ w.wall
  BY DEF TypeOK, IInv, WallExpires, DueWall, Live, Open
<1>2. /\ x \in Session /\ ~x.wall /\ x.stack = w.stack /\ x.last = w.last /\ x.grace = w.grace
      /\ x.silenceAt = w.silenceAt /\ x.toolAt = w.toolAt /\ x.aborted = w.aborted /\ x.failed = w.failed
  BY <1>1 DEF Session
<1>3. /\ g \in Session /\ ~g.wall /\ g.stack = w.stack /\ g.last = w.last /\ g.grace
      /\ g.silenceAt = w.silenceAt /\ g.toolAt = w.toolAt /\ g.aborted = w.aborted /\ g.failed = w.failed
  BY <1>1 DEF Session
<1>4. w' = g \/ w' = Fail(x, "wall_timeout")  BY DEF WallExpires
<1> HIDE DEF x, g
<1>5. Paired(now, agent.tools, x)  BY <1>1, <1>2 DEF Bounded, Paired
<1>6. Fail(x, "wall_timeout") \in Session /\ Bounded(now, agent.tools, Fail(x, "wall_timeout"))
  BY <1>1, <1>2, <1>5, FailBounded
<1>7. Bounded(now, agent.tools, g)
  <2>1. now <= Wall /\ now <= Wall + Grace  BY <1>1, Limits DEF Bounded, Paired
  <2>2. Paired(now, agent.tools, g)  BY <1>1, <1>3, <2>1 DEF Bounded, Paired
  <2>3. \A t \in agent.tools : t.start \in Nat /\ t.start <= now  BY <1>1 DEF TypeOK, Bounded, Paired
  <2>4. ~g.aborted => Watched(now, agent.tools, g)  BY <1>1, <1>3, <2>1, <2>3, Limits DEF Bounded, Watched
  <2>5. QED  BY <1>1, <1>3, <2>2, <2>4 DEF Bounded
<1>8. QED  BY <1>3, <1>4, <1>6, <1>7

LEMMA GraceBounded ==
  ASSUME TypeOK, IInv, GraceExhausted
  PROVE  w' \in Session /\ Bounded(now, agent.tools, w')
<1> DEFINE x == [w EXCEPT !.grace = FALSE]
<1>1. now \in Nat /\ w \in Session /\ Bounded(now, agent.tools, w)
  BY DEF TypeOK, IInv, GraceExhausted, DueGrace, Live, Open
<1>2. /\ x \in Session /\ x.wall = w.wall /\ x.stack = w.stack /\ x.last = w.last /\ ~x.grace
      /\ x.silenceAt = w.silenceAt /\ x.toolAt = w.toolAt
  BY <1>1 DEF Session
<1>3. w' = Fail(x, "wall_timeout")  BY DEF GraceExhausted
<1> HIDE DEF x
<1>4. Paired(now, agent.tools, x)  BY <1>1, <1>2 DEF Bounded, Paired
<1>5. QED  BY <1>1, <1>2, <1>3, <1>4, FailBounded

\* A check comes when it is due, so the next one is a whole interval after now.
LEMMA SilenceBounded ==
  ASSUME TypeOK, IInv, CheckSilence
  PROVE  w' \in Session /\ Bounded(now, agent.tools, w')
<1> DEFINE next == w.silenceAt + SilenceCheck
           x == [w EXCEPT !.silenceAt = next]
<1>1. /\ now \in Nat /\ w \in Session /\ Bounded(now, agent.tools, w) /\ now >= w.silenceAt
      /\ w.silenceAt \in Nat /\ w.last \in Nat
  BY DEF TypeOK, IInv, CheckSilence, DueSilence, Live, Open, Session
<1>2. /\ x \in Session /\ x.wall = w.wall /\ x.stack = w.stack /\ x.last = w.last /\ x.grace = w.grace
      /\ x.silenceAt = w.silenceAt + SilenceCheck /\ x.toolAt = w.toolAt
      /\ x.aborted = w.aborted /\ x.failed = w.failed
  <2>1. next \in Nat  BY <1>1, Limits
  <2> HIDE DEF next
  <2>2. /\ x \in Session /\ x.wall = w.wall /\ x.stack = w.stack /\ x.last = w.last /\ x.grace = w.grace
        /\ x.silenceAt = next /\ x.toolAt = w.toolAt
        /\ x.aborted = w.aborted /\ x.failed = w.failed
    BY <1>1, <2>1 DEF Session
  <2>3. QED  BY <2>2 DEF next
<1>3. w' = IF Watching(x) /\ Silent(x) THEN Fail(x, "no_progress") ELSE x  BY DEF CheckSilence
<1> HIDE DEF x
<1>4. w.silenceAt = now  BY <1>1 DEF Bounded, Paired
<1>5. Paired(now, agent.tools, x)  BY <1>1, <1>2, <1>4, Limits DEF Bounded, Paired
<1>6. CASE Watching(x) /\ Silent(x)  BY <1>1, <1>2, <1>3, <1>5, <1>6, FailBounded
<1>7. CASE ~(Watching(x) /\ Silent(x))
  <2>1. w' = x  BY <1>3, <1>7
  <2>2. ~x.aborted => Watching(x)  BY <1>1, <1>2 DEF Watching, Bounded
  <2>3. ~x.aborted => (x.stack = <<>> => x.silenceAt - SilenceCheck - x.last < Window)
    BY <1>1, <1>2, <1>4, <1>7, <2>2, Limits DEF Silent
  <2>4. ~x.aborted => Watched(now, agent.tools, x)  BY <1>1, <1>2, <2>3 DEF Bounded, Watched
  <2>5. QED  BY <1>1, <1>2, <1>5, <2>1, <2>4 DEF Bounded
<1>8. QED  BY <1>6, <1>7

LEMMA ToolCheckBounded ==
  ASSUME TypeOK, IInv, CheckTool
  PROVE  w' \in Session /\ Bounded(now, agent.tools, w')
<1> DEFINE next == w.toolAt + ToolCheck
           x == [w EXCEPT !.toolAt = next]
<1>1. /\ now \in Nat /\ w \in Session /\ Bounded(now, agent.tools, w) /\ now >= w.toolAt
      /\ w.toolAt \in Nat /\ w.stack \in Seq(Entry)
  BY DEF TypeOK, IInv, CheckTool, DueTool, Live, Open, Session
<1>2. /\ x \in Session /\ x.wall = w.wall /\ x.stack = w.stack /\ x.last = w.last /\ x.grace = w.grace
      /\ x.silenceAt = w.silenceAt /\ x.toolAt = w.toolAt + ToolCheck
      /\ x.aborted = w.aborted /\ x.failed = w.failed
  <2>1. next \in Nat  BY <1>1, Limits
  <2> HIDE DEF next
  <2>2. /\ x \in Session /\ x.wall = w.wall /\ x.stack = w.stack /\ x.last = w.last /\ x.grace = w.grace
        /\ x.silenceAt = w.silenceAt /\ x.toolAt = next
        /\ x.aborted = w.aborted /\ x.failed = w.failed
    BY <1>1, <2>1 DEF Session
  <2>3. QED  BY <2>2 DEF next
<1>3. w' = IF Watching(x) /\ Overdue(x) THEN Fail(x, "tool_timeout") ELSE x  BY DEF CheckTool
<1> HIDE DEF x
<1>4. w.toolAt = now  BY <1>1 DEF Bounded, Paired
<1>5. Paired(now, agent.tools, x)  BY <1>1, <1>2, <1>4, Limits DEF Bounded, Paired
<1>6. CASE Watching(x) /\ Overdue(x)  BY <1>1, <1>2, <1>3, <1>5, <1>6, FailBounded
<1>7. CASE ~(Watching(x) /\ Overdue(x))
  <2>1. w' = x  BY <1>3, <1>7
  <2>2. ~x.aborted => Watching(x)  BY <1>1, <1>2 DEF Watching, Bounded
  <2>3. w.stack # <<>> => Head(w.stack).start \in Nat
    <3>1. w.stack # <<>> => Head(w.stack) \in Entry  BY <1>1, HeadTailProperties
    <3>2. QED  BY <3>1 DEF Entry
  <2>4. ~x.aborted => (x.stack # <<>> => x.toolAt - ToolCheck - Head(x.stack).start < ToolLimit)
    BY <1>1, <1>2, <1>4, <1>7, <2>2, <2>3, Limits DEF Overdue
  <2>5. ~x.aborted => Watched(now, agent.tools, x)  BY <1>1, <1>2, <2>4 DEF Bounded, Watched
  <2>6. QED  BY <1>1, <1>2, <1>5, <2>1, <2>5 DEF Bounded
<1>8. QED  BY <1>6, <1>7

\* The clock moves on only when no timer is due.
LEMMA AdvanceBounded ==
  ASSUME TypeOK, IInv, Advance
  PROVE  Bounded(now + 1, agent.tools, w)
<1>1. /\ now \in Nat /\ w \in Session /\ Bounded(now, agent.tools, w)
      /\ ~(w.wall /\ now >= Wall) /\ ~(w.grace /\ now >= Wall + Grace)
      /\ ~(now >= w.silenceAt) /\ ~(now >= w.toolAt)
  BY DEF TypeOK, IInv, Advance, DueWall, DueGrace, DueSilence, DueTool, Live, Open
<1>2. w.silenceAt \in Nat /\ w.toolAt \in Nat /\ w.last \in Nat  BY <1>1 DEF Session
<1>3. \A t \in agent.tools : t.start \in Nat  BY DEF TypeOK
<1>4. Paired(now + 1, agent.tools, w)  BY <1>1, <1>2, <1>3, Limits DEF Bounded, Paired
<1>5. QED  BY <1>1, <1>4 DEF Bounded, Watched

-----------------------------------------------------------------------------
(* The theorems.                                                            *)

Outcomes == [aborted : BOOLEAN, attempt : Nat, sleeping : BOOLEAN, outcome : {"pending", "ok", "failed"}]

LEMMA FailedOf ==
  ASSUME facade \in Outcomes, NEW capacity \in BOOLEAN, Failed(capacity)
  PROVE  /\ facade' \in Outcomes /\ facade'.attempt = facade.attempt
         /\ (facade'.outcome = "failed" /\ facade'.sleeping = facade.sleeping)
              \/ (facade'.sleeping /\ facade'.outcome = facade.outcome /\ capacity)
BY DEF Failed, Outcomes

\* A run that sleeps before another attempt is undecided, and its last process is gone.
Exited ==
  /\ facade.outcome # "pending" => proc \in {"killed", "closed"}
  /\ facade.sleeping => proc = "closed" /\ facade.outcome = "pending"

LEMMA InitHolds == ASSUME Init  PROVE TypeOK /\ IInv /\ Exited
<1> DEFINE k == IF signal THEN KillDelay ELSE NoKill
           x == [Spawned EXCEPT !.aborted = signal, !.kill = k]
<1>1. w = x /\ signal \in BOOLEAN  BY DEF Init
<1>2. k \in Nat  BY Limits DEF NoKill
<1> HIDE DEF k
<1>3. Spawned \in Session /\ Bounded(0, {}, Spawned)  BY SpawnedOf
<1>4. /\ x \in Session /\ x.wall = Spawned.wall /\ x.stack = Spawned.stack /\ x.last = Spawned.last
      /\ x.grace = Spawned.grace /\ x.silenceAt = Spawned.silenceAt /\ x.toolAt = Spawned.toolAt
      /\ x.aborted = signal /\ x.failed = Spawned.failed
  BY <1>1, <1>2, <1>3 DEF Session
<1>5. ~Spawned.aborted /\ ~Spawned.failed  BY DEF Spawned
<1> HIDE DEF x
<1>6. Bounded(0, {}, w)  BY <1>1, <1>3, <1>4, <1>5 DEF Bounded, Paired, Watched
<1>7. agent.tools = {} /\ agent \in [busy : BOOLEAN, tools : SUBSET [tool : Tools, start : Nat], leaving : BOOLEAN]
  BY DEF Init, Fresh
<1>8. QED  BY <1>1, <1>4, <1>6, <1>7 DEF Init, TypeOK, IInv, Exited

Agents == [busy : BOOLEAN, tools : SUBSET [tool : Tools, start : Nat], leaving : BOOLEAN]

LEMMA FreshOf == Fresh \in Agents /\ Fresh.tools = {} /\ Gone \in Agents /\ Gone.tools = {}
BY DEF Fresh, Gone, Agents

\* The session's part of a step: its record is well formed, and bounded while it is open.
SessionStep ==
  /\ now' \in Nat /\ agent' \in Agents /\ w' \in Session
  /\ proc' \in {"starting", "up", "killed", "closed"}
  /\ asked' \in {"none", "pending", "answered", "rejected"} /\ signal' \in BOOLEAN
  /\ IInv'

LEMMA SessionPreserved ==
  ASSUME TypeOK, IInv, [Next]_vars
  PROVE  SessionStep
<1> USE DEF SessionStep
<1>0. /\ now \in Nat /\ agent \in Agents /\ w \in Session /\ proc \in {"starting", "up", "killed", "closed"}
      /\ asked \in {"none", "pending", "answered", "rejected"} /\ signal \in BOOLEAN
      /\ Open => Bounded(now, agent.tools, w)
  BY DEF TypeOK, IInv, Agents
<1>1. CASE UNCHANGED vars  BY <1>0, <1>1 DEF vars, IInv, Open
<1>2. CASE Boot  BY <1>0, <1>2 DEF Boot, IInv, Open
<1>3. CASE SpawnFails  BY <1>0, <1>3 DEF SpawnFails, IInv, Open
<1>4. CASE PromptRefused  BY <1>0, <1>4 DEF PromptRefused, IInv, Open
<1>5. CASE Speak
  <2>1. proc = "up" /\ Bounded(now, agent.tools, w)  BY <1>0, <1>5 DEF Speak, Busy, Open
  <2>2. w' \in Session /\ Bounded(now, agent.tools, w')  BY <1>0, <1>5, <2>1, HeardBounded DEF Speak
  <2>3. QED  BY <1>0, <1>5, <2>1, <2>2 DEF Speak, IInv, Open
<1>6. CASE Answer
  <2>1. proc = "up" /\ Bounded(now, agent.tools, w)  BY <1>0, <1>6 DEF Answer, Open
  <2>2. w' \in Session /\ Bounded(now, agent.tools, w')  BY <1>0, <1>6, <2>1, HeardBounded DEF Answer
  <2>3. QED  BY <1>0, <1>6, <2>1, <2>2 DEF Answer, IInv, Open
<1>7. ASSUME NEW t \in Tools, ToolStart(t)  PROVE SessionStep
  <2> DEFINE e == [tool |-> t, start |-> now]
             U == agent.tools \cup {e}
  <2>1. proc = "up" /\ Bounded(now, agent.tools, w) /\ t \notin InFlight
    BY <1>0, <1>7 DEF ToolStart, Busy, Open
  <2>2. agent.tools \in SUBSET [tool : Tools, start : Nat]  BY <1>0 DEF Agents
  <2>3. e \notin agent.tools  BY <2>1 DEF InFlight
  <2>4. w' \in Session /\ Bounded(now, U, w')  BY <1>0, <1>7, <2>1, <2>2, <2>3, ToolStartedBounded DEF ToolStart
  <2>5. agent' = [agent EXCEPT !.tools = U] /\ U \in SUBSET [tool : Tools, start : Nat]
    BY <1>0, <1>7, <2>2 DEF ToolStart
  <2> HIDE DEF U
  <2>6. agent' \in Agents /\ agent'.tools = U  BY <1>0, <2>5 DEF Agents
  <2>7. QED  BY <1>0, <1>7, <2>1, <2>4, <2>6 DEF ToolStart, IInv, Open
<1>8. ASSUME NEW t \in agent.tools, ToolEnd(t)  PROVE SessionStep
  <2> DEFINE U == agent.tools \ {t}
  <2>1. proc = "up" /\ Bounded(now, agent.tools, w)  BY <1>0, <1>8 DEF ToolEnd, Open
  <2>2. agent.tools \in SUBSET [tool : Tools, start : Nat]  BY <1>0 DEF Agents
  <2>3. w' \in Session /\ Bounded(now, U, w')  BY <1>0, <1>8, <2>1, <2>2, ToolEndedBounded DEF ToolEnd
  <2>4. agent' = [agent EXCEPT !.tools = U] /\ U \in SUBSET [tool : Tools, start : Nat]
    BY <1>0, <1>8, <2>2 DEF ToolEnd
  <2> HIDE DEF U
  <2>5. agent' \in Agents /\ agent'.tools = U  BY <1>0, <2>4 DEF Agents
  <2>6. QED  BY <1>0, <1>8, <2>1, <2>3, <2>5 DEF ToolEnd, IInv, Open
<1>9. CASE Yield
  <2> DEFINE a == ToolStarted(w, "yield")
             b == ToolEnded(a)
             y == [b EXCEPT !.yielded = TRUE]
             e == [tool |-> "yield", start |-> now]
  <2>1. proc = "up" /\ Bounded(now, agent.tools, w)  BY <1>0, <1>9 DEF Yield, Busy, Open
  <2>2. /\ a \in Session /\ a.stack = Append(w.stack, e) /\ a.wall = w.wall
        /\ a.silenceAt = w.silenceAt /\ a.toolAt = w.toolAt
        /\ IF w.grace /\ ~isVerificationCommand("yield")
           THEN a.aborted /\ a.failed /\ ~a.grace
           ELSE a.aborted = w.aborted /\ a.failed = w.failed /\ a.grace = w.grace
    BY <1>0, ToolStartedOf
  <2>3. e \in Entry /\ w.stack \in Seq(Entry)  BY <1>0 DEF Entry, Session
  <2> HIDE DEF a, e
  <2>4. a.stack # <<>> /\ Front(a.stack) = w.stack
    <3>1. Append(w.stack, e) # <<>> /\ Front(Append(w.stack, e)) = w.stack  BY <2>3, AppendOf
    <3>2. QED  BY <2>2, <3>1
  <2>5. /\ b \in Session /\ b.stack = w.stack /\ b.last = now /\ b.wall = w.wall
        /\ b.silenceAt = w.silenceAt /\ b.toolAt = w.toolAt
        /\ b.grace = a.grace /\ b.aborted = a.aborted /\ b.failed = a.failed
    BY <1>0, <2>2, <2>4, ToolEndedOf
  <2> HIDE DEF b
  <2>6. /\ y \in Session /\ y.stack = w.stack /\ y.last = now /\ y.wall = w.wall
        /\ y.silenceAt = w.silenceAt /\ y.toolAt = w.toolAt
        /\ y.grace = a.grace /\ y.aborted = a.aborted /\ y.failed = a.failed
    BY <2>5 DEF Session
  <2>7. w' = y  BY <1>9 DEF Yield, a, b
  <2> HIDE DEF y
  <2>8. Paired(now, agent.tools, y)  BY <1>0, <2>1, <2>2, <2>6 DEF Bounded, Paired
  <2>9. w.silenceAt \in Nat  BY <1>0 DEF Session
  <2>10. ~y.aborted => Watched(now, agent.tools, y)
    <3>1. SUFFICES ASSUME ~y.aborted  PROVE Watched(now, agent.tools, y)  OBVIOUS
    <3>2. ~w.aborted /\ y.grace = w.grace  BY <2>2, <2>6, <3>1
    <3>3. Watched(now, agent.tools, w) /\ w.silenceAt <= now + SilenceCheck  BY <2>1, <3>2 DEF Bounded, Paired
    <3>4. y.stack = <<>> => y.silenceAt - SilenceCheck - y.last < Window
      BY <1>0, <2>6, <2>9, <3>3, Limits
    <3>5. QED  BY <2>6, <3>2, <3>3, <3>4 DEF Watched
  <2>11. Bounded(now, agent.tools, y)  BY <2>1, <2>2, <2>6, <2>8, <2>10 DEF Bounded
  <2>12. agent' \in Agents /\ agent'.tools = agent.tools  BY <1>0, <1>9 DEF Yield, Agents
  <2>13. QED  BY <1>0, <1>9, <2>1, <2>6, <2>7, <2>11, <2>12 DEF Yield, IInv, Open
<1>10. CASE Settle
  <2>1. proc = "up" /\ Bounded(now, agent.tools, w)  BY <1>0, <1>10 DEF Settle, Busy, Open
  <2>2. w' \in Session /\ Bounded(now, agent.tools, w')  BY <1>0, <1>10, <2>1, AgentSettledBounded DEF Settle
  <2>3. PICK c \in BOOLEAN : agent' = [agent EXCEPT !.busy = c]  BY <1>10 DEF Settle
  <2>4. agent' \in Agents /\ agent'.tools = agent.tools  BY <1>0, <2>3 DEF Agents
  <2>5. QED  BY <1>0, <1>10, <2>1, <2>2, <2>4 DEF Settle, IInv, Open
<1>11. ASSUME NEW capacity \in BOOLEAN, Close(capacity)  PROVE SessionStep
  BY <1>0, <1>11, FreshOf, SpawnedOf DEF Close, Unanswered, IInv, Open
<1>12. CASE Kill  BY <1>0, <1>12, FreshOf DEF Kill, IInv, Open
<1>13. CASE WallExpires  BY <1>0, <1>13, WallBounded DEF WallExpires, DueWall, Live, IInv, Open
<1>14. CASE GraceExhausted  BY <1>0, <1>14, GraceBounded DEF GraceExhausted, DueGrace, Live, IInv, Open
<1>15. CASE CheckSilence  BY <1>0, <1>15, SilenceBounded DEF CheckSilence, DueSilence, Live, IInv, Open
<1>16. CASE CheckTool  BY <1>0, <1>16, ToolCheckBounded DEF CheckTool, DueTool, Live, IInv, Open
<1>17. CASE RequestTimesOut  BY <1>0, <1>17 DEF RequestTimesOut, IInv, Open
<1>18. CASE Advance
  <2>1. Bounded(now + 1, agent.tools, w)  BY <1>18, AdvanceBounded
  <2>2. QED  BY <1>0, <1>18, <2>1 DEF Advance, Live, IInv, Open
<1>19. CASE SleepEnds
  <2>1. CASE signal  BY <1>0, <1>19, <2>1 DEF SleepEnds, IInv, Open
  <2>2. CASE ~signal
    <3>1. Bounded(0, {}, Spawned) /\ Spawned \in Session  BY SpawnedOf
    <3>2. QED  BY <1>0, <1>19, <2>2, <3>1, FreshOf DEF SleepEnds, IInv, Open
  <2>3. QED  BY <2>1, <2>2
<1>20. CASE FacadeAbort
  <2>1. w' \in Session /\ (Open => Bounded(now, agent.tools, w'))
    BY <1>0, <1>20, AbortOf, AbortBounded DEF FacadeAbort
  <2>2. QED  BY <1>0, <1>20, <2>1 DEF FacadeAbort, IInv, Open
<1>21. CASE SignalAborts
  <2>1. w' \in Session /\ (Open => Bounded(now, agent.tools, w'))
    BY <1>0, <1>21, AbortOf, AbortBounded DEF SignalAborts
  <2>2. QED  BY <1>0, <1>21, <2>1 DEF SignalAborts, IInv, Open
<1>22. QED
  BY <1>1, <1>2, <1>3, <1>4, <1>5, <1>6, <1>7, <1>8, <1>9, <1>10, <1>11, <1>12, <1>13, <1>14, <1>15,
     <1>16, <1>17, <1>18, <1>19, <1>20, <1>21 DEF Next

LEMMA FacadePreserved ==
  ASSUME TypeOK, Exited, [Next]_vars
  PROVE  facade' \in Outcomes /\ Exited' /\ (signal => facade'.attempt = facade.attempt)
<1> DEFINE Goal == facade' \in Outcomes /\ Exited' /\ (signal => facade'.attempt = facade.attempt)
<1>0. facade \in Outcomes /\ proc \in {"starting", "up", "killed", "closed"}  BY DEF TypeOK, Outcomes
<1>1. CASE UNCHANGED <<proc, facade>>  BY <1>0, <1>1 DEF Exited
<1>2. CASE Boot  BY <1>0, <1>2 DEF Boot, Exited
<1>3. CASE SpawnFails
  <2>1. facade.outcome = "pending" /\ ~facade.sleeping  BY <1>3 DEF SpawnFails, Exited
  <2>2. QED  BY <1>0, <1>3, <2>1, FailedOf DEF SpawnFails, Exited, Outcomes
<1>4. CASE PromptRefused
  <2>1. facade.outcome = "pending" /\ ~facade.sleeping  BY <1>4 DEF PromptRefused, Exited
  <2>2. QED  BY <1>0, <1>4, <2>1, FailedOf DEF PromptRefused, Exited, Outcomes
<1>5. ASSUME NEW capacity \in BOOLEAN, Close(capacity)  PROVE Goal
  <2>1. ~facade.sleeping /\ proc' = "closed"  BY <1>5 DEF Close, Exited
  <2>2. CASE UNCHANGED facade  BY <1>0, <2>1, <2>2 DEF Exited
  <2>3. CASE facade' = [facade EXCEPT !.outcome = "ok"]  BY <1>0, <2>1, <2>3 DEF Exited, Outcomes
  <2>4. CASE facade.outcome = "pending" /\ Failed(capacity)
    BY <1>0, <2>1, <2>4, FailedOf DEF Exited, Outcomes
  <2>5. QED  BY <1>5, <2>2, <2>3, <2>4 DEF Close
<1>6. CASE Kill  BY <1>0, <1>6 DEF Kill, DueKill, Live, Exited
<1>7. CASE SleepEnds
  <2>1. facade.sleeping /\ proc = "closed" /\ facade.outcome = "pending"  BY <1>7 DEF SleepEnds, Exited
  <2>2. CASE signal
    <3>1. facade' = [facade EXCEPT !.sleeping = FALSE, !.outcome = "failed"] /\ proc' = proc
      BY <1>7, <2>2 DEF SleepEnds
    <3>2. QED  BY <1>0, <2>1, <3>1 DEF Exited, Outcomes
  <2>3. CASE ~signal
    <3> DEFINE n == facade.attempt + 1
    <3>1. facade' = [facade EXCEPT !.sleeping = FALSE, !.attempt = n] /\ proc' = "starting"
      BY <1>7, <2>3 DEF SleepEnds
    <3>2. n \in Nat  BY <1>0 DEF Outcomes
    <3> HIDE DEF n
    <3>3. facade' \in Outcomes /\ ~facade'.sleeping /\ facade'.outcome = facade.outcome
      BY <1>0, <3>1, <3>2 DEF Outcomes
    <3>4. QED  BY <2>1, <2>3, <3>1, <3>3 DEF Exited
  <2>4. QED  BY <2>2, <2>3
<1>8. CASE FacadeAbort
  <2>1. facade' = [facade EXCEPT !.aborted = TRUE] /\ proc' = proc  BY <1>8 DEF FacadeAbort
  <2>2. QED  BY <1>0, <2>1 DEF Exited, Outcomes
<1>9. QED
  BY <1>1, <1>2, <1>3, <1>4, <1>5, <1>6, <1>7, <1>8
  DEF Next, vars, Speak, Answer, ToolStart, ToolEnd, Yield, Settle, WallExpires, GraceExhausted, CheckSilence,
      CheckTool, RequestTimesOut, Advance, SignalAborts

LEMMA StepPreserves ==
  ASSUME TypeOK, IInv, Exited, [Next]_vars
  PROVE  TypeOK' /\ IInv' /\ Exited'
<1>1. SessionStep  BY SessionPreserved
<1>2. facade' \in Outcomes /\ Exited'  BY FacadePreserved
<1>3. QED  BY <1>1, <1>2 DEF SessionStep, Agents, Outcomes, TypeOK

\* Every reachable state is well typed, its attempt paired and bounded, its exits in order.
THEOREM Invariant == Spec => [](TypeOK /\ IInv /\ Exited)
BY InitHolds, StepPreserves, PTL DEF Spec

\* The invariant bounds a hang: between two checks, by an interval more than the limit.
LEMMA BoundedHangs == ASSUME TypeOK, IInv  PROVE HangsBounded
<1> SUFFICES ASSUME Live, ~w.aborted
             PROVE  /\ agent.tools = {} => now - w.last < Window + SilenceCheck
                    /\ \A t \in agent.tools : now - t.start < ToolLimit + ToolCheck
                    /\ now <= Wall + Grace
                    /\ now > Wall => w.grace /\ \A t \in agent.tools : t.start > Wall => isVerificationCommand(t.tool)
  BY DEF HangsBounded
<1>1. Paired(now, agent.tools, w) /\ Watched(now, agent.tools, w)  BY DEF IInv, Live, Open, Bounded
<1>2. /\ now \in Nat /\ w.last \in Nat /\ w.silenceAt \in Nat /\ w.toolAt \in Nat /\ w.stack \in Seq(Entry)
      /\ \A t \in agent.tools : t.start \in Nat
  BY DEF TypeOK, Session
<1>3. w.stack = <<>> <=> agent.tools = {}
  <2>1. IsFiniteSet(agent.tools) /\ Len(w.stack) = Cardinality(agent.tools)  BY <1>1 DEF Paired
  <2>2. QED  BY <1>2, <2>1, NoEntries, FS_EmptySet
<1>4. agent.tools = {} => now - w.last < Window + SilenceCheck
  BY <1>1, <1>2, <1>3, Limits DEF Paired, Watched
<1>5. ASSUME NEW t \in agent.tools  PROVE now - t.start < ToolLimit + ToolCheck
  <2>1. w.stack # <<>>  BY <1>3
  <2>2. Head(w.stack).start \in Nat
    <3>1. Head(w.stack) \in Entry  BY <1>2, <2>1, HeadTailProperties
    <3>2. QED  BY <3>1 DEF Entry
  <2>3. Head(w.stack).start <= t.start /\ now <= w.toolAt
        /\ w.toolAt - ToolCheck - Head(w.stack).start < ToolLimit
    BY <1>1, <2>1 DEF Paired, Watched
  <2>4. t.start \in Nat  BY <1>2
  <2> DEFINE h == Head(w.stack).start
             s == t.start
  <2> HIDE DEF h, s
  <2>5. h \in Nat /\ s \in Nat /\ h <= s /\ now <= w.toolAt /\ w.toolAt - ToolCheck - h < ToolLimit
    BY <2>2, <2>3, <2>4 DEF h, s
  <2>6. now - s < ToolLimit + ToolCheck  BY <1>2, <2>5, Limits
  <2>7. QED  BY <2>6 DEF s
<1>6. now <= Wall + Grace /\ (now > Wall => w.grace)  BY <1>1, <1>2, Limits DEF Paired, Watched
<1>7. QED  BY <1>1, <1>4, <1>5, <1>6 DEF Watched

\* Whatever a worker hangs in, and although the entries may be of other tools than those in
\* flight, it is given up within a limit and one interval of the checks.
THEOREM HangsAreBounded == Spec => []HangsBounded
<1>1. TypeOK /\ IInv => HangsBounded  BY BoundedHangs
<1>2. QED  BY <1>1, Invariant, PTL

\* Nobody is told how an attempt ended, and no other attempt begins, before its process
\* has been killed or has closed.
THEOREM ResultsAfterExit == Spec => []ResultAfterExit
<1>1. Exited => ResultAfterExit  BY DEF Exited, ResultAfterExit
<1>2. QED  BY <1>1, Invariant, PTL

\* Once the caller's signal is up, no attempt is added to those that were made.
THEOREM SignalsStopRetries == Spec => SignalStopsRetries
<1>1. TypeOK /\ Exited /\ [Next]_vars => [signal => facade'.attempt = facade.attempt]_vars
  BY FacadePreserved
<1>2. QED  BY <1>1, Invariant, PTL DEF Spec, SignalStopsRetries

=============================================================================
