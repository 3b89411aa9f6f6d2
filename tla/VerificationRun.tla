----------------------------- MODULE VerificationRun -----------------------------
(***************************************************************************)
(* The verification runner of core-v2 (verify/run.ts): the commands of a    *)
(* suite, one after another, each with a limit of its own, the suite under  *)
(* a wall that lets the command in flight finish within a grace.  Time is   *)
(* counted in ticks since the suite started.                                *)
(***************************************************************************)
EXTENDS Integers

CONSTANTS Commands,      \* number of commands in the suite
          CommandLimit, SuiteWall, SuiteGrace

ASSUME SuiteAssumption ==
  /\ Commands \in Nat
  /\ CommandLimit \in Nat \ {0} /\ SuiteWall \in Nat \ {0} /\ SuiteGrace \in Nat

VARIABLE suite   \* what runVerification keeps: its phase, the clock, the commands run, a failure

NoSuite == [phase |-> "idle", time |-> 0, due |-> 0, ran |-> 0, failed |-> FALSE]

SuiteTypeOK ==
  suite \in [phase : {"idle", "between", "running", "ended", "threw"}, time : Nat, due : Nat,
             ran : 0..Commands, failed : BOOLEAN]

Remaining == SuiteWall - suite.time

Least(a, b) == IF a <= b THEN a ELSE b

StartSuite == suite' = [NoSuite EXCEPT !.phase = "between"]

\* No command starts after the wall; the last one before it may use the grace.
StartCommand ==
  /\ suite.phase = "between" /\ suite.ran < Commands /\ Remaining > 0
  /\ suite' = [suite EXCEPT !.phase = "running",
                            !.due = suite.time + Least(CommandLimit, Remaining + SuiteGrace)]

\* A command exits, at most at its limit, with zero or not; the suite goes on either way.
CommandExits ==
  /\ suite.phase = "running"
  /\ \E ok \in BOOLEAN :
       suite' = [suite EXCEPT !.phase = "between", !.ran = @ + 1, !.failed = @ \/ ~ok, !.due = 0]

\* The limit kills the command: exit code 124.
CommandTimesOut ==
  /\ suite.phase = "running" /\ suite.time = suite.due
  /\ suite' = [suite EXCEPT !.phase = "between", !.ran = @ + 1, !.failed = TRUE, !.due = 0]

SuiteEnds ==
  /\ suite.phase = "between"
  /\ suite.ran = Commands \/ Remaining <= 0
  /\ suite' = [suite EXCEPT !.phase = "ended"]

\* The environment the commands run through fails.
SuiteThrows ==
  /\ suite.phase \in {"between", "running"}
  /\ suite' = [suite EXCEPT !.phase = "threw", !.due = 0]

\* Time passes while a command runs, up to its limit.
SuiteTick ==
  /\ suite.phase = "running" /\ suite.time < suite.due
  /\ suite' = [suite EXCEPT !.time = @ + 1]

SuiteStep == StartCommand \/ CommandExits \/ CommandTimesOut \/ SuiteEnds \/ SuiteThrows \/ SuiteTick

passed == suite.phase = "ended" /\ suite.ran = Commands /\ ~suite.failed

=============================================================================
