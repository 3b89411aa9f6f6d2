CONSTANTS
  r1 = r1
  r2 = r2
  r3 = r3
  c1 = c1
  NoRun = NoRun
  Runs <- MCRuns
  Callers <- MCCallers
  Blockers <- MCBlockers
  MaxTime = 1
  AsyncOps = {"delete", "cleanup", "prune"}
SPECIFICATION Spec
SYMMETRY Symmetry
CHECK_DEADLOCK FALSE
INVARIANTS LineagesEnd ClaimableHasBody
PROPERTIES OneSuccessor NeverReopened
