SPECIFICATION FairSpec
CONSTANTS
  w1 = w1
  w2 = w2
  Agg = agg
  Workers <- MCWorkers
  Faults <- MCFaults
  Commands = 2
  CommandLimit = 2
  SuiteWall = 2
  SuiteGrace = 1
INVARIANTS CompletedIsProven WorkIsKept
PROPERTIES RunDecides
CHECK_DEADLOCK FALSE
