CONSTANTS
  w1 = w1
  w2 = w2
  t1 = t1
  t2 = t2
  Workers <- OneWorker
  Tools <- TwoTools
  Wall = 6
  Window = 2
  ToolLimit = 3
  Interval = 2
  MaxTurns = 2
  HostTimeout = 5
  MaxTime = 8
SPECIFICATION FairSpec
CHECK_DEADLOCK FALSE
INVARIANTS HangsBounded
PROPERTIES SilenceIsSilence YieldIsHeard RunEnds
