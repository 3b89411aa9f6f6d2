CONSTANTS
  edit = edit
  suite = suite
  Tools <- MCTools
  Suites <- MCSuites
  TextArgs <- MCTools
  Wall = 3
  Grace = 1
  Window = 1
  ToolLimit = 1
  SilenceCheck = 2
  ToolCheck = 2
  KillDelay = 1
  RequestLimit = 2
  Retries = 1
  MaxTime = 6
SPECIFICATION FairSpec
CHECK_DEADLOCK FALSE
INVARIANTS HangsBounded ResultAfterExit
PROPERTIES SignalStopsRetries RunSettles
