SPECIFICATION LedgerSpec
CONSTANTS
  Runs <- MCRuns
  MaxRev = 1
  MaxRetries = 0
  RunnerStatuses <- MCRunnerStatuses
INVARIANTS OverlayNeverHidesOutcome LinkedFixesOutcome
PROPERTIES ImplementsChildEdge
CHECK_DEADLOCK FALSE
