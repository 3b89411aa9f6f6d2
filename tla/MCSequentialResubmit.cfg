SPECIFICATION DaemonSpec
CONSTANTS
  Runs <- MCRuns
  RunnerStatuses <- MCRunnerStatuses
  MaxRev = 1
  MaxRetries = 0
  Procs <- MCProcs
  Kinds <- MCKinds
  Resubmit = TRUE
  MaxCrashes = 1
  MaxFaults = 0
INVARIANTS OutboxRecoverable
