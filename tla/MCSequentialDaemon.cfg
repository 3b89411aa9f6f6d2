SPECIFICATION FairSpec
CONSTANTS
  Runs <- MCRuns
  RunnerStatuses <- MCRunnerStatuses
  MaxRev = 3
  MaxRetries = 1
  Procs <- MCProcs
  Kinds <- MCKinds
  Resubmit = FALSE
  MaxCrashes = 2
  MaxFaults = 2
INVARIANTS ParentRunsOnce OutboxRecoverable WorkspaceOutlivesRecovery FinalReceiptLast ManifestMatchesContinuation
PROPERTIES NoRespawnAfterOutbox EdgeDecided OutboxDelivered OwnedTasksNotRetried
