SPECIFICATION FairDetached
CONSTANTS
  Items = {i1, i2}
  MaxJobs = 2
  Commands = {c1, c2}
  MaxFixes = 1
  N = 2
INVARIANTS HandleKept GreenIsComplete PollDirtNotSwept ShipIsReviewed GreenIsIntegrated PartialNeverMerged StatusForward EndedIsDecided
PROPERTIES RunDecided
CHECK_DEADLOCK FALSE
