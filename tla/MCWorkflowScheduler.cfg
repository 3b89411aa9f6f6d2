CONSTANTS
  n1 = n1
  n2 = n2
  n3 = n3
  n4 = n4
  ghost = ghost
  Nodes <- FourNodes
  Ids <- FourIds
  Input <- FourInput
  Workflows <- FourWorkflows
  MaxFanOut = 2
  Requests = {2, 5}
SPECIFICATION FairSpec
CHECK_DEADLOCK FALSE
INVARIANTS DependenciesFirst RefusedIffFaulty
PROPERTIES ImplementsWorkflowRun BuildEnds
