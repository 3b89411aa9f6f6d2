SPECIFICATION ParallelSpec
CONSTANT N = 2
INVARIANT SilentNeverMerged
CHECK_DEADLOCK FALSE
