SPECIFICATION ParallelSpec
CONSTANT N = 2
INVARIANT GreenRecoverySucceeds
CHECK_DEADLOCK FALSE
