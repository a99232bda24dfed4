CONSTANTS
    N <- TwoVms
    Rank <- TargetController
SPECIFICATION Spec
INVARIANT RetryAccepted
CHECK_DEADLOCK FALSE
