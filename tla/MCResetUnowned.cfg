CONSTANTS
    N <- TwoVms
    Rank <- Alphabetical
SPECIFICATION Spec
INVARIANT UnownedKeepsRecord
CHECK_DEADLOCK FALSE
