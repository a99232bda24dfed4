CONSTANTS
    N <- ThreeVms
    DependsOn <- Chain
SPECIFICATION FairSpec
INVARIANTS
    CleanupOrder
    DependantsFirst
PROPERTIES
    UnforcedLeavesGuests
    RetryFinishes
    ImplementsRemoval
\* A lab that is gone has nothing left to do.
CHECK_DEADLOCK FALSE
