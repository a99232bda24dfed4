CONSTANTS
    N <- TwoVms
SPECIFICATION FairSpec
INVARIANTS
    TypeOK
    CleanupOrder
    BareIsAdoptable
    ReadyIsComplete
    RefusedHoldsNoResource
PROPERTIES
    ForeignUntouched
    CommitIsFinal
    RecoveryCompletes
    ImplementsContract
\* A ready lab, and a journal that validation refuses, may stay as they are.
CHECK_DEADLOCK FALSE
