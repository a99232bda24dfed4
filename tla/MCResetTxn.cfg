CONSTANTS
    N <- TwoVms
    Rank <- Alphabetical
SPECIFICATION FairSpec
INVARIANTS
    TypeOK
    DisksKept
    UnrecordedIsWhole
    AccessIsCurrent
PROPERTIES
    EndsWhole
    CommitStays
    DiskChangesOffline
    RetryFinishes
\* A lab whose guests are off and calm has nothing left to do.
CHECK_DEADLOCK FALSE
