CONSTANTS
    N <- OneVm
SPECIFICATION FairSpec
PROPERTY RetryCompletes
CHECK_DEADLOCK FALSE
