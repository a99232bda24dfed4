CONSTANTS
    N <- ThreeVms
    DependsOn <- Chain
SPECIFICATION FairSpec
PROPERTIES
    InterruptedIsRetried
\* A lab that is gone has nothing left to do.
CHECK_DEADLOCK FALSE
