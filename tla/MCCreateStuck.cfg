CONSTANTS
    N <- OneVm
SPECIFICATION Spec
INVARIANT AbsentIsAccepted
CHECK_DEADLOCK FALSE
