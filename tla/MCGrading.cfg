CONSTANTS
    controller = controller
    node = node
    inside = inside
    outside = outside
    daemon = daemon
    VMs <- TwoVms
    ResetVms <- Targets
    Processes <- ThreeKids
    Escaped <- TwoOut
    Silent <- Daemons
SPECIFICATION FairSpec
INVARIANTS
    NothingSurvives
    VerdictIsEarned
    ResetIsConsented
PROPERTIES
    GradingEnds
