CONSTANTS
    N <- TwoVms
    DependsOn <- Pair
    Participants <- Both
    MaxEvents <- OneEvent
SPECIFICATION FairSpec
INVARIANTS
    RecordIsConsistent
    RollbackRestoresPower
    SelectionIsClosed
PROPERTIES
    RecordTellsPower
    DependencyOrder
    StartGetsReady
