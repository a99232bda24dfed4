CONSTANTS
    c = c
    s = s
    t = t
    Controller = c
    Targets <- Both
    Keys <- KeySet
    Selections <- Resets
SPECIFICATION FairSpec
INVARIANTS
    ReadyIsConnected
PROPERTIES
    KeyIsStable
    AccessReturns
