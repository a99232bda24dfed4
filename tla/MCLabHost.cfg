CONSTANTS
    None = None
    p = p
    q = q
    a = a
    b = b
    Procs <- Both
    Scenarios <- Host
    VM <- TwoVms
    Selections <- Some
    Digests <- Contents
    Pinned <- TheOne
    Local <- Imported
    Vouched <- NoOther
    Versions <- Edited
    Original <- First
    Text <- Texts
    MaxChanges = 1
    MaxGiven = 2
SPECIFICATION FairSpec
INVARIANTS
    CreatedIsTrusted
    CreatedIsExact
    ReferencesAreSound
    StatusIsHonest
PROPERTIES
    CommandsEnd
\* When no more command is given the host is at rest.
CHECK_DEADLOCK FALSE
