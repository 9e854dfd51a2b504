SPECIFICATION Spec
CONSTANTS
    MaxLinks = 2
    MaxSessions = 1
    MaxData = 1
    Capacity = 1
INVARIANTS
    TypeOK
    RelayOnCurrentLink
    NothingDiscarded
PROPERTY
    ImplementsLinkService
CHECK_DEADLOCK FALSE
