SPECIFICATION FairSpec
CONSTANTS
    MaxLinks = 2
    MaxConnects = 2
    MaxData = 1
    Capacity = 1
    Addresses <- PublicAndLocal
    Allowed <- Public
INVARIANTS
    TypeOK
    AddressStable
    ReachesOnlyAllowed
    OwnData
PROPERTIES
    ConnectAnswered
    LinksForgotten
CHECK_DEADLOCK FALSE
