SPECIFICATION FairSpec
CONSTANTS
    Datagrams = 2
    Capacity = 1
INVARIANTS
    TypeOK
    DatagramsInOrder
    NothingAfterClose
PROPERTIES
    PortIsReleased
    ClientSessionEnds
CHECK_DEADLOCK FALSE
