SPECIFICATION FairSpec
CONSTANTS
    Datagrams = 2
    Capacity = 1
PROPERTY
    ServerStopsWithLink
CHECK_DEADLOCK FALSE
