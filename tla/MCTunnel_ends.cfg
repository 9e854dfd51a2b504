SPECIFICATION FairSpec
CONSTANTS
    MaxLinks = 1
    MaxSessions = 1
    MaxData = 2
    Capacity = 1
INVARIANTS
    StreamPrefix
    CompleteOnClose
PROPERTIES
    ServerRelayEnds
    ClientRelayEnds
CHECK_DEADLOCK FALSE
