SPECIFICATION FairSpec
CONSTANTS
    MaxLinks = 3
    MaxFrames = 3
    MaxEvents = 2
    MaxChunks = 2
    Capacity = 1
    MaxDelay = 3
    SendErrors = TRUE
INVARIANTS
    TypeOK
    ClosedIsCurrent
    BufferOneLink
    FramesInOrder
PROPERTIES
    ImplementsLinkService
    ReconnectCompletes
CHECK_DEADLOCK FALSE
