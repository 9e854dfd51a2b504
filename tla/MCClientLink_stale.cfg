SPECIFICATION FairSpec
CONSTANTS
    MaxLinks = 2
    MaxFrames = 1
    MaxEvents = 2
    MaxChunks = 1
    Capacity = 1
    MaxDelay = 1
    SendErrors = FALSE
PROPERTY
    IsConnectedTellsLink
CHECK_DEADLOCK FALSE
