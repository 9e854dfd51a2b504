SPECIFICATION Spec
CONSTANTS
    MaxLinks = 2
    MaxFrames = 1
    MaxEvents = 1
    MaxChunks = 1
    Capacity = 1
    MaxDelay = 3
    SendErrors = FALSE
PROPERTY
    BackoffGrows
CHECK_DEADLOCK FALSE
