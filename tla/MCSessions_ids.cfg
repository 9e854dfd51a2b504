SPECIFICATION Spec
CONSTANTS
    IsUtf8 <- Ascii
    Options <- TcpOrBoth
    MaxLinks = 2
    MaxWork = 4
    MaxOpen = 2
    SidSpan = 2
    Capacity = 1
INVARIANTS
    TypeOK
    OwnFrames
    LeaksOnlyFailures
PROPERTIES
    EntriesAreKept
    ImplementsConnectService
CHECK_DEADLOCK FALSE
