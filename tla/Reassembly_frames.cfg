SPECIFICATION Spec
CONSTANTS
    Types = {1, 4}
    SessionIds = {1, 2}
    PayloadBytes = {0, 4}
    MaxPayload = 2
    MaxFrames = 3
    LINK_MDU = 2
    MaxLost = 1
INVARIANTS
    TypeOK
    ReceivedPrefix
    NothingHeldBack
    ExactBeforeLoss
CHECK_DEADLOCK FALSE
