SPECIFICATION Spec
CONSTANTS
    MaxLinks = 1
    MaxSessions = 1
    MaxData = 0
    Capacity = 1
INVARIANT
    RefusedIsReplied
CHECK_DEADLOCK FALSE
