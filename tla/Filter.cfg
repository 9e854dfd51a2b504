SPECIFICATION Spec
CONSTANTS
    Hosts = {h1, h2, h3}
    Loopback = {h1}
    PrivateNet = {h2}
    Ports = {p1, p2}
    MaxPorts = 2
    MaxRules = 2
INVARIANTS
    IInv
    LastMatchDecides
    FlagsBlock
    OnlySpecifiedPorts
CHECK_DEADLOCK FALSE
