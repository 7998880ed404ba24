SPECIFICATION Spec
CONSTANTS
    Sessions = {s1, s2}
    Commands = {}
    AllowTerminal = TRUE
    AllowDesktop = TRUE
    AllowReboot = TRUE
    ElevationAvailable = FALSE
    RelaySlots = 1
    RebootLimit = 1
    WireSlots = 2
    MaxDeliveries = 2
    OneAtATime = TRUE
INVARIANT EndedKeepsSocket
