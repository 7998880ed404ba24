SPECIFICATION Spec
CONSTANTS
    Sessions = {s1, s2}
    Commands = {c1}
    AllowTerminal = FALSE
    AllowDesktop = TRUE
    AllowReboot = TRUE
    ElevationAvailable = FALSE
    RelaySlots = 1
    RebootLimit = 2
    WireSlots = 2
    MaxDeliveries = 2
    OneAtATime = FALSE
INVARIANTS TypeOK NoFrameAfterClose RebootOncePerConnection
PROPERTY SlotSpec PeersUnderGrant
