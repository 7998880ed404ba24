SPECIFICATION FairSpec
CONSTANTS
    Keys = {ctrl, c, a}
    Buttons = {left, right}
    Modifier = ctrl
    Letter = c
    KeyLimit = 2
    QueueSlots = 2
INVARIANTS TypeOK HeldRemembered
PROPERTIES BlurReleases StopReleases
CHECK_DEADLOCK FALSE
