SPECIFICATION FairSpec
CONSTANTS
    Keys = {ctrl, c, a}
    Buttons = {left}
    Modifier = ctrl
    Letter = c
    KeyLimit = 2
    QueueSlots = 2
INVARIANT KeysReleasedAtEnd
CHECK_DEADLOCK FALSE
