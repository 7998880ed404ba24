SPECIFICATION Spec
CONSTANTS
    InputSlots = 1
    OutputSlots = 1
    MaxOutput = 1
INVARIANT ShellDiesWithPeer
CHECK_DEADLOCK FALSE
