SPECIFICATION FairSpec
CONSTANTS
    InputSlots = 2
    OutputSlots = 2
    MaxOutput = 4
INVARIANTS TypeOK ShellHasKiller OutputComplete RelayedShellDies
PROPERTY EndsTogether
CHECK_DEADLOCK FALSE
