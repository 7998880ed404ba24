SPECIFICATION Spec
CONSTANTS
    Checkers = {poll, updateNow}
    Newest = 2
    Bogus = Bogus
    Absent = Absent
INVARIANTS TypeOK InstalledVerified FailedUpdateUndone
PROPERTY ExecutableSpec
CHECK_DEADLOCK FALSE
