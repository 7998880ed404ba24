SPECIFICATION FairSpec
CONSTANTS
    Workers = {w1, w2}
    Names = {n1}
    Bytes = {b1}
    Max = 2
    QuotaFiles = 1
    Chunk = 1
    QueueSlots = 1
INVARIANTS TypeOK WithinLimits TemporariesAccounted
PROPERTIES FolderSpec StoppedEnds
CHECK_DEADLOCK FALSE
