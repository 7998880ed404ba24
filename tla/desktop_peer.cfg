SPECIFICATION FairSpec
CONSTANTS
    PartSize = 2
    FrameLimit = 3
    ReplyLimit = 2
    MaxLength = 4
    RelaySlots = 2
    MaxMessages = 3
    Optional = {"audio", "files"}
INVARIANTS TypeOK WholeMessages
PROPERTIES PipeSpec TasksFit PartialResolved StopEndsAll
CHECK_DEADLOCK FALSE
