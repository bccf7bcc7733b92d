SPECIFICATION FairSpec
CONSTANTS
    N = 2
    Events <- MCEvents
    MaxEvents = 2
    PipeCap = 2
    PipeBuf = 2
    JunkRecords <- MCJunkRecords
    Keywords = {"&k"}
    WILDCARD_NAMES_PARTICIPANTS = {}
    SkipModes = {TRUE, FALSE}
    SKIP_MAX_PER_STEP = 1
INVARIANTS
    TypeOK
    AheadByOne
    HeldIsSaid
PROPERTIES
    Implements
    ControllerEnds
    ParticipantsReleased
CHECK_DEADLOCK FALSE
