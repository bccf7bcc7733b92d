SPECIFICATION FairSpec
CONSTANTS
    Codes <- MCCodes
    MaxSlot = 3
    MaxVars = 20
    MaxOut = 18
INVARIANTS
    TypeOK
    ResumeRestores
    ExactAnswers
    SoundAnswers
    EnvIsOwn
PROPERTY
    ExactEnds
CHECK_DEADLOCK FALSE
