SPECIFICATION FairSpec
CONSTANTS
    Codes <- MCCodes
    MaxFrames = 16
    MaxInt = 200
    MaxGens = 6
    MaxOut = 70
    Fuel = 90
INVARIANTS
    TypeOK
    ExactOutput
    FramesBalance
PROPERTIES
    CallsRestoreState
    ExactEnds
CHECK_DEADLOCK FALSE
