SPECIFICATION FairSpec
CONSTANTS
    Patterns <- MCPatterns
    Cases <- MCCases
    Graph <- MCGraph
    SafetyPerNode = 4
    SafetyBase = 16
    ArbnoCap = 2
    NoValue = NoValue
INVARIANTS
    TypeOK
    CursorInAttempt
    ArbnoKeepsItsPositions
PROPERTIES
    Terminates
CHECK_DEADLOCK FALSE
