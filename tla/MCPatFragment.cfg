SPECIFICATION Spec
CONSTANTS
    Patterns <- MCPatterns
    Cases <- MCCases
    Graph <- MCGraph
    SafetyPerNode = 64
    SafetyBase = 256
    ArbnoCap = 64
    NoValue = NoValue
INVARIANTS
    MatchesReference
    CapturesMatchReference
CHECK_DEADLOCK FALSE
