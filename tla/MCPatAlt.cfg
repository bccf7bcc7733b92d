SPECIFICATION Spec
CONSTANTS
    Patterns <- MCPatterns
    Cases <- AltCases
    Graph <- MCGraph
    SafetyPerNode = 64
    SafetyBase = 256
    ArbnoCap = 64
    NoValue = NoValue
INVARIANT MatchesReference
CHECK_DEADLOCK FALSE
