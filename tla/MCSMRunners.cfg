SPECIFICATION Spec
CONSTANTS
    Names <- VarNames
    Literals <- Texts
    Functions <- DefinedFunctions
    Entry <- Labels
    Params <- OneParam
    Locals <- LocalLL
    Programs <- MCPrograms
    Machines <- MCMachines
    NoName = NoName
    SavedMax = 4
    HookSavedMax = 5
    StLimit = 40
    NestMax = 3
    Pairings <- MCPairings
INVARIANTS
    RunnersAgree
