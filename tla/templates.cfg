SPECIFICATION Spec
CONSTANTS
    Structs = {"A", "B"}
    Aliases = {"L"}
    Functions = {"f", "g"}
    TextOrder <- MCTextOrder
    Programs <- MCPrograms
    UsePaths <- MCUsePaths
    MaxDepth = 3
    MaxUseDepth = 2
    MaxUses = 2
    MaxCalls = 5
INVARIANTS TypeOK AnalysedOnce EmittedIsAnalysed LayoutsKnown RecursionIsReal FailuresShow
 
CHECK_DEADLOCK FALSE
