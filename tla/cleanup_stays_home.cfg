CONSTANTS
    Names = {x}
    MaxStmts = 6
    MaxDepth = 7
SPECIFICATION Spec
INVARIANT CleanupStaysHome
CHECK_DEADLOCK FALSE
