\* Statements nested four deep, two calls, four steps, blocks of two statements,
\* indices of two bits.
CONSTANTS
    MaxDepth = 4
    MaxCalls = 2
    StepLimit = 4
    Indices = 4
    MaxStmts = 2
SPECIFICATION Spec
INVARIANTS TypeOK 
PROPERTIES JumpsLand FoldEnds
\* An evaluation stops.
CHECK_DEADLOCK FALSE
