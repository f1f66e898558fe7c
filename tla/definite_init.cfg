CONSTANTS
    Names = {x}
    Exprs <- MCExprs
    Tests <- MCTests
    MaxStmts = 6
    MaxDepth = 4
SPECIFICATION Spec
INVARIANTS TypeOK NoSilentRead NoFalseAlarm UnreachableIsDead
CHECK_DEADLOCK FALSE
