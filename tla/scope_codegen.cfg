CONSTANTS
    Names = {x}
    MaxStmts = 7
    MaxDepth = 7
SPECIFICATION Spec
INVARIANTS StacksBalanced RunsOnce StringsReleased
PROPERTIES ImplementsDefer OnlyUnbracedSkips
CHECK_DEADLOCK FALSE
