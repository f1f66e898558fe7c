CONSTANTS
    Scalars <- MCScalars
    Aligns = {8}
    Widths = {12}
    MaxFields = 2
    MaxTypes = 1
SPECIFICATION Spec
INVARIANT LayoutIsTheTargets
CHECK_DEADLOCK FALSE
