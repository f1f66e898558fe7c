CONSTANTS
    Scalars <- MCScalars
    Aligns = {8}
    Widths = {12}
    MaxFields = 3
    MaxTypes = 2
SPECIFICATION Spec
INVARIANTS MembersApart TargetsMet RebuildAgrees
CHECK_DEADLOCK FALSE
