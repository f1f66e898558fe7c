CONSTANTS
    a = a
    b = b
    m1 = m1
    m2 = m2
    None = None
    Never = Never
    Values = {a, b}
    Buffers = {m1, m2}
    MinCap = 2
    MaxCap = 4
    MaxUsize = 15
    Positions = {0, 1, 2, 3}
    Sizes = {0, 1, 3, 9}
SPECIFICATION Spec
INVARIANTS TypeOK OnlyHugeDequesHang
PROPERTIES ImplementsSequence OnlyEmptiedVecLeaks CompileTimeAgrees
CHECK_DEADLOCK FALSE
