CONSTANTS
    e = e
    a = a
    b = b
    c = c
    d = d
    s = s
    sa = sa
    sb = sb
    sc = sc
    se = se
    x = x
    old = old
    None = None
    Files <- MCFiles
    Entry = e
    Specs <- MCSpecs
    Legacy = {old}
    Dotted <- MCDotted
    Dirs <- MCDirs
    DirOf <- MCDirOf
    At <- MCAt
    SearchDirs <- MCSearchDirs
    Sources <- MCSources
SPECIFICATION Spec
INVARIANTS TypeOK LoadedOnce DependencyOrder Complete
INVARIANTS CyclesReported SafetyNetIdle
PROPERTIES Terminates
CHECK_DEADLOCK FALSE
