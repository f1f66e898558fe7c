CONSTANTS
    p = p
    q = q
    r = r
    v = v
    w = w
    None = None
    Keys = {p, q, r}
    Values = {v, w}
    Hashes <- MCHashes
    MinCap = 4
    MaxCap = 8
SPECIFICATION Spec
INVARIANT OneEntryPerKey
