CONSTANTS
    x = x
    g = g
    p = p
    Ints = {x, g}
    Pointers = {p}
    Constants <- MCConstants
    Signatures <- MCSignatures
    MaxFrames = 3
    MaxScopes = 2
    MaxLocations = 4
SPECIFICATION NamesSpec
INVARIANT NamesAgree
CHECK_DEADLOCK FALSE
