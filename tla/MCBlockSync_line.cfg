SPECIFICATION Spec
CONSTANTS
    v = v  r = r  s = s  g = g  h1 = h1  h2 = h2  h3 = h3
    Node = {v, r, s}
    Validator = v
    Link <- LineLinks
    Joined <- LineJoined
    Hash = {g, h1, h2}
    GenesisHash = g
    MaxHeight = 2
SYMMETRY HashSymmetry
CHECK_DEADLOCK FALSE
INVARIANT SettledInDelta
