SPECIFICATION Spec
CONSTANTS
    Hash = {a, b}
    Refused = {}
    max = 2
    MaxClock = 2
INVARIANT NoTxLost
