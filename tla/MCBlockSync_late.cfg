SPECIFICATION FairSpec
CONSTANTS
    v = v  r = r  s = s  g = g  h1 = h1  h2 = h2  h3 = h3
    Node = {v, s}
    Validator = v
    Link <- PairLinks
    Joined <- NoLinks
    Hash = {g, h1, h2, h3}
    GenesisHash = g
    MaxHeight = 3
CHECK_DEADLOCK FALSE
INVARIANTS TypeOK PrefixOfValidator InFlightStored ResponseApplies SettledEqual
PROPERTY GossipEnds
