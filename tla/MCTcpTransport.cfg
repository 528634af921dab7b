SPECIFICATION FairSpec
CONSTANTS
    a = a  b = b  c1 = c1  c2 = c2  g1 = g1  g2 = g2
    m1 = m1  m2 = m2  m3 = m3
    Node = {a, b}
    Conn = {c1, c2}
    Caller = {g1, g2}
    Dialer <- MCDialer
    Message = {m1, m2, m3}
    Size <- MCSize
    LenSize = 2
    BufSize = 2
    Chunk = 2
    Cap = 1
    MaxEvents = 2
CHECK_DEADLOCK FALSE
INVARIANTS TypeOK InOrder OverwrittenByLaterFrame CanAnswer FailuresHaveOrigin
PROPERTIES Delivered
