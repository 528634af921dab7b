SPECIFICATION FairSpec
CONSTANTS
    p = p  q = q  k = k
    Peer = {p, q}
    Stops = {p}
    Proc <- MCProc
    Script <- MCScript
    Cap = 1
    Cast = {k}
CHECK_DEADLOCK FALSE
INVARIANTS TypeOK LocksBalanced
PROPERTIES HungForGood CallsReturn StartReturns QuietAfterReturn BlockTimeReliable RpcLoopComesBack
