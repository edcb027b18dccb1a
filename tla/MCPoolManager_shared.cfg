SPECIFICATION Spec
CONSTANTS
    t1 = t1  t2 = t2
    p1 = p1  p2 = p2  p3 = p3  p4 = p4
    Threads = {t1, t2}
    Contexts <- MCContexts
    Options <- MCOptions
    SslKeywords = {"cert_reqs"}
    Base <- MCBase
    Default <- MCDefault
    Pools = {p1, p2, p3, p4}
    NoPool = NoPool
    num_pools = 2
    MaxSize = 1
    MaxRequests = 2
    MayClear = TRUE
SYMMETRY Symmetry
CHECK_DEADLOCK FALSE
INVARIANTS LeastRecentlyUsed RightPool
