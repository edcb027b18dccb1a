SPECIFICATION Spec
CONSTANTS
    t1 = t1  t2 = t2  t3 = t3  k1 = k1  k2 = k2
    c1 = c1  c2 = c2  c3 = c3  c4 = c4
    Threads = {t1, t2}
    Closers = {}
    Conns = {c1, c2, c3}
    NoConn = NoConn
    MaxSize = 1
    Blocking = {TRUE}
    Calls <- PlainCalls
    MaxRetries = 1
    MaxRequests = 2
    Faults = {"interrupt"}
CHECK_DEADLOCK FALSE
INVARIANT NoFullPoolError
