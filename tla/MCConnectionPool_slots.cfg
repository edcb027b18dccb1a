SPECIFICATION Spec
CONSTANTS
    t1 = t1  t2 = t2  t3 = t3  k1 = k1  k2 = k2
    c1 = c1  c2 = c2  c3 = c3  c4 = c4
    Threads = {t1, t2}
    Closers = {k1}
    Conns = {c1, c2, c3}
    NoConn = NoConn
    MaxSize = 1
    Blocking = {TRUE, FALSE}
    Calls <- UsualCalls
    MaxRetries = 1
    MaxRequests = 2
    Faults = {"drop", "badlocation"}
SYMMETRY Symmetry
CHECK_DEADLOCK FALSE
INVARIANTS ExclusiveOwnership ConnectionLimit NoOpenOrphan
PROPERTY ImplementsSlots
