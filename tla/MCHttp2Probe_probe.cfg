SPECIFICATION FairProbeSpec
CONSTANTS
    t1 = t1  t2 = t2  t3 = t3  o1 = o1  o2 = o2
    Nobody = Nobody
    Threads = {t1, t2, t3}
    Origins = {o1}
    Handshakes <- AllHandshakes
    MaxConnects = 2
CHECK_DEADLOCK FALSE
INVARIANTS OneProber Agreement
PROPERTY ProberReleases
