-------------------------- MODULE MCConnectionPool --------------------------
(* Instances of ConnectionPool for TLC.                                    *)
EXTENDS ConnectionPool, TLC

CONSTANTS t1, t2, t3, k1, k2, c1, c2, c3, c4

\* Interchangeable threads and connections
Symmetry == Permutations(Threads) \cup Permutations(Conns)

\* urlopen(...) and urlopen(preload_content=False) ...
PlainCalls == {[preload |-> TRUE, release |-> TRUE, timeout |-> FALSE],
               [preload |-> FALSE, release |-> FALSE, timeout |-> FALSE]}

\* ... and the first of them with a pool_timeout
UsualCalls == {[preload |-> TRUE, release |-> TRUE, timeout |-> TRUE],
               [preload |-> FALSE, release |-> FALSE, timeout |-> FALSE]}
=============================================================================
