---------------------------- MODULE MCHttp2Probe ----------------------------
(* Instances of Http2Probe for TLC.                                        *)
EXTENDS Http2Probe, TLC

CONSTANTS t1, t2, t3, o1, o2

\* Interchangeable threads and origins
Symmetry == Permutations(Threads) \cup Permutations(Origins)

\* Every handshake fails
Failures == {None}
=============================================================================
