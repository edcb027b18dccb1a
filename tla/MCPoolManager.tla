---------------------------- MODULE MCPoolManager ----------------------------
(* Instances of PoolManager for TLC: two hosts, one of them spelt in two   *)
(* ways, with and without its port, over https with an override that       *)
(* takes the manager's option away, and with options that say nothing new. *)
EXTENDS PoolManager, TLC

CONSTANTS t1, t2, p1, p2, p3, p4

\* Interchangeable threads and pools
Symmetry == Permutations(Threads) \cup Permutations(Pools)

MCOptions == {"blocksize", "cert_reqs", "headers"}
MCDefault == [o \in MCOptions |-> IF o = "blocksize" THEN "16384" ELSE None]
MCBase == [blocksize |-> None, cert_reqs |-> "CERT_NONE", headers |-> Absent]
Asked(o, value) == [p \in MCOptions |-> IF p = o THEN value ELSE Absent]
Context(scheme, host, spelling, port, override) ==
    [scheme |-> scheme, host |-> host, spelling |-> spelling, port |-> port,
     override |-> override]
MCContexts ==
    { Context("http", "a", "a", DefaultPort, Asked("headers", Absent)),
      Context("http", "a", "A", 80, Asked("blocksize", "16384")),
      Context("https", "a", "a", DefaultPort, Asked("headers", None)),
      Context("https", "a", "a", 443, Asked("cert_reqs", None)),
      Context("http", "b", "b", DefaultPort, Asked("headers", Absent)) }
==============================================================================
