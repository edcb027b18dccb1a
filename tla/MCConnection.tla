----------------------------- MODULE MCConnection -----------------------------
(* Six routes to a server, each with a few demands on certificates, and    *)
(* certificates that satisfy some of them.                                 *)
EXTENDS Connection

CONSTANT MCRoutes, MCMaxTotal

MCLabel == {"a", "b", "c", "org", "*", "a*", "**"}
MCStars == [l \in MCLabel |-> IF l = "**" THEN 2 ELSE IF l \in {"*", "a*"} THEN 1 ELSE 0]
MCFits == [l \in MCLabel |-> CASE l = "*"  -> {"a", "b", "c", "org"}
                               [] l = "a*" -> {"a"}
                               [] OTHER    -> {}]

A == Dns(<<"a", "org">>)
B == Dns(<<"b", "org">>)
C == Ip("c")

Cert(chain, print, san, cn) ==
  [chain |-> chain, fingerprint |-> print, san |-> san, cn |-> cn]
MCCerts ==
  { Cert(TRUE, FALSE, <<A>>, <<>>),
    Cert(TRUE, FALSE, <<C, B>>, <<>>),
    Cert(TRUE, FALSE, <<>>, <<A>>),
    Cert(TRUE, FALSE, <<Dns(<<"**", "org">>), Dns(<<"*", "org">>)>>, <<>>),
    Cert(TRUE, FALSE, <<Dns(<<"a*", "org">>)>>, <<A>>),
    Cert(FALSE, TRUE, <<B>>, <<>>) }

Base == [scheme |-> "https", tls |-> TRUE, proxy |-> "none",
         forwarding |-> FALSE, target |-> A, proxyHost |-> B,
         certReqs |-> "unset", fingerprint |-> FALSE, assert |-> Unset,
         serverHostname |-> Unset, ctx |-> NoCtx, proxyCtx |-> NoCtx,
         proxyFingerprint |-> FALSE, proxyAssert |-> Unset]
Routes ==
  [plain    |-> [Base EXCEPT !.scheme = "http", !.tls = FALSE],
   forward  |-> [Base EXCEPT !.scheme = "http", !.tls = FALSE, !.proxy = "http"],
   tls      |-> Base,
   forwards |-> [Base EXCEPT !.proxy = "https", !.forwarding = TRUE],
   tunnel   |-> [Base EXCEPT !.proxy = "http"],
   tunnels  |-> [Base EXCEPT !.proxy = "https"]]

Context(mode, check, cn) == [mode |-> mode, check |-> check, cn |-> cn]
Demands(c) ==
  { c, [c EXCEPT !.fingerprint = TRUE, !.proxyAssert = C],
    [c EXCEPT !.certReqs = "none", !.proxyFingerprint = TRUE],
    [c EXCEPT !.assert = Unchecked, !.ctx = Context("required", TRUE, TRUE)],
    [c EXCEPT !.assert = B, !.certReqs = "optional"],
    [c EXCEPT !.ctx = Context("none", FALSE, TRUE), !.serverHostname = C],
    [c EXCEPT !.ctx = Context("required", FALSE, TRUE),
              !.proxyCtx = Context("required", TRUE, FALSE)],
    [c EXCEPT !.certReqs = "none", !.proxyCtx = Context("none", TRUE, TRUE)] }
MCConfigs ==
  UNION { IF Routes[r].tls THEN Demands(Routes[r]) ELSE {Routes[r]} : r \in MCRoutes }

MCTimeouts ==
  { [total |-> Forever, connect |-> Forever, read |-> Forever],
    [total |-> MCMaxTotal, connect |-> Forever, read |-> Forever],
    [total |-> Forever, connect |-> 1, read |-> 2] }
================================================================================
