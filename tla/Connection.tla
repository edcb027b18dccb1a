------------------------------ MODULE Connection ------------------------------
(***************************************************************************)
(* One slot of a pool and the HTTPConnection or HTTPSConnection in it,     *)
(* over a sequence of attempts (connection.py, and what connectionpool.py  *)
(* and http.client do to the connection in one attempt): it is checked     *)
(* out, connected to an origin or a proxy, tunnelled, wrapped in TLS once  *)
(* or twice, sends a request, waits for the response and goes back, or     *)
(* fails at any of these steps and is closed.                              *)
(*                                                                         *)
(* Requests are numbered.  "wire" is the socket and what lies behind it:   *)
(* who reads what is written, which certificates the handshakes showed,    *)
(* and whose responses are still to be read.  "conn" is what the object    *)
(* itself remembers of all this.  Time is counted in ticks that pass only  *)
(* in calls that block.                                                    *)
(***************************************************************************)
EXTENDS HostName, Integers, FiniteSetsExt, SequencesExt

CONSTANTS
  Configs,       \* the configurations of pools
  Certs,         \* the certificates servers show
  Timeouts,      \* the Timeout objects of requests
  Forever,       \* a timeout of None
  Addresses,     \* the addresses a host name resolves to
  MaxAttempts,   \* bound: the attempts of a behaviour
  MaxWait,       \* bound: the ticks one call blocks
  PyOpenSSL,     \* IS_PYOPENSSL, or no way to ignore common names
  MayCloseInFlight  \* whether a caller closes a response it had released
                    \* unread while the rest of it is still on its way

VARIABLES cfg, pc, conn, slot, wire, ctx, timeout, elapsed, next, attempt, got, failure
vars == <<cfg, pc, conn, slot, wire, ctx, timeout, elapsed, next, attempt, got, failure>>

Unset == [kind |-> "unset"]
Unchecked == [kind |-> "unchecked"]        \* assert_hostname=False
NoCtx == [mode |-> "no context"]
Modes == {"required", "optional", "none"}
Contexts == {NoCtx} \cup [mode : Modes, check : BOOLEAN, cn : BOOLEAN]

ASSUME ConnectionAssumption ==
  /\ {Addresses, MaxAttempts, MaxWait} \subseteq Nat \ {0}
  /\ Forever \in Nat /\ Forever > MaxWait
  /\ {PyOpenSSL, MayCloseInFlight} \subseteq BOOLEAN
  /\ \A t \in Timeouts : {t.total, t.connect, t.read} \subseteq 1 .. Forever
  /\ \A c \in Certs : /\ {c.chain, c.fingerprint} \subseteq BOOLEAN
                      /\ c.san \in Seq(Names) /\ c.cn \in Seq(Names)

(***************************************************************************)
(* util/timeout.py: connect_timeout, and read_timeout e ticks after        *)
(* start_connect.                                                          *)
(***************************************************************************)
ConnectTimeout(t) == Min({t.total, t.connect})
(* Mutants of ReadTimeout: what connecting took is not taken off; nothing  *)
(* keeps the rest from going below zero.                                   *)
ReadTimeoutWhole(t, e) == Min({t.total, t.read})
ReadTimeoutBelow(t, e) == IF t.total = Forever THEN t.read ELSE Min({t.total - e, t.read})

ReadTimeout(t, e) ==
  IF t.total = Forever THEN t.read ELSE Max({0, Min({t.total - e, t.read})})

(***************************************************************************)
(* connection_requires_http_tunnel.                                        *)
(***************************************************************************)
RequiresTunnel(c) == c.proxy # "none" /\ c.scheme = "https"
                     /\ ~(c.proxy = "https" /\ c.forwarding)

(* A tunnel is made for the pool of an https URL, which uses TLS.          *)
ASSUME ConfigsAssumption ==
  \A c \in Configs :
    /\ c.proxy \in {"none", "http", "https"}
    /\ {c.tls, c.forwarding, c.fingerprint, c.proxyFingerprint} \subseteq BOOLEAN
    /\ c.certReqs \in Modes \cup {"unset"}
    /\ {c.ctx, c.proxyCtx} \subseteq Contexts
    /\ {c.target, c.proxyHost} \subseteq Names
    /\ c.serverHostname \in Names \cup {Unset}
    /\ {c.assert, c.proxyAssert} \subseteq Names \cup {Unset, Unchecked}
    /\ RequiresTunnel(c) => c.tls

(***************************************************************************)
(* _ssl_wrap_socket_and_match_hostname, with create_urllib3_context and    *)
(* ssl_wrap_socket: a policy p, a context c (shared with later connections *)
(* if the user gave it) and the certificate the peer shows.                *)
(***************************************************************************)
ResolveCertReqs(candidate) == IF candidate = "unset" THEN "required" ELSE candidate

CreateContext(mode) ==
  [mode |-> mode, check |-> mode = "required" /\ ~PyOpenSSL, cn |-> FALSE]

UsedContext(p, c) ==
  LET mode == ResolveCertReqs(p.certReqs)
      base == IF c = NoCtx THEN CreateContext(mode) ELSE c
  IN  [base EXCEPT !.mode = mode,
                   !.check = @ /\ ~p.fingerprint /\ p.assert = Unset /\ ~PyOpenSSL]

(* ssl refuses a verify_mode of CERT_NONE while check_hostname is set.     *)
ContextRefused(p, c) ==
  c # NoCtx /\ c.check /\ ResolveCertReqs(p.certReqs) = "none"

Handshake(used, cert, name) ==
  /\ used.mode # "none" => cert.chain
  /\ used.check => Identifies(cert, name)

PeerAccepted(p, c, cert) ==
  LET used == UsedContext(p, c)
  IN  /\ ~ContextRefused(p, c)
      /\ Handshake(used, cert, p.name)
      /\ p.fingerprint => cert.fingerprint
      /\ ~p.fingerprint /\ used.mode # "none" /\ ~used.check /\ p.assert # Unchecked
           => MatchHostname(cert, IF p.assert = Unset THEN p.name ELSE p.assert,
                            c # NoCtx /\ used.cn)

IsVerified(p) == ResolveCertReqs(p.certReqs) = "required" \/ p.fingerprint

(***************************************************************************)
(* The objects: HTTPConnection.__init__, HTTPSConnection.__init__ and      *)
(* HTTPConnection.close.                                                   *)
(***************************************************************************)
NewConn(c, context) ==
  [sock |-> FALSE, timeout |-> Forever, tunnel |-> FALSE, verified |-> FALSE,
   proxyVerified |-> "unset", toProxy |-> FALSE, options |-> 0,
   state |-> "idle", response |-> 0,
   certReqs |-> IF c.certReqs = "unset" /\ context # NoCtx THEN context.mode
                ELSE ResolveCertReqs(c.certReqs)]

(* Mutant of Closed: is_verified is forgotten.                             *)
ClosedVerified(c) ==
  [c EXCEPT !.sock = FALSE, !.tunnel = FALSE, !.proxyVerified = "unset",
            !.toProxy = FALSE, !.options = 0, !.state = "idle", !.response = 0]

Closed(c) ==
  [c EXCEPT !.sock = FALSE, !.tunnel = FALSE, !.verified = FALSE,
            !.proxyVerified = "unset", !.toProxy = FALSE, !.options = 0,
            !.state = "idle", !.response = 0]

NoWire == [peer |-> "none", tls |-> <<>>, timeout |-> Forever,
           unread |-> <<>>, rest |-> "flight", dead |-> FALSE]

ProxyIsForwarding == cfg.proxy # "none" /\ ~conn.tunnel

(* The names of the two ends, and the policies of the two handshakes: the  *)
(* one with the proxy in front of a tunnel, and the one that connect ends  *)
(* with.                                                                   *)
OwnHost == IF cfg.proxy = "none" THEN cfg.target ELSE cfg.proxyHost

ProxyPolicy ==
  [certReqs |-> conn.certReqs, fingerprint |-> cfg.proxyFingerprint,
   assert |-> cfg.proxyAssert, name |-> OwnHost]

(* Mutant of ServerHostname: through a tunnel, too, the name is the        *)
(* connection's own.                                                       *)
ServerHostnameOwn ==
  IF cfg.serverHostname # Unset THEN cfg.serverHostname ELSE OwnHost

ServerHostname ==
  IF cfg.serverHostname # Unset THEN cfg.serverHostname
  ELSE IF conn.tunnel THEN cfg.target ELSE OwnHost

ConnPolicy ==
  [certReqs |-> conn.certReqs, fingerprint |-> cfg.fingerprint,
   assert |-> cfg.assert, name |-> ServerHostname]

(***************************************************************************)
(* The attempt.  Every step may end in the except and finally clauses of   *)
(* urlopen: the connection, as the step left it, is closed and replaced by *)
(* None in the pool, and the error is blamed on the proxy or not.          *)
(***************************************************************************)
NoFailure == [proxy |-> FALSE, sent |-> FALSE]

Fail(c) ==
  /\ conn' = Closed(c)
  /\ wire' = NoWire
  /\ slot' = FALSE
  /\ pc' = "idle"
  /\ failure' = [proxy |-> cfg.proxy # "none" /\ ~c.toProxy,
                 sent |-> pc \in {"send", "sent", "response"}]
  /\ UNCHANGED <<cfg, next, timeout, attempt>>

Takes(d, most) ==
  /\ d <= Min({most, MaxWait})
  /\ elapsed' = Min({elapsed + d, Forever})
Block(most, steps) == 0 .. steps * Min({most, MaxWait})

Init ==
  /\ cfg \in Configs
  /\ ctx = [own |-> cfg.ctx, proxy |-> cfg.proxyCtx]
  /\ conn = NewConn(cfg, cfg.ctx)
  /\ slot = FALSE
  /\ wire = NoWire
  /\ timeout \in Timeouts
  /\ pc = "idle" /\ next = "make" /\ failure = NoFailure
  /\ elapsed = 0 /\ attempt = 0 /\ got = 0

(* Mutant of Readable: only the end of the stream is noticed.              *)
ReadableDead == wire.dead

(* is_connection_dropped: there is something to read, or the end of the    *)
(* stream.  What a response has not been read of is in its own buffer, in  *)
(* the socket, or still on its way.                                        *)
Readable == wire.dead \/ (wire.unread # <<>> /\ wire.rest = "socket")

(* urlopen takes the connection out of the pool.                           *)
Urlopen(t) ==
  /\ pc = "idle" /\ attempt < MaxAttempts
  /\ attempt' = attempt + 1 /\ timeout' = t /\ elapsed' = 0
  /\ slot' = TRUE /\ failure' = NoFailure
  /\ LET c == IF ~slot THEN NewConn(cfg, ctx.own)
              ELSE IF conn.sock /\ Readable THEN Closed(conn) ELSE conn
     IN  /\ conn' = [c EXCEPT !.timeout = ConnectTimeout(t)]
         /\ wire' = IF c.sock THEN wire ELSE NoWire
         /\ pc' = IF RequiresTunnel(cfg) /\ ~c.sock THEN "proxy" ELSE "make"
  /\ UNCHANGED <<cfg, next, ctx, got>>

(* HTTPSConnectionPool._prepare_proxy: set_tunnel, then connect.           *)
PrepareProxy ==
  /\ pc = "proxy"
  /\ conn' = [conn EXCEPT !.tunnel = TRUE]
  /\ pc' = "tcp" /\ next' = "make"
  /\ UNCHANGED <<cfg, slot, wire, ctx, timeout, elapsed, attempt, got, failure>>

(* _make_request: the clock starts, and _validate_conn connects a closed   *)
(* HTTPS connection.                                                       *)
MakeRequest ==
  /\ pc = "make"
  /\ elapsed' = 0
  /\ conn' = [conn EXCEPT !.timeout = ConnectTimeout(timeout)]
  /\ pc' = IF cfg.tls /\ ~conn.sock THEN "tcp" ELSE "request"
  /\ next' = "request"
  /\ UNCHANGED <<cfg, slot, wire, ctx, timeout, attempt, got, failure>>

(* create_connection: the addresses are tried in turn, each for as long as *)
(* the timeout allows.                                                     *)
NewSocket ==
  /\ pc = "tcp"
  /\ \E d \in Block(conn.timeout, Addresses) :
       elapsed' = Min({elapsed + d, Forever})
  /\ wire' = [NoWire EXCEPT !.peer = IF cfg.proxy = "none" THEN "target" ELSE "proxy",
                            !.timeout = conn.timeout]
  /\ conn' =
       IF cfg.tls
         THEN [conn EXCEPT !.sock = TRUE,
                           !.proxyVerified = IF conn.tunnel /\ cfg.proxy = "http"
                                               THEN "no" ELSE @]
         ELSE [conn EXCEPT !.sock = TRUE, !.toProxy = cfg.proxy # "none",
                           !.proxyVerified = IF cfg.proxy # "none" THEN "no" ELSE @]
  /\ pc' = IF ~cfg.tls THEN next
           ELSE IF ~conn.tunnel THEN "tls"
           ELSE IF cfg.proxy = "https" THEN "proxytls" ELSE "tunnel"
  /\ UNCHANGED <<cfg, slot, next, ctx, timeout, attempt, got, failure>>

NewSocketFails ==
  /\ pc = "tcp"
  /\ elapsed' = elapsed /\ UNCHANGED <<ctx, got>>
  /\ Fail(conn)

(* A context the user gave keeps what a connection has set on it.          *)
Touched(p, c) == IF c = NoCtx \/ ContextRefused(p, c) THEN c ELSE UsedContext(p, c)

(* _connect_tls_proxy.                                                     *)
ConnectTlsProxy(cert) ==
  /\ pc = "proxytls"
  /\ ctx' = [ctx EXCEPT !.proxy = Touched(ProxyPolicy, @)]
  /\ UNCHANGED <<elapsed, got>>
  /\ IF PeerAccepted(ProxyPolicy, ctx.proxy, cert)
       THEN /\ wire' = [wire EXCEPT !.tls = Append(@, cert)]
            /\ conn' = [conn EXCEPT !.proxyVerified =
                          IF IsVerified(ProxyPolicy) THEN "yes" ELSE "no"]
            /\ pc' = "tunnel"
            /\ UNCHANGED <<cfg, slot, next, timeout, attempt, failure>>
       ELSE Fail(conn)

(* _tunnel: the proxy answers CONNECT with 200, and what follows is for    *)
(* the target; or with something else, and the connection closes itself;   *)
(* or the exchange fails.                                                  *)
Tunnel ==
  /\ pc = "tunnel"
  /\ UNCHANGED <<ctx, elapsed, got>>
  /\ LET c == [conn EXCEPT !.toProxy = TRUE]
     IN  \/ /\ wire' = [wire EXCEPT !.peer = "target"]
            /\ conn' = c
            /\ pc' = "tls"
            /\ UNCHANGED <<cfg, slot, next, timeout, attempt, failure>>
         \/ Fail(Closed(c))
         \/ Fail(c)

(* The rest of HTTPSConnection.connect.                                    *)
ConnectTls(cert) ==
  /\ pc = "tls"
  /\ UNCHANGED <<elapsed, got>>
  /\ LET which == IF ProxyIsForwarding THEN "proxy" ELSE "own"
         verified == IsVerified(ConnPolicy)
     IN  /\ ctx' = [ctx EXCEPT ![which] = Touched(ConnPolicy, @)]
         /\ IF PeerAccepted(ConnPolicy, ctx[which], cert)
              THEN /\ wire' = [wire EXCEPT !.tls = Append(@, cert)]
                   /\ conn' = [conn EXCEPT
                        !.verified = verified /\ ~ProxyIsForwarding,
                        !.toProxy = cfg.proxy # "none",
                        !.proxyVerified =
                           IF cfg.proxy = "none" \/ @ # "unset" THEN @
                           ELSE IF verified THEN "yes" ELSE "no"]
                   /\ pc' = next
                   /\ UNCHANGED <<cfg, slot, next, timeout, attempt, failure>>
              ELSE Fail(conn)

(* request: a plain connection connects when the headers are written.      *)
Request ==
  /\ pc = "request"
  /\ UNCHANGED <<ctx, elapsed, got>>
  /\ LET c == [conn EXCEPT !.options = attempt]
     IN  IF conn.state = "idle"
           THEN /\ conn' = [c EXCEPT !.state = "sent"]
                /\ wire' = IF conn.sock THEN [wire EXCEPT !.timeout = conn.timeout]
                           ELSE wire
                /\ pc' = IF conn.sock THEN "send" ELSE "tcp"
                /\ next' = "send"
                /\ UNCHANGED <<cfg, slot, timeout, attempt, failure>>
           ELSE Fail(c)                        \* CannotSendRequest

(* Headers and body are written.  A server that answers before it has read *)
(* everything may break the pipe, and its answer is still looked for.      *)
Send ==
  /\ pc = "send"
  /\ UNCHANGED <<ctx, got>>
  /\ \E d \in Block(wire.timeout, 1) :
       /\ Takes(d, wire.timeout)
       /\ \/ /\ wire' = [wire EXCEPT !.unread = Append(@, attempt)]
             /\ pc' = "sent"
             /\ UNCHANGED <<cfg, conn, slot, next, timeout, attempt, failure>>
          \/ \E answer \in {<<>>, <<attempt>>} :
               /\ wire' = [wire EXCEPT !.unread = @ \o answer, !.dead = TRUE]
               /\ pc' = "sent"
               /\ UNCHANGED <<cfg, conn, slot, next, timeout, attempt, failure>>
          \/ Fail(conn)

(* _make_request after request, and getresponse up to the wait: a response *)
(* of an earlier request that is still open makes it raise.                *)
AskResponse ==
  /\ pc = "sent"
  /\ UNCHANGED <<ctx, elapsed, got>>
  /\ LET read == ReadTimeout(timeout, elapsed)
         c == [conn EXCEPT !.timeout = read, !.options = 0]
     IN  IF read = 0 THEN Fail(conn)
         ELSE IF conn.options = 0 \/ conn.state # "sent" \/ conn.response # 0
           THEN Fail(c)
           ELSE /\ conn' = c
                /\ wire' = [wire EXCEPT !.timeout = read]
                /\ pc' = "response"
                /\ UNCHANGED <<cfg, slot, next, timeout, attempt, failure>>

(* http.client's getresponse reads a status line and headers.  If the      *)
(* server will close the connection, it closes itself here and its         *)
(* response keeps the stream; if the connection breaks, too.               *)
GetResponse ==
  /\ pc = "response" /\ wire.unread # <<>>
  /\ got' = Head(wire.unread)
  /\ \E rest \in {"buffer", "socket", "flight"} : wire' = [wire EXCEPT !.rest = rest]
  /\ \E d \in Block(wire.timeout, 1) : Takes(d, wire.timeout)
  /\ \/ conn' = [conn EXCEPT !.state = "idle", !.response = attempt]
     \/ conn' = Closed(conn)
  /\ pc' = "body"
  /\ UNCHANGED <<cfg, slot, next, ctx, timeout, attempt, failure>>

GetResponseFails ==
  /\ pc = "response"
  /\ \E d \in Block(wire.timeout, 1) : Takes(d, wire.timeout)
  /\ UNCHANGED <<ctx, got>>
  /\ \/ Fail(Closed(conn))                     \* a ConnectionError
     \/ Fail(conn)                             \* a timeout, a bad status line

(***************************************************************************)
(* What the caller does with the response.                                 *)
(***************************************************************************)
Release(c, w) ==
  /\ conn' = c
  /\ wire' = IF c.sock THEN w ELSE NoWire
  /\ pc' = "idle"

ReadAll ==
  /\ pc = "body"
  /\ Release([conn EXCEPT !.response = 0], [wire EXCEPT !.unread = Tail(@)])
  /\ UNCHANGED <<cfg, slot, next, ctx, timeout, elapsed, attempt, got, failure>>

ReleaseUnread ==
  /\ pc = "body"
  /\ Release(conn, wire)
  /\ UNCHANGED <<cfg, slot, next, ctx, timeout, elapsed, attempt, got, failure>>

ReadFails ==
  /\ pc = "body"
  /\ Release(Closed(conn), wire)
  /\ UNCHANGED <<cfg, slot, next, ctx, timeout, elapsed, attempt, got, failure>>

CloseResponse ==
  /\ pc = "body"
  /\ Release(Closed(conn), wire)
  /\ slot' = FALSE
  /\ UNCHANGED <<cfg, next, ctx, timeout, elapsed, attempt, got, failure>>

(* A response that was released unread is read to its end later, or closed *)
(* (by the caller, by an error of a read, or when it is collected): what   *)
(* it had buffered is gone then.                                           *)
Late == conn.response # 0 /\ conn.sock /\ pc # "body"

ReadLate ==
  /\ Late
  /\ wire' = [wire EXCEPT !.unread = Tail(@)]
  /\ conn' = [conn EXCEPT !.response = 0]
  /\ UNCHANGED <<cfg, pc, slot, next, ctx, timeout, elapsed, attempt, got, failure>>

CloseLate ==
  /\ Late
  /\ wire.rest = "flight" => MayCloseInFlight
  /\ wire' = IF wire.rest = "buffer" THEN [wire EXCEPT !.unread = Tail(@)] ELSE wire
  /\ conn' = [conn EXCEPT !.response = 0]
  /\ UNCHANGED <<cfg, pc, slot, next, ctx, timeout, elapsed, attempt, got, failure>>

PeerDrops ==
  /\ pc = "idle" /\ conn.sock /\ ~wire.dead
  /\ wire' = [wire EXCEPT !.dead = TRUE]
  /\ UNCHANGED <<cfg, pc, conn, slot, next, ctx, timeout, elapsed, attempt, got, failure>>

(* A KeyboardInterrupt, or an error urlopen does not know, at any step.    *)
Interrupt ==
  /\ pc \notin {"idle", "body"}
  /\ conn' = Closed(conn)
  /\ wire' = NoWire /\ slot' = FALSE /\ pc' = "idle"
  /\ UNCHANGED <<cfg, next, ctx, timeout, elapsed, attempt, got, failure>>

Next ==
  \/ \E t \in Timeouts : Urlopen(t)
  \/ PrepareProxy \/ MakeRequest \/ NewSocket \/ NewSocketFails
  \/ \E cert \in Certs : ConnectTlsProxy(cert) \/ ConnectTls(cert)
  \/ Tunnel \/ Request \/ Send \/ AskResponse \/ GetResponse \/ GetResponseFails
  \/ ReadAll \/ ReleaseUnread \/ ReadFails \/ CloseResponse
  \/ ReadLate \/ CloseLate \/ PeerDrops \/ Interrupt

Spec == Init /\ [][Next]_vars

(***************************************************************************)
(* Properties.                                                             *)
(***************************************************************************)

ConnType ==
  [sock : BOOLEAN, timeout : 0 .. Forever, tunnel : BOOLEAN, verified : BOOLEAN,
   proxyVerified : {"unset", "yes", "no"}, toProxy : BOOLEAN,
   options : 0 .. MaxAttempts, state : {"idle", "sent"},
   response : 0 .. MaxAttempts, certReqs : Modes]

WireType ==
  [peer : {"none", "proxy", "target"}, tls : Seq(Certs), timeout : 0 .. Forever,
   unread : Seq(1 .. MaxAttempts), rest : {"buffer", "socket", "flight"},
   dead : BOOLEAN]

TypeOK ==
  /\ cfg \in Configs
  /\ pc \in {"idle", "proxy", "make", "tcp", "proxytls", "tunnel", "tls",
             "request", "send", "sent", "response", "body"}
  /\ next \in {"make", "request", "send"}
  /\ conn \in ConnType /\ wire \in WireType
  /\ ctx \in [own : Contexts, proxy : Contexts]
  /\ timeout \in Timeouts /\ elapsed \in 0 .. Forever
  /\ {attempt, got} \subseteq 0 .. MaxAttempts /\ slot \in BOOLEAN
  /\ failure \in [proxy : BOOLEAN, sent : BOOLEAN]

(* What the configuration asks of the certificate of a handshake, whatever *)
(* the contexts have become.                                               *)
Demanded ==
  IF cfg.certReqs # "unset" THEN cfg.certReqs
  ELSE IF cfg.ctx = NoCtx THEN "required" ELSE cfg.ctx.mode

Satisfies(cert, fingerprint, assert, name) ==
  /\ Demanded # "none" => cert.chain
  /\ fingerprint => cert.fingerprint
  /\ Demanded # "none" /\ ~fingerprint /\ assert # Unchecked
       => Identifies(cert, IF assert = Unset THEN name ELSE assert)

TargetName == IF cfg.serverHostname # Unset THEN cfg.serverHostname
              ELSE IF RequiresTunnel(cfg) THEN cfg.target ELSE OwnHost

(* A request is written only to whom it is meant for: to the target behind *)
(* its tunnel, or to the proxy that forwards it, or to the origin, and     *)
(* through exactly the handshakes the configuration asks for, each with a  *)
(* certificate that satisfies it.  A connection that was closed and opens  *)
(* again has to set all of it up again.                                    *)
RequestWhereMeant ==
  pc \in {"send", "sent", "response"} =>
    /\ wire.peer = IF cfg.proxy = "none" \/ RequiresTunnel(cfg) THEN "target" ELSE "proxy"
    /\ IF RequiresTunnel(cfg) /\ cfg.proxy = "https"
         THEN /\ Len(wire.tls) = 2
              /\ Satisfies(wire.tls[1], cfg.proxyFingerprint, cfg.proxyAssert, OwnHost)
         ELSE Len(wire.tls) = IF cfg.tls THEN 1 ELSE 0
    /\ cfg.tls => Satisfies(Last(wire.tls), cfg.fingerprint, cfg.assert, TargetName)

(* is_verified and proxy_is_verified speak of the socket the connection    *)
(* has now, and only of a peer whose chain or fingerprint was checked; a   *)
(* connection that a proxy forwards for never calls the target verified.   *)
Trusted(cert) == cert.chain \/ cert.fingerprint
VerifiedSound ==
  /\ conn.verified =>
       /\ conn.sock /\ wire.peer = "target" /\ wire.tls # <<>>
       /\ Trusted(Last(wire.tls))
  /\ conn.proxyVerified = "yes" =>
       conn.sock /\ wire.tls # <<>> /\ Trusted(wire.tls[1])

(* The response a caller gets answers its own request, whatever an earlier *)
(* caller left unread on the connection.                                   *)
ResponseAnswersRequest == pc = "body" => got = attempt

(* Every wait of a request is for no longer than its own timeout allows,   *)
(* also on a connection that has another one's on its socket: writing for  *)
(* the connect timeout, and waiting for the response no longer than what   *)
(* is left of the total since _make_request began.                         *)
WaitsInBudget ==
  /\ pc = "send" => wire.timeout = ConnectTimeout(timeout)
  /\ pc = "response" /\ timeout.total # Forever =>
       wire.timeout + elapsed <= timeout.total
  /\ pc = "response" => 0 < wire.timeout /\ wire.timeout <= timeout.read

(* ProxyError is "raised when the connection to a proxy fails": not when a *)
(* request has been written to it.                                         *)
ProxyErrorMeansUnconnected == ~(failure.proxy /\ failure.sent)
================================================================================
