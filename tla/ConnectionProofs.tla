--------------------------- MODULE ConnectionProofs ---------------------------
(***************************************************************************)
(* Proofs about Connection, for any configurations, certificates, names    *)
(* and timeouts: to whom a request is written, what the connection says of *)
(* its peer, whose response a caller gets, and how long it waits.          *)
(***************************************************************************)
EXTENDS Connection, SequenceTheorems, TLAPS

(***************************************************************************)
(* Host names: who is matched is identified.                               *)
(***************************************************************************)
LEMMA EntryCovers ==
    ASSUME NEW entry \in Names, NEW host \in Names, EntryMatch(entry, host) = "yes"
    PROVE  Covers(entry, host)
<1> DEFINE dn == entry.name
           hostname == host.name
<1>a. entry.kind = host.kind
  BY DEF EntryMatch, Names
<1>b. /\ entry.kind \in {"dns", "ip"} /\ dn \in Seq(Label)
      /\ entry = [kind |-> entry.kind, name |-> dn]
  BY DEF Names
<1>c. /\ host.kind \in {"dns", "ip"} /\ hostname \in Seq(Label)
      /\ host = [kind |-> host.kind, name |-> hostname]
  BY DEF Names
<1>1. /\ entry.kind = host.kind /\ host.kind \in {"dns", "ip"}
      /\ dn \in Seq(Label) /\ hostname \in Seq(Label)
      /\ entry = [kind |-> entry.kind, name |-> dn] /\ host = [kind |-> host.kind, name |-> hostname]
  BY <1>a, <1>b, <1>c
<1> HIDE DEF dn, hostname
<1>2. CASE host.kind = "ip"
  <2>1. entry = host
    BY <1>1, <1>2 DEF EntryMatch
  <2> QED BY <2>1 DEF Covers
<1>3. CASE host.kind = "dns"
  <2>1. DnsNameMatch(dn, hostname) = "yes"
    BY <1>1, <1>3 DEF EntryMatch, dn, hostname
  <2>2. dn # <<>> /\ Stars[dn[1]] \in 0 .. 2 /\ Stars[dn[1]] <= 1
    <3>1. dn # <<>>
      BY <2>1 DEF DnsNameMatch
    <3>2. dn[1] \in Label
      BY <1>1, <3>1
    <3>3. Stars[dn[1]] \in 0 .. 2
      BY <3>2, LabelAssumption
    <3>4. ~(Stars[dn[1]] > 1)
      BY <2>1, <3>1 DEF DnsNameMatch
    <3> QED BY <3>1, <3>3, <3>4
  <2>3. CASE Stars[dn[1]] = 0
    <3>1. dn = hostname
      BY <2>1, <2>2, <2>3 DEF DnsNameMatch
    <3> QED BY <1>1, <3>1 DEF Covers
  <2>4. CASE Stars[dn[1]] = 1
    <3>1. Len(dn) = Len(hostname) /\ Tail(dn) = Tail(hostname)
      BY <2>1, <2>2, <2>4 DEF DnsNameMatch
    <3>2. ASSUME NEW i \in 2 .. Len(hostname) PROVE dn[i] = hostname[i]
      <4>1. hostname # <<>>
        BY <1>1, <2>2, <3>1
      <4>2. Tail(dn)[i - 1] = dn[i] /\ Tail(hostname)[i - 1] = hostname[i]
        BY <1>1, <2>2, <3>1, <4>1
      <4> QED BY <3>1, <4>2
    <3> QED BY <1>1, <1>3, <2>4, <3>1, <3>2 DEF Covers, dn, hostname
  <2> QED BY <2>2, <2>3, <2>4
<1> QED BY <1>1, <1>2, <1>3

LEMMA ConcatLeft ==
    ASSUME NEW S, NEW s \in Seq(S), NEW t \in Seq(S), NEW i \in 1 .. Len(s)
    PROVE  i \in DOMAIN (s \o t) /\ (s \o t)[i] = s[i]
<1>1. Len(s) \in Nat /\ Len(t) \in Nat
  BY LenProperties
<1>2. i \in 1 .. Len(s) + Len(t) /\ i <= Len(s)
  BY <1>1
<1>3. /\ s \o t \in Seq(S) /\ Len(s \o t) = Len(s) + Len(t)
      /\ (s \o t)[i] = IF i <= Len(s) THEN s[i] ELSE t[i - Len(s)]
  BY <1>2, ConcatProperties
<1>4. DOMAIN (s \o t) = 1 .. Len(s \o t)
  BY <1>3, LenProperties
<1> QED BY <1>2, <1>3, <1>4

LEMMA MatchIdentifies ==
    ASSUME NEW cert \in Certs, NEW host \in Names, NEW cn \in BOOLEAN,
           MatchHostname(cert, host, cn)
    PROVE  Identifies(cert, host)
<1> DEFINE names == Candidates(cert, host, cn)
           all == cert.san \o cert.cn
<1>1. cert.san \in Seq(Names) /\ cert.cn \in Seq(Names)
  BY ConnectionAssumption
<1>2. PICK i \in DOMAIN names : EntryMatch(names[i], host) = "yes"
  BY DEF MatchHostname
<1>3. names \in Seq(Names)
  BY <1>1 DEF Candidates
<1>4. Covers(names[i], host)
  <2>1. names[i] \in Names
    BY <1>2, <1>3
  <2> QED BY <1>2, <2>1, EntryCovers
<1>5. \E j \in DOMAIN all : all[j] = names[i]
  <2>1. CASE names = cert.san
    <3>1. i \in 1 .. Len(cert.san)
      BY <1>1, <1>2, <2>1, LenProperties
    <3> HIDE DEF names
    <3>2. i \in DOMAIN all /\ all[i] = cert.san[i]
      BY <1>1, <3>1, ConcatLeft
    <3> QED BY <2>1, <3>2
  <2>2. CASE names = cert.cn /\ cert.san = <<>>
    <3>1. all = cert.cn
      BY <1>1, <2>2
    <3> QED BY <1>2, <2>2, <3>1
  <2> QED BY <2>1, <2>2 DEF Candidates
<1> QED BY <1>4, <1>5 DEF Identifies

(***************************************************************************)
(* A handshake that is accepted shows a certificate as demanded.           *)
(***************************************************************************)
Asserts == Names \cup {Unset, Unchecked}

LEMMA AcceptedIs ==
    ASSUME NEW p, p.certReqs \in Modes, p.fingerprint \in BOOLEAN, p.assert \in Asserts,
           p.name \in Names, NEW c \in Contexts, NEW cert \in Certs,
           PeerAccepted(p, c, cert)
    PROVE  /\ p.certReqs # "none" => cert.chain
           /\ p.fingerprint => cert.fingerprint
           /\ p.certReqs # "none" /\ ~p.fingerprint /\ p.assert # Unchecked
                => Identifies(cert, IF p.assert = Unset THEN p.name ELSE p.assert)
<1> DEFINE used == UsedContext(p, c)
           name == IF p.assert = Unset THEN p.name ELSE p.assert
<1>1. ResolveCertReqs(p.certReqs) = p.certReqs
  BY DEF ResolveCertReqs, Modes
<1>2. /\ used.mode = p.certReqs /\ used.cn \in BOOLEAN /\ used.check \in BOOLEAN
      /\ used.check => p.assert = Unset
  BY <1>1, ConnectionAssumption DEF UsedContext, Contexts, CreateContext
<1>3. /\ used.mode # "none" => cert.chain
      /\ used.check => Identifies(cert, p.name)
      /\ p.fingerprint => cert.fingerprint
      /\ ~p.fingerprint /\ used.mode # "none" /\ ~used.check /\ p.assert # Unchecked
           => MatchHostname(cert, name, c # NoCtx /\ used.cn)
  BY DEF PeerAccepted, Handshake
<1> HIDE DEF used
<1>4. ASSUME p.certReqs # "none", ~p.fingerprint, p.assert # Unchecked
      PROVE  Identifies(cert, name)
  <2>1. CASE used.check
    BY <1>2, <1>3, <2>1
  <2>2. CASE ~used.check
    <3>1. MatchHostname(cert, name, c # NoCtx /\ used.cn)
      BY <1>2, <1>3, <1>4, <2>2
    <3>2. name \in Names /\ (c # NoCtx /\ used.cn) \in BOOLEAN
      BY <1>2, <1>4 DEF Asserts
    <3> QED BY <3>1, <3>2, MatchIdentifies
  <2> QED BY <2>1, <2>2
<1> QED BY <1>2, <1>3, <1>4

(***************************************************************************)
(* The inductive invariant, in named parts.                                *)
(***************************************************************************)
(* The certificates are asked for as the configuration demands: what a     *)
(* connection sets on a context that it shares does not change this.       *)
PolicyKept ==
  /\ conn.certReqs = Demanded
  /\ ctx.own = NoCtx <=> cfg.ctx = NoCtx
  /\ cfg.certReqs = "unset" /\ cfg.ctx # NoCtx => ctx.own.mode = cfg.ctx.mode

(* When there is a socket, when the connection is set up for a tunnel, and *)
(* what a connection without a socket has forgotten.                       *)
SocketStages ==
  /\ conn.sock \/ pc = "tcp" => (conn.tunnel <=> RequiresTunnel(cfg))
  /\ ~conn.sock /\ pc # "tcp" => ~conn.tunnel
  /\ ~conn.sock => ~conn.verified /\ conn.proxyVerified = "unset" /\ conn.response = 0
  /\ pc = "proxy" => RequiresTunnel(cfg) /\ ~conn.sock
  /\ pc = "tcp" => ~conn.sock
  /\ pc \in {"make", "request"} /\ ~conn.sock => ~RequiresTunnel(cfg)
  /\ pc = "request" /\ cfg.tls => conn.sock
  /\ pc = "tcp" /\ ~cfg.tls => next = "send"
  /\ pc \in {"proxytls", "tunnel", "tls", "send", "sent", "response"} => conn.sock

(* Whom a request of this configuration is meant for, and the handshake in *)
(* front of its tunnel.                                                    *)
Meant == IF cfg.proxy = "none" \/ RequiresTunnel(cfg) THEN "target" ELSE "proxy"

ProxyShown ==
  IF RequiresTunnel(cfg) /\ cfg.proxy = "https"
    THEN /\ Len(wire.tls) = 1
         /\ Satisfies(wire.tls[1], cfg.proxyFingerprint, cfg.proxyAssert, OwnHost)
         /\ conn.proxyVerified = "yes" => Trusted(wire.tls[1])
    ELSE wire.tls = <<>> /\ conn.proxyVerified # "yes"

(* What has been shown so far while the connection is set up.              *)
SetUpStages ==
  /\ pc \in {"proxytls", "tunnel", "tls"} => ~conn.verified
  /\ pc = "proxytls" =>
       /\ RequiresTunnel(cfg) /\ cfg.proxy = "https"
       /\ wire.tls = <<>> /\ conn.proxyVerified = "unset"
  /\ pc = "tunnel" => RequiresTunnel(cfg) /\ ProxyShown /\ conn.proxyVerified # "unset"
  /\ pc = "tls" =>
       /\ cfg.tls /\ wire.peer = Meant /\ ProxyShown
       /\ RequiresTunnel(cfg) <=> conn.proxyVerified # "unset"

(* What is true of every socket that is set up, also between two requests. *)
Established ==
  /\ wire.peer = Meant
  /\ IF RequiresTunnel(cfg) /\ cfg.proxy = "https"
       THEN /\ Len(wire.tls) = 2
            /\ Satisfies(wire.tls[1], cfg.proxyFingerprint, cfg.proxyAssert, OwnHost)
       ELSE Len(wire.tls) = IF cfg.tls THEN 1 ELSE 0
  /\ cfg.tls => Satisfies(wire.tls[Len(wire.tls)], cfg.fingerprint, cfg.assert, TargetName)

SetUp == {"idle", "make", "request", "send", "sent", "response", "body"}
SocketsAreEstablished == conn.sock /\ pc \in SetUp => Established

(* The timeouts on the object and on the socket.                           *)
TimeoutStages ==
  /\ pc \notin {"idle", "response", "body"} => conn.timeout = ConnectTimeout(timeout)
  /\ pc \in {"proxytls", "tunnel", "tls", "send"} => wire.timeout = conn.timeout

(* There is something left of a response that is being read.               *)
SomethingUnread ==
  /\ pc # "idle" => attempt # 0
  /\ pc = "body" \/ (conn.response # 0 /\ conn.sock) => wire.unread # <<>>

(* Whose responses are still on the wire, if nobody closes a response that *)
(* is on its way: at most that of one earlier request, and none that the   *)
(* connection does not know of once an attempt has begun.                  *)
Earlier == IF conn.response = 0 THEN wire.unread = <<>>
           ELSE Len(wire.unread) = 1 /\ wire.rest # "socket"
Own(unread) == unread = <<>> \/ unread = <<attempt>>

UnreadStages ==
  /\ pc = "idle" /\ conn.sock =>
       IF conn.response = 0
         THEN wire.unread = <<>> \/ (Len(wire.unread) = 1 /\ wire.rest = "socket")
         ELSE Len(wire.unread) = 1
  /\ pc \notin {"idle", "sent", "response", "body"} /\ conn.sock => Earlier
  /\ pc = "sent" =>
       IF conn.response = 0 THEN Own(wire.unread)
       ELSE wire.unread # <<>> /\ Own(Tail(wire.unread)) /\ wire.rest # "socket"
  /\ pc = "response" => conn.response = 0 /\ Own(wire.unread)
  /\ pc = "body" => /\ got = attempt /\ Len(wire.unread) = 1
                    /\ conn.sock => conn.response # 0

IInv ==
  /\ TypeOK /\ PolicyKept /\ SocketStages /\ SetUpStages /\ SocketsAreEstablished
  /\ VerifiedSound /\ TimeoutStages /\ WaitsInBudget /\ SomethingUnread

(***************************************************************************)
(* What the assumptions say of a configuration and of a timeout.           *)
(***************************************************************************)
LEMMA BoundsTyped ==
    /\ Addresses \in Nat /\ MaxAttempts \in Nat \ {0} /\ MaxWait \in Nat
    /\ Forever \in Nat /\ MaxWait < Forever
    /\ MayCloseInFlight \in BOOLEAN /\ PyOpenSSL \in BOOLEAN
BY ConnectionAssumption

LEMMA ConfigTyped ==
    ASSUME NEW c \in Configs
    PROVE  /\ c.proxy \in {"none", "http", "https"}
           /\ c.tls \in BOOLEAN /\ c.fingerprint \in BOOLEAN
           /\ c.proxyFingerprint \in BOOLEAN
           /\ c.certReqs \in Modes \cup {"unset"}
           /\ c.ctx \in Contexts /\ c.proxyCtx \in Contexts
           /\ c.target \in Names /\ c.proxyHost \in Names
           /\ c.serverHostname \in Names \cup {Unset}
           /\ c.assert \in Asserts /\ c.proxyAssert \in Asserts
           /\ RequiresTunnel(c) \in BOOLEAN
           /\ RequiresTunnel(c) => c.tls /\ c.proxy # "none"
BY ConfigsAssumption DEF Asserts, RequiresTunnel

LEMMA MinOfTwo ==
    ASSUME NEW a \in Int, NEW b \in Int
    PROVE  Min({a, b}) \in {a, b} /\ Min({a, b}) <= a /\ Min({a, b}) <= b
<1>1. \E m \in {a, b} : \A y \in {a, b} : m <= y
  BY SMT
<1> QED BY <1>1 DEF Min

LEMMA MaxOfTwo ==
    ASSUME NEW a \in Int, NEW b \in Int
    PROVE  Max({a, b}) \in {a, b} /\ Max({a, b}) >= a /\ Max({a, b}) >= b
<1>1. \E m \in {a, b} : \A y \in {a, b} : m >= y
  BY SMT
<1> QED BY <1>1 DEF Max

LEMMA TimeoutsTyped ==
    ASSUME NEW t \in Timeouts
    PROVE  /\ t.total \in 1 .. Forever /\ t.connect \in 1 .. Forever
           /\ t.read \in 1 .. Forever
           /\ ConnectTimeout(t) \in 0 .. Forever
<1>1. /\ t.total \in 1 .. Forever /\ t.connect \in 1 .. Forever
      /\ t.read \in 1 .. Forever
  BY ConnectionAssumption
<1>2. t.total \in Int /\ t.connect \in Int /\ Forever \in Nat
  BY <1>1, BoundsTyped
<1>3. Min({t.total, t.connect}) \in {t.total, t.connect}
  BY ONLY <1>2, MinOfTwo
<1> QED BY <1>1, <1>2, <1>3 DEF ConnectTimeout

(* What read_timeout leaves: not more than the total, or the read timeout. *)
LEMMA ReadTimeoutLeft ==
    ASSUME NEW t \in Timeouts, NEW e \in 0 .. Forever
    PROVE  /\ ReadTimeout(t, e) \in 0 .. Forever
           /\ ReadTimeout(t, e) <= t.read
           /\ t.total # Forever /\ ReadTimeout(t, e) # 0 => ReadTimeout(t, e) + e <= t.total
<1> DEFINE left == Min({t.total - e, t.read})
<1>1. t.total \in 1 .. Forever /\ t.read \in 1 .. Forever /\ Forever \in Nat
  BY TimeoutsTyped, BoundsTyped
<1>a. t.total - e \in Int /\ t.read \in Int /\ 0 \in Int
  BY <1>1
<1>2. left \in {t.total - e, t.read} /\ left <= t.total - e /\ left <= t.read
  BY ONLY <1>a, MinOfTwo
<1> HIDE DEF left
<1>b. left \in Int
  BY <1>a, <1>2
<1>3. Max({0, left}) \in {0, left} /\ Max({0, left}) >= 0
  BY ONLY <1>a, <1>b, MaxOfTwo
<1>4. ReadTimeout(t, e) = IF t.total = Forever THEN t.read ELSE Max({0, left})
  BY DEF ReadTimeout, left
<1> QED BY <1>1, <1>2, <1>3, <1>4

(***************************************************************************)
(* Types.                                                                  *)
(***************************************************************************)
LEMMA ClosedTyped ==
    ASSUME NEW c \in ConnType
    PROVE  /\ Closed(c) \in ConnType
           /\ Closed(c).certReqs = c.certReqs
           /\ ~Closed(c).sock /\ ~Closed(c).tunnel /\ ~Closed(c).verified
           /\ Closed(c).proxyVerified = "unset" /\ Closed(c).response = 0
           /\ Closed(c).timeout = c.timeout
<1>1. c \in ConnType /\ MaxAttempts \in Nat
  BY BoundsTyped
<1>2. Closed(c) \in ConnType
  <2> DEFINE no == FALSE
             zero == 0
             idle == "idle"
             unset == "unset"
  <2>1. /\ no \in BOOLEAN /\ zero \in 0 .. MaxAttempts
        /\ idle \in {"idle", "sent"} /\ unset \in {"unset", "yes", "no"}
    BY <1>1
  <2> HIDE DEF no, zero, idle, unset
  <2>2. [c EXCEPT !.sock = no, !.tunnel = no, !.verified = no, !.proxyVerified = unset,
                  !.toProxy = no, !.options = zero, !.state = idle,
                  !.response = zero] \in ConnType
    BY <2>1 DEF ConnType
  <2> QED BY <2>2 DEF Closed, no, zero, idle, unset
<1>3. /\ Closed(c).certReqs = c.certReqs /\ Closed(c).timeout = c.timeout
      /\ Closed(c).sock = FALSE /\ Closed(c).tunnel = FALSE /\ Closed(c).verified = FALSE
      /\ Closed(c).proxyVerified = "unset" /\ Closed(c).response = 0
  BY <1>1 DEF ConnType, Closed
<1> QED BY <1>2, <1>3

LEMMA NewConnTyped ==
    ASSUME NEW c \in Configs, NEW context \in Contexts
    PROVE  /\ NewConn(c, context) \in ConnType
           /\ NewConn(c, context).certReqs =
                IF c.certReqs = "unset" /\ context # NoCtx THEN context.mode
                ELSE ResolveCertReqs(c.certReqs)
           /\ LET n == NewConn(c, context)
              IN  /\ ~n.sock /\ ~n.tunnel /\ ~n.verified
                  /\ n.proxyVerified = "unset" /\ n.response = 0
<1>1. (IF c.certReqs = "unset" /\ context # NoCtx THEN context.mode
       ELSE ResolveCertReqs(c.certReqs)) \in Modes
  BY ConfigTyped DEF Contexts, ResolveCertReqs, Modes
<1> QED BY <1>1, BoundsTyped DEF ConnType, NewConn

LEMMA NoWireTyped == NoWire \in WireType /\ NoWire.unread = <<>> /\ NoWire.tls = <<>>
BY BoundsTyped DEF WireType, NoWire

LEMMA TouchedTyped ==
    ASSUME NEW p, p.certReqs \in Modes, p.fingerprint \in BOOLEAN, NEW c \in Contexts
    PROVE  /\ Touched(p, c) \in Contexts
           /\ Touched(p, c) = NoCtx <=> c = NoCtx
           /\ Touched(p, c) = c \/ Touched(p, c).mode = p.certReqs
<1>1. ResolveCertReqs(p.certReqs) = p.certReqs
  BY DEF ResolveCertReqs, Modes
<1>2. CASE c = NoCtx \/ ContextRefused(p, c)
  BY <1>2 DEF Touched
<1>3. CASE c # NoCtx /\ ~ContextRefused(p, c)
  <2>1. c \in [mode : Modes, check : BOOLEAN, cn : BOOLEAN]
    BY <1>3 DEF Contexts
  <2>2. /\ UsedContext(p, c) \in [mode : Modes, check : BOOLEAN, cn : BOOLEAN]
        /\ UsedContext(p, c).mode = p.certReqs
    BY <1>1, <1>3, <2>1, ConnectionAssumption DEF UsedContext
  <2>3. UsedContext(p, c) # NoCtx
    <3>1. UsedContext(p, c).mode # "no context"
      BY <2>2 DEF Modes
    <3>2. NoCtx.mode = "no context"
      BY DEF NoCtx
    <3> QED BY <3>1, <3>2
  <2> QED BY <1>3, <2>2, <2>3 DEF Touched, Contexts
<1> QED BY <1>2, <1>3

LEMMA PoliciesTyped ==
    ASSUME TypeOK
    PROVE  /\ ProxyPolicy.certReqs \in Modes /\ ProxyPolicy.certReqs = conn.certReqs
           /\ ProxyPolicy.fingerprint \in BOOLEAN /\ ProxyPolicy.assert \in Asserts
           /\ ProxyPolicy.name \in Names
           /\ ConnPolicy.certReqs \in Modes /\ ConnPolicy.certReqs = conn.certReqs
           /\ ConnPolicy.fingerprint \in BOOLEAN /\ ConnPolicy.assert \in Asserts
           /\ ConnPolicy.name \in Names
           /\ OwnHost \in Names
<1>1. conn.certReqs \in Modes
  BY DEF TypeOK, ConnType
<1>2. OwnHost \in Names
  BY ConfigTyped DEF TypeOK, OwnHost
<1>3. ServerHostname \in Names
  BY <1>2, ConfigTyped DEF TypeOK, ServerHostname
<1> QED BY <1>1, <1>2, <1>3, ConfigTyped DEF TypeOK, ProxyPolicy, ConnPolicy

LEMMA ClockTyped ==
    ASSUME NEW e \in 0 .. Forever, NEW d \in Nat
    PROVE  Min({e + d, Forever}) \in 0 .. Forever
<1>1. e + d \in Int /\ Forever \in Int /\ e + d >= 0 /\ Forever >= 0
  BY BoundsTyped
<1>2. /\ Min({e + d, Forever}) \in {e + d, Forever}
      /\ Min({e + d, Forever}) <= Forever
  BY ONLY <1>1, MinOfTwo
<1> QED BY <1>1, <1>2

LEMMA BlockTyped ==
    ASSUME NEW most \in 0 .. Forever, NEW steps \in Nat
    PROVE  Block(most, steps) \subseteq Nat
BY DEF Block

(* The except and finally clauses keep the types, whatever the connection  *)
(* was when they closed it.                                                *)
LEMMA FailTyped ==
    ASSUME TypeOK, NEW c \in ConnType, Fail(c),
           ctx' \in [own : Contexts, proxy : Contexts],
           elapsed' \in 0 .. Forever, got' \in 0 .. MaxAttempts
    PROVE  TypeOK'
<1>1. conn' \in ConnType /\ wire' \in WireType
  BY ClosedTyped, NoWireTyped DEF Fail
<1>2. failure' \in [proxy : BOOLEAN, sent : BOOLEAN]
  <2>1. (cfg.proxy # "none" /\ ~c.toProxy) \in BOOLEAN /\ (pc \in {"send", "sent", "response"}) \in BOOLEAN
    OBVIOUS
  <2> QED BY <2>1 DEF Fail
<1> QED BY <1>1, <1>2 DEF Fail, TypeOK

LEMMA ShownTyped ==
    ASSUME wire \in WireType, NEW cert \in Certs
    PROVE  [wire EXCEPT !.tls = Append(@, cert)] \in WireType
<1> DEFINE tls == Append(wire.tls, cert)
<1>1. tls \in Seq(Certs)
  BY DEF WireType
<1> HIDE DEF tls
<1>2. [wire EXCEPT !.tls = tls] \in WireType
  BY <1>1 DEF WireType
<1> QED BY <1>2 DEF tls

LEMMA TakesTyped ==
    ASSUME elapsed \in 0 .. Forever, NEW most \in 0 .. Forever,
           \E d \in Block(most, 1) : Takes(d, most)
    PROVE  elapsed' \in 0 .. Forever
<1>1. PICK d \in Block(most, 1) : elapsed' = Min({elapsed + d, Forever})
  BY DEF Takes
<1>2. d \in Nat
  BY BlockTyped
<1> QED BY <1>1, <1>2, ClockTyped

(* Every action, and what it leaves to the next, as the cases of Next.     *)
LEMMA TypeNext ==
    ASSUME TypeOK, SomethingUnread, Next
    PROVE  TypeOK'
<1> USE DEF TypeOK
<1>1. /\ conn \in ConnType /\ wire \in WireType /\ cfg \in Configs /\ timeout \in Timeouts
      /\ conn.timeout \in 0 .. Forever /\ wire.timeout \in 0 .. Forever
      /\ wire.unread \in Seq(1 .. MaxAttempts)
      /\ attempt \in 0 .. MaxAttempts /\ got \in 0 .. MaxAttempts
      /\ MaxAttempts \in Nat
  BY BoundsTyped DEF ConnType, WireType
<1>2. ASSUME wire.unread # <<>>
      PROVE  Tail(wire.unread) \in Seq(1 .. MaxAttempts) /\ Head(wire.unread) \in 0 .. MaxAttempts
  <2> DEFINE attempts == 1 .. MaxAttempts
  <2>1. wire.unread \in Seq(attempts)
    BY <1>1
  <2> HIDE DEF attempts
  <2>2. Head(wire.unread) \in attempts /\ Tail(wire.unread) \in Seq(attempts)
    BY <1>2, <2>1, HeadTailProperties
  <2> QED BY <2>2 DEF attempts
<1>3. pc # "idle" => attempt \in 1 .. MaxAttempts
  BY <1>1 DEF SomethingUnread
<1>4. ASSUME NEW t \in Timeouts, Urlopen(t) PROVE TypeOK'
  <2> DEFINE c == IF ~slot THEN NewConn(cfg, ctx.own)
                  ELSE IF conn.sock /\ Readable THEN Closed(conn) ELSE conn
  <2>1. c \in ConnType
    BY <1>1, NewConnTyped, ClosedTyped
  <2>2. conn' = [c EXCEPT !.timeout = ConnectTimeout(t)]
    BY <1>4 DEF Urlopen
  <2> HIDE DEF c
  <2>3. conn' \in ConnType
    BY <2>1, <2>2, TimeoutsTyped DEF ConnType
  <2>4. wire' \in WireType
    BY <1>1, <1>4, NoWireTyped DEF Urlopen
  <2>5. attempt' \in 0 .. MaxAttempts
    BY <1>1, <1>4 DEF Urlopen
  <2>6. elapsed' \in 0 .. Forever /\ failure' \in [proxy : BOOLEAN, sent : BOOLEAN]
    BY <1>4, BoundsTyped DEF Urlopen, NoFailure
  <2>7. pc' \in {"proxy", "make"}
    BY <1>4 DEF Urlopen
  <2> QED BY <1>4, <2>3, <2>4, <2>5, <2>6, <2>7 DEF Urlopen
<1>5. CASE PrepareProxy
  <2>1. conn' \in ConnType
    BY <1>1, <1>5 DEF PrepareProxy, ConnType
  <2> QED BY <1>5, <2>1 DEF PrepareProxy
<1>6. CASE MakeRequest
  <2>1. conn' \in ConnType
    BY <1>1, <1>6, TimeoutsTyped DEF MakeRequest, ConnType
  <2>2. elapsed' \in 0 .. Forever
    BY <1>6, BoundsTyped DEF MakeRequest
  <2> QED BY <1>6, <2>1, <2>2 DEF MakeRequest
<1>7. CASE NewSocket
  <2>1. conn' \in ConnType
    <3>1. CASE cfg.tls
      <4>1. (IF conn.tunnel /\ cfg.proxy = "http" THEN "no" ELSE conn.proxyVerified)
              \in {"unset", "yes", "no"}
        BY <1>1 DEF ConnType
      <4> QED BY <1>1, <1>7, <3>1, <4>1 DEF NewSocket, ConnType
    <3>2. CASE ~cfg.tls
      <4>1. (IF cfg.proxy # "none" THEN "no" ELSE conn.proxyVerified) \in {"unset", "yes", "no"}
        BY <1>1 DEF ConnType
      <4>2. (cfg.proxy # "none") \in BOOLEAN
        OBVIOUS
      <4> QED BY <1>1, <1>7, <3>2, <4>1, <4>2 DEF NewSocket, ConnType
    <3> QED BY <3>1, <3>2
  <2>2. wire' \in WireType
    BY <1>1, <1>7, NoWireTyped DEF NewSocket, WireType
  <2>3. elapsed' \in 0 .. Forever
    <3>1. PICK d \in Block(conn.timeout, Addresses) : elapsed' = Min({elapsed + d, Forever})
      BY <1>7 DEF NewSocket
    <3> QED BY <1>1, <3>1, ClockTyped, BlockTyped, BoundsTyped
  <2>4. pc' \in {next, "tls", "proxytls", "tunnel"}
    BY <1>7 DEF NewSocket
  <2> QED BY <1>7, <2>1, <2>2, <2>3, <2>4 DEF NewSocket
<1>8. CASE NewSocketFails
  BY <1>1, <1>8, FailTyped DEF NewSocketFails
<1>9. ASSUME NEW cert \in Certs, ConnectTlsProxy(cert) PROVE TypeOK'
  <2>1. ctx' \in [own : Contexts, proxy : Contexts]
    BY <1>9, TouchedTyped, PoliciesTyped DEF ConnectTlsProxy
  <2>2. CASE PeerAccepted(ProxyPolicy, ctx.proxy, cert)
    <3>1. conn' = [conn EXCEPT !.proxyVerified = IF IsVerified(ProxyPolicy) THEN "yes" ELSE "no"]
      BY <1>9, <2>2 DEF ConnectTlsProxy
    <3>2. conn' \in ConnType
      BY <1>1, <3>1 DEF ConnType
    <3>3. wire' \in WireType
      BY <1>9, <2>2, ShownTyped DEF ConnectTlsProxy
    <3> QED BY <1>9, <2>1, <2>2, <3>2, <3>3 DEF ConnectTlsProxy
  <2>3. CASE ~PeerAccepted(ProxyPolicy, ctx.proxy, cert)
    BY <1>1, <1>9, <2>1, <2>3, FailTyped DEF ConnectTlsProxy
  <2> QED BY <2>2, <2>3
<1>10. ASSUME NEW cert \in Certs, ConnectTls(cert) PROVE TypeOK'
  <2> DEFINE which == IF ProxyIsForwarding THEN "proxy" ELSE "own"
  <2>1. ctx' \in [own : Contexts, proxy : Contexts]
    BY <1>10, TouchedTyped, PoliciesTyped DEF ConnectTls
  <2>2. CASE PeerAccepted(ConnPolicy, ctx[which], cert)
    <3> DEFINE verified == IsVerified(ConnPolicy) /\ ~ProxyIsForwarding
               toProxy == cfg.proxy # "none"
               proxyVerified == IF cfg.proxy = "none" \/ conn.proxyVerified # "unset"
                                  THEN conn.proxyVerified
                                ELSE IF IsVerified(ConnPolicy) THEN "yes" ELSE "no"
    <3>1. conn' = [conn EXCEPT !.verified = verified, !.toProxy = toProxy,
                               !.proxyVerified = proxyVerified]
      BY <1>10, <2>2 DEF ConnectTls
    <3>2. /\ verified \in BOOLEAN /\ toProxy \in BOOLEAN
          /\ proxyVerified \in {"unset", "yes", "no"}
      BY <1>1 DEF ConnType
    <3> HIDE DEF verified, toProxy, proxyVerified
    <3>3. conn' \in ConnType
      BY <1>1, <3>1, <3>2 DEF ConnType
    <3>4. wire' \in WireType
      BY <1>10, <2>2, ShownTyped DEF ConnectTls
    <3> QED BY <1>10, <2>1, <2>2, <3>3, <3>4 DEF ConnectTls
  <2>3. CASE ~PeerAccepted(ConnPolicy, ctx[which], cert)
    BY <1>1, <1>10, <2>1, <2>3, FailTyped DEF ConnectTls
  <2> QED BY <2>2, <2>3
<1>11. CASE Tunnel
  <2> DEFINE c == [conn EXCEPT !.toProxy = TRUE]
  <2>1. c \in ConnType
    BY <1>1 DEF ConnType
  <2>2. [wire EXCEPT !.peer = "target"] \in WireType
    BY <1>1 DEF WireType
  <2> HIDE DEF c
  <2>3. CASE conn' = c /\ wire' = [wire EXCEPT !.peer = "target"] /\ pc' = "tls"
             /\ UNCHANGED <<cfg, slot, next, timeout, attempt, failure, ctx, elapsed, got>>
    BY <2>1, <2>2, <2>3
  <2>4. CASE Fail(Closed(c)) /\ UNCHANGED <<ctx, elapsed, got>>
    BY <2>1, <2>4, FailTyped, ClosedTyped
  <2>5. CASE Fail(c) /\ UNCHANGED <<ctx, elapsed, got>>
    BY <2>1, <2>5, FailTyped
  <2> QED BY <1>11, <2>3, <2>4, <2>5 DEF Tunnel, c
<1>12. CASE Request
  <2> DEFINE c == [conn EXCEPT !.options = attempt]
  <2>1. c \in ConnType
    BY <1>1 DEF ConnType
  <2>2. [c EXCEPT !.state = "sent"] \in ConnType
    <3> HIDE DEF c
    <3> QED BY <2>1 DEF ConnType
  <2>3. [wire EXCEPT !.timeout = conn.timeout] \in WireType
    BY <1>1 DEF WireType
  <2>4. CASE conn.state = "idle"
    <3>1. conn' = [c EXCEPT !.state = "sent"]
      BY <1>12, <2>4 DEF Request
    <3> HIDE DEF c
    <3>2. wire' \in WireType
      BY <1>1, <1>12, <2>3, <2>4 DEF Request
    <3>3. pc' \in {"send", "tcp"}
      BY <1>12, <2>4 DEF Request
    <3> QED BY <1>12, <2>2, <2>4, <3>1, <3>2, <3>3 DEF Request
  <2>5. CASE conn.state # "idle"
    BY <1>12, <2>1, <2>5, FailTyped DEF Request
  <2> QED BY <2>4, <2>5
<1>13. CASE Send
  <2>1. elapsed' \in 0 .. Forever
    BY <1>1, <1>13, TakesTyped DEF Send
  <2>2. CASE Fail(conn)
    BY <1>1, <1>13, <2>1, <2>2, FailTyped DEF Send
  <2>3. CASE /\ wire' = [wire EXCEPT !.unread = Append(@, attempt)]
             /\ pc' = "sent"
             /\ UNCHANGED <<cfg, conn, slot, next, timeout, attempt, failure, ctx, got>>
    <3> DEFINE unread == Append(wire.unread, attempt)
    <3>a. unread \in Seq(1 .. MaxAttempts)
      BY <1>1, <1>3, <1>13 DEF Send
    <3>b. wire' = [wire EXCEPT !.unread = unread]
      BY <2>3
    <3> HIDE DEF unread
    <3>1. wire' \in WireType
      BY <1>1, <3>a, <3>b DEF WireType
    <3> QED BY <2>1, <2>3, <3>1
  <2>4. CASE /\ \E answer \in {<<>>, <<attempt>>} :
                  wire' = [wire EXCEPT !.unread = @ \o answer, !.dead = TRUE]
             /\ pc' = "sent"
             /\ UNCHANGED <<cfg, conn, slot, next, timeout, attempt, failure, ctx, got>>
    <3>1. PICK answer \in {<<>>, <<attempt>>} :
            wire' = [wire EXCEPT !.unread = @ \o answer, !.dead = TRUE]
      BY <2>4
    <3>2. answer \in Seq(1 .. MaxAttempts)
      <4>1. attempt \in 1 .. MaxAttempts
        BY <1>3, <1>13 DEF Send
      <4>2. <<>> \in Seq(1 .. MaxAttempts) /\ <<attempt>> \in Seq(1 .. MaxAttempts)
        BY <4>1
      <4> QED BY <3>1, <4>2
    <3>3. wire.unread \o answer \in Seq(1 .. MaxAttempts)
      BY <1>1, <3>2
    <3>4. wire' \in WireType
      BY <1>1, <3>1, <3>3 DEF WireType
    <3> QED BY <2>1, <2>4, <3>4
  <2> QED BY <1>13, <2>2, <2>3, <2>4 DEF Send
<1>14. CASE AskResponse
  <2> DEFINE read == ReadTimeout(timeout, elapsed)
             c == [conn EXCEPT !.timeout = read, !.options = 0]
  <2>1. read \in 0 .. Forever
    BY <1>1, ReadTimeoutLeft
  <2> HIDE DEF read
  <2>2. c \in ConnType
    <3> DEFINE zero == 0
    <3>1. zero \in 0 .. MaxAttempts
      BY <1>1
    <3> HIDE DEF zero
    <3>2. [conn EXCEPT !.timeout = read, !.options = zero] \in ConnType
      BY <1>1, <2>1, <3>1 DEF ConnType
    <3> QED BY <3>2 DEF zero
  <2>3. [wire EXCEPT !.timeout = read] \in WireType
    BY <1>1, <2>1 DEF WireType
  <2> HIDE DEF c
  <2>4. CASE Fail(conn) \/ Fail(c)
    BY <1>1, <1>14, <2>2, <2>4, FailTyped DEF AskResponse
  <2>5. CASE /\ conn' = c /\ wire' = [wire EXCEPT !.timeout = read] /\ pc' = "response"
             /\ UNCHANGED <<cfg, slot, next, timeout, attempt, failure, ctx, elapsed, got>>
    BY <2>2, <2>3, <2>5
  <2> QED BY <1>14, <2>4, <2>5 DEF AskResponse, c, read
<1>15. CASE GetResponse
  <2>1. elapsed' \in 0 .. Forever
    BY <1>1, <1>15, TakesTyped DEF GetResponse
  <2>2. [conn EXCEPT !.state = "idle", !.response = attempt] \in ConnType
    BY <1>1 DEF ConnType
  <2>3. conn' \in ConnType
    BY <1>1, <1>15, <2>2, ClosedTyped DEF GetResponse
  <2>4. wire' \in WireType
    BY <1>1, <1>15 DEF GetResponse, WireType
  <2> QED BY <1>2, <1>15, <2>1, <2>3, <2>4 DEF GetResponse
<1>16. CASE GetResponseFails
  <2>1. elapsed' \in 0 .. Forever
    BY <1>1, <1>16, TakesTyped DEF GetResponseFails
  <2> QED BY <1>1, <1>16, <2>1, FailTyped, ClosedTyped DEF GetResponseFails
<1>17. [conn EXCEPT !.response = 0] \in ConnType /\ Closed(conn) \in ConnType
  BY <1>1, ClosedTyped DEF ConnType
<1>18. wire.unread # <<>> => [wire EXCEPT !.unread = Tail(@)] \in WireType
  BY <1>1, <1>2 DEF WireType
<1>19. CASE ReadAll
  BY <1>1, <1>17, <1>18, <1>19, NoWireTyped DEF ReadAll, Release, SomethingUnread
<1>20. CASE ReleaseUnread
  BY <1>1, <1>20, NoWireTyped DEF ReleaseUnread, Release
<1>21. CASE ReadFails
  BY <1>1, <1>17, <1>21, NoWireTyped DEF ReadFails, Release
<1>22. CASE CloseResponse
  BY <1>1, <1>17, <1>22, NoWireTyped DEF CloseResponse, Release
<1>23. CASE ReadLate
  BY <1>1, <1>17, <1>18, <1>23 DEF ReadLate, Late, SomethingUnread
<1>24. CASE CloseLate
  BY <1>1, <1>17, <1>18, <1>24 DEF CloseLate, Late, SomethingUnread
<1>25. CASE PeerDrops
  <2>1. wire' \in WireType
    BY <1>1, <1>25 DEF PeerDrops, WireType
  <2> QED BY <1>25, <2>1 DEF PeerDrops
<1>26. CASE Interrupt
  BY <1>1, <1>17, <1>26, NoWireTyped DEF Interrupt
<1> QED BY <1>4, <1>5, <1>6, <1>7, <1>8, <1>9, <1>10, <1>11, <1>12, <1>13, <1>14, <1>15,
           <1>16, <1>19, <1>20, <1>21, <1>22, <1>23, <1>24, <1>25, <1>26 DEF Next

(***************************************************************************)
(* The end of an attempt that failed or was interrupted: all of the        *)
(* invariant but the types and the policy speaks of nothing any more.      *)
(***************************************************************************)
Forgotten ==
  /\ pc' = "idle" /\ wire' = NoWire /\ cfg' = cfg
  /\ conn'.certReqs = conn.certReqs /\ conn'.sock = FALSE /\ conn'.tunnel = FALSE
  /\ conn'.verified = FALSE /\ conn'.proxyVerified = "unset" /\ conn'.response = 0

LEMMA FailForgets ==
    ASSUME NEW c \in ConnType, c.certReqs = conn.certReqs, Fail(c)
    PROVE  Forgotten
BY ClosedTyped DEF Fail, Forgotten

LEMMA InterruptForgets ==
    ASSUME TypeOK, Interrupt
    PROVE  Forgotten
BY ClosedTyped DEF Interrupt, Forgotten, TypeOK

LEMMA ForgottenIsSound ==
    ASSUME Forgotten
    PROVE  /\ SocketStages' /\ SetUpStages' /\ SocketsAreEstablished' /\ TimeoutStages'
           /\ SomethingUnread' /\ UnreadStages' /\ VerifiedSound'
<1>1. SocketStages'
  BY DEF Forgotten, SocketStages
<1>2. SetUpStages' /\ TimeoutStages' /\ VerifiedSound'
  BY DEF Forgotten, SetUpStages, TimeoutStages, VerifiedSound
<1>3. SocketsAreEstablished'
  BY DEF Forgotten, SocketsAreEstablished
<1>4. SomethingUnread' /\ UnreadStages'
  BY DEF Forgotten, SomethingUnread, UnreadStages
<1> QED BY <1>1, <1>2, <1>3, <1>4

(* The steps that go on, where the action may also fail.                   *)
ProxyTlsGoesOn(cert) ==
  /\ pc = "proxytls" /\ PeerAccepted(ProxyPolicy, ctx.proxy, cert)
  /\ wire' = [wire EXCEPT !.tls = Append(@, cert)]
  /\ conn' = [conn EXCEPT !.proxyVerified =
               IF IsVerified(ProxyPolicy) THEN "yes" ELSE "no"]
  /\ pc' = "tunnel" /\ UNCHANGED <<cfg, timeout, attempt, next>>

TunnelGoesOn ==
  /\ pc = "tunnel" /\ wire' = [wire EXCEPT !.peer = "target"]
  /\ conn' = [conn EXCEPT !.toProxy = TRUE]
  /\ pc' = "tls" /\ UNCHANGED <<cfg, timeout, attempt, next>>

Which == IF ProxyIsForwarding THEN "proxy" ELSE "own"
TlsGoesOn(cert) ==
  /\ pc = "tls" /\ PeerAccepted(ConnPolicy, ctx[Which], cert)
  /\ wire' = [wire EXCEPT !.tls = Append(@, cert)]
  /\ conn' = [conn EXCEPT
       !.verified = IsVerified(ConnPolicy) /\ ~ProxyIsForwarding,
       !.toProxy = cfg.proxy # "none",
       !.proxyVerified = IF cfg.proxy = "none" \/ @ # "unset" THEN @
                         ELSE IF IsVerified(ConnPolicy) THEN "yes" ELSE "no"]
  /\ pc' = next /\ UNCHANGED <<cfg, timeout, attempt, next>>

RequestGoesOn ==
  /\ pc = "request"
  /\ conn' = [conn EXCEPT !.options = attempt, !.state = "sent"]
  /\ wire' = IF conn.sock THEN [wire EXCEPT !.timeout = conn.timeout] ELSE wire
  /\ pc' = IF conn.sock THEN "send" ELSE "tcp"
  /\ next' = "send" /\ UNCHANGED <<cfg, timeout, attempt>>

SendGoesOn ==
  /\ pc = "send" /\ pc' = "sent"
  /\ \/ wire' = [wire EXCEPT !.unread = Append(@, attempt)]
     \/ \E answer \in {<<>>, <<attempt>>} :
          wire' = [wire EXCEPT !.unread = @ \o answer, !.dead = TRUE]
  /\ UNCHANGED <<conn, cfg, timeout, attempt, next>>

AskGoesOn ==
  /\ pc = "sent" /\ pc' = "response" /\ conn.response = 0
  /\ ReadTimeout(timeout, elapsed) # 0
  /\ conn' = [conn EXCEPT !.timeout = ReadTimeout(timeout, elapsed), !.options = 0]
  /\ wire' = [wire EXCEPT !.timeout = ReadTimeout(timeout, elapsed)]
  /\ UNCHANGED <<cfg, timeout, attempt, next, elapsed>>

(* Every step fails, and forgets, or it goes on.                           *)
GoesOn ==
  \/ \E t \in Timeouts : Urlopen(t)
  \/ PrepareProxy \/ MakeRequest \/ NewSocket
  \/ \E cert \in Certs : ProxyTlsGoesOn(cert) \/ TlsGoesOn(cert)
  \/ TunnelGoesOn \/ RequestGoesOn \/ SendGoesOn \/ AskGoesOn \/ GetResponse
  \/ ReadAll \/ ReleaseUnread \/ ReadLate \/ CloseLate \/ PeerDrops

LEMMA FailOrGoOn ==
    ASSUME TypeOK, Next
    PROVE  Forgotten \/ GoesOn
<1>1. conn \in ConnType /\ Closed(conn) \in ConnType /\ Closed(conn).certReqs = conn.certReqs
  BY ClosedTyped DEF TypeOK
<1>2. Fail(conn) => Forgotten
  BY <1>1, FailForgets
<1>3. Fail(Closed(conn)) => Forgotten
  BY <1>1, FailForgets
<1>4. NewSocketFails => Forgotten
  BY <1>2 DEF NewSocketFails
<1>5. ASSUME NEW cert \in Certs, ConnectTlsProxy(cert) PROVE Forgotten \/ ProxyTlsGoesOn(cert)
  BY <1>2, <1>5 DEF ConnectTlsProxy, ProxyTlsGoesOn
<1>6. ASSUME NEW cert \in Certs, ConnectTls(cert) PROVE Forgotten \/ TlsGoesOn(cert)
  <2>1. CASE PeerAccepted(ConnPolicy, ctx[Which], cert)
    BY <1>6, <2>1 DEF ConnectTls, TlsGoesOn, Which
  <2>2. CASE ~PeerAccepted(ConnPolicy, ctx[Which], cert)
    BY <1>2, <1>6, <2>2 DEF ConnectTls, Which
  <2> QED BY <2>1, <2>2
<1>7. ASSUME Tunnel PROVE Forgotten \/ TunnelGoesOn
  <2> DEFINE c == [conn EXCEPT !.toProxy = TRUE]
  <2>1. c \in ConnType /\ c.certReqs = conn.certReqs
    BY <1>1 DEF ConnType
  <2> HIDE DEF c
  <2>2. Fail(c) \/ Fail(Closed(c)) => Forgotten
    BY <2>1, ClosedTyped, FailForgets
  <2> QED BY <1>7, <2>2 DEF Tunnel, TunnelGoesOn, c
<1>8. ASSUME Request PROVE Forgotten \/ RequestGoesOn
  <2> DEFINE c == [conn EXCEPT !.options = attempt]
  <2>1. c \in ConnType /\ c.certReqs = conn.certReqs
    BY <1>1 DEF ConnType, TypeOK
  <2>2. CASE conn.state = "idle"
    <3>1. [c EXCEPT !.state = "sent"] = [conn EXCEPT !.options = attempt, !.state = "sent"]
      OBVIOUS
    <3> HIDE DEF c
    <3>2. conn' = [c EXCEPT !.state = "sent"]
      BY <1>8, <2>2 DEF Request, c
    <3> QED BY <1>8, <2>2, <3>1, <3>2 DEF Request, RequestGoesOn
  <2>3. CASE conn.state # "idle"
    <3>1. Fail(c)
      BY <1>8, <2>3 DEF Request
    <3> HIDE DEF c
    <3> QED BY <2>1, <3>1, FailForgets
  <2> QED BY <2>2, <2>3
<1>9. ASSUME Send PROVE Forgotten \/ SendGoesOn
  BY <1>2, <1>9 DEF Send, SendGoesOn
<1>10. ASSUME AskResponse PROVE Forgotten \/ AskGoesOn
  <2> DEFINE read == ReadTimeout(timeout, elapsed)
             c == [conn EXCEPT !.timeout = read, !.options = 0]
  <2>1. c.certReqs = conn.certReqs
    BY <1>1 DEF ConnType
  <2>2. c \in ConnType
    <3> DEFINE zero == 0
    <3>1. zero \in 0 .. MaxAttempts /\ read \in 0 .. Forever
      BY BoundsTyped, ReadTimeoutLeft DEF TypeOK
    <3> HIDE DEF zero, read
    <3>2. [conn EXCEPT !.timeout = read, !.options = zero] \in ConnType
      BY <1>1, <3>1 DEF ConnType
    <3> QED BY <3>2 DEF zero
  <2>3. CASE Fail(conn)
    BY <1>2, <2>3
  <2>4. CASE Fail(c)
    <3> HIDE DEF c
    <3> QED BY <2>1, <2>2, <2>4, FailForgets
  <2>5. CASE /\ read # 0 /\ conn.response = 0 /\ conn' = c
             /\ wire' = [wire EXCEPT !.timeout = read] /\ pc' = "response"
             /\ UNCHANGED <<cfg, next, timeout, attempt>>
    BY <1>10, <2>5 DEF AskResponse, AskGoesOn
  <2> QED BY <1>10, <2>3, <2>4, <2>5 DEF AskResponse
<1>11. GetResponseFails => Forgotten
  BY <1>2, <1>3 DEF GetResponseFails
<1>12. Interrupt => Forgotten
  BY InterruptForgets
<1>13. ReadFails \/ CloseResponse => Forgotten
  BY <1>1, ClosedTyped DEF ReadFails, CloseResponse, Release, Forgotten
<1> QED BY <1>4, <1>5, <1>6, <1>7, <1>8, <1>9, <1>10, <1>11, <1>12, <1>13 DEF Next, GoesOn

(* What urlopen takes out of the pool: the connection as it is, if there   *)
(* is nothing to read on it, or one without a socket.                      *)
LEMMA UrlopenTakes ==
    ASSUME TypeOK, SocketStages, NEW t \in Timeouts, Urlopen(t)
    PROVE  /\ pc = "idle" /\ cfg' = cfg /\ timeout' = t /\ attempt' = attempt + 1
           /\ conn'.timeout = ConnectTimeout(t)
           /\ pc' = IF RequiresTunnel(cfg) /\ ~conn'.sock THEN "proxy" ELSE "make"
           /\ conn'.sock \in BOOLEAN
           /\ conn'.sock =>
                /\ conn.sock /\ ~Readable /\ wire' = wire
                /\ conn' = [conn EXCEPT !.timeout = ConnectTimeout(t)]
           /\ ~conn'.sock =>
                /\ wire' = NoWire /\ conn'.tunnel = FALSE /\ conn'.verified = FALSE
                /\ conn'.proxyVerified = "unset" /\ conn'.response = 0
           /\ conn'.certReqs = conn.certReqs
              \/ conn'.certReqs = NewConn(cfg, ctx.own).certReqs
<1> DEFINE c == IF ~slot THEN NewConn(cfg, ctx.own)
                ELSE IF conn.sock /\ Readable THEN Closed(conn) ELSE conn
<1>1. conn \in ConnType /\ c \in ConnType /\ cfg \in Configs /\ ctx.own \in Contexts
  BY NewConnTyped, ClosedTyped DEF TypeOK
<1>2. /\ pc = "idle" /\ cfg' = cfg /\ timeout' = t /\ attempt' = attempt + 1
      /\ conn' = [c EXCEPT !.timeout = ConnectTimeout(t)]
      /\ wire' = IF c.sock THEN wire ELSE NoWire
      /\ pc' = IF RequiresTunnel(cfg) /\ ~c.sock THEN "proxy" ELSE "make"
  BY DEF Urlopen
<1>3. c.sock => conn.sock /\ ~Readable /\ c = conn
  BY <1>1, NewConnTyped, ClosedTyped
<1>4. ~c.sock => /\ c.tunnel = FALSE /\ c.verified = FALSE
                 /\ c.proxyVerified = "unset" /\ c.response = 0
  <2>1. CASE ~slot
    BY <1>1, <2>1, NewConnTyped
  <2>2. CASE slot /\ conn.sock /\ Readable
    BY <1>1, <2>2, ClosedTyped
  <2>3. CASE slot /\ ~(conn.sock /\ Readable)
    BY <1>1, <1>2, <2>3 DEF SocketStages, ConnType
  <2> QED BY <2>1, <2>2, <2>3 DEF TypeOK
<1>5. c.certReqs = conn.certReqs \/ c.certReqs = NewConn(cfg, ctx.own).certReqs
  BY <1>1, ClosedTyped
<1> HIDE DEF c
<1>6. /\ conn'.sock = c.sock /\ conn'.tunnel = c.tunnel /\ conn'.verified = c.verified
      /\ conn'.proxyVerified = c.proxyVerified /\ conn'.response = c.response
      /\ conn'.certReqs = c.certReqs /\ conn'.timeout = ConnectTimeout(t)
      /\ c.sock \in BOOLEAN
  BY <1>1, <1>2 DEF ConnType
<1> QED BY <1>2, <1>3, <1>4, <1>5, <1>6

(***************************************************************************)
(* What is demanded of certificates stays what the configuration says.     *)
(***************************************************************************)
LEMMA PolicyNext ==
    ASSUME TypeOK, SocketStages, PolicyKept, Next
    PROVE  PolicyKept'
<1>1. cfg' = cfg
  BY DEF Next, Urlopen, PrepareProxy, MakeRequest, NewSocket, NewSocketFails, ConnectTlsProxy,
         ConnectTls, Tunnel, Request, Send, AskResponse, GetResponse, GetResponseFails,
         ReadAll, ReleaseUnread, ReadFails, CloseResponse, ReadLate, CloseLate, PeerDrops,
         Interrupt, Fail
<1>2. Demanded' = Demanded
  BY <1>1 DEF Demanded
<1>3. conn.certReqs \in Modes /\ ctx \in [own : Contexts, proxy : Contexts] /\ conn \in ConnType
  BY DEF TypeOK, ConnType
<1>4. conn'.certReqs = Demanded
  <2>1. ASSUME NEW t \in Timeouts, Urlopen(t) PROVE conn'.certReqs = Demanded
    <3>1. NewConn(cfg, ctx.own).certReqs = Demanded
      BY <1>3, NewConnTyped, ConfigTyped DEF TypeOK, PolicyKept, Demanded, ResolveCertReqs, Modes
    <3> QED BY <2>1, <3>1, UrlopenTakes DEF PolicyKept
  <2>2. ASSUME ~\E t \in Timeouts : Urlopen(t) PROVE conn'.certReqs = conn.certReqs
    <3>1. CASE Forgotten
      BY <3>1 DEF Forgotten
    <3>2. CASE GoesOn
      <4>1. Closed(conn).certReqs = conn.certReqs
        BY <1>3, ClosedTyped
      <4>2. CASE PrepareProxy \/ MakeRequest \/ NewSocket
        BY <1>3, <4>2 DEF PrepareProxy, MakeRequest, NewSocket, ConnType
      <4>3. CASE \E cert \in Certs : ProxyTlsGoesOn(cert) \/ TlsGoesOn(cert)
        BY <1>3, <4>3 DEF ProxyTlsGoesOn, TlsGoesOn, ConnType
      <4>4. CASE TunnelGoesOn \/ RequestGoesOn \/ SendGoesOn \/ AskGoesOn
        BY <1>3, <4>4 DEF TunnelGoesOn, RequestGoesOn, SendGoesOn, AskGoesOn, ConnType
      <4>5. CASE GetResponse
        BY <1>3, <4>1, <4>5 DEF GetResponse, ConnType
      <4>6. CASE ReadAll \/ ReleaseUnread \/ ReadLate \/ CloseLate \/ PeerDrops
        BY <1>3, <4>6 DEF ReadAll, ReleaseUnread, ReadLate, CloseLate, PeerDrops, Release, ConnType
      <4> QED BY <2>2, <3>2, <4>2, <4>3, <4>4, <4>5, <4>6 DEF GoesOn
    <3> QED BY <3>1, <3>2, FailOrGoOn
  <2> QED BY <2>1, <2>2 DEF PolicyKept
<1>5. \/ ctx' = ctx
      \/ \E p \in {ProxyPolicy, ConnPolicy}, which \in {"own", "proxy"} :
           /\ ctx' = [ctx EXCEPT ![which] = Touched(p, @)]
  BY DEF Next, Urlopen, PrepareProxy, MakeRequest, NewSocket, NewSocketFails, ConnectTlsProxy,
         ConnectTls, Tunnel, Request, Send, AskResponse, GetResponse, GetResponseFails,
         ReadAll, ReleaseUnread, ReadFails, CloseResponse, ReadLate, CloseLate, PeerDrops,
         Interrupt
<1>6. \/ ctx'.own = ctx.own
      \/ \E p \in {ProxyPolicy, ConnPolicy} : ctx'.own = Touched(p, ctx.own)
  BY <1>3, <1>5
<1>7. /\ ctx'.own = NoCtx <=> ctx.own = NoCtx
      /\ ctx'.own = ctx.own \/ ctx'.own.mode = conn.certReqs
  BY <1>3, <1>6, TouchedTyped, PoliciesTyped
<1>8. cfg.certReqs = "unset" /\ cfg.ctx # NoCtx => ctx'.own.mode = cfg.ctx.mode
  BY <1>7 DEF PolicyKept, Demanded
<1> QED BY <1>1, <1>2, <1>4, <1>7, <1>8 DEF PolicyKept

(***************************************************************************)
(* Sockets and tunnels.                                                    *)
(***************************************************************************)
LEMMA SocketStagesNext ==
    ASSUME TypeOK, SocketStages, Next
    PROVE  SocketStages'
<1>1. conn \in ConnType /\ Closed(conn) \in ConnType /\ cfg.tls \in BOOLEAN
      /\ RequiresTunnel(cfg) \in BOOLEAN /\ (RequiresTunnel(cfg) => cfg.tls)
      /\ conn.sock \in BOOLEAN /\ conn.tunnel \in BOOLEAN
  BY ClosedTyped, ConfigTyped DEF TypeOK, ConnType
<1>2. CASE Forgotten
  BY <1>2, ForgottenIsSound
<1>3. CASE GoesOn
  <2>1. ASSUME NEW t \in Timeouts, Urlopen(t) PROVE SocketStages'
    <3>1. /\ pc = "idle" /\ cfg' = cfg /\ conn'.sock \in BOOLEAN
          /\ pc' = IF RequiresTunnel(cfg) /\ ~conn'.sock THEN "proxy" ELSE "make"
      BY <2>1, UrlopenTakes
    <3>2. CASE conn'.sock
      <4>1. conn.sock /\ conn'.tunnel = conn.tunnel
        BY <1>1, <2>1, <3>2, UrlopenTakes DEF ConnType
      <4> QED BY <3>1, <3>2, <4>1 DEF SocketStages
    <3>3. CASE ~conn'.sock
      <4>1. /\ conn'.tunnel = FALSE /\ conn'.verified = FALSE
            /\ conn'.proxyVerified = "unset" /\ conn'.response = 0
        BY <2>1, <3>3, UrlopenTakes
      <4> QED BY <3>1, <3>3, <4>1 DEF SocketStages
    <3> QED BY <3>1, <3>2, <3>3
  <2>2. CASE PrepareProxy
    <3>1. conn' = [conn EXCEPT !.tunnel = TRUE]
      BY <2>2 DEF PrepareProxy
    <3>2. /\ conn'.tunnel = TRUE /\ conn'.sock = conn.sock /\ conn'.verified = conn.verified
          /\ conn'.proxyVerified = conn.proxyVerified /\ conn'.response = conn.response
      BY <1>1, <3>1 DEF ConnType
    <3> QED BY <1>1, <2>2, <3>2 DEF PrepareProxy, SocketStages
  <2>3. CASE MakeRequest
    <3>1. conn' = [conn EXCEPT !.timeout = ConnectTimeout(timeout)]
      BY <2>3 DEF MakeRequest
    <3>2. /\ conn'.tunnel = conn.tunnel /\ conn'.sock = conn.sock /\ conn'.verified = conn.verified
          /\ conn'.proxyVerified = conn.proxyVerified /\ conn'.response = conn.response
      BY <1>1, <3>1 DEF ConnType
    <3> QED BY <1>1, <2>3, <3>2 DEF MakeRequest, SocketStages
  <2>4. CASE NewSocket
    <3>1. conn'.sock = TRUE /\ conn'.tunnel = conn.tunnel
      BY <1>1, <2>4 DEF NewSocket, ConnType
    <3>2. pc' \in {"tls", "proxytls", "tunnel"} \/ (pc' = next /\ ~cfg.tls)
      BY <2>4 DEF NewSocket
    <3>3. pc = "tcp" /\ cfg' = cfg
      BY <2>4 DEF NewSocket
    <3>4. pc' \in {"tls", "proxytls", "tunnel", "send"}
      BY <3>2, <3>3 DEF SocketStages
    <3> QED BY <1>1, <3>1, <3>3, <3>4 DEF SocketStages
  <2>5. ASSUME NEW cert \in Certs, ProxyTlsGoesOn(cert) PROVE SocketStages'
    <3>1. conn'.sock = conn.sock /\ conn'.tunnel = conn.tunnel /\ conn.sock
      BY <1>1, <2>5 DEF ProxyTlsGoesOn, ConnType, SocketStages
    <3> QED BY <1>1, <2>5, <3>1 DEF ProxyTlsGoesOn, SocketStages
  <2>6. ASSUME NEW cert \in Certs, TlsGoesOn(cert) PROVE SocketStages'
    <3>1. conn'.sock = conn.sock /\ conn'.tunnel = conn.tunnel /\ conn.sock
      BY <1>1, <2>6 DEF TlsGoesOn, ConnType, SocketStages
    <3>2. pc' \in {"make", "request", "send"} /\ cfg' = cfg /\ pc = "tls"
      BY <2>6 DEF TlsGoesOn, TypeOK
    <3> QED BY <1>1, <3>1, <3>2 DEF SocketStages
  <2>7. CASE TunnelGoesOn
    <3>1. conn'.sock = conn.sock /\ conn'.tunnel = conn.tunnel /\ conn.sock
      BY <1>1, <2>7 DEF TunnelGoesOn, ConnType, SocketStages
    <3> QED BY <1>1, <2>7, <3>1 DEF TunnelGoesOn, SocketStages
  <2>8. CASE RequestGoesOn
    <3>1. /\ conn'.tunnel = conn.tunnel /\ conn'.sock = conn.sock /\ conn'.verified = conn.verified
          /\ conn'.proxyVerified = conn.proxyVerified /\ conn'.response = conn.response
      BY <1>1, <2>8 DEF RequestGoesOn, ConnType
    <3> QED BY <1>1, <2>8, <3>1 DEF RequestGoesOn, SocketStages
  <2>9. CASE SendGoesOn
    BY <1>1, <2>9 DEF SendGoesOn, SocketStages
  <2>10. CASE AskGoesOn
    <3>1. conn'.sock = conn.sock /\ conn'.tunnel = conn.tunnel /\ conn.sock
      BY <1>1, <2>10 DEF AskGoesOn, ConnType, SocketStages
    <3> QED BY <1>1, <2>10, <3>1 DEF AskGoesOn, SocketStages
  <2>11. CASE GetResponse
    <3>1. pc' = "body" /\ cfg' = cfg /\ pc = "response"
      BY <2>11 DEF GetResponse
    <3>2. CASE conn' = [conn EXCEPT !.state = "idle", !.response = attempt]
      <4>1. conn'.sock = conn.sock /\ conn'.tunnel = conn.tunnel /\ conn.sock
        BY <1>1, <3>1, <3>2 DEF ConnType, SocketStages
      <4> QED BY <1>1, <3>1, <4>1 DEF SocketStages
    <3>3. CASE conn' = Closed(conn)
      BY <1>1, <3>1, <3>3, ClosedTyped DEF SocketStages
    <3> QED BY <2>11, <3>2, <3>3 DEF GetResponse
  <2>12. CASE ReadAll
    <3>1. conn' = [conn EXCEPT !.response = 0] /\ pc' = "idle" /\ cfg' = cfg /\ pc = "body"
      BY <2>12 DEF ReadAll, Release
    <3>2. /\ conn'.tunnel = conn.tunnel /\ conn'.sock = conn.sock /\ conn'.verified = conn.verified
          /\ conn'.proxyVerified = conn.proxyVerified /\ conn'.response = 0
      BY <1>1, <3>1 DEF ConnType
    <3> QED BY <1>1, <3>1, <3>2 DEF SocketStages
  <2>13. CASE ReleaseUnread
    BY <1>1, <2>13 DEF ReleaseUnread, Release, SocketStages
  <2>14. CASE ReadLate \/ CloseLate
    <3>1. conn' = [conn EXCEPT !.response = 0] /\ pc' = pc /\ cfg' = cfg /\ next' = next
      BY <2>14 DEF ReadLate, CloseLate
    <3>2. /\ conn'.tunnel = conn.tunnel /\ conn'.sock = conn.sock /\ conn'.verified = conn.verified
          /\ conn'.proxyVerified = conn.proxyVerified /\ conn'.response = 0
      BY <1>1, <3>1 DEF ConnType
    <3> QED BY <1>1, <3>1, <3>2 DEF SocketStages
  <2>15. CASE PeerDrops
    BY <1>1, <2>15 DEF PeerDrops, SocketStages
  <2> QED BY <1>3, <2>1, <2>2, <2>3, <2>4, <2>5, <2>6, <2>7, <2>8, <2>9, <2>10, <2>11, <2>12,
             <2>13, <2>14, <2>15 DEF GoesOn
<1> QED BY <1>2, <1>3, FailOrGoOn

(***************************************************************************)
(* Certificates: what a handshake that is accepted shows.                  *)
(***************************************************************************)
LEMMA ProxyHandshakeShows ==
    ASSUME TypeOK, PolicyKept, NEW cert \in Certs,
           PeerAccepted(ProxyPolicy, ctx.proxy, cert)
    PROVE  /\ Satisfies(cert, cfg.proxyFingerprint, cfg.proxyAssert, OwnHost)
           /\ IsVerified(ProxyPolicy) => Trusted(cert)
<1> DEFINE p == ProxyPolicy
<1>1. /\ p.certReqs = Demanded /\ p.certReqs \in Modes /\ p.fingerprint = cfg.proxyFingerprint
      /\ p.assert = cfg.proxyAssert /\ p.name = OwnHost
      /\ p.fingerprint \in BOOLEAN /\ p.assert \in Asserts /\ p.name \in Names
  BY PoliciesTyped DEF PolicyKept, ProxyPolicy
<1>2. ctx.proxy \in Contexts
  BY DEF TypeOK
<1> HIDE DEF p
<1>3. /\ p.certReqs # "none" => cert.chain
      /\ p.fingerprint => cert.fingerprint
      /\ p.certReqs # "none" /\ ~p.fingerprint /\ p.assert # Unchecked
           => Identifies(cert, IF p.assert = Unset THEN p.name ELSE p.assert)
  BY <1>1, <1>2, AcceptedIs DEF p
<1>4. Satisfies(cert, cfg.proxyFingerprint, cfg.proxyAssert, OwnHost)
  BY <1>1, <1>3 DEF Satisfies
<1>5. IsVerified(p) => Trusted(cert)
  BY <1>1, <1>3 DEF IsVerified, Trusted, ResolveCertReqs, Modes
<1> QED BY <1>4, <1>5 DEF p

LEMMA OwnHandshakeShows ==
    ASSUME TypeOK, PolicyKept, SocketStages, pc = "tls", NEW cert \in Certs,
           PeerAccepted(ConnPolicy, ctx[Which], cert)
    PROVE  /\ Satisfies(cert, cfg.fingerprint, cfg.assert, TargetName)
           /\ IsVerified(ConnPolicy) => Trusted(cert)
<1> DEFINE p == ConnPolicy
<1>1. conn.tunnel <=> RequiresTunnel(cfg)
  BY DEF SocketStages
<1>2. ServerHostname = TargetName
  BY <1>1 DEF ServerHostname, TargetName
<1>3. /\ p.certReqs = Demanded /\ p.certReqs \in Modes /\ p.fingerprint = cfg.fingerprint
      /\ p.assert = cfg.assert /\ p.name = TargetName
      /\ p.fingerprint \in BOOLEAN /\ p.assert \in Asserts /\ p.name \in Names
  BY <1>2, PoliciesTyped DEF PolicyKept, ConnPolicy
<1>4. ctx[Which] \in Contexts
  BY DEF TypeOK, Which
<1> HIDE DEF p
<1>5. /\ p.certReqs # "none" => cert.chain
      /\ p.fingerprint => cert.fingerprint
      /\ p.certReqs # "none" /\ ~p.fingerprint /\ p.assert # Unchecked
           => Identifies(cert, IF p.assert = Unset THEN p.name ELSE p.assert)
  BY <1>3, <1>4, AcceptedIs DEF p
<1>6. Satisfies(cert, cfg.fingerprint, cfg.assert, TargetName)
  BY <1>3, <1>5 DEF Satisfies
<1>7. IsVerified(p) => Trusted(cert)
  BY <1>3, <1>5 DEF IsVerified, Trusted, ResolveCertReqs, Modes
<1> QED BY <1>6, <1>7 DEF p

LEMMA ShownOnWire ==
    ASSUME wire \in WireType, NEW cert \in Certs,
           wire' = [wire EXCEPT !.tls = Append(@, cert)]
    PROVE  /\ wire'.peer = wire.peer /\ Len(wire'.tls) = Len(wire.tls) + 1
           /\ Len(wire.tls) \in Nat
           /\ wire'.tls[Len(wire.tls) + 1] = cert
           /\ Len(wire.tls) = 1 => wire'.tls[1] = wire.tls[1]
           /\ wire'.tls # <<>>
<1>1. wire.tls \in Seq(Certs) /\ wire'.tls = Append(wire.tls, cert) /\ wire'.peer = wire.peer
  BY DEF WireType
<1> QED BY <1>1, AppendProperties, LenProperties

(***************************************************************************)
(* Steps that show nothing: the peer and the certificates stay, or there   *)
(* is no socket.                                                           *)
(***************************************************************************)
ShowsNothing ==
  /\ cfg' = cfg
  /\ conn'.sock =>
       /\ conn.sock /\ wire'.peer = wire.peer /\ wire'.tls = wire.tls
       /\ conn'.verified = conn.verified /\ conn'.proxyVerified = conn.proxyVerified
       /\ pc' = pc \/ (pc \in SetUp /\ pc' \in SetUp)
  /\ ~conn'.sock =>
       /\ conn'.verified = FALSE /\ conn'.proxyVerified = "unset"
       /\ pc' \in SetUp \cup {"proxy", "tcp"}

LEMMA MostShowNothing ==
    ASSUME TypeOK, SocketStages, GoesOn
    PROVE  \/ ShowsNothing
           \/ NewSocket \/ TunnelGoesOn
           \/ \E cert \in Certs : ProxyTlsGoesOn(cert) \/ TlsGoesOn(cert)
<1>1. conn \in ConnType /\ wire \in WireType /\ conn.sock \in BOOLEAN
  BY DEF TypeOK, ConnType
<1>2. ~conn.sock => conn.verified = FALSE /\ conn.proxyVerified = "unset"
  BY <1>1 DEF SocketStages, ConnType
<1>3. ASSUME NEW t \in Timeouts, Urlopen(t) PROVE ShowsNothing
  <2>1. CASE conn'.sock
    <3>1. /\ conn'.verified = conn.verified /\ conn'.proxyVerified = conn.proxyVerified
          /\ conn.sock /\ wire' = wire /\ cfg' = cfg /\ pc = "idle" /\ pc' = "make"
      BY <1>1, <1>3, <2>1, UrlopenTakes DEF ConnType
    <3> QED BY <2>1, <3>1 DEF ShowsNothing, SetUp
  <2>2. CASE ~conn'.sock
    <3>1. /\ conn'.verified = FALSE /\ conn'.proxyVerified = "unset" /\ cfg' = cfg
          /\ pc' \in {"proxy", "make"}
      BY <1>3, <2>2, UrlopenTakes
    <3> QED BY <2>2, <3>1 DEF ShowsNothing, SetUp
  <2> QED BY <2>1, <2>2
<1>4. CASE PrepareProxy
  <2>1. /\ conn'.sock = conn.sock /\ conn'.verified = conn.verified
        /\ conn'.proxyVerified = conn.proxyVerified /\ ~conn.sock
    BY <1>1, <1>4 DEF PrepareProxy, ConnType, SocketStages
  <2> QED BY <1>2, <1>4, <2>1 DEF PrepareProxy, ShowsNothing
<1>5. CASE MakeRequest
  <2>1. /\ conn'.sock = conn.sock /\ conn'.verified = conn.verified
        /\ conn'.proxyVerified = conn.proxyVerified
    BY <1>1, <1>5 DEF MakeRequest, ConnType
  <2>2. pc' \in {"tcp", "request"} /\ (conn.sock => pc' = "request")
    BY <1>5 DEF MakeRequest
  <2> QED BY <1>2, <1>5, <2>1, <2>2 DEF MakeRequest, ShowsNothing, SetUp
<1>6. CASE RequestGoesOn
  <2>1. /\ conn'.sock = conn.sock /\ conn'.verified = conn.verified
        /\ conn'.proxyVerified = conn.proxyVerified
    BY <1>1, <1>6 DEF RequestGoesOn, ConnType
  <2>2. wire'.peer = wire.peer /\ wire'.tls = wire.tls
    BY <1>1, <1>6 DEF RequestGoesOn, WireType
  <2> QED BY <1>2, <1>6, <2>1, <2>2 DEF RequestGoesOn, ShowsNothing, SetUp
<1>7. CASE SendGoesOn
  <2>1. wire'.peer = wire.peer /\ wire'.tls = wire.tls
    BY <1>1, <1>7 DEF SendGoesOn, WireType
  <2> QED BY <1>2, <1>7, <2>1 DEF SendGoesOn, ShowsNothing, SetUp
<1>8. CASE AskGoesOn
  <2>1. /\ conn'.sock = conn.sock /\ conn'.verified = conn.verified
        /\ conn'.proxyVerified = conn.proxyVerified
    BY <1>1, <1>8 DEF AskGoesOn, ConnType
  <2>2. wire'.peer = wire.peer /\ wire'.tls = wire.tls
    BY <1>1, <1>8 DEF AskGoesOn, WireType
  <2> QED BY <1>2, <1>8, <2>1, <2>2 DEF AskGoesOn, ShowsNothing, SetUp
<1>9. CASE GetResponse
  <2>1. wire'.peer = wire.peer /\ wire'.tls = wire.tls
    BY <1>1, <1>9 DEF GetResponse, WireType
  <2>2. pc = "response" /\ pc' = "body" /\ cfg' = cfg /\ conn.sock
    BY <1>9 DEF GetResponse, SocketStages
  <2>3. CASE conn' = [conn EXCEPT !.state = "idle", !.response = attempt]
    <3>1. /\ conn'.sock = conn.sock /\ conn'.verified = conn.verified
          /\ conn'.proxyVerified = conn.proxyVerified
      BY <1>1, <2>3 DEF ConnType
    <3> QED BY <2>1, <2>2, <3>1 DEF ShowsNothing, SetUp
  <2>4. CASE conn' = Closed(conn)
    BY <1>1, <2>2, <2>4, ClosedTyped DEF ShowsNothing, SetUp
  <2> QED BY <1>9, <2>3, <2>4 DEF GetResponse
<1>10. CASE ReadAll
  <2>1. /\ conn'.sock = conn.sock /\ conn'.verified = conn.verified
        /\ conn'.proxyVerified = conn.proxyVerified
    BY <1>1, <1>10 DEF ReadAll, Release, ConnType
  <2>2. conn.sock => wire'.peer = wire.peer /\ wire'.tls = wire.tls
    <3>1. conn.sock => wire' = [wire EXCEPT !.unread = Tail(@)]
      BY <1>10, <2>1 DEF ReadAll, Release
    <3> QED BY <1>1, <3>1 DEF WireType
  <2> QED BY <1>2, <1>10, <2>1, <2>2 DEF ReadAll, Release, ShowsNothing, SetUp
<1>11. CASE ReleaseUnread
  BY <1>2, <1>11 DEF ReleaseUnread, Release, ShowsNothing, SetUp
<1>12. CASE ReadLate \/ CloseLate
  <2>1. /\ conn'.sock = conn.sock /\ conn'.verified = conn.verified
        /\ conn'.proxyVerified = conn.proxyVerified /\ conn.sock
    BY <1>1, <1>12 DEF ReadLate, CloseLate, Late, ConnType
  <2>2. wire' = wire \/ wire' = [wire EXCEPT !.unread = Tail(@)]
    BY <1>12 DEF ReadLate, CloseLate
  <2>3. wire'.peer = wire.peer /\ wire'.tls = wire.tls
    BY <1>1, <2>2 DEF WireType
  <2> QED BY <1>2, <1>12, <2>1, <2>3 DEF ReadLate, CloseLate, ShowsNothing
<1>13. CASE PeerDrops
  <2>1. wire'.peer = wire.peer /\ wire'.tls = wire.tls
    BY <1>1, <1>13 DEF PeerDrops, WireType
  <2> QED BY <1>13, <2>1 DEF PeerDrops, ShowsNothing
<1> QED BY <1>3, <1>4, <1>5, <1>6, <1>7, <1>8, <1>9, <1>10, <1>11, <1>12, <1>13 DEF GoesOn

LEMMA EstablishedNext ==
    ASSUME TypeOK, PolicyKept, SocketStages, SetUpStages, SocketsAreEstablished, VerifiedSound,
           Next
    PROVE  SetUpStages' /\ SocketsAreEstablished' /\ VerifiedSound'
<1>1. /\ conn \in ConnType /\ wire \in WireType /\ cfg \in Configs
      /\ conn.proxyVerified \in {"unset", "yes", "no"} /\ conn.verified \in BOOLEAN
      /\ cfg.tls \in BOOLEAN /\ RequiresTunnel(cfg) \in BOOLEAN
      /\ cfg.proxy \in {"none", "http", "https"}
      /\ RequiresTunnel(cfg) => cfg.tls /\ cfg.proxy # "none"
  BY ConfigTyped DEF TypeOK, ConnType
<1>2. CASE Forgotten
  BY <1>2, ForgottenIsSound
<1>3. CASE ShowsNothing
  <2>1. /\ Demanded' = Demanded /\ OwnHost' = OwnHost /\ TargetName' = TargetName
        /\ Meant' = Meant
    BY <1>3 DEF ShowsNothing, Demanded, OwnHost, TargetName, Meant
  <2>2. CASE conn'.sock
    <3>1. Established' <=> Established
      BY <1>3, <2>1, <2>2 DEF ShowsNothing, Established, Satisfies
    <3>2. ProxyShown' <=> ProxyShown
      BY <1>3, <2>1, <2>2 DEF ShowsNothing, ProxyShown, Satisfies
    <3>3. SetUpStages'
      BY <1>3, <2>1, <2>2, <3>2 DEF ShowsNothing, SetUpStages, SetUp
    <3>4. SocketsAreEstablished'
      BY <1>3, <2>2, <3>1 DEF ShowsNothing, SocketsAreEstablished
    <3>5. VerifiedSound'
      BY <1>3, <2>2 DEF ShowsNothing, VerifiedSound, Trusted
    <3> QED BY <3>3, <3>4, <3>5
  <2>3. CASE ~conn'.sock
    BY <1>3, <2>3 DEF ShowsNothing, SetUpStages, SetUp, SocketsAreEstablished, VerifiedSound
  <2> QED BY <2>2, <2>3
<1>4. CASE NewSocket
  <2>1. /\ pc = "tcp" /\ cfg' = cfg /\ ~conn.sock
        /\ conn.tunnel <=> RequiresTunnel(cfg)
        /\ conn.verified = FALSE /\ conn.proxyVerified = "unset"
    BY <1>1, <1>4 DEF NewSocket, SocketStages
  <2>2. /\ wire'.peer = IF cfg.proxy = "none" THEN "target" ELSE "proxy"
        /\ wire'.tls = <<>>
    BY <1>4 DEF NewSocket, NoWire
  <2>3. /\ conn'.verified = FALSE /\ conn'.sock = TRUE
        /\ cfg.tls /\ conn.tunnel /\ cfg.proxy = "http" => conn'.proxyVerified = "no"
        /\ cfg.tls /\ ~(conn.tunnel /\ cfg.proxy = "http") => conn'.proxyVerified = "unset"
        /\ conn'.proxyVerified # "yes"
    BY <1>1, <1>4, <2>1 DEF NewSocket, ConnType
  <2>4. pc' = IF ~cfg.tls THEN next ELSE IF ~conn.tunnel THEN "tls"
              ELSE IF cfg.proxy = "https" THEN "proxytls" ELSE "tunnel"
    BY <1>4 DEF NewSocket
  <2>5. ~cfg.tls => pc' = "send"
    BY <2>1, <2>4 DEF SocketStages
  <2>6. Meant' = IF cfg.proxy = "none" \/ RequiresTunnel(cfg) THEN "target" ELSE "proxy"
    BY <2>1 DEF Meant
  <2>7. VerifiedSound'
    BY <2>3 DEF VerifiedSound
  <2>8. CASE ~cfg.tls
    <3>1. pc' = "send" /\ ~RequiresTunnel(cfg)
      BY <1>1, <2>5, <2>8
    <3>2. Established'
      BY <2>1, <2>2, <2>6, <2>8, <3>1 DEF Established
    <3> QED BY <2>7, <3>1, <3>2 DEF SetUpStages, SocketsAreEstablished
  <2>9. CASE cfg.tls
    <3>1. SocketsAreEstablished'
      BY <2>4, <2>9 DEF SocketsAreEstablished, SetUp
    <3>2. CASE ~conn.tunnel
      <4>1. pc' = "tls" /\ ~RequiresTunnel(cfg) /\ conn'.proxyVerified = "unset"
        BY <2>1, <2>3, <2>4, <2>9, <3>2
      <4>2. ProxyShown' /\ wire'.peer = Meant'
        BY <2>1, <2>2, <2>3, <2>6, <4>1 DEF ProxyShown
      <4> QED BY <2>1, <2>3, <2>7, <2>9, <3>1, <4>1, <4>2 DEF SetUpStages
    <3>3. CASE conn.tunnel /\ cfg.proxy = "https"
      <4>1. /\ pc' = "proxytls" /\ RequiresTunnel(cfg) /\ conn'.proxyVerified = "unset"
        BY <2>1, <2>3, <2>4, <2>9, <3>3
      <4> QED BY <2>1, <2>2, <2>3, <2>7, <3>1, <3>3, <4>1 DEF SetUpStages
    <3>4. CASE conn.tunnel /\ cfg.proxy = "http"
      <4>1. /\ pc' = "tunnel" /\ RequiresTunnel(cfg) /\ conn'.proxyVerified = "no"
        BY <2>1, <2>3, <2>4, <2>9, <3>4
      <4>2. ProxyShown'
        BY <2>1, <2>2, <2>3, <3>4, <4>1 DEF ProxyShown
      <4> QED BY <2>1, <2>3, <2>7, <3>1, <4>1, <4>2 DEF SetUpStages
    <3> QED BY <1>1, <2>1, <3>2, <3>3, <3>4
  <2> QED BY <2>8, <2>9
<1>5. ASSUME NEW cert \in Certs, ProxyTlsGoesOn(cert)
      PROVE  SetUpStages' /\ SocketsAreEstablished' /\ VerifiedSound'
  <2>1. /\ pc = "proxytls" /\ pc' = "tunnel" /\ cfg' = cfg /\ ~conn.verified
        /\ RequiresTunnel(cfg) /\ cfg.proxy = "https" /\ wire.tls = <<>>
        /\ PeerAccepted(ProxyPolicy, ctx.proxy, cert) /\ conn.sock
    BY <1>5 DEF ProxyTlsGoesOn, SetUpStages, SocketStages
  <2>2. /\ conn'.verified = conn.verified /\ conn'.sock = conn.sock
        /\ conn'.proxyVerified = IF IsVerified(ProxyPolicy) THEN "yes" ELSE "no"
    BY <1>1, <1>5 DEF ProxyTlsGoesOn, ConnType
  <2>3. Len(wire'.tls) = 1 /\ wire'.tls[1] = cert /\ wire'.tls # <<>>
    <3>1. Len(wire.tls) = 0
      BY <2>1
    <3> QED BY <1>1, <1>5, <3>1, ShownOnWire DEF ProxyTlsGoesOn
  <2>4. /\ Satisfies(cert, cfg.proxyFingerprint, cfg.proxyAssert, OwnHost)
        /\ IsVerified(ProxyPolicy) => Trusted(cert)
    BY <2>1, ProxyHandshakeShows
  <2>5. Satisfies(cert, cfg.proxyFingerprint, cfg.proxyAssert, OwnHost)'
    BY <2>1, <2>4 DEF Satisfies, Demanded, OwnHost
  <2>6. ProxyShown'
    BY <2>1, <2>2, <2>3, <2>4, <2>5 DEF ProxyShown, OwnHost
  <2>7. SetUpStages' /\ SocketsAreEstablished'
    BY <2>1, <2>2, <2>6 DEF SetUpStages, SocketsAreEstablished, SetUp
  <2>8. VerifiedSound'
    BY <2>1, <2>2, <2>3, <2>4 DEF VerifiedSound
  <2> QED BY <2>7, <2>8
<1>6. CASE TunnelGoesOn
  <2>1. /\ pc = "tunnel" /\ pc' = "tls" /\ cfg' = cfg /\ ~conn.verified
        /\ RequiresTunnel(cfg) /\ ProxyShown /\ conn.proxyVerified # "unset" /\ conn.sock
    BY <1>6 DEF TunnelGoesOn, SetUpStages, SocketStages
  <2>2. /\ conn'.verified = conn.verified /\ conn'.sock = conn.sock
        /\ conn'.proxyVerified = conn.proxyVerified
        /\ wire'.peer = "target" /\ wire'.tls = wire.tls
    BY <1>1, <1>6 DEF TunnelGoesOn, ConnType, WireType
  <2>3. ProxyShown'
    BY <2>1, <2>2 DEF ProxyShown, Satisfies, Demanded, OwnHost
  <2>4. wire'.peer = Meant' /\ cfg'.tls
    BY <1>1, <2>1, <2>2 DEF Meant
  <2>5. SetUpStages' /\ SocketsAreEstablished'
    BY <2>1, <2>2, <2>3, <2>4 DEF SetUpStages, SocketsAreEstablished, SetUp
  <2>6. VerifiedSound'
    BY <2>1, <2>2 DEF VerifiedSound
  <2> QED BY <2>5, <2>6
<1>7. ASSUME NEW cert \in Certs, TlsGoesOn(cert)
      PROVE  SetUpStages' /\ SocketsAreEstablished' /\ VerifiedSound'
  <2>1. /\ pc = "tls" /\ pc' \in {"make", "request", "send"} /\ cfg' = cfg /\ conn.sock
        /\ cfg.tls /\ wire.peer = Meant /\ ProxyShown
        /\ RequiresTunnel(cfg) <=> conn.proxyVerified # "unset"
        /\ conn.tunnel <=> RequiresTunnel(cfg)
        /\ PeerAccepted(ConnPolicy, ctx[Which], cert)
    BY <1>7 DEF TlsGoesOn, SetUpStages, SocketStages, TypeOK
  <2>2. /\ conn'.verified = (IsVerified(ConnPolicy) /\ ~ProxyIsForwarding)
        /\ conn'.sock = conn.sock
        /\ conn'.proxyVerified =
             IF cfg.proxy = "none" \/ conn.proxyVerified # "unset" THEN conn.proxyVerified
             ELSE IF IsVerified(ConnPolicy) THEN "yes" ELSE "no"
    BY <1>1, <1>7 DEF TlsGoesOn, ConnType
  <2>3. /\ wire'.peer = wire.peer /\ Len(wire'.tls) = Len(wire.tls) + 1
        /\ wire'.tls[Len(wire.tls) + 1] = cert /\ wire'.tls # <<>> /\ Len(wire.tls) \in Nat
        /\ Len(wire.tls) = 1 => wire'.tls[1] = wire.tls[1]
    BY <1>1, <1>7, ShownOnWire DEF TlsGoesOn
  <2>4. /\ Satisfies(cert, cfg.fingerprint, cfg.assert, TargetName)
        /\ IsVerified(ConnPolicy) => Trusted(cert)
    BY <2>1, OwnHandshakeShows
  <2>5. Satisfies(cert, cfg.fingerprint, cfg.assert, TargetName)'
    BY <2>1, <2>4 DEF Satisfies, Demanded, TargetName, OwnHost
  <2>6. Last(wire'.tls) = cert /\ wire'.tls[Len(wire'.tls)] = cert
    BY <2>3 DEF Last
  <2>7. wire'.peer = Meant'
    BY <2>1, <2>3 DEF Meant
  <2>8. CASE RequiresTunnel(cfg) /\ cfg.proxy = "https"
    <3>1. /\ Len(wire.tls) = 1
          /\ Satisfies(wire.tls[1], cfg.proxyFingerprint, cfg.proxyAssert, OwnHost)
          /\ conn.proxyVerified = "yes" => Trusted(wire.tls[1])
      BY <2>1, <2>8 DEF ProxyShown
    <3>2. /\ Len(wire'.tls) = 2 /\ wire'.tls[1] = wire.tls[1]
          /\ conn'.proxyVerified = conn.proxyVerified
      BY <2>1, <2>2, <2>3, <2>8, <3>1
    <3>3. Satisfies(wire.tls[1], cfg.proxyFingerprint, cfg.proxyAssert, OwnHost)'
      BY <2>1, <3>1, <3>2 DEF Satisfies, Demanded, OwnHost
    <3>4. Established'
      BY <2>1, <2>5, <2>6, <2>7, <2>8, <3>2, <3>3 DEF Established, TargetName, OwnHost
    <3>5. VerifiedSound'
      BY <2>1, <2>2, <2>3, <2>4, <2>6, <2>8, <3>1, <3>2 DEF VerifiedSound, Meant, Last
    <3> QED BY <2>1, <3>4, <3>5 DEF SetUpStages, SocketsAreEstablished
  <2>9. CASE ~(RequiresTunnel(cfg) /\ cfg.proxy = "https")
    <3>1. wire.tls = <<>> /\ conn.proxyVerified # "yes"
      BY <2>1, <2>9 DEF ProxyShown
    <3>2. Len(wire'.tls) = 1 /\ wire'.tls[1] = cert
      <4>1. Len(wire.tls) = 0
        BY <3>1
      <4> QED BY <2>3, <4>1
    <3>3. Established'
      BY <2>1, <2>5, <2>6, <2>7, <2>9, <3>2 DEF Established, TargetName, OwnHost
    <3>4. conn'.verified => wire'.peer = "target" /\ Trusted(cert)
      BY <2>1, <2>2, <2>3, <2>4 DEF Meant, ProxyIsForwarding
    <3>5. conn'.proxyVerified = "yes" => Trusted(cert)
      BY <2>2, <2>4, <3>1
    <3>6. VerifiedSound'
      BY <2>1, <2>2, <2>3, <2>6, <3>2, <3>4, <3>5 DEF VerifiedSound
    <3> QED BY <2>1, <3>3, <3>6 DEF SetUpStages, SocketsAreEstablished
  <2> QED BY <2>8, <2>9
<1> QED BY <1>2, <1>3, <1>4, <1>5, <1>6, <1>7, FailOrGoOn, MostShowNothing

(***************************************************************************)
(* Timeouts.                                                               *)
(***************************************************************************)
LEMMA TimeoutsNext ==
    ASSUME TypeOK, SocketStages, TimeoutStages, WaitsInBudget, Next
    PROVE  TimeoutStages' /\ WaitsInBudget'
<1>1. /\ conn \in ConnType /\ wire \in WireType /\ conn.sock \in BOOLEAN
      /\ timeout \in Timeouts /\ elapsed \in 0 .. Forever
  BY DEF TypeOK, ConnType
<1>2. CASE Forgotten
  <2>1. TimeoutStages'
    BY <1>2, ForgottenIsSound
  <2>2. WaitsInBudget'
    BY <1>2 DEF Forgotten, WaitsInBudget
  <2> QED BY <2>1, <2>2
<1>3. CASE GoesOn
  <2>1. ASSUME NEW t \in Timeouts, Urlopen(t) PROVE TimeoutStages' /\ WaitsInBudget'
    <3>1. conn'.timeout = ConnectTimeout(t) /\ timeout' = t /\ pc' \in {"proxy", "make"}
      BY <2>1, UrlopenTakes
    <3>2. ConnectTimeout(timeout') = ConnectTimeout(t)
      BY <3>1
    <3> QED BY <3>1, <3>2 DEF TimeoutStages, WaitsInBudget
  <2>2. CASE PrepareProxy
    <3>1. conn'.timeout = conn.timeout
      BY <1>1, <2>2 DEF PrepareProxy, ConnType
    <3> QED BY <2>2, <3>1 DEF PrepareProxy, TimeoutStages, WaitsInBudget
  <2>3. CASE MakeRequest
    <3>1. conn'.timeout = ConnectTimeout(timeout) /\ timeout' = timeout
          /\ pc' \in {"tcp", "request"}
      BY <1>1, <2>3 DEF MakeRequest, ConnType
    <3>2. ConnectTimeout(timeout') = ConnectTimeout(timeout)
      BY <3>1
    <3> QED BY <3>1, <3>2 DEF TimeoutStages, WaitsInBudget
  <2>4. CASE NewSocket
    <3>1. conn'.timeout = conn.timeout /\ wire'.timeout = conn.timeout
          /\ timeout' = timeout /\ pc = "tcp"
      BY <1>1, <2>4, NoWireTyped DEF NewSocket, ConnType, WireType
    <3>2. conn.timeout = ConnectTimeout(timeout) /\ ConnectTimeout(timeout') = ConnectTimeout(timeout)
      BY <3>1 DEF TimeoutStages
    <3>3. pc' # "response"
      BY <2>4 DEF NewSocket, TypeOK
    <3> QED BY <3>1, <3>2, <3>3 DEF TimeoutStages, WaitsInBudget
  <2>5. CASE TunnelGoesOn \/ \E cert \in Certs : ProxyTlsGoesOn(cert) \/ TlsGoesOn(cert)
    <3>1. conn'.timeout = conn.timeout /\ wire'.timeout = wire.timeout /\ timeout' = timeout
      BY <1>1, <2>5 DEF TunnelGoesOn, ProxyTlsGoesOn, TlsGoesOn, ConnType, WireType
    <3>2. pc \in {"proxytls", "tunnel", "tls"} /\ pc' \notin {"idle", "response", "body"}
      BY <2>5 DEF TunnelGoesOn, ProxyTlsGoesOn, TlsGoesOn, TypeOK
    <3>3. /\ conn.timeout = ConnectTimeout(timeout) /\ wire.timeout = conn.timeout
          /\ ConnectTimeout(timeout') = ConnectTimeout(timeout)
      BY <3>1, <3>2 DEF TimeoutStages
    <3> QED BY <3>1, <3>2, <3>3 DEF TimeoutStages, WaitsInBudget
  <2>6. CASE RequestGoesOn
    <3>1. conn'.timeout = conn.timeout /\ timeout' = timeout /\ pc = "request"
      BY <1>1, <2>6 DEF RequestGoesOn, ConnType
    <3>2. pc' \in {"send", "tcp"} /\ (pc' = "send" => wire'.timeout = conn.timeout)
      BY <1>1, <2>6 DEF RequestGoesOn, WireType
    <3>3. conn.timeout = ConnectTimeout(timeout) /\ ConnectTimeout(timeout') = ConnectTimeout(timeout)
      BY <3>1 DEF TimeoutStages
    <3> QED BY <3>1, <3>2, <3>3 DEF TimeoutStages, WaitsInBudget
  <2>7. CASE SendGoesOn
    <3>1. conn.timeout = ConnectTimeout(timeout) /\ ConnectTimeout(timeout') = ConnectTimeout(timeout)
      BY <2>7 DEF SendGoesOn, TimeoutStages
    <3> QED BY <2>7, <3>1 DEF SendGoesOn, TimeoutStages, WaitsInBudget
  <2>8. CASE AskGoesOn
    <3> DEFINE read == ReadTimeout(timeout, elapsed)
    <3>1. /\ read \in 0 .. Forever /\ read # 0 /\ read <= timeout.read
          /\ timeout.total # Forever => read + elapsed <= timeout.total
      BY <1>1, <2>8, ReadTimeoutLeft DEF AskGoesOn
    <3> HIDE DEF read
    <3>2. wire'.timeout = read
      BY <1>1, <2>8 DEF AskGoesOn, WireType, read
    <3>3. timeout' = timeout /\ elapsed' = elapsed /\ pc' = "response"
      BY <2>8 DEF AskGoesOn
    <3>4. read > 0
      BY <3>1, BoundsTyped
    <3> QED BY <3>1, <3>2, <3>3, <3>4 DEF TimeoutStages, WaitsInBudget
  <2>9. CASE GetResponse \/ ReadAll \/ ReleaseUnread \/ PeerDrops
    <3>1. pc' \in {"idle", "body"}
      BY <2>9 DEF GetResponse, ReadAll, ReleaseUnread, PeerDrops, Release
    <3> QED BY <3>1 DEF TimeoutStages, WaitsInBudget
  <2>10. CASE ReadLate \/ CloseLate
    <3>1. conn'.timeout = conn.timeout /\ timeout' = timeout /\ elapsed' = elapsed /\ pc' = pc
      BY <1>1, <2>10 DEF ReadLate, CloseLate, ConnType
    <3>2. wire' = wire \/ wire' = [wire EXCEPT !.unread = Tail(@)]
      BY <2>10 DEF ReadLate, CloseLate
    <3>3. wire'.timeout = wire.timeout
      BY <1>1, <3>2 DEF WireType
    <3>4. ConnectTimeout(timeout') = ConnectTimeout(timeout)
      BY <3>1
    <3>5. TimeoutStages'
      BY <3>1, <3>3, <3>4 DEF TimeoutStages
    <3>6. WaitsInBudget'
      BY <3>1, <3>3, <3>4 DEF WaitsInBudget
    <3> QED BY <3>5, <3>6
  <2> QED BY <1>3, <2>1, <2>2, <2>3, <2>4, <2>5, <2>6, <2>7, <2>8, <2>9, <2>10 DEF GoesOn
<1> QED BY <1>2, <1>3, FailOrGoOn

(***************************************************************************)
(* Responses on the wire.                                                  *)
(***************************************************************************)
LEMMA OneLeft ==
    ASSUME NEW S, NEW s \in Seq(S), Len(s) = 1, NEW x \in S
    PROVE  s # <<>> /\ Tail(s) = <<>> /\ Tail(Append(s, x)) = <<x>>
<1>1. s # <<>>
  OBVIOUS
<1>2. Tail(s) \in Seq(S) /\ Len(Tail(s)) = 0
  BY <1>1, HeadTailProperties
<1>3. Tail(s) = <<>>
  BY <1>2, EmptySeq
<1>4. Tail(Append(s, x)) = Append(Tail(s), x)
  BY <1>1, HeadTailAppend
<1>5. Append(<<>>, x) = <<x>>
  OBVIOUS
<1> QED BY <1>1, <1>3, <1>4, <1>5

LEMMA Appending ==
    ASSUME NEW S, NEW s \in Seq(S), NEW x \in S
    PROVE  /\ Append(s, x) \in Seq(S) /\ Append(s, x) # <<>>
           /\ s = <<>> => Append(s, x) = <<x>>
           /\ s \o <<>> = s /\ s \o <<x>> = Append(s, x)
<1>1. Append(s, x) \in Seq(S) /\ Len(Append(s, x)) = Len(s) + 1 /\ Len(s) \in Nat
  BY AppendProperties, LenProperties
<1>2. s = <<>> => Append(s, x) = <<x>>
  OBVIOUS
<1>3. s \o <<>> = s
  BY ConcatEmptySeq
<1>4. s \o <<x>> = Append(s, x)
  BY AppendIsConcat
<1>5. Append(s, x) # <<>>
  BY <1>1
<1> QED BY <1>1, <1>2, <1>3, <1>4, <1>5

(* What each step that goes on does to the responses.                      *)
Quiet == /\ conn'.response = conn.response /\ conn'.sock = conn.sock
         /\ wire'.unread = wire.unread /\ wire'.rest = wire.rest
         /\ attempt' = attempt

TakenOut ==
  /\ pc = "idle" /\ pc' \in {"proxy", "make"} /\ attempt' # 0
  /\ \/ /\ conn'.sock /\ conn.sock /\ ~Readable
        /\ conn'.response = conn.response /\ wire' = wire
     \/ ~conn'.sock /\ conn'.response = 0

Opening ==
  /\ Quiet /\ ~conn.sock /\ conn.response = 0
  /\ pc \in {"proxy", "make", "request"} /\ pc' \in {"tcp", "request"}

Opened ==
  /\ pc = "tcp" /\ pc' \notin {"idle", "sent", "response", "body"}
  /\ conn'.response = 0 /\ wire'.unread = <<>> /\ attempt' = attempt

SettingUp ==
  /\ Quiet /\ conn.sock
  /\ pc \in {"make", "proxytls", "tunnel", "tls", "request"}
  /\ pc' \in {"tunnel", "tls", "make", "request", "send"}

Written ==
  /\ pc = "send" /\ pc' = "sent" /\ conn' = conn /\ attempt' = attempt
  /\ wire'.rest = wire.rest
  /\ wire'.unread = wire.unread \/ wire'.unread = Append(wire.unread, attempt)

Asked == Quiet /\ pc = "sent" /\ pc' = "response" /\ conn.response = 0

Answered ==
  /\ pc = "response" /\ pc' = "body" /\ attempt' = attempt
  /\ wire.unread # <<>> /\ wire'.unread = wire.unread /\ got' = Head(wire.unread)
  /\ conn'.response = attempt \/ (conn'.response = 0 /\ ~conn'.sock)

Released ==
  /\ pc = "body" /\ pc' = "idle" /\ conn'.sock = conn.sock
  /\ \/ conn'.response = 0 /\ (conn.sock => wire'.unread = Tail(wire.unread))
     \/ conn'.response = conn.response /\ (conn.sock => wire' = wire)

GivenUp ==
  /\ pc' = pc /\ pc # "body" /\ attempt' = attempt
  /\ conn.sock /\ conn'.sock /\ conn.response # 0 /\ conn'.response = 0
  /\ wire'.rest = wire.rest
  /\ \/ wire'.unread = Tail(wire.unread)
     \/ /\ wire'.unread = wire.unread /\ wire.rest # "buffer"
        /\ wire.rest = "flight" => MayCloseInFlight

Dropped == Quiet /\ pc = "idle" /\ pc' = "idle"

LEMMA StepsOnResponses ==
    ASSUME TypeOK, SocketStages, SomethingUnread, GoesOn
    PROVE  \/ TakenOut \/ Opening \/ Opened \/ SettingUp \/ Written \/ Asked
           \/ Answered \/ Released \/ GivenUp \/ Dropped
<1>1. /\ conn \in ConnType /\ wire \in WireType /\ conn.sock \in BOOLEAN
      /\ conn.response \in 0 .. MaxAttempts /\ attempt \in 0 .. MaxAttempts
      /\ wire.unread \in Seq(1 .. MaxAttempts) /\ MaxAttempts \in Nat
  BY BoundsTyped DEF TypeOK, ConnType, WireType
<1>2. ~conn.sock => conn.response = 0
  BY DEF SocketStages
<1>3. ASSUME NEW t \in Timeouts, Urlopen(t) PROVE TakenOut
  <2>1. attempt' # 0
    <3>1. attempt' = attempt + 1
      BY <1>3 DEF Urlopen
    <3> QED BY <1>1, <3>1
  <2>2. CASE conn'.sock
    <3>1. conn'.response = conn.response
      BY <1>1, <1>3, <2>2, UrlopenTakes DEF ConnType
    <3> QED BY <1>3, <2>1, <2>2, <3>1, UrlopenTakes DEF TakenOut
  <2>3. CASE ~conn'.sock
    BY <1>3, <2>1, <2>3, UrlopenTakes DEF TakenOut
  <2> QED BY <2>2, <2>3
<1>4. CASE PrepareProxy
  <2>1. Quiet
    BY <1>1, <1>4 DEF PrepareProxy, ConnType, Quiet
  <2>2. ~conn.sock
    BY <1>4 DEF PrepareProxy, SocketStages
  <2> QED BY <1>2, <1>4, <2>1, <2>2 DEF PrepareProxy, Opening
<1>5. CASE MakeRequest
  <2>1. Quiet
    BY <1>1, <1>5 DEF MakeRequest, ConnType, Quiet
  <2>2. pc = "make" /\ pc' \in {"tcp", "request"} /\ (conn.sock => pc' = "request")
    BY <1>5 DEF MakeRequest
  <2> QED BY <1>2, <2>1, <2>2 DEF Opening, SettingUp
<1>6. CASE NewSocket
  <2>1. conn'.response = conn.response /\ ~conn.sock
    BY <1>1, <1>6 DEF NewSocket, ConnType, SocketStages
  <2>2. wire'.unread = <<>> /\ attempt' = attempt /\ pc = "tcp"
    BY <1>6 DEF NewSocket, NoWire
  <2>3. pc' \notin {"idle", "sent", "response", "body"}
    BY <1>6 DEF NewSocket, TypeOK
  <2> QED BY <1>2, <2>1, <2>2, <2>3 DEF Opened
<1>7. ASSUME NEW cert \in Certs, ProxyTlsGoesOn(cert) \/ TlsGoesOn(cert) PROVE SettingUp
  <2>1. Quiet
    BY <1>1, <1>7 DEF ProxyTlsGoesOn, TlsGoesOn, ConnType, WireType, Quiet
  <2>2. /\ pc \in {"proxytls", "tls"} /\ conn.sock
        /\ pc' \in {"tunnel", "make", "request", "send"}
    BY <1>7 DEF ProxyTlsGoesOn, TlsGoesOn, TypeOK, SocketStages
  <2> QED BY <2>1, <2>2 DEF SettingUp
<1>8. CASE TunnelGoesOn
  <2>1. Quiet
    BY <1>1, <1>8 DEF TunnelGoesOn, ConnType, WireType, Quiet
  <2>2. pc = "tunnel" /\ pc' = "tls" /\ conn.sock
    BY <1>8 DEF TunnelGoesOn, SocketStages
  <2> QED BY <2>1, <2>2 DEF SettingUp
<1>9. CASE RequestGoesOn
  <2>1. Quiet
    BY <1>1, <1>9 DEF RequestGoesOn, ConnType, WireType, Quiet
  <2>2. pc = "request" /\ pc' = IF conn.sock THEN "send" ELSE "tcp"
    BY <1>9 DEF RequestGoesOn
  <2>3. pc' \in {"send", "tcp"} /\ (conn.sock <=> pc' = "send")
    BY <2>2
  <2> QED BY <1>2, <2>1, <2>2, <2>3 DEF Opening, SettingUp
<1>10. CASE SendGoesOn
  <2>1. attempt \in 1 .. MaxAttempts
    BY <1>1, <1>10 DEF SendGoesOn, SomethingUnread
  <2>2. CASE wire' = [wire EXCEPT !.unread = Append(@, attempt)]
    <3>1. wire'.unread = Append(wire.unread, attempt) /\ wire'.rest = wire.rest
      BY <1>1, <2>2 DEF WireType
    <3> QED BY <1>10, <3>1 DEF SendGoesOn, Written
  <2>3. ASSUME NEW answer \in {<<>>, <<attempt>>},
               wire' = [wire EXCEPT !.unread = @ \o answer, !.dead = TRUE]
        PROVE  /\ wire'.rest = wire.rest
               /\ wire'.unread = wire.unread \/ wire'.unread = Append(wire.unread, attempt)
    <3>1. wire'.unread = wire.unread \o answer /\ wire'.rest = wire.rest
      BY <1>1, <2>3 DEF WireType
    <3>2. wire.unread \o <<>> = wire.unread /\ wire.unread \o <<attempt>> = Append(wire.unread, attempt)
      BY <1>1, <2>1, Appending
    <3> QED BY <3>1, <3>2
  <2> QED BY <1>10, <2>2, <2>3 DEF SendGoesOn, Written
<1>11. CASE AskGoesOn
  <2>1. Quiet
    BY <1>1, <1>11 DEF AskGoesOn, ConnType, WireType, Quiet
  <2> QED BY <1>11, <2>1 DEF AskGoesOn, Asked
<1>12. CASE GetResponse
  <2>1. wire'.unread = wire.unread
    BY <1>1, <1>12 DEF GetResponse, WireType
  <2>2. conn'.response = attempt \/ (conn'.response = 0 /\ ~conn'.sock)
    <3>1. CASE conn' = [conn EXCEPT !.state = "idle", !.response = attempt]
      BY <1>1, <3>1 DEF ConnType
    <3>2. CASE conn' = Closed(conn)
      BY <1>1, <3>2, ClosedTyped
    <3> QED BY <1>12, <3>1, <3>2 DEF GetResponse
  <2> QED BY <1>12, <2>1, <2>2 DEF GetResponse, Answered
<1>13. CASE ReadAll
  <2>1. conn'.response = 0 /\ conn'.sock = conn.sock
    BY <1>1, <1>13 DEF ReadAll, Release, ConnType
  <2>2. conn.sock => wire' = [wire EXCEPT !.unread = Tail(@)]
    BY <1>13, <2>1 DEF ReadAll, Release
  <2>3. conn.sock => wire'.unread = Tail(wire.unread)
    BY <1>1, <2>2 DEF WireType
  <2> QED BY <1>13, <2>1, <2>3 DEF ReadAll, Release, Released
<1>14. CASE ReleaseUnread
  BY <1>14 DEF ReleaseUnread, Release, Released
<1>15. CASE ReadLate \/ CloseLate
  <2>1. /\ conn'.response = 0 /\ conn'.sock = conn.sock /\ conn.sock
        /\ pc # "body" /\ conn.response # 0 /\ pc' = pc /\ attempt' = attempt
    BY <1>1, <1>15 DEF ReadLate, CloseLate, Late, ConnType
  <2>2. \/ wire' = [wire EXCEPT !.unread = Tail(@)]
        \/ wire' = wire /\ wire.rest # "buffer" /\ (wire.rest = "flight" => MayCloseInFlight)
    BY <1>15 DEF ReadLate, CloseLate
  <2>3. /\ wire'.rest = wire.rest
        /\ \/ wire'.unread = Tail(wire.unread)
           \/ /\ wire'.unread = wire.unread /\ wire.rest # "buffer"
              /\ wire.rest = "flight" => MayCloseInFlight
    BY <1>1, <2>2 DEF WireType
  <2> QED BY <2>1, <2>3 DEF GivenUp
<1>16. CASE PeerDrops
  <2>1. Quiet
    BY <1>1, <1>16 DEF PeerDrops, WireType, Quiet
  <2> QED BY <1>16, <2>1 DEF PeerDrops, Dropped
<1> QED BY <1>3, <1>4, <1>5, <1>6, <1>7, <1>8, <1>9, <1>10, <1>11, <1>12, <1>13, <1>14, <1>15,
           <1>16 DEF GoesOn

LEMMA SomethingUnreadNext ==
    ASSUME TypeOK, SocketStages, SomethingUnread, Next
    PROVE  SomethingUnread'
<1>1. wire.unread \in Seq(1 .. MaxAttempts) /\ attempt \in 0 .. MaxAttempts
  BY DEF TypeOK, WireType
<1>2. CASE Forgotten
  BY <1>2, ForgottenIsSound
<1>3. CASE GoesOn
  <2>1. CASE TakenOut
    BY <2>1 DEF TakenOut, SomethingUnread
  <2>2. CASE Opening \/ SettingUp \/ Asked
    BY <2>2 DEF Opening, SettingUp, Asked, Quiet, SomethingUnread
  <2>3. CASE Opened
    BY <2>3 DEF Opened, SomethingUnread
  <2>4. CASE Written
    <3>1. attempt \in 1 .. MaxAttempts
      BY <1>1, <2>4 DEF Written, SomethingUnread
    <3>2. Append(wire.unread, attempt) # <<>>
      BY <1>1, <3>1, Appending
    <3> QED BY <2>4, <3>2 DEF Written, SomethingUnread
  <2>5. CASE Answered
    BY <2>5 DEF Answered, SomethingUnread
  <2>6. CASE Released
    BY <2>6 DEF Released, SomethingUnread
  <2>7. CASE GivenUp
    BY <2>7 DEF GivenUp, SomethingUnread
  <2>8. CASE Dropped
    BY <2>8 DEF Dropped, Quiet, SomethingUnread
  <2> QED BY <1>3, <2>1, <2>2, <2>3, <2>4, <2>5, <2>6, <2>7, <2>8, StepsOnResponses
<1> QED BY <1>2, <1>3, FailOrGoOn

LEMMA UnreadNext ==
    ASSUME ~MayCloseInFlight, TypeOK, SocketStages, SomethingUnread, UnreadStages, Next
    PROVE  UnreadStages'
<1>1. /\ wire.unread \in Seq(1 .. MaxAttempts) /\ attempt \in 0 .. MaxAttempts
      /\ wire.rest \in {"buffer", "socket", "flight"} /\ conn.sock \in BOOLEAN
  BY DEF TypeOK, WireType, ConnType
<1>2. pc # "idle" => attempt \in 1 .. MaxAttempts
  BY <1>1 DEF SomethingUnread
<1>3. ASSUME Len(wire.unread) = 1, NEW x \in 1 .. MaxAttempts
      PROVE  /\ wire.unread # <<>> /\ Tail(wire.unread) = <<>>
             /\ Tail(Append(wire.unread, x)) = <<x>>
  BY <1>1, <1>3, OneLeft
<1>4. MaxAttempts \in 1 .. MaxAttempts
  BY BoundsTyped
<1>5. Len(wire.unread) = 1 => wire.unread # <<>> /\ Tail(wire.unread) = <<>>
  BY <1>3, <1>4
<1>6. CASE Forgotten
  BY <1>6, ForgottenIsSound
<1>7. CASE GoesOn
  <2>1. CASE TakenOut
    <3>1. CASE conn'.sock
      <4>1. /\ pc = "idle" /\ pc' \in {"proxy", "make"} /\ conn.sock /\ ~Readable
            /\ conn'.response = conn.response /\ wire' = wire
        BY <2>1, <3>1 DEF TakenOut
      <4>2. wire.unread = <<>> \/ wire.rest # "socket"
        BY <4>1 DEF Readable
      <4>3. Earlier
        BY <1>5, <4>1, <4>2 DEF UnreadStages, Earlier
      <4>4. Earlier'
        BY <4>1, <4>3 DEF Earlier
      <4> QED BY <4>1, <4>4 DEF UnreadStages
    <3>2. CASE ~conn'.sock
      BY <2>1, <3>2 DEF TakenOut, UnreadStages
    <3> QED BY <3>1, <3>2
  <2>2. CASE Opening
    BY <2>2 DEF Opening, Quiet, UnreadStages
  <2>3. CASE Opened
    BY <2>3 DEF Opened, UnreadStages, Earlier
  <2>4. CASE SettingUp
    <3>1. Earlier
      BY <2>4 DEF SettingUp, UnreadStages
    <3>2. Earlier'
      BY <2>4, <3>1 DEF SettingUp, Quiet, Earlier
    <3> QED BY <2>4, <3>2 DEF SettingUp, UnreadStages
  <2>5. CASE Written
    <3>1. /\ pc = "send" /\ pc' = "sent" /\ conn' = conn /\ attempt' = attempt
          /\ wire'.rest = wire.rest /\ conn.sock /\ Earlier
      BY <2>5 DEF Written, UnreadStages, SocketStages
    <3>2. /\ attempt \in 1 .. MaxAttempts
          /\ Append(wire.unread, attempt) # <<>>
          /\ wire.unread = <<>> => Append(wire.unread, attempt) = <<attempt>>
      BY <1>1, <1>2, <3>1, Appending
    <3>3. CASE conn.response = 0
      <4>1. wire'.unread = <<>> \/ wire'.unread = <<attempt>>
        BY <2>5, <3>1, <3>2, <3>3 DEF Written, Earlier
      <4> QED BY <3>1, <3>3, <4>1 DEF UnreadStages, Own
    <3>4. CASE conn.response # 0
      <4>1. Len(wire.unread) = 1 /\ wire.rest # "socket"
        BY <3>1, <3>4 DEF Earlier
      <4>2. /\ wire.unread # <<>> /\ Tail(wire.unread) = <<>>
            /\ Tail(Append(wire.unread, attempt)) = <<attempt>>
        BY <1>3, <3>2, <4>1
      <4>3. /\ wire'.unread # <<>>
            /\ Tail(wire'.unread) = <<>> \/ Tail(wire'.unread) = <<attempt>>
        BY <2>5, <3>2, <4>2 DEF Written
      <4> QED BY <3>1, <3>4, <4>1, <4>3 DEF UnreadStages, Own
    <3> QED BY <3>3, <3>4
  <2>6. CASE Asked
    <3>1. Own(wire.unread)
      BY <2>6 DEF Asked, UnreadStages
    <3>2. Own(wire.unread)'
      BY <2>6, <3>1 DEF Asked, Quiet, Own
    <3> QED BY <2>6, <3>2 DEF Asked, Quiet, UnreadStages
  <2>7. CASE Answered
    <3>1. wire.unread = <<attempt>>
      BY <2>7 DEF Answered, UnreadStages, Own
    <3>2. got' = attempt' /\ Len(wire'.unread) = 1 /\ pc' = "body"
      BY <2>7, <3>1 DEF Answered
    <3>3. conn'.sock => conn'.response # 0
      BY <1>2, <2>7 DEF Answered
    <3> QED BY <3>2, <3>3 DEF UnreadStages
  <2>8. CASE Released
    <3>1. Len(wire.unread) = 1 /\ pc' = "idle"
      BY <2>8 DEF Released, UnreadStages
    <3>2. conn.sock => conn.response # 0
      BY <2>8 DEF Released, UnreadStages
    <3>3. conn'.sock => IF conn'.response = 0 THEN wire'.unread = <<>> ELSE wire' = wire
      BY <1>5, <2>8, <3>1, <3>2 DEF Released
    <3> QED BY <3>1, <3>3 DEF UnreadStages
  <2>9. CASE GivenUp
    <3>1. /\ pc' = pc /\ pc # "body" /\ attempt' = attempt /\ conn.sock /\ conn'.sock
          /\ conn.response # 0 /\ conn'.response = 0 /\ wire'.rest = wire.rest
          /\ \/ wire'.unread = Tail(wire.unread)
             \/ wire'.unread = wire.unread /\ wire.rest = "socket"
      BY <1>1, <2>9 DEF GivenUp
    <3>2. CASE pc = "idle"
      BY <1>5, <3>1, <3>2 DEF UnreadStages
    <3>3. CASE pc \notin {"idle", "sent", "response", "body"}
      <4>1. Len(wire.unread) = 1 /\ wire.rest # "socket"
        BY <3>1, <3>3 DEF UnreadStages, Earlier
      <4>2. wire'.unread = <<>>
        BY <1>5, <3>1, <4>1
      <4> QED BY <3>1, <3>3, <4>2 DEF UnreadStages, Earlier
    <3>4. CASE pc = "sent"
      <4>1. Own(Tail(wire.unread)) /\ wire.rest # "socket"
        BY <3>1, <3>4 DEF UnreadStages
      <4>2. Own(wire.unread)'
        BY <3>1, <4>1 DEF Own
      <4> QED BY <3>1, <3>4, <4>2 DEF UnreadStages
    <3>5. pc # "response"
      BY <3>1 DEF UnreadStages
    <3> QED BY <3>1, <3>2, <3>3, <3>4, <3>5
  <2>10. CASE Dropped
    BY <2>10 DEF Dropped, Quiet, UnreadStages
  <2> QED BY <1>7, <2>1, <2>2, <2>3, <2>4, <2>5, <2>6, <2>7, <2>8, <2>9, <2>10, StepsOnResponses
<1> QED BY <1>6, <1>7, FailOrGoOn

(***************************************************************************)
(* The theorems.                                                           *)
(***************************************************************************)
LEMMA InitIInv ==
    ASSUME Init
    PROVE  IInv /\ UnreadStages
<1>1. /\ cfg \in Configs /\ ctx = [own |-> cfg.ctx, proxy |-> cfg.proxyCtx]
      /\ conn = NewConn(cfg, cfg.ctx) /\ slot = FALSE /\ wire = NoWire /\ timeout \in Timeouts
      /\ pc = "idle" /\ next = "make" /\ failure = NoFailure
      /\ elapsed = 0 /\ attempt = 0 /\ got = 0
  BY DEF Init
<1>2. /\ cfg.ctx \in Contexts /\ cfg.proxyCtx \in Contexts
      /\ cfg.certReqs \in Modes \cup {"unset"}
  BY <1>1, ConfigTyped
<1>3. /\ conn \in ConnType /\ wire \in WireType
      /\ ~conn.sock /\ ~conn.tunnel /\ ~conn.verified
      /\ conn.proxyVerified = "unset" /\ conn.response = 0
      /\ conn.certReqs = IF cfg.certReqs = "unset" /\ cfg.ctx # NoCtx THEN cfg.ctx.mode
                         ELSE ResolveCertReqs(cfg.certReqs)
  BY <1>1, <1>2, NewConnTyped, NoWireTyped
<1>4. TypeOK
  <2>1. ctx \in [own : Contexts, proxy : Contexts]
    BY <1>1, <1>2
  <2>2. failure \in [proxy : BOOLEAN, sent : BOOLEAN]
    BY <1>1 DEF NoFailure
  <2>a. 0 \in 0 .. Forever /\ 0 \in 0 .. MaxAttempts
    BY BoundsTyped
  <2>3. elapsed \in 0 .. Forever /\ {attempt, got} \subseteq 0 .. MaxAttempts /\ slot \in BOOLEAN
    BY <1>1, <2>a
  <2> QED BY <1>1, <1>3, <2>1, <2>2, <2>3 DEF TypeOK
<1>5. PolicyKept
  BY <1>1, <1>2, <1>3 DEF PolicyKept, Demanded, ResolveCertReqs, Modes
<1>6. SocketStages /\ SetUpStages /\ SocketsAreEstablished /\ VerifiedSound
  BY <1>1, <1>3 DEF SocketStages, SetUpStages, SocketsAreEstablished, VerifiedSound
<1>7. TimeoutStages /\ WaitsInBudget /\ SomethingUnread /\ UnreadStages
  BY <1>1, <1>3 DEF TimeoutStages, WaitsInBudget, SomethingUnread, UnreadStages
<1> QED BY <1>4, <1>5, <1>6, <1>7 DEF IInv

LEMMA NextIInv ==
    ASSUME IInv, [Next]_vars
    PROVE  IInv'
<1>1. CASE Next
  BY <1>1, TypeNext, PolicyNext, SocketStagesNext, EstablishedNext, TimeoutsNext,
     SomethingUnreadNext DEF IInv
<1>2. CASE UNCHANGED vars
  <2> USE <1>2 DEF vars
  <2>1. TypeOK'
    BY DEF IInv, TypeOK
  <2>2. PolicyKept'
    BY DEF IInv, PolicyKept, Demanded
  <2>3. SocketStages'
    BY DEF IInv, SocketStages
  <2>4. SetUpStages'
    BY DEF IInv, SetUpStages, ProxyShown, Satisfies, Demanded, OwnHost, Meant
  <2>5. SocketsAreEstablished'
    BY DEF IInv, SocketsAreEstablished, Established, Satisfies, Demanded, OwnHost, TargetName, Meant
  <2>6. VerifiedSound'
    BY DEF IInv, VerifiedSound
  <2>7. TimeoutStages' /\ WaitsInBudget'
    BY DEF IInv, TimeoutStages, WaitsInBudget
  <2>8. SomethingUnread'
    BY DEF IInv, SomethingUnread
  <2> QED BY <2>1, <2>2, <2>3, <2>4, <2>5, <2>6, <2>7, <2>8 DEF IInv
<1> QED BY <1>1, <1>2

LEMMA Invariant == Spec => []IInv
<1>1. Init => IInv
  BY InitIInv
<1>2. IInv /\ [Next]_vars => IInv'
  BY NextIInv
<1> QED BY <1>1, <1>2, PTL DEF Spec

(* The types of all there is about a slot and its connection.              *)
THEOREM TypeCorrect == Spec => []TypeOK
<1>1. IInv => TypeOK
  BY DEF IInv
<1> QED BY <1>1, Invariant, PTL

(* A request is written only to whom it is meant for, and only behind the  *)
(* handshakes that the configuration asks for, for any certificates, names *)
(* and configurations, and however often the connection is closed, opened  *)
(* again and reused.                                                       *)
THEOREM RequestsGoWhereMeant == Spec => []RequestWhereMeant
<1>1. ASSUME IInv PROVE RequestWhereMeant
  <2>1. SUFFICES ASSUME pc \in {"send", "sent", "response"} PROVE RequestWhereMeant
    BY DEF RequestWhereMeant
  <2>2. Established
    BY <1>1, <2>1 DEF IInv, SocketStages, SocketsAreEstablished, SetUp
  <2> QED BY <2>2 DEF RequestWhereMeant, Established, Meant, Last
<1> QED BY <1>1, Invariant, PTL

(* is_verified and proxy_is_verified never speak of a socket that is gone, *)
(* nor of a peer whose certificate was not checked.                        *)
THEOREM VerifiedIsSound == Spec => []VerifiedSound
<1>1. IInv => VerifiedSound
  BY DEF IInv
<1> QED BY <1>1, Invariant, PTL

(* No request waits longer than its own timeouts allow, whatever timeouts  *)
(* the requests before it on the same connection had.                      *)
THEOREM WaitsStayInBudget == Spec => []WaitsInBudget
<1>1. IInv => WaitsInBudget
  BY DEF IInv
<1> QED BY <1>1, Invariant, PTL

(* If nobody closes a response that is still on its way, a caller gets the *)
(* answer to its own request, whatever was left unread before.             *)
THEOREM AnswersAreOwn ==
    ASSUME ~MayCloseInFlight
    PROVE  Spec => []ResponseAnswersRequest
<1>1. Init => UnreadStages
  BY InitIInv
<1>2. ASSUME IInv, UnreadStages, [Next]_vars PROVE UnreadStages'
  <2>1. CASE Next
    BY <1>2, <2>1, UnreadNext DEF IInv
  <2>2. CASE UNCHANGED vars
    BY <1>2, <2>2 DEF vars, UnreadStages, Earlier, Own
  <2> QED BY <1>2, <2>1, <2>2
<1>3. UnreadStages => ResponseAnswersRequest
  BY DEF UnreadStages, ResponseAnswersRequest
<1> QED BY <1>1, <1>2, <1>3, Invariant, PTL DEF Spec
================================================================================
