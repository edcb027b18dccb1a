------------------------------- MODULE Redirects -------------------------------
(***************************************************************************)
(* What a request carries over retries and redirects: its method, its      *)
(* headers and its body, as HTTPConnectionPool.urlopen, PoolManager.urlopen *)
(* and ProxyManager.urlopen hand them to one another, and how              *)
(* HTTPConnection.request frames the body for the server.                  *)
(*                                                                         *)
(* A URL is a scheme and a host.  A body is Length units; a file and an    *)
(* iterator are read from where they are.  How many attempts a request has *)
(* is the Retry module's subject, and a budget here.                       *)
(***************************************************************************)
EXTENDS HeaderDict, Integers, FiniteSets

CONSTANTS
  Setups,       \* the pool or manager a request is made with
  Urls,         \* the URLs of requests and redirects
  UserHeaders,  \* the headers callers pass
  Bodies,       \* kinds of bodies, see BodyKinds
  Length,       \* the units of a body
  Sensitive,    \* remove_headers_on_redirect
  Budget        \* bound: the retries and redirects of a request

BodyKinds == {"none", "bytes", "file", "iterator", "no tell", "no seek"}

ASSUME RedirectsAssumption ==
  /\ Length \in Nat \ {0} /\ Budget \in Nat
  /\ Bodies \subseteq BodyKinds
  /\ \A s \in Setups : s.via \in {"pool", "manager", "proxy"} /\ IsDict(s.proxyHeaders)
  /\ \A d \in UserHeaders : IsDict(d)
  /\ Urls \subseteq [scheme : STRING, host : STRING]

(* A body is framed by one header at most, and that is the caller's.       *)
ASSUME FramingAssumption ==
  /\ \A s \in Setups :
       Names(Lines(s.proxyHeaders)) \cap {"content-length", "transfer-encoding"} = {}
  /\ \A d \in UserHeaders :
       ~({"content-length", "transfer-encoding"} \subseteq Names(Lines(d)))

(* Said because the provers take no literal for a string by themselves.    *)
ASSUME LiteralsAssumption == "host" \in STRING /\ "accept" \in STRING /\ "any" \in STRING

VARIABLES
  setup, user,  \* the setup, and the request as the caller made it
  pc,
  kw,           \* the arguments of the manager's urlopen
  args,         \* the arguments of the pool's urlopen
  at,           \* how far the body object has been read
  budget,
  sent,         \* the request last sent
  met           \* ghost: what has happened on the way to it
vars == <<setup, user, pc, kw, args, at, budget, sent, met>>

Methods == {"GET", "POST"}
Unset == -1                     \* body_pos=None
FailedTell == -2
Reads == {"file", "iterator", "no tell", "no seek"}     \* not in memory
HasTell == {"file", "no tell", "no seek"}
HasSeek == HasTell

Host == Key("host", 1)
Accept == Key("accept", 1)

(***************************************************************************)
(* connection_requires_http_tunnel, and the pool ProxyManager and          *)
(* PoolManager choose for a URL: what it is compared with by is_same_host. *)
(***************************************************************************)
RequiresTunnel(url) ==
  /\ setup.via = "proxy" /\ url.scheme # "http"
  /\ ~(setup.proxy.scheme = "https" /\ setup.forwarding)

PoolFor(url) ==
  IF setup.via = "proxy" /\ url.scheme = "http" THEN setup.proxy ELSE url

(* HTTPConnectionPool.is_same_host.                                        *)
IsSameHost(pool, url) == pool = url

(***************************************************************************)
(* set_file_position and rewind_body: a position to come back to, or the   *)
(* one that is recorded.                                                   *)
(***************************************************************************)
Rewinds(body, pos) == pos >= 0 /\ body \in HasSeek \ {"no seek"}
(* Mutant of SetFilePosition: the position is recorded anew each time.     *)
SetFilePositionAnew(body, pos) == IF body \in HasTell THEN at ELSE Unset

SetFilePosition(body, pos) ==
  IF pos # Unset THEN pos
  ELSE IF body = "no tell" THEN FailedTell
  ELSE IF body \in HasTell THEN at ELSE Unset

(***************************************************************************)
(* body_to_chunks and the framing of HTTPConnection.request: what is       *)
(* announced, and whether the chunk coding is used.                        *)
(***************************************************************************)
ContentLength(method, body) ==
  CASE body = "none"  -> IF method = "GET" THEN Unset ELSE 0
    [] body = "bytes" -> Length
    [] OTHER          -> Unset

Framing(method, headers, body, chunked) ==
  LET cl == "content-length" \in Names(Lines(headers))
      te == "transfer-encoding" \in Names(Lines(headers))
      length == ContentLength(method, body)
  IN  CASE chunked          -> [coded |-> TRUE, te |-> TRUE, length |-> Unset]
        [] ~chunked /\ cl   -> [coded |-> FALSE, te |-> te, length |-> Length]
        [] ~chunked /\ ~cl /\ te -> [coded |-> TRUE, te |-> TRUE, length |-> Unset]
        [] OTHER            -> [coded |-> length = Unset /\ body # "none",
                                te |-> length = Unset /\ body # "none",
                                length |-> length]

(***************************************************************************)
(* PoolManager: the arguments of urlopen are those of its caller or of the *)
(* redirect before.  A proxy that forwards gets Accept and Host with each  *)
(* request (_set_proxy_headers).                                           *)
(***************************************************************************)
SetProxyHeaders(url, headers) ==
  Update(SetItem(SetItem(Dict(FALSE), Accept, <<"any">>), Host, <<url.host>>), headers)

NotMet == [hops |-> 0, seeOther |-> FALSE, crossed |-> FALSE, retried |-> FALSE]

Init ==
  /\ setup \in Setups
  /\ user \in [method : Methods, url : Urls, headers : UserHeaders, body : Bodies,
               chunked : BOOLEAN]
  /\ setup.via # "pool" \/ user.url = setup.pool
  /\ "content-length" \notin Names(Lines(user.headers)) \/ user.body # "none"
  /\ pc = IF setup.via = "pool" THEN "pool" ELSE "manager"
  /\ kw = [method |-> user.method, url |-> user.url, headers |-> user.headers,
           body |-> user.body]
  /\ args = [method |-> user.method, url |-> user.url, headers |-> user.headers,
             body |-> user.body, pos |-> Unset]
  /\ at = 0 /\ budget = Budget
  /\ sent = [method |-> "none"]
  /\ met = NotMet

Manage ==
  /\ pc = "manager"
  /\ LET headers == IF setup.via = "proxy" /\ ~RequiresTunnel(kw.url)
                      THEN SetProxyHeaders(kw.url, kw.headers) ELSE kw.headers
     IN  /\ kw' = [kw EXCEPT !.headers = headers]
         /\ args' = [method |-> kw.method, url |-> kw.url, headers |-> headers,
                     body |-> kw.body, pos |-> Unset]
  /\ pc' = "pool"
  /\ UNCHANGED <<setup, user, at, budget, sent, met>>

(***************************************************************************)
(* HTTPConnectionPool.urlopen up to the request: the host must be the      *)
(* pool's, the proxy's headers are added, and the body is put where it     *)
(* was.                                                                    *)
(***************************************************************************)
PoolUrlopen ==
  /\ pc = "pool"
  /\ IF \/ setup.via = "pool" /\ setup.assertSameHost /\ args.url # setup.pool
        \/ args.pos # Unset /\ ~Rewinds(args.body, args.pos)
       THEN pc' = "raised" /\ UNCHANGED <<args, at>>
       ELSE /\ args' = [args EXCEPT
                 !.headers = IF RequiresTunnel(args.url) THEN @
                             ELSE Update(@, setup.proxyHeaders),
                 !.pos = SetFilePosition(args.body, @)]
            /\ at' = IF args.pos # Unset THEN args.pos ELSE at
            /\ pc' = "send"
  /\ UNCHANGED <<setup, user, kw, budget, sent, met>>

(* The request is written: a file or an iterator from where it is.         *)
Send ==
  /\ pc = "send"
  /\ LET from == IF args.body \in Reads THEN at ELSE 0
     IN  sent' = [method |-> args.method, url |-> args.url,
                  headers |-> Lines(args.headers),
                  units |-> IF args.body = "none" THEN 0 ELSE Length - from,
                  framing |-> Framing(args.method, args.headers, args.body,
                                      user.chunked)]
  /\ at' = IF args.body \in Reads THEN Length ELSE at
  /\ pc' = "answer"
  /\ UNCHANGED <<setup, user, kw, args, budget, met>>

(* It breaks on the way, part of the body read; there may be a retry.      *)
SendFails ==
  /\ pc = "send"
  /\ at' \in IF args.body \in Reads THEN at .. Length ELSE {at}
  /\ IF budget = 0 THEN pc' = "raised" /\ UNCHANGED <<budget, met>>
     ELSE /\ pc' = "pool" /\ budget' = budget - 1
          /\ met' = [met EXCEPT !.retried = TRUE]
  /\ UNCHANGED <<setup, user, kw, args, sent>>

(***************************************************************************)
(* The response.                                                           *)
(***************************************************************************)
Answered == pc = "answer" /\ UNCHANGED <<setup, user, at, sent>>

Return == Answered /\ pc' = "done" /\ UNCHANGED <<kw, args, budget, met>>

(* Mutant of RetryStatus: the budget is not looked at.                     *)
RetryStatusAlways ==
  /\ Answered
  /\ budget' = budget - 1
  /\ pc' = "pool"
  /\ met' = [met EXCEPT !.retried = TRUE]
  /\ UNCHANGED <<kw, args>>

RetryStatus ==
  /\ Answered
  /\ budget > 0 /\ budget' = budget - 1
  /\ pc' = "pool"
  /\ met' = [met EXCEPT !.retried = TRUE]
  /\ UNCHANGED <<kw, args>>

(* 303: GET, no body, and no header that speaks of it.                     *)
MethodChanged(request, status) ==
  IF status # 303 THEN request
  ELSE [request EXCEPT !.method = "GET", !.body = "none",
                       !.headers = PrepareForMethodChange(HTTPHeaderDict(@))]

(* Mutant of Stripped: names are compared as they are written.             *)
StrippedExactly(headers, same) ==
  IF same THEN headers
  ELSE [headers EXCEPT !.items = SelectSeq(@, LAMBDA e :
          e.key.case # 1 \/ e.key.name \notin Sensitive)]

Stripped(headers, same) ==
  IF same THEN headers ELSE Without(headers, Sensitive)

(* A redirect leads to another host, unless to the proxy that has seen the *)
(* request already.                                                        *)
Met(status, url) ==
  met' = [hops |-> met.hops + 1, seeOther |-> met.seeOther \/ status = 303,
          crossed |-> met.crossed \/ url \notin {args.url, PoolFor(args.url)},
          retried |-> met.retried]

PoolRedirect(status, url) ==
  /\ Answered /\ setup.via = "pool"
  /\ budget > 0 /\ budget' = budget - 1
  /\ LET r == MethodChanged(args, status)
     IN  args' = [r EXCEPT !.url = url,
                           !.headers = Stripped(@, IsSameHost(setup.pool, url))]
  /\ Met(status, url)
  /\ pc' = "pool"
  /\ UNCHANGED kw

ManagerRedirect(status, url) ==
  /\ Answered /\ setup.via # "pool"
  /\ budget > 0 /\ budget' = budget - 1
  /\ LET r == MethodChanged(kw, status)
     IN  kw' = [r EXCEPT !.url = url,
                         !.headers = Stripped(@, IsSameHost(PoolFor(kw.url), url))]
  /\ Met(status, url)
  /\ pc' = "manager"
  /\ UNCHANGED args

Next ==
  \/ Manage \/ PoolUrlopen \/ Send \/ SendFails \/ Return \/ RetryStatus
  \/ \E status \in {303, 307}, url \in Urls :
       PoolRedirect(status, url) \/ ManagerRedirect(status, url)

Spec == Init /\ [][Next]_vars

(***************************************************************************)
(* Properties.                                                             *)
(***************************************************************************)
TypeOK ==
  /\ setup \in Setups /\ user.headers \in UserHeaders
  /\ pc \in {"manager", "pool", "send", "answer", "done", "raised"}
  /\ \A r \in {kw, args} : /\ r.method \in Methods /\ r.url \in Urls
                           /\ r.body \in Bodies \cup {"none"}
                           /\ r.headers.folds \in BOOLEAN
  /\ args.pos \in -2 .. Length /\ at \in 0 .. Length /\ budget \in 0 .. Budget
  /\ met \in [hops : 0 .. Budget, seeOther : BOOLEAN, crossed : BOOLEAN,
              retried : BOOLEAN]

Fresh == pc = "answer"

(* However often it is sent, a request carries its whole body, read from   *)
(* where it was at first; or it has none, after a 303.  That goes for a    *)
(* file within one pool, and not for an iterator: those cannot come back.  *)
Replayable ==
  \/ user.body \in {"none", "bytes"}
  \/ user.body = "iterator" /\ ~met.retried /\ met.hops = 0
  \/ user.body \in HasTell /\ (setup.via = "pool" \/ met.hops = 0)

BodyWhole ==
  Fresh /\ Replayable =>
    sent.units = IF met.seeOther \/ user.body = "none" THEN 0 ELSE Length

(* The server finds the end of the body where the client left it: in chunk *)
(* coding exactly if that is announced, and else by a length that is the   *)
(* length sent, or by there being none.                                    *)
BodyFramed ==
  Fresh /\ Replayable =>
    /\ sent.framing.coded = sent.framing.te
    /\ ~sent.framing.coded =>
         sent.units = IF sent.framing.length = Unset THEN 0 ELSE sent.framing.length

(* Headers of urllib3's own, for a proxy.                                  *)
Added == Names(Lines(setup.proxyHeaders)) \cup {"host", "accept"}

(* After a 303 the method is GET and stays so, and no header of the body   *)
(* comes back; once a redirect has led to another host, no header that is  *)
(* to be removed does.                                                     *)
HeadersDropped ==
  Fresh =>
    /\ met.seeOther =>
         sent.method = "GET" /\ Names(sent.headers) \cap ContentSpecific \subseteq Added
    /\ met.crossed => Names(sent.headers) \cap Sensitive \subseteq Added

(* What a redirect may have taken away.  Behind a proxy is_same_host may    *)
(* compare with the proxy, and then every redirect leads elsewhere.        *)
Dropped ==
  (IF met.seeOther THEN ContentSpecific ELSE {})
  \cup (IF met.crossed \/ (setup.via = "proxy" /\ met.hops > 0) THEN Sensitive ELSE {})

(* All others reach every server as the caller wrote them, on one line or  *)
(* on several, whatever dictionary they have been through.                 *)
HeadersKept ==
  Fresh =>
    \A name \in Names(Lines(user.headers)) \ (Dropped \cup Added) :
      Told(sent.headers, name) = Told(Lines(user.headers), name)

(* _set_proxy_headers: "Accept and Host headers.  Only sets headers not    *)
(* provided by the user."                                                  *)
HostAsDocumented ==
  Fresh /\ setup.via = "proxy" /\ ~RequiresTunnel(sent.url) =>
    Told(sent.headers, "host") =
      IF "host" \in Names(Lines(user.headers)) THEN Told(Lines(user.headers), "host")
      ELSE <<sent.url.host>>
================================================================================
