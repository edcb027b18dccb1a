----------------------------- MODULE Http2Probe -----------------------------
(***************************************************************************)
(* urllib3.http2.probe, the process-wide cache of the origins that support *)
(* HTTP/2, as HTTPSConnection.connect uses it when "h2" is offered with    *)
(* ALPN: the first connection to an origin probes it while holding the     *)
(* origin's RLock, the others wait for what it learns.                     *)
(*                                                                         *)
(* acquire_and_get is two steps (under _lock; under the origin's lock),    *)
(* set_and_release is two (the value; the release).                        *)
(***************************************************************************)
EXTENDS Naturals

CONSTANTS
    Threads,     \* threads that connect
    Nobody,      \* the owner of a free lock
    Origins,     \* (host, port) pairs
    Handshakes,  \* how a connection attempt may end, a subset of AllHandshakes
    MaxConnects  \* bound: connections one thread makes

\* None: nothing is known.  TRUE and FALSE are written as strings.
None == "None"
Known == {"True", "False"}

\* The handshake selects h2, selects something else, or fails.
AllHandshakes == Known \cup {None}

ASSUME NobodyAssumption     == Nobody \notin Threads
ASSUME HandshakesAssumption == Handshakes \subseteq AllHandshakes
ASSUME MaxConnectsAssumption == MaxConnects \in Nat

VARIABLES
    value,    \* value[o]: _cache_values, or "absent"
    owner,    \* owner[o]: the thread that holds _cache_locks[o]
    stage,    \* stage[t]: where thread t is
    origin,   \* origin[t]: what t connects to
    got,      \* got[t]: target_supports_http2
    report,   \* report[t]: what t passes to set_and_release
    connects  \* connects[t]: connections t has made

probeVars == <<value, owner, stage, origin, got, report, connects>>

ProbeInit ==
    /\ value = [o \in Origins |-> "absent"]
    /\ owner = [o \in Origins |-> Nobody]
    /\ stage = [t \in Threads |-> "idle"]
    /\ origin \in [Threads -> Origins]
    /\ got = [t \in Threads |-> None]
    /\ report = [t \in Threads |-> None]
    /\ connects = [t \in Threads |-> 0]

\* acquire_and_get under _lock: a known value is returned right away; an origin
\* seen for the first time gets its lock and the value None.
Lookup(t) ==
    /\ stage[t] = "idle" /\ connects[t] < MaxConnects
    /\ connects' = [connects EXCEPT ![t] = @ + 1]
    /\ \E o \in Origins :
          /\ origin' = [origin EXCEPT ![t] = o]
          /\ IF value[o] \in Known
             THEN /\ got' = [got EXCEPT ![t] = value[o]]
                  /\ stage' = [stage EXCEPT ![t] = "connect"]
                  /\ UNCHANGED value
             ELSE /\ value' = [value EXCEPT ![o] = None]
                  /\ stage' = [stage EXCEPT ![t] = "acquire"]
                  /\ UNCHANGED got
    /\ UNCHANGED <<owner, report>>

\* Mutant of AcquireKey: the value read before waiting is returned.
AcquireKeyStale(t) ==
    /\ stage[t] = "acquire"
    /\ owner[origin[t]] \in {Nobody, t}
    /\ owner' = [owner EXCEPT ![origin[t]] = t]
    /\ got' = [got EXCEPT ![t] = None]
    /\ stage' = [stage EXCEPT ![t] = "connect"]
    /\ UNCHANGED <<value, origin, report, connects>>

\* Mutant of AcquireKey: the lock is not waited for.
AcquireKeyFree(t) ==
    /\ stage[t] = "acquire"
    /\ owner' = [owner EXCEPT ![origin[t]] = t]
    /\ got' = [got EXCEPT ![t] = value[origin[t]]]
    /\ stage' = [stage EXCEPT ![t] = "connect"]
    /\ UNCHANGED <<value, origin, report, connects>>

\* acquire_and_get waits for the origin's lock, takes it and reads the value
\* again.  It returns with the lock held whatever the value is.
AcquireKey(t) ==
    /\ stage[t] = "acquire"
    /\ owner[origin[t]] \in {Nobody, t}
    /\ owner' = [owner EXCEPT ![origin[t]] = t]
    /\ got' = [got EXCEPT ![t] = value[origin[t]]]
    /\ stage' = [stage EXCEPT ![t] = "connect"]
    /\ UNCHANGED <<value, origin, report, connects>>

\* Mutant of ConnectEnds: a failed connection does not report to the probe.
ConnectEndsSilent(t) ==
    /\ stage[t] = "connect"
    /\ \E h \in Handshakes :
          /\ report' = [report EXCEPT ![t] = h]
          /\ stage' = [stage EXCEPT ![t] = IF got[t] = None /\ h # None THEN "set" ELSE "idle"]
    /\ UNCHANGED <<value, owner, origin, got, connects>>

\* connect() reaches its end or its except clause: a thread that was given None
\* reports what it learned, None after a failure.
ConnectEnds(t) ==
    /\ stage[t] = "connect"
    /\ \E h \in Handshakes : report' = [report EXCEPT ![t] = h]
    /\ stage' = [stage EXCEPT ![t] = IF got[t] = None THEN "set" ELSE "idle"]
    /\ UNCHANGED <<value, owner, origin, got, connects>>

\* set_and_release, inside and after its "with key_lock": None after a known
\* value is a ValueError.
SetValue(t) ==
    /\ stage[t] = "set"
    /\ IF report[t] = None /\ value[origin[t]] # None
       THEN /\ stage' = [stage EXCEPT ![t] = "error"]
            /\ UNCHANGED value
       ELSE /\ value' = [value EXCEPT ![origin[t]] = report[t]]
            /\ stage' = [stage EXCEPT ![t] = "release"]
    /\ UNCHANGED <<owner, origin, got, report, connects>>

Release(t) ==
    /\ stage[t] = "release"
    /\ owner' = [owner EXCEPT ![origin[t]] = Nobody]
    /\ stage' = [stage EXCEPT ![t] = "idle"]
    /\ UNCHANGED <<value, origin, got, report, connects>>

Progress(t) == AcquireKey(t) \/ ConnectEnds(t) \/ SetValue(t) \/ Release(t)

ProbeNext == \E t \in Threads : Lookup(t) \/ Progress(t)

ProbeSpec == ProbeInit /\ [][ProbeNext]_probeVars

\* A connection attempt goes on: handshakes end (they have timeouts), and a
\* thread that waits for a free lock gets it.
FairProbeSpec == ProbeSpec /\ \A t \in Threads : WF_probeVars(Progress(t))

-----------------------------------------------------------------------------
ProbeTypeOK ==
    /\ value \in [Origins -> {"absent"} \cup AllHandshakes]
    /\ owner \in [Origins -> Threads \cup {Nobody}]
    /\ stage \in [Threads -> {"idle", "acquire", "connect", "set", "release", "error"}]
    /\ origin \in [Threads -> Origins]
    /\ got \in [Threads -> AllHandshakes]
    /\ report \in [Threads -> AllHandshakes]
    /\ connects \in [Threads -> 0..MaxConnects]

\* Thread t is the one that finds out whether its origin supports HTTP/2.
Probing(t) == \/ stage[t] = "connect" /\ got[t] = None
              \/ stage[t] \in {"set", "release", "error"}

\* One probe at a time: "If the value comes back as None it means that the
\* current thread is probing for HTTP/2 support" - and no other thread is.
OneProber ==
    \A t, u \in Threads :
        Probing(t) /\ Probing(u) /\ origin[t] = origin[u] => t = u

\* What is known about an origin never changes: a later probe neither
\* contradicts it nor resets it.
ValueStable ==
    [][\A o \in Origins : value[o] \in Known => value'[o] = value[o]]_probeVars

\* "Cannot reset HTTP/2 support for origin after value has been set" is never
\* raised ("not expected in normal usage").
NoResetError == \A t \in Threads : stage[t] # "error"

\* A thread that did not probe connects with what the probe found out.
Agreement ==
    \A t \in Threads :
        stage[t] = "connect" /\ got[t] # None => got[t] = value[origin[t]]

\* A probe ends: "if an error occurs during connection/handshake we may need to
\* release our lock so another connection can probe the origin", and after a
\* handshake the lock is released as well.
ProberReleases ==
    \A t \in Threads, o \in Origins :
        Probing(t) /\ origin[t] = o ~> owner[o] # t

\* A connection attempt ends: the thread connects, or waits "for another probe
\* to complete", and then goes on.
EveryConnectEnds ==
    \A t \in Threads : stage[t] = "acquire" ~> stage[t] = "idle"
=============================================================================
