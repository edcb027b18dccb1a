------------------------------ MODULE Http2Proofs ------------------------------
(***************************************************************************)
(* Proofs about HTTP/2: the probe, for any threads, origins and handshakes, *)
(* and the connection, for any bodies, windows and numbers of requests.    *)
(*                                                                         *)
(* Of the probe everything follows from one inductive invariant: who       *)
(* probes an origin holds its lock and, until it has set the value, the    *)
(* value is None.                                                          *)
(*                                                                         *)
(* Of the connection the invariant speaks of the frames under way.  Those  *)
(* to the server, the written and the queued, taken one by one lead from   *)
(* what the server has made of the streams to whole requests (Leads);      *)
(* those from it lead what getresponse has gathered to what the server has *)
(* sent of this stream (Tells); and each is weighed against the window     *)
(* (Weighs).  Each of the three is a trace along the sequence, and what it *)
(* says is moved by the operations on sequences: a frame appended, taken   *)
(* from the front, or several at a time.                                   *)
(***************************************************************************)
EXTENDS Http2Probe, Http2Connection, WellFoundedInduction, SequenceTheorems, TLAPS

(***************************************************************************)
(* The probe                                                                *)
(***************************************************************************)
\* The prober of an origin holds its lock; before set_and_release has set the
\* value, the value is None.
ProberHoldsLock ==
    \A t \in Threads :
        Probing(t) => /\ owner[origin[t]] = t
                      /\ stage[t] # "release" => value[origin[t]] = None

\* A thread on its way to the lock has entered the origin into the cache.
AcquirerIsKnown ==
    \A t \in Threads : stage[t] = "acquire" => value[origin[t]] # "absent"

ProbeInv ==
    /\ ProbeTypeOK
    /\ ProberHoldsLock
    /\ AcquirerIsKnown
    /\ NoResetError
    /\ Agreement

\* The strings that stand for values differ from each other.
LEMMA Values == /\ None \notin Known /\ "absent" \notin Known /\ "absent" # None
                /\ AllHandshakes = Known \cup {None}
BY DEF None, Known, AllHandshakes

LEMMA ProbeInitInv == ProbeInit => ProbeInv
BY Values, MaxConnectsAssumption
   DEF ProbeInit, ProbeInv, ProbeTypeOK, ProberHoldsLock, Probing, AcquirerIsKnown,
       NoResetError, Agreement

LEMMA LookupInv == ASSUME ProbeInv, NEW t \in Threads, Lookup(t) PROVE ProbeInv'
<1> USE Values DEF ProbeInv, ProbeTypeOK
<1> PICK o \in Origins :
       /\ origin' = [origin EXCEPT ![t] = o]
       /\ IF value[o] \in Known
          THEN /\ got' = [got EXCEPT ![t] = value[o]]
               /\ stage' = [stage EXCEPT ![t] = "connect"]
               /\ UNCHANGED value
          ELSE /\ value' = [value EXCEPT ![o] = None]
               /\ stage' = [stage EXCEPT ![t] = "acquire"]
               /\ UNCHANGED got
  BY DEF Lookup
<1>1. ProbeTypeOK'
  BY MaxConnectsAssumption DEF Lookup
<1>2. ProberHoldsLock'
  BY DEF Lookup, ProberHoldsLock, Probing
<1>3. AcquirerIsKnown'
  BY DEF Lookup, AcquirerIsKnown
<1>4. NoResetError'
  BY DEF Lookup, NoResetError
<1>5. Agreement'
  BY DEF Lookup, Agreement
<1> QED BY <1>1, <1>2, <1>3, <1>4, <1>5

LEMMA AcquireInv == ASSUME ProbeInv, NEW t \in Threads, AcquireKey(t) PROVE ProbeInv'
<1> USE Values DEF ProbeInv, ProbeTypeOK, AcquireKey
<1>0. value[origin[t]] \in AllHandshakes
  BY DEF AcquirerIsKnown
<1>1. ProbeTypeOK'
  BY <1>0
<1>2. ProberHoldsLock'
  \* whoever probes t's origin holds its lock: it can only be t
  BY <1>0, NobodyAssumption DEF ProberHoldsLock, Probing
<1>3. AcquirerIsKnown'
  BY DEF AcquirerIsKnown
<1>4. NoResetError'
  BY DEF NoResetError
<1>5. Agreement'
  BY <1>0 DEF Agreement
<1> QED BY <1>1, <1>2, <1>3, <1>4, <1>5

LEMMA ConnectEndsInv == ASSUME ProbeInv, NEW t \in Threads, ConnectEnds(t) PROVE ProbeInv'
<1> USE Values, HandshakesAssumption DEF ProbeInv, ProbeTypeOK, ConnectEnds
<1>1. ProbeTypeOK'
  OBVIOUS
<1>2. ProberHoldsLock'
  BY DEF ProberHoldsLock, Probing
<1>3. AcquirerIsKnown' /\ NoResetError' /\ Agreement'
  BY DEF AcquirerIsKnown, NoResetError, Agreement
<1> QED BY <1>1, <1>2, <1>3

\* Two probers of one origin hold one lock.
LEMMA ProberUnique == ProberHoldsLock => OneProber
BY DEF ProberHoldsLock, OneProber

LEMMA SetValueInv == ASSUME ProbeInv, NEW t \in Threads, SetValue(t) PROVE ProbeInv'
<1> USE Values DEF ProbeInv, ProbeTypeOK
<1>1. Probing(t) /\ stage[t] = "set" /\ value[origin[t]] = None
  BY DEF SetValue, Probing, ProberHoldsLock
<1>2. /\ value' = [value EXCEPT ![origin[t]] = report[t]]
      /\ stage' = [stage EXCEPT ![t] = "release"]
      /\ UNCHANGED <<owner, origin, got, report, connects>>
  BY <1>1 DEF SetValue
<1>3. ProbeTypeOK'
  BY <1>2
<1>4. ProberHoldsLock'
  BY <1>1, <1>2, ProberUnique DEF ProberHoldsLock, OneProber, Probing
<1>5. AcquirerIsKnown' /\ NoResetError'
  BY <1>2 DEF AcquirerIsKnown, NoResetError
<1>6. Agreement'
  BY <1>1, <1>2 DEF Agreement
<1> QED BY <1>3, <1>4, <1>5, <1>6

LEMMA ReleaseInv == ASSUME ProbeInv, NEW t \in Threads, Release(t) PROVE ProbeInv'
<1> USE Values DEF ProbeInv, ProbeTypeOK, Release
<1>1. Probing(t)
  BY DEF Probing
<1>2. ProbeTypeOK'
  OBVIOUS
<1>3. ProberHoldsLock'
  BY <1>1, ProberUnique DEF ProberHoldsLock, OneProber, Probing
<1>4. AcquirerIsKnown' /\ NoResetError' /\ Agreement'
  BY DEF AcquirerIsKnown, NoResetError, Agreement
<1> QED BY <1>2, <1>3, <1>4

LEMMA ProbeNextInv == ProbeInv /\ [ProbeNext]_probeVars => ProbeInv'
<1> SUFFICES ASSUME ProbeInv, [ProbeNext]_probeVars PROVE ProbeInv'
  OBVIOUS
<1>1. CASE UNCHANGED probeVars
  BY <1>1 DEF probeVars, ProbeInv, ProbeTypeOK, ProberHoldsLock, Probing, AcquirerIsKnown,
              NoResetError, Agreement
<1>2. CASE ProbeNext
  BY <1>2, LookupInv, AcquireInv, ConnectEndsInv, SetValueInv, ReleaseInv
     DEF ProbeNext, Progress
<1> QED BY <1>1, <1>2

LEMMA ProbeInvariance == ProbeSpec => []ProbeInv
BY ProbeInitInv, ProbeNextInv, PTL DEF ProbeSpec

\* Every variable keeps its type, whatever threads and origins there are.
THEOREM ProbeTypeCorrect == ProbeSpec => []ProbeTypeOK
<1>1. ProbeInv => ProbeTypeOK
  BY DEF ProbeInv
<1> QED BY <1>1, ProbeInvariance, PTL

\* At most one thread at a time probes an origin for HTTP/2.
THEOREM ProbersExclude == ProbeSpec => []OneProber
<1>1. ProbeInv => OneProber
  BY ProberUnique DEF ProbeInv
<1> QED BY <1>1, ProbeInvariance, PTL

\* set_and_release never raises "Cannot reset HTTP/2 support for origin".
THEOREM NeverReset == ProbeSpec => []NoResetError
<1>1. ProbeInv => NoResetError
  BY DEF ProbeInv
<1> QED BY <1>1, ProbeInvariance, PTL

\* A thread that waited connects with the value that the cache holds.
THEOREM WaitersAgree == ProbeSpec => []Agreement
<1>1. ProbeInv => Agreement
  BY DEF ProbeInv
<1> QED BY <1>1, ProbeInvariance, PTL

\* Once it is known whether an origin supports HTTP/2, that never changes.
THEOREM KnownIsStable == ProbeSpec => ValueStable
<1> DEFINE Stable == \A o \in Origins : value[o] \in Known => value'[o] = value[o]
<1>1. ProbeInv /\ [ProbeNext]_probeVars => [Stable]_probeVars
  <2> SUFFICES ASSUME ProbeInv, ProbeNext PROVE Stable
    BY DEF probeVars
  <2> USE Values DEF ProbeInv, ProbeTypeOK
  <2>1. ASSUME NEW t \in Threads, Lookup(t) PROVE Stable
    BY <2>1 DEF Lookup
  <2>2. ASSUME NEW t \in Threads, SetValue(t) PROVE Stable
    BY <2>2 DEF SetValue, ProberHoldsLock, Probing
  <2>3. ASSUME NEW t \in Threads, AcquireKey(t) \/ ConnectEnds(t) \/ Release(t)
        PROVE  Stable
    BY <2>3 DEF AcquireKey, ConnectEnds, Release
  <2> QED BY <2>1, <2>2, <2>3 DEF ProbeNext, Progress
<1> QED BY <1>1, ProbeInvariance, PTL DEF ProbeSpec, ValueStable

(***************************************************************************)
(* Induction, with a set of numbers in place of a predicate.                *)
(***************************************************************************)
LEMMA SetInduction ==
    ASSUME NEW P, 0 \in P, \A n \in Nat : n \in P => n + 1 \in P
    PROVE  \A n \in Nat : n \in P
<1> SUFFICES ASSUME NEW n \in Nat, n \notin P PROVE FALSE
  OBVIOUS
<1> DEFINE T == {m \in Nat : m \notin P}
           R == OpToRel(<, Nat)
<1>1. T \subseteq Nat /\ T # {}
  OBVIOUS
<1>2. PICK m \in T : \A k \in T : <<k, m>> \notin R
  <2> HIDE DEF T, R
  <2>1. IsWellFoundedOn(R, Nat)
    BY NatLessThanWellFounded, Zenon DEF R
  <2> QED BY <1>1, <2>1, WFMin
<1>3. m # 0 /\ m - 1 \in Nat
  OBVIOUS
<1>4. <<m - 1, m>> \in R
  BY <1>3 DEF OpToRel
<1>5. m - 1 \in P
  BY <1>2, <1>3, <1>4, Zenon
<1>6. m \in P
  BY <1>3, <1>5
<1> QED BY <1>6

(***************************************************************************)
(* Folds: what FoldLeft makes of the elements up to each position           *)
(***************************************************************************)
LEMMA MaxIs ==
    ASSUME NEW n \in Nat, NEW t, t \subseteq 1..n, t # {}
    PROVE  Max(t) \in t /\ \A k \in t : k <= Max(t)
<1> DEFINE P == {m \in Nat : \A s \in SUBSET (1..m) :
                               s # {} => \E x \in s : \A k \in s : x >= k}
<1>1. 0 \in P
  <2>1. 1..0 = {}
    OBVIOUS
  <2> QED BY <2>1
<1>2. ASSUME NEW m \in Nat, m \in P PROVE m + 1 \in P
  <2> SUFFICES ASSUME NEW s \in SUBSET (1..m + 1), s # {}
               PROVE  \E x \in s : \A k \in s : x >= k
    OBVIOUS
  <2>1. CASE m + 1 \in s
    BY <2>1
  <2>2. CASE m + 1 \notin s
    <3>1. s \in SUBSET (1..m)
      BY <2>2
    <3> QED BY <1>2, <3>1
  <2> QED BY <2>1, <2>2
<1> HIDE DEF P
<1>3. n \in P
  BY <1>1, <1>2, SetInduction
<1>4. \E x \in t : \A k \in t : x >= k
  BY <1>3 DEF P
<1>5. Max(t) \in t /\ \A k \in t : Max(t) >= k
  BY <1>4, Zenon DEF Max
<1> HIDE DEF P
<1>6. PICK x : x = Max(t)
  OBVIOUS
<1>7. x \in t /\ \A k \in t : k <= x
  BY ONLY <1>5, <1>6, n \in Nat, t \subseteq 1..n
<1> QED BY ONLY <1>6, <1>7, Zenon

LEMMA MaxUpTo ==
    ASSUME NEW k \in Nat \ {0} PROVE Max(1..k) = k /\ (1..k) \ {k} = 1..k - 1
<1>1. PICK t : t = 1..k
  OBVIOUS
<1>2. k \in t /\ t \subseteq 1..k /\ t # {}
  <2>1. k \in 1..k
    OBVIOUS
  <2> QED BY ONLY <1>1, <2>1, Zenon
<1>3. PICK x : x = Max(t)
  OBVIOUS
<1>4. x \in t /\ \A j \in t : j <= x
  BY ONLY k \in Nat \ {0}, <1>2, <1>3, MaxIs
<1>5. x = k
  BY ONLY k \in Nat \ {0}, <1>1, <1>2, <1>4
<1>6. (1..k) \ {k} = 1..k - 1
  OBVIOUS
<1> QED BY ONLY <1>1, <1>3, <1>5, <1>6, Zenon

(* The function that a fold is, for a step that is a function: its value at a *)
(* set of positions is made of the greatest and of the value at the others.  *)
FoldsAt(base, step, f, t) ==
    f[t] = IF t = {} THEN base ELSE step[Max(t)][f[t \ {Max(t)}]]
Folding(A, base, step, n, f) ==
    f \in [SUBSET (1..n) -> A] /\ \A t \in SUBSET (1..n) : FoldsAt(base, step, f, t)

LEMMA FoldGrows ==
    ASSUME NEW A, NEW base \in A, NEW m \in Nat, NEW step, step[m + 1] \in [A -> A],
           NEW f, Folding(A, base, step, m, f)
    PROVE  \E g : Folding(A, base, step, m + 1, g)
<1> DEFINE last == step[m + 1]
           g == [t \in SUBSET (1..m + 1) |->
                   IF m + 1 \in t THEN last[f[t \ {m + 1}]] ELSE f[t]]
<1>1. f \in [SUBSET (1..m) -> A] /\ \A t \in SUBSET (1..m) : FoldsAt(base, step, f, t)
  BY DEF Folding
<1>2. ASSUME NEW t \in SUBSET (1..m + 1)
      PROVE  /\ t \ {m + 1} \in SUBSET (1..m)
             /\ m + 1 \notin t => t \in SUBSET (1..m)
  OBVIOUS
<1>3. \A t \in SUBSET (1..m + 1) : g[t] = IF m + 1 \in t THEN last[f[t \ {m + 1}]] ELSE f[t]
  OBVIOUS
<1>4. last \in [A -> A]
  OBVIOUS
<1> HIDE DEF last
<1>5. ASSUME NEW t \in SUBSET (1..m + 1)
      PROVE  (IF m + 1 \in t THEN last[f[t \ {m + 1}]] ELSE f[t]) \in A
  BY <1>1, <1>2, <1>4
<1>6. g \in [SUBSET (1..m + 1) -> A]
  BY <1>5
<1> HIDE DEF g
<1>7. ASSUME NEW t \in SUBSET (1..m + 1) PROVE FoldsAt(base, step, g, t)
  <2>1. CASE m + 1 \in t
    <3>1. PICK x : x = Max(t)
      OBVIOUS
    <3>2. m + 1 \in Nat /\ t \subseteq 1..m + 1 /\ t # {}
      BY <2>1
    <3>3. x \in t /\ \A k \in t : k <= x
      BY ONLY <3>1, <3>2, MaxIs
    <3>4. x = m + 1
      BY ONLY <2>1, <3>2, <3>3, m \in Nat
    <3>5. PICK u : u = t \ {m + 1}
      OBVIOUS
    <3>6. u \in SUBSET (1..m + 1) /\ m + 1 \notin u
      BY <3>5
    <3>7. g[t] = last[f[u]] /\ g[u] = f[u]
      BY ONLY <1>3, <2>1, <3>5, <3>6, t \in SUBSET (1..m + 1), Zenon
    <3> QED BY ONLY <3>1, <3>2, <3>4, <3>5, <3>7, Zenon DEF FoldsAt, last
  <2>2. CASE m + 1 \notin t
    <3>1. t \in SUBSET (1..m) /\ g[t] = f[t]
      BY <1>2, <1>3, <2>2
    <3>2. FoldsAt(base, step, f, t)
      BY <1>1, <3>1
    <3>3. CASE t = {}
      BY ONLY <3>1, <3>2, <3>3, Zenon DEF FoldsAt
    <3>4. CASE t # {}
      <4>1. PICK u : u = t \ {Max(t)}
        OBVIOUS
      <4>2. u \in SUBSET (1..m + 1) /\ m + 1 \notin u
        BY <2>2, <4>1
      <4>3. g[u] = f[u]
        BY ONLY <1>3, <4>2, Zenon
      <4> QED BY ONLY <3>1, <3>2, <3>4, <4>1, <4>3, Zenon DEF FoldsAt
    <3> QED BY <3>3, <3>4
  <2> QED BY <2>1, <2>2
<1>8. Folding(A, base, step, m + 1, g)
  BY ONLY <1>6, <1>7, Zenon DEF Folding
<1> QED BY <1>8

LEMMA FoldExists ==
    ASSUME NEW A, NEW base \in A, NEW n \in Nat, NEW step \in [1..n -> [A -> A]]
    PROVE  \E f : Folding(A, base, step, n, f)
<1> DEFINE P == {m \in Nat : m <= n => \E f : Folding(A, base, step, m, f)}
<1>1. 0 \in P
  <2> DEFINE f == [t \in SUBSET (1..0) |-> base]
  <2>1. f \in [SUBSET (1..0) -> A] /\ \A t \in SUBSET (1..0) : f[t] = base
    OBVIOUS
  <2>2. \A t \in SUBSET (1..0) : t = {}
    <3>1. 1..0 = {}
      OBVIOUS
    <3> QED BY ONLY <3>1, Zenon
  <2> HIDE DEF f
  <2>3. Folding(A, base, step, 0, f)
    BY ONLY <2>1, <2>2, Zenon DEF Folding, FoldsAt
  <2> QED BY <2>3
<1>2. ASSUME NEW m \in Nat, m \in P PROVE m + 1 \in P
  <2> SUFFICES ASSUME m + 1 <= n PROVE \E f : Folding(A, base, step, m + 1, f)
    OBVIOUS
  <2>1. PICK f : Folding(A, base, step, m, f)
    BY <1>2
  <2>2. step[m + 1] \in [A -> A]
    OBVIOUS
  <2> QED BY <2>1, <2>2, FoldGrows
<1> HIDE DEF P
<1>3. n \in P
  BY <1>1, <1>2, SetInduction
<1> QED BY <1>3 DEF P

LEMMA UpToIs ==
    ASSUME NEW n \in Nat
    PROVE  /\ 1..0 = {} /\ 1..0 \in SUBSET (1..n) /\ 1..n \in SUBSET (1..n)
           /\ \A k \in 1..n : /\ 1..k \in SUBSET (1..n) /\ 1..k # {}
                              /\ k - 1 \in 0..n
                              /\ Max(1..k) = k /\ (1..k) \ {k} = 1..k - 1
<1>1. 1..0 = {} /\ 1..0 \in SUBSET (1..n) /\ 1..n \in SUBSET (1..n)
  OBVIOUS
<1>2. ASSUME NEW k \in 1..n
      PROVE  /\ 1..k \in SUBSET (1..n) /\ 1..k # {}
             /\ k - 1 \in 0..n
             /\ Max(1..k) = k /\ (1..k) \ {k} = 1..k - 1
  <2>1. k \in Nat \ {0}
    OBVIOUS
  <2>2. k \in 1..k /\ 1..k \in SUBSET (1..n) /\ k - 1 \in 0..n
    OBVIOUS
  <2>3. 1..k # {}
    BY ONLY <2>2, Zenon
  <2> QED BY ONLY <2>1, <2>2, <2>3, MaxUpTo, Zenon
<1> QED BY <1>1, <1>2

LEMMA MaxWithin ==
    ASSUME NEW n \in Nat, NEW t \in SUBSET (1..n), t # {}
    PROVE  Max(t) \in 1..n /\ t \ {Max(t)} \in SUBSET (1..n)
<1>1. Max(t) \in t
  BY MaxIs
<1> QED BY <1>1, Zenon

(* What holds of the base, and after a step of what holds before it.        *)
LEMMA Along ==
    ASSUME NEW A, NEW n \in Nat, NEW F, F[0] \in A,
           \A k \in 1..n : F[k - 1] \in A => F[k] \in A
    PROVE  \A k \in 0..n : F[k] \in A
<1> DEFINE P == {k \in Nat : k <= n => F[k] \in A}
<1>1. 0 \in P
  OBVIOUS
<1>2. ASSUME NEW k \in Nat, k \in P PROVE k + 1 \in P
  <2> SUFFICES ASSUME k + 1 <= n PROVE F[k + 1] \in A
    OBVIOUS
  <2>1. k + 1 \in 1..n /\ k + 1 - 1 = k /\ F[k] \in A
    BY <1>2
  <2> QED BY ONLY <2>1, \A j \in 1..n : F[j - 1] \in A => F[j] \in A
<1> HIDE DEF P
<1>3. \A k \in Nat : k \in P
  BY <1>1, <1>2, SetInduction
<1> QED BY <1>3 DEF P

(***************************************************************************)
(* Frames, and what h2 makes of those of one recv                           *)
(***************************************************************************)
FrameTypes == {"SETTINGS", "ACK", "WINDOW_UPDATE", "HEADERS", "DATA", "RST_STREAM"}
Frames == [type : FrameTypes, stream : Nat, fields : Seq(Requests), size : Nat,
           end : BOOLEAN]

(* A frame that neither opens a stream, nor carries data, nor ends one.     *)
Quiet(f) == f.type \notin {"HEADERS", "DATA"} /\ f.end = FALSE
Acks == {f \in Frames : Quiet(f)}
Gatherings == [of : Nat, size : Nat, ended : BOOLEAN]
Takings == [read : Gatherings, granted : Nat, answers : Seq(Acks)]

LEMMA FramesAre ==
    /\ \A s \in Nat, fields \in Seq(Requests), end \in BOOLEAN : Headers(s, fields, end) \in Frames
    /\ \A s \in Nat, size \in Nat, end \in BOOLEAN : Data(s, size, end) \in Frames
    /\ Settings \in Frames /\ Quiet(Settings)
    /\ \A size \in Nat : WindowUpdate(size) \in Frames /\ Quiet(WindowUpdate(size))
    /\ \A s \in Nat : /\ Frame("RST_STREAM", s, <<>>, 0, FALSE) \in Frames
                      /\ Quiet(Frame("RST_STREAM", s, <<>>, 0, FALSE))
    /\ Acknowledged("WINDOW_UPDATE") \in Acks /\ Acknowledged("ACK") \in Acks
<1>1. <<>> \in Seq(Requests)
  BY EmptySeq
<1>2. ASSUME NEW s \in Nat, NEW fields \in Seq(Requests), NEW size \in Nat, NEW end \in BOOLEAN,
             NEW type \in FrameTypes
      PROVE  Frame(type, s, fields, size, end) \in Frames
  BY DEF Frame, Frames
<1>3. FrameTypes = {"SETTINGS", "ACK", "WINDOW_UPDATE", "HEADERS", "DATA", "RST_STREAM"}
  BY DEF FrameTypes
<1>4. ASSUME NEW s, NEW size, NEW type \in {"SETTINGS", "ACK", "WINDOW_UPDATE", "RST_STREAM"}
      PROVE  Quiet(Frame(type, s, <<>>, size, FALSE)) /\ Frame(type, s, <<>>, size, FALSE).size = size
  BY DEF Quiet, Frame
<1>5. 0 \in Nat /\ FALSE \in BOOLEAN
  OBVIOUS
<1> QED BY ONLY <1>1, <1>2, <1>3, <1>4, <1>5, Zenon
        DEF Headers, Data, Settings, WindowUpdate, Acknowledged, Acks

LEMMA FrameIs ==
    ASSUME NEW f \in Frames
    PROVE  /\ f.type \in FrameTypes /\ f.stream \in Nat /\ f.fields \in Seq(Requests)
           /\ f.size \in Nat /\ f.end \in BOOLEAN
BY DEF Frames

LEMMA GatheredType ==
    ASSUME NEW r \in Gatherings, NEW f \in Frames PROVE Gathered(r, f) \in Gatherings
<1>1. r.of \in Nat /\ r.size \in Nat /\ r.ended \in BOOLEAN
  BY DEF Gatherings
<1>2. f.stream \in Nat /\ f.size \in Nat /\ f.end \in BOOLEAN
  BY FrameIs
<1>3. (IF f.type = "HEADERS" THEN f.stream ELSE r.of) \in Nat
  BY <1>1, <1>2
<1>4. r.size + (IF f.type = "DATA" THEN f.size ELSE 0) \in Nat
  BY <1>1, <1>2
<1>5. (r.ended \/ f.end) \in BOOLEAN
  OBVIOUS
<1> QED BY <1>3, <1>4, <1>5, Zenon DEF Gathered, Gatherings

LEMMA TakesType ==
    ASSUME NEW t \in Takings, NEW f \in Frames PROVE Takes(t, f) \in Takings
<1>1. t.read \in Gatherings /\ t.granted \in Nat /\ t.answers \in Seq(Acks)
  BY DEF Takings
<1>2. Gathered(t.read, f) \in Gatherings
  BY <1>1, GatheredType
<1>3. (IF f.type = "WINDOW_UPDATE" THEN t.granted + f.size ELSE t.granted) \in Nat
  BY <1>1, FrameIs
<1>4. /\ Append(t.answers, Acknowledged("WINDOW_UPDATE")) \in Seq(Acks)
      /\ Append(t.answers, Acknowledged("ACK")) \in Seq(Acks)
  BY <1>1, FramesAre, AppendProperties
<1>5. (CASE f.type = "DATA" -> Append(t.answers, Acknowledged("WINDOW_UPDATE"))
         [] f.type = "SETTINGS" -> Append(t.answers, Acknowledged("ACK"))
         [] OTHER -> t.answers) \in Seq(Acks)
  BY ONLY <1>1, <1>4
<1> QED BY ONLY <1>2, <1>3, <1>5, Zenon DEF Takes, Takings

LEMMA TakenFold ==
    ASSUME NEW s \in Seq(Frames), reading \in Gatherings
    PROVE  \E F : /\ F[0] = [read |-> reading, granted |-> 0, answers |-> <<>>]
                  /\ \A k \in 1..Len(s) : F[k] = Takes(F[k - 1], s[k])
                  /\ \A k \in 0..Len(s) : F[k] \in Takings
                  /\ Taken(s) = F[Len(s)]
<1> DEFINE A == Takings
           base == [read |-> reading, granted |-> 0, answers |-> <<>>]
<1>1. PICK n : n = Len(s)
  OBVIOUS
<1>2. n \in Nat /\ DOMAIN s = 1..n /\ \A i \in 1..n : s[i] \in Frames
  BY <1>1, LenProperties, ElementOfSeq
<1>3. base \in A
  <2>1. <<>> \in Seq(Acks) /\ 0 \in Nat
    BY EmptySeq
  <2> QED BY <2>1, Zenon DEF Takings
<1>4. ASSUME NEW a \in A, NEW e \in Frames PROVE Takes(a, e) \in A
  BY <1>4, TakesType
<1> DEFINE fold(g) == [t \in SUBSET (1..n) |->
                         IF t = {} THEN base ELSE Takes(g[t \ {Max(t)}], s[Max(t)])]
<1>5. Taken(s) = (CHOOSE g : g = fold(g))[1..n]
  BY <1>1, <1>2, Zenon DEF Taken, FoldLeft, MapThenFoldSet
<1> HIDE DEF A, base
<1> DEFINE step == [i \in 1..n |-> [a \in A |-> Takes(a, s[i])]]
<1>6. step \in [1..n -> [A -> A]]
  BY <1>2, <1>4
<1>7. PICK f : Folding(A, base, step, n, f)
  <2> HIDE DEF step
  <2> QED BY ONLY <1>2, <1>3, <1>6, FoldExists, Zenon
<1>8. f = fold(f)
  <2>1. f \in [SUBSET (1..n) -> A] /\ \A t \in SUBSET (1..n) : FoldsAt(base, step, f, t)
    BY ONLY <1>7, Zenon DEF Folding
  <2>2. ASSUME NEW t \in SUBSET (1..n)
        PROVE  f[t] = IF t = {} THEN base ELSE Takes(f[t \ {Max(t)}], s[Max(t)])
    <3>1. f[t] = IF t = {} THEN base ELSE step[Max(t)][f[t \ {Max(t)}]]
      BY ONLY <2>1, t \in SUBSET (1..n), Zenon DEF FoldsAt
    <3>2. CASE t = {}
      BY ONLY <3>1, <3>2, Zenon
    <3>3. CASE t # {}
      <4>1. Max(t) \in 1..n /\ t \ {Max(t)} \in SUBSET (1..n)
        BY <1>2, <3>3, MaxWithin
      <4>2. f[t \ {Max(t)}] \in A
        BY ONLY <2>1, <4>1, Zenon
      <4>3. step[Max(t)][f[t \ {Max(t)}]] = Takes(f[t \ {Max(t)}], s[Max(t)])
        BY ONLY <4>1, <4>2, Zenon
      <4> QED BY ONLY <3>1, <3>3, <4>3, Zenon
    <3> QED BY <3>2, <3>3
  <2> QED BY ONLY <2>1, <2>2, Zenon
<1>9. PICK g : g = fold(g) /\ g = CHOOSE h : h = fold(h)
  BY ONLY <1>8, Zenon
<1>10. ASSUME NEW t \in SUBSET (1..n)
       PROVE  g[t] = IF t = {} THEN base ELSE Takes(g[t \ {Max(t)}], s[Max(t)])
  BY ONLY <1>9, t \in SUBSET (1..n), Zenon
<1> HIDE DEF fold
<1> DEFINE F == [k \in 0..n |-> g[1..k]]
<1>11. F[0] = base /\ \A k \in 1..n : F[k] = Takes(F[k - 1], s[k])
  <2>1. \A k \in 0..n : F[k] = g[1..k]
    OBVIOUS
  <2>2. 0 \in 0..n /\ \A k \in 1..n : k \in 0..n
    BY <1>2
  <2> HIDE DEF F
  <2>3. g[1..0] = base
    BY ONLY <1>2, <1>10, UpToIs, Zenon
  <2>4. ASSUME NEW k \in 1..n PROVE F[k] = Takes(F[k - 1], s[k])
    <3>1. /\ 1..k \in SUBSET (1..n) /\ 1..k # {} /\ k - 1 \in 0..n
          /\ Max(1..k) = k /\ (1..k) \ {k} = 1..k - 1
      BY ONLY <1>2, UpToIs, k \in 1..n, Zenon
    <3>2. g[1..k] = Takes(g[(1..k) \ {Max(1..k)}], s[Max(1..k)])
      BY ONLY <1>10, <3>1, Zenon
    <3>3. g[1..k] = Takes(g[1..k - 1], s[k])
      BY ONLY <3>1, <3>2, Zenon
    <3> QED BY ONLY <2>1, <2>2, <3>1, <3>3, k \in 1..n, Zenon
  <2> QED BY ONLY <2>1, <2>2, <2>3, <2>4, Zenon
<1>12. F[n] = g[1..n]
  BY <1>2
<1> HIDE DEF F
<1>13. \A k \in 0..n : F[k] \in A
  <2>1. \A k \in 1..n : F[k - 1] \in A => F[k] \in A
    BY ONLY <1>2, <1>4, <1>11, Zenon
  <2>2. F[0] \in A
    BY ONLY <1>3, <1>11, Zenon
  <2> QED BY ONLY <1>2, <2>1, <2>2, Along, Zenon
<1>14. Taken(s) = F[n]
  BY ONLY <1>5, <1>9, <1>12, Zenon
<1> QED BY ONLY <1>1, <1>11, <1>13, <1>14, Zenon DEF A, base

(***************************************************************************)
(* Sequences of frames, position by position                                *)
(***************************************************************************)
After(s, k) == SubSeq(s, k + 1, Len(s))

LEMMA FramesOf ==
    ASSUME NEW s \in Seq(Frames)
    PROVE  Len(s) \in Nat /\ DOMAIN s = 1..Len(s) /\ \A i \in 1..Len(s) : s[i] \in Frames
BY LenProperties, ElementOfSeq

LEMMA AfterIs ==
    ASSUME NEW s \in Seq(Frames), NEW k \in 0..Len(s)
    PROVE  /\ After(s, k) \in Seq(Frames) /\ Len(After(s, k)) = Len(s) - k
           /\ \A i \in 1..Len(s) - k : After(s, k)[i] = s[i + k]
<1>1. PICK n \in Nat : n = Len(s)
  BY FramesOf
<1>2. \A i \in k + 1 .. n : s[i] \in Frames
  BY <1>1, FramesOf
<1>3. k + 1 \in Int /\ n \in Int /\ k \in 0..n
  BY <1>1
<1>4. /\ SubSeq(s, k + 1, n) \in Seq(Frames)
      /\ Len(SubSeq(s, k + 1, n)) = IF k + 1 <= n THEN n - (k + 1) + 1 ELSE 0
      /\ \A i \in 1 .. n - (k + 1) + 1 : SubSeq(s, k + 1, n)[i] = s[k + 1 + i - 1]
  BY ONLY <1>2, <1>3, SubSeqProperties
<1>5. After(s, k) = SubSeq(s, k + 1, n)
  BY <1>1 DEF After
<1>6. (IF k + 1 <= n THEN n - (k + 1) + 1 ELSE 0) = n - k /\ n - (k + 1) + 1 = n - k
  BY <1>3
<1>7. \A i \in 1..n - k : k + 1 + i - 1 = i + k
  BY <1>3
<1> QED BY ONLY <1>1, <1>4, <1>5, <1>6, <1>7

LEMMA TailIs ==
    ASSUME NEW s \in Seq(Frames), s # <<>>
    PROVE  /\ 1 \in 1..Len(s) /\ Head(s) = s[1] /\ Tail(s) = After(s, 1)
<1>1. Len(s) \in Nat /\ Len(s) # 0
  BY FramesOf, EmptySeq
<1>2. Tail(s) = SubSeq(s, 2, Len(s))
  BY TailIsSubSeq
<1>3. Head(s) = s[1]
  OBVIOUS
<1> QED BY <1>1, <1>2, <1>3 DEF After

LEMMA FirstIs ==
    ASSUME NEW s \in Seq(Frames), NEW k \in 1..Len(s)
    PROVE  /\ SubSeq(s, 1, k) \in Seq(Frames) /\ Len(SubSeq(s, 1, k)) = k
           /\ \A i \in 1..k : SubSeq(s, 1, k)[i] = s[i]
<1>1. PICK n \in Nat : n = Len(s)
  BY FramesOf
<1>2. \A i \in 1..k : s[i] \in Frames
  BY <1>1, FramesOf
<1>3. 1 \in Int /\ k \in Int /\ k \in 1..n
  BY <1>1
<1>4. /\ SubSeq(s, 1, k) \in Seq(Frames)
      /\ Len(SubSeq(s, 1, k)) = IF 1 <= k THEN k - 1 + 1 ELSE 0
      /\ \A i \in 1 .. k - 1 + 1 : SubSeq(s, 1, k)[i] = s[1 + i - 1]
  BY ONLY <1>2, <1>3, SubSeqProperties
<1> QED BY ONLY <1>3, <1>4

LEMMA AppendIs ==
    ASSUME NEW s \in Seq(Frames), NEW f \in Frames
    PROVE  /\ Append(s, f) \in Seq(Frames) /\ Len(Append(s, f)) = Len(s) + 1
           /\ \A i \in 1..Len(s) : Append(s, f)[i] = s[i]
           /\ Append(s, f)[Len(s) + 1] = f
BY AppendProperties

LEMMA ConcatIs ==
    ASSUME NEW s \in Seq(Frames), NEW q \in Seq(Frames)
    PROVE  /\ s \o q \in Seq(Frames) /\ Len(s \o q) = Len(s) + Len(q)
           /\ \A i \in 1..Len(s) : (s \o q)[i] = s[i]
           /\ \A i \in Len(s) + 1..Len(s) + Len(q) : (s \o q)[i] = q[i - Len(s)]
<1>1. Len(s) \in Nat /\ Len(q) \in Nat
  BY FramesOf
<1>2. /\ s \o q \in Seq(Frames) /\ Len(s \o q) = Len(s) + Len(q)
      /\ \A i \in 1 .. Len(s) + Len(q) : (s \o q)[i] =
           IF i <= Len(s) THEN s[i] ELSE q[i - Len(s)]
  BY ConcatProperties
<1> QED BY ONLY <1>1, <1>2

(***************************************************************************)
(* What the frames of one type weigh together                               *)
(***************************************************************************)
Weight(type, f) == IF f.type = type THEN f.size ELSE 0

Sums(type, s, n, H) ==
    /\ H[0] = 0 /\ H[Len(s)] = n
    /\ \A i \in 1..Len(s) : H[i] = H[i - 1] + Weight(type, s[i])
    /\ \A i \in 0..Len(s) : H[i] \in Nat
    /\ \A i, j \in 0..Len(s) : i <= j => H[i] <= H[j]
Weighs(type, s, n) == \E H : Sums(type, s, n, H)

LEMMA WeightType == ASSUME NEW f \in Frames, NEW type PROVE Weight(type, f) \in Nat
BY FrameIs DEF Weight

LEMMA WeighsNothing == ASSUME NEW type PROVE Weighs(type, <<>>, 0)
<1>1. Len(<<>>) = 0
  BY EmptySeq
<1> DEFINE H == [i \in 0..0 |-> 0]
<1>2. Sums(type, <<>>, 0, H)
  BY <1>1 DEF Sums
<1> QED BY <1>2 DEF Weighs

LEMMA WeighsType ==
    ASSUME NEW s \in Seq(Frames), NEW type, NEW n, Weighs(type, s, n) PROVE n \in Nat
<1>1. PICK H : Sums(type, s, n, H)
  BY DEF Weighs
<1>2. Len(s) \in Nat
  BY FramesOf
<1> QED BY <1>1, <1>2 DEF Sums

LEMMA WeighsAppend ==
    ASSUME NEW s \in Seq(Frames), NEW type, NEW n, Weighs(type, s, n), NEW f \in Frames
    PROVE  Weighs(type, Append(s, f), n + Weight(type, f))
<1>1. PICK H : Sums(type, s, n, H)
  BY DEF Weighs
<1>2. PICK m \in Nat : m = Len(s)
  BY FramesOf
<1>3. PICK w \in Nat : w = Weight(type, f)
  BY WeightType
<1>4. PICK t : t = Append(s, f)
  OBVIOUS
<1>5. Len(t) = m + 1 /\ (\A i \in 1..m : t[i] = s[i]) /\ t[m + 1] = f
  BY <1>2, <1>4, AppendIs
<1>6. /\ H[0] = 0 /\ H[m] = n
      /\ \A i \in 1..m : H[i] = H[i - 1] + Weight(type, s[i])
      /\ \A i \in 0..m : H[i] \in Nat
      /\ \A i, j \in 0..m : i <= j => H[i] <= H[j]
  BY <1>1, <1>2 DEF Sums
<1>7. n \in Nat
  BY <1>2, <1>6
<1> DEFINE G == [i \in 0..m + 1 |-> IF i = m + 1 THEN n + w ELSE H[i]]
<1>8. G[m + 1] = n + w /\ \A i \in 0..m : G[i] = H[i]
  BY <1>2
<1> HIDE DEF G
<1>9. ASSUME NEW i \in 1..m + 1 PROVE G[i] = G[i - 1] + Weight(type, t[i])
  <2>1. CASE i = m + 1
    <3>1. G[i - 1] = n /\ Weight(type, t[i]) = w
      BY <1>2, <1>3, <1>5, <1>6, <1>8, <2>1
    <3> QED BY <1>8, <2>1, <3>1
  <2>2. CASE i # m + 1
    <3>1. i \in 1..m /\ i \in 0..m /\ i - 1 \in 0..m
      BY <1>2, <2>2
    <3> QED BY ONLY <1>5, <1>6, <1>8, <3>1, Zenon
  <2> QED BY <2>1, <2>2
<1>10. \A i \in 0..m + 1 : G[i] \in Nat
  BY ONLY m \in Nat, w \in Nat, <1>6, <1>7, <1>8
<1>11. ASSUME NEW i \in 0..m + 1, NEW j \in 0..m + 1, i <= j PROVE G[i] <= G[j]
  <2>1. CASE j = m + 1
    <3>1. CASE i = m + 1
      BY ONLY <1>7, <1>8, <2>1, <3>1, w \in Nat
    <3>2. CASE i # m + 1
      <4>1. i \in 0..m /\ m \in 0..m /\ i <= m
        BY <1>2, <3>2
      <4>2. H[i] <= H[m] /\ H[i] \in Nat
        BY ONLY <1>6, <4>1
      <4> QED BY ONLY <1>6, <1>7, <1>8, <2>1, <4>1, <4>2, w \in Nat
    <3> QED BY <3>1, <3>2
  <2>2. CASE j # m + 1
    <3>1. i \in 0..m /\ j \in 0..m
      BY <1>2, <1>11, <2>2
    <3> QED BY ONLY <1>6, <1>8, <1>11, <3>1
  <2> QED BY <2>1, <2>2
<1>12. G[0] = 0
  BY ONLY m \in Nat, <1>6, <1>8
<1>13. Sums(type, t, n + w, G)
  BY ONLY <1>5, <1>8, <1>9, <1>10, <1>11, <1>12 DEF Sums
<1> QED BY ONLY <1>3, <1>4, <1>13, Zenon DEF Weighs

LEMMA WeighsConcat ==
    ASSUME NEW s \in Seq(Frames), NEW type, NEW n, Weighs(type, s, n),
           NEW q \in Seq(Frames), \A i \in 1..Len(q) : Weight(type, q[i]) = 0
    PROVE  Weighs(type, s \o q, n)
<1>1. PICK H : Sums(type, s, n, H)
  BY DEF Weighs
<1>2. PICK m \in Nat, l \in Nat : m = Len(s) /\ l = Len(q)
  BY FramesOf
<1>4. PICK t : t = s \o q
  OBVIOUS
<1>5. Len(t) = m + l /\ (\A i \in 1..m : t[i] = s[i]) /\ \A i \in m + 1..m + l : t[i] = q[i - m]
  BY <1>2, <1>4, ConcatIs
<1>6. /\ H[0] = 0 /\ H[m] = n
      /\ \A i \in 1..m : H[i] = H[i - 1] + Weight(type, s[i])
      /\ \A i \in 0..m : H[i] \in Nat
      /\ \A i, j \in 0..m : i <= j => H[i] <= H[j]
  BY <1>1, <1>2 DEF Sums
<1>7. n \in Nat
  BY <1>2, <1>6
<1> DEFINE G == [i \in 0..m + l |-> IF i > m THEN n ELSE H[i]]
<1>8. (\A i \in m..m + l : G[i] = n) /\ \A i \in 0..m : G[i] = H[i]
  BY <1>2, <1>6
<1> HIDE DEF G
<1>9. ASSUME NEW i \in 1..m + l PROVE G[i] = G[i - 1] + Weight(type, t[i])
  <2>1. CASE i > m
    <3>1. i - m \in 1..l /\ i \in m..m + l /\ i - 1 \in m..m + l /\ i \in m + 1..m + l
      BY <2>1
    <3>2. Weight(type, t[i]) = 0
      BY ONLY <1>2, <1>5, <3>1, \A j \in 1..Len(q) : Weight(type, q[j]) = 0
    <3> QED BY ONLY <1>7, <1>8, <3>1, <3>2
  <2>2. CASE ~(i > m)
    <3>1. i \in 1..m /\ i \in 0..m /\ i - 1 \in 0..m
      BY <1>2, <2>2
    <3> QED BY ONLY <1>5, <1>6, <1>8, <3>1, Zenon
  <2> QED BY <2>1, <2>2
<1>10. \A i \in 0..m + l : G[i] \in Nat
  BY ONLY m \in Nat, l \in Nat, <1>6, <1>7, <1>8
<1>11. ASSUME NEW i \in 0..m + l, NEW j \in 0..m + l, i <= j PROVE G[i] <= G[j]
  <2>1. CASE j > m
    <3>1. CASE i > m
      BY ONLY <1>7, <1>8, <2>1, <3>1, m \in Nat, l \in Nat, i \in 0..m + l, j \in 0..m + l
    <3>2. CASE ~(i > m)
      <4>1. i \in 0..m /\ m \in 0..m /\ i <= m
        BY <1>2, <3>2
      <4>2. H[i] <= H[m] /\ H[i] \in Nat
        BY ONLY <1>6, <4>1
      <4>3. j \in m..m + l
        BY <2>1
      <4> QED BY ONLY <1>6, <1>7, <1>8, <4>3, <4>1, <4>2
    <3> QED BY <3>1, <3>2
  <2>2. CASE ~(j > m)
    <3>1. i \in 0..m /\ j \in 0..m
      BY <1>2, <1>11, <2>2
    <3> QED BY ONLY <1>6, <1>8, <1>11, <3>1
  <2> QED BY <2>1, <2>2
<1>12. G[0] = 0
  BY ONLY m \in Nat, <1>6, <1>8
<1>13. G[m + l] = n
  BY ONLY m \in Nat, l \in Nat, <1>8
<1>14. Sums(type, t, n, G)
  BY ONLY <1>5, <1>13, <1>9, <1>10, <1>11, <1>12 DEF Sums
<1> QED BY ONLY <1>4, <1>14, Zenon DEF Weighs

LEMMA WeighsAfter ==
    ASSUME NEW s \in Seq(Frames), NEW type, NEW n, Weighs(type, s, n),
           NEW k \in 1..Len(s), NEW G, G[0] = 0,
           \A i \in 1..k : G[i] = G[i - 1] + Weight(type, s[i])
    PROVE  /\ G[k] \in Nat /\ G[k] <= n
           /\ Weighs(type, After(s, k), n - G[k])
<1>1. PICK H : Sums(type, s, n, H)
  BY DEF Weighs
<1>2. PICK m \in Nat : m = Len(s)
  BY FramesOf
<1>3. k \in 1..m
  BY <1>2
<1>4. PICK t : t = After(s, k)
  OBVIOUS
<1>5. Len(t) = m - k /\ \A i \in 1..m - k : t[i] = s[i + k]
  <2>1. k \in 0..Len(s)
    BY <1>2
  <2> QED BY <1>2, <1>4, <2>1, AfterIs
<1>6. /\ H[0] = 0 /\ H[m] = n
      /\ \A i \in 1..m : H[i] = H[i - 1] + Weight(type, s[i])
      /\ \A i \in 0..m : H[i] \in Nat
      /\ \A i, j \in 0..m : i <= j => H[i] <= H[j]
  BY <1>1, <1>2 DEF Sums
<1>7. \A i \in 0..k : G[i] = H[i]
  <2> DEFINE P == {i \in Nat : i <= k => G[i] = H[i]}
  <2>1. 0 \in P
    BY <1>6
  <2>2. ASSUME NEW i \in Nat, i \in P PROVE i + 1 \in P
    <3> SUFFICES ASSUME i + 1 <= k PROVE G[i + 1] = H[i + 1]
      OBVIOUS
    <3>1. i + 1 \in 1..k /\ i + 1 \in 1..m /\ i + 1 - 1 = i /\ G[i] = H[i]
      BY <1>3, <2>2
    <3>2. G[i + 1] = G[i + 1 - 1] + Weight(type, s[i + 1])
      BY <3>1
    <3>3. H[i + 1] = H[i + 1 - 1] + Weight(type, s[i + 1])
      BY ONLY <1>6, <3>1
    <3> QED BY ONLY <3>1, <3>2, <3>3, Zenon
  <2> HIDE DEF P
  <2>3. \A i \in Nat : i \in P
    BY <2>1, <2>2, SetInduction
  <2> QED BY <2>3 DEF P
<1>8. G[k] = H[k] /\ k \in 0..m /\ m \in 0..m
  BY <1>3, <1>7
<1>9. G[k] \in Nat /\ G[k] <= n
  BY ONLY <1>6, <1>8, k \in 1..m
<1> DEFINE J == [i \in 0..m - k |-> H[i + k] - H[k]]
<1>10. \A i \in 0..m - k : J[i] = H[i + k] - H[k]
  OBVIOUS
<1> HIDE DEF J
<1>11. \A i \in 0..m - k : i + k \in 0..m /\ k <= i + k
  BY <1>3
<1>12. \A i \in 0..m - k : H[i + k] \in Nat /\ H[k] \in Nat /\ H[k] <= H[i + k]
  BY ONLY <1>6, <1>8, <1>11
<1>13. \A i \in 0..m - k : J[i] \in Nat
  BY ONLY <1>10, <1>12
<1>14. J[0] = 0 /\ J[m - k] = n - G[k]
  <2>1. 0 \in 0..m - k /\ m - k \in 0..m - k /\ 0 + k = k /\ m - k + k = m
    BY <1>3
  <2>2. H[k] \in Nat
    BY ONLY <1>6, <1>8
  <2> QED BY ONLY <1>6, <1>8, <1>10, <2>1, <2>2
<1>15. ASSUME NEW i \in 1..m - k PROVE J[i] = J[i - 1] + Weight(type, t[i])
  <2>1. /\ i \in 0..m - k /\ i - 1 \in 0..m - k /\ i + k \in 1..m
        /\ i - 1 + k = i + k - 1
    BY <1>3
  <2>2. H[i + k] = H[i - 1 + k] + Weight(type, t[i])
    <3>1. H[i + k] = H[i + k - 1] + Weight(type, s[i + k])
      BY ONLY <1>6, <2>1
    <3>2. t[i] = s[i + k]
      BY ONLY <1>5, i \in 1..m - k
    <3> QED BY ONLY <2>1, <3>1, <3>2, Zenon
  <2>3. H[i + k] \in Nat /\ H[i - 1 + k] \in Nat /\ H[k] \in Nat
    BY ONLY <1>12, <2>1
  <2>4. Weight(type, t[i]) \in Nat
    <3>1. s[i + k] \in Frames
      BY <1>2, <2>1, FramesOf
    <3> QED BY <1>5, <3>1, WeightType
  <2> QED BY ONLY <1>10, <2>1, <2>2, <2>3, <2>4
<1>16. ASSUME NEW i \in 0..m - k, NEW j \in 0..m - k, i <= j PROVE J[i] <= J[j]
  <2>1. i + k \in 0..m /\ j + k \in 0..m /\ i + k <= j + k
    BY <1>3, <1>16
  <2>2. H[i + k] <= H[j + k]
    BY ONLY <1>6, <2>1
  <2> QED BY ONLY <1>10, <1>12, <2>2, i \in 0..m - k, j \in 0..m - k
<1>17. Sums(type, t, n - G[k], J)
  BY ONLY <1>5, <1>13, <1>14, <1>15, <1>16 DEF Sums
<1> QED BY ONLY <1>4, <1>9, <1>17, Zenon DEF Weighs

LEMMA WeighsTail ==
    ASSUME NEW s \in Seq(Frames), s # <<>>, NEW type, NEW n, Weighs(type, s, n)
    PROVE  /\ Weight(type, Head(s)) \in Nat /\ Weight(type, Head(s)) <= n
           /\ Weighs(type, Tail(s), n - Weight(type, Head(s)))
<1>1. 1 \in 1..Len(s) /\ Head(s) = s[1] /\ Tail(s) = After(s, 1)
  BY TailIs
<1>2. PICK w \in Nat : w = Weight(type, s[1])
  BY <1>1, FramesOf, WeightType
<1> DEFINE G == [i \in 0..1 |-> IF i = 0 THEN 0 ELSE w]
<1>3. G[0] = 0 /\ G[1] = w /\ \A i \in 1..1 : G[i] = G[i - 1] + Weight(type, s[i])
  BY <1>2
<1> HIDE DEF G
<1>4. G[1] \in Nat /\ G[1] <= n /\ Weighs(type, After(s, 1), n - G[1])
  BY <1>1, <1>3, WeighsAfter
<1> QED BY ONLY <1>1, <1>2, <1>3, <1>4, Zenon

(***************************************************************************)
(* What getresponse gathers from the frames that are to come                *)
(***************************************************************************)
Readings == [of : {0} \cup Streams, size : Nat, ended : BOOLEAN]

Gathers(r, s, l, R) ==
    /\ R[0] = r /\ R[Len(s)] = l
    /\ \A k \in 1..Len(s) : R[k] = Gathered(R[k - 1], s[k])
    /\ \A k \in 0..Len(s) : R[k] \in Readings
    /\ \A k \in 0..Len(s) : R[k].ended => R[k] = l /\ \A j \in k + 1..Len(s) : Quiet(s[j])
Tells(r, s, l) == \E R : Gathers(r, s, l, R)

LEMMA StreamIs == ASSUME NEW s \in Streams PROVE s \in Nat /\ s # 0
<1>1. MaxRequests \in Nat
  BY Http2Assumption
<1>2. PICK i \in 1..MaxRequests : s = 2 * i - 1
  BY DEF Streams
<1>3. i \in Nat /\ i >= 1
  BY <1>1
<1> QED BY ONLY <1>2, <1>3

LEMMA ReadingIs ==
    ASSUME NEW r \in Readings
    PROVE  /\ r = [of |-> r.of, size |-> r.size, ended |-> r.ended]
           /\ r.of \in {0} \cup Streams /\ r.of \in Nat
           /\ r.size \in Nat /\ r.ended \in BOOLEAN /\ r \in Gatherings
<1>1. /\ r = [of |-> r.of, size |-> r.size, ended |-> r.ended]
      /\ r.of \in {0} \cup Streams /\ r.size \in Nat /\ r.ended \in BOOLEAN
  BY DEF Readings
<1>2. r.of \in Nat
  BY <1>1, StreamIs
<1>3. r \in Gatherings
  BY ONLY <1>1, <1>2, Zenon DEF Gatherings
<1> QED BY <1>1, <1>2, <1>3

LEMMA GatheredQuiet ==
    ASSUME NEW r \in Readings, NEW f \in Frames, Quiet(f) PROVE Gathered(r, f) = r
<1>1. /\ r = [of |-> r.of, size |-> r.size, ended |-> r.ended]
      /\ r.size \in Nat /\ r.ended \in BOOLEAN
  BY ReadingIs
<1>2. f.type # "HEADERS" /\ f.type # "DATA" /\ f.end = FALSE
  BY DEF Quiet
<1>3. r.size + (IF f.type = "DATA" THEN f.size ELSE 0) = r.size
  BY <1>1, <1>2
<1>4. (r.ended \/ f.end) = r.ended
  BY <1>1, <1>2
<1>5. (IF f.type = "HEADERS" THEN f.stream ELSE r.of) = r.of
  BY <1>2
<1> QED BY ONLY <1>1, <1>3, <1>4, <1>5, Zenon DEF Gathered

LEMMA TellsQuiet ==
    ASSUME NEW r \in Readings, NEW s \in Seq(Frames), \A i \in 1..Len(s) : Quiet(s[i])
    PROVE  Tells(r, s, r)
<1>1. PICK n \in Nat : n = Len(s)
  BY FramesOf
<1> DEFINE R == [i \in 0..n |-> r]
<1>2. \A i \in 0..n : R[i] = r
  OBVIOUS
<1>3. R[0] = r /\ R[n] = r
  OBVIOUS
<1> HIDE DEF R
<1>4. ASSUME NEW i \in 1..n PROVE R[i] = Gathered(R[i - 1], s[i])
  <2>1. i \in 0..n /\ i - 1 \in 0..n
    OBVIOUS
  <2>2. s[i] \in Frames /\ Quiet(s[i])
    BY <1>1, FramesOf
  <2>3. Gathered(r, s[i]) = r
    BY <2>2, GatheredQuiet
  <2> QED BY ONLY <1>2, <2>1, <2>3, Zenon
<1>5. \A k \in 0..n : \A j \in k + 1..n : Quiet(s[j])
  BY <1>1
<1>6. Gathers(r, s, r, R)
  BY ONLY <1>1, <1>2, <1>3, <1>4, <1>5, r \in Readings, Zenon DEF Gathers
<1> QED BY <1>6 DEF Tells

LEMMA TellsType ==
    ASSUME NEW r, NEW s \in Seq(Frames), NEW l, Tells(r, s, l)
    PROVE  r \in Readings /\ l \in Readings
<1>1. PICK R : Gathers(r, s, l, R)
  BY DEF Tells
<1>2. 0 \in 0..Len(s) /\ Len(s) \in 0..Len(s)
  BY FramesOf
<1> QED BY ONLY <1>1, <1>2, Zenon DEF Gathers

LEMMA TellsAppendQuiet ==
    ASSUME NEW r, NEW s \in Seq(Frames), NEW l, Tells(r, s, l), NEW f \in Frames, Quiet(f)
    PROVE  Tells(r, Append(s, f), l)
<1>1. PICK R : Gathers(r, s, l, R)
  BY DEF Tells
<1>2. PICK n \in Nat : n = Len(s)
  BY FramesOf
<1>3. PICK t : t = Append(s, f)
  OBVIOUS
<1>4. Len(t) = n + 1 /\ (\A i \in 1..n : t[i] = s[i]) /\ t[n + 1] = f
  BY <1>2, <1>3, AppendIs
<1>5. /\ R[0] = r /\ R[n] = l
      /\ \A k \in 1..n : R[k] = Gathered(R[k - 1], s[k])
      /\ \A k \in 0..n : R[k] \in Readings
      /\ \A k \in 0..n : R[k].ended => R[k] = l /\ \A j \in k + 1..n : Quiet(s[j])
  BY ONLY <1>1, <1>2, Zenon DEF Gathers
<1>6. l \in Readings /\ Gathered(l, f) = l
  BY TellsType, GatheredQuiet
<1> DEFINE Q == [i \in 0..n + 1 |-> IF i = n + 1 THEN l ELSE R[i]]
<1>7. Q[n + 1] = l /\ (\A i \in 0..n : Q[i] = R[i]) /\ Q[n] = l
  BY <1>2, <1>5
<1>8. Q[0] = r
  BY <1>2, <1>5
<1> HIDE DEF Q
<1>9. ASSUME NEW i \in 0..n + 1 PROVE i = n + 1 \/ i \in 0..n
  OBVIOUS
<1>10. ASSUME NEW i \in 1..n + 1 PROVE Q[i] = Gathered(Q[i - 1], t[i])
  <2>1. CASE i = n + 1
    <3>1. i - 1 = n
      BY <2>1
    <3> QED BY ONLY <1>4, <1>6, <1>7, <2>1, <3>1, Zenon
  <2>2. CASE i # n + 1
    <3>1. i \in 1..n /\ i \in 0..n /\ i - 1 \in 0..n
      BY <1>2, <2>2
    <3> QED BY ONLY <1>4, <1>5, <1>7, <3>1, Zenon
  <2> QED BY <2>1, <2>2
<1>11. \A k \in 0..n + 1 : Q[k] \in Readings
  BY ONLY <1>5, <1>6, <1>7, <1>9, Zenon
<1>12. ASSUME NEW k \in 0..n + 1, Q[k].ended
       PROVE  Q[k] = l /\ \A j \in k + 1..n + 1 : Quiet(t[j])
  <2>1. CASE k = n + 1
    BY <1>7, <2>1
  <2>2. CASE k # n + 1
    <3>1. k \in 0..n
      BY <2>2
    <3>2. Q[k] = l /\ \A j \in k + 1..n : Quiet(s[j])
      BY ONLY <1>5, <1>7, <1>12, <3>1, Zenon
    <3>3. ASSUME NEW j \in k + 1..n + 1 PROVE Quiet(t[j])
      <4>1. CASE j = n + 1
        BY <1>4, <4>1
      <4>2. CASE j # n + 1
        <5>1. j \in k + 1..n /\ j \in 1..n
          BY <3>1, <4>2
        <5> QED BY ONLY <1>4, <3>2, <5>1, Zenon
      <4> QED BY <4>1, <4>2
    <3> QED BY <3>2, <3>3
  <2> QED BY <2>1, <2>2
<1>13. Gathers(r, t, l, Q)
  BY ONLY <1>4, <1>7, <1>8, <1>10, <1>11, <1>12, Zenon DEF Gathers
<1> QED BY ONLY <1>3, <1>13, Zenon DEF Tells

LEMMA TellsAppend ==
    ASSUME NEW r, NEW s \in Seq(Frames), NEW l, Tells(r, s, l), ~l.ended,
           NEW f \in Frames, Gathered(l, f) \in Readings
    PROVE  Tells(r, Append(s, f), Gathered(l, f))
<1>1. PICK R : Gathers(r, s, l, R)
  BY DEF Tells
<1>2. PICK n \in Nat : n = Len(s)
  BY FramesOf
<1>3. PICK t, m : t = Append(s, f) /\ m = Gathered(l, f)
  OBVIOUS
<1>4. Len(t) = n + 1 /\ (\A i \in 1..n : t[i] = s[i]) /\ t[n + 1] = f
  BY <1>2, <1>3, AppendIs
<1>5. /\ R[0] = r /\ R[n] = l
      /\ \A k \in 1..n : R[k] = Gathered(R[k - 1], s[k])
      /\ \A k \in 0..n : R[k] \in Readings
      /\ \A k \in 0..n : R[k].ended => R[k] = l
  BY ONLY <1>1, <1>2, Zenon DEF Gathers
<1>6. m \in Readings
  BY <1>3
<1> DEFINE Q == [i \in 0..n + 1 |-> IF i = n + 1 THEN m ELSE R[i]]
<1>7. Q[n + 1] = m /\ (\A i \in 0..n : Q[i] = R[i]) /\ Q[n] = l
  BY <1>2, <1>5
<1>8. Q[0] = r
  BY <1>2, <1>5
<1> HIDE DEF Q
<1>9. ASSUME NEW i \in 0..n + 1 PROVE i = n + 1 \/ i \in 0..n
  OBVIOUS
<1>10. ASSUME NEW i \in 1..n + 1 PROVE Q[i] = Gathered(Q[i - 1], t[i])
  <2>1. CASE i = n + 1
    <3>1. i - 1 = n
      BY <2>1
    <3> QED BY ONLY <1>3, <1>4, <1>7, <2>1, <3>1, Zenon
  <2>2. CASE i # n + 1
    <3>1. i \in 1..n /\ i \in 0..n /\ i - 1 \in 0..n
      BY <1>2, <2>2
    <3> QED BY ONLY <1>4, <1>5, <1>7, <3>1, Zenon
  <2> QED BY <2>1, <2>2
<1>11. \A k \in 0..n + 1 : Q[k] \in Readings
  BY ONLY <1>5, <1>6, <1>7, <1>9, Zenon
<1>12. ASSUME NEW k \in 0..n + 1, Q[k].ended
       PROVE  Q[k] = m /\ \A j \in k + 1..n + 1 : Quiet(t[j])
  <2>1. k = n + 1
    <3>1. ASSUME k \in 0..n PROVE FALSE
      BY ONLY <1>5, <1>7, <1>12, <3>1, ~l.ended, Zenon
    <3> QED BY <1>9, <3>1
  <2>2. k + 1..n + 1 = {}
    BY <2>1
  <2> QED BY ONLY <1>7, <2>1, <2>2, Zenon
<1>13. Gathers(r, t, m, Q)
  BY ONLY <1>4, <1>7, <1>8, <1>10, <1>11, <1>12, Zenon DEF Gathers
<1> QED BY ONLY <1>3, <1>13, Zenon DEF Tells

LEMMA TellsAfter ==
    ASSUME NEW r, NEW s \in Seq(Frames), NEW l, Tells(r, s, l), NEW k \in 1..Len(s),
           NEW G, G[0] = r, \A i \in 1..k : G[i] = Gathered(G[i - 1], s[i])
    PROVE  /\ Tells(G[k], After(s, k), l)
           /\ G[k].ended => /\ G[k] = l
                            /\ \A j \in 1..Len(After(s, k)) : Quiet(After(s, k)[j])
<1>1. PICK R : Gathers(r, s, l, R)
  BY DEF Tells
<1>2. PICK n \in Nat : n = Len(s)
  BY FramesOf
<1>3. k \in 1..n
  BY <1>2
<1>4. PICK t : t = After(s, k)
  OBVIOUS
<1>5. Len(t) = n - k /\ \A i \in 1..n - k : t[i] = s[i + k]
  <2>1. k \in 0..Len(s)
    BY <1>2
  <2> QED BY <1>2, <1>4, <2>1, AfterIs
<1>6. /\ R[0] = r /\ R[n] = l
      /\ \A i \in 1..n : R[i] = Gathered(R[i - 1], s[i])
      /\ \A i \in 0..n : R[i] \in Readings
      /\ \A i \in 0..n : R[i].ended => R[i] = l /\ \A j \in i + 1..n : Quiet(s[j])
  BY ONLY <1>1, <1>2, Zenon DEF Gathers
<1>7. G[k] = R[k]
  <2> DEFINE P == {i \in Nat : i <= k => G[i] = R[i]}
  <2>1. 0 \in P
    BY <1>6
  <2>2. ASSUME NEW i \in Nat, i \in P PROVE i + 1 \in P
    <3> SUFFICES ASSUME i + 1 <= k PROVE G[i + 1] = R[i + 1]
      OBVIOUS
    <3>1. i + 1 \in 1..k /\ i + 1 \in 1..n /\ i + 1 - 1 = i /\ G[i] = R[i]
      BY <1>3, <2>2
    <3>2. G[i + 1] = Gathered(G[i + 1 - 1], s[i + 1])
      BY <3>1
    <3>3. R[i + 1] = Gathered(R[i + 1 - 1], s[i + 1])
      BY ONLY <1>6, <3>1
    <3> QED BY ONLY <3>1, <3>2, <3>3, Zenon
  <2> HIDE DEF P
  <2>3. \A i \in Nat : i \in P
    BY <2>1, <2>2, SetInduction
  <2> QED BY <1>3, <2>3 DEF P
<1> DEFINE Q == [i \in 0..n - k |-> R[i + k]]
<1>8. \A i \in 0..n - k : Q[i] = R[i + k]
  OBVIOUS
<1> HIDE DEF Q
<1>9. \A i \in 0..n - k : i + k \in 0..n
  BY <1>3
<1>10. Q[0] = R[k] /\ Q[n - k] = l
  <2>1. 0 \in 0..n - k /\ n - k \in 0..n - k /\ 0 + k = k /\ n - k + k = n
    BY <1>3
  <2> QED BY ONLY <1>6, <1>8, <2>1, Zenon
<1>11. ASSUME NEW i \in 1..n - k PROVE Q[i] = Gathered(Q[i - 1], t[i])
  <2>1. /\ i \in 0..n - k /\ i - 1 \in 0..n - k /\ i + k \in 1..n
        /\ i - 1 + k = i + k - 1
    BY <1>3
  <2>2. R[i + k] = Gathered(R[i + k - 1], s[i + k])
    BY ONLY <1>6, <2>1
  <2> QED BY ONLY <1>5, <1>8, <2>1, <2>2, i \in 1..n - k, Zenon
<1>12. \A i \in 0..n - k : Q[i] \in Readings
  BY ONLY <1>6, <1>8, <1>9, Zenon
<1>13. ASSUME NEW i \in 0..n - k, Q[i].ended
       PROVE  Q[i] = l /\ \A j \in i + 1..n - k : Quiet(t[j])
  <2>1. Q[i] = l /\ \A j \in i + k + 1..n : Quiet(s[j])
    BY ONLY <1>6, <1>8, <1>9, <1>13, Zenon
  <2>2. ASSUME NEW j \in i + 1..n - k PROVE Quiet(t[j])
    <3>1. j + k \in i + k + 1..n /\ j \in 1..n - k
      BY <1>3
    <3> QED BY ONLY <1>5, <2>1, <3>1, Zenon
  <2> QED BY <2>1, <2>2
<1>14. Gathers(R[k], t, l, Q)
  BY ONLY <1>5, <1>10, <1>11, <1>12, <1>13, Zenon DEF Gathers
<1>15. Tells(R[k], t, l)
  BY ONLY <1>14, Zenon DEF Tells
<1>16. ASSUME R[k].ended PROVE R[k] = l /\ \A j \in 1..n - k : Quiet(t[j])
  <2>1. 0 \in 0..n - k /\ \A j \in 1..n - k : j \in 0 + 1..n - k
    BY <1>3
  <2>2. Q[0].ended
    BY ONLY <1>10, <1>16, Zenon
  <2>3. Q[0] = l /\ \A j \in 0 + 1..n - k : Quiet(t[j])
    BY ONLY <1>13, <2>1, <2>2, Zenon
  <2> QED BY ONLY <1>10, <2>1, <2>3, Zenon
<1> QED BY ONLY <1>4, <1>5, <1>7, <1>15, <1>16, Zenon

(***************************************************************************)
(* What the server will have made of the requests, frame by frame           *)
(***************************************************************************)
Entry(fields, size, ended) == [fields |-> fields, size |-> size, ended |-> ended]

(* One request: its fields, and once it has ended its whole body.           *)
IsRequest(e) ==
    \E q \in Requests : e.fields = <<q>> /\ (e.ended => e.size = q.body.size)
WholeRequests ==
    {e \in [fields : Seq(Requests), size : Nat, ended : BOOLEAN] : IsRequest(e)}
IsView(V) == \E D \in SUBSET Streams : V \in [D -> WholeRequests]

View(streams) ==
    [s \in DOMAIN streams |->
       Entry(streams[s].fields, streams[s].size, streams[s].ended)]

Sees(V, f) ==
    CASE f.type = "HEADERS" ->
           [s \in DOMAIN V \cup {f.stream} |->
              IF s = f.stream THEN Entry(f.fields, 0, f.end) ELSE V[s]]
      [] f.type = "DATA" ->
           [s \in DOMAIN V |->
              IF s = f.stream THEN Entry(V[s].fields, V[s].size + f.size, f.end) ELSE V[s]]
      [] OTHER -> V

Follows(V, w, L, F) ==
    /\ F[0] = V /\ F[Len(w)] = L
    /\ \A i \in 1..Len(w) : F[i] = Sees(F[i - 1], w[i])
    /\ \A i \in 0..Len(w) : IsView(F[i])
Leads(V, w, L) == \E F : Follows(V, w, L, F)

LEMMA LeadsNothing == ASSUME NEW V, IsView(V) PROVE Leads(V, <<>>, V)
<1>1. Len(<<>>) = 0
  BY EmptySeq
<1> DEFINE F == [i \in 0..0 |-> V]
<1>2. F[0] = V
  OBVIOUS
<1>3. 1..0 = {} /\ \A i \in 0..0 : i = 0
  OBVIOUS
<1> HIDE DEF F
<1>4. Follows(V, <<>>, V, F)
  BY ONLY <1>1, <1>2, <1>3, IsView(V), Zenon DEF Follows
<1> QED BY <1>4 DEF Leads

LEMMA LeadsType ==
    ASSUME NEW V, NEW w \in Seq(Frames), NEW L, Leads(V, w, L) PROVE IsView(V) /\ IsView(L)
<1>1. PICK F : Follows(V, w, L, F)
  BY DEF Leads
<1>2. 0 \in 0..Len(w) /\ Len(w) \in 0..Len(w)
  BY FramesOf
<1> QED BY ONLY <1>1, <1>2, Zenon DEF Follows

LEMMA LeadsAppend ==
    ASSUME NEW V, NEW w \in Seq(Frames), NEW L, Leads(V, w, L),
           NEW f \in Frames, IsView(Sees(L, f))
    PROVE  Leads(V, Append(w, f), Sees(L, f))
<1>1. PICK F : Follows(V, w, L, F)
  BY DEF Leads
<1>2. PICK n \in Nat : n = Len(w)
  BY FramesOf
<1>3. PICK t, M : t = Append(w, f) /\ M = Sees(L, f)
  OBVIOUS
<1>4. Len(t) = n + 1 /\ (\A i \in 1..n : t[i] = w[i]) /\ t[n + 1] = f
  BY <1>2, <1>3, AppendIs
<1>5. /\ F[0] = V /\ F[n] = L
      /\ \A i \in 1..n : F[i] = Sees(F[i - 1], w[i])
      /\ \A i \in 0..n : IsView(F[i])
  BY ONLY <1>1, <1>2, Zenon DEF Follows
<1>6. IsView(M)
  BY ONLY <1>3, IsView(Sees(L, f)), Zenon
<1> DEFINE G == [i \in 0..n + 1 |-> IF i = n + 1 THEN M ELSE F[i]]
<1>7. G[n + 1] = M /\ \A i \in 0..n : G[i] = F[i]
  BY <1>2
<1> HIDE DEF G
<1>8. 0 \in 0..n /\ n \in 0..n /\ \A i \in 0..n + 1 : i = n + 1 \/ i \in 0..n
  BY <1>2
<1>9. ASSUME NEW i \in 1..n + 1 PROVE G[i] = Sees(G[i - 1], t[i])
  <2>1. CASE i = n + 1
    <3>1. i - 1 = n
      BY <2>1
    <3> QED BY ONLY <1>3, <1>4, <1>5, <1>7, <1>8, <2>1, <3>1, Zenon
  <2>2. CASE i # n + 1
    <3>1. i \in 1..n /\ i \in 0..n /\ i - 1 \in 0..n
      BY <1>2, <2>2
    <3> QED BY ONLY <1>4, <1>5, <1>7, <3>1, Zenon
  <2> QED BY <2>1, <2>2
<1>10. \A i \in 0..n + 1 : IsView(G[i])
  BY ONLY <1>5, <1>6, <1>7, <1>8, Zenon
<1>11. Follows(V, t, M, G)
  BY ONLY <1>4, <1>5, <1>7, <1>8, <1>9, <1>10, Zenon DEF Follows
<1> QED BY ONLY <1>3, <1>11, Zenon DEF Leads

LEMMA SeesQuiet == ASSUME NEW V, NEW f, Quiet(f) PROVE Sees(V, f) = V
BY DEF Sees, Quiet

LEMMA LeadsConcat ==
    ASSUME NEW V, NEW w \in Seq(Frames), NEW L, Leads(V, w, L),
           NEW q \in Seq(Frames), \A i \in 1..Len(q) : Quiet(q[i])
    PROVE  Leads(V, w \o q, L)
<1>1. PICK F : Follows(V, w, L, F)
  BY DEF Leads
<1>2. PICK n \in Nat, l \in Nat : n = Len(w) /\ l = Len(q)
  BY FramesOf
<1>3. PICK t : t = w \o q
  OBVIOUS
<1>4. Len(t) = n + l /\ (\A i \in 1..n : t[i] = w[i]) /\ \A i \in n + 1..n + l : t[i] = q[i - n]
  BY <1>2, <1>3, ConcatIs
<1>5. /\ F[0] = V /\ F[n] = L
      /\ \A i \in 1..n : F[i] = Sees(F[i - 1], w[i])
      /\ \A i \in 0..n : IsView(F[i])
  BY ONLY <1>1, <1>2, Zenon DEF Follows
<1> DEFINE G == [i \in 0..n + l |-> IF i > n THEN L ELSE F[i]]
<1>7. (\A i \in n..n + l : G[i] = L) /\ \A i \in 0..n : G[i] = F[i]
  BY <1>2, <1>5
<1> HIDE DEF G
<1>8. /\ 0 \in 0..n /\ n \in 0..n /\ n + l \in n..n + l
      /\ \A i \in 0..n + l : i \in n..n + l \/ i \in 0..n
  BY <1>2
<1>9. ASSUME NEW i \in 1..n + l PROVE G[i] = Sees(G[i - 1], t[i])
  <2>1. CASE i > n
    <3>1. i - n \in 1..l /\ i \in n..n + l /\ i - 1 \in n..n + l /\ i \in n + 1..n + l
      BY <2>1
    <3>2. Quiet(t[i])
      BY ONLY <1>2, <1>4, <3>1, \A j \in 1..Len(q) : Quiet(q[j])
    <3>3. Sees(L, t[i]) = L
      BY <3>2, SeesQuiet
    <3> QED BY ONLY <1>7, <3>1, <3>3, Zenon
  <2>2. CASE ~(i > n)
    <3>1. i \in 1..n /\ i \in 0..n /\ i - 1 \in 0..n
      BY <1>2, <2>2
    <3> QED BY ONLY <1>4, <1>5, <1>7, <3>1, Zenon
  <2> QED BY <2>1, <2>2
<1>10. IsView(L)
  BY ONLY <1>5, <1>8, Zenon
<1>11. \A i \in 0..n + l : IsView(G[i])
  BY ONLY <1>5, <1>7, <1>8, <1>10, Zenon
<1>12. Follows(V, t, L, G)
  BY ONLY <1>4, <1>5, <1>7, <1>8, <1>9, <1>11, Zenon DEF Follows
<1> QED BY ONLY <1>3, <1>12, Zenon DEF Leads

LEMMA LeadsTail ==
    ASSUME NEW V, NEW w \in Seq(Frames), w # <<>>, NEW L, Leads(V, w, L)
    PROVE  Leads(Sees(V, Head(w)), Tail(w), L)
<1>1. PICK F : Follows(V, w, L, F)
  BY DEF Leads
<1>2. PICK n \in Nat : n = Len(w)
  BY FramesOf
<1>3. 1 \in 1..n /\ Head(w) = w[1] /\ Tail(w) = After(w, 1)
  BY <1>2, TailIs
<1>4. PICK t : t = Tail(w)
  OBVIOUS
<1>5. Len(t) = n - 1 /\ \A i \in 1..n - 1 : t[i] = w[i + 1]
  <2>1. 1 \in 0..Len(w)
    BY <1>2, <1>3
  <2> QED BY <1>2, <1>3, <1>4, <2>1, AfterIs
<1>6. /\ F[0] = V /\ F[n] = L
      /\ \A i \in 1..n : F[i] = Sees(F[i - 1], w[i])
      /\ \A i \in 0..n : IsView(F[i])
  BY ONLY <1>1, <1>2, Zenon DEF Follows
<1> DEFINE G == [i \in 0..n - 1 |-> F[i + 1]]
<1>7. \A i \in 0..n - 1 : G[i] = F[i + 1]
  OBVIOUS
<1> HIDE DEF G
<1>8. G[0] = Sees(V, Head(w))
  <2>1. 0 \in 0..n - 1 /\ 0 + 1 = 1 /\ 1 - 1 = 0
    BY <1>3
  <2>2. F[1] = Sees(F[1 - 1], w[1])
    BY ONLY <1>3, <1>6, Zenon
  <2> QED BY ONLY <1>3, <1>6, <1>7, <2>1, <2>2, Zenon
<1>9. G[n - 1] = L
  <2>1. n - 1 \in 0..n - 1 /\ n - 1 + 1 = n
    BY <1>3
  <2> QED BY ONLY <1>6, <1>7, <2>1, Zenon
<1>10. ASSUME NEW i \in 1..n - 1 PROVE G[i] = Sees(G[i - 1], t[i])
  <2>1. /\ i \in 0..n - 1 /\ i - 1 \in 0..n - 1 /\ i + 1 \in 1..n
        /\ i - 1 + 1 = i /\ i + 1 - 1 = i
    BY <1>2
  <2>2. F[i + 1] = Sees(F[i + 1 - 1], w[i + 1])
    BY ONLY <1>6, <2>1
  <2> QED BY ONLY <1>5, <1>7, <2>1, <2>2, i \in 1..n - 1, Zenon
<1>11. \A i \in 0..n - 1 : IsView(G[i])
  <2>1. \A i \in 0..n - 1 : i + 1 \in 0..n
    BY <1>2
  <2> QED BY ONLY <1>6, <1>7, <2>1, Zenon
<1>12. Follows(Sees(V, Head(w)), t, L, G)
  BY ONLY <1>5, <1>8, <1>9, <1>10, <1>11, Zenon DEF Follows
<1> QED BY ONLY <1>4, <1>12, Zenon DEF Leads

(***************************************************************************)
(* The invariant of the connection                                          *)
(***************************************************************************)
Wire == out \o h2.queued
Active == pc \in {"bytes", "stream", "wait"}
Stages == {"idle", "connect", "request", "headers", "bytes", "stream", "wait"}
Answered == {"none", "headers", "ended", "reset"}
ServerStreams == [fields : Seq(Requests), size : Nat, ended : BOOLEAN,
                  answer : Answered, sent : Nat]
IsServer(streams) == \E D \in SUBSET Streams : streams \in [D -> ServerStreams]

Typed ==
  /\ pc \in Stages /\ request \in Requests /\ left \in Nat /\ eof \in BOOLEAN
  /\ conn \in [sock : BOOLEAN, stream : {0} \cup Streams, fields : Seq(Requests)]
  /\ h2 \in [next : Nat, queued : Seq(Frames), window : Nat]
  /\ out \in Seq(Frames) /\ in \in Seq(Frames)
  /\ IsServer(server)
  /\ reading \in Readings

(* Where the thread is, what the connection knows, and how streams are      *)
(* numbered: by the requests, and never twice.                              *)
Fresh ==
  h2 = NewH2 /\ out = <<>> /\ in = <<>> /\ server = <<>> /\ eof = FALSE

Numbered(next, number) ==
  \E j \in 0 .. number : /\ next = 2 * j + 1
                         /\ pc \in {"connect", "request", "headers"} => j < number
Placed ==
  /\ conn.fields = IF pc = "headers" THEN <<request>> ELSE <<>>
  /\ pc = "connect" => ~conn.sock
  /\ pc \notin {"idle", "connect"} => conn.sock
  /\ ~conn.sock => Fresh
  /\ Numbered(h2.next, request.number)
  /\ pc = "headers" => conn.stream = h2.next
  /\ Active => conn.stream + 2 = h2.next /\ conn.stream \in Streams
  /\ \A s \in DOMAIN server : s < h2.next
  /\ pc \in {"connect", "request", "headers"} /\ request.body.kind = "stream" =>
       left = request.body.size

(* What is written and what is queued makes whole requests of all streams,  *)
(* and of this one what the thread has sent of it.                          *)
Sent(L) ==
  /\ pc = "bytes" => /\ conn.stream \in DOMAIN L
                     /\ L[conn.stream] = Entry(<<request>>, 0, FALSE)
  /\ pc = "stream" => /\ conn.stream \in DOMAIN L /\ left <= request.body.size
                      /\ L[conn.stream] = Entry(<<request>>, request.body.size - left, FALSE)
Heard == \E L : Leads(View(server), Wire, L) /\ Sent(L)

(* A stream is opened once, and every stream but this one has been answered *)
(* to its end.                                                              *)
NoneOpens(w) == \A i \in 1..Len(w) : w[i].type # "HEADERS"
OpensOnly(w, s) ==
  \A i \in 1..Len(w) : w[i].type = "HEADERS" =>
    w[i].stream = s /\ \A j \in i + 1..Len(w) : w[j].type # "HEADERS"
AllAnswered(streams, but) == \A s \in DOMAIN streams \ but : streams[s].answer = "ended"
InTurn ==
  IF Active
    THEN /\ OpensOnly(Wire, conn.stream)
         /\ conn.stream \in DOMAIN server => NoneOpens(Wire)
         /\ AllAnswered(server, {conn.stream})
    ELSE NoneOpens(Wire) /\ AllAnswered(server, {})

(* What getresponse will have gathered is what the server has sent of this  *)
(* stream; outside of an exchange the server has nothing to tell.           *)
Matches(l, s, streams) ==
  /\ l.ended <=> s \in DOMAIN streams /\ streams[s].answer = "ended"
  /\ l.size = IF s \in DOMAIN streams THEN streams[s].sent ELSE 0
  /\ s \in DOMAIN streams /\ streams[s].answer \in {"headers", "ended"} => l.of = s
AllQuiet(s) == \A i \in 1..Len(s) : Quiet(s[i])
Told ==
  IF Active
    THEN \E l : Tells(reading, in, l) /\ Matches(l, conn.stream, server)
    ELSE AllQuiet(in)

(* What is on its way to the server and what it gives back is not above     *)
(* what the window has lost.                                                *)
InWindow ==
  \E d, c \in Nat : /\ Weighs("DATA", Wire, d) /\ Weighs("WINDOW_UPDATE", in, c)
                    /\ h2.window + d + c <= Window

Http2Inv == Typed /\ Placed /\ Heard /\ InTurn /\ Told /\ InWindow /\ ResponseWhole

(***************************************************************************)
(* Sequences                                                                *)
(***************************************************************************)
LEMMA AppendConcat ==
    ASSUME NEW s \in Seq(Frames), NEW q \in Seq(Frames), NEW f \in Frames
    PROVE  /\ s \o Append(q, f) = Append(s \o q, f) /\ s \o q \in Seq(Frames)
           /\ (s \o Append(q, f)) \o <<>> = Append(s \o q, f)
           /\ s \o Append(q, f) \in Seq(Frames)
<1>1. s \o q \in Seq(Frames) /\ Append(q, f) \in Seq(Frames) /\ <<f>> \in Seq(Frames)
  BY ConcatIs, AppendIs
<1>2. Append(q, f) = q \o <<f>> /\ Append(s \o q, f) = (s \o q) \o <<f>>
  BY <1>1, AppendIsConcat
<1>3. (s \o q) \o <<f>> = s \o (q \o <<f>>)
  BY <1>1, ConcatAssociative
<1>4. s \o Append(q, f) \in Seq(Frames)
  BY <1>1, ConcatIs
<1>5. (s \o Append(q, f)) \o <<>> = s \o Append(q, f)
  BY <1>4, ConcatEmptySeq
<1> QED BY ONLY <1>1, <1>2, <1>3, <1>4, <1>5, Zenon

LEMMA TailConcat ==
    ASSUME NEW s \in Seq(Frames), NEW q \in Seq(Frames), s # <<>>
    PROVE  /\ s \o q \in Seq(Frames) /\ s \o q # <<>>
           /\ Head(s \o q) = Head(s) /\ Head(s) \in Frames
           /\ Tail(s) \in Seq(Frames) /\ Tail(s \o q) = Tail(s) \o q
<1>1. PICK n \in Nat, m \in Nat : n = Len(s) /\ m = Len(q) /\ n # 0
  BY FramesOf, EmptySeq
<1>2. PICK t : t = s \o q
  OBVIOUS
<1>3. t \in Seq(Frames) /\ Len(t) = n + m /\ (\A i \in 1..n : t[i] = s[i])
      /\ \A i \in n + 1..n + m : t[i] = q[i - n]
  BY <1>1, <1>2, ConcatIs
<1>4. t # <<>>
  BY <1>1, <1>3, EmptySeq
<1>5. Head(t) = t[1] /\ Head(s) = s[1] /\ 1 \in 1..n
  BY <1>1, <1>3, <1>4, TailIs
<1>6. Head(t) = Head(s) /\ Head(s) \in Frames
  BY <1>1, <1>3, <1>5, FramesOf
<1>7. PICK u, v : u = Tail(t) /\ v = Tail(s)
  OBVIOUS
<1>8. u \in Seq(Frames) /\ Len(u) = n + m - 1 /\ \A i \in 1..n + m - 1 : u[i] = t[i + 1]
  BY <1>1, <1>3, <1>4, <1>7, HeadTailProperties
<1>9. v \in Seq(Frames) /\ Len(v) = n - 1 /\ \A i \in 1..n - 1 : v[i] = s[i + 1]
  BY <1>1, <1>7, HeadTailProperties
<1>10. PICK x : x = v \o q
  OBVIOUS
<1>11. x \in Seq(Frames) /\ Len(x) = n - 1 + m /\ (\A i \in 1..n - 1 : x[i] = v[i])
      /\ \A i \in n - 1 + 1..n - 1 + m : x[i] = q[i - (n - 1)]
  <2>1. /\ v \o q \in Seq(Frames) /\ Len(v \o q) = Len(v) + Len(q)
        /\ \A i \in 1..Len(v) : (v \o q)[i] = v[i]
        /\ \A i \in Len(v) + 1..Len(v) + Len(q) : (v \o q)[i] = q[i - Len(v)]
    BY <1>9, ConcatIs
  <2> QED BY ONLY <1>1, <1>9, <1>10, <2>1
<1>12. ASSUME NEW i \in 1..n + m - 1 PROVE u[i] = x[i]
  <2>1. CASE i <= n - 1
    <3>1. i \in 1..n - 1 /\ i + 1 \in 1..n
      BY <1>1, <2>1
    <3> QED BY ONLY <1>3, <1>8, <1>9, <1>11, <3>1, i \in 1..n + m - 1, Zenon
  <2>2. CASE ~(i <= n - 1)
    <3>1. /\ i \in n - 1 + 1..n - 1 + m /\ i + 1 \in n + 1..n + m
          /\ i + 1 - n = i - (n - 1)
      BY <1>1, <2>2
    <3>2. u[i] = t[i + 1] /\ t[i + 1] = q[i + 1 - n]
      BY ONLY <1>3, <1>8, <3>1, i \in 1..n + m - 1
    <3>3. x[i] = q[i - (n - 1)]
      BY ONLY <1>11, <3>1
    <3> QED BY ONLY <3>1, <3>2, <3>3, Zenon
  <2> QED BY <2>1, <2>2
<1>13. Len(u) = Len(x) /\ \A i \in 1..Len(u) : u[i] = x[i]
  BY <1>1, <1>8, <1>11, <1>12
<1>14. u = x
  BY ONLY <1>8, <1>11, <1>13, SeqEqual
<1> QED BY ONLY <1>2, <1>3, <1>4, <1>6, <1>7, <1>9, <1>10, <1>14, Zenon

LEMMA QuietAppend ==
    ASSUME NEW s \in Seq(Frames), AllQuiet(s), NEW f \in Frames, Quiet(f)
    PROVE  AllQuiet(Append(s, f))
<1>1. Len(s) \in Nat /\ Len(Append(s, f)) = Len(s) + 1
      /\ (\A i \in 1..Len(s) : Append(s, f)[i] = s[i]) /\ Append(s, f)[Len(s) + 1] = f
  BY FramesOf, AppendIs
<1>2. ASSUME NEW i \in 1..Len(s) + 1 PROVE Quiet(Append(s, f)[i])
  <2>1. CASE i = Len(s) + 1
    BY <1>1, <2>1
  <2>2. CASE i # Len(s) + 1
    <3>1. i \in 1..Len(s)
      BY <1>1, <2>2
    <3> QED BY <1>1, <3>1 DEF AllQuiet
  <2> QED BY <2>1, <2>2
<1> QED BY ONLY <1>1, <1>2, Zenon DEF AllQuiet

LEMMA OpensAppend ==
    ASSUME NEW w \in Seq(Frames), NEW f \in Frames, NEW s
    PROVE  /\ f.type # "HEADERS" /\ NoneOpens(w) => NoneOpens(Append(w, f))
           /\ f.type # "HEADERS" /\ OpensOnly(w, s) => OpensOnly(Append(w, f), s)
           /\ f.stream = s /\ NoneOpens(w) => OpensOnly(Append(w, f), s)
<1>1. PICK n \in Nat : n = Len(w)
  BY FramesOf
<1>2. PICK t : t = Append(w, f)
  OBVIOUS
<1>3. Len(t) = n + 1 /\ (\A i \in 1..n : t[i] = w[i]) /\ t[n + 1] = f
  BY <1>1, <1>2, AppendIs
<1>4. \A i \in 1..n + 1 : i \in 1..n \/ i = n + 1
  OBVIOUS
<1>5. ASSUME f.type # "HEADERS", NoneOpens(w) PROVE NoneOpens(t)
  BY ONLY <1>1, <1>3, <1>4, <1>5, Zenon DEF NoneOpens
<1>6. ASSUME f.type # "HEADERS", OpensOnly(w, s) PROVE OpensOnly(t, s)
  <2> SUFFICES ASSUME NEW i \in 1..n + 1, t[i].type = "HEADERS"
               PROVE  t[i].stream = s /\ \A j \in i + 1..n + 1 : t[j].type # "HEADERS"
    BY <1>3 DEF OpensOnly
  <2>1. i \in 1..n
    BY ONLY <1>3, <1>4, <1>6, t[i].type = "HEADERS", i \in 1..n + 1, Zenon
  <2>2. w[i].type = "HEADERS" /\ t[i] = w[i]
    BY ONLY <1>3, <2>1, t[i].type = "HEADERS", Zenon
  <2>3. w[i].stream = s /\ \A j \in i + 1..n : w[j].type # "HEADERS"
    BY ONLY <1>1, <1>6, <2>1, <2>2, Zenon DEF OpensOnly
  <2>4. ASSUME NEW j \in i + 1..n + 1 PROVE t[j].type # "HEADERS"
    <3>1. j = n + 1 \/ (j \in i + 1..n /\ j \in 1..n)
      BY ONLY <2>1, n \in Nat, j \in i + 1..n + 1
    <3> QED BY ONLY <1>3, <1>6, <2>3, <3>1, Zenon
  <2> QED BY ONLY <2>2, <2>3, <2>4, Zenon
<1>7. ASSUME f.stream = s, NoneOpens(w) PROVE OpensOnly(t, s)
  <2> SUFFICES ASSUME NEW i \in 1..n + 1, t[i].type = "HEADERS"
               PROVE  t[i].stream = s /\ \A j \in i + 1..n + 1 : t[j].type # "HEADERS"
    BY <1>3 DEF OpensOnly
  <2>1. i = n + 1
    BY ONLY <1>1, <1>3, <1>4, <1>7, t[i].type = "HEADERS", i \in 1..n + 1, Zenon DEF NoneOpens
  <2>2. i + 1..n + 1 = {}
    BY <2>1
  <2> QED BY ONLY <1>3, <1>7, <2>1, <2>2, Zenon
<1> QED BY ONLY <1>2, <1>5, <1>6, <1>7, Zenon

LEMMA OpensConcat ==
    ASSUME NEW w \in Seq(Frames), NEW q \in Seq(Frames), AllQuiet(q), NEW s
    PROVE  /\ NoneOpens(w) => NoneOpens(w \o q)
           /\ OpensOnly(w, s) => OpensOnly(w \o q, s)
<1>1. PICK n \in Nat, m \in Nat : n = Len(w) /\ m = Len(q)
  BY FramesOf
<1>2. PICK t : t = w \o q
  OBVIOUS
<1>3. Len(t) = n + m /\ (\A i \in 1..n : t[i] = w[i]) /\ \A i \in n + 1..n + m : t[i] = q[i - n]
  BY <1>1, <1>2, ConcatIs
<1>4. \A i \in 1..n + m : i \in 1..n \/ (i \in n + 1..n + m /\ i - n \in 1..m)
  BY ONLY n \in Nat, m \in Nat
<1>5. \A i \in n + 1..n + m : t[i].type # "HEADERS"
  <2> SUFFICES ASSUME NEW i \in n + 1..n + m PROVE t[i].type # "HEADERS"
    OBVIOUS
  <2>1. i - n \in 1..m
    OBVIOUS
  <2>2. Quiet(q[i - n])
    BY ONLY <1>1, <2>1, AllQuiet(q), Zenon DEF AllQuiet
  <2>3. t[i] = q[i - n]
    BY <1>3
  <2> QED BY <2>2, <2>3 DEF Quiet
<1>6. ASSUME NoneOpens(w) PROVE NoneOpens(t)
  BY ONLY <1>1, <1>3, <1>4, <1>5, <1>6, Zenon DEF NoneOpens
<1>7. ASSUME OpensOnly(w, s) PROVE OpensOnly(t, s)
  <2> SUFFICES ASSUME NEW i \in 1..n + m, t[i].type = "HEADERS"
               PROVE  t[i].stream = s /\ \A j \in i + 1..n + m : t[j].type # "HEADERS"
    BY <1>3 DEF OpensOnly
  <2>1. i \in 1..n
    BY ONLY <1>4, <1>5, t[i].type = "HEADERS", i \in 1..n + m, Zenon
  <2>2. w[i].type = "HEADERS" /\ t[i] = w[i]
    BY ONLY <1>3, <2>1, t[i].type = "HEADERS", Zenon
  <2>3. w[i].stream = s /\ \A j \in i + 1..n : w[j].type # "HEADERS"
    BY ONLY <1>1, <1>7, <2>1, <2>2, Zenon DEF OpensOnly
  <2>4. ASSUME NEW j \in i + 1..n + m PROVE t[j].type # "HEADERS"
    <3>1. j \in n + 1..n + m \/ (j \in i + 1..n /\ j \in 1..n)
      BY ONLY <2>1, n \in Nat, m \in Nat, j \in i + 1..n + m
    <3> QED BY ONLY <1>3, <1>5, <2>3, <3>1, Zenon
  <2> QED BY ONLY <2>2, <2>3, <2>4, Zenon
<1> QED BY ONLY <1>2, <1>6, <1>7, Zenon

LEMMA OpensTail ==
    ASSUME NEW w \in Seq(Frames), w # <<>>, NEW s
    PROVE  /\ NoneOpens(w) => NoneOpens(Tail(w)) /\ Head(w).type # "HEADERS"
           /\ OpensOnly(w, s) => OpensOnly(Tail(w), s)
           /\ OpensOnly(w, s) /\ Head(w).type = "HEADERS" =>
                Head(w).stream = s /\ NoneOpens(Tail(w))
<1>1. PICK n \in Nat : n = Len(w)
  BY FramesOf
<1>2. 1 \in 1..n /\ Head(w) = w[1] /\ Tail(w) = After(w, 1)
  BY <1>1, TailIs
<1>3. PICK t : t = Tail(w)
  OBVIOUS
<1>4. Len(t) = n - 1 /\ \A i \in 1..n - 1 : t[i] = w[i + 1]
  <2>1. 1 \in 0..Len(w)
    BY <1>1, <1>2
  <2> QED BY <1>1, <1>2, <1>3, <2>1, AfterIs
<1>5. \A i \in 1..n - 1 : i + 1 \in 1..n /\ i + 1 \in 1 + 1..n
  OBVIOUS
<1>6. ASSUME NoneOpens(w) PROVE NoneOpens(t) /\ w[1].type # "HEADERS"
  BY ONLY <1>1, <1>2, <1>4, <1>5, <1>6, Zenon DEF NoneOpens
<1>7. ASSUME OpensOnly(w, s) PROVE OpensOnly(t, s)
  <2> SUFFICES ASSUME NEW i \in 1..n - 1, t[i].type = "HEADERS"
               PROVE  t[i].stream = s /\ \A j \in i + 1..n - 1 : t[j].type # "HEADERS"
    BY <1>4 DEF OpensOnly
  <2>1. w[i + 1].type = "HEADERS" /\ t[i] = w[i + 1] /\ i + 1 \in 1..n
    BY ONLY <1>4, <1>5, i \in 1..n - 1, t[i].type = "HEADERS", Zenon
  <2>2. w[i + 1].stream = s /\ \A j \in i + 1 + 1..n : w[j].type # "HEADERS"
    BY ONLY <1>1, <1>7, <2>1, Zenon DEF OpensOnly
  <2>3. ASSUME NEW j \in i + 1..n - 1 PROVE t[j].type # "HEADERS"
    <3>1. j \in 1..n - 1 /\ j + 1 \in i + 1 + 1..n
      OBVIOUS
    <3> QED BY ONLY <1>4, <2>2, <3>1, Zenon
  <2> QED BY ONLY <2>1, <2>2, <2>3, Zenon
<1>8. ASSUME OpensOnly(w, s), w[1].type = "HEADERS" PROVE w[1].stream = s /\ NoneOpens(t)
  <2>1. w[1].stream = s /\ \A j \in 1 + 1..n : w[j].type # "HEADERS"
    BY ONLY <1>1, <1>2, <1>8, Zenon DEF OpensOnly
  <2> QED BY ONLY <1>4, <1>5, <2>1, Zenon DEF NoneOpens
<1> QED BY ONLY <1>2, <1>3, <1>6, <1>7, <1>8, Zenon

(***************************************************************************)
(* What the server makes of a frame                                         *)
(***************************************************************************)
LEMMA RequestIs ==
    ASSUME NEW q \in Requests
    PROVE  /\ q.number \in 0..MaxRequests /\ q.body \in Bodies
           /\ q.body.kind \in {"none", "bytes", "stream"} /\ q.body.size \in Nat
           /\ q.body.kind = "none" => q.body.size = 0
           /\ <<q>> \in Seq(Requests)
<1>1. q.number \in 0..MaxRequests /\ q.body \in Bodies
  BY DEF Requests
<1>2. <<q>> \in Seq(Requests)
  OBVIOUS
<1>3. \A b \in Bodies : /\ b.kind \in {"none", "bytes", "stream"} /\ b.size \in Nat
                        /\ b.kind = "none" => b.size = 0
  BY Http2Assumption
<1> QED BY ONLY <1>1, <1>2, <1>3, Zenon

LEMMA EntryIs ==
    ASSUME NEW q \in Requests, NEW n \in Nat, NEW end \in BOOLEAN, end => n = q.body.size
    PROVE  Entry(<<q>>, n, end) \in WholeRequests
<1>1. <<q>> \in Seq(Requests)
  BY RequestIs
<1>2. Entry(<<q>>, n, end) \in [fields : Seq(Requests), size : Nat, ended : BOOLEAN]
  BY <1>1 DEF Entry
<1>3. /\ Entry(<<q>>, n, end).fields = <<q>> /\ Entry(<<q>>, n, end).size = n
      /\ Entry(<<q>>, n, end).ended = end
  BY DEF Entry
<1>4. IsRequest(Entry(<<q>>, n, end))
  BY ONLY <1>3, q \in Requests, end => n = q.body.size, Zenon DEF IsRequest
<1> QED BY ONLY <1>2, <1>4, Zenon DEF WholeRequests

LEMMA SeesHeaders ==
    ASSUME NEW L, IsView(L), NEW s \in Streams, NEW q \in Requests, NEW end \in BOOLEAN,
           end => 0 = q.body.size, NEW f, f = Headers(s, <<q>>, end)
    PROVE  /\ IsView(Sees(L, f)) /\ s \in DOMAIN Sees(L, f)
           /\ Sees(L, f)[s] = Entry(<<q>>, 0, end)
<1>1. PICK D \in SUBSET Streams : L \in [D -> WholeRequests]
  BY DEF IsView
<1>2. f.type = "HEADERS" /\ f.stream = s /\ f.fields = <<q>> /\ f.end = end
  BY DEF Headers, Frame
<1>3. PICK e : e = Entry(<<q>>, 0, end)
  OBVIOUS
<1>4. e \in WholeRequests
  BY <1>3, EntryIs
<1> DEFINE M == [x \in D \cup {s} |-> IF x = s THEN e ELSE L[x]]
<1>5. Sees(L, f) = M
  <2>1. DOMAIN L = D
    BY <1>1
  <2> QED BY ONLY <1>2, <1>3, <2>1, Zenon DEF Sees
<1>6. M \in [D \cup {s} -> WholeRequests] /\ s \in DOMAIN M /\ M[s] = e
  BY <1>1, <1>4
<1>7. D \cup {s} \in SUBSET Streams
  OBVIOUS
<1> HIDE DEF M
<1> QED BY ONLY <1>3, <1>5, <1>6, <1>7, Zenon DEF IsView

(* A body goes on from n to m.                                              *)
GoesOn(q, n, size, m, end) ==
    q \in Requests /\ n \in Nat /\ size \in Nat /\ end \in BOOLEAN
    /\ m = n + size /\ (end => m = q.body.size)

(* A stream tells of a request, and of n of its body.                       *)
Has(L, s, q, n, end) == IsView(L) /\ s \in DOMAIN L /\ L[s] = Entry(<<q>>, n, end)

LEMMA SeesData ==
    ASSUME NEW L, NEW s, NEW q, NEW n, NEW size, NEW m, NEW end,
           GoesOn(q, n, size, m, end), Has(L, s, q, n, FALSE)
    PROVE  Has(Sees(L, Data(s, size, end)), s, q, m, end)
<1>a. PICK f : f = Data(s, size, end)
  OBVIOUS
<1>b. /\ q \in Requests /\ n \in Nat /\ size \in Nat /\ end \in BOOLEAN
      /\ m = n + size /\ (end => m = q.body.size)
  BY DEF GoesOn
<1>c. s \in DOMAIN L /\ L[s] = Entry(<<q>>, n, FALSE) /\ IsView(L)
  BY DEF Has
<1>1. PICK D \in SUBSET Streams : L \in [D -> WholeRequests]
  BY <1>c DEF IsView
<1>2. f.type = "DATA" /\ f.stream = s /\ f.size = size /\ f.end = end
  BY <1>a DEF Data, Frame
<1>3. PICK e : e = Entry(<<q>>, m, end)
  OBVIOUS
<1>4. e \in WholeRequests
  <2>1. m \in Nat
    BY <1>b
  <2> QED BY ONLY <1>b, <1>3, <2>1, EntryIs
<1>5. DOMAIN L = D /\ s \in D
  BY <1>1, <1>c
<1>6. Entry(L[s].fields, L[s].size + size, end) = e
  <2>1. L[s].fields = <<q>> /\ L[s].size = n
    BY <1>c DEF Entry
  <2> QED BY ONLY <1>b, <1>3, <2>1, Zenon
<1> DEFINE M == [x \in D |-> IF x = s THEN e ELSE L[x]]
           N == [x \in D |-> IF x = s THEN Entry(L[x].fields, L[x].size + f.size, f.end) ELSE L[x]]
<1>7. f.type # "HEADERS"
  BY <1>2
<1>8. Sees(L, f) = N
  BY ONLY <1>2, <1>5, <1>7, Zenon DEF Sees
<1>9. N = M
  BY ONLY <1>2, <1>6, Zenon
<1>10. M \in [D -> WholeRequests] /\ s \in DOMAIN M /\ M[s] = e
  BY <1>1, <1>4, <1>5
<1> HIDE DEF M, N
<1> QED BY ONLY <1>a, <1>3, <1>8, <1>9, <1>10, D \in SUBSET Streams, Zenon DEF IsView, Has

LEMMA ServerIs ==
    ASSUME NEW streams, IsServer(streams)
    PROVE  /\ DOMAIN streams \subseteq Streams
           /\ streams \in [DOMAIN streams -> ServerStreams]
           /\ \A s \in DOMAIN streams :
                /\ streams[s] \in ServerStreams
                /\ streams[s].fields \in Seq(Requests) /\ streams[s].size \in Nat
                /\ streams[s].ended \in BOOLEAN /\ streams[s].sent \in Nat
                /\ streams[s].answer \in Answered
                /\ streams[s] = [fields |-> streams[s].fields, size |-> streams[s].size,
                                 ended |-> streams[s].ended, answer |-> streams[s].answer,
                                 sent |-> streams[s].sent]
<1>1. PICK D \in SUBSET Streams : streams \in [D -> ServerStreams]
  BY DEF IsServer
<1>2. DOMAIN streams = D
  BY <1>1
<1>3. ASSUME NEW x \in ServerStreams
      PROVE  /\ x.fields \in Seq(Requests) /\ x.size \in Nat
             /\ x.ended \in BOOLEAN /\ x.sent \in Nat /\ x.answer \in Answered
             /\ x = [fields |-> x.fields, size |-> x.size, ended |-> x.ended,
                     answer |-> x.answer, sent |-> x.sent]
  BY DEF ServerStreams
<1>4. \A s \in D : streams[s] \in ServerStreams
  BY <1>1
<1> QED BY ONLY <1>1, <1>2, <1>3, <1>4, Zenon

LEMMA NoServer == IsServer(<<>>) /\ IsView(View(<<>>)) /\ DOMAIN <<>> = {}
<1>1. <<>> \in Seq(ServerStreams) /\ Len(<<>>) = 0
  BY EmptySeq
<1>2. <<>> \in [1..0 -> ServerStreams]
  <2>1. <<>> \in [1..Len(<<>>) -> ServerStreams]
    BY ONLY <1>1, LenProperties, Zenon
  <2> QED BY ONLY <1>1, <2>1, Zenon
<1>3. 1..0 = {}
  OBVIOUS
<1>4. <<>> \in [{} -> ServerStreams]
  BY ONLY <1>2, <1>3, Zenon
<1>5. DOMAIN <<>> = {}
  BY ONLY <1>4, Zenon
<1>6. {} \in SUBSET Streams
  OBVIOUS
<1>7. View(<<>>) \in [{} -> WholeRequests]
  BY ONLY <1>5, Zenon DEF View
<1> QED BY ONLY <1>4, <1>5, <1>6, <1>7, Zenon DEF IsServer, IsView

(* Answering changes nothing of what the server has been told.              *)
SameView(x, y) == y.fields = x.fields /\ y.size = x.size /\ y.ended = x.ended
Changed(streams, s, y, after) ==
  /\ View(after) = View(streams) /\ IsServer(after)
  /\ DOMAIN after = DOMAIN streams /\ after[s] = y
  /\ \A r \in DOMAIN streams : r # s => after[r] = streams[r]

LEMMA ViewOfAnswer ==
    ASSUME NEW streams, IsServer(streams), NEW s \in DOMAIN streams, NEW y \in ServerStreams,
           SameView(streams[s], y)
    PROVE  Changed(streams, s, y, [streams EXCEPT ![s] = y])
<1>1. /\ DOMAIN streams \subseteq Streams
      /\ streams \in [DOMAIN streams -> ServerStreams]
  BY ServerIs
<1> DEFINE after == [streams EXCEPT ![s] = y]
<1>2. /\ DOMAIN after = DOMAIN streams /\ after[s] = y
      /\ \A r \in DOMAIN streams : r # s => after[r] = streams[r]
  BY <1>1
<1>3. after \in [DOMAIN streams -> ServerStreams]
  BY <1>1
<1> HIDE DEF after
<1>4. \A r \in DOMAIN streams : /\ after[r].fields = streams[r].fields
                                /\ after[r].size = streams[r].size
                                /\ after[r].ended = streams[r].ended
  BY ONLY <1>2, SameView(streams[s], y), Zenon DEF SameView
<1>5. View(after) = View(streams)
  BY ONLY <1>2, <1>4, Zenon DEF View
<1>6. Changed(streams, s, y, after)
  BY ONLY <1>1, <1>2, <1>3, <1>5, Zenon DEF IsServer, Changed
<1> QED BY <1>6 DEF after

(* What ServerReads makes of the streams.                                   *)
Opened(streams, f) ==
  [s \in DOMAIN streams \cup {f.stream} |-> IF s = f.stream THEN NewStream(f) ELSE streams[s]]
Filled(streams, f) ==
  [streams EXCEPT ![f.stream].size = @ + f.size, ![f.stream].ended = f.end]

LEMMA OpenedIs ==
    ASSUME NEW streams, IsServer(streams), NEW f \in Frames, f.type = "HEADERS",
           f.stream \in Streams
    PROVE  /\ View(Opened(streams, f)) = Sees(View(streams), f)
           /\ IsServer(Opened(streams, f))
           /\ DOMAIN Opened(streams, f) = DOMAIN streams \cup {f.stream}
           /\ Opened(streams, f)[f.stream].answer = "none"
           /\ Opened(streams, f)[f.stream].sent = 0
           /\ \A s \in DOMAIN streams : s # f.stream => Opened(streams, f)[s] = streams[s]
<1>1. /\ DOMAIN streams \subseteq Streams
      /\ streams \in [DOMAIN streams -> ServerStreams]
  BY ServerIs
<1>2. PICK x : x = NewStream(f)
  OBVIOUS
<1>3. /\ x.fields = f.fields /\ x.size = 0 /\ x.ended = f.end
      /\ x.answer = "none" /\ x.sent = 0
  BY <1>2 DEF NewStream
<1>4. x \in ServerStreams
  <2>1. f.fields \in Seq(Requests) /\ f.end \in BOOLEAN
    BY FrameIs
  <2>2. "none" \in Answered /\ 0 \in Nat
    BY DEF Answered
  <2> QED BY ONLY <1>2, <2>1, <2>2 DEF NewStream, ServerStreams
<1>5. PICK o : o = Opened(streams, f)
  OBVIOUS
<1>6. o = [s \in DOMAIN streams \cup {f.stream} |-> IF s = f.stream THEN x ELSE streams[s]]
  BY ONLY <1>2, <1>5, Zenon DEF Opened
<1>7. /\ DOMAIN o = DOMAIN streams \cup {f.stream} /\ o[f.stream] = x
      /\ \A s \in DOMAIN streams : s # f.stream => o[s] = streams[s]
  BY ONLY <1>6, Zenon
<1>8. IsServer(o)
  <2>1. DOMAIN streams \cup {f.stream} \in SUBSET Streams
    BY <1>1
  <2>2. \A s \in DOMAIN streams \cup {f.stream} :
          (IF s = f.stream THEN x ELSE streams[s]) \in ServerStreams
    BY <1>1, <1>4
  <2>3. o \in [DOMAIN streams \cup {f.stream} -> ServerStreams]
    BY ONLY <1>6, <2>2, Zenon
  <2> QED BY ONLY <2>1, <2>3, Zenon DEF IsServer
<1>9. View(o) = Sees(View(streams), f)
  <2>1. View(o) = [s \in DOMAIN streams \cup {f.stream} |->
                     Entry(o[s].fields, o[s].size, o[s].ended)]
    BY ONLY <1>7, Zenon DEF View
  <2>2. /\ DOMAIN View(streams) = DOMAIN streams
        /\ \A s \in DOMAIN streams :
             View(streams)[s] = Entry(streams[s].fields, streams[s].size, streams[s].ended)
    BY ONLY Zenon DEF View
  <2>3. Sees(View(streams), f) =
          [s \in DOMAIN streams \cup {f.stream} |->
             IF s = f.stream THEN Entry(f.fields, 0, f.end) ELSE View(streams)[s]]
    BY ONLY <2>2, f.type = "HEADERS", Zenon DEF Sees
  <2>4. ASSUME NEW s \in DOMAIN streams \cup {f.stream}
        PROVE  Entry(o[s].fields, o[s].size, o[s].ended) =
                 IF s = f.stream THEN Entry(f.fields, 0, f.end) ELSE View(streams)[s]
    <3>1. CASE s = f.stream
      BY ONLY <1>3, <1>7, <3>1, Zenon
    <3>2. CASE s # f.stream
      <4>1. s \in DOMAIN streams
        BY <3>2
      <4> QED BY ONLY <1>7, <2>2, <3>2, <4>1, Zenon
    <3> QED BY <3>1, <3>2
  <2> QED BY ONLY <2>1, <2>3, <2>4, Zenon
<1> QED BY ONLY <1>3, <1>5, <1>7, <1>8, <1>9, Zenon

LEMMA FilledIs ==
    ASSUME NEW streams, IsServer(streams), NEW f \in Frames, f.type = "DATA"
    PROVE  /\ View(Filled(streams, f)) = Sees(View(streams), f)
           /\ IsServer(Filled(streams, f))
           /\ DOMAIN Filled(streams, f) = DOMAIN streams
           /\ \A s \in DOMAIN streams : /\ Filled(streams, f)[s].answer = streams[s].answer
                                        /\ Filled(streams, f)[s].sent = streams[s].sent
<1>1. /\ DOMAIN streams \subseteq Streams
      /\ streams \in [DOMAIN streams -> ServerStreams]
      /\ \A s \in DOMAIN streams :
                /\ streams[s] \in ServerStreams
                /\ streams[s].fields \in Seq(Requests) /\ streams[s].size \in Nat
                /\ streams[s].ended \in BOOLEAN /\ streams[s].sent \in Nat
                /\ streams[s].answer \in Answered
  BY ServerIs
<1>2. f.size \in Nat /\ f.end \in BOOLEAN
  BY FrameIs
<1>3. PICK o : o = Filled(streams, f)
  OBVIOUS
<1>4. o = [streams EXCEPT ![f.stream].size = @ + f.size, ![f.stream].ended = f.end]
  BY <1>3 DEF Filled
<1>5. DOMAIN o = DOMAIN streams
  BY <1>4
<1>6. ASSUME NEW s \in DOMAIN streams
      PROVE  /\ o[s] \in ServerStreams
             /\ o[s].answer = streams[s].answer /\ o[s].sent = streams[s].sent
             /\ o[s].fields = streams[s].fields
             /\ o[s].size = IF s = f.stream THEN streams[s].size + f.size ELSE streams[s].size
             /\ o[s].ended = IF s = f.stream THEN f.end ELSE streams[s].ended
  <2>1. CASE s # f.stream
    <3>1. o[s] = streams[s]
      BY <1>4, <2>1
    <3> QED BY ONLY <1>1, <2>1, <3>1, s \in DOMAIN streams, Zenon
  <2>2. CASE s = f.stream
    <3>1. o[s] = [streams[s] EXCEPT !.size = @ + f.size, !.ended = f.end]
      BY <1>4, <2>2
    <3>2. streams[s] \in ServerStreams
      BY <1>1
    <3>3. /\ o[s] \in ServerStreams
          /\ o[s].answer = streams[s].answer /\ o[s].sent = streams[s].sent
          /\ o[s].fields = streams[s].fields
          /\ o[s].size = streams[s].size + f.size /\ o[s].ended = f.end
      <4>1. PICK x, y : x = streams[s] /\ y = o[s]
        OBVIOUS
      <4>2. PICK n \in Nat : n = x.size + f.size
        BY <1>1, <1>2, <4>1
      <4>3. PICK e \in BOOLEAN : e = f.end
        BY <1>2
      <4>4. x \in ServerStreams /\ y = [x EXCEPT !.size = n, !.ended = e]
        BY ONLY <3>1, <3>2, <4>1, <4>2, <4>3, Zenon
      <4>5. /\ y \in ServerStreams
            /\ y.answer = x.answer /\ y.sent = x.sent /\ y.fields = x.fields
            /\ y.size = n /\ y.ended = e
        BY ONLY <4>4, n \in Nat, e \in BOOLEAN DEF ServerStreams
      <4> QED BY ONLY <4>1, <4>2, <4>3, <4>5, Zenon
    <3> QED BY ONLY <2>2, <3>3, Zenon
  <2> QED BY <2>1, <2>2
<1>7. IsServer(o)
  <2>1. o \in [DOMAIN streams -> ServerStreams]
    BY <1>4, <1>5, <1>6
  <2> QED BY ONLY <1>1, <2>1 DEF IsServer
<1>8. View(o) = Sees(View(streams), f)
  <2>1. View(o) = [s \in DOMAIN streams |-> Entry(o[s].fields, o[s].size, o[s].ended)]
    BY ONLY <1>5, Zenon DEF View
  <2>2. /\ DOMAIN View(streams) = DOMAIN streams
        /\ \A s \in DOMAIN streams :
             View(streams)[s] = Entry(streams[s].fields, streams[s].size, streams[s].ended)
    BY ONLY Zenon DEF View
  <2>3. ASSUME NEW s \in DOMAIN streams
        PROVE  View(streams)[s].fields = streams[s].fields /\ View(streams)[s].size = streams[s].size
    BY ONLY <2>2, s \in DOMAIN streams DEF Entry
  <2>4. Sees(View(streams), f) =
          [s \in DOMAIN streams |->
             IF s = f.stream
               THEN Entry(View(streams)[s].fields, View(streams)[s].size + f.size, f.end)
               ELSE View(streams)[s]]
    <3>1. f.type # "HEADERS"
      BY f.type = "DATA"
    <3> QED BY ONLY <2>2, <3>1, f.type = "DATA", Zenon DEF Sees
  <2>5. ASSUME NEW s \in DOMAIN streams
        PROVE  Entry(o[s].fields, o[s].size, o[s].ended) =
             IF s = f.stream
               THEN Entry(View(streams)[s].fields, View(streams)[s].size + f.size, f.end)
               ELSE View(streams)[s]
    BY ONLY <1>6, <2>2, <2>3, s \in DOMAIN streams, Zenon
  <2> QED BY ONLY <2>1, <2>4, <2>5, Zenon
<1> QED BY ONLY <1>3, <1>5, <1>6, <1>7, <1>8, Zenon

(***************************************************************************)
(* A new connection                                                         *)
(***************************************************************************)
LEMMA NewIs ==
    /\ NewH2.next = 1 /\ NewH2.queued = <<>> /\ NewH2.window = Window
    /\ NewH2 \in [next : Nat, queued : Seq(Frames), window : Nat]
    /\ NewConn.sock = FALSE /\ NewConn.stream = 0 /\ NewConn.fields = <<>>
    /\ NewConn \in [sock : BOOLEAN, stream : {0} \cup Streams, fields : Seq(Requests)]
    /\ NotReading \in Readings /\ NotReading.of = 0 /\ NotReading.size = 0
    /\ NotReading.ended = FALSE
<1>1. Window \in Nat /\ <<>> \in Seq(Frames) /\ <<>> \in Seq(Requests)
  BY Http2Assumption, EmptySeq
<1> QED BY ONLY <1>1 DEF NewH2, NewConn, NotReading, Readings

LEMMA NothingQuiet == \A s : AllQuiet(<<>>) /\ NoneOpens(<<>>) /\ OpensOnly(<<>>, s)
<1>1. Len(<<>>) = 0 /\ 1..0 = {}
  BY EmptySeq
<1> QED BY ONLY <1>1, Zenon DEF AllQuiet, NoneOpens, OpensOnly

LEMMA FreshInv ==
    Typed /\ Placed /\ Fresh /\ pc \in {"idle", "connect"} /\ ResponseWhole => Http2Inv
<1> SUFFICES ASSUME Typed, Placed, Fresh, pc \in {"idle", "connect"}
             PROVE  Heard /\ InTurn /\ Told /\ InWindow
  BY DEF Http2Inv
<1>1. Wire = <<>>
  <2>1. <<>> \in Seq(Frames)
    BY EmptySeq
  <2>2. <<>> \o <<>> = <<>>
    BY <2>1, ConcatEmptySeq
  <2> QED BY ONLY <2>2, Fresh, NewIs, Zenon DEF Wire, Fresh
<1>2. in = <<>> /\ server = <<>> /\ h2.window = Window
  BY ONLY Fresh, NewIs, Zenon DEF Fresh
<1>3. ~Active /\ pc # "bytes" /\ pc # "stream"
  BY DEF Active
<1>4. Heard
  <2>1. Leads(View(server), Wire, View(server))
    BY ONLY <1>1, <1>2, NoServer, LeadsNothing, Zenon
  <2>2. Sent(View(server))
    BY ONLY <1>3, Zenon DEF Sent
  <2> QED BY ONLY <2>1, <2>2, Zenon DEF Heard
<1>5. InTurn
  BY ONLY <1>1, <1>2, <1>3, NothingQuiet, NoServer, Zenon DEF InTurn, AllAnswered
<1>6. Told
  BY ONLY <1>2, <1>3, NothingQuiet, Zenon DEF Told
<1>7. InWindow
  <2>1. Weighs("DATA", Wire, 0) /\ Weighs("WINDOW_UPDATE", in, 0)
    BY ONLY <1>1, <1>2, WeighsNothing, Zenon
  <2>2. 0 \in Nat /\ h2.window + 0 + 0 <= Window
    BY <1>2, Http2Assumption
  <2> QED BY ONLY <2>1, <2>2, Zenon DEF InWindow
<1> QED BY <1>4, <1>5, <1>6, <1>7

LEMMA NumberedNew == ASSUME NEW number \in Nat, pc \notin {"connect", "request", "headers"}
                     PROVE  Numbered(1, number)
BY DEF Numbered

LEMMA Http2InitInv == Init => Http2Inv
<1> SUFFICES ASSUME Init PROVE Http2Inv
  OBVIOUS
<1>1. /\ pc = "idle" /\ left = 0 /\ request \in [number : {0}, body : Bodies]
      /\ conn = NewConn /\ h2 = NewH2 /\ out = <<>> /\ in = <<>> /\ server = <<>>
      /\ eof = FALSE /\ reading = NotReading
      /\ response = [request |-> 0, stream |-> 0, of |-> 0, size |-> 0, sent |-> 0]
  BY DEF Init
<1>2. request \in Requests /\ request.number = 0
  BY <1>1, Http2Assumption DEF Requests
<1>3. Fresh
  BY <1>1 DEF Fresh
<1>4. Typed
  <2>1. pc \in Stages /\ left \in Nat /\ eof \in BOOLEAN
    BY <1>1 DEF Stages
  <2>2. <<>> \in Seq(Frames)
    BY EmptySeq
  <2> QED BY ONLY <1>1, <1>2, <2>1, <2>2, NewIs, NoServer, Zenon DEF Typed
<1>5. Placed
  <2>1. /\ pc # "connect" /\ pc # "request" /\ pc # "headers" /\ pc = "idle"
        /\ pc \notin {"connect", "request", "headers"} /\ ~Active
    BY <1>1 DEF Active
  <2>2. Numbered(h2.next, request.number)
    <3>1. Numbered(1, 0)
      BY <2>1, NumberedNew
    <3> QED BY ONLY <1>1, <1>2, <3>1, NewIs, Zenon
  <2> QED BY ONLY <1>1, <1>3, <2>1, <2>2, NewIs, NoServer, Zenon DEF Placed
<1>6. ResponseWhole
  BY <1>1 DEF ResponseWhole
<1> QED BY ONLY <1>1, <1>3, <1>4, <1>5, <1>6, FreshInv

LEMMA ConnIs ==
    ASSUME Typed
    PROVE  /\ conn = [sock |-> conn.sock, stream |-> conn.stream, fields |-> conn.fields]
           /\ conn.sock \in BOOLEAN /\ conn.stream \in {0} \cup Streams
           /\ conn.stream \in Nat /\ conn.fields \in Seq(Requests)
<1>1. conn \in [sock : BOOLEAN, stream : {0} \cup Streams, fields : Seq(Requests)]
  BY DEF Typed
<1>2. /\ conn = [sock |-> conn.sock, stream |-> conn.stream, fields |-> conn.fields]
      /\ conn.sock \in BOOLEAN /\ conn.stream \in {0} \cup Streams
      /\ conn.fields \in Seq(Requests)
  BY <1>1
<1> QED BY <1>2, StreamIs

LEMMA H2Is ==
    ASSUME Typed
    PROVE  /\ h2 = [next |-> h2.next, queued |-> h2.queued, window |-> h2.window]
           /\ h2.next \in Nat /\ h2.queued \in Seq(Frames) /\ h2.window \in Nat
           /\ Wire \in Seq(Frames) /\ out \in Seq(Frames) /\ in \in Seq(Frames)
<1>1. h2 \in [next : Nat, queued : Seq(Frames), window : Nat]
  BY DEF Typed
<1>2. /\ h2 = [next |-> h2.next, queued |-> h2.queued, window |-> h2.window]
      /\ h2.next \in Nat /\ h2.queued \in Seq(Frames) /\ h2.window \in Nat
  BY <1>1
<1>3. out \in Seq(Frames) /\ in \in Seq(Frames)
  BY DEF Typed
<1> QED BY ONLY <1>2, <1>3, ConcatIs, Zenon DEF Wire

LEMMA ClosedInv ==
    ASSUME Typed, ResponseWhole, Close, pc' \in {"idle", "connect"},
           request' \in Requests, left' \in Nat, UNCHANGED response,
           pc' = "connect" =>
             request'.number > 0 /\ (request'.body.kind = "stream" => left' = request'.body.size)
    PROVE  Http2Inv'
<1>1. /\ conn' = NewConn /\ h2' = NewH2 /\ out' = <<>> /\ in' = <<>> /\ server' = <<>>
      /\ eof' = FALSE /\ reading' = NotReading
  BY DEF Close
<1>2. Fresh'
  BY <1>1, Zenon DEF Fresh, NewH2
<1>3. Typed'
  <2>1. pc' \in Stages /\ eof' \in BOOLEAN
    BY <1>1 DEF Stages
  <2>2. <<>> \in Seq(Frames)
    BY EmptySeq
  <2>3. (IsServer(server))'
    BY ONLY <1>1, NoServer, Zenon DEF IsServer
  <2> QED BY ONLY <1>1, <2>1, <2>2, <2>3, NewIs, request' \in Requests, left' \in Nat, Zenon
          DEF Typed
<1>4. Placed'
  <2>1. /\ pc' # "request" /\ pc' # "headers" /\ (pc' = "idle" \/ pc' = "connect")
        /\ pc' \notin {"request", "headers"} /\ ~Active'
    BY DEF Active
  <2>2. (Numbered(h2.next, request.number))'
    <3>1. request'.number \in Nat
      BY RequestIs
    <3>2. h2'.next = 1
      BY ONLY <1>1, NewIs, Zenon
    <3>3. 0 \in 0..request'.number /\ h2'.next = 2 * 0 + 1
          /\ (pc' \in {"connect", "request", "headers"} => 0 < request'.number)
      BY <2>1, <3>1, <3>2
    <3> QED BY ONLY <3>3, Zenon DEF Numbered
  <2>3. pc' \in {"connect", "request", "headers"} => pc' = "connect"
    BY <2>1
  <2> QED BY ONLY <1>1, <1>2, <2>1, <2>2, <2>3, NewIs, NoServer, Zenon,
             pc' = "connect" =>
               request'.number > 0 /\ (request'.body.kind = "stream" => left' = request'.body.size)
          DEF Placed
<1>5. ResponseWhole'
  BY DEF ResponseWhole
<1>6. (Typed /\ Placed /\ Fresh /\ pc \in {"idle", "connect"} /\ ResponseWhole => Http2Inv)'
  BY FreshInv, PTL
<1> QED BY ONLY <1>2, <1>3, <1>4, <1>5, <1>6, pc' \in {"idle", "connect"}, Zenon

LEMMA FailInv == ASSUME Http2Inv, Fail PROVE Http2Inv'
<1>1. Typed /\ ResponseWhole /\ Close /\ pc' = "idle" /\ UNCHANGED <<request, left, response>>
  BY DEF Http2Inv, Fail
<1>2. request' \in Requests /\ left' \in Nat /\ response' = response
      /\ pc' \in {"idle", "connect"} /\ pc' # "connect"
  BY <1>1 DEF Typed
<1> QED BY ONLY <1>1, <1>2, ClosedInv

(***************************************************************************)
(* Between two exchanges                                                    *)
(***************************************************************************)
LEMMA BetweenInv ==
    ASSUME Http2Inv, ~Active, ~Active', UNCHANGED <<h2, out, in, server>>
    PROVE  Heard' /\ InTurn' /\ Told' /\ InWindow'
<1>1. Heard /\ InTurn /\ Told /\ InWindow
  BY DEF Http2Inv
<1>2. h2' = h2 /\ out' = out /\ in' = in /\ server' = server
  OBVIOUS
<1>3. Wire' = Wire /\ View(server)' = View(server)
  BY ONLY <1>2, Zenon DEF Wire, View
<1>4. pc' # "bytes" /\ pc' # "stream"
  BY DEF Active
<1>5. Heard'
  <2>1. PICK L : Leads(View(server), Wire, L)
    BY <1>1 DEF Heard
  <2>2. Sent(L)'
    BY ONLY <1>4, Zenon DEF Sent
  <2>3. Leads(View(server)', Wire', L)
    BY ONLY <1>3, <2>1, Zenon
  <2> QED BY ONLY <2>2, <2>3, Zenon DEF Heard
<1>6. InTurn'
  BY ONLY <1>1, <1>2, <1>3, ~Active, ~Active', Zenon DEF InTurn
<1>7. Told'
  BY ONLY <1>1, <1>2, ~Active, ~Active', Zenon DEF Told
<1>8. InWindow'
  BY ONLY <1>1, <1>2, <1>3, Zenon DEF InWindow
<1> QED BY <1>5, <1>6, <1>7, <1>8

LEMMA NumberedIs ==
    ASSUME NEW next, NEW number \in Nat, Numbered(next, number)
    PROVE  /\ next \in Nat
           /\ pc \notin {"connect", "request", "headers"} => next <= 2 * number + 1
           /\ pc \in {"connect", "request", "headers"} => next <= 2 * number - 1
<1>1. PICK j \in 0..number : /\ next = 2 * j + 1
                             /\ pc \in {"connect", "request", "headers"} => j < number
  BY DEF Numbered
<1>2. j \in Nat /\ j <= number
  OBVIOUS
<1> QED BY ONLY <1>1, <1>2, number \in Nat

LEMMA UrlopenInv == ASSUME Http2Inv, NEW body \in Bodies, Urlopen(body) PROVE Http2Inv'
<1>1. Typed /\ Placed /\ ResponseWhole
  BY DEF Http2Inv
<1>2. /\ pc = "idle" /\ request.number < MaxRequests
      /\ request' = [number |-> request.number + 1, body |-> body]
      /\ left' = IF body.kind = "stream" THEN body.size ELSE 0
      /\ response' = response
  BY DEF Urlopen
<1>3. request.number \in Nat /\ MaxRequests \in Nat
  <2>1. request \in Requests
    BY <1>1 DEF Typed
  <2> QED BY <2>1, Http2Assumption, RequestIs
<1>4. /\ request' \in Requests /\ request'.number = request.number + 1
      /\ request'.body = body /\ body.size \in Nat
  <2>1. request.number + 1 \in 0..MaxRequests
    BY <1>2, <1>3
  <2>2. request' \in Requests /\ request'.number = request.number + 1 /\ request'.body = body
    BY <1>2, <2>1 DEF Requests
  <2>3. body.size \in Nat
    BY Http2Assumption
  <2> QED BY <2>2, <2>3
<1>5. left' \in Nat /\ (request'.body.kind = "stream" => left' = request'.body.size)
  BY <1>2, <1>4
<1>6. request'.number > 0
  BY <1>3, <1>4
<1>7. CASE conn.sock /\ (in # <<>> \/ eof)
  <2>1. Close /\ pc' = "connect"
    BY <1>7 DEF Urlopen
  <2>2. pc' \in {"idle", "connect"}
    BY <2>1
  <2> QED BY ONLY <1>1, <1>2, <1>4, <1>5, <1>6, <2>1, <2>2, ClosedInv
<1>8. CASE ~(conn.sock /\ (in # <<>> \/ eof))
  <2>1. /\ pc' = IF conn.sock THEN "request" ELSE "connect"
        /\ UNCHANGED <<conn, h2, out, in, server, eof, reading>>
    BY <1>8 DEF Urlopen
  <2>2. conn.sock \in BOOLEAN /\ conn.fields = <<>> /\ (~conn.sock => Fresh)
        /\ Numbered(h2.next, request.number) /\ \A s \in DOMAIN server : s < h2.next
    <3>1. conn.sock \in BOOLEAN
      BY <1>1, ConnIs
    <3> QED BY <1>1, <1>2, <3>1 DEF Placed
  <2>3. /\ conn' = conn /\ h2' = h2 /\ out' = out /\ in' = in /\ server' = server
        /\ eof' = eof /\ reading' = reading
    BY <2>1
  <2>4. /\ pc' \in {"request", "connect"} /\ pc' # "headers" /\ pc' \in Stages
        /\ (pc' = "connect" => ~conn.sock) /\ (pc' \notin {"idle", "connect"} => conn.sock)
        /\ ~Active /\ ~Active'
    BY <1>2, <2>1, <2>2 DEF Active, Stages
  <2>5. Typed'
    <3>1. (IsServer(server))'
      BY ONLY <1>1, <2>3, Zenon DEF Typed, IsServer
    <3> QED BY ONLY <1>1, <1>4, <1>5, <2>3, <2>4, <3>1, Zenon DEF Typed
  <2>6. Placed'
    <3>1. PICK j \in 0..request.number : h2.next = 2 * j + 1
      BY <2>2 DEF Numbered
    <3>2. j \in 0..request'.number /\ h2'.next = 2 * j + 1 /\ j < request'.number
      BY ONLY <1>3, <1>4, <2>3, <3>1
    <3>3. Numbered(h2.next, request.number)'
      BY ONLY <3>2, Zenon DEF Numbered
    <3>4. (~conn.sock => Fresh)'
      BY ONLY <2>2, <2>3, Zenon DEF Fresh, NewH2
    <3> QED BY ONLY <1>5, <2>2, <2>3, <2>4, <3>3, <3>4, Zenon DEF Placed
  <2>7. Heard' /\ InTurn' /\ Told' /\ InWindow'
    BY ONLY Http2Inv, <2>3, <2>4, BetweenInv
  <2>8. ResponseWhole'
    BY <1>1, <1>2 DEF ResponseWhole
  <2> QED BY ONLY <2>5, <2>6, <2>7, <2>8, Zenon DEF Http2Inv
<1> QED BY <1>7, <1>8

LEMMA ConnectInv == ASSUME Http2Inv, Connect PROVE Http2Inv'
<1>1. Typed /\ Placed /\ ResponseWhole
  BY DEF Http2Inv
<1>2. /\ pc = "connect" /\ conn' = [conn EXCEPT !.sock = TRUE]
      /\ out' = Append(h2.queued, Settings) /\ h2' = [h2 EXCEPT !.queued = <<>>]
      /\ pc' = "request" /\ request' = request /\ left' = left /\ in' = in
      /\ server' = server /\ eof' = eof /\ reading' = reading /\ response' = response
  BY DEF Connect
<1>3. Fresh /\ conn.fields = <<>>
  BY <1>1, <1>2 DEF Placed
<1>4. /\ conn' \in [sock : BOOLEAN, stream : {0} \cup Streams, fields : Seq(Requests)]
      /\ conn'.sock = TRUE /\ conn'.fields = <<>>
  BY <1>1, <1>2, <1>3 DEF Typed
<1>5. h2 = NewH2 /\ out = <<>> /\ in = <<>> /\ server = <<>> /\ eof = FALSE
  BY <1>3 DEF Fresh
<1>6. h2' = NewH2 /\ out' = Append(<<>>, Settings) /\ in' = <<>> /\ server' = <<>>
  BY <1>2, <1>5 DEF NewH2
<1>7. <<>> \in Seq(Frames) /\ Settings \in Frames /\ Quiet(Settings) /\ Settings.type # "HEADERS"
  BY FramesAre, EmptySeq DEF Quiet
<1>8. out' \in Seq(Frames) /\ Wire' = Append(<<>>, Settings)
  <2>1. out' \in Seq(Frames)
    BY <1>6, <1>7, AppendIs
  <2>2. out' \o <<>> = out'
    BY <2>1, ConcatEmptySeq
  <2> QED BY ONLY <1>6, <2>1, <2>2, NewIs, Zenon DEF Wire
<1>9. /\ pc' # "idle" /\ pc' # "headers" /\ pc' # "connect" /\ pc' \in Stages
      /\ pc' # "bytes" /\ pc' # "stream" /\ pc' \in {"connect", "request", "headers"}
      /\ ~Active'
  BY <1>2 DEF Active, Stages
<1>10. Typed'
  <2>1. (IsServer(server))'
    BY ONLY <1>1, <1>2, Zenon DEF Typed, IsServer
  <2> QED BY ONLY <1>1, <1>2, <1>4, <1>6, <1>8, <1>9, <2>1, NewIs, Zenon DEF Typed
<1>11. Placed'
  <2>1. Numbered(h2.next, request.number)'
    <3>1. Numbered(h2.next, request.number)
      BY <1>1 DEF Placed
    <3>2. pc \in {"connect", "request", "headers"} /\ h2'.next = h2.next
      BY <1>2, <1>5, <1>6
    <3> QED BY ONLY <1>2, <3>1, <3>2, Zenon DEF Numbered
  <2>2. request.body.kind = "stream" => left = request.body.size
    BY <1>1, <1>2 DEF Placed
  <2> QED BY ONLY <1>2, <1>4, <1>6, <1>9, <2>1, <2>2, NoServer, Zenon DEF Placed
<1>12. Heard'
  <2>1. Leads(View(<<>>), <<>>, View(<<>>))
    BY NoServer, LeadsNothing
  <2>2. Sees(View(<<>>), Settings) = View(<<>>)
    BY <1>7, SeesQuiet
  <2>3. IsView(Sees(View(<<>>), Settings))
    BY ONLY <2>2, NoServer, Zenon
  <2>4. Leads(View(<<>>), Append(<<>>, Settings), Sees(View(<<>>), Settings))
    BY ONLY <1>7, <2>1, <2>3, LeadsAppend, Zenon
  <2>5. View(server)' = View(<<>>)
    BY ONLY <1>6, Zenon DEF View
  <2>6. Leads(View(server)', Wire', Sees(View(<<>>), Settings))
    BY ONLY <1>8, <2>4, <2>5, Zenon
  <2>7. \A L : Sent(L)'
    BY ONLY <1>9, Zenon DEF Sent
  <2> QED BY ONLY <2>6, <2>7, Zenon DEF Heard
<1>13. InTurn'
  <2>1. NoneOpens(Append(<<>>, Settings))
    BY ONLY <1>7, NothingQuiet, OpensAppend
  <2> QED BY ONLY <1>6, <1>8, <1>9, <2>1, NoServer, Zenon DEF InTurn, AllAnswered
<1>14. Told'
  BY ONLY <1>6, <1>9, NothingQuiet, Zenon DEF Told
<1>15. InWindow'
  <2>1. Weight("DATA", Settings) = 0
    BY <1>7 DEF Weight, Quiet
  <2>2. Weighs("DATA", <<>>, 0) /\ Weighs("WINDOW_UPDATE", <<>>, 0)
    BY WeighsNothing
  <2>3. Weighs("DATA", Append(<<>>, Settings), 0 + Weight("DATA", Settings))
    BY ONLY <1>7, <2>2, WeighsAppend
  <2>4. 0 + Weight("DATA", Settings) = 0 /\ 0 \in Nat
    BY <2>1
  <2>5. Weighs("DATA", Wire', 0) /\ Weighs("WINDOW_UPDATE", in', 0)
    BY ONLY <1>6, <1>8, <2>2, <2>3, <2>4, Zenon
  <2>6. h2'.window + 0 + 0 <= Window
    BY <1>6, NewIs, Http2Assumption
  <2> QED BY ONLY <2>4, <2>5, <2>6, Zenon DEF InWindow
<1>16. ResponseWhole'
  BY <1>1, <1>2 DEF ResponseWhole
<1> QED BY ONLY <1>10, <1>11, <1>12, <1>13, <1>14, <1>15, <1>16, Zenon DEF Http2Inv

LEMMA PutRequestInv == ASSUME Http2Inv, PutRequest PROVE Http2Inv'
<1>1. Typed /\ Placed /\ ResponseWhole
  BY DEF Http2Inv
<1>2. /\ pc = "request"
      /\ conn' = [conn EXCEPT !.fields = Append(@, request), !.stream = h2.next]
      /\ pc' = "headers" /\ request' = request /\ left' = left /\ h2' = h2 /\ out' = out
      /\ in' = in /\ server' = server /\ eof' = eof /\ reading' = reading
      /\ response' = response
  BY DEF PutRequest
<1>3. /\ conn.fields = <<>> /\ conn.sock /\ Numbered(h2.next, request.number)
      /\ (\A s \in DOMAIN server : s < h2.next)
      /\ (request.body.kind = "stream" => left = request.body.size)
  BY <1>1, <1>2 DEF Placed
<1>4. request \in Requests /\ request.number \in 0..MaxRequests /\ MaxRequests \in Nat
  <2>1. request \in Requests
    BY <1>1 DEF Typed
  <2> QED BY <2>1, Http2Assumption, RequestIs
<1>5. h2.next \in Streams
  <2>1. PICK j \in 0..request.number : h2.next = 2 * j + 1 /\ j < request.number
    BY <1>2, <1>3 DEF Numbered
  <2>2. j + 1 \in 1..MaxRequests /\ h2.next = 2 * (j + 1) - 1
    BY ONLY <1>4, <2>1
  <2> QED BY ONLY <2>2, Zenon DEF Streams
<1>6. Append(<<>>, request) = <<request>> /\ <<request>> \in Seq(Requests)
  BY <1>4, RequestIs
<1>7. conn' = [conn EXCEPT !.fields = <<request>>, !.stream = h2.next]
  BY ONLY <1>2, <1>3, <1>6, Zenon
<1>8. /\ conn' \in [sock : BOOLEAN, stream : {0} \cup Streams, fields : Seq(Requests)]
      /\ conn'.sock = conn.sock /\ conn'.fields = <<request>> /\ conn'.stream = h2.next
  <2>1. PICK f, s : f = <<request>> /\ s = h2.next /\ f \in Seq(Requests) /\ s \in Streams
    BY <1>5, <1>6
  <2>2. conn' = [conn EXCEPT !.fields = f, !.stream = s]
    BY ONLY <1>7, <2>1, Zenon
  <2>3. conn \in [sock : BOOLEAN, stream : {0} \cup Streams, fields : Seq(Requests)]
    BY <1>1 DEF Typed
  <2>4. /\ conn' \in [sock : BOOLEAN, stream : {0} \cup Streams, fields : Seq(Requests)]
        /\ conn'.sock = conn.sock /\ conn'.fields = f /\ conn'.stream = s
    BY ONLY <2>1, <2>2, <2>3
  <2> QED BY ONLY <2>1, <2>4, Zenon
<1>9. /\ pc' # "connect" /\ pc' \in Stages /\ ~Active /\ ~Active'
      /\ pc' \in {"connect", "request", "headers"} /\ pc \in {"connect", "request", "headers"}
  BY <1>2 DEF Active, Stages
<1>10. Typed'
  <2>1. (IsServer(server))'
    BY ONLY <1>1, <1>2, Zenon DEF Typed, IsServer
  <2> QED BY ONLY <1>1, <1>2, <1>8, <1>9, <2>1, Zenon DEF Typed
<1>11. Placed'
  <2>1. Numbered(h2.next, request.number)'
    BY ONLY <1>2, <1>3, <1>9, Zenon DEF Numbered
  <2> QED BY ONLY <1>2, <1>3, <1>8, <1>9, <2>1, Zenon DEF Placed
<1>12. Heard' /\ InTurn' /\ Told' /\ InWindow'
  BY ONLY Http2Inv, <1>2, <1>9, BetweenInv
<1>13. ResponseWhole'
  BY <1>1, <1>2 DEF ResponseWhole
<1> QED BY ONLY <1>10, <1>11, <1>12, <1>13, Zenon DEF Http2Inv

(***************************************************************************)
(* A request on its way                                                     *)
(***************************************************************************)
LEMMA EndHeadersInv == ASSUME Http2Inv, EndHeaders PROVE Http2Inv'
<1>1. Typed /\ Placed /\ ResponseWhole
  BY DEF Http2Inv
<1> DEFINE isEnd == request.body.kind = "none"
<1>0. PICK end \in BOOLEAN : end <=> isEnd
  OBVIOUS
<1>a. PICK f : f = Headers(conn.stream, conn.fields, end)
  OBVIOUS
<1>b. end = isEnd
  BY <1>0
<1>2. /\ pc = "headers" /\ out' = out \o Append(h2.queued, f)
      /\ h2' = [h2 EXCEPT !.queued = <<>>, !.next = conn.stream + 2]
      /\ pc' = (IF end THEN "wait" ELSE request.body.kind)
      /\ conn' = [conn EXCEPT !.fields = <<>>] /\ reading' = NotReading
      /\ request' = request /\ left' = left /\ in' = in
      /\ server' = server /\ eof' = eof /\ response' = response
  <2>1. /\ pc = "headers"
        /\ out' = out \o Append(h2.queued, Headers(conn.stream, conn.fields, isEnd))
        /\ h2' = [h2 EXCEPT !.queued = <<>>, !.next = conn.stream + 2]
        /\ pc' = (IF isEnd THEN "wait" ELSE request.body.kind)
        /\ conn' = [conn EXCEPT !.fields = <<>>] /\ reading' = NotReading
        /\ request' = request /\ left' = left /\ in' = in
        /\ server' = server /\ eof' = eof /\ response' = response
    BY DEF EndHeaders
  <2> QED BY ONLY <1>a, <1>b, <2>1, Zenon
<1>3. /\ conn.fields = <<request>> /\ conn.sock /\ Numbered(h2.next, request.number)
      /\ conn.stream = h2.next /\ (\A s \in DOMAIN server : s < h2.next)
      /\ (request.body.kind = "stream" => left = request.body.size)
  BY <1>1, <1>2 DEF Placed
<1>4. request \in Requests /\ left \in Nat
  BY <1>1 DEF Typed
<1>5. /\ request.number \in Nat /\ request.body.kind \in {"none", "bytes", "stream"}
      /\ request.body.size \in Nat /\ (end => 0 = request.body.size) /\ <<request>> \in Seq(Requests)
  BY <1>0, <1>4, RequestIs
<1>6. PICK j \in 0..request.number : h2.next = 2 * j + 1 /\ j < request.number
  BY <1>2, <1>3 DEF Numbered
<1>7. /\ conn.stream \in Streams /\ conn.stream \in Nat /\ conn.stream + 2 \in Nat
      /\ conn.stream + 2 = 2 * (j + 1) + 1 /\ j + 1 \in 0..request.number
      /\ \A s \in DOMAIN server : s < conn.stream + 2 /\ s # conn.stream
  <2>1. conn.stream \in {0} \cup Streams /\ conn.stream \in Nat
    BY <1>1, ConnIs
  <2>2. conn.stream # 0 /\ conn.stream = 2 * j + 1
    BY <1>3, <1>5, <1>6
  <2>3. \A s \in DOMAIN server : s \in Nat
    BY <1>1, ServerIs, StreamIs DEF Typed
  <2>4. conn.stream \in Streams
    BY <2>1, <2>2
  <2>5. \A s \in DOMAIN server : s < conn.stream
    BY <1>3
  <2> QED BY ONLY <1>5, <1>6, <2>1, <2>2, <2>3, <2>4, <2>5
<1>8. f \in Frames /\ end \in BOOLEAN /\ f.type = "HEADERS" /\ f.stream = conn.stream
  <2>2. f \in Frames
    BY ONLY <1>0, <1>3, <1>5, <1>7, <1>a, FramesAre, Zenon
  <2> QED BY <1>0, <1>a, <2>2 DEF Headers, Frame
<1>9. f = Headers(conn.stream, <<request>>, end)
  BY ONLY <1>3, <1>a, Zenon
<1>10. /\ h2' = [next |-> conn.stream + 2, queued |-> <<>>, window |-> h2.window]
       /\ h2 = [next |-> h2.next, queued |-> h2.queued, window |-> h2.window]
       /\ h2.queued \in Seq(Frames) /\ h2.window \in Nat /\ Wire \in Seq(Frames)
       /\ out \in Seq(Frames) /\ in \in Seq(Frames)
  <2>1. /\ h2 = [next |-> h2.next, queued |-> h2.queued, window |-> h2.window]
        /\ h2.queued \in Seq(Frames) /\ h2.window \in Nat /\ Wire \in Seq(Frames)
        /\ out \in Seq(Frames) /\ in \in Seq(Frames)
    BY <1>1, H2Is
  <2>2. h2' = [next |-> conn.stream + 2, queued |-> <<>>, window |-> h2.window]
    BY ONLY <1>2, <2>1
  <2> QED BY <2>1, <2>2
<1>11. h2'.next = conn.stream + 2 /\ h2'.queued = <<>> /\ h2'.window = h2.window
  BY <1>10
<1>12. Wire' = Append(Wire, f) /\ out' \in Seq(Frames)
  <2>1. /\ out' = out \o Append(h2.queued, f) /\ h2'.queued = <<>> /\ f \in Frames
        /\ h2.queued \in Seq(Frames) /\ out \in Seq(Frames)
    BY ONLY <1>2, <1>8, <1>10, <1>11
  <2>2. /\ (out \o Append(h2.queued, f)) \o <<>> = Append(out \o h2.queued, f)
        /\ out \o Append(h2.queued, f) \in Seq(Frames)
    BY ONLY <2>1, AppendConcat
  <2> QED BY ONLY <2>1, <2>2, Zenon DEF Wire
<1>13. /\ conn' \in [sock : BOOLEAN, stream : {0} \cup Streams, fields : Seq(Requests)]
       /\ conn'.sock = conn.sock /\ conn'.fields = <<>> /\ conn'.stream = conn.stream
  BY <1>1, <1>2, EmptySeq DEF Typed
<1>14. /\ pc' \in {"bytes", "stream", "wait"} /\ pc' \in Stages
       /\ pc' \notin {"connect", "request", "headers"} /\ pc' # "headers" /\ pc' # "connect"
       /\ Active' /\ ~Active /\ (pc' = "bytes" => ~end) /\ (pc' = "stream" => ~end)
       /\ (pc' = "stream" => left = request.body.size)
  BY <1>2, <1>3, <1>5, <1>b DEF Active, Stages
<1>15. Typed'
  <2>1. (IsServer(server))'
    BY ONLY <1>1, <1>2, Zenon DEF Typed, IsServer
  <2>2. <<>> \in Seq(Frames)
    BY EmptySeq
  <2>3. h2' \in [next : Nat, queued : Seq(Frames), window : Nat]
    BY ONLY <1>7, <1>10, <2>2
  <2> QED BY ONLY <1>1, <1>2, <1>12, <1>13, <1>14, <2>1, <2>3, NewIs, Zenon DEF Typed
<1>16. Placed'
  <2>1. Numbered(h2.next, request.number)'
    BY ONLY <1>2, <1>7, <1>11, <1>14, Zenon DEF Numbered
  <2> QED BY ONLY <1>2, <1>3, <1>7, <1>11, <1>13, <1>14, <2>1, Zenon DEF Placed
<1>17. Heard'
  <2>1. PICK L : Leads(View(server), Wire, L)
    BY DEF Http2Inv, Heard
  <2>2. IsView(L)
    BY <1>10, <2>1, LeadsType
  <2>3. /\ IsView(Sees(L, f)) /\ conn.stream \in DOMAIN Sees(L, f)
        /\ Sees(L, f)[conn.stream] = Entry(<<request>>, 0, end)
    BY ONLY <1>0, <1>4, <1>5, <1>7, <1>9, <2>2, SeesHeaders
  <2>4. Leads(View(server), Append(Wire, f), Sees(L, f))
    BY ONLY <1>8, <1>10, <2>1, <2>3, LeadsAppend
  <2>5. PICK M : M = Sees(L, f)
    OBVIOUS
  <2>6. View(server)' = View(server)
    BY ONLY <1>2, Zenon DEF View
  <2>7. Leads(View(server)', Wire', M)
    BY ONLY <1>12, <2>4, <2>5, <2>6, Zenon
  <2>8. ~end => M[conn.stream] = Entry(<<request>>, 0, FALSE)
    BY <2>3, <2>5
  <2>9. left = request.body.size => left <= request.body.size /\ request.body.size - left = 0
    BY <1>4, <1>5
  <2>10. Sent(M)'
    BY ONLY <1>2, <1>13, <1>14, <2>3, <2>5, <2>8, <2>9, Zenon DEF Sent
  <2> QED BY ONLY <2>7, <2>10, Zenon DEF Heard
<1>18. InTurn'
  <2>1. NoneOpens(Wire) /\ AllAnswered(server, {})
    BY <1>14 DEF Http2Inv, InTurn
  <2>2. OpensOnly(Append(Wire, f), conn.stream)
    BY ONLY <1>8, <1>10, <2>1, OpensAppend
  <2>3. AllAnswered(server, {conn.stream})
    BY <2>1 DEF AllAnswered
  <2>4. conn.stream \notin DOMAIN server
    BY <1>7
  <2> QED BY ONLY <1>2, <1>12, <1>13, <1>14, <2>2, <2>3, <2>4, Zenon DEF InTurn
<1>19. Told'
  <2>1. AllQuiet(in)
    BY <1>14 DEF Http2Inv, Told
  <2>2. Tells(NotReading, in, NotReading)
    BY ONLY <1>10, <2>1, NewIs, TellsQuiet DEF AllQuiet
  <2>3. conn.stream \notin DOMAIN server
    BY <1>7
  <2>4. Matches(NotReading, conn.stream, server)
    BY ONLY <2>3, NewIs, Zenon DEF Matches
  <2> QED BY ONLY <1>2, <1>13, <1>14, <2>2, <2>4, Zenon DEF Told
<1>20. InWindow'
  <2>1. PICK d \in Nat, c \in Nat :
          /\ Weighs("DATA", Wire, d) /\ Weighs("WINDOW_UPDATE", in, c)
          /\ h2.window + d + c <= Window
    BY DEF Http2Inv, InWindow
  <2>2. Weight("DATA", f) = 0
    BY <1>8 DEF Weight
  <2>3. Weighs("DATA", Append(Wire, f), d + Weight("DATA", f))
    BY ONLY <1>8, <1>10, <2>1, WeighsAppend
  <2>4. d + Weight("DATA", f) = d
    BY <2>2
  <2> QED BY ONLY <1>2, <1>11, <1>12, <2>1, <2>3, <2>4, Zenon DEF InWindow
<1>21. ResponseWhole'
  BY <1>1, <1>2 DEF ResponseWhole
<1> QED BY ONLY <1>15, <1>16, <1>17, <1>18, <1>19, <1>20, <1>21, Zenon DEF Http2Inv

(* What a thread that sends a body has sent of it.                          *)
Before == IF pc = "bytes" THEN 0 ELSE request.body.size - left

LEMMA SendsInv ==
    ASSUME Http2Inv, pc \in {"bytes", "stream"}, NEW size \in Nat, NEW end \in BOOLEAN,
           Wire' = Append(Wire, Data(conn.stream, size, end)), out' \in Seq(Frames),
           h2' \in [next : Nat, queued : Seq(Frames), window : Nat],
           h2'.next = h2.next, size <= h2.window, h2'.window = h2.window - size,
           UNCHANGED <<in, server, conn, request, reading, eof, response>>,
           left' \in Nat, pc' \in {"stream", "wait"},
           end => Before + size = request.body.size,
           pc' = "stream" => ~end /\ left' <= request.body.size
                             /\ Before + size = request.body.size - left'
    PROVE  Http2Inv'
<1>1. Typed /\ Placed /\ ResponseWhole
  BY DEF Http2Inv
<1>2. /\ in' = in /\ server' = server /\ conn' = conn /\ request' = request
      /\ reading' = reading /\ eof' = eof /\ response' = response
  OBVIOUS
<1>3. PICK f : f = Data(conn.stream, size, end)
  OBVIOUS
<1>4. request \in Requests /\ request.body.size \in Nat /\ left \in Nat
  BY <1>1, RequestIs DEF Typed
<1>5. conn.stream \in Nat /\ conn.stream \in Streams /\ conn.stream + 2 = h2.next
  BY <1>1, StreamIs DEF Placed, Active
<1>6. f \in Frames /\ f.type = "DATA" /\ f.size = size /\ f.type # "HEADERS"
  <2>1. f \in Frames
    BY ONLY <1>3, <1>5, size \in Nat, end \in BOOLEAN, FramesAre, Zenon
  <2> QED BY <1>3, <2>1 DEF Data, Frame
<1>7. Wire' = Append(Wire, f) /\ Wire \in Seq(Frames) /\ in \in Seq(Frames)
  BY <1>1, <1>3, H2Is
<1>8. /\ pc' \in Stages /\ pc' # "headers" /\ pc' # "connect" /\ pc' # "bytes" /\ pc' # "idle"
      /\ pc' \notin {"connect", "request", "headers"}
      /\ pc # "headers" /\ pc # "connect" /\ pc # "idle"
      /\ pc \notin {"connect", "request", "headers"}
      /\ pc \notin {"idle", "connect"} /\ Active /\ Active'
  BY DEF Active, Stages
<1>9. Typed'
  <2>1. (IsServer(server))'
    BY ONLY <1>1, <1>2, Zenon DEF Typed, IsServer
  <2> QED BY ONLY <1>1, <1>2, <1>8, <2>1, left' \in Nat, out' \in Seq(Frames),
             h2' \in [next : Nat, queued : Seq(Frames), window : Nat], Zenon DEF Typed
<1>10. Placed'
  <2>1. Numbered(h2.next, request.number)'
    <3>1. Numbered(h2.next, request.number)
      BY <1>1 DEF Placed
    <3> QED BY ONLY <1>2, <1>8, <3>1, h2'.next = h2.next, Zenon DEF Numbered
  <2>2. conn.fields = <<>> /\ conn.sock /\ \A s \in DOMAIN server : s < h2.next
    BY ONLY <1>1, <1>8, Zenon DEF Placed
  <2> QED BY ONLY <1>2, <1>5, <1>8, <2>1, <2>2, h2'.next = h2.next, Zenon DEF Placed
<1>11. Heard'
  <2>1. PICK L : Leads(View(server), Wire, L) /\ Sent(L)
    BY DEF Http2Inv, Heard
  <2>2. IsView(L)
    BY <1>7, <2>1, LeadsType
  <2>3. PICK n \in Nat : n = Before /\ conn.stream \in DOMAIN L
                         /\ L[conn.stream] = Entry(<<request>>, n, FALSE)
    <3>1. CASE pc = "bytes"
      BY <2>1, <3>1 DEF Sent, Before
    <3>2. CASE pc # "bytes"
      <4>1. pc = "stream"
        BY <3>2
      <4>2. left <= request.body.size
        BY <2>1, <4>1 DEF Sent
      <4>3. request.body.size - left \in Nat
        BY <1>4, <4>2
      <4> QED BY <2>1, <3>2, <4>1, <4>3 DEF Sent, Before
    <3> QED BY <3>1, <3>2
  <2>4. end => n + size = request.body.size
    BY <2>3
  <2>5. /\ IsView(Sees(L, f)) /\ conn.stream \in DOMAIN Sees(L, f)
        /\ Sees(L, f)[conn.stream] = Entry(<<request>>, n + size, end)
    <3>1. /\ conn.stream \in DOMAIN L /\ L[conn.stream] = Entry(<<request>>, n, FALSE)
          /\ n \in Nat /\ size \in Nat /\ end \in BOOLEAN
      BY <2>3
    <3>2. f = Data(conn.stream, size, end) /\ request \in Requests
      BY <1>3, <1>4
    <3>3. PICK m : m = n + size
      OBVIOUS
    <3>4. GoesOn(request, n, size, m, end)
      BY <2>4, <3>1, <3>2, <3>3 DEF GoesOn
    <3>5. /\ IsView(Sees(L, Data(conn.stream, size, end)))
          /\ conn.stream \in DOMAIN Sees(L, Data(conn.stream, size, end))
          /\ Sees(L, Data(conn.stream, size, end))[conn.stream] = Entry(<<request>>, m, end)
      <4>1. Has(L, conn.stream, request, n, FALSE)
        BY ONLY <2>2, <3>1, Zenon DEF Has
      <4>2. Has(Sees(L, Data(conn.stream, size, end)), conn.stream, request, m, end)
        BY ONLY <3>4, <4>1, SeesData, Zenon
      <4> QED BY ONLY <4>2, Zenon DEF Has
    <3> QED BY ONLY <3>2, <3>3, <3>5, Zenon
  <2>6. Leads(View(server), Append(Wire, f), Sees(L, f))
    BY ONLY <1>6, <1>7, <2>1, <2>5, LeadsAppend
  <2>7. PICK M : M = Sees(L, f)
    OBVIOUS
  <2>8. View(server)' = View(server)
    BY ONLY <1>2, Zenon DEF View
  <2>9. Leads(View(server)', Wire', M)
    BY ONLY <1>7, <2>6, <2>7, <2>8, Zenon
  <2>10. pc' = "stream" => /\ left' <= request.body.size
                           /\ M[conn.stream] = Entry(<<request>>, request.body.size - left', FALSE)
    BY <2>3, <2>5, <2>7
  <2>11. Sent(M)'
    BY ONLY <1>2, <1>8, <2>5, <2>7, <2>10, Zenon DEF Sent
  <2> QED BY ONLY <2>9, <2>11, Zenon DEF Heard
<1>12. InTurn'
  <2>1. /\ OpensOnly(Wire, conn.stream) /\ AllAnswered(server, {conn.stream})
        /\ conn.stream \in DOMAIN server => NoneOpens(Wire)
    BY <1>8 DEF Http2Inv, InTurn
  <2>2. /\ OpensOnly(Append(Wire, f), conn.stream)
        /\ conn.stream \in DOMAIN server => NoneOpens(Append(Wire, f))
    BY ONLY <1>6, <1>7, <2>1, OpensAppend
  <2> QED BY ONLY <1>2, <1>7, <1>8, <2>1, <2>2, Zenon DEF InTurn
<1>13. Told'
  <2>1. \E l : Tells(reading, in, l) /\ Matches(l, conn.stream, server)
    BY <1>8 DEF Http2Inv, Told
  <2> QED BY ONLY <1>2, <1>8, <2>1, Zenon DEF Told
<1>14. InWindow'
  <2>1. PICK d \in Nat, c \in Nat :
          /\ Weighs("DATA", Wire, d) /\ Weighs("WINDOW_UPDATE", in, c)
          /\ h2.window + d + c <= Window
    BY DEF Http2Inv, InWindow
  <2>2. Weight("DATA", f) = size
    BY <1>6 DEF Weight
  <2>3. Weighs("DATA", Append(Wire, f), d + Weight("DATA", f))
    BY ONLY <1>6, <1>7, <2>1, WeighsAppend
  <2>4. h2.window \in Nat /\ Window \in Nat
    BY <1>1, H2Is, Http2Assumption
  <2>5. PICK e \in Nat : e = d + size
    BY <2>1
  <2>6. h2'.window + e + c <= Window
    BY ONLY <2>1, <2>4, <2>5, size \in Nat, size <= h2.window, h2'.window = h2.window - size
  <2>7. Weighs("DATA", Wire', e) /\ Weighs("WINDOW_UPDATE", in', c)
    BY ONLY <1>2, <1>7, <2>1, <2>2, <2>3, <2>5, Zenon
  <2> QED BY ONLY <2>1, <2>5, <2>6, <2>7, Zenon DEF InWindow
<1>15. ResponseWhole'
  BY <1>1, <1>2 DEF ResponseWhole
<1> QED BY ONLY <1>9, <1>10, <1>11, <1>12, <1>13, <1>14, <1>15, Zenon DEF Http2Inv

LEMMA SendBytesInv == ASSUME Http2Inv, SendBytes PROVE Http2Inv'
<1>1. Typed
  BY DEF Http2Inv
<1>2. PICK size : size = request.body.size
  OBVIOUS
<1>3. PICK f : f = Data(conn.stream, size, TRUE)
  OBVIOUS
<1>4. /\ pc = "bytes" /\ size <= h2.window
      /\ out' = out \o Append(h2.queued, f)
      /\ h2' = [h2 EXCEPT !.queued = <<>>, !.window = @ - size]
      /\ pc' = "wait" /\ left' = left
      /\ UNCHANGED <<request, left, conn, in, server, eof, reading, response>>
  BY <1>2, <1>3 DEF SendBytes, Fits
<1>5. size \in Nat /\ left \in Nat /\ request \in Requests
  BY <1>1, <1>2, RequestIs DEF Typed
<1>6. conn.stream \in Nat
  BY <1>1, ConnIs
<1>7. f \in Frames
  BY ONLY <1>3, <1>5, <1>6, FramesAre
<1>8. /\ h2 = [next |-> h2.next, queued |-> h2.queued, window |-> h2.window]
      /\ h2.queued \in Seq(Frames) /\ h2.window \in Nat /\ h2.next \in Nat
      /\ out \in Seq(Frames)
  BY <1>1, H2Is
<1>9. PICK w \in Nat : w = h2.window - size
  BY <1>4, <1>5, <1>8
<1>10. h2' = [next |-> h2.next, queued |-> <<>>, window |-> w]
  BY ONLY <1>4, <1>8, <1>9
<1>11. /\ h2'.queued = <<>> /\ h2'.next = h2.next /\ h2'.window = h2.window - size
       /\ h2' \in [next : Nat, queued : Seq(Frames), window : Nat]
  BY <1>8, <1>9, <1>10, EmptySeq
<1>12. Wire' = Append(Wire, f) /\ out' \in Seq(Frames)
  BY ONLY <1>4, <1>7, <1>8, <1>11, AppendConcat, Zenon DEF Wire
<1>13. TRUE => Before + size = request.body.size
  BY <1>2, <1>4, <1>5 DEF Before
<1>14. /\ pc \in {"bytes", "stream"} /\ pc' \in {"stream", "wait"} /\ pc' # "stream"
       /\ left' \in Nat /\ TRUE \in BOOLEAN
  BY <1>4, <1>5
<1> QED BY ONLY Http2Inv, <1>3, <1>4, <1>5, <1>11, <1>12, <1>13, <1>14, SendsInv

LEMMA SendChunkInv == ASSUME Http2Inv, SendChunk PROVE Http2Inv'
<1>1. Typed
  BY DEF Http2Inv
<1>2. PICK size : size = 1
  OBVIOUS
<1>3. PICK f : f = Data(conn.stream, size, FALSE)
  OBVIOUS
<1>4. /\ pc = "stream" /\ size <= h2.window /\ left > 0
      /\ out' = out \o Append(h2.queued, f)
      /\ h2' = [h2 EXCEPT !.queued = <<>>, !.window = @ - size]
      /\ pc' = pc /\ left' = left - 1
      /\ UNCHANGED <<request, conn, in, server, eof, reading, response>>
  BY <1>2, <1>3 DEF SendChunk, Fits
<1>5. size \in Nat /\ left \in Nat /\ request \in Requests /\ request.body.size \in Nat
  BY <1>1, <1>2, RequestIs DEF Typed
<1>6. conn.stream \in Nat
  BY <1>1, ConnIs
<1>7. f \in Frames
  BY ONLY <1>3, <1>5, <1>6, FramesAre
<1>8. /\ h2 = [next |-> h2.next, queued |-> h2.queued, window |-> h2.window]
      /\ h2.queued \in Seq(Frames) /\ h2.window \in Nat /\ h2.next \in Nat
      /\ out \in Seq(Frames)
  BY <1>1, H2Is
<1>9. PICK w \in Nat : w = h2.window - size
  BY <1>4, <1>5, <1>8
<1>10. h2' = [next |-> h2.next, queued |-> <<>>, window |-> w]
  BY ONLY <1>4, <1>8, <1>9
<1>11. /\ h2'.queued = <<>> /\ h2'.next = h2.next /\ h2'.window = h2.window - size
       /\ h2' \in [next : Nat, queued : Seq(Frames), window : Nat]
  BY <1>8, <1>9, <1>10, EmptySeq
<1>12. Wire' = Append(Wire, f) /\ out' \in Seq(Frames)
  BY ONLY <1>4, <1>7, <1>8, <1>11, AppendConcat, Zenon DEF Wire
<1>13. left <= request.body.size
  BY <1>4 DEF Http2Inv, Heard, Sent
<1>14. /\ left' <= request.body.size
       /\ Before + size = request.body.size - left'
  BY <1>2, <1>4, <1>5, <1>13 DEF Before
<1>15. /\ pc \in {"bytes", "stream"} /\ pc' \in {"stream", "wait"}
       /\ left' \in Nat /\ FALSE \in BOOLEAN /\ ~FALSE
  BY <1>4, <1>5
<1> QED BY ONLY Http2Inv, <1>3, <1>4, <1>5, <1>11, <1>12, <1>14, <1>15, SendsInv

LEMMA EndStreamInv == ASSUME Http2Inv, EndStream PROVE Http2Inv'
<1>1. Typed
  BY DEF Http2Inv
<1>2. PICK size : size = 0
  OBVIOUS
<1>3. PICK f : f = Data(conn.stream, size, TRUE)
  OBVIOUS
<1>4. /\ pc = "stream" /\ left = 0 /\ out' = out
      /\ h2' = [h2 EXCEPT !.queued = Append(@, f)]
      /\ pc' = "wait" /\ left' = left
      /\ UNCHANGED <<request, conn, in, server, eof, reading, response>>
  BY <1>2, <1>3 DEF EndStream
<1>5. size \in Nat /\ left \in Nat /\ request \in Requests /\ request.body.size \in Nat
  BY <1>1, <1>2, RequestIs DEF Typed
<1>6. conn.stream \in Nat
  BY <1>1, ConnIs
<1>7. f \in Frames
  BY ONLY <1>3, <1>5, <1>6, FramesAre
<1>8. /\ h2 = [next |-> h2.next, queued |-> h2.queued, window |-> h2.window]
      /\ h2.queued \in Seq(Frames) /\ h2.window \in Nat /\ h2.next \in Nat
      /\ out \in Seq(Frames)
  BY <1>1, H2Is
<1>9. PICK q : q = Append(h2.queued, f) /\ q \in Seq(Frames)
  BY ONLY <1>7, <1>8, AppendIs
<1>10. h2' = [next |-> h2.next, queued |-> q, window |-> h2.window]
  BY ONLY <1>4, <1>8, <1>9
<1>11. /\ h2'.queued = q /\ h2'.next = h2.next /\ h2'.window = h2.window - size
       /\ h2' \in [next : Nat, queued : Seq(Frames), window : Nat] /\ size <= h2.window
  BY ONLY <1>2, <1>8, <1>9, <1>10
<1>12. Wire' = Append(Wire, f) /\ out' \in Seq(Frames)
  BY ONLY <1>4, <1>7, <1>8, <1>9, <1>11, AppendConcat, Zenon DEF Wire
<1>13. TRUE => Before + size = request.body.size
  BY <1>2, <1>4, <1>5 DEF Before
<1>14. /\ pc \in {"bytes", "stream"} /\ pc' \in {"stream", "wait"} /\ pc' # "stream"
       /\ left' \in Nat /\ TRUE \in BOOLEAN
  BY <1>4, <1>5
<1> QED BY ONLY Http2Inv, <1>3, <1>4, <1>5, <1>11, <1>12, <1>13, <1>14, SendsInv

(***************************************************************************)
(* getresponse                                                              *)
(***************************************************************************)
LEMMA SpinInv == ASSUME Http2Inv, Spin PROVE Http2Inv'
<1>1. Typed /\ Placed /\ ResponseWhole
  BY DEF Http2Inv
<1>2. /\ pc = "wait" /\ out' = out \o h2.queued /\ h2' = [h2 EXCEPT !.queued = <<>>]
      /\ pc' = pc /\ request' = request /\ left' = left /\ conn' = conn /\ in' = in
      /\ server' = server /\ eof' = eof /\ reading' = reading /\ response' = response
  BY DEF Spin, Flush
<1>3. /\ h2 = [next |-> h2.next, queued |-> h2.queued, window |-> h2.window]
      /\ h2.queued \in Seq(Frames) /\ h2.window \in Nat /\ h2.next \in Nat
      /\ out \in Seq(Frames) /\ Wire \in Seq(Frames)
  BY <1>1, H2Is
<1>4. h2' = [next |-> h2.next, queued |-> <<>>, window |-> h2.window]
  BY ONLY <1>2, <1>3
<1>5. /\ h2'.queued = <<>> /\ h2'.next = h2.next /\ h2'.window = h2.window
      /\ h2' \in [next : Nat, queued : Seq(Frames), window : Nat]
  BY <1>3, <1>4, EmptySeq
<1>6. Wire' = Wire /\ out' \in Seq(Frames)
  <2>1. out' = Wire
    BY <1>2 DEF Wire
  <2>2. Wire \o <<>> = Wire
    BY <1>3, ConcatEmptySeq
  <2> QED BY ONLY <1>3, <1>5, <2>1, <2>2, Zenon DEF Wire
<1>7. pc # "headers" /\ pc \notin {"connect", "request", "headers"} /\ conn.sock /\ Active /\ Active'
  BY <1>1, <1>2 DEF Active, Placed
<1>8. Typed'
  <2>1. (IsServer(server))'
    BY ONLY <1>1, <1>2, Zenon DEF Typed, IsServer
  <2> QED BY ONLY <1>1, <1>2, <1>5, <1>6, <2>1, Zenon DEF Typed
<1>9. Placed'
  <2>1. Numbered(h2.next, request.number)'
    BY ONLY <1>1, <1>2, <1>5, Zenon DEF Numbered, Placed
  <2> QED BY ONLY <1>1, <1>2, <1>5, <1>7, <2>1, Zenon DEF Placed
<1>10. Heard'
  <2>1. PICK L : Leads(View(server), Wire, L)
    BY DEF Http2Inv, Heard
  <2>2. View(server)' = View(server)
    BY ONLY <1>2, Zenon DEF View
  <2>3. Sent(L)'
    <3>1. pc' # "bytes" /\ pc' # "stream"
      BY <1>2
    <3> QED BY ONLY <3>1, Zenon DEF Sent
  <2>4. Leads(View(server)', Wire', L)
    BY ONLY <1>6, <2>1, <2>2, Zenon
  <2> QED BY ONLY <2>3, <2>4, Zenon DEF Heard
<1>11. InTurn'
  <2>1. InTurn
    BY DEF Http2Inv
  <2> QED BY ONLY <1>2, <1>6, <1>7, <2>1, Zenon DEF InTurn
<1>12. Told'
  <2>1. Told
    BY DEF Http2Inv
  <2> QED BY ONLY <1>2, <1>7, <2>1, Zenon DEF Told
<1>13. InWindow'
  <2>1. InWindow
    BY DEF Http2Inv
  <2> QED BY ONLY <1>2, <1>5, <1>6, <2>1, Zenon DEF InWindow
<1>14. ResponseWhole'
  BY <1>1, <1>2 DEF ResponseWhole
<1> QED BY ONLY <1>8, <1>9, <1>10, <1>11, <1>12, <1>13, <1>14, Zenon DEF Http2Inv

(* What the first frames of those on their way leave of the others.         *)
Leaves(t, k) ==
    /\ t.read \in Gatherings /\ t.granted \in Nat /\ t.answers \in Seq(Acks)
    /\ \A c : Weighs("WINDOW_UPDATE", in, c) =>
                t.granted <= c /\ Weighs("WINDOW_UPDATE", After(in, k), c - t.granted)
    /\ \A l : Tells(reading, in, l) =>
                /\ Tells(t.read, After(in, k), l)
                /\ t.read.ended => t.read = l /\ AllQuiet(After(in, k))

LEMMA TakenIs ==
    ASSUME Typed, NEW k \in 1..Len(in)
    PROVE  Leaves(Taken(SubSeq(in, 1, k)), k)
<1>1. in \in Seq(Frames) /\ reading \in Gatherings
  BY ReadingIs DEF Typed
<1>2. PICK first : first = SubSeq(in, 1, k)
  OBVIOUS
<1>3. first \in Seq(Frames) /\ Len(first) = k /\ \A i \in 1..k : first[i] = in[i]
  BY <1>1, <1>2, FirstIs
<1>4. k \in Nat /\ \A i \in 1..k : i \in 0..k /\ i - 1 \in 0..k /\ i \in 1..Len(in)
  BY <1>1, FramesOf
<1>5. PICK F : /\ F[0] = [read |-> reading, granted |-> 0, answers |-> <<>>]
               /\ \A i \in 1..k : F[i] = Takes(F[i - 1], first[i])
               /\ \A i \in 0..k : F[i] \in Takings
               /\ Taken(first) = F[k]
  BY ONLY <1>1, <1>3, TakenFold, Zenon
<1>6. \A i \in 0..k : /\ F[i].read \in Gatherings /\ F[i].granted \in Nat
                      /\ F[i].answers \in Seq(Acks)
  BY <1>5 DEF Takings
<1>7. F[0].read = reading /\ F[0].granted = 0
  BY <1>5
<1>8. ASSUME NEW i \in 1..k
      PROVE  /\ F[i].read = Gathered(F[i - 1].read, in[i])
             /\ F[i].granted = F[i - 1].granted + Weight("WINDOW_UPDATE", in[i])
  <2>1. PICK f, t : f = in[i] /\ t = F[i - 1]
    OBVIOUS
  <2>2. F[i] = Takes(t, f) /\ t.granted \in Nat
    BY ONLY <1>3, <1>4, <1>5, <1>6, <2>1, i \in 1..k, Zenon
  <2>3. F[i].read = Gathered(t.read, f)
    BY <2>2 DEF Takes
  <2>4. F[i].granted = IF f.type = "WINDOW_UPDATE" THEN t.granted + f.size ELSE t.granted
    BY <2>2 DEF Takes
  <2>5. F[i].granted = t.granted + Weight("WINDOW_UPDATE", f)
    BY ONLY <2>2, <2>4 DEF Weight
  <2> QED BY ONLY <2>1, <2>3, <2>5, Zenon
<1> DEFINE Read == [i \in 0..k |-> F[i].read]
           Grant == [i \in 0..k |-> F[i].granted]
<1>9. 0 \in 0..k /\ k \in 0..k
  BY <1>4
<1>10. /\ Read[0] = reading /\ Grant[0] = 0
       /\ Read[k] = F[k].read /\ Grant[k] = F[k].granted
       /\ \A i \in 1..k : Read[i] = Gathered(Read[i - 1], in[i])
       /\ \A i \in 1..k : Grant[i] = Grant[i - 1] + Weight("WINDOW_UPDATE", in[i])
  BY ONLY <1>4, <1>7, <1>8, <1>9, Zenon
<1> HIDE DEF Read, Grant
<1>11. ASSUME NEW c, Weighs("WINDOW_UPDATE", in, c)
       PROVE  /\ F[k].granted <= c
              /\ Weighs("WINDOW_UPDATE", After(in, k), c - F[k].granted)
  <2>1. Grant[k] <= c /\ Weighs("WINDOW_UPDATE", After(in, k), c - Grant[k])
    BY ONLY <1>1, <1>10, <1>11, k \in 1..Len(in), WeighsAfter, Zenon
  <2> QED BY ONLY <1>10, <2>1, Zenon
<1>12. ASSUME NEW l, Tells(reading, in, l)
       PROVE  /\ Tells(F[k].read, After(in, k), l)
              /\ F[k].read.ended => F[k].read = l /\ AllQuiet(After(in, k))
  <2>1. /\ Tells(Read[k], After(in, k), l)
        /\ Read[k].ended => /\ Read[k] = l
                            /\ \A j \in 1..Len(After(in, k)) : Quiet(After(in, k)[j])
    BY ONLY <1>1, <1>10, <1>12, k \in 1..Len(in), TellsAfter, Zenon
  <2> QED BY ONLY <1>10, <2>1, Zenon DEF AllQuiet
<1>13. Taken(SubSeq(in, 1, k)) = F[k]
  BY ONLY <1>2, <1>5, Zenon
<1>14. Leaves(F[k], k)
  BY ONLY <1>6, <1>9, <1>11, <1>12, Zenon DEF Leaves
<1> QED BY ONLY <1>13, <1>14, Zenon

(* What the thread writes while it waits opens no stream, and carries none. *)
LEMMA AcksAre ==
    ASSUME NEW q \in Seq(Acks)
    PROVE  /\ q \in Seq(Frames) /\ AllQuiet(q)
           /\ \A i \in 1..Len(q) : Quiet(q[i]) /\ Weight("DATA", q[i]) = 0
<1>1. DOMAIN q = 1..Len(q) /\ Len(q) \in Nat /\ \A i \in 1..Len(q) : q[i] \in Acks
  BY LenProperties, ElementOfSeq
<1>2. \A i \in 1..Len(q) : q[i] \in Frames /\ Quiet(q[i])
  BY <1>1 DEF Acks
<1>3. q \in Seq(Frames)
  <2>1. Acks \subseteq Frames
    BY DEF Acks
  <2> QED BY <2>1
<1>4. \A i \in 1..Len(q) : Weight("DATA", q[i]) = 0
  BY <1>2 DEF Quiet, Weight
<1> QED BY ONLY <1>2, <1>3, <1>4, Zenon DEF AllQuiet

LEMMA ReceiveInv == ASSUME Http2Inv, Receive PROVE Http2Inv'
<1>1. Typed /\ Placed /\ ResponseWhole
  BY DEF Http2Inv
<1>2. PICK k, t :
        /\ k \in 1..Len(in)
        /\ t = Taken(SubSeq(in, 1, k)) /\ pc = "wait" /\ in' = After(in, k)
        /\ out' = out \o h2.queued \o t.answers
        /\ h2' = [h2 EXCEPT !.queued = <<>>, !.window = @ + t.granted]
        /\ reading' = t.read
        /\ IF t.read.ended
             THEN /\ pc' = "idle"
                  /\ response' = [request |-> request.number, stream |-> conn.stream,
                                  of |-> t.read.of, size |-> t.read.size,
                                  sent |-> IF t.read.of \in DOMAIN server
                                             THEN server[t.read.of].sent ELSE 0]
             ELSE pc' = pc /\ response' = response
        /\ request' = request /\ left' = left /\ conn' = conn /\ server' = server /\ eof' = eof
  BY Zenon DEF Receive, After
<1>3. Leaves(t, k)
  BY ONLY <1>1, <1>2, TakenIs, Zenon
<1>4. PICK r, granted, answers : r = t.read /\ granted = t.granted /\ answers = t.answers
  OBVIOUS
<1>5. granted \in Nat /\ answers \in Seq(Acks)
  BY ONLY <1>3, <1>4, Zenon DEF Leaves
<1>6. /\ h2 = [next |-> h2.next, queued |-> h2.queued, window |-> h2.window]
      /\ h2.queued \in Seq(Frames) /\ h2.window \in Nat /\ h2.next \in Nat
      /\ out \in Seq(Frames) /\ in \in Seq(Frames) /\ Wire \in Seq(Frames)
  BY <1>1, H2Is
<1>7. h2' = [next |-> h2.next, queued |-> <<>>, window |-> h2.window + granted]
  <2>1. h2' = [h2 EXCEPT !.queued = <<>>, !.window = @ + granted]
    BY ONLY <1>2, <1>4, Zenon
  <2> QED BY ONLY <1>6, <2>1
<1>8. /\ h2'.queued = <<>> /\ h2'.next = h2.next /\ h2'.window = h2.window + granted
      /\ h2' \in [next : Nat, queued : Seq(Frames), window : Nat]
  BY <1>5, <1>6, <1>7, EmptySeq
<1>9. answers \in Seq(Frames) /\ AllQuiet(answers)
      /\ \A i \in 1..Len(answers) : Quiet(answers[i]) /\ Weight("DATA", answers[i]) = 0
  BY ONLY <1>5, AcksAre, Zenon
<1>10. Wire' = Wire \o answers /\ out' \in Seq(Frames)
  <2>1. out' = Wire \o answers
    BY ONLY <1>2, <1>4, Zenon DEF Wire
  <2>2. Wire \o answers \in Seq(Frames)
    BY <1>6, <1>9, ConcatIs
  <2>3. (Wire \o answers) \o <<>> = Wire \o answers
    BY <2>2, ConcatEmptySeq
  <2> QED BY ONLY <1>8, <2>1, <2>2, <2>3, Zenon DEF Wire
<1>11. PICK l : Tells(reading, in, l) /\ Matches(l, conn.stream, server)
  BY <1>2 DEF Http2Inv, Told, Active
<1>12. /\ Tells(r, in', l) /\ in' \in Seq(Frames)
       /\ r.ended => r = l /\ AllQuiet(in')
  <2>1. k \in 0..Len(in)
    BY <1>2, <1>6, FramesOf
  <2>2. After(in, k) \in Seq(Frames)
    BY <1>6, <2>1, AfterIs
  <2>3. Tells(t.read, After(in, k), l) /\ (t.read.ended => t.read = l /\ AllQuiet(After(in, k)))
    BY ONLY <1>3, <1>11, Zenon DEF Leaves
  <2> QED BY ONLY <1>2, <1>4, <2>2, <2>3, Zenon
<1>13. reading' = r /\ r \in Readings
  BY ONLY <1>2, <1>4, <1>12, TellsType, Zenon
<1>14. pc' = (IF r.ended THEN "idle" ELSE "wait")
  BY <1>2, <1>4
<1>15. /\ pc' \in Stages /\ pc' # "headers" /\ pc' # "connect" /\ pc' # "bytes" /\ pc' # "stream"
       /\ pc' \notin {"connect", "request", "headers"} /\ pc' \in {"idle", "wait"}
       /\ pc # "headers" /\ pc \notin {"connect", "request", "headers"}
       /\ Active /\ (Active' <=> ~r.ended) /\ conn.sock
  <2>1. pc' \in {"idle", "wait"} /\ (pc' = "wait" <=> ~r.ended) /\ pc = "wait"
    BY <1>2, <1>14
  <2> QED BY <1>1, <2>1 DEF Active, Stages, Placed
<1>16. Typed'
  <2>1. (IsServer(server))'
    BY ONLY <1>1, <1>2, Zenon DEF Typed, IsServer
  <2>2. /\ request \in Requests /\ left \in Nat /\ eof \in BOOLEAN
        /\ conn \in [sock : BOOLEAN, stream : {0} \cup Streams, fields : Seq(Requests)]
    BY <1>1 DEF Typed
  <2>3. request' = request /\ left' = left /\ eof' = eof /\ conn' = conn
    BY <1>2
  <2> QED BY ONLY <1>8, <1>10, <1>12, <1>13, <1>15, <2>1, <2>2, <2>3, Zenon DEF Typed
<1>17. Placed'
  <2>1. request' = request /\ left' = left /\ eof' = eof /\ conn' = conn /\ server' = server
    BY <1>2
  <2>2. Numbered(h2.next, request.number)'
    <3>1. Numbered(h2.next, request.number)
      BY <1>1 DEF Placed
    <3> QED BY ONLY <1>8, <1>15, <2>1, <3>1, Zenon DEF Numbered
  <2>3. /\ conn.fields = <<>> /\ (\A s \in DOMAIN server : s < h2.next)
        /\ conn.stream + 2 = h2.next /\ conn.stream \in Streams
    BY ONLY <1>1, <1>15, Zenon DEF Placed
  <2> QED BY ONLY <1>8, <1>15, <2>1, <2>2, <2>3, Zenon DEF Placed
<1>18. Heard'
  <2>1. PICK L : Leads(View(server), Wire, L)
    BY DEF Http2Inv, Heard
  <2>2. Leads(View(server), Wire \o answers, L)
    BY ONLY <1>6, <1>9, <2>1, LeadsConcat, Zenon
  <2>3. View(server)' = View(server)
    BY ONLY <1>2, Zenon DEF View
  <2>4. Sent(L)'
    BY ONLY <1>15, Zenon DEF Sent
  <2>5. Leads(View(server)', Wire', L)
    BY ONLY <1>10, <2>2, <2>3, Zenon
  <2> QED BY ONLY <2>4, <2>5, Zenon DEF Heard
<1>19. r.ended => /\ conn.stream \in DOMAIN server /\ server[conn.stream].answer = "ended"
                  /\ r.of = conn.stream /\ r.size = server[conn.stream].sent
  BY ONLY <1>11, <1>12, Zenon DEF Matches
<1>20. InTurn'
  <2>1. /\ OpensOnly(Wire, conn.stream) /\ AllAnswered(server, {conn.stream})
        /\ conn.stream \in DOMAIN server => NoneOpens(Wire)
    BY <1>15 DEF Http2Inv, InTurn
  <2>2. /\ OpensOnly(Wire \o answers, conn.stream)
        /\ conn.stream \in DOMAIN server => NoneOpens(Wire \o answers)
    BY ONLY <1>6, <1>9, <2>1, OpensConcat, Zenon
  <2>3. conn' = conn /\ server' = server
    BY <1>2
  <2>4. CASE r.ended
    <3>1. AllAnswered(server, {})
      BY ONLY <1>19, <2>1, <2>4, Zenon DEF AllAnswered
    <3> QED BY ONLY <1>10, <1>15, <1>19, <2>2, <2>3, <2>4, <3>1, Zenon DEF InTurn
  <2>5. CASE ~r.ended
    BY ONLY <1>10, <1>15, <2>1, <2>2, <2>3, <2>5, Zenon DEF InTurn
  <2> QED BY <2>4, <2>5
<1>21. Told'
  <2>1. conn' = conn /\ server' = server
    BY <1>2
  <2> QED BY ONLY <1>11, <1>12, <1>13, <1>15, <2>1, Zenon DEF Told
<1>22. InWindow'
  <2>1. PICK d \in Nat, c \in Nat :
          /\ Weighs("DATA", Wire, d) /\ Weighs("WINDOW_UPDATE", in, c)
          /\ h2.window + d + c <= Window
    BY DEF Http2Inv, InWindow
  <2>2. granted <= c /\ Weighs("WINDOW_UPDATE", in', c - granted)
    <3>1. t.granted <= c /\ Weighs("WINDOW_UPDATE", After(in, k), c - t.granted)
      BY ONLY <1>3, <2>1, Zenon DEF Leaves
    <3> QED BY ONLY <1>2, <1>4, <3>1, Zenon
  <2>3. Weighs("DATA", Wire', d)
    BY ONLY <1>6, <1>9, <1>10, <2>1, WeighsConcat, Zenon
  <2>4. PICK e \in Nat : e = c - granted
    BY ONLY <1>5, <2>1, <2>2
  <2>5. h2'.window + d + e <= Window
    <3>1. Window \in Nat
      BY Http2Assumption
    <3> QED BY ONLY <1>5, <1>6, <1>8, <2>1, <2>4, <3>1
  <2> QED BY ONLY <2>1, <2>2, <2>3, <2>4, <2>5, Zenon DEF InWindow
<1>23. ResponseWhole'
  <2>1. CASE r.ended
    <3>1. response' = [request |-> request.number, stream |-> conn.stream,
                       of |-> r.of, size |-> r.size,
                       sent |-> IF r.of \in DOMAIN server THEN server[r.of].sent ELSE 0]
      BY ONLY <1>2, <1>4, <2>1, Zenon
    <3>2. /\ response'.of = r.of /\ response'.stream = conn.stream /\ response'.size = r.size
          /\ response'.sent = IF r.of \in DOMAIN server THEN server[r.of].sent ELSE 0
      BY ONLY <3>1
    <3> QED BY ONLY <1>19, <2>1, <3>2, Zenon DEF ResponseWhole
  <2>2. CASE ~r.ended
    <3>1. response' = response
      BY ONLY <1>2, <1>4, <2>2, Zenon
    <3> QED BY <1>1, <3>1 DEF ResponseWhole
  <2> QED BY <2>1, <2>2
<1> QED BY ONLY <1>16, <1>17, <1>18, <1>20, <1>21, <1>22, <1>23, Zenon DEF Http2Inv

(***************************************************************************)
(* The server                                                               *)
(***************************************************************************)
LEMMA ServedInv ==
    ASSUME Http2Inv, UNCHANGED <<pc, request, left, conn, h2, reading, response>>,
           eof' \in BOOLEAN, out' \in Seq(Frames), in' \in Seq(Frames), conn.sock,
           IsServer(server'), \A s \in DOMAIN server' : s < h2.next,
           Heard', InTurn', Told', InWindow'
    PROVE  Http2Inv'
<1>1. Typed /\ Placed /\ ResponseWhole
  BY DEF Http2Inv
<1>2. /\ pc' = pc /\ request' = request /\ left' = left /\ conn' = conn /\ h2' = h2
      /\ reading' = reading /\ response' = response
  OBVIOUS
<1>3. Typed'
  <2>1. IsServer(server)'
    BY ONLY IsServer(server'), Zenon DEF IsServer
  <2> QED BY ONLY <1>1, <1>2, <2>1, eof' \in BOOLEAN, out' \in Seq(Frames),
             in' \in Seq(Frames), Zenon DEF Typed
<1>4. Placed'
  <2>1. Numbered(h2.next, request.number)'
    BY ONLY <1>1, <1>2, Zenon DEF Numbered, Placed
  <2>2. (Active => conn.stream + 2 = h2.next /\ conn.stream \in Streams)'
    BY ONLY <1>1, <1>2, Zenon DEF Active, Placed
  <2> QED BY ONLY <1>1, <1>2, <2>1, <2>2, conn.sock, \A s \in DOMAIN server' : s < h2.next,
             Zenon DEF Placed
<1>5. ResponseWhole'
  BY <1>1 DEF ResponseWhole
<1> QED BY ONLY <1>3, <1>4, <1>5, Heard', InTurn', Told', InWindow', Zenon DEF Http2Inv

LEMMA ServerClosesInv == ASSUME Http2Inv, ServerCloses PROVE Http2Inv'
<1>1. /\ conn.sock /\ eof' = TRUE
      /\ UNCHANGED <<pc, request, left, conn, h2, out, in, server, reading, response>>
  BY DEF ServerCloses
<1>2. /\ pc' = pc /\ request' = request /\ left' = left /\ conn' = conn /\ h2' = h2
      /\ reading' = reading /\ response' = response /\ out' = out /\ in' = in /\ server' = server
  BY <1>1
<1>3. Wire' = Wire /\ View(server)' = View(server)
  BY ONLY <1>2, Zenon DEF Wire, View
<1>4. Heard'
  <2>1. PICK L : Leads(View(server), Wire, L) /\ Sent(L)
    BY DEF Http2Inv, Heard
  <2>2. Sent(L)'
    BY ONLY <1>2, <2>1, Zenon DEF Sent
  <2>3. Leads(View(server)', Wire', L)
    BY ONLY <1>3, <2>1, Zenon
  <2> QED BY ONLY <2>2, <2>3, Zenon DEF Heard
<1>5. InTurn' /\ Told' /\ InWindow'
  <2>1. InTurn /\ Told /\ InWindow
    BY DEF Http2Inv
  <2> QED BY ONLY <1>2, <1>3, <2>1, Zenon DEF InTurn, Told, InWindow, Active
<1>6. /\ out' \in Seq(Frames) /\ in' \in Seq(Frames) /\ eof' \in BOOLEAN /\ IsServer(server')
      /\ \A s \in DOMAIN server' : s < h2.next
  BY <1>1, <1>2 DEF Http2Inv, Typed, Placed
<1> QED BY ONLY Http2Inv, <1>1, <1>4, <1>5, <1>6, ServedInv

(* What the server makes of a frame it reads.                               *)
Makes(streams, f) ==
  IF f.type = "HEADERS" THEN Opened(streams, f)
    ELSE IF f.type = "DATA" THEN Filled(streams, f) ELSE streams

TurnOf(w, streams) ==
  IF Active
    THEN /\ OpensOnly(w, conn.stream)
         /\ conn.stream \in DOMAIN streams => NoneOpens(w)
         /\ AllAnswered(streams, {conn.stream})
    ELSE NoneOpens(w) /\ AllAnswered(streams, {})

Made(f, streams) ==
  /\ View(streams) = Sees(View(server), f) /\ IsServer(streams)
  /\ \A s \in DOMAIN streams : s < h2.next
  /\ TurnOf(Tail(Wire), streams)
  /\ \A l : Matches(l, conn.stream, server) => Matches(l, conn.stream, streams)

LEMMA WireIs ==
    ASSUME Typed, out # <<>>
    PROVE  /\ Wire \in Seq(Frames) /\ Wire # <<>> /\ Head(Wire) = Head(out)
           /\ Head(out) \in Frames /\ Tail(out) \in Seq(Frames)
           /\ Tail(Wire) = Tail(out) \o h2.queued
<1>1. out \in Seq(Frames) /\ h2.queued \in Seq(Frames)
  BY H2Is
<1> QED BY ONLY <1>1, out # <<>>, TailConcat, Zenon DEF Wire

LEMMA MadeInv ==
    ASSUME Http2Inv, out # <<>>
    PROVE  Made(Head(out), Makes(server, Head(out)))
<1>1. Typed /\ Placed /\ InTurn
  BY DEF Http2Inv
<1>2. PICK f, w, rest : f = Head(out) /\ w = Wire /\ rest = Tail(Wire)
  OBVIOUS
<1>3. w \in Seq(Frames) /\ w # <<>> /\ f = Head(w) /\ f \in Frames /\ rest = Tail(w)
  BY ONLY <1>1, <1>2, out # <<>>, WireIs, Zenon
<1>4. IsServer(server) /\ \A s \in DOMAIN server : s < h2.next
  BY ONLY <1>1, Zenon DEF Typed, Placed
<1>5. TurnOf(w, server)
  BY ONLY <1>1, <1>2, Zenon DEF InTurn, TurnOf
<1>6. CASE f.type = "HEADERS"
  <2>1. ~NoneOpens(w)
    BY ONLY <1>3, <1>6, OpensTail, Zenon
  <2>2. /\ Active /\ OpensOnly(w, conn.stream) /\ conn.stream \notin DOMAIN server
        /\ AllAnswered(server, {conn.stream})
    BY ONLY <1>5, <2>1, Zenon DEF TurnOf
  <2>3. f.stream = conn.stream /\ NoneOpens(rest) /\ OpensOnly(rest, conn.stream)
    BY ONLY <1>3, <1>6, <2>2, OpensTail, Zenon
  <2>4. conn.stream \in Streams /\ conn.stream + 2 = h2.next /\ conn.stream \in Nat
    BY <1>1, <2>2, StreamIs DEF Placed
  <2>5. conn.stream < h2.next
    BY <2>4
  <2>6. PICK o : o = Opened(server, f)
    OBVIOUS
  <2>7. /\ View(o) = Sees(View(server), f) /\ IsServer(o)
        /\ DOMAIN o = DOMAIN server \cup {f.stream}
        /\ o[f.stream].answer = "none" /\ o[f.stream].sent = 0
        /\ \A s \in DOMAIN server : s # f.stream => o[s] = server[s]
    BY ONLY <1>3, <1>4, <1>6, <2>3, <2>4, <2>6, OpenedIs, Zenon
  <2>8. \A s \in DOMAIN o : s < h2.next
    BY ONLY <1>4, <2>3, <2>5, <2>7, Zenon
  <2>9. AllAnswered(o, {conn.stream})
    BY ONLY <2>2, <2>3, <2>7, Zenon DEF AllAnswered
  <2>10. TurnOf(rest, o)
    BY ONLY <2>2, <2>3, <2>9, Zenon DEF TurnOf
  <2>11. ASSUME NEW l, Matches(l, conn.stream, server) PROVE Matches(l, conn.stream, o)
    <3>1. conn.stream \in DOMAIN o /\ o[conn.stream].answer = "none" /\ o[conn.stream].sent = 0
      BY ONLY <2>3, <2>7, Zenon
    <3>2. ~l.ended /\ l.size = 0
      BY ONLY <2>2, <2>11, Zenon DEF Matches
    <3>3. o[conn.stream].answer # "ended" /\ o[conn.stream].answer \notin {"headers", "ended"}
      BY <3>1
    <3> QED BY ONLY <3>1, <3>2, <3>3, Zenon DEF Matches
  <2>12. Made(f, o)
    BY ONLY <1>2, <2>7, <2>8, <2>10, <2>11, Zenon DEF Made
  <2> QED BY ONLY <1>2, <1>6, <2>6, <2>12, Zenon DEF Makes
<1>7. CASE f.type # "HEADERS"
  <2>1. TurnOf(rest, server)
    BY ONLY <1>3, <1>5, OpensTail, Zenon DEF TurnOf
  <2>2. CASE f.type = "DATA"
    <3>1. PICK o : o = Filled(server, f)
      OBVIOUS
    <3>2. /\ View(o) = Sees(View(server), f) /\ IsServer(o) /\ DOMAIN o = DOMAIN server
          /\ \A s \in DOMAIN server : /\ o[s].answer = server[s].answer
                                      /\ o[s].sent = server[s].sent
      BY ONLY <1>3, <1>4, <2>2, <3>1, FilledIs, Zenon
    <3>3. TurnOf(rest, o)
      BY ONLY <2>1, <3>2, Zenon DEF TurnOf, AllAnswered
    <3>4. ASSUME NEW l, Matches(l, conn.stream, server) PROVE Matches(l, conn.stream, o)
      BY ONLY <3>2, <3>4, Zenon DEF Matches
    <3>5. Made(f, o)
      BY ONLY <1>2, <1>4, <3>2, <3>3, <3>4, Zenon DEF Made
    <3> QED BY ONLY <1>2, <1>7, <2>2, <3>1, <3>5, Zenon DEF Makes
  <2>3. CASE f.type # "DATA"
    <3>1. View(server) = Sees(View(server), f)
      BY ONLY <1>7, <2>3, Zenon DEF Sees
    <3>2. Made(f, server)
      BY ONLY <1>2, <1>4, <2>1, <3>1, Zenon DEF Made
    <3> QED BY ONLY <1>2, <1>7, <2>3, <3>2, Zenon DEF Makes
  <2> QED BY <2>2, <2>3
<1> QED BY <1>6, <1>7

(* A frame the server grants, for one it has read.                          *)
Grants(f, g) ==
  g \in Frames /\ Quiet(g) /\ Weight("WINDOW_UPDATE", g) <= Weight("DATA", f)

LEMMA ReadsInv ==
    ASSUME Http2Inv, out # <<>>, out' = Tail(out), server' = Makes(server, Head(out)),
           in' = in \/ \E g : Grants(Head(out), g) /\ in' = Append(in, g),
           UNCHANGED <<pc, request, left, conn, h2, eof, reading, response>>
    PROVE  Http2Inv'
<1>1. Typed /\ Placed
  BY DEF Http2Inv
<1>2. /\ pc' = pc /\ request' = request /\ left' = left /\ conn' = conn /\ h2' = h2
      /\ reading' = reading /\ response' = response /\ eof' = eof
  OBVIOUS
<1>3. PICK f : f = Head(out)
  OBVIOUS
<1>4. /\ Wire \in Seq(Frames) /\ Wire # <<>> /\ f = Head(Wire) /\ f \in Frames
      /\ Tail(out) \in Seq(Frames) /\ Tail(Wire) = Tail(out) \o h2.queued
  BY ONLY <1>1, <1>3, out # <<>>, WireIs, Zenon
<1>5. Wire' = Tail(Wire) /\ out' \in Seq(Frames) /\ in \in Seq(Frames)
  BY ONLY <1>1, <1>2, <1>4, out' = Tail(out), Zenon DEF Wire, Typed
<1>6. Made(f, server')
  BY ONLY Http2Inv, <1>3, out # <<>>, server' = Makes(server, Head(out)), MadeInv, Zenon
<1>7. /\ View(server') = Sees(View(server), f) /\ IsServer(server')
      /\ \A s \in DOMAIN server' : s < h2.next
  BY ONLY <1>6, Zenon DEF Made
<1>8. conn.sock /\ eof' \in BOOLEAN
  BY <1>1, <1>2 DEF Typed, Placed, Fresh
<1>9. Heard'
  <2>1. PICK L : Leads(View(server), Wire, L) /\ Sent(L)
    BY DEF Http2Inv, Heard
  <2>2. Leads(Sees(View(server), f), Tail(Wire), L)
    BY ONLY <1>4, <2>1, LeadsTail, Zenon
  <2>3. Leads(View(server'), Wire', L)
    BY ONLY <1>5, <1>7, <2>2, Zenon
  <2>4. Leads(View(server)', Wire', L)
    BY ONLY <2>3, Zenon DEF View
  <2>5. Sent(L)'
    BY ONLY <1>2, <2>1, Zenon DEF Sent
  <2> QED BY ONLY <2>4, <2>5, Zenon DEF Heard
<1>10. InTurn'
  <2>1. TurnOf(Tail(Wire), server')
    BY ONLY <1>6, Zenon DEF Made
  <2> QED BY ONLY <1>2, <1>5, <2>1, Zenon DEF InTurn, TurnOf, Active
<1>11. in' \in Seq(Frames)
  <2>1. CASE in' = in
    BY <1>5, <2>1
  <2>2. CASE \E g : Grants(f, g) /\ in' = Append(in, g)
    <3>1. PICK g \in Frames : in' = Append(in, g)
      BY <2>2 DEF Grants
    <3> QED BY <1>5, <3>1, AppendIs
  <2> QED BY <1>3, <2>1, <2>2
<1>12. Told'
  <2>1. CASE Active
    <3>1. PICK l : Tells(reading, in, l) /\ Matches(l, conn.stream, server)
      BY <2>1 DEF Http2Inv, Told
    <3>2. Matches(l, conn.stream, server')
      BY ONLY <1>6, <3>1, Zenon DEF Made
    <3>3. Tells(reading, in', l)
      <4>1. CASE in' = in
        BY ONLY <3>1, <4>1, Zenon
      <4>2. CASE \E g : Grants(f, g) /\ in' = Append(in, g)
        <5>1. PICK g : g \in Frames /\ Quiet(g) /\ in' = Append(in, g)
          BY <4>2 DEF Grants
        <5>2. Tells(reading, Append(in, g), l)
          BY ONLY <1>5, <3>1, <5>1, TellsAppendQuiet, Zenon
        <5> QED BY ONLY <5>1, <5>2, Zenon
      <4> QED BY <1>3, <4>1, <4>2
    <3> QED BY ONLY <1>2, <2>1, <3>2, <3>3, Zenon DEF Told, Active, Matches
  <2>2. CASE ~Active
    <3>1. AllQuiet(in)
      BY <2>2 DEF Http2Inv, Told
    <3>2. AllQuiet(in')
      <4>1. CASE in' = in
        BY ONLY <3>1, <4>1, Zenon
      <4>2. CASE \E g : Grants(f, g) /\ in' = Append(in, g)
        <5>1. PICK g : g \in Frames /\ Quiet(g) /\ in' = Append(in, g)
          BY <4>2 DEF Grants
        <5>2. AllQuiet(Append(in, g))
          BY ONLY <1>5, <3>1, <5>1, QuietAppend, Zenon
        <5> QED BY ONLY <5>1, <5>2, Zenon
      <4> QED BY <1>3, <4>1, <4>2
    <3>3. AllQuiet(in)'
      BY ONLY <3>2, Zenon DEF AllQuiet
    <3> QED BY ONLY <1>2, <2>2, <3>3, Zenon DEF Told, Active
  <2> QED BY <2>1, <2>2
<1>13. InWindow'
  <2>1. PICK d \in Nat, c \in Nat :
          /\ Weighs("DATA", Wire, d) /\ Weighs("WINDOW_UPDATE", in, c)
          /\ h2.window + d + c <= Window
    BY DEF Http2Inv, InWindow
  <2>2. PICK v \in Nat : v = Weight("DATA", f)
    BY <1>4, WeightType
  <2>3. v <= d /\ Weighs("DATA", Tail(Wire), d - v)
    BY ONLY <1>4, <2>1, <2>2, WeighsTail, Zenon
  <2>4. PICK e \in Nat : e = d - v
    BY ONLY <2>1, <2>2, <2>3
  <2>5. \E u \in Nat : u <= v /\ Weighs("WINDOW_UPDATE", in', c + u)
    <3>1. CASE in' = in
      <4>1. 0 <= v /\ c + 0 = c /\ 0 \in Nat
        BY ONLY <2>1, <2>2
      <4> QED BY ONLY <2>1, <3>1, <4>1, Zenon
    <3>2. CASE \E g : Grants(f, g) /\ in' = Append(in, g)
      <4>1. PICK g : /\ g \in Frames /\ in' = Append(in, g)
                     /\ Weight("WINDOW_UPDATE", g) <= Weight("DATA", f)
        BY <3>2 DEF Grants
      <4>2. PICK u \in Nat : u = Weight("WINDOW_UPDATE", g)
        BY <4>1, WeightType
      <4>3. Weighs("WINDOW_UPDATE", Append(in, g), c + Weight("WINDOW_UPDATE", g))
        BY ONLY <1>5, <2>1, <4>1, WeighsAppend, Zenon
      <4> QED BY ONLY <2>2, <4>1, <4>2, <4>3, Zenon
    <3> QED BY <1>3, <3>1, <3>2
  <2>6. PICK u \in Nat : u <= v /\ Weighs("WINDOW_UPDATE", in', c + u)
    BY <2>5
  <2>7. PICK b \in Nat : b = c + u
    BY <2>1
  <2>8. h2.window + e + b <= Window
    <3>1. h2.window \in Nat /\ Window \in Nat
      BY <1>1, H2Is, Http2Assumption
    <3> QED BY ONLY <2>1, <2>2, <2>3, <2>4, <2>6, <2>7, <3>1
  <2>9. Weighs("DATA", Wire', e) /\ Weighs("WINDOW_UPDATE", in', b)
    BY ONLY <1>5, <2>3, <2>4, <2>6, <2>7, Zenon
  <2> QED BY ONLY <1>2, <2>4, <2>7, <2>8, <2>9, Zenon DEF InWindow
<1> QED BY ONLY Http2Inv, <1>2, <1>5, <1>7, <1>8, <1>9, <1>10, <1>11, <1>12, <1>13, ServedInv

LEMMA ServerSettingsInv == ASSUME Http2Inv, ServerSettings PROVE Http2Inv'
<1>1. /\ out # <<>> /\ Head(out).type = "SETTINGS" /\ out' = Tail(out)
      /\ in' = Append(in, Settings) /\ server' = server
      /\ UNCHANGED <<pc, request, left, conn, h2, eof, reading, response>>
  BY DEF ServerSettings
<1>2. server' = Makes(server, Head(out))
  BY <1>1 DEF Makes
<1>3. Grants(Head(out), Settings)
  <2>1. Settings \in Frames /\ Quiet(Settings)
    BY FramesAre
  <2>2. Weight("WINDOW_UPDATE", Settings) = 0
    BY DEF Weight, Settings, Frame
  <2>3. Weight("DATA", Head(out)) = 0
    BY <1>1 DEF Weight
  <2>4. Weight("WINDOW_UPDATE", Settings) <= Weight("DATA", Head(out))
    BY ONLY <2>2, <2>3
  <2> QED BY ONLY <2>1, <2>4, Zenon DEF Grants
<1>4. in' = in \/ \E g : Grants(Head(out), g) /\ in' = Append(in, g)
  BY ONLY <1>1, <1>3, Zenon
<1> QED BY ONLY Http2Inv, <1>1, <1>2, <1>4, ReadsInv

LEMMA ServerReadsInv == ASSUME Http2Inv, ServerReads PROVE Http2Inv'
<1>1. PICK f : f = Head(out)
  OBVIOUS
<1>2. /\ out # <<>> /\ out' = Tail(out)
      /\ CASE f.type = "HEADERS" -> server' = Opened(server, f)
           [] f.type = "DATA" -> server' = Filled(server, f)
           [] OTHER -> server' = server
      /\ in' = in \/ (f.type = "DATA" /\ in' = Append(in, WindowUpdate(f.size)))
      /\ UNCHANGED <<pc, request, left, conn, h2, eof, reading, response>>
  BY <1>1, Zenon DEF ServerReads, Opened, Filled
<1>3. server' = Makes(server, Head(out))
  <2>1. CASE f.type = "HEADERS"
    <3>1. server' = Opened(server, f)
      BY <1>2, <2>1
    <3> QED BY ONLY <1>1, <2>1, <3>1, Zenon DEF Makes
  <2>2. CASE f.type = "DATA"
    <3>1. server' = Filled(server, f) /\ f.type # "HEADERS"
      BY <1>2, <2>2
    <3> QED BY ONLY <1>1, <2>2, <3>1, Zenon DEF Makes
  <2>3. CASE f.type # "HEADERS" /\ f.type # "DATA"
    <3>1. server' = server
      BY ONLY <1>2, <2>3
    <3> QED BY ONLY <1>1, <2>3, <3>1, Zenon DEF Makes
  <2> QED BY <2>1, <2>2, <2>3
<1>4. f \in Frames /\ f.size \in Nat
  <2>1. Typed
    BY DEF Http2Inv
  <2> QED BY <1>1, <1>2, <2>1, WireIs, FrameIs
<1>5. f.type = "DATA" => Grants(f, WindowUpdate(f.size))
  <2>1. WindowUpdate(f.size) \in Frames /\ Quiet(WindowUpdate(f.size))
    BY ONLY <1>4, FramesAre
  <2>2. Weight("WINDOW_UPDATE", WindowUpdate(f.size)) = f.size
    BY DEF Weight, WindowUpdate, Frame
  <2>3. f.type = "DATA" => Weight("DATA", f) = f.size
    BY DEF Weight
  <2>4. f.size <= f.size
    BY <1>4
  <2> QED BY ONLY <2>1, <2>2, <2>3, <2>4, Zenon DEF Grants
<1>6. in' = in \/ \E g : Grants(Head(out), g) /\ in' = Append(in, g)
  BY ONLY <1>1, <1>2, <1>5, Zenon
<1> QED BY ONLY Http2Inv, <1>2, <1>3, <1>6, ReadsInv

(* What getresponse will have gathered, against what one stream has sent.   *)
Agrees(l, s, x) ==
  /\ l.ended <=> x.answer = "ended"
  /\ l.size = x.sent
  /\ x.answer \in {"headers", "ended"} => l.of = s

(* A frame goes with the change it tells of.                                *)
Telling(s, f, x, y) ==
  \A l \in Readings : Agrees(l, s, x) /\ ~l.ended =>
    \/ Quiet(f) /\ Agrees(l, s, y)
    \/ Gathered(l, f) \in Readings /\ Agrees(Gathered(l, f), s, y)

LEMMA AnswersInv ==
    ASSUME Http2Inv, NEW s \in DOMAIN server, server[s].answer \in {"none", "headers"},
           NEW f \in Frames, f.type \notin {"WINDOW_UPDATE"}, NEW y \in ServerStreams,
           SameView(server[s], y), Telling(s, f, server[s], y),
           in' = Append(in, f), server' = [server EXCEPT ![s] = y],
           UNCHANGED <<pc, request, left, conn, h2, out, eof, reading, response>>
    PROVE  Http2Inv'
<1>1. Typed /\ Placed /\ InTurn
  BY DEF Http2Inv
<1>2. /\ pc' = pc /\ request' = request /\ left' = left /\ conn' = conn /\ h2' = h2
      /\ reading' = reading /\ response' = response /\ eof' = eof /\ out' = out
  OBVIOUS
<1>3. IsServer(server) /\ (\A r \in DOMAIN server : r < h2.next) /\ in \in Seq(Frames)
      /\ out \in Seq(Frames) /\ eof \in BOOLEAN
  BY ONLY <1>1, Zenon DEF Typed, Placed
<1>4. PICK after : after = [server EXCEPT ![s] = y]
  OBVIOUS
<1>5. server' = after
  BY <1>4
<1>6. /\ View(after) = View(server) /\ IsServer(after) /\ DOMAIN after = DOMAIN server
      /\ after[s] = y /\ \A r \in DOMAIN server : r # s => after[r] = server[r]
  <2>1. Changed(server, s, y, [server EXCEPT ![s] = y])
    BY ONLY <1>3, SameView(server[s], y), s \in DOMAIN server, y \in ServerStreams,
            ViewOfAnswer, Zenon
  <2> QED BY ONLY <1>4, <2>1, Zenon DEF Changed
<1>7. server[s].answer # "ended"
  OBVIOUS
<1>8. /\ Active /\ s = conn.stream /\ NoneOpens(Wire) /\ OpensOnly(Wire, conn.stream)
      /\ AllAnswered(server, {conn.stream})
  <2>1. ~AllAnswered(server, {})
    BY ONLY <1>7, s \in DOMAIN server, Zenon DEF AllAnswered
  <2>2. Active /\ AllAnswered(server, {conn.stream})
    BY ONLY <1>1, <2>1, Zenon DEF InTurn
  <2>3. s = conn.stream
    BY ONLY <1>7, <2>2, s \in DOMAIN server, Zenon DEF AllAnswered
  <2> QED BY ONLY <1>1, <2>2, <2>3, s \in DOMAIN server, Zenon DEF InTurn
<1>9. in' \in Seq(Frames) /\ out' \in Seq(Frames) /\ eof' \in BOOLEAN
  BY <1>2, <1>3, AppendIs
<1>10. Wire' = Wire /\ View(server)' = View(server)
  <2>1. View(server') = View(server)
    BY ONLY <1>5, <1>6, Zenon
  <2>2. View(server)' = View(server')
    BY Zenon DEF View
  <2> QED BY ONLY <1>2, <2>1, <2>2, Zenon DEF Wire
<1>11. conn.sock
  BY <1>1, <1>8 DEF Placed, Active
<1>12. Heard'
  <2>1. PICK L : Leads(View(server), Wire, L) /\ Sent(L)
    BY DEF Http2Inv, Heard
  <2>2. Sent(L)'
    BY ONLY <1>2, <2>1, Zenon DEF Sent
  <2>3. Leads(View(server)', Wire', L)
    BY ONLY <1>10, <2>1, Zenon
  <2> QED BY ONLY <2>2, <2>3, Zenon DEF Heard
<1>13. InTurn'
  <2>1. AllAnswered(after, {conn.stream})
    BY ONLY <1>6, <1>8, Zenon DEF AllAnswered
  <2> QED BY ONLY <1>2, <1>5, <1>8, <1>10, <2>1, Zenon DEF InTurn, Active
<1>14. Told'
  <2>1. PICK l : Tells(reading, in, l) /\ Matches(l, s, server)
    BY <1>8 DEF Http2Inv, Told
  <2>2. l \in Readings /\ Agrees(l, s, server[s]) /\ ~l.ended
    <3>1. l \in Readings
      BY ONLY <1>3, <2>1, TellsType, Zenon
    <3> QED BY ONLY <1>7, <2>1, <3>1, s \in DOMAIN server, Zenon DEF Matches, Agrees
  <2>3. \E m : Tells(reading, Append(in, f), m) /\ Agrees(m, s, y)
    <3>1. CASE Quiet(f) /\ Agrees(l, s, y)
      <4>1. Tells(reading, Append(in, f), l)
        BY ONLY <1>3, <2>1, <3>1, f \in Frames, TellsAppendQuiet, Zenon
      <4> QED BY ONLY <3>1, <4>1, Zenon
    <3>2. CASE Gathered(l, f) \in Readings /\ Agrees(Gathered(l, f), s, y)
      <4>1. Tells(reading, Append(in, f), Gathered(l, f))
        BY ONLY <1>3, <2>1, <2>2, <3>2, f \in Frames, TellsAppend, Zenon
      <4> QED BY ONLY <3>2, <4>1, Zenon
    <3> QED BY ONLY <2>2, <3>1, <3>2, Telling(s, f, server[s], y), Zenon DEF Telling
  <2>4. PICK m : Tells(reading, in', m) /\ Agrees(m, s, y)
    BY ONLY <2>3, in' = Append(in, f), Zenon
  <2>5. Matches(m, s, after)
    BY ONLY <1>6, <2>4, s \in DOMAIN server, Zenon DEF Matches, Agrees
  <2>6. Matches(m, conn'.stream, server')
    BY ONLY <1>2, <1>5, <1>8, <2>5, Zenon
  <2> QED BY ONLY <1>2, <1>8, <2>4, <2>6, Zenon DEF Told, Active, Matches
<1>15. InWindow'
  <2>1. PICK d \in Nat, c \in Nat :
          /\ Weighs("DATA", Wire, d) /\ Weighs("WINDOW_UPDATE", in, c)
          /\ h2.window + d + c <= Window
    BY DEF Http2Inv, InWindow
  <2>2. Weight("WINDOW_UPDATE", f) = 0
    BY DEF Weight
  <2>3. Weighs("WINDOW_UPDATE", Append(in, f), c + Weight("WINDOW_UPDATE", f))
    BY ONLY <1>3, <2>1, f \in Frames, WeighsAppend, Zenon
  <2>4. c + Weight("WINDOW_UPDATE", f) = c
    BY <2>2
  <2>5. Weighs("WINDOW_UPDATE", in', c)
    BY ONLY <2>3, <2>4, in' = Append(in, f), Zenon
  <2> QED BY ONLY <1>2, <1>10, <2>1, <2>5, Zenon DEF InWindow
<1>16. IsServer(server') /\ \A r \in DOMAIN server' : r < h2.next
  BY ONLY <1>3, <1>5, <1>6, Zenon
<1> QED BY ONLY Http2Inv, <1>2, <1>9, <1>11, <1>12, <1>13, <1>14, <1>15, <1>16, ServedInv

(* The stream a frame of the server is for.                                 *)
LEMMA StreamOf ==
    ASSUME Http2Inv, NEW s \in DOMAIN server
    PROVE  /\ IsServer(server) /\ s \in Nat /\ s \in Streams
           /\ server[s] \in ServerStreams
           /\ server[s].fields \in Seq(Requests) /\ server[s].size \in Nat
           /\ server[s].ended \in BOOLEAN /\ server[s].sent \in Nat
           /\ server[s] = [fields |-> server[s].fields, size |-> server[s].size,
                           ended |-> server[s].ended, answer |-> server[s].answer,
                           sent |-> server[s].sent]
<1>1. IsServer(server)
  BY DEF Http2Inv, Typed
<1>2. s \in Streams
  BY <1>1, ServerIs
<1> QED BY <1>1, <1>2, ServerIs, StreamIs

(* The stream as an answer leaves it.                                       *)
With(x, answer, sent) ==
  [fields |-> x.fields, size |-> x.size, ended |-> x.ended, answer |-> answer, sent |-> sent]

LEMMA WithIs ==
    ASSUME Http2Inv, NEW s \in DOMAIN server, NEW answer \in Answered, NEW sent \in Nat
    PROVE  /\ With(server[s], answer, sent) \in ServerStreams
           /\ SameView(server[s], With(server[s], answer, sent))
           /\ With(server[s], answer, sent).answer = answer
           /\ With(server[s], answer, sent).sent = sent
<1>1. PICK x : x = server[s]
  OBVIOUS
<1>2. x.fields \in Seq(Requests) /\ x.size \in Nat /\ x.ended \in BOOLEAN
  BY <1>1, StreamOf
<1>3. With(x, answer, sent) \in ServerStreams
  BY ONLY <1>2, answer \in Answered, sent \in Nat DEF With, ServerStreams
<1>4. /\ SameView(x, With(x, answer, sent)) /\ With(x, answer, sent).answer = answer
      /\ With(x, answer, sent).sent = sent
  BY DEF With, SameView
<1> QED BY ONLY <1>1, <1>3, <1>4, Zenon

(* The server sends a frame of a stream.                                    *)
Answering(s, f, answer, sent) ==
  /\ Emits(s, f) /\ f \in Frames /\ f.type # "WINDOW_UPDATE"
  /\ server[s].answer \in {"none", "headers"} /\ answer \in Answered /\ sent \in Nat
  /\ server' = [server EXCEPT ![s] = With(server[s], answer, sent)]
  /\ Telling(s, f, server[s], With(server[s], answer, sent))

LEMMA AnsweringInv ==
    ASSUME Http2Inv, NEW s, NEW f, NEW answer, NEW sent, Answering(s, f, answer, sent)
    PROVE  Http2Inv'
<1>1. PICK y : y = With(server[s], answer, sent)
  OBVIOUS
<1>2. /\ Emits(s, f) /\ f \in Frames /\ f.type \notin {"WINDOW_UPDATE"} /\ s \in DOMAIN server
      /\ server[s].answer \in {"none", "headers"} /\ answer \in Answered /\ sent \in Nat
      /\ server' = [server EXCEPT ![s] = y] /\ Telling(s, f, server[s], y)
  BY <1>1 DEF Answering, Emits
<1>3. y \in ServerStreams /\ SameView(server[s], y)
  BY ONLY Http2Inv, <1>1, <1>2, WithIs, Zenon
<1>4. /\ in' = Append(in, f)
      /\ UNCHANGED <<pc, request, left, conn, h2, out, eof, reading, response>>
  BY <1>2 DEF Emits
<1> QED BY ONLY Http2Inv, <1>2, <1>3, <1>4, AnswersInv

LEMMA ServerHeadersInv ==
    ASSUME Http2Inv, NEW s \in Streams, ServerHeaders(s) PROVE Http2Inv'
<1>1. PICK f : f = Headers(s, <<>>, FALSE)
  OBVIOUS
<1>2. /\ Emits(s, f) /\ s \in DOMAIN server /\ server[s].answer = "none"
      /\ server' = [server EXCEPT ![s].answer = "headers"]
  BY <1>1 DEF ServerHeaders, Emits
<1>3. PICK x : x = server[s]
  OBVIOUS
<1>4. /\ x = [fields |-> x.fields, size |-> x.size, ended |-> x.ended, answer |-> x.answer,
              sent |-> x.sent]
      /\ x.sent \in Nat /\ s \in Nat
  BY <1>2, <1>3, StreamOf
<1>5. PICK y : y = With(x, "headers", x.sent)
  OBVIOUS
<1>6. y.answer = "headers" /\ y.sent = x.sent
  BY <1>5 DEF With
<1>7. server' = [server EXCEPT ![s] = y]
  <2>1. [x EXCEPT !.answer = "headers"] = y
    BY ONLY <1>4, <1>5 DEF With
  <2> QED BY ONLY <1>2, <1>3, <2>1
<1>8. f \in Frames /\ f.type = "HEADERS" /\ f.stream = s /\ f.end = FALSE
  <2>1. <<>> \in Seq(Requests) /\ FALSE \in BOOLEAN
    BY EmptySeq
  <2>2. f \in Frames
    BY ONLY <1>1, <1>4, <2>1, FramesAre, Zenon
  <2> QED BY <1>1, <2>2 DEF Headers, Frame
<1>9. ASSUME NEW l \in Readings, Agrees(l, s, x), ~l.ended
      PROVE  Gathered(l, f) \in Readings /\ Agrees(Gathered(l, f), s, y)
  <2>1. l.size \in Nat /\ l.ended \in BOOLEAN /\ l.size = x.sent
    BY <1>9, ReadingIs DEF Agrees
  <2>2. PICK m : m = [of |-> s, size |-> l.size, ended |-> FALSE]
    OBVIOUS
  <2>3. Gathered(l, f) = m
    <3>1. (l.ended \/ f.end) = FALSE
      BY <1>8, <1>9, <2>1
    <3>2. l.size + (IF f.type = "DATA" THEN f.size ELSE 0) = l.size
      BY <1>8, <2>1
    <3>3. (IF f.type = "HEADERS" THEN f.stream ELSE l.of) = s
      BY <1>8
    <3> QED BY ONLY <2>2, <3>1, <3>2, <3>3, Zenon DEF Gathered
  <2>4. m \in Readings /\ Agrees(m, s, y)
    BY <1>6, <2>1, <2>2 DEF Readings, Agrees
  <2> QED BY ONLY <2>3, <2>4, Zenon
<1>10. Telling(s, f, x, y)
  BY ONLY <1>9, Zenon DEF Telling
<1>11. x.answer \in {"none", "headers"} /\ "headers" \in Answered
  BY <1>2, <1>3, <1>8 DEF Answered
<1>12. f.type # "WINDOW_UPDATE" /\ x.sent \in Nat
  BY <1>4, <1>5, <1>8
<1>13. Answering(s, f, "headers", x.sent)
  BY ONLY <1>2, <1>3, <1>5, <1>7, <1>8, <1>10, <1>11, <1>12, Zenon DEF Answering
<1> QED BY ONLY Http2Inv, <1>13, AnsweringInv, Zenon

LEMMA ServerDataInv ==
    ASSUME Http2Inv, NEW s \in Streams, ServerData(s) PROVE Http2Inv'
<1>1. PICK f : f = Data(s, 1, FALSE)
  OBVIOUS
<1>2. /\ Emits(s, f) /\ s \in DOMAIN server /\ server[s].answer = "headers"
      /\ server' = [server EXCEPT ![s].sent = @ + 1]
  BY <1>1 DEF ServerData, Emits
<1>3. PICK x : x = server[s]
  OBVIOUS
<1>4. /\ x = [fields |-> x.fields, size |-> x.size, ended |-> x.ended, answer |-> x.answer,
              sent |-> x.sent]
      /\ x.sent \in Nat /\ s \in Nat
  BY <1>2, <1>3, StreamOf
<1>5. PICK n, y : n \in Nat /\ n = x.sent + 1 /\ y = With(x, "headers", n)
  BY <1>4
<1>6. y.answer = "headers" /\ y.sent = n
  BY <1>5 DEF With
<1>7. server' = [server EXCEPT ![s] = y]
  <2>1. [x EXCEPT !.sent = @ + 1] = y
    BY ONLY <1>2, <1>3, <1>4, <1>5 DEF With
  <2> QED BY ONLY <1>2, <1>3, <2>1
<1>8. f \in Frames /\ f.type = "DATA" /\ f.size = 1 /\ f.end = FALSE
  <2>1. 1 \in Nat /\ FALSE \in BOOLEAN
    OBVIOUS
  <2>2. f \in Frames
    BY ONLY <1>1, <1>4, <2>1, FramesAre, Zenon
  <2> QED BY <1>1, <2>2 DEF Data, Frame
<1>9. ASSUME NEW l \in Readings, Agrees(l, s, x), ~l.ended
      PROVE  Gathered(l, f) \in Readings /\ Agrees(Gathered(l, f), s, y)
  <2>1. /\ l.size \in Nat /\ l.ended \in BOOLEAN /\ l.size = x.sent
        /\ l.of \in {0} \cup Streams /\ l.of = s
    BY <1>2, <1>3, <1>9, ReadingIs DEF Agrees
  <2>2. PICK m : m = [of |-> l.of, size |-> l.size + 1, ended |-> FALSE]
    OBVIOUS
  <2>3. Gathered(l, f) = m
    <3>1. (l.ended \/ f.end) = FALSE
      BY <1>8, <1>9, <2>1
    <3>2. l.size + (IF f.type = "DATA" THEN f.size ELSE 0) = l.size + 1
      BY <1>8, <2>1
    <3>3. (IF f.type = "HEADERS" THEN f.stream ELSE l.of) = l.of
      BY <1>8
    <3> QED BY ONLY <2>2, <3>1, <3>2, <3>3, Zenon DEF Gathered
  <2>4. m \in Readings /\ Agrees(m, s, y)
    BY <1>5, <1>6, <2>1, <2>2 DEF Readings, Agrees
  <2> QED BY ONLY <2>3, <2>4, Zenon
<1>10. Telling(s, f, x, y)
  BY ONLY <1>9, Zenon DEF Telling
<1>11. x.answer \in {"none", "headers"} /\ "headers" \in Answered
  BY <1>2, <1>3, <1>8 DEF Answered
<1>12. f.type # "WINDOW_UPDATE" /\ n \in Nat
  BY <1>4, <1>5, <1>8
<1>13. Answering(s, f, "headers", n)
  BY ONLY <1>2, <1>3, <1>5, <1>7, <1>8, <1>10, <1>11, <1>12, Zenon DEF Answering
<1> QED BY ONLY Http2Inv, <1>13, AnsweringInv, Zenon

LEMMA ServerEndsInv ==
    ASSUME Http2Inv, NEW s \in Streams, ServerEnds(s) PROVE Http2Inv'
<1>1. PICK f : f = Data(s, 0, TRUE)
  OBVIOUS
<1>2. /\ Emits(s, f) /\ s \in DOMAIN server /\ server[s].answer = "headers"
      /\ server' = [server EXCEPT ![s].answer = "ended"]
  BY <1>1 DEF ServerEnds, Emits
<1>3. PICK x : x = server[s]
  OBVIOUS
<1>4. /\ x = [fields |-> x.fields, size |-> x.size, ended |-> x.ended, answer |-> x.answer,
              sent |-> x.sent]
      /\ x.sent \in Nat /\ s \in Nat
  BY <1>2, <1>3, StreamOf
<1>5. PICK y : y = With(x, "ended", x.sent)
  OBVIOUS
<1>6. y.answer = "ended" /\ y.sent = x.sent
  BY <1>5 DEF With
<1>7. server' = [server EXCEPT ![s] = y]
  <2>1. [x EXCEPT !.answer = "ended"] = y
    BY ONLY <1>4, <1>5 DEF With
  <2> QED BY ONLY <1>2, <1>3, <2>1
<1>8. f \in Frames /\ f.type = "DATA" /\ f.size = 0 /\ f.end = TRUE
  <2>1. 0 \in Nat /\ TRUE \in BOOLEAN
    OBVIOUS
  <2>2. f \in Frames
    BY ONLY <1>1, <1>4, <2>1, FramesAre, Zenon
  <2> QED BY <1>1, <2>2 DEF Data, Frame
<1>9. ASSUME NEW l \in Readings, Agrees(l, s, x), ~l.ended
      PROVE  Gathered(l, f) \in Readings /\ Agrees(Gathered(l, f), s, y)
  <2>1. /\ l.size \in Nat /\ l.ended \in BOOLEAN /\ l.size = x.sent
        /\ l.of \in {0} \cup Streams /\ l.of = s
    BY <1>2, <1>3, <1>9, ReadingIs DEF Agrees
  <2>2. PICK m : m = [of |-> l.of, size |-> l.size, ended |-> TRUE]
    OBVIOUS
  <2>3. Gathered(l, f) = m
    <3>1. (l.ended \/ f.end) = TRUE
      BY <1>8, <1>9, <2>1
    <3>2. l.size + (IF f.type = "DATA" THEN f.size ELSE 0) = l.size
      BY <1>8, <2>1
    <3>3. (IF f.type = "HEADERS" THEN f.stream ELSE l.of) = l.of
      BY <1>8
    <3> QED BY ONLY <2>2, <3>1, <3>2, <3>3, Zenon DEF Gathered
  <2>4. m \in Readings /\ Agrees(m, s, y)
    BY <1>6, <2>1, <2>2 DEF Readings, Agrees
  <2> QED BY ONLY <2>3, <2>4, Zenon
<1>10. Telling(s, f, x, y)
  BY ONLY <1>9, Zenon DEF Telling
<1>11. x.answer \in {"none", "headers"} /\ "ended" \in Answered
  BY <1>2, <1>3, <1>8 DEF Answered
<1>12. f.type # "WINDOW_UPDATE" /\ x.sent \in Nat
  BY <1>4, <1>5, <1>8
<1>13. Answering(s, f, "ended", x.sent)
  BY ONLY <1>2, <1>3, <1>5, <1>7, <1>8, <1>10, <1>11, <1>12, Zenon DEF Answering
<1> QED BY ONLY Http2Inv, <1>13, AnsweringInv, Zenon

LEMMA ServerResetsInv ==
    ASSUME Http2Inv, NEW s \in Streams, ServerResets(s) PROVE Http2Inv'
<1>1. PICK f : f = Frame("RST_STREAM", s, <<>>, 0, FALSE)
  OBVIOUS
<1>2. /\ Emits(s, f) /\ s \in DOMAIN server /\ server[s].answer \in {"none", "headers"}
      /\ server' = [server EXCEPT ![s].answer = "reset"]
  BY <1>1 DEF ServerResets, Emits
<1>3. PICK x : x = server[s]
  OBVIOUS
<1>4. /\ x = [fields |-> x.fields, size |-> x.size, ended |-> x.ended, answer |-> x.answer,
              sent |-> x.sent]
      /\ x.sent \in Nat /\ s \in Nat
  BY <1>2, <1>3, StreamOf
<1>5. PICK y : y = With(x, "reset", x.sent)
  OBVIOUS
<1>6. y.answer = "reset" /\ y.sent = x.sent
  BY <1>5 DEF With
<1>7. server' = [server EXCEPT ![s] = y]
  <2>1. [x EXCEPT !.answer = "reset"] = y
    BY ONLY <1>4, <1>5 DEF With
  <2> QED BY ONLY <1>2, <1>3, <2>1
<1>8. f \in Frames /\ Quiet(f) /\ f.type = "RST_STREAM"
  <2>1. f \in Frames /\ Quiet(f)
    BY ONLY <1>1, <1>4, FramesAre, Zenon
  <2> QED BY <1>1, <2>1 DEF Frame
<1>9. ASSUME NEW l \in Readings, Agrees(l, s, x), ~l.ended
      PROVE  Agrees(l, s, y)
  BY <1>6, <1>9 DEF Agrees
<1>10. Telling(s, f, x, y)
  BY ONLY <1>8, <1>9, Zenon DEF Telling
<1>11. "reset" \in Answered
  BY <1>8 DEF Answered
<1>12. f.type # "WINDOW_UPDATE" /\ x.sent \in Nat
  BY <1>4, <1>5, <1>8
<1>13. Answering(s, f, "reset", x.sent)
  BY ONLY <1>2, <1>3, <1>5, <1>7, <1>8, <1>10, <1>11, <1>12, Zenon DEF Answering
<1> QED BY ONLY Http2Inv, <1>13, AnsweringInv, Zenon

LEMMA Http2NextInv == Http2Inv /\ [Next]_vars => Http2Inv'
<1> SUFFICES ASSUME Http2Inv, [Next]_vars PROVE Http2Inv'
  OBVIOUS
<1>1. CASE \E body \in Bodies : Urlopen(body)
  BY <1>1, UrlopenInv
<1>2. CASE Connect
  BY <1>2, ConnectInv
<1>3. CASE PutRequest
  BY <1>3, PutRequestInv
<1>4. CASE EndHeaders
  BY <1>4, EndHeadersInv
<1>5. CASE SendBytes
  BY <1>5, SendBytesInv
<1>6. CASE SendChunk
  BY <1>6, SendChunkInv
<1>7. CASE EndStream
  BY <1>7, EndStreamInv
<1>8. CASE Receive
  BY <1>8, ReceiveInv
<1>9. CASE Spin
  BY <1>9, SpinInv
<1>10. CASE Fail
  BY <1>10, FailInv
<1>11. CASE ServerSettings
  BY <1>11, ServerSettingsInv
<1>12. CASE ServerReads
  BY <1>12, ServerReadsInv
<1>13. CASE ServerCloses
  BY <1>13, ServerClosesInv
<1>14. ASSUME NEW s \in Streams,
              ServerHeaders(s) \/ ServerData(s) \/ ServerEnds(s) \/ ServerResets(s)
       PROVE  Http2Inv'
  BY <1>14, ServerHeadersInv, ServerDataInv, ServerEndsInv, ServerResetsInv
<1>15. CASE UNCHANGED vars
  <2>1. /\ pc' = pc /\ request' = request /\ left' = left /\ conn' = conn /\ h2' = h2
        /\ out' = out /\ in' = in /\ server' = server /\ eof' = eof
        /\ reading' = reading /\ response' = response
    BY <1>15 DEF vars
  <2>2. Typed' /\ Placed'
    <3>1. Typed /\ Placed
      BY DEF Http2Inv
    <3> QED BY ONLY <2>1, <3>1, Zenon
            DEF Typed, IsServer, Placed, Fresh, Numbered, Active
  <2>3. Heard' /\ InTurn' /\ Told' /\ InWindow' /\ ResponseWhole'
    <3>1. Heard /\ InTurn /\ Told /\ InWindow /\ ResponseWhole
      BY DEF Http2Inv
    <3>2. Wire' = Wire /\ View(server)' = View(server)
      BY ONLY <2>1, Zenon DEF Wire, View
    <3>3. Heard'
      <4>1. PICK L : Leads(View(server), Wire, L) /\ Sent(L)
        BY <3>1 DEF Heard
      <4>2. Sent(L)'
        BY ONLY <2>1, <4>1, Zenon DEF Sent
      <4>3. Leads(View(server)', Wire', L)
        BY ONLY <3>2, <4>1, Zenon
      <4> QED BY ONLY <4>2, <4>3, Zenon DEF Heard
    <3> QED BY ONLY <2>1, <3>1, <3>2, <3>3, Zenon
            DEF InTurn, Told, InWindow, ResponseWhole, Active
  <2> QED BY ONLY <2>2, <2>3, Zenon DEF Http2Inv
<1> QED BY ONLY <1>1, <1>2, <1>3, <1>4, <1>5, <1>6, <1>7, <1>8, <1>9, <1>10, <1>11, <1>12,
           <1>13, <1>14, <1>15, [Next]_vars, Zenon DEF Next, Client, Server

(***************************************************************************)
(* The theorems of the connection                                           *)
(***************************************************************************)
LEMMA InvTypeOK == Http2Inv => TypeOK
<1> SUFFICES ASSUME Http2Inv PROVE TypeOK
  OBVIOUS
<1>1. Typed /\ Placed /\ InWindow
  BY DEF Http2Inv
<1>2. /\ pc \in Stages /\ request \in Requests /\ left \in Nat /\ eof \in BOOLEAN
      /\ DOMAIN server \subseteq Streams
  BY <1>1, ServerIs DEF Typed
<1>3. /\ conn.sock \in BOOLEAN /\ conn.stream \in {0} \cup Streams
      /\ conn.fields \in Seq(Requests)
  BY <1>1, ConnIs
<1>4. h2.next \in Nat /\ h2.next % 2 = 1
  <2>1. PICK j \in Nat : h2.next = 2 * j + 1
    BY <1>1, <1>2, RequestIs DEF Placed, Numbered
  <2> QED BY <2>1
<1>5. h2.window \in 0..Window
  <2>1. PICK d \in Nat, c \in Nat : h2.window + d + c <= Window
    BY <1>1 DEF InWindow
  <2>2. h2.window \in Nat /\ Window \in Nat
    BY <1>1, H2Is, Http2Assumption
  <2> QED BY <2>1, <2>2
<1>6. reading.of \in {0} \cup Streams /\ reading.size \in Nat
  BY <1>1, ReadingIs DEF Typed
<1> QED BY ONLY <1>2, <1>3, <1>4, <1>5, <1>6, Zenon DEF TypeOK, Stages

LEMMA InvRequestWhole == Http2Inv => RequestWhole
<1> SUFFICES ASSUME Http2Inv, NEW s \in DOMAIN server
             PROVE  /\ Len(server[s].fields) = 1
                    /\ server[s].ended => server[s].size = server[s].fields[1].body.size
  BY DEF RequestWhole
<1>1. PICK L : Leads(View(server), Wire, L)
  BY DEF Http2Inv, Heard
<1>2. Wire \in Seq(Frames)
  BY H2Is DEF Http2Inv
<1>3. IsView(View(server))
  BY ONLY <1>1, <1>2, LeadsType, Zenon
<1>4. PICK e : e = View(server)[s]
  OBVIOUS
<1>5. e = Entry(server[s].fields, server[s].size, server[s].ended)
  BY <1>4 DEF View
<1>6. e \in WholeRequests
  <2>1. s \in DOMAIN View(server)
    BY DEF View
  <2> QED BY <1>3, <1>4, <2>1 DEF IsView
<1>7. PICK q \in Requests : e.fields = <<q>> /\ (e.ended => e.size = q.body.size)
  BY <1>6 DEF WholeRequests, IsRequest
<1>8. e.fields = server[s].fields /\ e.size = server[s].size /\ e.ended = server[s].ended
  BY <1>5 DEF Entry
<1>9. server[s].fields = <<q>> /\ (server[s].ended => server[s].size = q.body.size)
  BY ONLY <1>7, <1>8, Zenon
<1>10. Len(<<q>>) = 1 /\ <<q>>[1] = q
  OBVIOUS
<1> QED BY ONLY <1>9, <1>10, Zenon

(* What follows holds of the frames on their way, of the server's streams   *)
(* and of what getresponse has gathered, after any sequence of requests,    *)
(* errors and answers.                                                      *)
THEOREM Http2Invariance == Spec => []Http2Inv
BY Http2InitInv, Http2NextInv, PTL DEF Spec

(* Streams have odd numbers within those of the requests, and h2's window is *)
(* never above the one it began with, nor below zero.                       *)
THEOREM Http2TypeCorrect == Spec => []TypeOK
BY Http2Invariance, InvTypeOK, PTL

(* What the server takes for a request is the fields of one request, and    *)
(* once the stream has ended its whole body: putrequest, putheader, send    *)
(* and close never mix two requests of a connection.                        *)
THEOREM RequestsWhole == Spec => []RequestWhole
BY Http2Invariance, InvRequestWhole, PTL

(* getresponse returns the response of its own stream, with all its data,   *)
(* although it looks at no stream number.                                   *)
THEOREM ResponsesWhole == Spec => []ResponseWhole
<1>1. Http2Inv => ResponseWhole
  BY DEF Http2Inv
<1> QED BY <1>1, Http2Invariance, PTL
================================================================================
