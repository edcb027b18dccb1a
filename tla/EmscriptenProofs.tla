--------------------------- MODULE EmscriptenProofs ---------------------------
(***************************************************************************)
(* Proofs about EmscriptenStream, for any requests, bodies, buffers and    *)
(* reads: what a caller is given, and what is left behind when it stops.   *)
(***************************************************************************)
EXTENDS EmscriptenStream, FiniteSetTheorems, SequenceTheorems, TLAPS

(***************************************************************************)
(* The inductive invariant.  Python and the worker take turns: what is     *)
(* known of a request depends on where its call is.                        *)
(***************************************************************************)
Pcs == {"idle", "send", "read", "wait"}
Streams == [state : {"none", "open", "closed"}, live : BOOLEAN, len : Nat, pos : Nat]
Connections == [value : Seq(Nat), curOffset : Nat \cup {-1}]
Messages == [do : {"fetch", "getMore", "close"}, r : Requests]
Ways == {"none", "worker", "whole", "jspi"}
Ends == {"no", "end", "error", "timeout", "closed", "lost"}
Waits == {<<>>, <<"fetch">>, <<"read">>}

Types ==
  /\ size \in [Requests -> 0 .. MaxSize]
  /\ py \in [pc : Pcs, r : Requests \cup {"none"}, amt : Asks \cup {All}]
  /\ via \in [Requests -> Ways]
  /\ int0 \in [Requests -> -4 .. Capacity] /\ bytes \in [Requests -> Seq(Nat)]
  /\ stream \in [Requests -> Streams]
  /\ held \in [Requests -> BOOLEAN] /\ free \in Nat
  /\ inbox \in Seq(Messages)
  /\ awaiting \in [Requests -> Waits]
  /\ connections \in [Requests -> Connections]
  /\ given \in [Requests -> Nat]
  /\ falling = Nobody \/ falling \in [r : Requests, undefined : BOOLEAN]
  /\ got \in [Requests -> Seq(Nat)]
  /\ ended \in [Requests -> Ends]
  /\ broke \in [Requests -> BOOLEAN]

(* Where the call of a request is.                                         *)
At(r, pc) == py.pc = pc /\ py.r = r
Posted(r, what) == \E i \in DOMAIN inbox : inbox[i] = [do |-> what, r |-> r]
Once == \A i, j \in DOMAIN inbox : inbox[i] = inbox[j] => i = j
Falls(r) == falling # Nobody /\ falling.r = r /\ ~falling.undefined
Unfetched(r) == ~Posted(r, "fetch") /\ awaiting[r] # <<"fetch">>
Unasked(r) == ~Posted(r, "getMore") /\ awaiting[r] # <<"read">>

(* Everything the worker has and holds is made of the body's units.        *)
UnitsOf(r) ==
  /\ given[r] <= size[r]
  /\ \A i \in 1 .. Len(bytes[r]) : bytes[r][i] \in 1 .. size[r]
  /\ Len(got[r]) <= size[r] /\ \A i \in 1 .. Len(got[r]) : got[r][i] = i
  /\ connections[r].curOffset <= Len(connections[r].value)
  /\ connections[r] # NoConnection =>
       /\ connections[r].curOffset >= 0
       /\ Len(connections[r].value) <= given[r]
       /\ \A i \in 1 .. Len(connections[r].value) :
            connections[r].value[i] = given[r] - Len(connections[r].value) + i

(* The units of a request the worker has put into its buffer.              *)
Delivered(r, n) ==
  /\ connections[r] # NoConnection
  /\ given[r] - Len(connections[r].value) + connections[r].curOffset = n

(* The next n units stand in the buffer behind p.                          *)
Ready(r, p, n) ==
  /\ p + n <= Len(bytes[r])
  /\ \A i \in 1 .. n : bytes[r][p + i] = Len(got[r]) + i

(* The one question of a waiting caller is on its way or with the reader.  *)
Asked(r) ==
  \/ Posted(r, "getMore") /\ awaiting[r] = <<>>
  \/ /\ ~Posted(r, "getMore") /\ awaiting[r] = <<"read">>
     /\ connections[r].curOffset = Len(connections[r].value)

(* What the shared number says to a waiting caller.                        *)
Answered(r) ==
  /\ stream[r].len = 0
  /\ int0[r] = ERROR_TIMEOUT => Asked(r) /\ Delivered(r, Len(got[r]))
  /\ int0[r] # ERROR_TIMEOUT => Unasked(r)
  /\ int0[r] > 0 => Ready(r, 0, int0[r]) /\ Delivered(r, Len(got[r]) + int0[r])
  /\ int0[r] = SUCCESS_EOF => Len(got[r]) = size[r] /\ connections[r] = NoConnection
  /\ int0[r] \in {0, ERROR_EXCEPTION} => broke[r]
  /\ int0[r] # SUCCESS_HEADER

(* A body that is being read: over the worker, from memory, on a promise.  *)
OpenBody(r) ==
  stream[r].state = "open" =>
    /\ via[r] # "none" /\ ended[r] = "no"
    /\ stream[r].live <=> via[r] = "worker"
    /\ ~Posted(r, "close") /\ Unfetched(r)
    /\ Ready(r, stream[r].pos, stream[r].len)
    /\ via[r] = "worker" =>
         IF At(r, "wait") THEN Answered(r)
         ELSE Unasked(r) /\ Delivered(r, Len(got[r]) + stream[r].len)
    /\ via[r] = "whole" => Len(got[r]) + stream[r].len = size[r]
    /\ via[r] = "jspi" => Len(got[r]) + stream[r].len = given[r]

(* Before the body: the fetch is under way, or has answered.               *)
NoBodyYet(r) ==
  stream[r].state = "none" =>
    /\ stream[r] = NoBody /\ Unasked(r) /\ ~Posted(r, "close")
    /\ got[r] = <<>> /\ given[r] = 0 /\ ~held[r]
    /\ ended[r] \in {"no", "timeout", "error"}
    /\ connections[r] \in {NoConnection, [value |-> <<>>, curOffset |-> 0]}
    /\ ended[r] = "error" => Unfetched(r) /\ connections[r] = NoConnection
    /\ ended[r] = "no" /\ via[r] # "none" =>
         /\ At(r, "send") /\ via[r] = "worker"
         /\ int0[r] \in {ERROR_TIMEOUT, SUCCESS_HEADER, ERROR_EXCEPTION}
         /\ int0[r] # ERROR_TIMEOUT => Unfetched(r)
         /\ connections[r] # NoConnection <=> int0[r] = SUCCESS_HEADER
    /\ ended[r] = "no" /\ via[r] = "none" => int0[r] = 0

(* After it: the worker has let go, is told to, or the fetch broke.        *)
BodyClosed(r) ==
  stream[r].state = "closed" =>
    /\ stream[r] = Closed /\ via[r] # "none" /\ ended[r] # "no" /\ Unfetched(r) /\ ~held[r]
    /\ connections[r] # NoConnection => broke[r] \/ Posted(r, "close")
    /\ ended[r] = "end" => Len(got[r]) = size[r] \/ broke[r]

(* Nothing of the worker's without the worker; one question at a time; a   *)
(* handler that falls through writes for nobody who is still waiting.      *)
Orderly(r) ==
  /\ via[r] # "worker" =>
       /\ Unfetched(r) /\ Unasked(r) /\ ~Posted(r, "close")
       /\ connections[r] = NoConnection
  /\ via[r] = "none" => stream[r].state = "none" /\ ended[r] = "no"
  /\ Posted(r, "fetch") => awaiting[r] = <<>> /\ connections[r] = NoConnection
  /\ awaiting[r] = <<"fetch">> => connections[r] = NoConnection
  /\ Posted(r, "getMore") => awaiting[r] = <<>>
  /\ Falls(r) =>
       /\ broke[r]
       /\ stream[r].state # "closed" => At(r, "wait") /\ int0[r] = ERROR_EXCEPTION

(* The call under way is about a request it can be about.                  *)
Calling ==
  /\ py.pc # "idle" => py.r \in Requests
  /\ py.pc = "send" => stream[py.r].state = "none" /\ via[py.r] = "worker" /\ ended[py.r] = "no"
  /\ py.pc \in {"read", "wait"} => stream[py.r].state = "open"
  /\ py.pc = "wait" => via[py.r] = "worker"

(* The connections that are not in the pool.                               *)
Out == {r \in Requests : held[r] \/ ended[r] = "lost"}
Sending == IF py.pc = "send" THEN 1 ELSE 0
Slotted ==
  /\ IsFiniteSet(Out)
  /\ free + Cardinality(Out) + Sending = Slots

RequestInv(r) == UnitsOf(r) /\ OpenBody(r) /\ NoBodyYet(r) /\ BodyClosed(r) /\ Orderly(r)
Bodies == \A r \in Requests : RequestInv(r)

IInv == Types /\ Once /\ Calling /\ Bodies /\ Slotted

(***************************************************************************)
(* Sequences: what is copied to the caller and into the buffer.            *)
(***************************************************************************)
(* A piece of a sequence, unit by unit.                                    *)
LEMMA PieceIs ==
    ASSUME NEW s \in Seq(Nat), NEW p \in Nat, NEW n \in Nat, p + n <= Len(s)
    PROVE  /\ SubSeq(s, p + 1, p + n) \in Seq(Nat)
           /\ Len(SubSeq(s, p + 1, p + n)) = n
           /\ \A i \in 1 .. n : SubSeq(s, p + 1, p + n)[i] = s[p + i]
BY SubSeqProperties, LenProperties, SMT

(* Two sequences, one behind the other.                                    *)
LEMMA BehindIs ==
    ASSUME NEW s \in Seq(Nat), NEW t \in Seq(Nat)
    PROVE  /\ s \o t \in Seq(Nat) /\ Len(s \o t) = Len(s) + Len(t)
           /\ \A i \in 1 .. Len(s) : (s \o t)[i] = s[i]
           /\ \A i \in 1 .. Len(t) : (s \o t)[Len(s) + i] = t[i]
BY ConcatProperties, LenProperties, SMT

(* The units from one number to another.                                   *)
LEMMA UnitsAre ==
    ASSUME NEW a \in Nat, NEW n \in Nat
    PROVE  /\ Units(a + 1, a + n) \in Seq(Nat) /\ Len(Units(a + 1, a + n)) = n
           /\ \A i \in 1 .. n : Units(a + 1, a + n)[i] = a + i
<1>1. Units(a + 1, a + n) = [i \in 1 .. n |-> a + i]
  <2>1. (a + n) - (a + 1) + 1 = n
    OBVIOUS
  <2>2. \A i \in 1 .. n : a + 1 + i - 1 = a + i
    OBVIOUS
  <2> QED BY <2>1, <2>2 DEF Units
<1>2. [i \in 1 .. n |-> a + i] \in [1 .. n -> Nat]
  OBVIOUS
<1> QED BY <1>1, <1>2

(* What a read copies goes on where the caller's units end.                *)
LEMMA CopyGoesOn ==
    ASSUME NEW g \in Seq(Nat), NEW b \in Seq(Nat), NEW p \in Nat, NEW n \in Nat,
           p + n <= Len(b), \A i \in 1 .. Len(g) : g[i] = i,
           \A i \in 1 .. n : b[p + i] = Len(g) + i
    PROVE  LET w == g \o SubSeq(b, p + 1, p + n)
           IN  /\ w \in Seq(Nat) /\ Len(w) = Len(g) + n
               /\ \A i \in 1 .. Len(g) + n : w[i] = i
<1> DEFINE t == SubSeq(b, p + 1, p + n)
           w == g \o t
<1>1. t \in Seq(Nat) /\ Len(t) = n /\ \A i \in 1 .. n : t[i] = b[p + i]
  BY PieceIs
<1>0. Len(g) \in Nat /\ w = g \o t
  BY LenProperties
<1> HIDE DEF t, w
<1>2. /\ w \in Seq(Nat) /\ Len(w) = Len(g) + Len(t)
      /\ \A i \in 1 .. Len(g) : w[i] = g[i]
      /\ \A i \in 1 .. Len(t) : w[Len(g) + i] = t[i]
  BY ONLY <1>0, <1>1, BehindIs, g \in Seq(Nat)
<1> DEFINE k == Len(g)
           l == Len(t)
<1>3. ASSUME NEW i \in 1 .. k + n PROVE w[i] = i
  <2>0. /\ k \in Nat /\ l = n
        /\ \A x \in 1 .. k : w[x] = g[x] /\ g[x] = x
        /\ \A x \in 1 .. l : w[k + x] = t[x]
        /\ \A x \in 1 .. n : t[x] = b[p + x] /\ b[p + x] = k + x
    BY <1>0, <1>1, <1>2
  <2> HIDE DEF k, l
  <2>1. CASE i <= k
    BY ONLY <2>0, <2>1
  <2>2. CASE i > k
    <3>1. i - k \in 1 .. n /\ k + (i - k) = i
      BY ONLY <2>0, <2>2, n \in Nat, i \in 1 .. k + n
    <3>2. w[k + (i - k)] = k + (i - k)
      BY <2>0, <3>1
    <3> QED BY <3>1, <3>2
  <2> QED BY ONLY <2>0, <2>1, <2>2, n \in Nat, i \in 1 .. k + n
<1>4. Len(w) = Len(g) + n
  BY <1>1, <1>2
<1> QED BY <1>2, <1>3, <1>4 DEF t, w

(* What the worker writes into its buffer: a piece of the value in front   *)
(* of what stood there.                                                    *)
LEMMA WrittenIs ==
    ASSUME NEW v \in Seq(Nat), NEW b \in Seq(Nat), NEW o \in Nat, NEW n \in Nat,
           o + n <= Len(v)
    PROVE  LET w == SubSeq(v, o + 1, o + n) \o SubSeq(b, n + 1, Len(b))
           IN  /\ w \in Seq(Nat) /\ n <= Len(w) /\ Len(b) <= Len(w)
               /\ \A i \in 1 .. n : w[i] = v[o + i]
               /\ \A i \in n + 1 .. Len(w) : i \in 1 .. Len(b) /\ w[i] = b[i]
<1> DEFINE s == SubSeq(v, o + 1, o + n)
           t == SubSeq(b, n + 1, Len(b))
           w == s \o t
<1> SUFFICES /\ w \in Seq(Nat) /\ n <= Len(w) /\ Len(b) <= Len(w)
             /\ \A i \in 1 .. n : w[i] = v[o + i]
             /\ \A i \in n + 1 .. Len(w) : i \in 1 .. Len(b) /\ w[i] = b[i]
  OBVIOUS
<1>1. s \in Seq(Nat) /\ Len(s) = n /\ \A i \in 1 .. n : s[i] = v[o + i]
  BY PieceIs
<1>2. Len(b) \in Nat /\ w = s \o t
  BY LenProperties
<1>3. CASE n < Len(b)
  <2>1. PICK k \in Nat : n + k = Len(b)
    <3>1. Len(b) - n \in Nat /\ n + (Len(b) - n) = Len(b)
      BY <1>2, <1>3
    <3> QED BY <3>1
  <2>2. t \in Seq(Nat) /\ Len(t) = k /\ \A i \in 1 .. k : t[i] = b[n + i]
    <3>1. /\ SubSeq(b, n + 1, n + k) \in Seq(Nat) /\ Len(SubSeq(b, n + 1, n + k)) = k
          /\ \A i \in 1 .. k : SubSeq(b, n + 1, n + k)[i] = b[n + i]
      BY <2>1, PieceIs
    <3> QED BY <2>1, <3>1
  <2> HIDE DEF s, t, w
  <2>3. /\ w \in Seq(Nat) /\ Len(w) = n + k
        /\ \A i \in 1 .. n : w[i] = s[i]
        /\ \A i \in 1 .. k : w[n + i] = t[i]
    <3>0. s \in Seq(Nat) /\ t \in Seq(Nat)
      BY <1>1, <2>2
    <3>1. /\ s \o t \in Seq(Nat) /\ Len(s \o t) = Len(s) + Len(t)
          /\ \A i \in 1 .. Len(s) : (s \o t)[i] = s[i]
          /\ \A i \in 1 .. Len(t) : (s \o t)[Len(s) + i] = t[i]
      BY <3>0, BehindIs
    <3> QED BY <1>1, <1>2, <2>2, <3>1
  <2>4. ASSUME NEW i \in n + 1 .. Len(w) PROVE i \in 1 .. Len(b) /\ w[i] = b[i]
    <3>1. n + 1 .. Len(w) = n + 1 .. n + k /\ 1 .. Len(b) = 1 .. n + k
      BY <2>1, <2>3
    <3>2. i - n \in 1 .. k /\ n + (i - n) = i /\ i \in 1 .. n + k
      BY ONLY <3>1, n \in Nat, k \in Nat, i \in n + 1 .. Len(w)
    <3>3. w[n + (i - n)] = t[i - n] /\ t[i - n] = b[n + (i - n)]
      BY <2>2, <2>3, <3>2
    <3> QED BY <3>1, <3>2, <3>3
  <2>5. n <= Len(w) /\ Len(b) <= Len(w)
    BY ONLY <2>1, <2>3, n \in Nat
  <2> QED BY <1>1, <2>3, <2>4, <2>5
<1>4. CASE n >= Len(b)
  <2>1. t = <<>>
    BY <1>2, <1>4, SubSeqEmpty
  <2> HIDE DEF s, t, w
  <2>2. w = s
    <3>1. s \in Seq(Nat)
      BY <1>1
    <3>2. s \o <<>> = s
      BY <3>1, ConcatEmptySeq
    <3> QED BY <1>2, <2>1, <3>2
  <2>3. \A i \in n + 1 .. Len(w) : FALSE
    <3>1. Len(w) = n
      BY <1>1, <2>2
    <3> QED BY ONLY <3>1, n \in Nat
  <2>4. Len(w) = n /\ Len(b) <= n
    BY ONLY <1>1, <1>2, <1>4, <2>2, n \in Nat
  <2> QED BY ONLY <1>1, <2>2, <2>3, <2>4, n \in Nat
<1>5. n < Len(b) \/ n >= Len(b)
  BY ONLY <1>2, n \in Nat
<1> QED BY <1>3, <1>4, <1>5

(***************************************************************************)
(* The worker's inbox.                                                     *)
(***************************************************************************)
(* A message is added behind the others, and is still there only once.     *)
LEMMA PostAdds ==
    ASSUME Types, Once, NEW p \in Requests, NEW what \in {"fetch", "getMore", "close"},
           inbox' = Append(inbox, [do |-> what, r |-> p]), ~Posted(p, what)
    PROVE  /\ inbox' \in Seq(Messages) /\ Once'
           /\ \A q \in Requests, x \in {"fetch", "getMore", "close"} :
                Posted(q, x)' <=> Posted(q, x) \/ (q = p /\ x = what)
<1> DEFINE m == [do |-> what, r |-> p]
<1>1. m \in Messages /\ inbox \in Seq(Messages)
  BY DEF Messages, Types
<1>2. \A q \in Requests, x \in {"fetch", "getMore", "close"} :
        [do |-> x, r |-> q] = m <=> q = p /\ x = what
  OBVIOUS
<1>2a. \A i \in DOMAIN inbox : inbox[i] # m
  BY DEF Posted
<1>2b. inbox' = Append(inbox, m)
  OBVIOUS
<1> HIDE DEF m
<1>3. /\ Append(inbox, m) \in Seq(Messages) /\ Len(Append(inbox, m)) = Len(inbox) + 1
      /\ \A i \in 1 .. Len(inbox) : Append(inbox, m)[i] = inbox[i]
      /\ Append(inbox, m)[Len(inbox) + 1] = m
  BY <1>1, AppendProperties, LenProperties
<1>4. /\ DOMAIN inbox = 1 .. Len(inbox) /\ DOMAIN inbox' = 1 .. Len(inbox) + 1 /\ Len(inbox) \in Nat
  BY <1>1, <1>2b, <1>3, LenProperties
<1>5. /\ \A i \in 1 .. Len(inbox) : inbox'[i] = inbox[i]
      /\ inbox'[Len(inbox) + 1] = m
  BY <1>2b, <1>3
<1>6. Once'
  <2> SUFFICES ASSUME NEW i \in DOMAIN inbox', NEW j \in DOMAIN inbox', inbox'[i] = inbox'[j]
               PROVE  i = j
    BY DEF Once
  <2>1. CASE i = Len(inbox) + 1
    BY <1>2a, <1>4, <1>5, <2>1
  <2>2. CASE j = Len(inbox) + 1
    BY <1>2a, <1>4, <1>5, <2>2
  <2>3. CASE i \in 1 .. Len(inbox) /\ j \in 1 .. Len(inbox)
    BY <1>4, <1>5, <2>3 DEF Once
  <2> QED BY <1>4, <2>1, <2>2, <2>3
<1>7. ASSUME NEW q \in Requests, NEW x \in {"fetch", "getMore", "close"}
      PROVE  Posted(q, x)' <=> Posted(q, x) \/ (q = p /\ x = what)
  <2> DEFINE w == [do |-> x, r |-> q]
  <2>1. w = m <=> q = p /\ x = what
    BY <1>2
  <2> HIDE DEF w
  <2>2. (\E i \in DOMAIN inbox' : inbox'[i] = w) <=> (\E i \in DOMAIN inbox : inbox[i] = w) \/ w = m
    BY <1>4, <1>5
  <2> QED BY <2>1, <2>2 DEF Posted, w
<1> QED BY <1>2b, <1>3, <1>6, <1>7

(* The first message is taken; it was there only once.                     *)
LEMMA TakeRemoves ==
    ASSUME Types, Once, NEW p \in Requests, NEW what \in {"fetch", "getMore", "close"},
           Taken(p, what)
    PROVE  /\ inbox' \in Seq(Messages) /\ Once' /\ Posted(p, what)
           /\ \A q \in Requests, x \in {"fetch", "getMore", "close"} :
                Posted(q, x)' <=> Posted(q, x) /\ ~(q = p /\ x = what)
<1> DEFINE m == [do |-> what, r |-> p]
<1>1. inbox \in Seq(Messages) /\ inbox # <<>> /\ Head(inbox) = m /\ inbox' = Tail(inbox)
  BY DEF Types, Taken
<1>2. \A q \in Requests, x \in {"fetch", "getMore", "close"} :
        [do |-> x, r |-> q] = m <=> q = p /\ x = what
  OBVIOUS
<1> HIDE DEF m
<1>3. /\ inbox' \in Seq(Messages) /\ Len(inbox) \in Nat \ {0} /\ Len(inbox') = Len(inbox) - 1
      /\ \A i \in 1 .. Len(inbox) - 1 : inbox'[i] = inbox[i + 1]
      /\ inbox[1] = m
  BY <1>1, HeadTailProperties, LenProperties, EmptySeq
<1>4. DOMAIN inbox = 1 .. Len(inbox) /\ DOMAIN inbox' = 1 .. Len(inbox) - 1
  BY <1>1, <1>3, LenProperties
<1>5. Once'
  <2> SUFFICES ASSUME NEW i \in DOMAIN inbox', NEW j \in DOMAIN inbox', inbox'[i] = inbox'[j]
               PROVE  i = j
    BY DEF Once
  <2>1. inbox[i + 1] = inbox[j + 1] /\ i + 1 \in DOMAIN inbox /\ j + 1 \in DOMAIN inbox
    BY <1>3, <1>4
  <2>2. i + 1 = j + 1 /\ i \in Int /\ j \in Int
    BY <1>4, <2>1 DEF Once
  <2> QED BY <2>2
<1>6. ASSUME NEW q \in Requests, NEW x \in {"fetch", "getMore", "close"}
      PROVE  Posted(q, x)' <=> Posted(q, x) /\ ~(q = p /\ x = what)
  <2> DEFINE w == [do |-> x, r |-> q]
  <2>1. w = m <=> q = p /\ x = what
    BY <1>2
  <2> HIDE DEF w
  <2>2. ASSUME NEW i \in DOMAIN inbox', inbox'[i] = w PROVE i + 1 \in DOMAIN inbox /\ inbox[i + 1] = w /\ w # m
    <3>1. i + 1 \in DOMAIN inbox /\ inbox[i + 1] = w /\ i \in 1 .. Len(inbox) - 1
      BY <1>3, <1>4, <2>2
    <3>2. 1 \in DOMAIN inbox /\ i + 1 # 1
      BY <1>3, <1>4, <3>1
    <3> QED BY <1>3, <3>1, <3>2 DEF Once
  <2>3. ASSUME NEW i \in DOMAIN inbox, inbox[i] = w, w # m PROVE i - 1 \in DOMAIN inbox' /\ inbox'[i - 1] = w
    <3>1. i # 1 /\ i \in 1 .. Len(inbox)
      BY <1>3, <1>4, <2>3
    <3>2. i - 1 \in 1 .. Len(inbox) - 1 /\ (i - 1) + 1 = i
      BY <1>3, <3>1
    <3> QED BY <1>3, <1>4, <2>3, <3>2
  <2>4. (\E i \in DOMAIN inbox' : inbox'[i] = w) <=> (\E i \in DOMAIN inbox : inbox[i] = w) /\ w # m
    BY <2>2, <2>3
  <2> QED BY <2>1, <2>4 DEF Posted, w
<1>7. Posted(p, what)
  <2>1. 1 \in DOMAIN inbox
    BY <1>3, <1>4
  <2> QED BY <1>3, <2>1 DEF Posted, m
<1> QED BY <1>3, <1>5, <1>6, <1>7

(***************************************************************************)
(* A step is about one request.                                            *)
(***************************************************************************)
Untouched(q) ==
  /\ size'[q] = size[q] /\ via'[q] = via[q] /\ int0'[q] = int0[q] /\ bytes'[q] = bytes[q]
  /\ stream'[q] = stream[q] /\ held'[q] = held[q] /\ awaiting'[q] = awaiting[q]
  /\ connections'[q] = connections[q] /\ given'[q] = given[q]
  /\ got'[q] = got[q] /\ ended'[q] = ended[q] /\ broke'[q] = broke[q]
  /\ \A x \in {"fetch", "getMore", "close"} : Posted(q, x)' <=> Posted(q, x)
  /\ \A pc \in {"send", "read", "wait"} : At(q, pc)' <=> At(q, pc)
  /\ Falls(q)' => Falls(q)

LEMMA Elsewhere ==
    ASSUME NEW q \in Requests, RequestInv(q), Untouched(q)
    PROVE  RequestInv(q)'
<1>1. UnitsOf(q)'
  BY DEF RequestInv, UnitsOf, Untouched
<1>2. Ready(q, stream[q].pos, stream[q].len)' <=> Ready(q, stream[q].pos, stream[q].len)
  BY DEF Untouched, Ready
<1>3. Ready(q, 0, int0[q])' <=> Ready(q, 0, int0[q])
  BY DEF Untouched, Ready
<1>4. Answered(q)' <=> Answered(q)
  BY <1>3 DEF Untouched, Answered, Asked, Delivered, Unasked
<1>5. OpenBody(q)'
  <2>1. Delivered(q, Len(got[q]) + stream[q].len)' <=> Delivered(q, Len(got[q]) + stream[q].len)
    BY DEF Untouched, Delivered
  <2>2. (Unasked(q)' <=> Unasked(q)) /\ (Unfetched(q)' <=> Unfetched(q))
    BY DEF Untouched, Unasked, Unfetched
  <2> QED BY <1>2, <1>4, <2>1, <2>2 DEF RequestInv, OpenBody, Untouched
<1>6. NoBodyYet(q)'
  BY DEF RequestInv, NoBodyYet, Untouched, Unasked, Unfetched
<1>7. BodyClosed(q)'
  BY DEF RequestInv, BodyClosed, Untouched, Unfetched
<1>8. Orderly(q)'
  BY DEF RequestInv, Orderly, Untouched, Unasked, Unfetched
<1> QED BY <1>1, <1>5, <1>6, <1>7, <1>8 DEF RequestInv

LEMMA StepOfOne ==
    ASSUME IInv, NEW r \in Requests, Types', Once', Calling', Slotted', RequestInv(r)',
           \A q \in Requests \ {r} : Untouched(q)
    PROVE  IInv'
<1>1. ASSUME NEW q \in Requests PROVE RequestInv(q)'
  <2>1. RequestInv(q)
    BY DEF IInv, Bodies
  <2> QED BY <2>1, Elsewhere
<1> QED BY <1>1 DEF IInv, Bodies

(***************************************************************************)
(* The connections of the pool.                                            *)
(***************************************************************************)
LEMMA OutSame ==
    ASSUME IInv, \A q \in Requests : held'[q] \/ ended'[q] = "lost" <=> held[q] \/ ended[q] = "lost",
           free' + Sending' = free + Sending, free' \in Nat
    PROVE  Slotted'
<1>1. Out' = Out
  BY DEF Out
<1>2. IsFiniteSet(Out) /\ Cardinality(Out) \in Nat /\ free \in Nat /\ Sending \in Nat /\ Sending' \in Nat
  BY FS_CardinalityType DEF IInv, Slotted, Types, Sending
<1>3. free + Cardinality(Out) + Sending = Slots
  BY DEF IInv, Slotted
<1>4. free' + Cardinality(Out') + Sending' = Slots
  <2> DEFINE c == Cardinality(Out)
  <2>1. Cardinality(Out') = c /\ c \in Nat /\ free + c + Sending = Slots
    BY <1>1, <1>2, <1>3
  <2> HIDE DEF c
  <2>2. free' + c + Sending' = Slots
    <3>1. PICK a \in Nat, b \in Nat : a = free' /\ b = Sending'
      BY <1>2
    <3>2. a + b = free + Sending
      BY <3>1
    <3>3. a + c + b = Slots
      BY <1>2, <2>1, <3>2
    <3> QED BY <3>1, <3>3
  <2> QED BY <2>1, <2>2
<1> QED BY <1>1, <1>2, <1>4 DEF Slotted

LEMMA OutMore ==
    ASSUME IInv, NEW r \in Requests, ~held[r], ended[r] # "lost",
           held'[r] \/ ended'[r] = "lost",
           \A q \in Requests \ {r} : held'[q] = held[q] /\ ended'[q] = ended[q],
           free' + Sending' + 1 = free + Sending, free' \in Nat
    PROVE  Slotted'
<1>1. Out' = Out \cup {r} /\ r \notin Out
  BY DEF Out
<1>2. IsFiniteSet(Out) /\ Cardinality(Out) \in Nat /\ free \in Nat /\ Sending \in Nat /\ Sending' \in Nat
  BY FS_CardinalityType DEF IInv, Slotted, Types, Sending
<1>3. free + Cardinality(Out) + Sending = Slots
  BY DEF IInv, Slotted
<1>4. IsFiniteSet(Out') /\ Cardinality(Out') = Cardinality(Out) + 1
  BY <1>1, <1>2, FS_AddElement
<1>5. PICK a \in Nat, b \in Nat, c \in Nat, d \in Nat, e \in Nat :
          /\ a = free' /\ b = Sending' /\ c = Cardinality(Out) /\ d = free /\ e = Sending
  BY <1>2
<1>6. a + (c + 1) + b = Slots
  <2>1. a + b + 1 = d + e /\ d + c + e = Slots
    BY ONLY <1>3, <1>5, free' + Sending' + 1 = free + Sending
  <2> QED BY ONLY <2>1, a \in Nat, b \in Nat, c \in Nat, d \in Nat, e \in Nat
<1>7. free' + Cardinality(Out') + Sending' = Slots
  BY ONLY <1>4, <1>5, <1>6
<1> QED BY ONLY <1>4, <1>7 DEF Slotted

LEMMA OutLess ==
    ASSUME IInv, NEW r \in Requests, held[r] \/ ended[r] = "lost",
           ~held'[r], ended'[r] # "lost",
           \A q \in Requests \ {r} : held'[q] = held[q] /\ ended'[q] = ended[q],
           free' + Sending' = free + Sending + 1, free' \in Nat
    PROVE  Slotted'
<1>1. Out' = Out \ {r} /\ r \in Out
  BY DEF Out
<1>2. IsFiniteSet(Out) /\ Cardinality(Out) \in Nat /\ free \in Nat /\ Sending \in Nat /\ Sending' \in Nat
  BY FS_CardinalityType DEF IInv, Slotted, Types, Sending
<1>3. free + Cardinality(Out) + Sending = Slots
  BY DEF IInv, Slotted
<1>4. IsFiniteSet(Out') /\ Cardinality(Out') = Cardinality(Out) - 1
  BY <1>1, <1>2, FS_RemoveElement
<1>5. free' + Cardinality(Out') + Sending' = Slots
  <2> DEFINE c == Cardinality(Out)
  <2>1. Cardinality(Out') = c - 1 /\ c \in Nat /\ free + c + Sending = Slots
    BY <1>2, <1>3, <1>4
  <2> HIDE DEF c
  <2>2. free' + (c - 1) + Sending' = Slots
    BY <1>2, <2>1
  <2> QED BY <2>1, <2>2
<1> QED BY <1>4, <1>5 DEF Slotted

(***************************************************************************)
(* Python's steps.                                                         *)
(***************************************************************************)
LEMMA SendInv ==
    ASSUME IInv, NEW r \in Requests, Send(r)
    PROVE  IInv'
<1>1. /\ py = Idle /\ via[r] = "none" /\ free > 0 /\ free \in Nat
      /\ via' = [via EXCEPT ![r] = "worker"]
      /\ int0' = [int0 EXCEPT ![r] = ERROR_TIMEOUT]
      /\ inbox' = Append(inbox, [do |-> "fetch", r |-> r])
      /\ py' = [pc |-> "send", r |-> r, amt |-> All]
      /\ free' = free - 1
      /\ UNCHANGED <<size, workerVars, got, bytes, stream, held, ended>>
  BY DEF IInv, Types, Send, Begin
<1>2. Types /\ Once /\ RequestInv(r)
  BY DEF IInv, Bodies
<1>3. Unfetched(r) /\ Unasked(r) /\ connections[r] = NoConnection
      /\ stream[r].state = "none" /\ ended[r] = "no" /\ ~Posted(r, "close")
  BY <1>1, <1>2 DEF RequestInv, Orderly
<1>4. /\ inbox' \in Seq(Messages) /\ Once'
      /\ \A q \in Requests, x \in {"fetch", "getMore", "close"} :
           Posted(q, x)' <=> Posted(q, x) \/ (q = r /\ x = "fetch")
  BY <1>1, <1>2, <1>3, PostAdds DEF Unfetched
<1>5. Types'
  <2>1. via' \in [Requests -> Ways]
    BY <1>1, <1>2 DEF Types, Ways
  <2>2. int0' \in [Requests -> -4 .. Capacity]
    BY <1>1, <1>2, EmscriptenAssumption DEF Types, ERROR_TIMEOUT
  <2>3. py' \in [pc : Pcs, r : Requests \cup {"none"}, amt : Asks \cup {All}]
    BY <1>1 DEF Pcs
  <2>4. free' \in Nat
    BY <1>1
  <2> QED BY <1>1, <1>2, <1>4, <2>1, <2>2, <2>3, <2>4 DEF Types, workerVars
<1>6. \A q \in Requests \ {r} : Untouched(q)
  BY <1>1, <1>2, <1>4 DEF Types, Untouched, At, Falls, Idle, workerVars
<1>7. At(r, "send")' /\ \A x \in {"send", "read", "wait"} : ~At(r, x)
  BY <1>1 DEF At, Idle
<1>8. RequestInv(r)'
  <2>1. UnitsOf(r)'
    BY <1>1, <1>2 DEF RequestInv, UnitsOf, workerVars
  <2>2. NoBodyYet(r)'
    BY <1>1, <1>2, <1>3, <1>4, <1>7
       DEF Types, RequestInv, NoBodyYet, Unasked, Unfetched, workerVars,
           ERROR_TIMEOUT, SUCCESS_HEADER, ERROR_EXCEPTION
  <2>3. Orderly(r)'
    BY <1>1, <1>2, <1>3, <1>4, <1>7
       DEF Types, Waits, RequestInv, Orderly, Unasked, Unfetched, workerVars, Falls
  <2> QED BY <1>1, <1>3, <2>1, <2>2, <2>3 DEF RequestInv, OpenBody, BodyClosed
<1>9. Calling'
  BY <1>1, <1>2, <1>3 DEF Types, Calling
<1>10. Slotted'
  <2>1. Sending = 0 /\ Sending' = 1
    BY <1>1 DEF Sending, Idle
  <2> QED BY <1>1, <2>1, OutSame
<1> QED BY <1>4, <1>5, <1>6, <1>8, <1>9, <1>10, StepOfOne

LEMMA SendReturnsInv ==
    ASSUME IInv, NEW r \in Requests, SendReturns(r)
    PROVE  IInv'
<1>1. /\ At(r, "send") /\ py' = Idle
      /\ UNCHANGED <<size, via, int0, bytes, inbox, workerVars, got>>
  BY DEF SendReturns, At
<1>2. Types /\ Once /\ RequestInv(r) /\ Calling
  BY DEF IInv, Bodies
<1>3. /\ stream[r] = NoBody /\ via[r] = "worker" /\ ended[r] = "no" /\ ~held[r]
      /\ Unasked(r) /\ ~Posted(r, "close") /\ got[r] = <<>> /\ given[r] = 0
      /\ connections[r] \in {NoConnection, [value |-> <<>>, curOffset |-> 0]}
      /\ int0[r] \in {ERROR_TIMEOUT, SUCCESS_HEADER, ERROR_EXCEPTION}
      /\ int0[r] # ERROR_TIMEOUT => Unfetched(r)
      /\ connections[r] # NoConnection <=> int0[r] = SUCCESS_HEADER
  BY <1>1, <1>2 DEF RequestInv, NoBodyYet, Calling, At
<1>4. \A q \in Requests, x \in {"fetch", "getMore", "close"} : Posted(q, x)' <=> Posted(q, x)
  BY <1>1 DEF Posted
<1>5. \A q \in Requests, x \in {"send", "read", "wait"} : ~At(q, x)'
  BY <1>1 DEF At, Idle
<1>6. Once' /\ (Falls(r)' <=> Falls(r)) /\ UnitsOf(r)'
  BY <1>1, <1>2 DEF Once, Falls, RequestInv, UnitsOf, workerVars
<1>6a. ~Falls(r)'
  BY <1>1, <1>2, <1>3, <1>6 DEF RequestInv, Orderly, At, NoBody
<1>7. CASE int0[r] = SUCCESS_HEADER
  <2>1. /\ stream' = [stream EXCEPT ![r] = [state |-> "open", live |-> TRUE, len |-> 0, pos |-> 0]]
        /\ held' = [held EXCEPT ![r] = TRUE]
        /\ UNCHANGED <<free, ended>>
    BY <1>7 DEF SendReturns, Opened
  <2>2. Types'
    <3>1. stream' \in [Requests -> Streams]
      BY <1>2, <2>1 DEF Types, Streams
    <3>2. held' \in [Requests -> BOOLEAN]
      BY <1>2, <2>1 DEF Types
    <3>3. py' \in [pc : Pcs, r : Requests \cup {"none"}, amt : Asks \cup {All}]
      BY <1>1 DEF Idle, Pcs
    <3> QED BY <1>1, <1>2, <2>1, <3>1, <3>2, <3>3 DEF Types, workerVars
  <2>3. \A q \in Requests \ {r} : Untouched(q)
    BY <1>1, <1>2, <1>4, <1>5, <2>1 DEF Types, Untouched, At, Falls, workerVars
  <2>4. RequestInv(r)'
    <3>1. stream'[r] = [state |-> "open", live |-> TRUE, len |-> 0, pos |-> 0]
      BY <1>2, <2>1 DEF Types
    <3>2. connections[r] = [value |-> <<>>, curOffset |-> 0] /\ connections[r] # NoConnection
      BY <1>3, <1>7
    <3>3. Delivered(r, 0)' /\ Len(got[r]) = 0
      BY <1>1, <1>3, <3>2 DEF Delivered, workerVars
    <3>4. Unfetched(r)' /\ Unasked(r)'
      BY <1>1, <1>3, <1>4, <1>7 DEF Unfetched, Unasked, workerVars, SUCCESS_HEADER, ERROR_TIMEOUT
    <3>5. Ready(r, 0, 0)'
      <4>1. Len(bytes[r]) \in Nat
        BY <1>2, LenProperties DEF Types
      <4> QED BY <1>1, <4>1 DEF Ready
    <3>6. OpenBody(r)'
      BY <1>1, <1>3, <1>4, <1>5, <2>1, <3>1, <3>3, <3>4, <3>5 DEF OpenBody
    <3>7. Orderly(r)'
      BY <1>1, <1>2, <1>3, <1>4, <1>6a, <2>1
         DEF RequestInv, Orderly, Unfetched, Unasked, workerVars
    <3> QED BY <1>6, <3>1, <3>6, <3>7 DEF RequestInv, NoBodyYet, BodyClosed
  <2>5. Calling'
    BY <1>1 DEF Calling, Idle
  <2>6. Slotted'
    <3>1. Sending = 1 /\ Sending' = 0 /\ free \in Nat
      BY <1>1, <1>2 DEF Sending, Idle, At, Types
    <3>2. ~held[r] /\ ended[r] # "lost" /\ held'[r]
      BY <1>2, <1>3, <2>1 DEF Types
    <3>3. \A q \in Requests \ {r} : held'[q] = held[q] /\ ended'[q] = ended[q]
      BY <1>2, <2>1 DEF Types
    <3>4. free' + Sending' + 1 = free + Sending /\ free' \in Nat
      BY <2>1, <3>1
    <3> QED BY <3>2, <3>3, <3>4, OutMore
  <2> QED BY <1>6, <2>2, <2>3, <2>4, <2>5, <2>6, StepOfOne
<1>8. CASE int0[r] # SUCCESS_HEADER
  <2> DEFINE why == IF int0[r] = ERROR_TIMEOUT THEN "timeout" ELSE "error"
  <2>1. /\ ended' = [ended EXCEPT ![r] = why]
        /\ free' = free + 1
        /\ UNCHANGED <<stream, held>>
    BY <1>8 DEF SendReturns, Raised
  <2>2. /\ why \in {"timeout", "error"}
        /\ why = "error" => int0[r] # ERROR_TIMEOUT
    OBVIOUS
  <2> HIDE DEF why
  <2>3. Types'
    <3>1. ended' \in [Requests -> Ends] /\ free' \in Nat
      BY <1>2, <2>1, <2>2 DEF Types, Ends
    <3>2. py' \in [pc : Pcs, r : Requests \cup {"none"}, amt : Asks \cup {All}]
      BY <1>1 DEF Idle, Pcs
    <3> QED BY <1>1, <1>2, <2>1, <3>1, <3>2 DEF Types, workerVars
  <2>4. \A q \in Requests \ {r} : Untouched(q)
    BY <1>1, <1>2, <1>4, <1>5, <2>1 DEF Types, Untouched, At, Falls, workerVars
  <2>5. RequestInv(r)'
    <3>1. ended'[r] = why
      BY <1>2, <2>1 DEF Types
    <3>2. NoBodyYet(r)'
      BY <1>1, <1>3, <1>4, <1>8, <2>1, <2>2, <3>1
         DEF NoBodyYet, Unfetched, Unasked, workerVars
    <3>3. Orderly(r)'
      BY <1>1, <1>2, <1>3, <1>4, <1>6a, <2>1
         DEF RequestInv, Orderly, Unfetched, Unasked, workerVars
    <3> QED BY <1>3, <1>6, <2>1, <3>2, <3>3 DEF RequestInv, OpenBody, BodyClosed, NoBody
  <2>6. Calling'
    BY <1>1 DEF Calling, Idle
  <2>7. Slotted'
    <3>1. Sending = 1 /\ Sending' = 0 /\ free \in Nat /\ free' \in Nat
      BY <1>1, <1>2, <2>3 DEF Sending, Idle, At, Types
    <3>2. \A q \in Requests : held'[q] \/ ended'[q] = "lost" <=> held[q] \/ ended[q] = "lost"
      BY <1>2, <1>3, <2>1, <2>2 DEF Types
    <3> QED BY <2>1, <3>1, <3>2, OutSame
  <2> QED BY <1>6, <2>3, <2>4, <2>5, <2>6, <2>7, StepOfOne
<1> QED BY <1>7, <1>8

(* What is known of a request that was not made.                           *)
LEMMA NotMade ==
    ASSUME IInv, NEW r \in Requests, via[r] = "none"
    PROVE  /\ stream[r] = NoBody /\ ended[r] = "no" /\ ~held[r] /\ got[r] = <<>> /\ given[r] = 0
           /\ connections[r] = NoConnection /\ int0[r] = 0
           /\ Unfetched(r) /\ Unasked(r) /\ ~Posted(r, "close") /\ ~Falls(r)
           /\ py = Idle => \A q \in Requests, x \in {"send", "read", "wait"} : ~At(q, x)
<1>1. RequestInv(r)
  BY DEF IInv, Bodies
<1>2. /\ stream[r].state = "none" /\ ended[r] = "no" /\ connections[r] = NoConnection
      /\ Unfetched(r) /\ Unasked(r) /\ ~Posted(r, "close")
  BY <1>1 DEF RequestInv, Orderly
<1>3. /\ stream[r] = NoBody /\ got[r] = <<>> /\ given[r] = 0 /\ ~held[r] /\ int0[r] = 0
  BY <1>1, <1>2 DEF RequestInv, NoBodyYet
<1>4. ~Falls(r)
  BY <1>1, <1>2, <1>3 DEF RequestInv, Orderly, ERROR_EXCEPTION
<1>5. py = Idle => \A q \in Requests, x \in {"send", "read", "wait"} : ~At(q, x)
  BY DEF At, Idle
<1> QED BY <1>2, <1>3, <1>4, <1>5

(* A request without a worker that fails before there is a body.           *)
LEMMA FailsAtOnce ==
    ASSUME IInv, NEW r \in Requests, py = Idle, via[r] = "none",
           NEW how \in {"whole", "jspi"}, NEW why \in {"error", "timeout"},
           via' = [via EXCEPT ![r] = how], Raised(r, why),
           UNCHANGED <<size, workerVars, got, stream, bytes, held, free, py, int0, inbox>>
    PROVE  IInv'
<1>1. /\ via' = [via EXCEPT ![r] = how] /\ ended' = [ended EXCEPT ![r] = why]
      /\ UNCHANGED <<size, workerVars, got, stream, bytes, held, free, py, int0, inbox>>
  BY DEF Raised
<1>2. Types /\ Once /\ RequestInv(r) /\ Calling
  BY DEF IInv, Bodies
<1>3. /\ stream[r] = NoBody /\ ended[r] = "no" /\ ~held[r] /\ got[r] = <<>> /\ given[r] = 0
      /\ connections[r] = NoConnection /\ int0[r] = 0
      /\ Unfetched(r) /\ Unasked(r) /\ ~Posted(r, "close") /\ ~Falls(r)
  BY NotMade
<1>4. Types'
  <2>1. via' \in [Requests -> Ways] /\ ended' \in [Requests -> Ends]
    BY <1>1, <1>2 DEF Types, Ways, Ends
  <2> QED BY <1>1, <1>2, <2>1 DEF Types, workerVars
<1>5. \A q \in Requests, x \in {"fetch", "getMore", "close"} : Posted(q, x)' <=> Posted(q, x)
  BY <1>1 DEF Posted
<1>6. \A q \in Requests \ {r} : Untouched(q)
  BY <1>1, <1>2, <1>5 DEF Types, Untouched, At, Falls, workerVars
<1>7. RequestInv(r)'
  <2>1. UnitsOf(r)' /\ Unfetched(r)' /\ Unasked(r)' /\ ~Falls(r)' /\ via'[r] = how /\ ended'[r] = why
    BY <1>1, <1>2, <1>3, <1>5
       DEF Types, RequestInv, UnitsOf, Unfetched, Unasked, Falls, workerVars
  <2>2. NoBodyYet(r)'
    BY <1>1, <1>3, <1>5, <2>1 DEF NoBodyYet, workerVars
  <2>3. Orderly(r)'
    BY <1>1, <1>2, <1>3, <1>5, <2>1 DEF RequestInv, Orderly, Unfetched, Unasked, workerVars
  <2> QED BY <1>1, <1>3, <2>1, <2>2, <2>3 DEF RequestInv, OpenBody, BodyClosed, NoBody
<1>8. Once' /\ Calling'
  BY <1>1, <1>2 DEF Once, Calling, Idle
<1>9. Slotted'
  <2>1. Sending' = Sending /\ free' = free /\ free \in Nat /\ Sending \in Nat
    BY <1>1, <1>2 DEF Sending, Types
  <2>2. \A q \in Requests : held'[q] \/ ended'[q] = "lost" <=> held[q] \/ ended[q] = "lost"
    BY <1>1, <1>2, <1>3 DEF Types
  <2> QED BY <2>1, <2>2, OutSame
<1> QED BY <1>4, <1>6, <1>7, <1>8, <1>9, StepOfOne

(* A request without a worker whose body is there, or promised.            *)
LEMMA OpensAtOnce ==
    ASSUME IInv, NEW r \in Requests, py = Idle, via[r] = "none", free > 0,
           NEW how \in {"whole", "jspi"}, NEW n \in Nat, NEW keeps \in BOOLEAN,
           via' = [via EXCEPT ![r] = how], Opened(r, FALSE, n),
           how = "whole" => n = size[r], how = "jspi" => n = 0,
           held' = [held EXCEPT ![r] = keeps], free' = IF keeps THEN free - 1 ELSE free,
           bytes' \in [Requests -> Seq(Nat)], \A q \in Requests \ {r} : bytes'[q] = bytes[q],
           \A i \in 1 .. Len(bytes'[r]) : bytes'[r][i] \in 1 .. size[r],
           n <= Len(bytes'[r]), \A i \in 1 .. n : bytes'[r][i] = i,
           UNCHANGED <<size, workerVars, got, ended, py, int0, inbox>>
    PROVE  IInv'
<1> DEFINE body == [state |-> "open", live |-> FALSE, len |-> n, pos |-> 0]
<1>1. /\ via' = [via EXCEPT ![r] = how] /\ stream' = [stream EXCEPT ![r] = body]
      /\ UNCHANGED <<size, workerVars, got, ended, py, int0, inbox>>
  BY DEF Opened
<1>2. Types /\ Once /\ RequestInv(r) /\ Calling
  BY DEF IInv, Bodies
<1>3. /\ stream[r] = NoBody /\ ended[r] = "no" /\ ~held[r] /\ got[r] = <<>> /\ given[r] = 0
      /\ connections[r] = NoConnection
      /\ Unfetched(r) /\ Unasked(r) /\ ~Posted(r, "close") /\ ~Falls(r)
      /\ \A q \in Requests, x \in {"send", "read", "wait"} : ~At(q, x)
  BY NotMade
<1>4. body \in Streams /\ body.state = "open" /\ body.live = FALSE /\ body.len = n /\ body.pos = 0
  BY DEF Streams
<1> HIDE DEF body
<1>4a. free \in Nat /\ free' \in Nat
  BY <1>2 DEF Types
<1>5. Types'
  <2>1. via' \in [Requests -> Ways]
    BY <1>1, <1>2 DEF Types, Ways
  <2>2. stream' \in [Requests -> Streams]
    BY <1>1, <1>2, <1>4 DEF Types
  <2>3. held' \in [Requests -> BOOLEAN]
    BY <1>2 DEF Types
  <2> QED BY <1>1, <1>2, <1>4a, <2>1, <2>2, <2>3 DEF Types, workerVars
<1>6. \A q \in Requests, x \in {"fetch", "getMore", "close"} : Posted(q, x)' <=> Posted(q, x)
  BY <1>1 DEF Posted
<1>7. \A q \in Requests, x \in {"send", "read", "wait"} : At(q, x)' <=> At(q, x)
  BY <1>1 DEF At
<1>8. \A q \in Requests \ {r} : Untouched(q)
  BY <1>1, <1>2, <1>6, <1>7 DEF Types, Untouched, Falls, workerVars
<1>9. RequestInv(r)'
  <2>1. /\ Unfetched(r)' /\ Unasked(r)' /\ ~Falls(r)' /\ via'[r] = how /\ stream'[r] = body
        /\ Len(got[r]) = 0 /\ got' = got /\ given'[r] = 0
    BY <1>1, <1>2, <1>3, <1>6 DEF Types, Unfetched, Unasked, Falls, workerVars
  <2>2. UnitsOf(r)'
    BY <1>1, <1>2, <2>1 DEF RequestInv, UnitsOf, workerVars
  <2>3. Ready(r, 0, n)'
    BY <2>1 DEF Ready
  <2>4. OpenBody(r)'
    BY <1>1, <1>3, <1>4, <1>6, <2>1, <2>3 DEF OpenBody
  <2>5. Orderly(r)'
    BY <1>1, <1>2, <1>3, <1>6, <2>1 DEF RequestInv, Orderly, Unfetched, Unasked, workerVars
  <2> QED BY <1>4, <2>1, <2>2, <2>4, <2>5 DEF RequestInv, NoBodyYet, BodyClosed
<1>10. Once' /\ Calling'
  BY <1>1, <1>2 DEF Once, Calling, Idle
<1>11. Slotted'
  <2>1. Sending' = Sending /\ Sending \in Nat
    BY <1>1 DEF Sending
  <2>2. \A q \in Requests \ {r} : held'[q] = held[q] /\ ended'[q] = ended[q]
    BY <1>1, <1>2 DEF Types
  <2>3. held'[r] = keeps
    BY <1>2 DEF Types
  <2>4. CASE keeps
    <3>1. free' + Sending' + 1 = free + Sending
      BY <1>4a, <2>1, <2>4
    <3> QED BY <1>3, <1>4a, <2>2, <2>3, <2>4, <3>1, OutMore
  <2>5. CASE ~keeps
    <3>1. free' + Sending' = free + Sending
      BY <1>4a, <2>1, <2>5
    <3>2. \A q \in Requests : held'[q] \/ ended'[q] = "lost" <=> held[q] \/ ended[q] = "lost"
      BY <1>1, <1>3, <2>2, <2>3, <2>5
    <3> QED BY <1>4a, <3>1, <3>2, OutSame
  <2> QED BY <2>4, <2>5
<1> QED BY <1>5, <1>8, <1>9, <1>10, <1>11, StepOfOne

LEMMA SendRequestInv ==
    ASSUME IInv, NEW r \in Requests, NEW preload \in BOOLEAN, SendRequest(r, preload)
    PROVE  IInv'
<1>1. /\ py = Idle /\ via[r] = "none" /\ free > 0 /\ via' = [via EXCEPT ![r] = "whole"]
      /\ UNCHANGED <<size, workerVars, got, py, int0, inbox>>
  BY DEF SendRequest, Begin
<1>2. size[r] \in Nat /\ bytes \in [Requests -> Seq(Nat)]
  BY EmscriptenAssumption DEF IInv, Types
<1>3. CASE /\ Opened(r, FALSE, size[r])
           /\ bytes' = [bytes EXCEPT ![r] = Units(1, size[r])]
           /\ held' = [held EXCEPT ![r] = ~preload]
           /\ free' = IF preload THEN free ELSE free - 1
           /\ UNCHANGED ended
  <2>1. /\ Units(1, size[r]) \in Seq(Nat) /\ Len(Units(1, size[r])) = size[r]
        /\ \A i \in 1 .. size[r] : Units(1, size[r])[i] = i
    <3>1. 0 + 1 = 1 /\ 0 + size[r] = size[r] /\ \A i \in 1 .. size[r] : 0 + i = i
      BY <1>2
    <3>2. /\ Units(0 + 1, 0 + size[r]) \in Seq(Nat) /\ Len(Units(0 + 1, 0 + size[r])) = size[r]
          /\ \A i \in 1 .. size[r] : Units(0 + 1, 0 + size[r])[i] = 0 + i
      BY <1>2, UnitsAre
    <3> QED BY <3>1, <3>2
  <2>2. bytes' \in [Requests -> Seq(Nat)] /\ bytes'[r] = Units(1, size[r])
        /\ \A q \in Requests \ {r} : bytes'[q] = bytes[q]
    BY <1>2, <1>3, <2>1
  <2>3. /\ \A i \in 1 .. Len(bytes'[r]) : bytes'[r][i] \in 1 .. size[r]
        /\ size[r] <= Len(bytes'[r]) /\ \A i \in 1 .. size[r] : bytes'[r][i] = i
    BY <1>2, <2>1, <2>2
  <2>4. free' = IF ~preload THEN free - 1 ELSE free
    BY <1>3
  <2> QED BY <1>1, <1>2, <1>3, <2>2, <2>3, <2>4, OpensAtOnce
<1>4. ASSUME NEW why \in {"error", "timeout"}, Raised(r, why), UNCHANGED <<stream, bytes, held, free>>
      PROVE  IInv'
  BY <1>1, <1>4, FailsAtOnce
<1> QED BY <1>3, <1>4 DEF SendRequest

LEMMA SendJspiInv ==
    ASSUME IInv, NEW r \in Requests, SendJspi(r)
    PROVE  IInv'
<1>1. /\ py = Idle /\ via[r] = "none" /\ free > 0 /\ via' = [via EXCEPT ![r] = "jspi"]
      /\ UNCHANGED <<size, workerVars, got, py, int0, bytes, inbox>>
  BY DEF SendJspi, Begin
<1>2. CASE /\ Opened(r, FALSE, 0)
           /\ held' = [held EXCEPT ![r] = TRUE] /\ free' = free - 1
           /\ UNCHANGED ended
  <2>1. /\ bytes' \in [Requests -> Seq(Nat)] /\ bytes' = bytes /\ Len(bytes[r]) \in Nat
        /\ \A i \in 1 .. Len(bytes'[r]) : bytes'[r][i] \in 1 .. size[r]
    BY <1>1, LenProperties DEF IInv, Types, Bodies, RequestInv, UnitsOf
  <2>2. 0 <= Len(bytes'[r]) /\ \A i \in 1 .. 0 : bytes'[r][i] = i
    BY <2>1
  <2> QED BY <1>1, <1>2, <2>1, <2>2, OpensAtOnce
<1>3. ASSUME NEW why \in {"error", "timeout"}, Raised(r, why), UNCHANGED <<stream, held, free>>
      PROVE  IInv'
  BY <1>1, <1>3, FailsAtOnce
<1> QED BY <1>2, <1>3 DEF SendJspi

(* A read that ends the body: whoever calls gave what it had, the body is  *)
(* closed, and the worker is told unless it said so itself.                *)
LEMMA OverInv ==
    ASSUME IInv, NEW r \in Requests, NEW why \in {"end", "error", "timeout"},
           stream[r].state = "open", At(r, "read") \/ At(r, "wait"), Over(r, why),
           UNCHANGED <<size, via, int0, bytes, awaiting, connections, given, falling>>,
           got' \in [Requests -> Seq(Nat)], broke' \in [Requests -> BOOLEAN],
           \A q \in Requests \ {r} : got'[q] = got[q] /\ broke'[q] = broke[q],
           UnitsOf(r)', broke[r] => broke'[r],
           why = "end" => Len(got'[r]) = size[r] \/ broke'[r],
           why = "end" /\ via[r] = "worker" => connections[r] = NoConnection \/ broke'[r]
    PROVE  IInv'
<1> DEFINE tells == stream[r].live /\ why # "end"
<1>1. /\ stream' = [stream EXCEPT ![r] = Closed]
      /\ inbox' = IF tells THEN Append(inbox, [do |-> "close", r |-> r]) ELSE inbox
      /\ free' = IF held[r] THEN free + 1 ELSE free
      /\ held' = [held EXCEPT ![r] = FALSE]
      /\ ended' = [ended EXCEPT ![r] = why]
      /\ py' = Idle
  BY DEF Over, CloseBody, ReleaseConn, Raised
<1>2. Types /\ Once /\ RequestInv(r) /\ Calling
  BY DEF IInv, Bodies
<1>3. /\ via[r] # "none" /\ ended[r] = "no" /\ (stream[r].live <=> via[r] = "worker")
      /\ ~Posted(r, "close") /\ Unfetched(r)
  BY <1>2 DEF RequestInv, OpenBody
<1>4. /\ inbox' \in Seq(Messages) /\ Once'
      /\ \A q \in Requests, x \in {"fetch", "getMore", "close"} :
           Posted(q, x)' <=> Posted(q, x) \/ (q = r /\ x = "close" /\ tells)
  <2>1. CASE tells
    <3>1. inbox' = Append(inbox, [do |-> "close", r |-> r])
      BY <1>1, <2>1
    <3>2. /\ inbox' \in Seq(Messages) /\ Once'
          /\ \A q \in Requests, x \in {"fetch", "getMore", "close"} :
               Posted(q, x)' <=> Posted(q, x) \/ (q = r /\ x = "close")
      BY ONLY <1>2, <1>3, <3>1, r \in Requests, PostAdds
    <3> HIDE DEF tells
    <3> QED BY <2>1, <3>2
  <2>2. CASE ~tells
    BY <1>1, <1>2, <2>2 DEF Types, Once, Posted
  <2> QED BY <2>1, <2>2
<1>5. Closed \in Streams /\ Closed.state = "closed"
  BY DEF Closed, NoBody, Streams
<1>6. Types'
  <2>1. stream' \in [Requests -> Streams]
    BY <1>1, <1>2, <1>5 DEF Types
  <2>2. held' \in [Requests -> BOOLEAN]
    BY <1>1, <1>2 DEF Types
  <2>3. ended' \in [Requests -> Ends]
    BY <1>1, <1>2 DEF Types, Ends
  <2>4. free' \in Nat
    BY <1>1, <1>2 DEF Types
  <2>5. py' \in [pc : Pcs, r : Requests \cup {"none"}, amt : Asks \cup {All}]
    BY <1>1 DEF Idle, Pcs
  <2> QED BY <1>2, <1>4, <2>1, <2>2, <2>3, <2>4, <2>5 DEF Types
<1>7. /\ \A q \in Requests, x \in {"send", "read", "wait"} : ~At(q, x)'
      /\ \A q \in Requests \ {r}, x \in {"send", "read", "wait"} : ~At(q, x)
  BY <1>1 DEF At, Idle
<1>8. \A q \in Requests \ {r} : Untouched(q)
  <2> TAKE q \in Requests \ {r}
  <2>1. \A x \in {"fetch", "getMore", "close"} : Posted(q, x)' <=> Posted(q, x)
    BY <1>4
  <2>2. \A x \in {"send", "read", "wait"} : At(q, x)' <=> At(q, x)
    BY <1>7
  <2>3. stream'[q] = stream[q] /\ held'[q] = held[q] /\ ended'[q] = ended[q]
    BY <1>1, <1>2 DEF Types
  <2> QED BY <2>1, <2>2, <2>3 DEF Untouched, Falls
<1>9. RequestInv(r)'
  <2>1. stream'[r] = Closed /\ ended'[r] = why /\ ~held'[r]
    BY <1>1, <1>2 DEF Types
  <2>2. Unfetched(r)'
    BY <1>3, <1>4 DEF Unfetched
  <2>3. connections[r] # NoConnection => broke'[r] \/ Posted(r, "close")'
    <3>1. connections[r] # NoConnection => via[r] = "worker"
      BY <1>2 DEF RequestInv, Orderly
    <3> QED BY <1>3, <1>4, <3>1
  <2>4. BodyClosed(r)'
    BY <1>3, <1>5, <2>1, <2>2, <2>3 DEF BodyClosed
  <2>5. Orderly(r)'
    <3>1. via[r] # "worker" => ~tells
      BY <1>3
    <3>2. \A x \in {"fetch", "getMore"} : Posted(r, x)' <=> Posted(r, x)
      BY <1>4
    <3>3. Falls(r)' => broke'[r]
      BY <1>2 DEF RequestInv, Orderly, Falls
    <3>4. via[r] # "worker" => ~Posted(r, "close")'
      BY <1>2, <1>4, <3>1 DEF RequestInv, Orderly
    <3> HIDE DEF tells
    <3> QED BY <1>2, <1>3, <1>5, <2>1, <2>2, <3>2, <3>3, <3>4 DEF RequestInv, Orderly, Unasked
  <2> QED BY <1>5, <2>1, <2>4, <2>5 DEF RequestInv, OpenBody, NoBodyYet
<1>10. Calling'
  BY <1>1 DEF Calling, Idle
<1>11. Slotted'
  <2>1. Sending = 0 /\ Sending' = 0 /\ free \in Nat /\ free' \in Nat
    BY <1>1, <1>2, <1>6 DEF Sending, Idle, At, Types
  <2>2. \A q \in Requests \ {r} : held'[q] = held[q] /\ ended'[q] = ended[q]
    BY <1>1, <1>2 DEF Types
  <2>3. ~held'[r] /\ ended'[r] # "lost" /\ ended[r] # "lost"
    BY <1>1, <1>2, <1>3 DEF Types
  <2>4. CASE held[r]
    <3>1. free' + Sending' = free + Sending + 1
      BY <1>1, <2>1, <2>4
    <3> QED BY <2>1, <2>2, <2>3, <2>4, <3>1, OutLess
  <2>5. CASE ~held[r]
    <3>1. \A q \in Requests : held'[q] \/ ended'[q] = "lost" <=> held[q] \/ ended[q] = "lost"
      BY <2>2, <2>3, <2>5
    <3> QED BY <1>1, <2>1, <2>5, <3>1, OutSame
  <2> QED BY <2>4, <2>5
<1> QED BY <1>4, <1>6, <1>8, <1>9, <1>10, <1>11, StepOfOne

(* A step of a call that leaves the body open: what was copied, and what   *)
(* stands in the buffer now, go on where the caller is.                    *)
LEMMA ReadsOn ==
    ASSUME IInv, NEW r \in Requests, stream[r].state = "open",
           NEW len \in Nat, NEW pos \in Nat,
           \A q \in Requests, x \in {"send", "read", "wait"} : At(q, x) => q = r,
           stream' \in [Requests -> Streams], stream'[r].state = "open",
           stream'[r].live = stream[r].live, stream'[r].len = len, stream'[r].pos = pos,
           \A q \in Requests \ {r} : stream'[q] = stream[q],
           py' \in [pc : {"idle", "read"}, r : Requests \cup {"none"}, amt : Asks \cup {All}],
           py'.pc = "read" => py'.r = r, py.pc # "send", ~Falls(r),
           got' \in [Requests -> Seq(Nat)], given' \in [Requests -> Nat],
           bytes' \in [Requests -> Seq(Nat)],
           \A q \in Requests \ {r} :
             got'[q] = got[q] /\ given'[q] = given[q] /\ bytes'[q] = bytes[q],
           UnitsOf(r)', Ready(r, pos, len)',
           via[r] = "worker" => Unasked(r) /\ Delivered(r, Len(got[r]) + len)',
           via[r] = "whole" => Len(got'[r]) + len = size[r],
           via[r] = "jspi" => Len(got'[r]) + len = given'[r],
           UNCHANGED <<size, via, int0, held, free, inbox, awaiting, connections,
                       falling, ended, broke>>
    PROVE  IInv'
<1>1. Types /\ Once /\ RequestInv(r) /\ Calling
  BY DEF IInv, Bodies
<1>2. /\ via[r] # "none" /\ ended[r] = "no" /\ (stream[r].live <=> via[r] = "worker")
      /\ ~Posted(r, "close") /\ Unfetched(r)
  BY <1>1 DEF RequestInv, OpenBody
<1>3. stream'[r].state = "open" /\ stream'[r].live = stream[r].live
      /\ stream'[r].len = len /\ stream'[r].pos = pos
      /\ \A q \in Requests \ {r} : stream'[q] = stream[q]
  OBVIOUS
<1>4. \A q \in Requests, x \in {"fetch", "getMore", "close"} : Posted(q, x)' <=> Posted(q, x)
  BY DEF Posted
<1>5. \A q \in Requests : ~At(q, "send")' /\ ~At(q, "wait")' /\ (At(q, "read")' => q = r)
  BY DEF At
<1>6. Types'
  <2>1. py' \in [pc : Pcs, r : Requests \cup {"none"}, amt : Asks \cup {All}]
    BY DEF Pcs
  <2> QED BY <1>1, <2>1 DEF Types
<1>7. \A q \in Requests \ {r} : Untouched(q)
  <2> TAKE q \in Requests \ {r}
  <2>1. \A x \in {"send", "read", "wait"} : At(q, x)' <=> At(q, x)
    BY <1>5
  <2> QED BY <1>3, <1>4, <2>1 DEF Untouched, Falls
<1>8. RequestInv(r)'
  <2>1. Unfetched(r)' /\ ~Posted(r, "close")' /\ (Unasked(r)' <=> Unasked(r)) /\ ~Falls(r)'
    BY <1>2, <1>4 DEF Unfetched, Unasked, Falls
  <2>2. OpenBody(r)'
    BY <1>2, <1>3, <1>5, <2>1 DEF OpenBody
  <2>3. Orderly(r)'
    BY <1>1, <1>2, <1>4, <2>1 DEF RequestInv, Orderly
  <2> QED BY <1>3, <2>2, <2>3 DEF RequestInv, NoBodyYet, BodyClosed
<1>9. Once' /\ Calling'
  <2>1. Calling'
    <3>1. py'.pc \in {"idle", "read"}
      OBVIOUS
    <3> QED BY <1>3, <3>1 DEF Calling
  <2> QED BY <1>1, <2>1 DEF Once
<1>10. Slotted'
  <2>1. Sending = 0 /\ Sending' = 0 /\ free' = free /\ free \in Nat
    BY <1>1 DEF Sending, Types
  <2>2. \A q \in Requests : held'[q] \/ ended'[q] = "lost" <=> held[q] \/ ended[q] = "lost"
    OBVIOUS
  <2> QED BY <2>1, <2>2, OutSame
<1> QED BY <1>6, <1>7, <1>8, <1>9, <1>10, StepOfOne

(* What is known of a request whose body is being read.                    *)
LEMMA Reader ==
    ASSUME IInv, NEW r \in Requests, NEW pc \in {"read", "wait"}, At(r, pc)
    PROVE  /\ stream[r].state = "open"
           /\ \A q \in Requests, x \in {"send", "read", "wait"} : At(q, x) => q = r /\ x = pc
           /\ pc = "wait" => via[r] = "worker"
           /\ py.pc = pc /\ py.r = r /\ py.amt \in Nat
           /\ pc = "read" => ~Falls(r)
<1>1. py.pc = pc /\ py.r = r /\ py.amt \in Nat
  <2>1. py.amt \in Asks \cup {All}
    BY DEF IInv, Types
  <2>2. Asks \subseteq Nat /\ All \in Nat
    BY EmscriptenAssumption DEF All
  <2> QED BY <2>1, <2>2 DEF At
<1>2. stream[r].state = "open" /\ (pc = "wait" => via[r] = "worker")
  BY <1>1 DEF IInv, Calling
<1>3. \A q \in Requests, x \in {"send", "read", "wait"} : At(q, x) => q = r /\ x = pc
  BY <1>1 DEF At
<1>4. RequestInv(r)
  BY DEF IInv, Bodies
<1>5. pc = "read" => ~Falls(r)
  BY <1>2, <1>3, <1>4 DEF RequestInv, Orderly
<1> QED BY <1>1, <1>2, <1>3, <1>5

LEMMA ReadInv ==
    ASSUME IInv, NEW r \in Requests, NEW amt \in Asks \cup {All}, Read(r, amt)
    PROVE  IInv'
<1>1. /\ py = Idle /\ stream[r].state = "open"
      /\ py' = [pc |-> "read", r |-> r, amt |-> amt]
      /\ UNCHANGED <<size, via, int0, bytes, stream, held, free, inbox, workerVars, got, ended>>
  BY DEF Read
<1>2. Types /\ RequestInv(r)
  BY DEF IInv, Bodies
<1>3. \A q \in Requests, x \in {"send", "read", "wait"} : ~At(q, x)
  BY <1>1 DEF At, Idle
<1>4. stream[r].len \in Nat /\ stream[r].pos \in Nat /\ stream' \in [Requests -> Streams]
      /\ stream' = stream
  BY <1>1, <1>2 DEF Types, Streams
<1>5. /\ via[r] # "none" /\ ended[r] = "no"
      /\ Ready(r, stream[r].pos, stream[r].len)
      /\ via[r] = "worker" => Unasked(r) /\ Delivered(r, Len(got[r]) + stream[r].len)
      /\ via[r] = "whole" => Len(got[r]) + stream[r].len = size[r]
      /\ via[r] = "jspi" => Len(got[r]) + stream[r].len = given[r]
  BY <1>1, <1>2, <1>3 DEF RequestInv, OpenBody
<1>6. ~Falls(r) /\ py.pc # "send"
  BY <1>1, <1>2, <1>3 DEF RequestInv, Orderly, Idle
<1>7. py' \in [pc : {"idle", "read"}, r : Requests \cup {"none"}, amt : Asks \cup {All}] /\ py'.r = r
  BY <1>1
<1>8. got' \in [Requests -> Seq(Nat)] /\ given' \in [Requests -> Nat] /\ bytes' \in [Requests -> Seq(Nat)]
      /\ got' = got /\ given' = given /\ bytes' = bytes
  BY <1>1, <1>2 DEF Types, workerVars
<1>9. UnitsOf(r)' /\ (via[r] = "worker" => Delivered(r, Len(got[r]) + stream[r].len)')
      /\ Ready(r, stream[r].pos, stream[r].len)'
  BY <1>1, <1>2, <1>5 DEF RequestInv, UnitsOf, Delivered, Ready, workerVars
<1>10. UNCHANGED <<size, via, int0, held, free, inbox, awaiting, connections, falling, ended, broke>>
  BY <1>1 DEF workerVars
<1> QED BY <1>1, <1>3, <1>4, <1>5, <1>6, <1>7, <1>8, <1>9, <1>10, ReadsOn

LEMMA CopyInv ==
    ASSUME IInv, NEW r \in Requests, Copy(r)
    PROVE  IInv'
<1>2. Types /\ RequestInv(r) /\ At(r, "read")
  BY DEF IInv, Bodies, Copy, Reading, At
<1>5. PICK len \in Nat, pos \in Nat, n \in Nat :
        /\ len = stream[r].len /\ pos = stream[r].pos /\ n <= len
        /\ n = IF py.amt = All THEN len ELSE Least(len, py.amt)
  <2>1. stream[r].len \in Nat /\ stream[r].pos \in Nat /\ py.amt \in Nat
    BY <1>2, Reader DEF Types, Streams
  <2>2. \E n \in Nat : /\ n <= stream[r].len
                       /\ n = IF py.amt = All THEN stream[r].len ELSE Least(stream[r].len, py.amt)
    BY <2>1 DEF Least
  <2> QED BY <2>1, <2>2
<1> DEFINE more == got[r] \o SubSeq(bytes[r], pos + 1, pos + n)
<1>1a. got' = [got EXCEPT ![r] = more]
  BY <1>5 DEF Copy, IInv, Types
<1> HIDE DEF more
<1>1. /\ len > 0
      /\ UNCHANGED <<size, via, workerVars, int0, bytes>>
      /\ IF via[r] = "whole" /\ len = n
           THEN Over(r, "end")
           ELSE /\ stream' = [stream EXCEPT ![r].len = len - n, ![r].pos = pos + n]
                /\ py' = IF py.amt = All THEN py ELSE Idle
                /\ UNCHANGED <<held, free, inbox, ended>>
  BY <1>5 DEF Copy, Reading
<1>3. /\ stream[r].state = "open" /\ py.pc = "read" /\ py.r = r /\ py.amt \in Nat /\ ~Falls(r)
      /\ \A q \in Requests, x \in {"send", "read", "wait"} : At(q, x) => q = r /\ x = "read"
  BY <1>2, Reader
<1>4. /\ via[r] # "none" /\ ended[r] = "no" /\ Ready(r, pos, len)
      /\ via[r] = "worker" => Unasked(r) /\ Delivered(r, Len(got[r]) + len)
      /\ via[r] = "whole" => Len(got[r]) + len = size[r]
      /\ via[r] = "jspi" => Len(got[r]) + len = given[r]
  BY <1>2, <1>3, <1>5 DEF RequestInv, OpenBody
<1>6. bytes[r] \in Seq(Nat) /\ got[r] \in Seq(Nat) /\ Len(bytes[r]) \in Nat /\ Len(got[r]) \in Nat
      /\ \A i \in 1 .. Len(got[r]) : got[r][i] = i
  BY <1>2, LenProperties DEF Types, RequestInv, UnitsOf
<1>7. got'[r] = more /\ \A q \in Requests \ {r} : got'[q] = got[q]
  BY <1>1a, <1>2 DEF Types
<1>8. /\ more \in Seq(Nat) /\ Len(more) = Len(got[r]) + n
      /\ \A i \in 1 .. Len(got[r]) + n : more[i] = i
  <2>1. pos + n <= Len(bytes[r]) /\ \A i \in 1 .. n : bytes[r][pos + i] = Len(got[r]) + i
    BY <1>4, <1>5, <1>6 DEF Ready
  <2>2. PICK g \in Seq(Nat), b \in Seq(Nat) : g = got[r] /\ b = bytes[r]
    BY <1>6
  <2>3. /\ pos + n <= Len(b) /\ \A i \in 1 .. Len(g) : g[i] = i
        /\ \A i \in 1 .. n : b[pos + i] = Len(g) + i
    BY ONLY <1>6, <2>1, <2>2
  <2>4. more = g \o SubSeq(b, pos + 1, pos + n)
    BY <2>2 DEF more
  <2>5. LET w == g \o SubSeq(b, pos + 1, pos + n)
        IN  /\ w \in Seq(Nat) /\ Len(w) = Len(g) + n
            /\ \A i \in 1 .. Len(g) + n : w[i] = i
    BY ONLY <2>3, g \in Seq(Nat), b \in Seq(Nat), pos \in Nat, n \in Nat, CopyGoesOn
  <2>6. /\ more \in Seq(Nat) /\ Len(more) = Len(g) + n
        /\ \A i \in 1 .. Len(g) + n : more[i] = i
    BY ONLY <2>4, <2>5, Zenon
  <2> QED BY ONLY <2>2, <2>6
<1>9. got' \in [Requests -> Seq(Nat)]
  BY <1>1a, <1>2, <1>8 DEF Types
<1>10. UnitsOf(r)'
  <2>1. PICK k, g, s : k = Len(got[r]) /\ g = given[r] /\ s = size[r]
    OBVIOUS
  <2>2. k \in Nat /\ g \in Nat /\ s \in Nat /\ g <= s
    BY <1>2, <1>6, <2>1, EmscriptenAssumption DEF Types, RequestInv, UnitsOf
  <2>3. k + len <= s
    <3>1. CASE via[r] = "worker"
      <4>1. PICK c, o : c = Len(connections[r].value) /\ o = connections[r].curOffset
        OBVIOUS
      <4>2. c \in Nat /\ o \in Int
        BY <1>2, <4>1, LenProperties DEF Types, Connections
      <4>3. o <= c
        BY <1>2, <4>1 DEF RequestInv, UnitsOf
      <4>4. g - c + o = k + len
        BY <1>4, <2>1, <3>1, <4>1 DEF Delivered
      <4> QED BY ONLY <2>2, <4>2, <4>3, <4>4, len \in Nat
    <3>2. CASE via[r] = "whole"
      BY <1>4, <2>1, <2>2, <3>2
    <3>3. CASE via[r] = "jspi"
      BY <1>4, <2>1, <2>2, <3>3
    <3>4. via[r] \in {"none", "worker", "whole", "jspi"}
      BY <1>2 DEF Types, Ways
    <3> QED BY <1>4, <3>1, <3>2, <3>3, <3>4
  <2>4. Len(more) <= size[r]
    <3>1. k + n <= s
      BY ONLY <1>5, <2>2, <2>3, n \in Nat, len \in Nat
    <3>2. Len(more) = k + n
      BY <1>8, <2>1
    <3> QED BY <2>1, <3>1, <3>2
  <2> QED BY <1>1, <1>2, <1>7, <1>8, <2>4 DEF RequestInv, UnitsOf, workerVars
<1>11. CASE via[r] = "whole" /\ len = n
  <2>1. Len(got'[r]) = size[r] /\ Over(r, "end")
    BY <1>1, <1>4, <1>7, <1>8, <1>11
  <2>2. broke' \in [Requests -> BOOLEAN] /\ broke' = broke
        /\ UNCHANGED <<size, via, int0, bytes, awaiting, connections, given, falling>>
    BY <1>1, <1>2 DEF Types, workerVars
  <2> QED BY <1>2, <1>3, <1>7, <1>9, <1>10, <1>11, <2>1, <2>2, OverInv
<1>12. CASE ~(via[r] = "whole" /\ len = n)
  <2>0. PICK rest \in Nat, next \in Nat : rest = len - n /\ next = pos + n
    <3>1. len - n \in Nat /\ pos + n \in Nat
      BY <1>5
    <3> QED BY <3>1
  <2>1. /\ stream' = [stream EXCEPT ![r].len = rest, ![r].pos = next]
        /\ py' = IF py.amt = All THEN py ELSE Idle
        /\ UNCHANGED <<held, free, inbox, ended>>
    BY <1>1, <1>12, <2>0
  <2>2. /\ stream' \in [Requests -> Streams] /\ stream'[r].state = "open"
        /\ stream'[r].live = stream[r].live /\ stream'[r].len = rest /\ stream'[r].pos = next
        /\ \A q \in Requests \ {r} : stream'[q] = stream[q]
    BY <1>2, <1>3, <2>1 DEF Types, Streams
  <2>3. /\ py' \in [pc : {"idle", "read"}, r : Requests \cup {"none"}, amt : Asks \cup {All}]
        /\ py'.pc = "read" => py'.r = r
    BY <1>2, <1>3, <2>1 DEF Types, Idle
  <2> DEFINE had == Len(got[r])
  <2>4. had \in Nat /\ len = n + rest /\ (had + n) + rest = had + len
    <3>1. had \in Nat
      BY <1>6
    <3>2. n <= len
      BY <1>5
    <3> HIDE DEF had
    <3> QED BY <2>0, <3>1, <3>2
  <2>5. Ready(r, next, rest)'
    <3>1. next + rest <= Len(bytes[r])
      <4>1. pos + len <= Len(bytes[r]) /\ Len(bytes[r]) \in Nat
        BY <1>4, <1>6 DEF Ready
      <4>2. next + rest = pos + len
        BY <2>0, <2>4
      <4> QED BY <4>1, <4>2
    <3>2. ASSUME NEW i \in 1 .. rest PROVE bytes[r][next + i] = (had + n) + i
      <4>1. had \in Nat /\ len = n + rest /\ next = pos + n
        BY <2>0, <2>4
      <4> HIDE DEF had
      <4>2. n + i \in 1 .. len /\ pos + (n + i) = next + i /\ had + (n + i) = (had + n) + i
        BY <4>1
      <4>3. bytes[r][pos + (n + i)] = had + (n + i)
        BY <1>4, <4>2 DEF Ready, had
      <4> QED BY <4>2, <4>3
    <3> QED BY <1>1, <1>7, <1>8, <3>1, <3>2 DEF Ready
  <2>6. via[r] = "worker" => Unasked(r) /\ Delivered(r, Len(got[r]) + rest)'
    BY <1>1, <1>4, <1>7, <1>8, <2>4 DEF Delivered, workerVars
  <2>7. /\ via[r] = "whole" => Len(got'[r]) + rest = size[r]
        /\ via[r] = "jspi" => Len(got'[r]) + rest = given'[r]
    BY <1>1, <1>4, <1>7, <1>8, <2>4 DEF workerVars
  <2>8. given' \in [Requests -> Nat] /\ bytes' \in [Requests -> Seq(Nat)]
        /\ given' = given /\ bytes' = bytes
        /\ UNCHANGED <<size, via, int0, held, free, inbox, awaiting, connections,
                       falling, ended, broke>>
    BY <1>1, <1>2, <2>1 DEF Types, workerVars
  <2>9. /\ py.pc # "send" /\ stream[r].state = "open" /\ ~Falls(r)
        /\ \A q \in Requests, x \in {"send", "read", "wait"} : At(q, x) => q = r
    BY <1>3
  <2>10. \A q \in Requests \ {r} :
           got'[q] = got[q] /\ given'[q] = given[q] /\ bytes'[q] = bytes[q]
    BY <1>7, <2>8
  <2> QED BY <1>9, <1>10, <2>2, <2>3, <2>5, <2>6, <2>7, <2>8, <2>9, <2>10, ReadsOn
<1> QED BY <1>11, <1>12

LEMMA EmptyBodyInv ==
    ASSUME IInv, NEW r \in Requests, EmptyBody(r)
    PROVE  IInv'
<1>1. /\ At(r, "read") /\ via[r] = "whole" /\ stream[r].len = 0 /\ Over(r, "end")
      /\ UNCHANGED <<size, via, workerVars, int0, bytes, got>>
  BY DEF EmptyBody, Reading, At
<1>2. Types /\ RequestInv(r) /\ stream[r].state = "open"
  BY <1>1, Reader DEF IInv, Bodies
<1>3. Len(got[r]) = size[r]
  <2>1. Len(got[r]) \in Nat
    BY <1>2, LenProperties DEF Types
  <2> QED BY <1>1, <1>2, <2>1 DEF RequestInv, OpenBody
<1>4. UnitsOf(r)' /\ got' \in [Requests -> Seq(Nat)] /\ broke' \in [Requests -> BOOLEAN]
      /\ got' = got /\ broke' = broke
      /\ UNCHANGED <<size, via, int0, bytes, awaiting, connections, given, falling>>
  BY <1>1, <1>2 DEF Types, RequestInv, UnitsOf, workerVars
<1> QED BY <1>1, <1>2, <1>3, <1>4, OverInv

LEMMA ReadTimesOutInv ==
    ASSUME IInv, NEW r \in Requests, ReadTimesOut(r)
    PROVE  IInv'
<1>1. /\ At(r, "wait") /\ Over(r, "timeout")
      /\ UNCHANGED <<size, via, workerVars, int0, bytes, got>>
  BY DEF ReadTimesOut, Reading, At
<1>2. Types /\ RequestInv(r) /\ stream[r].state = "open"
  BY <1>1, Reader DEF IInv, Bodies
<1>3. UnitsOf(r)' /\ got' \in [Requests -> Seq(Nat)] /\ broke' \in [Requests -> BOOLEAN]
      /\ got' = got /\ broke' = broke
      /\ UNCHANGED <<size, via, int0, bytes, awaiting, connections, given, falling>>
  BY <1>1, <1>2 DEF Types, RequestInv, UnitsOf, workerVars
<1> QED BY <1>1, <1>2, <1>3, OverInv

LEMMA WakeInv ==
    ASSUME IInv, NEW r \in Requests, Wake(r)
    PROVE  IInv'
<1>1. /\ At(r, "wait") /\ int0[r] # ERROR_TIMEOUT
      /\ UNCHANGED <<size, via, workerVars, int0, bytes, got>>
  BY DEF Wake, Reading, At
<1>2. Types /\ RequestInv(r)
  BY DEF IInv, Bodies
<1>3. /\ stream[r].state = "open" /\ via[r] = "worker" /\ py.pc = "wait" /\ py.r = r
      /\ \A q \in Requests, x \in {"send", "read", "wait"} : At(q, x) => q = r
  BY <1>1, Reader
<1>4. Answered(r) /\ Unasked(r)
  BY <1>1, <1>2, <1>3 DEF RequestInv, OpenBody, Answered
<1>5. UnitsOf(r)' /\ got' \in [Requests -> Seq(Nat)] /\ broke' \in [Requests -> BOOLEAN]
      /\ got' = got /\ broke' = broke
      /\ given' \in [Requests -> Nat] /\ given' = given
      /\ bytes' \in [Requests -> Seq(Nat)] /\ bytes' = bytes
      /\ UNCHANGED <<size, via, int0, bytes, awaiting, connections, given, falling>>
  BY <1>1, <1>2 DEF Types, RequestInv, UnitsOf, workerVars
<1>6. CASE /\ int0[r] > 0
           /\ stream' = [stream EXCEPT ![r].len = int0[r], ![r].pos = 0]
           /\ py' = [py EXCEPT !.pc = "read"]
           /\ UNCHANGED <<held, free, inbox, ended>>
  <2>1. PICK n \in Nat : n = int0[r]
    BY <1>2, <1>6, EmscriptenAssumption DEF Types
  <2>2. stream' = [stream EXCEPT ![r].len = n, ![r].pos = 0]
    BY <1>6, <2>1
  <2>3. /\ stream' \in [Requests -> Streams] /\ stream'[r].state = "open"
        /\ stream'[r].live = stream[r].live /\ stream'[r].len = n /\ stream'[r].pos = 0
        /\ \A q \in Requests \ {r} : stream'[q] = stream[q]
    BY <1>2, <1>3, <2>2 DEF Types, Streams
  <2>4. /\ py' \in [pc : {"idle", "read"}, r : Requests \cup {"none"}, amt : Asks \cup {All}]
        /\ py'.r = r
    BY <1>2, <1>3, <1>6 DEF Types
  <2>5. Ready(r, 0, n)' /\ Delivered(r, Len(got[r]) + n)'
    BY <1>4, <1>5, <1>6, <2>1 DEF Answered, Ready, Delivered
  <2>6. ~Falls(r)
    BY <1>2, <1>3, <1>6 DEF RequestInv, Orderly, ERROR_EXCEPTION
  <2>7. UNCHANGED <<size, via, int0, held, free, inbox, awaiting, connections, falling, ended, broke>>
    BY <1>5, <1>6
  <2>8. py.pc # "send" /\ 0 \in Nat
    BY <1>3
  <2>9. via[r] # "whole" /\ via[r] # "jspi"
    BY <1>3
  <2> QED BY <1>3, <1>4, <1>5, <2>3, <2>4, <2>5, <2>6, <2>7, <2>8, <2>9, ReadsOn
<1>7. CASE int0[r] = ERROR_EXCEPTION /\ Over(r, "error")
  BY <1>1, <1>3, <1>5, <1>7, OverInv
<1>8. CASE int0[r] <= 0 /\ int0[r] # ERROR_EXCEPTION /\ Over(r, "end")
  <2>1. int0[r] \in -4 .. Capacity /\ Capacity \in Nat
    BY <1>2, EmscriptenAssumption DEF Types
  <2>2. \/ Len(got[r]) = size[r] /\ connections[r] = NoConnection
        \/ broke[r]
    <3>1. int0[r] \in {0, SUCCESS_HEADER, SUCCESS_EOF, -4}
      BY <1>1, <1>8, <2>1 DEF SUCCESS_HEADER, SUCCESS_EOF, ERROR_TIMEOUT, ERROR_EXCEPTION
    <3> QED BY <1>4, <1>8, <3>1 DEF Answered, ERROR_EXCEPTION
  <2> QED BY <1>1, <1>3, <1>5, <1>8, <2>2, OverInv
<1> QED BY <1>6, <1>7, <1>8 DEF Wake

LEMMA GetNextBufferInv ==
    ASSUME IInv, NEW r \in Requests, GetNextBuffer(r)
    PROVE  IInv'
<1>1. /\ At(r, "read") /\ via[r] = "jspi" /\ stream[r].len = 0
      /\ UNCHANGED <<size, via, int0, awaiting, connections, falling, got>>
  BY DEF GetNextBuffer, At
<1>2. Types /\ RequestInv(r)
  BY DEF IInv, Bodies
<1>3. /\ stream[r].state = "open" /\ py.pc = "read" /\ py.r = r /\ ~Falls(r)
      /\ \A q \in Requests, x \in {"send", "read", "wait"} : At(q, x) => q = r
  BY <1>1, Reader
<1>4. Len(got[r]) = given[r] /\ given[r] \in Nat /\ size[r] \in Nat /\ given[r] <= size[r]
      /\ connections[r] = NoConnection
  <2>1. Len(got[r]) \in Nat /\ given[r] \in Nat /\ size[r] \in Nat
    BY <1>2, LenProperties, EmscriptenAssumption DEF Types
  <2>2. Len(got[r]) + 0 = given[r]
    BY <1>1, <1>2, <1>3 DEF RequestInv, OpenBody
  <2>3. given[r] <= size[r] /\ connections[r] = NoConnection
    BY <1>1, <1>2 DEF RequestInv, UnitsOf, Orderly
  <2> QED BY <2>1, <2>2, <2>3
<1>5. got' \in [Requests -> Seq(Nat)] /\ got' = got
  BY <1>1, <1>2 DEF Types
<1>6. ASSUME NEW n \in 1 .. size[r] - given[r],
             bytes' = [bytes EXCEPT ![r] = Units(given[r] + 1, given[r] + n)],
             given' = [given EXCEPT ![r] = @ + n],
             stream' = [stream EXCEPT ![r].len = n, ![r].pos = 0],
             UNCHANGED <<py, held, free, inbox, ended, broke>>
      PROVE  IInv'
  <2>1. n \in Nat /\ given[r] + n \in Nat /\ given[r] + n <= size[r] /\ 0 \in Nat
    BY <1>4
  <2>2. /\ Units(given[r] + 1, given[r] + n) \in Seq(Nat)
        /\ Len(Units(given[r] + 1, given[r] + n)) = n
        /\ \A i \in 1 .. n : Units(given[r] + 1, given[r] + n)[i] = given[r] + i
    BY <1>4, <2>1, UnitsAre
  <2> DEFINE piece == Units(given[r] + 1, given[r] + n)
  <2>3. /\ bytes' = [bytes EXCEPT ![r] = piece] /\ piece \in Seq(Nat) /\ Len(piece) = n
        /\ \A i \in 1 .. n : piece[i] = given[r] + i
    BY <1>6, <2>2
  <2> HIDE DEF piece
  <2>4. bytes' \in [Requests -> Seq(Nat)] /\ bytes'[r] = piece
        /\ \A q \in Requests \ {r} : bytes'[q] = bytes[q]
    BY <1>2, <2>3 DEF Types
  <2>5. given' \in [Requests -> Nat] /\ given'[r] = given[r] + n
        /\ \A q \in Requests \ {r} : given'[q] = given[q]
    BY <1>2, <1>6, <2>1 DEF Types
  <2>6. /\ stream' \in [Requests -> Streams] /\ stream'[r].state = "open"
        /\ stream'[r].live = stream[r].live /\ stream'[r].len = n /\ stream'[r].pos = 0
        /\ \A q \in Requests \ {r} : stream'[q] = stream[q]
    BY <1>2, <1>3, <1>6, <2>1 DEF Types, Streams
  <2>7. /\ py' \in [pc : {"idle", "read"}, r : Requests \cup {"none"}, amt : Asks \cup {All}]
        /\ py'.r = r
    BY <1>2, <1>3, <1>6 DEF Types
  <2>8. Ready(r, 0, n)'
    BY <1>1, <1>4, <2>1, <2>3, <2>4 DEF Ready
  <2>9. UnitsOf(r)'
    <3>1. \A i \in 1 .. Len(piece) : piece[i] \in 1 .. size[r]
      BY <1>4, <2>1, <2>3
    <3> QED BY <1>1, <1>2, <1>4, <2>1, <2>4, <2>5, <3>1 DEF RequestInv, UnitsOf
  <2>10. Len(got'[r]) + n = given'[r] /\ py.pc # "send" /\ via[r] # "worker" /\ via[r] # "whole"
    BY <1>1, <1>3, <1>4, <2>5
  <2>11. UNCHANGED <<size, via, int0, held, free, inbox, awaiting, connections,
                     falling, ended, broke>>
    BY <1>1, <1>6
  <2> QED BY <1>3, <1>5, <2>1, <2>4, <2>5, <2>6, <2>7, <2>8, <2>9, <2>10, <2>11, ReadsOn
<1>7. ASSUME NEW why \in {"end", "error", "timeout"}, Over(r, why), UNCHANGED <<bytes, given>>,
             broke' \in [Requests -> BOOLEAN], \A q \in Requests \ {r} : broke'[q] = broke[q],
             broke[r] => broke'[r], why = "end" => given[r] = size[r]
      PROVE  IInv'
  <2>1. UnitsOf(r)'
    BY <1>1, <1>2, <1>7 DEF RequestInv, UnitsOf
  <2>2. why = "end" => Len(got'[r]) = size[r]
    BY <1>1, <1>4, <1>7
  <2>3. UNCHANGED <<size, via, int0, bytes, awaiting, connections, given, falling>>
    BY <1>1, <1>7
  <2> QED BY <1>1, <1>3, <1>5, <1>7, <2>1, <2>2, <2>3, OverInv
<1>8. broke \in [Requests -> BOOLEAN]
  BY <1>2 DEF Types
<1>9. CASE given[r] = size[r] /\ Over(r, "end") /\ UNCHANGED <<bytes, given, broke>>
  BY <1>7, <1>8, <1>9
<1>10. CASE /\ Over(r, "error") /\ broke' = [broke EXCEPT ![r] = TRUE]
            /\ UNCHANGED <<bytes, given>>
  <2>1. /\ broke' \in [Requests -> BOOLEAN] /\ \A q \in Requests \ {r} : broke'[q] = broke[q]
        /\ broke'[r]
    BY <1>8, <1>10
  <2> QED BY <1>7, <1>10, <2>1
<1>11. CASE Over(r, "timeout") /\ UNCHANGED <<bytes, given, broke>>
  BY <1>7, <1>8, <1>11
<1> QED BY <1>6, <1>9, <1>10, <1>11 DEF GetNextBuffer

LEMMA GetMoreInv ==
    ASSUME IInv, NEW r \in Requests, GetMore(r)
    PROVE  IInv'
<1>1. /\ At(r, "read") /\ via[r] = "worker" /\ stream[r].len = 0
      /\ int0' = [int0 EXCEPT ![r] = ERROR_TIMEOUT]
      /\ inbox' = Append(inbox, [do |-> "getMore", r |-> r])
      /\ py' = [py EXCEPT !.pc = "wait"]
      /\ UNCHANGED <<size, via, workerVars, bytes, stream, held, free, got, ended>>
  BY DEF GetMore, Reading, At
<1>2. Types /\ Once /\ RequestInv(r)
  BY DEF IInv, Bodies
<1>3. /\ stream[r].state = "open" /\ py.pc = "read" /\ py.r = r /\ ~Falls(r)
      /\ \A q \in Requests, x \in {"send", "read", "wait"} : At(q, x) => q = r /\ x = "read"
  BY <1>1, Reader
<1>4. /\ ended[r] = "no" /\ (stream[r].live <=> via[r] = "worker")
      /\ ~Posted(r, "close") /\ Unfetched(r) /\ Ready(r, stream[r].pos, stream[r].len)
      /\ Unasked(r) /\ Delivered(r, Len(got[r]) + stream[r].len)
  BY <1>1, <1>2, <1>3 DEF RequestInv, OpenBody
<1>5. /\ inbox' \in Seq(Messages) /\ Once'
      /\ \A q \in Requests, x \in {"fetch", "getMore", "close"} :
           Posted(q, x)' <=> Posted(q, x) \/ (q = r /\ x = "getMore")
  BY <1>1, <1>2, <1>4, PostAdds DEF Unasked
<1>6. Types'
  <2>1. int0' \in [Requests -> -4 .. Capacity]
    <3>1. int0 \in [Requests -> -4 .. Capacity]
      BY <1>2 DEF Types
    <3>2. ERROR_TIMEOUT \in -4 .. Capacity
      BY EmscriptenAssumption DEF ERROR_TIMEOUT
    <3>3. int0' = [int0 EXCEPT ![r] = ERROR_TIMEOUT]
      BY <1>1
    <3> QED BY ONLY <3>1, <3>2, <3>3
  <2>2. py' \in [pc : Pcs, r : Requests \cup {"none"}, amt : Asks \cup {All}]
    BY <1>1, <1>2 DEF Types, Pcs
  <2> QED BY <1>1, <1>2, <1>5, <2>1, <2>2 DEF Types, workerVars
<1>7. /\ At(r, "wait")' /\ py'.pc = "wait" /\ py'.r = r
      /\ \A q \in Requests \ {r}, x \in {"send", "read", "wait"} : ~At(q, x)'
  BY <1>1, <1>2, <1>3 DEF At, Types
<1>8. \A q \in Requests \ {r} : Untouched(q)
  <2> TAKE q \in Requests \ {r}
  <2>1. /\ \A x \in {"fetch", "getMore", "close"} : Posted(q, x)' <=> Posted(q, x)
        /\ \A x \in {"send", "read", "wait"} : At(q, x)' <=> At(q, x)
    BY <1>3, <1>5, <1>7
  <2> QED BY <1>1, <1>2, <2>1 DEF Types, Untouched, Falls, workerVars
<1>9. RequestInv(r)'
  <2>1. /\ int0'[r] = ERROR_TIMEOUT /\ Posted(r, "getMore")' /\ ~Posted(r, "close")' /\ Unfetched(r)'
        /\ ~Falls(r)'
    BY <1>1, <1>2, <1>3, <1>4, <1>5 DEF Types, Unfetched, Falls, workerVars
  <2>2. awaiting'[r] = <<>>
    BY <1>1, <1>2, <1>4 DEF Types, Waits, Unasked, Unfetched, workerVars
  <2>3. UnitsOf(r)'
    BY <1>1, <1>2 DEF RequestInv, UnitsOf, workerVars
  <2>4. Answered(r)'
    <3>1. Len(got[r]) + stream[r].len = Len(got[r])
      <4>1. Len(got[r]) \in Nat
        BY <1>2, LenProperties DEF Types
      <4> QED BY <1>1, <4>1
    <3>2. Delivered(r, Len(got[r]))'
      BY <1>1, <1>4, <3>1 DEF Delivered, workerVars
    <3>3. Asked(r)'
      BY <2>1, <2>2 DEF Asked
    <3> QED BY <1>1, <2>1, <3>2, <3>3
        DEF Answered, ERROR_TIMEOUT, SUCCESS_EOF, ERROR_EXCEPTION, SUCCESS_HEADER
  <2>5. OpenBody(r)'
    BY <1>1, <1>4, <1>7, <2>1, <2>4 DEF OpenBody, Ready
  <2>6. Orderly(r)'
    BY <1>1, <1>2, <1>3, <1>5, <2>1, <2>2 DEF RequestInv, Orderly, Unfetched, workerVars
  <2> QED BY <1>1, <1>3, <2>3, <2>5, <2>6 DEF RequestInv, NoBodyYet, BodyClosed
<1>10. Calling'
  BY <1>1, <1>3, <1>7 DEF Calling
<1>11. Slotted'
  <2>1. Sending = 0 /\ Sending' = 0 /\ free' = free /\ free \in Nat
    BY <1>1, <1>2, <1>3, <1>7 DEF Sending, Types
  <2>2. \A q \in Requests : held'[q] \/ ended'[q] = "lost" <=> held[q] \/ ended[q] = "lost"
    BY <1>1
  <2> QED BY <2>1, <2>2, OutSame
<1> QED BY <1>5, <1>6, <1>8, <1>9, <1>10, <1>11, StepOfOne

LEMMA CloseInv ==
    ASSUME IInv, NEW r \in Requests, Close(r)
    PROVE  IInv'
<1> DEFINE tells == stream[r].live
           why == IF held[r] THEN "lost" ELSE "closed"
<1>1. /\ py = Idle /\ stream[r].state = "open"
      /\ stream' = [stream EXCEPT ![r] = Closed]
      /\ inbox' = IF tells THEN Append(inbox, [do |-> "close", r |-> r]) ELSE inbox
      /\ ended' = [ended EXCEPT ![r] = why]
      /\ held' = [held EXCEPT ![r] = FALSE]
      /\ UNCHANGED <<size, py, via, int0, bytes, workerVars, free, got>>
  BY DEF Close, CloseBody, Raised
<1>2. Types /\ Once /\ RequestInv(r)
  BY DEF IInv, Bodies
<1>3. /\ via[r] # "none" /\ ended[r] = "no" /\ (tells <=> via[r] = "worker")
      /\ ~Posted(r, "close") /\ Unfetched(r)
  BY <1>1, <1>2 DEF RequestInv, OpenBody
<1>4. /\ inbox' \in Seq(Messages) /\ Once'
      /\ \A q \in Requests, x \in {"fetch", "getMore", "close"} :
           Posted(q, x)' <=> Posted(q, x) \/ (q = r /\ x = "close" /\ via[r] = "worker")
  <2>1. CASE via[r] = "worker"
    <3>1. inbox' = Append(inbox, [do |-> "close", r |-> r])
      BY <1>1, <1>3, <2>1
    <3>2. /\ inbox' \in Seq(Messages) /\ Once'
          /\ \A q \in Requests, x \in {"fetch", "getMore", "close"} :
               Posted(q, x)' <=> Posted(q, x) \/ (q = r /\ x = "close")
      BY ONLY <1>2, <1>3, <3>1, r \in Requests, PostAdds
    <3> QED BY <2>1, <3>2
  <2>2. CASE via[r] # "worker"
    BY <1>1, <1>2, <1>3, <2>2 DEF Types, Once, Posted
  <2> QED BY <2>1, <2>2
<1>5. Closed \in Streams /\ Closed.state = "closed"
  BY DEF Closed, NoBody, Streams
<1>6. why \in {"lost", "closed"} /\ (held[r] <=> why = "lost")
  OBVIOUS
<1> HIDE DEF tells, why
<1>7. Types'
  <2>1. stream' \in [Requests -> Streams]
    BY <1>1, <1>2, <1>5 DEF Types
  <2>2. held' \in [Requests -> BOOLEAN]
    BY <1>1, <1>2 DEF Types
  <2>3. ended' \in [Requests -> Ends]
    BY <1>1, <1>2, <1>6 DEF Types, Ends
  <2> QED BY <1>1, <1>2, <1>4, <2>1, <2>2, <2>3 DEF Types, workerVars
<1>8. \A q \in Requests, x \in {"send", "read", "wait"} : ~At(q, x)' /\ ~At(q, x)
  BY <1>1 DEF At, Idle
<1>9. \A q \in Requests \ {r} : Untouched(q)
  <2> TAKE q \in Requests \ {r}
  <2>1. \A x \in {"fetch", "getMore", "close"} : Posted(q, x)' <=> Posted(q, x)
    BY <1>4
  <2>2. stream'[q] = stream[q] /\ held'[q] = held[q] /\ ended'[q] = ended[q]
    BY <1>1, <1>2 DEF Types
  <2> QED BY <1>1, <1>8, <2>1, <2>2 DEF Untouched, Falls, workerVars
<1>10. RequestInv(r)'
  <2>1. stream'[r] = Closed /\ ended'[r] = why /\ ~held'[r]
    BY <1>1, <1>2 DEF Types
  <2>2. Unfetched(r)' /\ UnitsOf(r)'
    BY <1>1, <1>2, <1>3, <1>4 DEF Unfetched, RequestInv, UnitsOf, workerVars
  <2>3. connections[r] # NoConnection => Posted(r, "close")'
    BY <1>2, <1>4 DEF RequestInv, Orderly
  <2>4. BodyClosed(r)'
    BY <1>1, <1>3, <1>5, <1>6, <2>1, <2>2, <2>3 DEF BodyClosed, workerVars
  <2>5. Orderly(r)'
    <3>1. \A x \in {"fetch", "getMore"} : Posted(r, x)' <=> Posted(r, x)
      BY <1>4
    <3>2. Falls(r)' => broke'[r]
      BY <1>1, <1>2 DEF RequestInv, Orderly, Falls, workerVars
    <3>3. via[r] # "worker" => ~Posted(r, "close")'
      BY <1>3, <1>4
    <3> QED BY <1>1, <1>2, <1>3, <1>5, <2>1, <2>2, <3>1, <3>2, <3>3
        DEF RequestInv, Orderly, Unasked, workerVars
  <2> QED BY <1>5, <2>1, <2>2, <2>4, <2>5 DEF RequestInv, OpenBody, NoBodyYet
<1>11. Calling'
  BY <1>1 DEF Calling, Idle
<1>12. Slotted'
  <2>1. Sending' = Sending /\ free' = free /\ free \in Nat /\ Sending \in Nat
    BY <1>1, <1>2 DEF Sending, Types
  <2>2. \A q \in Requests : held'[q] \/ ended'[q] = "lost" <=> held[q] \/ ended[q] = "lost"
    BY <1>1, <1>2, <1>3, <1>6 DEF Types
  <2> QED BY <2>1, <2>2, OutSame
<1> QED BY <1>4, <1>7, <1>9, <1>10, <1>11, <1>12, StepOfOne

(***************************************************************************)
(* The worker's steps.                                                     *)
(***************************************************************************)
(* A step of the worker's leaves Python, and the other requests, alone.    *)
LEMMA WorkerInv ==
    ASSUME IInv, NEW r \in Requests, UNCHANGED <<size, pyVars>>,
           int0' \in [Requests -> -4 .. Capacity], bytes' \in [Requests -> Seq(Nat)],
           inbox' \in Seq(Messages), Once', awaiting' \in [Requests -> Waits],
           connections' \in [Requests -> Connections], given' \in [Requests -> Nat],
           falling' = Nobody \/ falling' \in [r : Requests, undefined : BOOLEAN],
           broke' \in [Requests -> BOOLEAN],
           \A q \in Requests \ {r} :
             /\ int0'[q] = int0[q] /\ bytes'[q] = bytes[q] /\ awaiting'[q] = awaiting[q]
             /\ connections'[q] = connections[q] /\ given'[q] = given[q] /\ broke'[q] = broke[q]
             /\ Falls(q)' => Falls(q)
             /\ \A x \in {"fetch", "getMore", "close"} : Posted(q, x)' <=> Posted(q, x),
           RequestInv(r)'
    PROVE  IInv'
<1>1. UNCHANGED <<size, py, via, stream, held, free, got, ended>>
  BY DEF pyVars
<1>2. Types /\ Calling
  BY DEF IInv
<1>3. Types'
  BY <1>1, <1>2 DEF Types
<1>4. \A q \in Requests \ {r} : Untouched(q)
  BY <1>1 DEF Untouched, At
<1>5. Calling'
  BY <1>1, <1>2 DEF Calling
<1>6. Slotted'
  <2>1. Sending' = Sending /\ free' = free /\ free \in Nat /\ Sending \in Nat
    BY <1>1, <1>2 DEF Sending, Types
  <2>2. \A q \in Requests : held'[q] \/ ended'[q] = "lost" <=> held[q] \/ ended[q] = "lost"
    BY <1>1
  <2> QED BY <2>1, <2>2, OutSame
<1> QED BY <1>3, <1>4, <1>5, <1>6, StepOfOne

(* What is known of a request whose fetch is under way.                    *)
LEMMA Fetching ==
    ASSUME IInv, NEW r \in Requests, ~Unfetched(r)
    PROVE  /\ via[r] = "worker" /\ stream[r] = NoBody /\ connections[r] = NoConnection
           /\ Unasked(r) /\ ~Posted(r, "close") /\ ended[r] \in {"no", "timeout"} /\ ~Falls(r)
           /\ got[r] = <<>> /\ given[r] = 0 /\ ~held[r]
           /\ ended[r] = "no" => At(r, "send") /\ int0[r] = ERROR_TIMEOUT
           /\ Posted(r, "fetch") => awaiting[r] = <<>>
<1>1. RequestInv(r) /\ stream[r].state \in {"none", "open", "closed"} /\ Calling
  BY DEF IInv, Bodies, Types, Streams
<1>2. via[r] = "worker" /\ stream[r].state = "none"
  BY <1>1 DEF RequestInv, Orderly, OpenBody, BodyClosed
<1>3. /\ stream[r] = NoBody /\ Unasked(r) /\ ~Posted(r, "close") /\ ended[r] \in {"no", "timeout"}
      /\ got[r] = <<>> /\ given[r] = 0 /\ ~held[r]
      /\ ended[r] = "no" => At(r, "send") /\ int0[r] = ERROR_TIMEOUT
  BY <1>1, <1>2 DEF RequestInv, NoBodyYet
<1>4. connections[r] = NoConnection /\ (Posted(r, "fetch") => awaiting[r] = <<>>)
  BY <1>1 DEF RequestInv, Orderly, Unfetched
<1>5. ~Falls(r)
  BY <1>1, <1>2 DEF RequestInv, Orderly, At, Calling
<1> QED BY <1>2, <1>3, <1>4, <1>5

LEMMA TakeFetchInv ==
    ASSUME IInv, NEW r \in Requests, TakeFetch(r)
    PROVE  IInv'
<1>1. /\ Taken(r, "fetch") /\ UNCHANGED <<size, pyVars>>
      /\ awaiting' = [awaiting EXCEPT ![r] = Append(@, "fetch")]
      /\ UNCHANGED <<int0, bytes, connections, given, falling, broke>>
  BY DEF TakeFetch, Handler
<1>2. Types /\ Once /\ RequestInv(r)
  BY DEF IInv, Bodies
<1>3. /\ inbox' \in Seq(Messages) /\ Once' /\ Posted(r, "fetch")
      /\ \A q \in Requests, x \in {"fetch", "getMore", "close"} :
           Posted(q, x)' <=> Posted(q, x) /\ ~(q = r /\ x = "fetch")
  BY <1>1, <1>2, TakeRemoves
<1>4. /\ via[r] = "worker" /\ stream[r] = NoBody /\ connections[r] = NoConnection
      /\ Unasked(r) /\ ~Posted(r, "close") /\ ended[r] \in {"no", "timeout"} /\ ~Falls(r)
      /\ got[r] = <<>> /\ given[r] = 0 /\ ~held[r]
      /\ ended[r] = "no" => At(r, "send") /\ int0[r] = ERROR_TIMEOUT
      /\ awaiting[r] = <<>>
  BY <1>3, Fetching DEF Unfetched
<1>5. /\ awaiting' \in [Requests -> Waits] /\ awaiting'[r] = <<"fetch">>
      /\ \A q \in Requests \ {r} : awaiting'[q] = awaiting[q]
  <2>1. Append(<<>>, "fetch") = <<"fetch">>
    OBVIOUS
  <2>2. awaiting' = [awaiting EXCEPT ![r] = <<"fetch">>]
    BY <1>1, <1>4, <2>1
  <2> QED BY <1>2, <2>2 DEF Types, Waits
<1>6. <<"fetch">> # <<"read">> /\ <<"fetch">> # <<>>
  OBVIOUS
<1>7. UNCHANGED <<size, py, via, stream, held, free, got, ended,
                  int0, bytes, connections, given, falling, broke>>
  BY <1>1 DEF pyVars
<1>8. RequestInv(r)'
  <2>1. UnitsOf(r)' /\ Unasked(r)' /\ ~Posted(r, "close")' /\ ~Falls(r)' /\ ~Posted(r, "fetch")'
    BY <1>2, <1>3, <1>4, <1>5, <1>6, <1>7 DEF RequestInv, UnitsOf, Unasked, Falls
  <2>2. At(r, "send")' <=> At(r, "send")
    BY <1>7 DEF At
  <2>3. NoBodyYet(r)'
    BY <1>4, <1>7, <2>1, <2>2
       DEF NoBodyYet, ERROR_TIMEOUT, SUCCESS_HEADER, ERROR_EXCEPTION
  <2>4. Orderly(r)'
    BY <1>4, <1>7, <2>1 DEF Orderly, Unasked, NoBody
  <2> QED BY <1>4, <1>7, <2>1, <2>3, <2>4 DEF RequestInv, OpenBody, BodyClosed, NoBody
<1>9. \A q \in Requests \ {r} :
        /\ int0'[q] = int0[q] /\ bytes'[q] = bytes[q] /\ awaiting'[q] = awaiting[q]
        /\ connections'[q] = connections[q] /\ given'[q] = given[q] /\ broke'[q] = broke[q]
        /\ Falls(q)' => Falls(q)
        /\ \A x \in {"fetch", "getMore", "close"} : Posted(q, x)' <=> Posted(q, x)
  BY <1>3, <1>5, <1>7 DEF Falls
<1>10. /\ UNCHANGED <<size, pyVars>> /\ int0' \in [Requests -> -4 .. Capacity]
       /\ bytes' \in [Requests -> Seq(Nat)] /\ connections' \in [Requests -> Connections]
       /\ given' \in [Requests -> Nat] /\ broke' \in [Requests -> BOOLEAN]
       /\ falling' = Nobody \/ falling' \in [r : Requests, undefined : BOOLEAN]
  BY <1>1, <1>2, <1>7 DEF Types
<1> QED BY ONLY IInv, r \in Requests, <1>3, <1>5, <1>8, <1>9, <1>10, WorkerInv

LEMMA FetchedInv ==
    ASSUME IInv, NEW r \in Requests, Fetched(r)
    PROVE  IInv'
<1>1. /\ UNCHANGED <<size, pyVars>> /\ awaiting[r] # <<>> /\ Head(awaiting[r]) = "fetch"
      /\ awaiting' = [awaiting EXCEPT ![r] = Tail(@)]
      /\ UNCHANGED <<bytes, inbox, given, falling, broke>>
  BY DEF Fetched, Handler
<1>2. Types /\ Once /\ RequestInv(r)
  BY DEF IInv, Bodies
<1>3. awaiting[r] = <<"fetch">> /\ Tail(<<"fetch">>) = <<>>
  <2>1. awaiting[r] \in Waits
    BY <1>2 DEF Types
  <2>2. Head(<<"read">>) = "read" /\ Tail(<<"fetch">>) = <<>>
    OBVIOUS
  <2> QED BY <1>1, <2>1, <2>2 DEF Waits
<1>4. /\ via[r] = "worker" /\ stream[r] = NoBody /\ connections[r] = NoConnection
      /\ Unasked(r) /\ ~Posted(r, "close") /\ ended[r] \in {"no", "timeout"} /\ ~Falls(r)
      /\ got[r] = <<>> /\ given[r] = 0 /\ ~held[r]
      /\ ended[r] = "no" => At(r, "send") /\ int0[r] = ERROR_TIMEOUT
      /\ ~Posted(r, "fetch")
  <2>1. awaiting[r] # <<>>
    BY <1>1
  <2> QED BY <1>3, <2>1, Fetching DEF Unfetched
<1>5. /\ awaiting' \in [Requests -> Waits] /\ awaiting'[r] = <<>>
      /\ \A q \in Requests \ {r} : awaiting'[q] = awaiting[q]
  <2>1. awaiting' = [awaiting EXCEPT ![r] = <<>>]
    BY <1>1, <1>3
  <2> QED BY <1>2, <2>1 DEF Types, Waits
<1>6. <<>> # <<"read">> /\ <<"fetch">> # <<>>
  OBVIOUS
<1>7. UNCHANGED <<size, py, via, stream, held, free, got, ended,
                  bytes, inbox, given, falling, broke>>
  BY <1>1 DEF pyVars
<1>8. \A q \in Requests, x \in {"fetch", "getMore", "close"} : Posted(q, x)' <=> Posted(q, x)
  BY <1>7 DEF Posted
<1>9. /\ Unasked(r)' /\ Unfetched(r)' /\ ~Posted(r, "close")' /\ ~Falls(r)'
      /\ Once' /\ (At(r, "send")' <=> At(r, "send"))
  <2>1. awaiting'[r] # <<"read">> /\ awaiting'[r] # <<"fetch">>
    BY <1>5, <1>6
  <2> QED BY <1>2, <1>4, <1>7, <1>8, <2>1 DEF Once, At, Falls, Unasked, Unfetched
<1> DEFINE opened == [value |-> <<>>, curOffset |-> 0]
<1>10. /\ Len(opened.value) = 0 /\ opened.curOffset = 0 /\ opened \in Connections
       /\ opened # NoConnection
  BY DEF Connections, NoConnection
<1>11. ASSUME NEW n \in {SUCCESS_HEADER, ERROR_EXCEPTION}, NEW c \in {opened, NoConnection},
              int0' = [int0 EXCEPT ![r] = n], connections' = [connections EXCEPT ![r] = c],
              c # NoConnection <=> n = SUCCESS_HEADER
       PROVE  IInv'
  <2>1. int0' \in [Requests -> -4 .. Capacity]
    <3>1. int0 \in [Requests -> -4 .. Capacity]
      BY <1>2 DEF Types
    <3>2. n \in -4 .. Capacity
      BY EmscriptenAssumption DEF SUCCESS_HEADER, ERROR_EXCEPTION
    <3> QED BY ONLY <3>1, <3>2, <1>11
  <2>2. NoConnection \in Connections
    BY DEF NoConnection, Connections
  <2> HIDE DEF opened
  <2>3. connections' \in [Requests -> Connections] /\ connections'[r] = c /\ int0'[r] = n
        /\ \A q \in Requests \ {r} : connections'[q] = connections[q] /\ int0'[q] = int0[q]
    BY <1>2, <1>10, <1>11, <2>2 DEF Types
  <2>4. UnitsOf(r)'
    <3>1. CASE c = NoConnection
      BY <1>2, <1>4, <1>7, <2>3, <3>1 DEF RequestInv, UnitsOf
    <3>2. CASE c = opened
      <4>1. connections'[r].curOffset = 0 /\ Len(connections'[r].value) = 0
        BY <1>10, <2>3, <3>2
      <4> QED BY <1>2, <1>4, <1>7, <4>1 DEF RequestInv, UnitsOf
    <3> QED BY <3>1, <3>2
  <2>5. ended[r] # "error"
    BY <1>4
  <2>6. NoBodyYet(r)'
    <3>1. /\ stream'[r] = NoBody /\ got'[r] = <<>> /\ given'[r] = 0 /\ ~held'[r]
          /\ ended'[r] \in {"no", "timeout"} /\ via'[r] = "worker"
          /\ ended'[r] = "no" => At(r, "send")'
      BY <1>4, <1>7, <1>9
    <3>2. n \in {ERROR_TIMEOUT, SUCCESS_HEADER, ERROR_EXCEPTION} /\ n # ERROR_TIMEOUT
      BY DEF ERROR_TIMEOUT, SUCCESS_HEADER, ERROR_EXCEPTION
    <3>3. c \in {NoConnection, [value |-> <<>>, curOffset |-> 0]}
      BY DEF opened
    <3> QED BY <1>9, <1>11, <2>3, <3>1, <3>2, <3>3 DEF NoBodyYet
  <2>7. Orderly(r)'
    BY <1>4, <1>5, <1>7, <1>9 DEF Orderly, Unasked, Unfetched, NoBody
  <2>8. RequestInv(r)'
    BY <1>4, <1>7, <2>4, <2>6, <2>7 DEF RequestInv, OpenBody, BodyClosed, NoBody
  <2>9. \A q \in Requests \ {r} :
          /\ int0'[q] = int0[q] /\ bytes'[q] = bytes[q] /\ awaiting'[q] = awaiting[q]
          /\ connections'[q] = connections[q] /\ given'[q] = given[q] /\ broke'[q] = broke[q]
          /\ Falls(q)' => Falls(q)
          /\ \A x \in {"fetch", "getMore", "close"} : Posted(q, x)' <=> Posted(q, x)
    BY <1>5, <1>7, <1>8, <2>3 DEF Falls
  <2>10. /\ UNCHANGED <<size, pyVars>> /\ bytes' \in [Requests -> Seq(Nat)]
         /\ inbox' \in Seq(Messages)
         /\ given' \in [Requests -> Nat] /\ broke' \in [Requests -> BOOLEAN]
         /\ falling' = Nobody \/ falling' \in [r : Requests, undefined : BOOLEAN]
    BY <1>1, <1>2, <1>7 DEF Types
  <2> QED BY ONLY IInv, r \in Requests, <1>5, <1>9, <2>1, <2>3, <2>8, <2>9, <2>10, WorkerInv
<1>12. CASE /\ connections' = [connections EXCEPT ![r] = opened]
            /\ int0' = [int0 EXCEPT ![r] = SUCCESS_HEADER]
  BY <1>10, <1>11, <1>12
<1>13. CASE int0' = [int0 EXCEPT ![r] = ERROR_EXCEPTION] /\ UNCHANGED connections
  <2>1. connections' = [connections EXCEPT ![r] = NoConnection]
    BY <1>2, <1>4, <1>13 DEF Types
  <2>2. ERROR_EXCEPTION # SUCCESS_HEADER
    BY DEF ERROR_EXCEPTION, SUCCESS_HEADER
  <2> QED BY <1>11, <1>13, <2>1, <2>2
<1> QED BY <1>12, <1>13 DEF Fetched, Store

LEMMA TakeCloseInv ==
    ASSUME IInv, NEW r \in Requests, TakeClose(r)
    PROVE  IInv'
<1>1. /\ Taken(r, "close") /\ UNCHANGED <<size, pyVars>>
      /\ connections' = [connections EXCEPT ![r] = NoConnection]
      /\ UNCHANGED <<int0, bytes, awaiting, given, falling, broke>>
  BY DEF TakeClose, Handler
<1>2. Types /\ Once /\ RequestInv(r)
  BY DEF IInv, Bodies
<1>3. /\ inbox' \in Seq(Messages) /\ Once' /\ Posted(r, "close")
      /\ \A q \in Requests, x \in {"fetch", "getMore", "close"} :
           Posted(q, x)' <=> Posted(q, x) /\ ~(q = r /\ x = "close")
  BY <1>1, <1>2, TakeRemoves
<1>4. via[r] = "worker" /\ stream[r].state = "closed"
  <2>1. stream[r].state \in {"none", "open", "closed"}
    BY <1>2 DEF Types, Streams
  <2> QED BY <1>2, <1>3, <2>1 DEF RequestInv, Orderly, OpenBody, NoBodyYet
<1>5. NoConnection \in Connections /\ NoConnection.curOffset <= Len(NoConnection.value)
  BY DEF NoConnection, Connections
<1>6. /\ connections' \in [Requests -> Connections] /\ connections'[r] = NoConnection
      /\ \A q \in Requests \ {r} : connections'[q] = connections[q]
  BY <1>1, <1>2, <1>5 DEF Types
<1>7. UNCHANGED <<size, py, via, stream, held, free, got, ended,
                  int0, bytes, awaiting, given, falling, broke>>
  BY <1>1 DEF pyVars
<1>8. RequestInv(r)'
  <2>1. UnitsOf(r)'
    BY <1>2, <1>5, <1>6, <1>7 DEF RequestInv, UnitsOf
  <2>2. /\ Unfetched(r)' <=> Unfetched(r)
        /\ Unasked(r)' <=> Unasked(r)
        /\ ~Posted(r, "close")'
        /\ Falls(r)' <=> Falls(r)
        /\ \A x \in {"fetch", "getMore"} : Posted(r, x)' <=> Posted(r, x)
    BY <1>3, <1>7 DEF Unfetched, Unasked, Falls
  <2>3. BodyClosed(r)'
    BY <1>2, <1>4, <1>6, <1>7, <2>2 DEF RequestInv, BodyClosed
  <2>4. Orderly(r)'
    BY <1>2, <1>4, <1>6, <1>7, <2>2 DEF RequestInv, Orderly
  <2> QED BY <1>4, <1>7, <2>1, <2>3, <2>4 DEF RequestInv, OpenBody, NoBodyYet
<1>9. \A q \in Requests \ {r} :
        /\ int0'[q] = int0[q] /\ bytes'[q] = bytes[q] /\ awaiting'[q] = awaiting[q]
        /\ connections'[q] = connections[q] /\ given'[q] = given[q] /\ broke'[q] = broke[q]
        /\ Falls(q)' => Falls(q)
        /\ \A x \in {"fetch", "getMore", "close"} : Posted(q, x)' <=> Posted(q, x)
  BY <1>3, <1>6, <1>7 DEF Falls
<1>10. /\ UNCHANGED <<size, pyVars>> /\ int0' \in [Requests -> -4 .. Capacity]
       /\ bytes' \in [Requests -> Seq(Nat)] /\ awaiting' \in [Requests -> Waits]
       /\ given' \in [Requests -> Nat] /\ broke' \in [Requests -> BOOLEAN]
       /\ falling' = Nobody \/ falling' \in [r : Requests, undefined : BOOLEAN]
  BY <1>1, <1>2, <1>7 DEF Types
<1> QED BY ONLY IInv, r \in Requests, <1>3, <1>6, <1>8, <1>9, <1>10, WorkerInv

(* What is known of a request that has a question under way.               *)
LEMMA Asking ==
    ASSUME IInv, NEW r \in Requests, ~Unasked(r)
    PROVE  /\ via[r] = "worker" /\ Unfetched(r) /\ stream[r].state \in {"open", "closed"}
           /\ Posted(r, "getMore") => awaiting[r] = <<>>
           /\ stream[r].state = "open" =>
                /\ At(r, "wait") /\ int0[r] = ERROR_TIMEOUT /\ Asked(r)
                /\ Delivered(r, Len(got[r])) /\ Answered(r)
                /\ ended[r] = "no" /\ ~Posted(r, "close") /\ stream[r].live
                /\ Ready(r, stream[r].pos, stream[r].len)
           /\ stream[r].state = "closed" =>
                (connections[r] # NoConnection => broke[r] \/ Posted(r, "close"))
<1>1. RequestInv(r) /\ stream[r].state \in {"none", "open", "closed"}
  BY DEF IInv, Bodies, Types, Streams
<1>2. via[r] = "worker" /\ stream[r].state # "none" /\ (Posted(r, "getMore") => awaiting[r] = <<>>)
  BY <1>1 DEF RequestInv, Orderly, NoBodyYet
<1>3. CASE stream[r].state = "open"
  <2>1. /\ ended[r] = "no" /\ stream[r].live /\ ~Posted(r, "close") /\ Unfetched(r)
        /\ Ready(r, stream[r].pos, stream[r].len)
        /\ At(r, "wait") /\ Answered(r)
    BY <1>1, <1>2, <1>3 DEF RequestInv, OpenBody
  <2> QED BY <1>2, <1>3, <2>1 DEF Answered
<1>4. CASE stream[r].state = "closed"
  BY <1>1, <1>2, <1>4 DEF RequestInv, BodyClosed
<1> QED BY <1>1, <1>2, <1>3, <1>4

LEMMA LeastIs ==
    ASSUME NEW a \in Nat \ {0}, NEW b \in Nat \ {0}
    PROVE  Least(a, b) \in 1 .. b /\ Least(a, b) <= a
BY DEF Least

(* The buffer after a piece of a value was written into it.                *)
LEMMA BufferSent ==
    ASSUME Types, NEW r \in Requests, UnitsOf(r), NEW v \in Seq(Nat), NEW o \in Nat, o < Len(v),
           given' \in [Requests -> Nat], given'[r] <= size[r], Len(v) <= given'[r],
           \A i \in 1 .. Len(v) : v[i] = given'[r] - Len(v) + i,
           SendBuffer(r, v, o),
           UNCHANGED <<size, got>>
    PROVE  \E n \in 1 .. Capacity :
             /\ int0' \in [Requests -> -4 .. Capacity] /\ int0'[r] = n
             /\ bytes' \in [Requests -> Seq(Nat)] /\ connections' \in [Requests -> Connections]
             /\ connections'[r] # NoConnection
             /\ \A q \in Requests \ {r} :
                  int0'[q] = int0[q] /\ bytes'[q] = bytes[q] /\ connections'[q] = connections[q]
             /\ UnitsOf(r)' /\ Len(bytes[r]) <= Len(bytes'[r])
             /\ Len(got[r]) = given'[r] - Len(v) + o => Ready(r, 0, n)' /\ Delivered(r, Len(got[r]) + n)'
<1> DEFINE n == Least(Len(v) - o, Capacity)
           w == SubSeq(v, o + 1, o + n) \o SubSeq(bytes[r], n + 1, Len(bytes[r]))
           c == [value |-> v, curOffset |-> o + n]
<1>0. PICK g \in Nat : /\ g = given'[r] /\ g <= size[r] /\ Len(v) <= g
                        /\ \A i \in 1 .. Len(v) : v[i] = g - Len(v) + i
  OBVIOUS
<1>1. /\ bytes' = [bytes EXCEPT ![r] = w]
      /\ int0' = [int0 EXCEPT ![r] = n]
      /\ connections' = [connections EXCEPT ![r] = c]
  BY DEF SendBuffer, Store
<1>2. Len(v) \in Nat /\ Capacity \in Nat \ {0} /\ size[r] \in Nat
  BY <1>0, LenProperties, EmscriptenAssumption DEF Types
<1>3. n \in 1 .. Capacity /\ n <= Len(v) - o
  <2>1. Len(v) - o \in Nat \ {0}
    BY <1>2
  <2> QED BY <1>2, <2>1, LeastIs
<1> HIDE DEF n
<1>4. n \in Nat /\ n >= 1 /\ o + n <= Len(v) /\ o + n \in Nat
  BY <1>2, <1>3
<1>5. bytes[r] \in Seq(Nat)
  BY DEF Types
<1>6. /\ w \in Seq(Nat) /\ n <= Len(w) /\ Len(bytes[r]) <= Len(w)
      /\ \A i \in 1 .. n : w[i] = v[o + i]
      /\ \A i \in n + 1 .. Len(w) : i \in 1 .. Len(bytes[r]) /\ w[i] = bytes[r][i]
  <2>1. n \in Nat /\ o + n <= Len(v)
    BY <1>4
  <2> QED BY ONLY <1>5, <2>1, v \in Seq(Nat), o \in Nat, WrittenIs, ZenonT(60)
<1>7. c \in Connections /\ c # NoConnection /\ c.value = v /\ c.curOffset = o + n
  BY <1>4 DEF Connections, NoConnection
<1> HIDE DEF w, c
<1>8. int0' \in [Requests -> -4 .. Capacity] /\ int0'[r] = n
  <2>1. int0 \in [Requests -> -4 .. Capacity] /\ n \in -4 .. Capacity
    BY <1>2, <1>3 DEF Types
  <2> QED BY ONLY <1>1, <2>1, r \in Requests
<1>9. /\ bytes' \in [Requests -> Seq(Nat)] /\ bytes'[r] = w
      /\ connections' \in [Requests -> Connections] /\ connections'[r] = c
  BY <1>1, <1>6, <1>7 DEF Types
<1>10. \A q \in Requests \ {r} :
         int0'[q] = int0[q] /\ bytes'[q] = bytes[q] /\ connections'[q] = connections[q]
  BY <1>1 DEF Types
<1>11. \A i \in 1 .. n : w[i] = g - Len(v) + o + i
  <2> TAKE i \in 1 .. n
  <2>1. o + i \in 1 .. Len(v)
    BY <1>2, <1>4
  <2>2. v[o + i] = g - Len(v) + (o + i)
    BY <1>0, <2>1
  <2>3. g - Len(v) + (o + i) = g - Len(v) + o + i
    BY <1>2
  <2> QED BY <1>6, <2>2, <2>3
<1>12. UnitsOf(r)'
  <2>1. \A i \in 1 .. Len(w) : w[i] \in 1 .. size[r]
    <3> TAKE i \in 1 .. Len(w)
    <3>1. CASE i <= n
      <4>1. i \in 1 .. n /\ w[i] = g - Len(v) + o + i
        BY <1>4, <1>11, <3>1
      <4>2. g \in Nat /\ g <= size[r] /\ Len(v) <= g
        BY <1>0
      <4> QED BY ONLY <1>2, <1>4, <4>1, <4>2, n \in Nat, o \in Nat
    <3>2. CASE i > n
      <4>1. i \in n + 1 .. Len(w)
        BY <1>4, <3>2
      <4>2. i \in 1 .. Len(bytes[r]) /\ w[i] = bytes[r][i]
        BY <1>6, <4>1
      <4> QED BY <4>2 DEF UnitsOf
    <3> QED BY <1>4, <3>1, <3>2
  <2>2. c.curOffset >= 0 /\ c.curOffset <= Len(c.value) /\ Len(c.value) <= g
    BY <1>0, <1>4, <1>7
  <2>3. \A i \in 1 .. Len(c.value) : c.value[i] = g - Len(c.value) + i
    BY <1>0, <1>7
  <2> QED BY <1>0, <1>9, <2>1, <2>2, <2>3 DEF UnitsOf
<1>13. ASSUME Len(got[r]) = given'[r] - Len(v) + o
       PROVE  Ready(r, 0, n)' /\ Delivered(r, Len(got[r]) + n)'
  <2>1. Len(got'[r]) = Len(got[r]) /\ Len(got[r]) \in Nat
    BY LenProperties DEF Types
  <2>2. Ready(r, 0, n)'
    <3>1. 0 + n <= Len(bytes'[r])
      BY <1>4, <1>6, <1>9
    <3>2. \A i \in 1 .. n : bytes'[r][0 + i] = Len(got'[r]) + i
      <4> TAKE i \in 1 .. n
      <4>1. w[i] = Len(got[r]) + i
        BY <1>0, <1>11, <1>13
      <4>2. 0 + i = i
        OBVIOUS
      <4> QED BY <1>9, <2>1, <4>1, <4>2
    <3> QED BY <3>1, <3>2 DEF Ready
  <2>3. Delivered(r, Len(got[r]) + n)'
    <3>1. g - Len(v) + (o + n) = Len(got[r]) + n
      BY <1>0, <1>2, <1>4, <1>13
    <3> QED BY <1>0, <1>7, <1>9, <2>1, <3>1 DEF Delivered
  <2> QED BY <2>2, <2>3
<1>14. Len(bytes[r]) <= Len(bytes'[r])
  BY <1>6, <1>9
<1> QED BY <1>3, <1>7, <1>8, <1>9, <1>10, <1>12, <1>13, <1>14

(* The question is answered: with a piece, the end or an error, or no      *)
(* longer to anyone.                                                       *)
LEMMA AnswerInv ==
    ASSUME IInv, NEW r \in Requests, ~Unasked(r), Unasked(r)',
           UNCHANGED <<size, py, via, stream, held, free, got, ended>>,
           Unfetched(r)', Posted(r, "close")' <=> Posted(r, "close"), broke[r] => broke'[r],
           connections'[r] # NoConnection => connections[r] # NoConnection,
           UnitsOf(r)', Len(bytes[r]) <= Len(bytes'[r]),
           Falls(r)' => broke'[r] /\ (stream[r].state = "open" => int0'[r] = ERROR_EXCEPTION),
           stream[r].state = "open" =>
             /\ int0'[r] # ERROR_TIMEOUT /\ int0'[r] # SUCCESS_HEADER
             /\ int0'[r] > 0 => Ready(r, 0, int0[r])' /\ Delivered(r, Len(got[r]) + int0[r])'
             /\ int0'[r] = SUCCESS_EOF => Len(got[r]) = size[r] /\ connections'[r] = NoConnection
             /\ int0'[r] \in {0, ERROR_EXCEPTION} => broke'[r]
    PROVE  RequestInv(r)'
<1>1. RequestInv(r) /\ Types
  BY DEF IInv, Bodies
<1>2. /\ via[r] = "worker" /\ Unfetched(r) /\ stream[r].state \in {"open", "closed"}
      /\ stream[r].state = "open" =>
           /\ At(r, "wait") /\ int0[r] = ERROR_TIMEOUT /\ Asked(r)
           /\ Delivered(r, Len(got[r])) /\ Answered(r)
           /\ ended[r] = "no" /\ ~Posted(r, "close") /\ stream[r].live
           /\ Ready(r, stream[r].pos, stream[r].len)
      /\ stream[r].state = "closed" =>
           (connections[r] # NoConnection => broke[r] \/ Posted(r, "close"))
  BY Asking
<1>3. stream'[r] = stream[r] /\ via'[r] = via[r] /\ ended'[r] = ended[r] /\ held'[r] = held[r]
      /\ got'[r] = got[r] /\ size'[r] = size[r]
      /\ At(r, "wait")' <=> At(r, "wait")
  BY DEF At
<1>4. OpenBody(r)'
  <2> SUFFICES ASSUME stream[r].state = "open" PROVE OpenBody(r)'
    BY <1>3 DEF OpenBody
  <2>1. stream[r].len = 0 /\ stream[r].pos \in Nat
    BY <1>1, <1>2 DEF Answered, Types, Streams
  <2>2. Answered(r)'
    BY <1>3, <2>1 DEF Answered
  <2>3. Ready(r, stream[r].pos, stream[r].len)'
    <3>1. stream[r].pos + 0 <= Len(bytes[r])
      BY <1>2, <2>1 DEF Ready
    <3>2. Len(bytes[r]) \in Nat /\ stream[r].pos + 0 = stream[r].pos
      BY <1>1, <2>1, LenProperties DEF Types
    <3>3. stream'[r].pos + 0 <= Len(bytes'[r]) /\ stream'[r].len = 0
      BY <1>3, <2>1, <3>1, <3>2
    <3> QED BY <3>3 DEF Ready
  <2> QED BY <1>2, <1>3, <2>2, <2>3 DEF OpenBody
<1>5. BodyClosed(r)'
  BY <1>1, <1>2, <1>3 DEF RequestInv, BodyClosed
<1>6. Orderly(r)'
  <2>1. ~Posted(r, "getMore")' /\ ~Posted(r, "fetch")' /\ awaiting'[r] # <<"fetch">>
    BY DEF Unasked, Unfetched
  <2>2. Falls(r)' => broke'[r] /\ (stream'[r].state # "closed" => At(r, "wait")' /\ int0'[r] = ERROR_EXCEPTION)
    BY <1>2, <1>3
  <2> QED BY <1>2, <1>3, <2>1, <2>2 DEF Orderly
<1> QED BY <1>2, <1>3, <1>4, <1>5, <1>6 DEF RequestInv, NoBodyYet

LEMMA TakeGetMoreInv ==
    ASSUME IInv, NEW r \in Requests, TakeGetMore(r)
    PROVE  IInv'
<1>1. /\ Taken(r, "getMore") /\ UNCHANGED <<size, pyVars>> /\ falling = Nobody
      /\ UNCHANGED <<given, falling, broke>>
  BY DEF TakeGetMore, Handler
<1>2. Types /\ Once /\ RequestInv(r) /\ UnitsOf(r)
  BY DEF IInv, Bodies, RequestInv
<1>3. /\ inbox' \in Seq(Messages) /\ Once' /\ Posted(r, "getMore")
      /\ \A q \in Requests, x \in {"fetch", "getMore", "close"} :
           Posted(q, x)' <=> Posted(q, x) /\ ~(q = r /\ x = "getMore")
  BY <1>1, <1>2, TakeRemoves
<1>4. ~Unasked(r)
  BY <1>3 DEF Unasked
<1>5. /\ via[r] = "worker" /\ Unfetched(r) /\ stream[r].state \in {"open", "closed"}
      /\ awaiting[r] = <<>>
      /\ stream[r].state = "open" =>
           /\ At(r, "wait") /\ int0[r] = ERROR_TIMEOUT
           /\ Delivered(r, Len(got[r])) /\ Answered(r)
           /\ ended[r] = "no" /\ ~Posted(r, "close") /\ stream[r].live
           /\ Ready(r, stream[r].pos, stream[r].len)
      /\ stream[r].state = "closed" =>
           (connections[r] # NoConnection => broke[r] \/ Posted(r, "close"))
  BY <1>3, <1>4, Asking
<1>6. UNCHANGED <<size, py, via, stream, held, free, got, ended, given, falling, broke>>
  BY <1>1 DEF pyVars
<1>7. /\ ~Posted(r, "getMore")' /\ ~Posted(r, "fetch")'
      /\ Posted(r, "close")' <=> Posted(r, "close")
      /\ \A q \in Requests : ~Falls(q)'
  BY <1>1, <1>3, <1>5, <1>6 DEF Unfetched, Falls
<1>8. /\ UNCHANGED <<size, pyVars>>
      /\ given' \in [Requests -> Nat] /\ broke' \in [Requests -> BOOLEAN]
      /\ falling' = Nobody \/ falling' \in [r : Requests, undefined : BOOLEAN]
  BY <1>1, <1>2, <1>6 DEF Types
<1>9. \A q \in Requests \ {r} :
        /\ given'[q] = given[q] /\ broke'[q] = broke[q] /\ (Falls(q)' => Falls(q))
        /\ \A x \in {"fetch", "getMore", "close"} : Posted(q, x)' <=> Posted(q, x)
  BY <1>3, <1>6, <1>7
<1>10. <<>> # <<"read">> /\ <<>> # <<"fetch">> /\ <<"read">> # <<"fetch">>
  OBVIOUS
<1>11. CASE connections[r] = NoConnection /\ UNCHANGED <<int0, bytes, connections, awaiting>>
  <2>1. stream[r].state = "closed"
    BY <1>5, <1>11 DEF Delivered
  <2>2. Unasked(r)' /\ Unfetched(r)' /\ UnitsOf(r)' /\ Len(bytes[r]) <= Len(bytes'[r])
    <3>1. Len(bytes[r]) \in Nat /\ bytes'[r] = bytes[r] /\ awaiting'[r] = <<>>
      BY <1>2, <1>5, <1>11, LenProperties DEF Types
    <3>2. UnitsOf(r)'
      BY <1>2, <1>6, <1>11 DEF UnitsOf
    <3> QED BY <1>7, <1>10, <3>1, <3>2 DEF Unasked, Unfetched
  <2>3. RequestInv(r)'
    BY <1>4, <1>6, <1>7, <1>11, <2>1, <2>2, AnswerInv
  <2>4. /\ int0' \in [Requests -> -4 .. Capacity] /\ bytes' \in [Requests -> Seq(Nat)]
        /\ awaiting' \in [Requests -> Waits] /\ connections' \in [Requests -> Connections]
        /\ UNCHANGED <<int0, bytes, connections, awaiting>>
    BY <1>2, <1>11 DEF Types
  <2> QED BY ONLY IInv, r \in Requests, <1>3, <1>8, <1>9, <2>3, <2>4, WorkerInv
<1>12a. PICK v, o : v = connections[r].value /\ o = connections[r].curOffset
  OBVIOUS
<1>12. CASE /\ connections[r] # NoConnection /\ o < Len(v)
            /\ SendBuffer(r, connections[r].value, connections[r].curOffset)
            /\ UNCHANGED awaiting
  <2>1. /\ v \in Seq(Nat) /\ o \in Nat /\ given'[r] \in Nat /\ given'[r] <= size[r]
        /\ Len(v) <= given'[r] /\ \A i \in 1 .. Len(v) : v[i] = given'[r] - Len(v) + i
    <3>1. v \in Seq(Nat) /\ o \in Nat \cup {-1} /\ given[r] \in Nat
      BY <1>2, <1>12a DEF Types, Connections
    <3> QED BY <1>2, <1>6, <1>12, <1>12a, <3>1 DEF UnitsOf
  <2>2. given' \in [Requests -> Nat] /\ UNCHANGED <<size, got>>
    BY <1>6, <1>8
  <2>3. PICK n \in 1 .. Capacity :
          /\ int0' \in [Requests -> -4 .. Capacity] /\ int0'[r] = n
          /\ bytes' \in [Requests -> Seq(Nat)] /\ connections' \in [Requests -> Connections]
          /\ connections'[r] # NoConnection
          /\ \A q \in Requests \ {r} :
               int0'[q] = int0[q] /\ bytes'[q] = bytes[q] /\ connections'[q] = connections[q]
          /\ UnitsOf(r)' /\ Len(bytes[r]) <= Len(bytes'[r])
          /\ Len(got[r]) = given'[r] - Len(v) + o => Ready(r, 0, n)' /\ Delivered(r, Len(got[r]) + n)'
    <3>1. o < Len(v) /\ SendBuffer(r, v, o)
      BY <1>12, <1>12a DEF SendBuffer, Store
    <3> QED BY ONLY <1>2, <2>1, <2>2, <3>1, r \in Requests, BufferSent
  <2>4. /\ n > 0 /\ n # ERROR_TIMEOUT /\ n # SUCCESS_HEADER /\ n # SUCCESS_EOF
        /\ n \notin {0, ERROR_EXCEPTION}
    BY EmscriptenAssumption DEF ERROR_TIMEOUT, SUCCESS_HEADER, SUCCESS_EOF, ERROR_EXCEPTION
  <2>5. stream[r].state = "open" => Ready(r, 0, n)' /\ Delivered(r, Len(got[r]) + n)'
    BY <1>5, <1>6, <1>12a, <2>3 DEF Delivered
  <2>6. stream[r].state = "open" => Ready(r, 0, int0[r])' /\ Delivered(r, Len(got[r]) + int0[r])'
    BY <2>3, <2>5 DEF Ready, Delivered
  <2>7. Unasked(r)' /\ Unfetched(r)'
    BY <1>5, <1>7, <1>10, <1>12 DEF Unasked, Unfetched
  <2>8. RequestInv(r)'
    BY <1>4, <1>6, <1>7, <1>12, <2>3, <2>4, <2>6, <2>7, AnswerInv
  <2>9. awaiting' \in [Requests -> Waits] /\ UNCHANGED awaiting
    BY <1>2, <1>12 DEF Types
  <2> QED BY ONLY IInv, r \in Requests, <1>3, <1>8, <1>9, <2>3, <2>8, <2>9, WorkerInv
<1>13. CASE /\ connections[r] # NoConnection /\ ~(o < Len(v))
            /\ awaiting' = [awaiting EXCEPT ![r] = Append(@, "read")]
            /\ UNCHANGED <<int0, bytes, connections>>
  <2>1. /\ awaiting' \in [Requests -> Waits] /\ awaiting'[r] = <<"read">>
        /\ \A q \in Requests \ {r} : awaiting'[q] = awaiting[q]
    <3>1. Append(<<>>, "read") = <<"read">>
      OBVIOUS
    <3>2. awaiting' = [awaiting EXCEPT ![r] = <<"read">>]
      BY <1>5, <1>13, <3>1
    <3> QED BY <1>2, <3>2 DEF Types, Waits
  <2>2. connections[r].curOffset = Len(connections[r].value)
    <3>1. o \in Int /\ Len(v) \in Nat
      BY <1>2, <1>12a, LenProperties DEF Types, Connections
    <3>2. o <= Len(v)
      BY <1>2, <1>12a DEF UnitsOf
    <3>3. o = Len(v)
      BY <1>13, <3>1, <3>2
    <3> QED BY <1>12a, <3>3
  <2>3. Asked(r)'
    BY <1>7, <1>13, <2>1, <2>2 DEF Asked
  <2>4. UnitsOf(r)' /\ Unfetched(r)'
    BY <1>2, <1>6, <1>7, <1>10, <1>13, <2>1 DEF UnitsOf, Unfetched
  <2>5. stream[r].state = "open" => Answered(r)' /\ Ready(r, stream[r].pos, stream[r].len)'
    BY <1>5, <1>6, <1>13, <2>3 
       DEF Answered, Delivered, Ready, ERROR_TIMEOUT, SUCCESS_HEADER, SUCCESS_EOF, ERROR_EXCEPTION
  <2>6. OpenBody(r)'
    BY <1>5, <1>6, <1>7, <2>4, <2>5 DEF OpenBody, At
  <2>7. BodyClosed(r)'
    BY <1>2, <1>6, <1>7, <1>13, <2>4 DEF RequestInv, BodyClosed
  <2>8. Orderly(r)'
    BY <1>5, <1>6, <1>7, <1>10, <2>1 DEF Orderly
  <2>9. RequestInv(r)'
    BY <1>5, <1>6, <2>4, <2>6, <2>7, <2>8 DEF RequestInv, NoBodyYet
  <2>10. /\ int0' \in [Requests -> -4 .. Capacity] /\ bytes' \in [Requests -> Seq(Nat)]
         /\ connections' \in [Requests -> Connections]
         /\ UNCHANGED <<int0, bytes, connections>>
    BY <1>2, <1>13 DEF Types
  <2> QED BY ONLY IInv, r \in Requests, <1>3, <1>8, <1>9, <2>1, <2>9, <2>10, WorkerInv
<1> QED BY <1>11, <1>12, <1>12a, <1>13 DEF TakeGetMore

(* The reader's answer, whatever it is.                                    *)
LEMMA Reads ==
    ASSUME IInv, NEW r \in Requests, Answers(r)
    PROVE  /\ falling = Nobody /\ UNCHANGED <<size, pyVars, inbox>> /\ inbox' \in Seq(Messages) /\ Once'
           /\ UNCHANGED <<size, py, via, stream, held, free, got, ended, inbox>>
           /\ awaiting' \in [Requests -> Waits]
           /\ \A q \in Requests \ {r} : awaiting'[q] = awaiting[q]
           /\ ~Unasked(r) /\ Unasked(r)' /\ Unfetched(r)'
           /\ \A q \in Requests, x \in {"fetch", "getMore", "close"} : Posted(q, x)' <=> Posted(q, x)
           /\ stream[r].state = "open" =>
                /\ connections[r] # NoConnection /\ given[r] = Len(got[r])
<1>1. /\ UNCHANGED <<size, pyVars, inbox>> /\ awaiting[r] # <<>> /\ Head(awaiting[r]) = "read"
      /\ awaiting' = [awaiting EXCEPT ![r] = Tail(@)] /\ falling = Nobody
  BY DEF Answers, Handler
<1>2. Types /\ Once
  BY DEF IInv
<1>3. awaiting[r] = <<"read">> /\ Tail(<<"read">>) = <<>>
  <2>1. awaiting[r] \in Waits
    BY <1>2 DEF Types
  <2>2. Head(<<"fetch">>) = "fetch" /\ Tail(<<"read">>) = <<>>
    OBVIOUS
  <2> QED BY <1>1, <2>1, <2>2 DEF Waits
<1>4. /\ awaiting' \in [Requests -> Waits] /\ awaiting'[r] = <<>>
      /\ \A q \in Requests \ {r} : awaiting'[q] = awaiting[q]
  <2>1. awaiting' = [awaiting EXCEPT ![r] = <<>>]
    BY <1>1, <1>3
  <2> QED BY <1>2, <2>1 DEF Types, Waits
<1>5. \A q \in Requests, x \in {"fetch", "getMore", "close"} : Posted(q, x)' <=> Posted(q, x)
  BY <1>1 DEF Posted
<1>6. ~Unasked(r)
  BY <1>3 DEF Unasked
<1>7. ~Posted(r, "getMore") /\ ~Posted(r, "fetch")
  <2>1. awaiting[r] # <<>>
    BY <1>1
  <2> QED BY <1>6, <2>1, Asking DEF Unfetched
<1>8. Unasked(r)' /\ Unfetched(r)'
  <2>1. <<>> # <<"read">> /\ <<>> # <<"fetch">>
    OBVIOUS
  <2>2. awaiting'[r] # <<"read">> /\ awaiting'[r] # <<"fetch">>
    BY <1>4, <2>1
  <2> QED BY <1>5, <1>7, <2>2 DEF Unasked, Unfetched
<1>9. ASSUME stream[r].state = "open" PROVE connections[r] # NoConnection /\ given[r] = Len(got[r])
  <2>1. Asked(r) /\ Delivered(r, Len(got[r]))
    BY <1>6, <1>9, Asking
  <2>2. connections[r].curOffset = Len(connections[r].value)
    BY <1>7, <2>1 DEF Asked
  <2>3. given[r] \in Nat /\ Len(connections[r].value) \in Nat
    BY <1>2, LenProperties DEF Types, Connections
  <2>4. given[r] - Len(connections[r].value) + Len(connections[r].value) = given[r]
    <3> DEFINE k == Len(connections[r].value)
    <3>1. k \in Nat
      BY <2>3
    <3> HIDE DEF k
    <3>2. given[r] - k + k = given[r]
      BY <2>3, <3>1
    <3> QED BY <3>2 DEF k
  <2> QED BY <2>1, <2>2, <2>4 DEF Delivered
<1>10. inbox' \in Seq(Messages) /\ Once'
  BY <1>1, <1>2 DEF Types, Once
<1> QED BY <1>1, <1>4, <1>5, <1>6, <1>8, <1>9, <1>10 DEF pyVars

LEMMA PieceInv ==
    ASSUME IInv, NEW r \in Requests, Piece(r)
    PROVE  IInv'
<1>1. /\ Answers(r) /\ connections[r] # NoConnection /\ UNCHANGED <<falling, broke>>
  BY DEF Piece
<1>2. /\ falling = Nobody /\ UNCHANGED <<size, pyVars, inbox>> /\ inbox' \in Seq(Messages) /\ Once'
      /\ UNCHANGED <<size, py, via, stream, held, free, got, ended, inbox>>
      /\ awaiting' \in [Requests -> Waits]
      /\ \A q \in Requests \ {r} : awaiting'[q] = awaiting[q]
      /\ ~Unasked(r) /\ Unasked(r)' /\ Unfetched(r)'
      /\ \A q \in Requests, x \in {"fetch", "getMore", "close"} : Posted(q, x)' <=> Posted(q, x)
      /\ stream[r].state = "open" => given[r] = Len(got[r])
  BY <1>1, Reads
<1>3. Types /\ UnitsOf(r)
  BY DEF IInv, Bodies, RequestInv
<1>4. PICK m \in 1 .. size[r] - given[r] :
        /\ SendBuffer(r, Units(given[r] + 1, given[r] + m), 0)
        /\ given' = [given EXCEPT ![r] = @ + m]
  BY DEF Piece
<1>5. PICK a, g, s : a = given[r] /\ g = a + m /\ s = size[r]
  OBVIOUS
<1>6. a \in Nat /\ m \in Nat /\ m > 0 /\ g \in Nat /\ g <= s /\ s \in Nat
  <2>1. a \in Nat /\ s \in Nat
    BY <1>3, <1>5, EmscriptenAssumption DEF Types
  <2> QED BY <1>4, <1>5, <2>1
<1>7. /\ Units(a + 1, a + m) \in Seq(Nat) /\ Len(Units(a + 1, a + m)) = m
      /\ \A i \in 1 .. m : Units(a + 1, a + m)[i] = a + i
  BY <1>6, UnitsAre
<1>8. PICK v, o : v = Units(a + 1, a + m) /\ o = 0
  OBVIOUS
<1>9. SendBuffer(r, v, o)
  BY <1>4, <1>5, <1>8 DEF SendBuffer, Store
<1>10. /\ v \in Seq(Nat) /\ o \in Nat /\ o < Len(v) /\ Len(v) <= g /\ Len(v) = m
       /\ \A i \in 1 .. Len(v) : v[i] = g - Len(v) + i
  <2>1. v \in Seq(Nat) /\ Len(v) = m /\ \A i \in 1 .. m : v[i] = a + i
    BY <1>7, <1>8
  <2>2. g - m = a /\ m <= g
    BY <1>5, <1>6
  <2> QED BY <1>6, <1>8, <2>1, <2>2
<1>11. given' \in [Requests -> Nat] /\ given'[r] = g /\ \A q \in Requests \ {r} : given'[q] = given[q]
  BY <1>3, <1>4, <1>5, <1>6 DEF Types
<1>12. UNCHANGED <<size, got>> /\ g <= size[r]
  BY <1>2, <1>5, <1>6
<1>13. PICK n \in 1 .. Capacity :
         /\ int0' \in [Requests -> -4 .. Capacity] /\ int0'[r] = n
         /\ bytes' \in [Requests -> Seq(Nat)] /\ connections' \in [Requests -> Connections]
         /\ connections'[r] # NoConnection
         /\ \A q \in Requests \ {r} :
              int0'[q] = int0[q] /\ bytes'[q] = bytes[q] /\ connections'[q] = connections[q]
         /\ UnitsOf(r)' /\ Len(bytes[r]) <= Len(bytes'[r])
         /\ Len(got[r]) = given'[r] - Len(v) + o => Ready(r, 0, n)' /\ Delivered(r, Len(got[r]) + n)'
  <2>1. /\ v \in Seq(Nat) /\ o \in Nat /\ given'[r] <= size[r] /\ o < Len(v)
        /\ Len(v) <= given'[r] /\ \A i \in 1 .. Len(v) : v[i] = given'[r] - Len(v) + i
    BY <1>6, <1>10, <1>11, <1>12
  <2>2. given' \in [Requests -> Nat] /\ UNCHANGED <<size, got>>
    BY <1>11, <1>12
  <2> QED BY ONLY <1>3, <1>9, <2>1, <2>2, r \in Requests, BufferSent
<1>14. /\ n > 0 /\ n # ERROR_TIMEOUT /\ n # SUCCESS_HEADER /\ n # SUCCESS_EOF
       /\ n \notin {0, ERROR_EXCEPTION}
  BY EmscriptenAssumption DEF ERROR_TIMEOUT, SUCCESS_HEADER, SUCCESS_EOF, ERROR_EXCEPTION
<1>15. stream[r].state = "open" => Ready(r, 0, int0[r])' /\ Delivered(r, Len(got[r]) + int0[r])'
  <2>1. stream[r].state = "open" => Len(got[r]) = given'[r] - Len(v) + o
    BY <1>2, <1>11, <1>5, <1>6, <1>8, <1>10
  <2> QED BY <1>13, <2>1 DEF Ready, Delivered
<1>16. \A q \in Requests : ~Falls(q)'
  BY <1>1, <1>2 DEF Falls
<1>17. RequestInv(r)'
  BY <1>1, <1>2, <1>13, <1>14, <1>15, <1>16, AnswerInv
<1>18. /\ UNCHANGED <<size, pyVars>> /\ broke' \in [Requests -> BOOLEAN]
       /\ falling' = Nobody
       /\ \A q \in Requests \ {r} : broke'[q] = broke[q]
  BY <1>1, <1>2, <1>3 DEF Types
<1> QED BY ONLY IInv, r \in Requests, <1>2, <1>11, <1>13, <1>16, <1>17, <1>18, WorkerInv

LEMMA DoneInv ==
    ASSUME IInv, NEW r \in Requests, Done(r)
    PROVE  IInv'
<1>1. /\ Answers(r) /\ given[r] = size[r]
      /\ connections' = [connections EXCEPT ![r] = NoConnection]
      /\ int0' = [int0 EXCEPT ![r] = SUCCESS_EOF]
      /\ UNCHANGED <<bytes, given, falling, broke>>
  BY DEF Done, Store
<1>2. /\ falling = Nobody /\ UNCHANGED <<size, pyVars, inbox>> /\ inbox' \in Seq(Messages) /\ Once'
      /\ UNCHANGED <<size, py, via, stream, held, free, got, ended, inbox>>
      /\ awaiting' \in [Requests -> Waits]
      /\ \A q \in Requests \ {r} : awaiting'[q] = awaiting[q]
      /\ ~Unasked(r) /\ Unasked(r)' /\ Unfetched(r)'
      /\ \A q \in Requests, x \in {"fetch", "getMore", "close"} : Posted(q, x)' <=> Posted(q, x)
      /\ stream[r].state = "open" => given[r] = Len(got[r])
  BY <1>1, Reads
<1>3. Types /\ UnitsOf(r)
  BY DEF IInv, Bodies, RequestInv
<1>4. NoConnection \in Connections /\ NoConnection.curOffset <= Len(NoConnection.value)
  BY DEF NoConnection, Connections
<1>5. /\ connections' \in [Requests -> Connections] /\ connections'[r] = NoConnection
      /\ \A q \in Requests \ {r} : connections'[q] = connections[q]
  BY <1>1, <1>3, <1>4 DEF Types
<1>6. /\ int0' \in [Requests -> -4 .. Capacity] /\ int0'[r] = SUCCESS_EOF
      /\ \A q \in Requests \ {r} : int0'[q] = int0[q]
  <2>1. SUCCESS_EOF \in -4 .. Capacity /\ int0 \in [Requests -> -4 .. Capacity]
    BY <1>3, EmscriptenAssumption DEF Types, SUCCESS_EOF
  <2> QED BY ONLY <1>1, <2>1, r \in Requests
<1>7. UnitsOf(r)'
  BY <1>1, <1>2, <1>3, <1>4, <1>5 DEF UnitsOf
<1>8. Len(bytes[r]) <= Len(bytes'[r])
  <2>1. Len(bytes[r]) \in Nat
    BY <1>3, LenProperties DEF Types
  <2> QED BY <1>1, <2>1
<1>9. \A q \in Requests : ~Falls(q)'
  BY <1>1, <1>2 DEF Falls
<1>10. /\ ~(SUCCESS_EOF > 0) /\ SUCCESS_EOF # ERROR_TIMEOUT /\ SUCCESS_EOF # SUCCESS_HEADER
       /\ SUCCESS_EOF \notin {0, ERROR_EXCEPTION}
  BY DEF ERROR_TIMEOUT, SUCCESS_HEADER, SUCCESS_EOF, ERROR_EXCEPTION
<1>11. stream[r].state = "open" => Len(got[r]) = size[r]
  BY <1>1, <1>2
<1>12. RequestInv(r)'
  BY <1>1, <1>2, <1>5, <1>6, <1>7, <1>8, <1>9, <1>10, <1>11, AnswerInv
<1>13. /\ UNCHANGED <<size, pyVars>> /\ broke' \in [Requests -> BOOLEAN] /\ falling' = Nobody
       /\ bytes' \in [Requests -> Seq(Nat)] /\ given' \in [Requests -> Nat]
       /\ \A q \in Requests \ {r} : broke'[q] = broke[q] /\ bytes'[q] = bytes[q] /\ given'[q] = given[q]
  BY <1>1, <1>2, <1>3 DEF Types
<1> QED BY ONLY IInv, r \in Requests, <1>2, <1>5, <1>6, <1>9, <1>12, <1>13, WorkerInv

LEMMA BreaksInv ==
    ASSUME IInv, NEW r \in Requests, Breaks(r)
    PROVE  IInv'
<1>1. /\ Answers(r)
      /\ int0' = [int0 EXCEPT ![r] = ERROR_EXCEPTION]
      /\ \E undefined \in BOOLEAN : falling' = [r |-> r, undefined |-> undefined]
      /\ broke' = [broke EXCEPT ![r] = TRUE]
      /\ UNCHANGED <<bytes, connections, given>>
  BY DEF Breaks, Store
<1>2. /\ falling = Nobody /\ UNCHANGED <<size, pyVars, inbox>> /\ inbox' \in Seq(Messages) /\ Once'
      /\ UNCHANGED <<size, py, via, stream, held, free, got, ended, inbox>>
      /\ awaiting' \in [Requests -> Waits]
      /\ \A q \in Requests \ {r} : awaiting'[q] = awaiting[q]
      /\ ~Unasked(r) /\ Unasked(r)' /\ Unfetched(r)'
      /\ \A q \in Requests, x \in {"fetch", "getMore", "close"} : Posted(q, x)' <=> Posted(q, x)
  BY <1>1, Reads
<1>3. Types /\ UnitsOf(r)
  BY DEF IInv, Bodies, RequestInv
<1>4. /\ int0' \in [Requests -> -4 .. Capacity] /\ int0'[r] = ERROR_EXCEPTION
      /\ \A q \in Requests \ {r} : int0'[q] = int0[q]
  <2>1. ERROR_EXCEPTION \in -4 .. Capacity /\ int0 \in [Requests -> -4 .. Capacity]
    BY <1>3, EmscriptenAssumption DEF Types, ERROR_EXCEPTION
  <2> QED BY ONLY <1>1, <2>1, r \in Requests
<1>5. /\ broke' \in [Requests -> BOOLEAN] /\ broke'[r] /\ \A q \in Requests \ {r} : broke'[q] = broke[q]
  BY <1>1, <1>3 DEF Types
<1>6. /\ falling' \in [r : Requests, undefined : BOOLEAN] /\ falling'.r = r
      /\ \A q \in Requests \ {r} : ~Falls(q)'
  BY <1>1 DEF Falls
<1>7. UnitsOf(r)'
  BY <1>1, <1>2, <1>3 DEF UnitsOf
<1>8. Len(bytes[r]) <= Len(bytes'[r])
  <2>1. Len(bytes[r]) \in Nat
    BY <1>3, LenProperties DEF Types
  <2> QED BY <1>1, <2>1
<1>9. /\ ~(ERROR_EXCEPTION > 0) /\ ERROR_EXCEPTION # ERROR_TIMEOUT /\ ERROR_EXCEPTION # SUCCESS_HEADER
      /\ ERROR_EXCEPTION # SUCCESS_EOF
  BY DEF ERROR_TIMEOUT, SUCCESS_HEADER, SUCCESS_EOF, ERROR_EXCEPTION
<1>10. RequestInv(r)'
  BY <1>1, <1>2, <1>4, <1>5, <1>7, <1>8, <1>9, AnswerInv
<1>11. /\ UNCHANGED <<size, pyVars>>
       /\ bytes' \in [Requests -> Seq(Nat)] /\ given' \in [Requests -> Nat]
       /\ connections' \in [Requests -> Connections]
       /\ \A q \in Requests \ {r} :
            bytes'[q] = bytes[q] /\ given'[q] = given[q] /\ connections'[q] = connections[q]
  BY <1>1, <1>2, <1>3 DEF Types
<1> QED BY ONLY IInv, r \in Requests, <1>2, <1>4, <1>5, <1>6, <1>10, <1>11, WorkerInv

LEMMA FallThroughInv ==
    ASSUME IInv, FallThrough
    PROVE  IInv'
<1>1. /\ falling # Nobody /\ falling' = Nobody
      /\ IF falling.undefined THEN UNCHANGED int0 ELSE int0' = [int0 EXCEPT ![falling.r] = 0]
      /\ UNCHANGED <<size, pyVars, bytes, inbox, awaiting, connections, given, broke>>
  BY DEF FallThrough, Store
<1>2. Types /\ Once
  BY DEF IInv
<1>3. PICK r \in Requests : r = falling.r
  BY <1>1, <1>2 DEF Types
<1>4. RequestInv(r) /\ Calling
  BY DEF IInv, Bodies
<1>5. UNCHANGED <<size, py, via, stream, held, free, got, ended,
                  bytes, inbox, awaiting, connections, given, broke>>
  BY <1>1 DEF pyVars
<1>6. \A q \in Requests, x \in {"fetch", "getMore", "close"} : Posted(q, x)' <=> Posted(q, x)
  BY <1>5 DEF Posted
<1>7. \A q \in Requests : ~Falls(q)'
  BY <1>1 DEF Falls
<1>8. /\ int0' \in [Requests -> -4 .. Capacity]
      /\ \A q \in Requests \ {r} : int0'[q] = int0[q]
      /\ IF falling.undefined THEN int0'[r] = int0[r] ELSE int0'[r] = 0
  <2>1. 0 \in -4 .. Capacity /\ int0 \in [Requests -> -4 .. Capacity]
    BY <1>2, EmscriptenAssumption DEF Types
  <2> QED BY ONLY <1>1, <1>3, <2>1
<1>9. RequestInv(r)'
  <2>0. /\ UnitsOf(r)' /\ BodyClosed(r)'
        /\ (Unfetched(r)' <=> Unfetched(r)) /\ (Unasked(r)' <=> Unasked(r))
        /\ \A x \in {"send", "read", "wait"} : At(r, x)' <=> At(r, x)
    BY <1>4, <1>5, <1>6 DEF RequestInv, UnitsOf, BodyClosed, Unfetched, Unasked, At
  <2>1. CASE int0'[r] = int0[r]
    <3>1. Untouched(r)
      BY <1>3, <1>5, <1>6, <1>7, <2>0, <2>1 DEF Untouched
    <3> QED BY <1>4, <3>1, Elsewhere
  <2>2. CASE int0'[r] = 0 /\ ~falling.undefined
    <3>1. /\ broke[r] /\ stream[r].state \in {"none", "open", "closed"}
          /\ stream[r].state # "closed" => At(r, "wait") /\ int0[r] = ERROR_EXCEPTION
      <4>1. Falls(r)
        BY <1>1, <1>3, <2>2 DEF Falls
      <4> QED BY <1>2, <1>4, <4>1 DEF RequestInv, Orderly, Types, Streams
    <3>2. stream[r].state # "none"
      BY <1>4, <3>1 DEF At, Calling
    <3>3. Orderly(r)'
      BY <1>4, <1>5, <1>6, <1>7, <2>0 DEF RequestInv, Orderly
    <3>4. OpenBody(r)'
      <4> SUFFICES ASSUME stream[r].state = "open" PROVE OpenBody(r)'
        BY <1>5 DEF OpenBody
      <4>1. /\ via[r] = "worker" /\ At(r, "wait") /\ int0[r] = ERROR_EXCEPTION
        BY <1>4, <3>1 DEF At, Calling
      <4>2. /\ ended[r] = "no" /\ stream[r].live /\ ~Posted(r, "close") /\ Unfetched(r)
            /\ Ready(r, stream[r].pos, stream[r].len) /\ Answered(r)
        BY <1>4, <4>1 DEF RequestInv, OpenBody
      <4>3. stream[r].len = 0 /\ Unasked(r)
        BY <4>1, <4>2 DEF Answered, ERROR_TIMEOUT, ERROR_EXCEPTION
      <4>4. Answered(r)'
        BY <1>5, <2>0, <2>2, <3>1, <4>3
           DEF Answered, ERROR_TIMEOUT, SUCCESS_EOF, SUCCESS_HEADER
      <4>5. Ready(r, stream[r].pos, stream[r].len)'
        BY <1>5, <4>2 DEF Ready
      <4> QED BY <1>5, <1>6, <2>0, <4>1, <4>2, <4>4, <4>5 DEF OpenBody
    <3> QED BY <1>5, <2>0, <3>2, <3>3, <3>4 DEF RequestInv, NoBodyYet
  <2> QED BY <1>8, <2>1, <2>2
<1>10. /\ UNCHANGED <<size, pyVars>> /\ bytes' \in [Requests -> Seq(Nat)]
       /\ inbox' \in Seq(Messages) /\ Once' /\ awaiting' \in [Requests -> Waits]
       /\ connections' \in [Requests -> Connections] /\ given' \in [Requests -> Nat]
       /\ falling' = Nobody /\ broke' \in [Requests -> BOOLEAN]
       /\ \A q \in Requests \ {r} :
            /\ bytes'[q] = bytes[q] /\ awaiting'[q] = awaiting[q]
            /\ connections'[q] = connections[q] /\ given'[q] = given[q] /\ broke'[q] = broke[q]
  BY <1>1, <1>2, <1>5 DEF Types, Once
<1> QED BY ONLY IInv, r \in Requests, <1>6, <1>7, <1>8, <1>9, <1>10, WorkerInv

(***************************************************************************)
(* The invariant of the specification, and what follows from it.           *)
(***************************************************************************)
LEMMA InitInv == Init => IInv
<1> SUFFICES ASSUME Init PROVE IInv
  OBVIOUS
<1>1. Slots \in Nat /\ Capacity \in Nat
  BY EmscriptenAssumption
<1>2. Types
  <2>1. <<>> \in Seq(Messages) /\ <<>> \in Seq(Nat) /\ <<>> \in Waits
    BY DEF Waits
  <2>2. size \in [Requests -> 0 .. MaxSize]
    BY DEF Init
  <2>3. py \in [pc : Pcs, r : Requests \cup {"none"}, amt : Asks \cup {All}]
    BY DEF Init, Idle, Pcs
  <2>4. via \in [Requests -> Ways] /\ ended \in [Requests -> Ends]
    BY DEF Init, Ways, Ends
  <2>5. int0 \in [Requests -> -4 .. Capacity] /\ bytes \in [Requests -> Seq(Nat)]
    BY <1>1, <2>1 DEF Init
  <2>6. stream \in [Requests -> Streams]
    BY DEF Init, NoBody, Streams
  <2>7. /\ held \in [Requests -> BOOLEAN] /\ free \in Nat /\ inbox \in Seq(Messages)
        /\ awaiting \in [Requests -> Waits] /\ broke \in [Requests -> BOOLEAN]
    BY <1>1, <2>1 DEF Init
  <2>8. connections \in [Requests -> Connections]
    BY <2>1 DEF Init, NoConnection, Connections
  <2>9. given \in [Requests -> Nat] /\ falling = Nobody /\ got \in [Requests -> Seq(Nat)]
    BY <2>1 DEF Init
  <2> QED BY <2>2, <2>3, <2>4, <2>5, <2>6, <2>7, <2>8, <2>9 DEF Types
<1>3. inbox = <<>> /\ DOMAIN inbox = {}
  BY DEF Init
<1>4. Once /\ \A q \in Requests, x \in {"fetch", "getMore", "close"} : ~Posted(q, x)
  BY <1>3 DEF Once, Posted
<1>5. Calling
  BY DEF Init, Idle, Calling
<1>6. ASSUME NEW r \in Requests PROVE RequestInv(r)
  <2>1. /\ via[r] = "none" /\ int0[r] = 0 /\ bytes[r] = <<>> /\ stream[r] = NoBody /\ ~held[r]
        /\ awaiting[r] = <<>> /\ connections[r] = NoConnection /\ given[r] = 0 /\ falling = Nobody
        /\ got[r] = <<>> /\ ended[r] = "no" /\ size[r] \in Nat
    BY <1>2 DEF Init, Types
  <2>2. Unfetched(r) /\ Unasked(r) /\ ~Falls(r)
    <3>1. <<>> # <<"read">> /\ <<>> # <<"fetch">>
      OBVIOUS
    <3> QED BY <1>4, <2>1, <3>1 DEF Unfetched, Unasked, Falls
  <2>3. UnitsOf(r)
    <3>1. Len(<<>>) = 0 /\ NoConnection.curOffset <= Len(NoConnection.value)
      BY DEF NoConnection
    <3> QED BY <2>1, <3>1 DEF UnitsOf
  <2>4. OpenBody(r) /\ BodyClosed(r)
    BY <2>1 DEF OpenBody, BodyClosed, NoBody
  <2>5. NoBodyYet(r)
    BY <1>4, <2>1, <2>2 DEF NoBodyYet
  <2>6. Orderly(r)
    BY <1>4, <2>1, <2>2 DEF Orderly, NoBody
  <2> QED BY <2>3, <2>4, <2>5, <2>6 DEF RequestInv
<1>7. Slotted
  <2>1. Out = {} /\ Sending = 0 /\ free = Slots
    BY DEF Init, Out, Sending, Idle
  <2>2. IsFiniteSet({}) /\ Cardinality({}) = 0
    BY FS_EmptySet
  <2> QED BY <1>1, <2>1, <2>2 DEF Slotted
<1> QED BY <1>2, <1>4, <1>5, <1>6, <1>7 DEF IInv, Bodies

LEMMA NextInv == IInv /\ [Next]_vars => IInv'
<1> SUFFICES ASSUME IInv, [Next]_vars PROVE IInv'
  OBVIOUS
<1>1. ASSUME NEW r \in Requests, Send(r) PROVE IInv'
  BY <1>1, SendInv
<1>2. ASSUME NEW r \in Requests, SendJspi(r) PROVE IInv'
  BY <1>2, SendJspiInv
<1>3. ASSUME NEW r \in Requests, Close(r) PROVE IInv'
  BY <1>3, CloseInv
<1>4. ASSUME NEW r \in Requests, NEW preload \in BOOLEAN, SendRequest(r, preload) PROVE IInv'
  BY <1>4, SendRequestInv
<1>5. ASSUME NEW r \in Requests, NEW amt \in Asks \cup {All}, Read(r, amt) PROVE IInv'
  BY <1>5, ReadInv
<1>6. ASSUME NEW r \in Requests, Python(r) PROVE IInv'
  <2>1. CASE SendWakes(r)
    BY <2>1, SendReturnsInv DEF SendWakes
  <2>2. CASE Copy(r)
    BY <2>2, CopyInv
  <2>3. CASE GetMore(r)
    BY <2>3, GetMoreInv
  <2>4. CASE Wake(r)
    BY <2>4, WakeInv
  <2>5. CASE GetNextBuffer(r)
    BY <2>5, GetNextBufferInv
  <2>6. CASE EmptyBody(r)
    BY <2>6, EmptyBodyInv
  <2> QED BY <1>6, <2>1, <2>2, <2>3, <2>4, <2>5, <2>6 DEF Python
<1>7. ASSUME NEW r \in Requests, SendTimesOut(r) PROVE IInv'
  BY <1>7, SendReturnsInv DEF SendTimesOut
<1>8. ASSUME NEW r \in Requests, ReadTimesOut(r) PROVE IInv'
  BY <1>8, ReadTimesOutInv
<1>9. ASSUME NEW r \in Requests, Worker(r) PROVE IInv'
  <2>1. CASE TakeFetch(r)
    BY <2>1, TakeFetchInv
  <2>2. CASE TakeClose(r)
    BY <2>2, TakeCloseInv
  <2>3. CASE TakeGetMore(r)
    BY <2>3, TakeGetMoreInv
  <2> QED BY <1>9, <2>1, <2>2, <2>3 DEF Worker
<1>10. ASSUME NEW r \in Requests, Browser(r) PROVE IInv'
  <2>1. CASE Fetched(r)
    BY <2>1, FetchedInv
  <2>2. CASE Piece(r)
    BY <2>2, PieceInv
  <2>3. CASE Done(r)
    BY <2>3, DoneInv
  <2>4. CASE Breaks(r)
    BY <2>4, BreaksInv
  <2> QED BY <1>10, <2>1, <2>2, <2>3, <2>4 DEF Browser
<1>11. CASE FallThrough
  BY <1>11, FallThroughInv
<1>12. CASE UNCHANGED vars
  <2>1. UNCHANGED <<size, py, via, int0, bytes, stream, held, free, inbox, awaiting,
                    connections, given, falling, got, ended, broke>>
    BY <1>12 DEF vars, pyVars, workerVars
  <2>2. Types'
    BY <2>1 DEF IInv, Types
  <2>3. Once' /\ Calling'
    BY <2>1 DEF IInv, Once, Calling
  <2>4. Bodies'
    <3> SUFFICES ASSUME NEW q \in Requests PROVE RequestInv(q)'
      BY DEF Bodies
    <3>1. Untouched(q)
      BY <2>1 DEF Untouched, Posted, At, Falls
    <3> QED BY <3>1, Elsewhere DEF IInv, Bodies
  <2>5. Slotted'
    BY <2>1 DEF IInv, Slotted, Out, Sending
  <2> QED BY <2>2, <2>3, <2>4, <2>5 DEF IInv
<1> QED BY <1>1, <1>2, <1>3, <1>4, <1>5, <1>7, <1>6, <1>8, <1>9, <1>10, <1>11, <1>12 DEF Next

(* Every state of the specification satisfies the inductive invariant:     *)
(* wherever Python, the worker and the reader are, the question under way  *)
(* is one, and what the buffer holds is what comes next.                   *)
THEOREM Invariance == Spec => []IInv
<1>1. Init => IInv
  BY InitInv
<1>2. IInv /\ [Next]_vars => IInv'
  BY NextInv
<1> QED BY <1>1, <1>2, PTL DEF Spec

(* The types: positions stay within the buffer and the value, the slots    *)
(* within the pool.                                                        *)
LEMMA IInvTypes == IInv => TypeOK
<1> SUFFICES ASSUME IInv PROVE TypeOK
  OBVIOUS
<1>1. Types
  BY DEF IInv
<1>2. /\ size \in [Requests -> 0 .. MaxSize]
      /\ py.pc \in {"idle", "send", "read", "wait"}
      /\ py.r \in Requests \cup {"none"} /\ py.amt \in Asks \cup {All}
      /\ via \in [Requests -> {"none", "worker", "whole", "jspi"}]
      /\ int0 \in [Requests -> -4 .. Capacity]
      /\ held \in [Requests -> BOOLEAN] /\ broke \in [Requests -> BOOLEAN]
      /\ ended \in [Requests -> {"no", "end", "error", "timeout", "closed", "lost"}]
  BY <1>1 DEF Types, Pcs, Ways, Ends
<1>3. free \in 0 .. Slots
  <2>1. IsFiniteSet(Out) /\ free + Cardinality(Out) + Sending = Slots
    BY DEF IInv, Slotted
  <2>2. Cardinality(Out) \in Nat /\ Sending \in Nat /\ free \in Nat /\ Slots \in Nat
    BY <1>1, <2>1, FS_CardinalityType, EmscriptenAssumption DEF Sending, Types
  <2> QED BY <2>1, <2>2
<1>4. \A i \in DOMAIN inbox : inbox[i].do \in {"fetch", "getMore", "close"}
  <2> TAKE i \in DOMAIN inbox
  <2>1. inbox \in Seq(Messages)
    BY <1>1 DEF Types
  <2>2. inbox[i] \in Messages
    BY <2>1, ElementOfSeq, LenProperties
  <2> QED BY <2>2 DEF Messages
<1>5. ASSUME NEW r \in Requests
      PROVE  /\ stream[r].state \in {"none", "open", "closed"} /\ stream[r].live \in BOOLEAN
             /\ stream[r].len > 0 => stream[r].pos + stream[r].len <= Len(bytes[r])
             /\ Range(bytes[r]) \cup Range(got[r]) \subseteq 1 .. size[r]
             /\ Range(awaiting[r]) \subseteq {"fetch", "read"}
             /\ connections[r].curOffset \in -1 .. Len(connections[r].value)
             /\ given[r] \in 0 .. size[r]
  <2>1. RequestInv(r)
    BY DEF IInv, Bodies
  <2>2. stream[r].state \in {"none", "open", "closed"} /\ stream[r].live \in BOOLEAN
    BY <1>1 DEF Types, Streams
  <2>3. stream[r].len > 0 => stream[r].pos + stream[r].len <= Len(bytes[r])
    BY <2>1, <2>2 DEF RequestInv, OpenBody, NoBodyYet, BodyClosed, Ready, Closed, NoBody
  <2>4. /\ bytes[r] \in Seq(Nat) /\ got[r] \in Seq(Nat) /\ awaiting[r] \in Waits
        /\ size[r] \in Nat /\ given[r] \in Nat
    BY <1>1, EmscriptenAssumption DEF Types
  <2>5. /\ Len(got[r]) <= size[r] /\ \A i \in 1 .. Len(got[r]) : got[r][i] = i
        /\ \A i \in 1 .. Len(bytes[r]) : bytes[r][i] \in 1 .. size[r]
        /\ Len(got[r]) \in Nat
        /\ DOMAIN got[r] = 1 .. Len(got[r]) /\ DOMAIN bytes[r] = 1 .. Len(bytes[r])
    BY <2>1, <2>4, LenProperties DEF RequestInv, UnitsOf
  <2>6. Range(bytes[r]) \subseteq 1 .. size[r]
    BY <2>5 DEF Range
  <2>7. Range(got[r]) \subseteq 1 .. size[r]
    <3>1. \A i \in 1 .. Len(got[r]) : got[r][i] \in 1 .. size[r]
      BY <2>4, <2>5
    <3> QED BY <2>5, <3>1 DEF Range
  <2>8. Range(awaiting[r]) \subseteq {"fetch", "read"}
    BY <2>4 DEF Waits, Range
  <2>9. connections[r].curOffset \in -1 .. Len(connections[r].value)
    <3>1. /\ connections[r].value \in Seq(Nat) /\ connections[r].curOffset \in Nat \cup {-1}
      BY <1>1 DEF Types, Connections
    <3> QED BY <2>1, <3>1, LenProperties DEF RequestInv, UnitsOf
  <2>10. given[r] \in 0 .. size[r]
    BY <2>1, <2>4 DEF RequestInv, UnitsOf
  <2> QED BY <2>2, <2>3, <2>6, <2>7, <2>8, <2>9, <2>10
<1> QED BY <1>2, <1>3, <1>4, <1>5 DEF TypeOK

(* The types of the module hold in every state, whatever the sizes of      *)
(* bodies, buffer and pool: what the shared buffer says to be read is in   *)
(* it, and the pool never has more connections than slots.                 *)
THEOREM TypeCorrect == Spec => []TypeOK
BY Invariance, IInvTypes, PTL

(* What callers are given, read by read and through a buffer smaller than  *)
(* the pieces, is their own body from its first unit on; told that it was  *)
(* all, they have had it all, unless the fetch broke.                      *)
THEOREM BodiesInOrder == Spec => []BodyInOrder
<1>1. IInv => BodyInOrder
  <2> SUFFICES ASSUME IInv, NEW r \in Requests
               PROVE  /\ got[r] = Units(1, Len(got[r]))
                      /\ ended[r] = "end" => Len(got[r]) = size[r] \/ broke[r]
    BY DEF BodyInOrder
  <2>1. RequestInv(r) /\ Types
    BY DEF IInv, Bodies
  <2>2. got[r] = Units(1, Len(got[r]))
    <3>1. PICK k \in Nat : k = Len(got[r])
      BY <2>1, LenProperties DEF Types
    <3>2. /\ Units(0 + 1, 0 + k) \in Seq(Nat) /\ Len(Units(0 + 1, 0 + k)) = k
          /\ \A i \in 1 .. k : Units(0 + 1, 0 + k)[i] = 0 + i
      BY UnitsAre
    <3>3. 0 + 1 = 1 /\ 0 + k = k /\ \A i \in 1 .. k : 0 + i = i
      OBVIOUS
    <3>4. /\ Units(1, k) \in Seq(Nat) /\ Len(Units(1, k)) = k
          /\ \A i \in 1 .. k : Units(1, k)[i] = i
      BY <3>2, <3>3
    <3>5. got[r] \in Seq(Nat) /\ \A i \in 1 .. k : got[r][i] = i
      BY <2>1, <3>1 DEF Types, RequestInv, UnitsOf
    <3>6. got[r] = Units(1, k)
      BY <3>1, <3>4, <3>5, SeqEqual
    <3> QED BY <3>1, <3>6
  <2>3. ended[r] = "end" => Len(got[r]) = size[r] \/ broke[r]
    <3>1. stream[r].state \in {"none", "open", "closed"}
      BY <2>1 DEF Types, Streams
    <3> QED BY <2>1, <3>1 DEF RequestInv, OpenBody, NoBodyYet, BodyClosed
  <2> QED BY <2>2, <2>3
<1> QED BY <1>1, Invariance, PTL

(* Whoever gives up when, what the worker still keeps can be closed, or    *)
(* belongs to a request that ended before its headers came or to a fetch   *)
(* that broke; and every connection of the pool is in it, in use, or lost  *)
(* by closing a response early.                                            *)
THEOREM NothingIsLeftBehind == Spec => []NothingLeftBehind
<1>1. IInv => NothingLeftBehind
  <2> SUFFICES ASSUME IInv PROVE NothingLeftBehind
    OBVIOUS
  <2>1. Types /\ Slotted
    BY DEF IInv
  <2>2. ASSUME NEW r \in Requests, connections[r] # NoConnection
        PROVE  \/ stream[r].live \/ broke[r]
               \/ stream[r].state = "none" /\ ended[r] = "timeout"
               \/ py.pc = "send" /\ py.r = r
               \/ [do |-> "close", r |-> r] \in Range(inbox)
    <3>1. RequestInv(r) /\ stream[r].state \in {"none", "open", "closed"}
      BY <2>1 DEF IInv, Bodies, Types, Streams
    <3>2. via[r] = "worker"
      BY <2>2, <3>1 DEF RequestInv, Orderly
    <3>3. Posted(r, "close") => [do |-> "close", r |-> r] \in Range(inbox)
      BY DEF Posted, Range
    <3>4. CASE stream[r].state = "open"
      BY <3>1, <3>2, <3>4 DEF RequestInv, OpenBody
    <3>5. CASE stream[r].state = "closed"
      BY <2>2, <3>1, <3>3, <3>5 DEF RequestInv, BodyClosed
    <3>6. CASE stream[r].state = "none"
      BY <2>2, <3>1, <3>2, <3>6 DEF RequestInv, NoBodyYet, At
    <3> QED BY <3>1, <3>4, <3>5, <3>6
  <2>3. free + Cardinality({r \in Requests : held[r] \/ ended[r] = "lost"})
          + (IF py.pc = "send" THEN 1 ELSE 0) = Slots
    BY <2>1 DEF Slotted, Out, Sending
  <2> QED BY <2>2, <2>3 DEF NothingLeftBehind
<1> QED BY <1>1, Invariance, PTL
================================================================================
