-------------------------- MODULE PoolManagerProofs --------------------------
(***************************************************************************)
(* Proofs about PoolManager, for any threads, contexts, options and pools:  *)
(* who asks for a pool gets one like it, and the container keeps the keys   *)
(* used last.                                                              *)
(***************************************************************************)
EXTENDS PoolManager, FiniteSetTheorems, SequenceTheorems, TLAPS

(***************************************************************************)
(* Sequences: an element is taken out, or the first one.                   *)
(***************************************************************************)
LEMMA RemoveAtIs ==
    ASSUME NEW S, NEW s \in Seq(S), NEW i \in 1..Len(s)
    PROVE  /\ RemoveAt(s, i) \in Seq(S)
           /\ Len(RemoveAt(s, i)) = Len(s) - 1
           /\ \A j \in 1..(Len(s) - 1) :
                 RemoveAt(s, i)[j] = IF j < i THEN s[j] ELSE s[j + 1]
<1> DEFINE n == Len(s)
           a == SubSeq(s, 1, i - 1)
           b == SubSeq(s, i + 1, n)
<1>1. /\ n \in Nat /\ i \in Int /\ 1 <= i /\ i <= n
      /\ \A j \in 1..n : s[j] \in S
  BY LenProperties, ElementOfSeq
<1>2. /\ a \in Seq(S) /\ Len(a) = i - 1
      /\ \A j \in 1..(i - 1) : a[j] = s[j]
  <2>1. \A j \in 1..(i - 1) : s[j] \in S
    BY <1>1
  <2>2. /\ a \in Seq(S)
        /\ Len(a) = IF 1 <= i - 1 THEN i - 1 - 1 + 1 ELSE 0
        /\ \A j \in 1..(i - 1 - 1 + 1) : a[j] = s[1 + j - 1]
    <3>1. 1 \in Int /\ i - 1 \in Int
      BY <1>1
    <3> QED BY <3>1, <2>1, SubSeqProperties
  <2> HIDE DEF a, b, n
  <2> QED BY <1>1, <2>2
<1>3. /\ b \in Seq(S) /\ Len(b) = n - i
      /\ \A j \in 1..(n - i) : b[j] = s[i + j]
  <2>1. \A j \in (i + 1)..n : s[j] \in S
    BY <1>1
  <2>2. /\ b \in Seq(S)
        /\ Len(b) = IF i + 1 <= n THEN n - (i + 1) + 1 ELSE 0
        /\ \A j \in 1..(n - (i + 1) + 1) : b[j] = s[(i + 1) + j - 1]
    <3>1. i + 1 \in Int /\ n \in Int
      BY <1>1
    <3> QED BY <3>1, <2>1, SubSeqProperties
  <2> HIDE DEF a, b, n
  <2> QED BY <1>1, <2>2
<1>4. RemoveAt(s, i) = a \o b
  BY DEF RemoveAt
<1> HIDE DEF a, b, n
<1>5. /\ a \o b \in Seq(S)
      /\ Len(a \o b) = Len(a) + Len(b)
      /\ \A j \in 1..(Len(a) + Len(b)) :
            (a \o b)[j] = IF j <= Len(a) THEN a[j] ELSE b[j - Len(a)]
  BY <1>2, <1>3, ConcatProperties
<1>6. /\ RemoveAt(s, i) \in Seq(S)
      /\ Len(RemoveAt(s, i)) = n - 1
      /\ \A j \in 1..(n - 1) : RemoveAt(s, i)[j] = IF j < i THEN s[j] ELSE s[j + 1]
  BY <1>1, <1>2, <1>3, <1>4, <1>5
<1> QED BY <1>6 DEF n

LEMMA TailIs ==
    ASSUME NEW S, NEW s \in Seq(S), Len(s) > 0
    PROVE  /\ Tail(s) \in Seq(S) /\ Len(Tail(s)) = Len(s) - 1
           /\ \A j \in 1..(Len(s) - 1) : Tail(s)[j] = s[j + 1]
OBVIOUS

LEMMA AppendIs ==
    ASSUME NEW S, NEW s \in Seq(S), NEW x \in S
    PROVE  /\ Append(s, x) \in Seq(S) /\ Len(Append(s, x)) = Len(s) + 1
           /\ \A j \in 1..Len(s) : Append(s, x)[j] = s[j]
           /\ Append(s, x)[Len(s) + 1] = x
OBVIOUS

(***************************************************************************)
(* Two contexts of one key ask for pools that are alike.                   *)
(***************************************************************************)
LEMMA KeysAgree ==
    ASSUME NEW c \in Contexts, NEW d \in Contexts, Key(c) = Key(d)
    PROVE  Effective(NewPool(c)) = Effective(NewPool(d))
<1> DEFINE cw == MergePoolKwargs(c.override)
           dw == MergePoolKwargs(d.override)
           Normal(kw, o) == IF kw[o] \notin {Absent, None} THEN kw[o]
                            ELSE IF o = "blocksize" THEN Default[o] ELSE None
           Kept(scheme, kw, o) ==
             CASE o = "blocksize" /\ kw[o] = None        -> Default[o]
               [] scheme = "http" /\ o \in SslKeywords -> Absent
               [] OTHER                                  -> kw[o]
           Eff(scheme, kw, o) == IF Kept(scheme, kw, o) = Absent THEN Default[o]
                                 ELSE Kept(scheme, kw, o)
<1>1. c.scheme = d.scheme /\ c.host = d.host /\ Port(c) = Port(d)
  BY DEF Key
<1>2. ASSUME NEW o \in Options PROVE Normal(cw, o) = Normal(dw, o)
  <2>1. [p \in Options |-> Normal(cw, p)] = [p \in Options |-> Normal(dw, p)]
    BY DEF Key
  <2> QED BY <2>1
<1>3. ASSUME NEW o \in Options PROVE Eff(c.scheme, cw, o) = Eff(d.scheme, dw, o)
  <2>1. Absent # None
    BY DEF Absent, None
  <2>2. CASE o = "blocksize"
    BY <2>1, <2>2, <1>1, <1>2, OptionsAssumption
  <2>3. CASE o # "blocksize"
    BY <2>1, <2>3, <1>1, <1>2, OptionsAssumption
  <2> QED BY <2>2, <2>3
<1>4. ASSUME NEW e \in Contexts
      PROVE  Effective(NewPool(e)) =
               [scheme |-> e.scheme, host |-> e.host, port |-> Port(e),
                kw |-> [o \in Options |-> Eff(e.scheme, MergePoolKwargs(e.override), o)]]
  <2> DEFINE ew == MergePoolKwargs(e.override)
             port == Port(e)
             made1 == [scheme |-> e.scheme, host |-> e.host, port |-> port,
                       kw |-> [o \in Options |-> Kept(e.scheme, ew, o)]]
  <2>1. NewPool(e) = made1
    BY DEF NewPool
  <2> HIDE DEF port, ew
  <2>2. [o \in Options |-> IF made1.kw[o] = Absent THEN Default[o] ELSE made1.kw[o]]
          = [o \in Options |-> Eff(e.scheme, ew, o)]
    <3> HIDE DEF Kept
    <3>1. ASSUME NEW o \in Options PROVE made1.kw[o] = Kept(e.scheme, ew, o)
      OBVIOUS
    <3> HIDE DEF made1
    <3>2. ASSUME NEW o \in Options
          PROVE  (IF made1.kw[o] = Absent THEN Default[o] ELSE made1.kw[o])
                    = Eff(e.scheme, ew, o)
      BY <3>1
    <3> HIDE DEF Eff
    <3> QED BY <3>2, Zenon
  <2> HIDE DEF Kept, Eff
  <2>3. Effective(made1) = [made1 EXCEPT !.kw = [o \in Options |-> Eff(e.scheme, ew, o)]]
    BY <2>2 DEF Effective
  <2>4. [made1 EXCEPT !.kw = [o \in Options |-> Eff(e.scheme, ew, o)]]
          = [scheme |-> e.scheme, host |-> e.host, port |-> port,
             kw |-> [o \in Options |-> Eff(e.scheme, ew, o)]]
    <3> DEFINE f == [o \in Options |-> Kept(e.scheme, ew, o)]
               g == [o \in Options |-> Eff(e.scheme, ew, o)]
               r == [scheme |-> e.scheme, host |-> e.host, port |-> port, kw |-> f]
    <3> HIDE DEF f, g
    <3>1. [r EXCEPT !.kw = g] = [scheme |-> e.scheme, host |-> e.host, port |-> port,
                                 kw |-> g]
      OBVIOUS
    <3> QED BY <3>1 DEF f, g
  <2> QED BY <2>1, <2>3, <2>4 DEF port, ew
<1>5. [o \in Options |-> Eff(c.scheme, cw, o)] = [o \in Options |-> Eff(d.scheme, dw, o)]
  BY <1>3
<1> QED BY <1>1, <1>4, <1>5

(***************************************************************************)
(* The container and the history of its keys.                              *)
(***************************************************************************)
Entries == [key : Keys, pool : Pools]

LEMMA TouchIs ==
    ASSUME container \in Seq(Entries), NEW i \in DOMAIN container
    PROVE  /\ Touch(i) \in Seq(Entries) /\ Len(Touch(i)) = Len(container)
           /\ \A j \in 1..(Len(container) - 1) :
                 Touch(i)[j] = IF j < i THEN container[j] ELSE container[j + 1]
           /\ Touch(i)[Len(container)] = container[i]
           /\ Range(Touch(i)) \subseteq Range(container)
<1> DEFINE n == Len(container)
           r == RemoveAt(container, i)
<1>1. n \in Nat /\ i \in 1..n /\ DOMAIN container = 1..n /\ container[i] \in Entries
  BY LenProperties, ElementOfSeq
<1>2. /\ r \in Seq(Entries) /\ Len(r) = n - 1
      /\ \A j \in 1..(n - 1) : r[j] = IF j < i THEN container[j] ELSE container[j + 1]
  BY <1>1, RemoveAtIs
<1>3. Touch(i) = Append(r, container[i])
  BY DEF Touch
<1> HIDE DEF r, n
<1>4. /\ Touch(i) \in Seq(Entries) /\ Len(Touch(i)) = n
      /\ \A j \in 1..(n - 1) : Touch(i)[j] = r[j]
      /\ Touch(i)[n] = container[i]
  <2>1. /\ Append(r, container[i]) \in Seq(Entries)
        /\ Len(Append(r, container[i])) = Len(r) + 1
        /\ \A j \in 1..Len(r) : Append(r, container[i])[j] = r[j]
        /\ Append(r, container[i])[Len(r) + 1] = container[i]
    BY <1>1, <1>2, AppendIs
  <2> QED BY <1>1, <1>2, <1>3, <2>1
<1>5. DOMAIN Touch(i) = 1..n
  BY <1>4, LenProperties
<1>6. ASSUME NEW j \in 1..n PROVE \E l \in 1..n : Touch(i)[j] = container[l]
  <2>1. CASE j = n
    BY <2>1, <1>1, <1>4
  <2>2. CASE j < i /\ j # n
    BY <2>2, <1>1, <1>2, <1>4
  <2>3. CASE ~(j < i) /\ j # n
    <3>1. j + 1 \in 1..n /\ j \in 1..(n - 1)
      BY <2>3, <1>1
    <3> QED BY <2>3, <3>1, <1>2, <1>4
  <2> QED BY <2>1, <2>2, <2>3
<1>7. Range(Touch(i)) \subseteq Range(container)
  BY <1>1, <1>5, <1>6 DEF Range
<1> QED BY <1>2, <1>4, <1>7 DEF n

LEMMA InsertIs ==
    ASSUME container \in Seq(Entries), Len(container) <= num_pools,
           NEW k \in Keys, NEW p \in Pools,
           NEW n, n = Len(container), NEW e, e = [key |-> k, pool |-> p]
    PROVE  /\ Insert(k, p) \in Seq(Entries)
           /\ Range(Insert(k, p)) \subseteq Range(container) \cup {e}
           /\ n < num_pools =>
                 /\ Len(Insert(k, p)) = n + 1
                 /\ \A j \in 1..n : Insert(k, p)[j] = container[j]
                 /\ Insert(k, p)[n + 1] = e
           /\ n = num_pools =>
                 /\ Len(Insert(k, p)) = n
                 /\ \A j \in 1..(n - 1) : Insert(k, p)[j] = container[j + 1]
                 /\ n > 0 => Insert(k, p)[n] = e
<1> DEFINE c == Append(container, e)
<1>1. n \in Nat /\ DOMAIN container = 1..n /\ e \in Entries
  BY LenProperties DEF Entries
<1>2. /\ c \in Seq(Entries) /\ Len(c) = n + 1
      /\ \A j \in 1..n : c[j] = container[j]
      /\ c[n + 1] = e
  BY <1>1, AppendIs
<1>3. Insert(k, p) = IF n + 1 > num_pools THEN Tail(c) ELSE c
  <2>1. Insert(k, p) = IF Len(c) > num_pools THEN Tail(c) ELSE c
    BY DEF Insert
  <2> QED BY <1>2, <2>1
<1>4. num_pools \in Nat
  BY SizeAssumption
<1> HIDE DEF c
<1>5. CASE n < num_pools
  <2>1. Insert(k, p) = c
    BY <1>1, <1>3, <1>4, <1>5
  <2>2. DOMAIN c = 1..(n + 1)
    BY <1>2, LenProperties
  <2>3. Range(c) \subseteq Range(container) \cup {e}
    BY <1>1, <1>2, <2>2 DEF Range
  <2> QED BY <1>1, <1>2, <1>4, <1>5, <2>1, <2>3
<1>6. CASE n = num_pools
  <2>1. Insert(k, p) = Tail(c)
    BY <1>1, <1>3, <1>6
  <2>2. /\ Tail(c) \in Seq(Entries) /\ Len(Tail(c)) = n
        /\ \A j \in 1..n : Tail(c)[j] = c[j + 1]
    <3>1. Len(c) > 0
      BY <1>1, <1>2
    <3>2. /\ Tail(c) \in Seq(Entries) /\ Len(Tail(c)) = Len(c) - 1
          /\ \A j \in 1..(Len(c) - 1) : Tail(c)[j] = c[j + 1]
      BY <1>2, <3>1, TailIs
    <3> QED BY <1>1, <1>2, <3>2
  <2>3. DOMAIN Tail(c) = 1..n
    BY <2>2, LenProperties
  <2>4. ASSUME NEW j \in 1..n PROVE Tail(c)[j] \in Range(container) \cup {e}
    <3>1. CASE j = n
      BY <3>1, <1>1, <1>2, <2>2
    <3>2. CASE j # n
      <4>1. j + 1 \in 1..n
        BY <3>2, <1>1
      <4> QED BY <4>1, <1>1, <1>2, <2>2 DEF Range
    <3> QED BY <3>1, <3>2
  <2>5. Range(Tail(c)) \subseteq Range(container) \cup {e}
    BY <2>3, <2>4 DEF Range
  <2>6. /\ \A j \in 1..(n - 1) : Tail(c)[j] = container[j + 1]
        /\ n > 0 => Tail(c)[n] = e
    BY <1>1, <1>2, <2>2
  <2>7. ~(n < num_pools)
    BY <1>4, <1>6
  <2>8. n > 0 => Insert(k, p)[n] = e
    BY <2>1, <2>6
  <2>9. \A j \in 1..(n - 1) : Insert(k, p)[j] = container[j + 1]
    BY <2>1, <2>6
  <2> QED BY <2>1, <2>2, <2>5, <2>7, <2>8, <2>9
<1> QED BY <1>1, <1>4, <1>5, <1>6

Distinct(s) == \A i, j \in 1..Len(s) : s[i] = s[j] => i = j

LEMMA RecentlyIs ==
    ASSUME recent \in Seq(Keys), Distinct(recent), NEW k \in Keys
    PROVE  LET n == Len(recent)
               r == Recently(k)
           IN /\ r \in Seq(Keys) /\ Distinct(r)
              /\ \A m \in 1..n : recent[m] = k =>
                    /\ Len(r) = n /\ r[n] = k
                    /\ \A j \in 1..(n - 1) :
                          r[j] = IF j < m THEN recent[j] ELSE recent[j + 1]
              /\ (\A m \in 1..n : recent[m] # k) =>
                    /\ Len(r) = n + 1 /\ r[n + 1] = k
                    /\ \A j \in 1..n : r[j] = recent[j]
<1> DEFINE n == Len(recent)
           r == Recently(k)
<1>1. n \in Nat /\ DOMAIN recent = 1..n /\ Range(recent) = {recent[i] : i \in 1..n}
  BY LenProperties DEF Range
<1>2. CASE \A m \in 1..n : recent[m] # k
  <2>1. r = Append(recent, k)
    <3>1. k \notin Range(recent)
      BY <1>1, <1>2
    <3> QED BY <3>1 DEF Recently
  <2>2. /\ r \in Seq(Keys) /\ Len(r) = n + 1 /\ r[n + 1] = k
        /\ \A j \in 1..n : r[j] = recent[j]
    <3> HIDE DEF r
    <3> QED BY <2>1, AppendIs
  <2>3. Distinct(r)
    <3> HIDE DEF r
    <3>1. ASSUME NEW i \in 1..(n + 1), NEW j \in 1..(n + 1), r[i] = r[j] PROVE i = j
      <4>1. CASE i = n + 1 /\ j = n + 1
        BY <4>1
      <4>2. CASE i = n + 1 /\ j # n + 1
        BY <4>2, <3>1, <1>1, <1>2, <2>2
      <4>3. CASE i # n + 1 /\ j = n + 1
        BY <4>3, <3>1, <1>1, <1>2, <2>2
      <4>4. CASE i # n + 1 /\ j # n + 1
        <5>1. i \in 1..n /\ j \in 1..n
          BY <4>4, <1>1
        <5> QED BY <5>1, <3>1, <2>2 DEF Distinct
      <4> QED BY <4>1, <4>2, <4>3, <4>4
    <3> QED BY <3>1, <2>2 DEF Distinct
  <2> QED BY <1>2, <2>2, <2>3
<1>3. CASE \E m \in 1..n : recent[m] = k
  <2>1. PICK m \in 1..n : recent[m] = k
    BY <1>3
  <2>2. (CHOOSE i \in DOMAIN recent : recent[i] = k) = m
    <3>1. \A i \in DOMAIN recent : recent[i] = k => i = m
      BY <1>1, <2>1 DEF Distinct
    <3>2. m \in DOMAIN recent
      BY <1>1
    <3> QED BY <3>1, <3>2, <2>1
  <2> DEFINE older == RemoveAt(recent, m)
  <2>3. r = Append(older, k)
    <3>1. k \in Range(recent)
      BY <1>1, <2>1
    <3> QED BY <3>1, <2>2 DEF Recently
  <2>4. /\ older \in Seq(Keys) /\ Len(older) = n - 1
        /\ \A j \in 1..(n - 1) : older[j] = IF j < m THEN recent[j] ELSE recent[j + 1]
    BY RemoveAtIs
  <2> HIDE DEF older, r
  <2>5. /\ r \in Seq(Keys) /\ Len(r) = n /\ r[n] = k
        /\ \A j \in 1..(n - 1) : r[j] = older[j]
    <3>1. /\ Append(older, k) \in Seq(Keys) /\ Len(Append(older, k)) = Len(older) + 1
          /\ \A j \in 1..Len(older) : Append(older, k)[j] = older[j]
          /\ Append(older, k)[Len(older) + 1] = k
      BY <2>4, AppendIs
    <3> HIDE DEF n
    <3> QED BY <1>1, <2>3, <2>4, <3>1
  <2> HIDE DEF n
  <2>6. \A j \in 1..(n - 1) : r[j] = IF j < m THEN recent[j] ELSE recent[j + 1]
    BY <2>4, <2>5
  <2>7. \A j \in 1..(n - 1) : r[j] # k
    <3> SUFFICES ASSUME NEW j \in 1..(n - 1) PROVE r[j] # k
      OBVIOUS
    <3>1. j \in 1..n /\ j + 1 \in 1..n
      BY <1>1
    <3>2. \A i \in 1..n : recent[i] = k => i = m
      BY <2>1 DEF Distinct, n
    <3> QED BY <1>1, <2>6, <3>1, <3>2
  <2>8. ASSUME NEW i \in 1..n, NEW j \in 1..n, r[i] = r[j] PROVE i = j
    <3>1. CASE i = n \/ j = n
      BY <3>1, <2>5, <2>7, <2>8, <1>1
    <3>2. CASE i # n /\ j # n
      <4> DEFINE old(l) == IF l < m THEN l ELSE l + 1
      <4>1. i \in 1..(n - 1) /\ j \in 1..(n - 1)
        BY <3>2, <1>1
      <4>2. old(i) \in 1..n /\ old(j) \in 1..n
        BY <4>1, <1>1
      <4>3. recent[old(i)] = recent[old(j)]
        BY <4>1, <2>6, <2>8
      <4>4. old(i) = old(j)
        BY <4>2, <4>3 DEF Distinct, n
      <4> QED BY <4>1, <4>4, <1>1
    <3> QED BY <3>1, <3>2
  <2>9. Distinct(r)
    BY <2>5, <2>8 DEF Distinct
  <2>10. \A l \in 1..n : recent[l] = k => l = m
    BY <2>1 DEF Distinct, n
  <2> QED BY <2>1, <2>5, <2>6, <2>9, <2>10 DEF n, r
<1> QED BY <1>2, <1>3
(***************************************************************************)
(* The inductive invariant.                                                *)
(***************************************************************************)
\* A request keeps its context, and the pool it uses is one it refers to.
Carried ==
    \A t \in Threads :
       /\ pc[t] # "idle" => want[t] \in Contexts
       /\ pc[t] \in {"have", "using"} => mine[t] \in Pools /\ mine[t] \in frames[t]

\* What is referred to exists.
Alive ==
    /\ \A i \in DOMAIN container : made[container[i].pool] # NoPool
    /\ \A t \in Threads, p \in Pools : p \in frames[t] => made[p] # NoPool

\* The container's keys are the last ones of the history.
Ordered ==
    LET n == Len(container)
        d == Len(recent) - n
    IN /\ n = IF Len(recent) < num_pools THEN Len(recent) ELSE num_pools
       /\ \A i \in 1..n : container[i].key = recent[d + i]

\* A request's pool is like the one it asks for.
Suits(t) == Effective(made[mine[t]]) = Effective(NewPool(want[t]))

\* The container's pools are those of their keys.
Filed(e) == \E c \in Contexts : Key(c) = e.key /\ NewPool(c) = made[e.pool]

Suited == \A t \in Threads : pc[t] \in {"have", "using"} => Suits(t)
AllFiled == \A i \in DOMAIN container : Filed(container[i])

\* A pool's connections, used or idle, are at most maxsize.
PoolLimit == \A p \in Pools : idle[p] + Cardinality(Users(p)) <= MaxSize

IInv ==
    /\ TypeOK /\ Carried /\ Alive /\ Distinct(recent) /\ Ordered
    /\ Suited /\ AllFiled /\ PoolLimit

LEMMA RightPoolIs == RightPool <=> Suited /\ AllFiled
<1>1. AllFiled <=> \A e \in Range(container) : Filed(e)
  BY DEF AllFiled, Range
<1> QED BY <1>1 DEF RightPool, Suited, Suits, Filed

LEMMA UsersFinite ==
    ASSUME NEW p \in Pools
    PROVE  IsFiniteSet(Users(p)) /\ Cardinality(Users(p)) \in Nat
<1>1. Users(p) \in SUBSET Threads /\ IsFiniteSet(Threads)
  BY SizeAssumption DEF Users
<1> QED BY <1>1, FS_Subset, FS_CardinalityType

LEMMA InitInv == Init => IInv
<1> SUFFICES ASSUME Init PROVE IInv
  OBVIOUS
<1> USE DEF Init
<1>1. /\ <<>> \in Seq(Entries) /\ <<>> \in Seq(Keys)
      /\ Len(container) = 0 /\ Len(recent) = 0 /\ DOMAIN container = {}
  BY EmptySeq, LenProperties
<1>2. TypeOK
  BY <1>1, SizeAssumption DEF TypeOK, Entries
<1>3. Carried /\ Alive /\ Suited
  BY <1>1 DEF Carried, Alive, Suited
<1>4. Distinct(recent) /\ Ordered
  BY <1>1, SizeAssumption DEF Distinct, Ordered
<1>5. AllFiled
  BY <1>1 DEF AllFiled
<1>6. PoolLimit
  <2>1. ASSUME NEW p \in Pools PROVE idle[p] + Cardinality(Users(p)) <= MaxSize
    <3>1. Users(p) = {}
      BY DEF Users
    <3>2. Cardinality(Users(p)) = 0 /\ idle[p] = 0
      BY <3>1, FS_EmptySet
    <3> HIDE DEF Init
    <3> QED BY <3>2, SizeAssumption
  <2> QED BY <2>1 DEF PoolLimit
<1> QED BY <1>2, <1>3, <1>4, <1>5, <1>6 DEF IInv

(***************************************************************************)
(* The steps that leave the container, the history and the pools alone.    *)
(***************************************************************************)
LEMMA ContainerKept ==
    ASSUME IInv, UNCHANGED <<container, made, recent>>
    PROVE  /\ (container \in Seq([key : Keys, pool : Pools]))'
           /\ (Len(container) <= num_pools)' /\ (recent \in Seq(Keys))'
           /\ (made \in [Pools -> {NewPool(c) : c \in Contexts} \cup {NoPool}])'
           /\ Distinct(recent)' /\ Ordered' /\ AllFiled'
           /\ \A i \in DOMAIN container' : made'[container'[i].pool] # NoPool
BY DEF IInv, TypeOK, Distinct, Ordered, AllFiled, Filed, Alive

LEMMA RequestInv ==
    ASSUME IInv, NEW t \in Threads, Request(t)
    PROVE  IInv'
<1> USE DEF IInv
<1>0. UNCHANGED <<container, made, recent>>
  BY DEF Request
<1>1. TypeOK'
  BY <1>0, ContainerKept, SizeAssumption DEF TypeOK, Request
<1>2. Carried'
  BY DEF Carried, Request, TypeOK
<1>3. Alive'
  BY <1>0, ContainerKept DEF Alive, Request
<1>4. Suited'
  <2>1. ASSUME NEW u \in Threads, pc'[u] \in {"have", "using"} PROVE Suits(u)'
    <3>1. u # t
      BY <2>1 DEF Request, TypeOK
    <3> QED BY <2>1, <3>1 DEF Request, TypeOK, Suited, Suits
  <2> QED BY <2>1 DEF Suited
<1>5. PoolLimit'
  <2>1. ASSUME NEW p \in Pools PROVE Users(p)' = Users(p)
    BY DEF Users, Request, TypeOK
  <2> QED BY <2>1 DEF PoolLimit, Request
<1> QED BY <1>0, ContainerKept, <1>1, <1>2, <1>3, <1>4, <1>5

LEMMA CheckoutInv ==
    ASSUME IInv, NEW t \in Threads, Checkout(t)
    PROVE  IInv'
<1> USE DEF IInv
<1>q. PICK q \in Pools : mine[t] = q
  BY DEF Checkout, Carried
<1>0. UNCHANGED <<container, made, recent>>
  BY DEF Checkout
<1>1. q \in Pools /\ idle \in [Pools -> 0..MaxSize] /\ MaxSize \in Nat
  BY SizeAssumption DEF TypeOK
<1>2. /\ idle' \in [Pools -> 0..MaxSize]
      /\ \A p \in Pools : p # q => idle'[p] = idle[p]
      /\ idle'[q] = IF idle[q] > 0 THEN idle[q] - 1 ELSE 0
  <2>1. idle' = [idle EXCEPT ![q] = IF idle[q] > 0 THEN idle[q] - 1 ELSE 0]
    BY <1>q DEF Checkout
  <2> QED BY <1>1, <2>1
<1>3. TypeOK'
  BY <1>0, <1>2, ContainerKept DEF TypeOK, Checkout
<1>4. Carried'
  BY DEF Carried, Checkout, TypeOK
<1>5. Alive'
  BY <1>0, ContainerKept DEF Alive, Checkout
<1>6. Suited'
  BY DEF Suited, Suits, Checkout, TypeOK
<1>7. PoolLimit'
  <2>1. ASSUME NEW p \in Pools, p # q PROVE Users(p)' = Users(p)
    BY <1>q, <2>1 DEF Users, Checkout, TypeOK
  <2>2. Users(q)' = Users(q) \cup {t} /\ t \notin Users(q)
    BY <1>q DEF Users, Checkout, TypeOK
  <2>3. Cardinality(Users(q)') = Cardinality(Users(q)) + 1
    BY <1>1, <2>2, UsersFinite, FS_AddElement
  <2>4. Cardinality(Users(q)) < MaxSize /\ idle[q] + Cardinality(Users(q)) <= MaxSize
    BY <1>q, <1>1 DEF Checkout, PoolLimit
  <2>5. Cardinality(Users(q)) \in Nat
    BY <1>1, UsersFinite
  <2>6. idle'[q] + Cardinality(Users(q)') <= MaxSize
    <3> DEFINE n == Cardinality(Users(q))
               m == Cardinality(Users(q)')
    <3> HIDE DEF n, m
    <3>1. n \in Nat /\ m = n + 1 /\ n < MaxSize /\ idle[q] + n <= MaxSize
      BY <2>3, <2>4, <2>5 DEF n, m
    <3>2. idle'[q] + m <= MaxSize
      BY <1>1, <1>2, <3>1
    <3> QED BY <3>2 DEF m
  <2>7. ASSUME NEW p \in Pools PROVE (idle[p] + Cardinality(Users(p)) <= MaxSize)'
    <3>1. CASE p = q
      BY <3>1, <2>6
    <3>2. CASE p # q
      <4>1. idle'[p] = idle[p] /\ Cardinality(Users(p)') = Cardinality(Users(p))
        BY <3>2, <1>2, <2>1
      <4>2. idle[p] + Cardinality(Users(p)) <= MaxSize
        BY DEF PoolLimit
      <4> QED BY <4>1, <4>2
    <3> QED BY <3>1, <3>2
  <2> QED BY <2>7 DEF PoolLimit
<1> QED BY <1>0, ContainerKept, <1>3, <1>4, <1>5, <1>6, <1>7

LEMMA FinishInv ==
    ASSUME IInv, NEW t \in Threads, Finish(t)
    PROVE  IInv'
<1> USE DEF IInv
<1> DEFINE q == mine[t]
<1>0. UNCHANGED <<container, made, recent>>
  BY DEF Finish
<1>1. q \in Pools /\ idle \in [Pools -> 0..MaxSize] /\ MaxSize \in Nat
  BY SizeAssumption DEF Finish, Carried, TypeOK
<1>2. PICK kept \in {0, 1} : idle' = [idle EXCEPT ![q] = @ + kept]
  BY DEF Finish
<1>3. ASSUME NEW p \in Pools
      PROVE  /\ idle'[p] = IF p = q THEN idle[p] + kept ELSE idle[p]
             /\ Cardinality(Users(p)') =
                  IF p = q THEN Cardinality(Users(p)) - 1 ELSE Cardinality(Users(p))
             /\ Cardinality(Users(p)') \in Nat
  <2>1. p # q => Users(p)' = Users(p)
    BY DEF Users, Finish, TypeOK
  <2>2. p = q => Users(p)' = Users(p) \ {t} /\ t \in Users(p)
    BY DEF Users, Finish, TypeOK
  <2>3. /\ IsFiniteSet(Users(p)) /\ IsFiniteSet(Users(p) \ {t})
        /\ t \in Users(p) => Cardinality(Users(p) \ {t}) = Cardinality(Users(p)) - 1
    BY UsersFinite, FS_RemoveElement
  <2>4. idle'[p] = IF p = q THEN idle[p] + kept ELSE idle[p]
    <3> HIDE DEF q
    <3> QED BY <1>1, <1>2
  <2>5. Cardinality(Users(p)') \in Nat
    BY <2>1, <2>2, <2>3, FS_CardinalityType
  <2> HIDE DEF q
  <2> QED BY <2>1, <2>2, <2>3, <2>4, <2>5
<1>4. ASSUME NEW p \in Pools PROVE (idle[p] + Cardinality(Users(p)) <= MaxSize)'
  <2> DEFINE n == Cardinality(Users(p))
             m == Cardinality(Users(p)')
  <2>1. n \in Nat /\ idle[p] + n <= MaxSize /\ idle[p] \in Nat
    BY <1>1, UsersFinite DEF PoolLimit
  <2>2. m = IF p = q THEN n - 1 ELSE n
    BY <1>3
  <2> HIDE DEF n, m, q
  <2>3. idle'[p] + m <= MaxSize
    BY <1>1, <1>3, <2>1, <2>2
  <2> QED BY <2>3 DEF m
<1>5. idle' \in [Pools -> 0..MaxSize]
  <2>1. ASSUME NEW p \in Pools PROVE idle'[p] \in 0..MaxSize
    <3> DEFINE m == Cardinality(Users(p)')
    <3>1. m \in Nat /\ idle'[p] + m <= MaxSize
      BY <1>3, <1>4
    <3> HIDE DEF m, q
    <3> QED BY <1>1, <1>3, <3>1
  <2>2. idle' \in [Pools -> Int]
    <3> HIDE DEF q
    <3> QED BY <1>1, <1>2
  <2> QED BY <2>1, <2>2
<1>6. TypeOK'
  <2>1. /\ pc' \in [Threads -> {"idle", "lookup", "have", "using"}]
        /\ mine' \in [Threads -> Pools \cup {NoPool}]
        /\ frames' \in [Threads -> SUBSET Pools]
    BY DEF TypeOK, Finish
  <2>2. want' \in [Threads -> Contexts \cup {NoPool}]
    <3>1. PICK c \in Contexts \cup {NoPool} : want' = want \/ want' = [want EXCEPT ![t] = c]
      BY DEF Finish
    <3> QED BY <3>1 DEF TypeOK
  <2>3. requests' \in [Threads -> 0..MaxRequests]
    <3>1. \/ requests' = requests
          \/ requests[t] < MaxRequests /\ requests' = [requests EXCEPT ![t] = @ + 1]
      BY DEF Finish
    <3>2. requests \in [Threads -> 0..MaxRequests] /\ MaxRequests \in Nat
      BY SizeAssumption DEF TypeOK
    <3>3. requests[t] < MaxRequests => requests[t] + 1 \in 0..MaxRequests
      BY <3>2
    <3> QED BY <3>1, <3>2, <3>3
  <2> QED BY <1>0, <1>5, <2>1, <2>2, <2>3, ContainerKept DEF TypeOK
<1>7. Carried'
  BY DEF Carried, Finish, TypeOK
<1>8. Alive'
  <2>1. ASSUME NEW u \in Threads PROVE frames'[u] \subseteq frames[u]
    BY DEF Finish, TypeOK
  <2> QED BY <1>0, <2>1, ContainerKept DEF Alive
<1>9. Suited'
  <2>1. ASSUME NEW u \in Threads, pc'[u] \in {"have", "using"} PROVE Suits(u)'
    <3>1. /\ pc[u] \in {"have", "using"}
          /\ mine'[u] = mine[u] /\ want'[u] = want[u]
      BY <2>1 DEF Finish, TypeOK
    <3> QED BY <1>0, <3>1 DEF Suited, Suits
  <2> QED BY <2>1 DEF Suited
<1>10. PoolLimit'
  BY <1>4 DEF PoolLimit
<1> QED BY <1>0, ContainerKept, <1>6, <1>7, <1>8, <1>9, <1>10

LEMMA ClearInv ==
    ASSUME IInv, Clear
    PROVE  IInv'
<1> USE DEF IInv
<1>1. /\ <<>> \in Seq(Entries) /\ <<>> \in Seq(Keys)
      /\ Len(container') = 0 /\ Len(recent') = 0 /\ DOMAIN container' = {}
  BY EmptySeq, LenProperties DEF Clear
<1>2. TypeOK'
  BY <1>1, SizeAssumption DEF TypeOK, Clear, Entries
<1>3. Distinct(recent)' /\ Ordered'
  BY <1>1, SizeAssumption DEF Distinct, Ordered
<1>4. AllFiled' /\ Alive'
  BY <1>1 DEF AllFiled, Alive, Clear
<1>5. Carried' /\ Suited'
  BY DEF Carried, Suited, Suits, Clear
<1>6. PoolLimit'
  BY DEF PoolLimit, Users, Clear
<1> QED BY <1>2, <1>3, <1>4, <1>5, <1>6

LEMMA CollectInv ==
    ASSUME IInv, NEW p \in Pools, Collect(p)
    PROVE  IInv'
<1> USE DEF IInv
<1>1. ASSUME NEW i \in DOMAIN container PROVE container[i].pool # p /\ container[i].pool \in Pools
  <2>1. container \in Seq(Entries) /\ DOMAIN container = 1..Len(container)
    BY LenProperties DEF TypeOK, Entries
  <2>2. container[i] \in Entries
    BY <2>1, ElementOfSeq
  <2>3. container[i].pool \in Stored
    BY DEF Stored, Range
  <2> QED BY <2>2, <2>3 DEF Collect, Referenced, Entries
<1>2. ASSUME NEW t \in Threads PROVE p \notin frames[t]
  BY DEF Collect, Referenced
<1>3. TypeOK'
  BY SizeAssumption DEF TypeOK, Collect
<1>4. Carried'
  BY DEF Carried, Collect
<1>5. Alive'
  <2>1. ASSUME NEW q \in Pools, q # p PROVE made'[q] = made[q]
    BY <2>1 DEF Collect, TypeOK
  <2> QED BY <1>1, <1>2, <2>1 DEF Alive, Collect
<1>6. Distinct(recent)' /\ Ordered'
  BY DEF Distinct, Ordered, Collect
<1>7. Suited'
  <2>1. ASSUME NEW t \in Threads, pc'[t] \in {"have", "using"} PROVE Suits(t)'
    <3>1. /\ mine[t] \in Pools /\ mine[t] \in frames[t] /\ Suits(t)
          /\ mine'[t] = mine[t] /\ want'[t] = want[t]
      BY <2>1 DEF Carried, Suited, Collect
    <3>2. made'[mine[t]] = made[mine[t]]
      BY <1>2, <3>1 DEF Collect, TypeOK
    <3> QED BY <3>1, <3>2 DEF Suits
  <2> QED BY <2>1 DEF Suited
<1>8. AllFiled'
  <2>1. ASSUME NEW i \in DOMAIN container PROVE made'[container[i].pool] = made[container[i].pool]
    BY <1>1 DEF Collect, TypeOK
  <2> QED BY <2>1 DEF AllFiled, Filed, Collect
<1>9. PoolLimit'
  <2>1. ASSUME NEW q \in Pools PROVE (idle[q] + Cardinality(Users(q)) <= MaxSize)'
    <3> DEFINE n == Cardinality(Users(q))
    <3>1. n \in Nat /\ idle[q] + n <= MaxSize /\ idle[q] \in Nat /\ MaxSize \in Nat
      BY UsersFinite, SizeAssumption DEF PoolLimit, TypeOK
    <3>2. Cardinality(Users(q)') = n
      BY DEF Users, Collect
    <3>3. idle'[q] = IF p = q THEN 0 ELSE idle[q]
      BY DEF Collect, TypeOK
    <3> HIDE DEF n
    <3> QED BY <3>1, <3>2, <3>3
  <2> QED BY <2>1 DEF PoolLimit
<1> QED BY <1>3, <1>4, <1>5, <1>6, <1>7, <1>8, <1>9

(***************************************************************************)
(* A lookup: the container and the history after it.                       *)
(***************************************************************************)
LEMMA TouchOrdered ==
    ASSUME IInv, NEW i \in DOMAIN container, NEW k \in Keys, container[i].key = k,
           container' = Touch(i), recent' = Recently(k)
    PROVE  Ordered'
<1> USE DEF IInv
<1> DEFINE n == Len(container)
           l == Len(recent)
           d == l - n
<1>1. /\ container \in Seq(Entries) /\ recent \in Seq(Keys)
      /\ n \in Nat /\ l \in Nat /\ num_pools \in Nat /\ i \in 1..n
  BY LenProperties, SizeAssumption DEF TypeOK, Entries
<1>2. /\ n = IF l < num_pools THEN l ELSE num_pools
      /\ \A j \in 1..n : container[j].key = recent[d + j]
  BY DEF Ordered
<1>3. /\ Len(container') = n
      /\ \A j \in 1..(n - 1) : container'[j] = IF j < i THEN container[j] ELSE container[j + 1]
      /\ container'[n] = container[i]
  BY <1>1, TouchIs
<1> HIDE DEF n
<1>4. d \in Nat /\ d + i \in 1..l
  BY <1>1, <1>2
<1>5. recent[d + i] = k
  BY <1>1, <1>2
<1>6. /\ Len(recent') = l /\ recent'[l] = k
      /\ \A j \in 1..(l - 1) : recent'[j] = IF j < d + i THEN recent[j] ELSE recent[j + 1]
  BY <1>1, <1>4, <1>5, RecentlyIs
<1> HIDE DEF l
<1>7. ASSUME NEW j \in 1..n PROVE container'[j].key = recent'[d + j]
  <2>1. CASE j = n
    BY <2>1, <1>1, <1>3, <1>6
  <2>2. CASE j < i /\ j # n
    <3>1. d + j \in 1..(l - 1) /\ d + j < d + i /\ j \in 1..(n - 1)
      BY <2>2, <1>1, <1>4
    <3> QED BY <2>2, <3>1, <1>2, <1>3, <1>6
  <2>3. CASE ~(j < i) /\ j # n
    <3>1. /\ d + j \in 1..(l - 1) /\ ~(d + j < d + i) /\ j \in 1..(n - 1)
          /\ j + 1 \in 1..n /\ d + (j + 1) = (d + j) + 1
      BY <2>3, <1>1, <1>4
    <3>2. container'[j] = container[j + 1] /\ recent'[d + j] = recent[(d + j) + 1]
      BY <2>3, <3>1, <1>3, <1>6
    <3>3. container[j + 1].key = recent[d + (j + 1)]
      BY <3>1, <1>2
    <3> QED BY <3>1, <3>2, <3>3
  <2> QED BY <2>1, <2>2, <2>3
<1>8. /\ Len(container') = IF Len(recent') < num_pools THEN Len(recent') ELSE num_pools
      /\ \A j \in 1..Len(container') :
            container'[j].key = recent'[(Len(recent') - Len(container')) + j]
  BY <1>2, <1>3, <1>6, <1>7
<1> QED BY <1>8 DEF Ordered

LEMMA InsertOrdered ==
    ASSUME IInv, NEW k \in Keys, NEW p \in Pools,
           \A i \in DOMAIN container : container[i].key # k,
           container' = Insert(k, p), recent' = Recently(k)
    PROVE  Ordered'
<1> USE DEF IInv
<1> DEFINE n == Len(container)
           l == Len(recent)
           d == l - n
           e == [key |-> k, pool |-> p]
<1>1. /\ container \in Seq(Entries) /\ recent \in Seq(Keys) /\ n <= num_pools
      /\ n \in Nat /\ l \in Nat /\ num_pools \in Nat /\ DOMAIN container = 1..n
  BY LenProperties, SizeAssumption DEF TypeOK, Entries
<1>2. /\ n = IF l < num_pools THEN l ELSE num_pools
      /\ \A j \in 1..n : container[j].key = recent[d + j]
  BY DEF Ordered
<1>3. e.key = k
  OBVIOUS
<1>4. /\ n < num_pools =>
            /\ Len(container') = n + 1
            /\ \A j \in 1..n : container'[j] = container[j]
            /\ container'[n + 1] = e
      /\ n = num_pools =>
            /\ Len(container') = n
            /\ \A j \in 1..(n - 1) : container'[j] = container[j + 1]
            /\ n > 0 => container'[n] = e
  <2> HIDE DEF n, e
  <2>1. n = Len(container) /\ e = [key |-> k, pool |-> p]
    BY DEF n, e
  <2>2. /\ n < num_pools =>
              /\ Len(Insert(k, p)) = n + 1
              /\ \A j \in 1..n : Insert(k, p)[j] = container[j]
              /\ Insert(k, p)[n + 1] = e
        /\ n = num_pools =>
              /\ Len(Insert(k, p)) = n
              /\ \A j \in 1..(n - 1) : Insert(k, p)[j] = container[j + 1]
              /\ n > 0 => Insert(k, p)[n] = e
    <3>1. Len(container) <= num_pools /\ container \in Seq(Entries)
      BY <1>1 DEF n
    <3> QED BY <2>1, <3>1, InsertIs
  <2> QED BY <2>2, Zenon
<1>5. ASSUME NEW m \in 1..l, recent[m] = k
      PROVE  /\ Len(recent') = l /\ recent'[l] = k
             /\ \A j \in 1..(l - 1) : recent'[j] = IF j < m THEN recent[j] ELSE recent[j + 1]
  BY <1>1, <1>5, RecentlyIs
<1>6. ASSUME \A m \in 1..l : recent[m] # k
      PROVE  /\ Len(recent') = l + 1 /\ recent'[l + 1] = k
             /\ \A j \in 1..l : recent'[j] = recent[j]
  BY <1>1, <1>6, RecentlyIs
<1> HIDE DEF n, l, e
<1> DEFINE l1 == Len(recent')
           n1 == Len(container')
           Goal == /\ n1 = IF l1 < num_pools THEN l1 ELSE num_pools
                   /\ \A j \in 1..n1 : container'[j].key = recent'[(l1 - n1) + j]
<1> SUFFICES Goal
  BY DEF Ordered
<1>7. CASE \E m \in 1..l : recent[m] = k
  <2>1. PICK m \in 1..l : recent[m] = k
    BY <1>7
  <2>2. /\ l1 = l /\ recent'[l] = k
        /\ \A j \in 1..(l - 1) : recent'[j] = IF j < m THEN recent[j] ELSE recent[j + 1]
    BY <1>5, <2>1
  <2>3. m <= d
    <3>1. CASE m > d
      <4>1. m - d \in 1..n /\ d + (m - d) = m
        BY <3>1, <1>1
      <4>2. container[m - d].key = k
        BY <4>1, <1>2, <2>1
      <4> QED BY <4>1, <4>2, <1>1
    <3> QED BY <3>1, <1>1
  <2>4. n = num_pools /\ d \in Nat /\ m >= 1
    BY <1>1, <1>2, <2>1, <2>3
  <2>5. n1 = n
    BY <1>4, <2>4
  <2>6. ASSUME NEW j \in 1..n PROVE container'[j].key = recent'[d + j]
    <3>1. CASE j = n
      BY <3>1, <1>1, <1>3, <1>4, <2>2, <2>4
    <3>2. CASE j # n
      <4>1. /\ j \in 1..(n - 1) /\ j + 1 \in 1..n /\ d + j \in 1..(l - 1)
            /\ ~(d + j < m) /\ d + (j + 1) = (d + j) + 1
        BY <3>2, <1>1, <2>3, <2>4
      <4>2. container'[j] = container[j + 1] /\ recent'[d + j] = recent[(d + j) + 1]
        BY <4>1, <1>4, <2>2, <2>4
      <4>3. container[j + 1].key = recent[d + (j + 1)]
        BY <4>1, <1>2
      <4> QED BY <4>1, <4>2, <4>3
    <3> QED BY <3>1, <3>2
  <2> HIDE DEF l1, n1
  <2> QED BY <1>2, <2>2, <2>5, <2>6
<1>8. CASE \A m \in 1..l : recent[m] # k
  <2>1. l1 = l + 1 /\ recent'[l + 1] = k /\ \A j \in 1..l : recent'[j] = recent[j]
    BY <1>6, <1>8
  <2>2. CASE n < num_pools
    <3>1. n1 = n + 1 /\ l = n /\ d = 0
      BY <2>2, <1>1, <1>2, <1>4
    <3>2. ASSUME NEW j \in 1..(n + 1) PROVE container'[j].key = recent'[j]
      <4>1. CASE j = n + 1
        BY <4>1, <2>1, <2>2, <3>1, <1>3, <1>4
      <4>2. CASE j # n + 1
        <5>1. j \in 1..n /\ d + j = j
          BY <4>2, <3>1, <1>1
        <5> QED BY <5>1, <2>1, <2>2, <3>1, <1>2, <1>4
      <4> QED BY <4>1, <4>2
    <3> HIDE DEF l1, n1
    <3>3. (l1 - n1) = 0 /\ \A j \in 1..n1 : 0 + j = j
      BY <1>1, <2>1, <3>1
    <3> QED BY <1>1, <2>1, <2>2, <3>1, <3>2, <3>3
  <2>3. CASE n = num_pools
    <3>1. n1 = n /\ d \in Nat
      BY <2>3, <1>1, <1>2, <1>4
    <3>2. ASSUME NEW j \in 1..n PROVE container'[j].key = recent'[(d + 1) + j]
      <4>1. CASE j = n
        <5>1. n > 0 /\ (d + 1) + j = l + 1
          BY <4>1, <1>1
        <5> QED BY <4>1, <5>1, <1>3, <1>4, <2>1, <2>3
      <4>2. CASE j # n
        <5>1. /\ j \in 1..(n - 1) /\ j + 1 \in 1..n /\ (d + 1) + j \in 1..l
              /\ (d + 1) + j = d + (j + 1)
          BY <4>2, <3>1, <1>1
        <5>2. container'[j] = container[j + 1]
          BY <5>1, <1>4, <2>3
        <5>3. container[j + 1].key = recent[d + (j + 1)]
          BY <5>1, <1>2
        <5> QED BY <5>1, <5>2, <5>3, <2>1
      <4> QED BY <4>1, <4>2
    <3> HIDE DEF l1, n1
    <3>3. l1 - n1 = d + 1 /\ ~(l1 < num_pools)
      BY <1>1, <2>1, <2>3, <3>1
    <3> QED BY <2>3, <3>1, <3>2, <3>3
  <2> QED BY <1>1, <2>2, <2>3
<1> QED BY <1>7, <1>8

\* What both kinds of lookup do: t gets the pool p, which is like the one it
\* asks for, and other threads keep theirs.
LEMMA LookupRest ==
    ASSUME IInv, NEW t \in Threads, Lookup(t), NEW p \in Pools,
           mine' = [mine EXCEPT ![t] = p], frames' = [frames EXCEPT ![t] = @ \cup {p}],
           made' \in [Pools -> {NewPool(c) : c \in Contexts} \cup {NoPool}],
           \A q \in Pools : made[q] # NoPool => made'[q] = made[q],
           made'[p] # NoPool, Effective(made'[p]) = Effective(NewPool(want[t]))
    PROVE  /\ Carried' /\ Suited' /\ PoolLimit'
           /\ \A u \in Threads, q \in Pools : q \in frames'[u] => made'[q] # NoPool
           /\ pc' \in [Threads -> {"idle", "lookup", "have", "using"}]
           /\ mine' \in [Threads -> Pools \cup {NoPool}]
           /\ frames' \in [Threads -> SUBSET Pools]
<1> USE DEF IInv
<1>1. Carried'
  BY DEF Carried, Lookup, TypeOK
<1>2. Suited'
  <2>1. ASSUME NEW u \in Threads, pc'[u] \in {"have", "using"} PROVE Suits(u)'
    <3>1. CASE u = t
      BY <3>1 DEF Suits, Lookup, TypeOK
    <3>2. CASE u # t
      <4>1. pc[u] \in {"have", "using"} /\ mine'[u] = mine[u] /\ want'[u] = want[u]
        BY <2>1, <3>2 DEF Lookup, TypeOK
      <4>2. mine[u] \in Pools /\ mine[u] \in frames[u] /\ Suits(u)
        BY <4>1 DEF Carried, Suited
      <4>3. made'[mine[u]] = made[mine[u]]
        BY <4>2 DEF Alive
      <4> QED BY <4>1, <4>2, <4>3 DEF Suits
    <3> QED BY <3>1, <3>2
  <2> QED BY <2>1 DEF Suited
<1>3. PoolLimit'
  <2>1. ASSUME NEW q \in Pools PROVE Users(q)' = Users(q)
    BY DEF Users, Lookup, TypeOK
  <2> QED BY <2>1 DEF PoolLimit, Lookup
<1>4. ASSUME NEW u \in Threads, NEW q \in Pools, q \in frames'[u] PROVE made'[q] # NoPool
  <2>1. q \in frames[u] \/ q = p
    BY <1>4 DEF TypeOK
  <2> QED BY <2>1 DEF Alive
<1>5. /\ pc' \in [Threads -> {"idle", "lookup", "have", "using"}]
      /\ mine' \in [Threads -> Pools \cup {NoPool}]
      /\ frames' \in [Threads -> SUBSET Pools]
  BY DEF Lookup, TypeOK
<1> QED BY <1>1, <1>2, <1>3, <1>4, <1>5

LEMMA LookupInv ==
    ASSUME IInv, NEW t \in Threads, Lookup(t)
    PROVE  IInv'
<1> USE DEF IInv
<1> DEFINE k == Key(want[t])
<1>1. /\ want[t] \in Contexts /\ k \in Keys /\ recent' = Recently(k)
      /\ UNCHANGED <<idle, want, requests>>
  BY DEF Lookup, Carried, Keys
<1>2. /\ container \in Seq(Entries) /\ Len(container) <= num_pools
      /\ recent \in Seq(Keys) /\ Distinct(recent)
      /\ DOMAIN container = 1..Len(container) /\ Len(container) \in Nat
  BY LenProperties DEF TypeOK, Entries
<1>3. recent' \in Seq(Keys) /\ Distinct(recent)'
  <2>1. Recently(k) \in Seq(Keys) /\ Distinct(Recently(k))
    BY <1>1, <1>2, RecentlyIs
  <2>2. Distinct(recent)' <=> Distinct(Recently(k))
    BY <1>1 DEF Distinct
  <2> QED BY <1>1, <2>1, <2>2
<1>4. ASSUME NEW i \in DOMAIN container, container[i].key = k,
             mine' = [mine EXCEPT ![t] = container[i].pool],
             frames' = [frames EXCEPT ![t] = @ \cup {container[i].pool}],
             container' = Touch(i), UNCHANGED made
      PROVE  IInv'
  <2>1. /\ container' \in Seq(Entries) /\ Len(container') = Len(container)
        /\ Range(container') \subseteq Range(container)
    BY <1>2, <1>4, TouchIs
  <2>2. container[i] \in Entries
    BY <1>2, ElementOfSeq
  <2> DEFINE p == container[i].pool
  <2>3. p \in Pools /\ made[p] # NoPool
    BY <2>2 DEF Entries, Alive
  <2>4. PICK c \in Contexts : Key(c) = container[i].key /\ NewPool(c) = made[p]
    BY DEF AllFiled, Filed
  <2>5. Effective(made[p]) = Effective(NewPool(want[t]))
    BY <1>1, <1>4, <2>4, KeysAgree
  <2>6. ASSUME NEW j \in DOMAIN container' PROVE \E m \in DOMAIN container : container'[j] = container[m]
    BY <2>1 DEF Range
  <2>7. AllFiled' /\ \A j \in DOMAIN container' : made'[container'[j].pool] # NoPool
    BY <1>4, <2>6 DEF AllFiled, Filed, Alive
  <2>8. Ordered'
    BY <1>1, <1>4, TouchOrdered
  <2>9. made \in [Pools -> {NewPool(c1) : c1 \in Contexts} \cup {NoPool}]
    BY DEF TypeOK
  <2> HIDE DEF p
  <2>10. /\ Carried' /\ Suited' /\ PoolLimit'
         /\ \A u \in Threads, q \in Pools : q \in frames'[u] => made'[q] # NoPool
         /\ pc' \in [Threads -> {"idle", "lookup", "have", "using"}]
         /\ mine' \in [Threads -> Pools \cup {NoPool}]
         /\ frames' \in [Threads -> SUBSET Pools]
    <3>1. mine' = [mine EXCEPT ![t] = p] /\ frames' = [frames EXCEPT ![t] = @ \cup {p}]
      BY <1>4 DEF p
    <3> HIDE DEF IInv
    <3> QED BY <1>4, <2>3, <2>5, <2>9, <3>1, LookupRest
  <2>11. TypeOK'
    BY <1>1, <1>2, <1>3, <1>4, <2>1, <2>9, <2>10, SizeAssumption DEF TypeOK, Entries
  <2>12. Alive'
    BY <2>7, <2>10 DEF Alive
  <2> QED BY <1>3, <2>7, <2>8, <2>10, <2>11, <2>12
<1>5. ASSUME \A e \in Range(container) : e.key # k,
             NEW p \in Pools, made[p] = NoPool,
             mine' = [mine EXCEPT ![t] = p],
             frames' = [frames EXCEPT ![t] = @ \cup {p}],
             made' = [made EXCEPT ![p] = NewPool(want[t])],
             container' = Insert(k, p)
      PROVE  IInv'
  <2> DEFINE e == [key |-> k, pool |-> p]
             n == Len(container)
  <2>1. /\ container' \in Seq(Entries) /\ Len(container') <= num_pools
        /\ Range(container') \subseteq Range(container) \cup {e}
    <3> HIDE DEF e, n
    <3>1. n = Len(container) /\ e = [key |-> k, pool |-> p]
      BY DEF n, e
    <3>2. n \in Nat /\ num_pools \in Nat /\ n <= num_pools
      BY <1>2, <3>1, SizeAssumption
    <3>3. /\ Insert(k, p) \in Seq(Entries)
          /\ Range(Insert(k, p)) \subseteq Range(container) \cup {e}
          /\ n < num_pools => Len(Insert(k, p)) = n + 1
          /\ n = num_pools => Len(Insert(k, p)) = n
      BY <1>1, <1>2, <3>1, InsertIs
    <3>4. Len(Insert(k, p)) <= num_pools
      BY <3>2, <3>3
    <3> QED BY <1>5, <3>3, <3>4
  <2>2. \A i \in DOMAIN container : container[i].key # k
    BY <1>5 DEF Range
  <2>3. /\ made \in [Pools -> {NewPool(c) : c \in Contexts} \cup {NoPool}]
        /\ NewPool(want[t]) \in {NewPool(c) : c \in Contexts}
        /\ NewPool(want[t]) # NoPool
    BY <1>1, NoPoolAssumption DEF TypeOK
  <2>4. /\ made' \in [Pools -> {NewPool(c) : c \in Contexts} \cup {NoPool}]
        /\ made'[p] = NewPool(want[t])
        /\ \A q \in Pools : q # p => made'[q] = made[q]
    BY <1>5, <2>3
  <2>5. /\ \A q \in Pools : made[q] # NoPool => made'[q] = made[q]
        /\ made'[p] # NoPool /\ Effective(made'[p]) = Effective(NewPool(want[t]))
    BY <1>5, <2>3, <2>4
  <2>6. /\ Carried' /\ Suited' /\ PoolLimit'
        /\ \A u \in Threads, q \in Pools : q \in frames'[u] => made'[q] # NoPool
        /\ pc' \in [Threads -> {"idle", "lookup", "have", "using"}]
        /\ mine' \in [Threads -> Pools \cup {NoPool}]
        /\ frames' \in [Threads -> SUBSET Pools]
    <3> HIDE DEF IInv
    <3> QED BY <1>5, <2>4, <2>5, LookupRest
  <2>7. ASSUME NEW j \in DOMAIN container'
        PROVE  /\ \E c \in Contexts : /\ Key(c) = container'[j].key
                                     /\ NewPool(c) = made'[container'[j].pool]
               /\ made'[container'[j].pool] # NoPool
    <3>1. container'[j] \in Range(container')
      BY DEF Range
    <3> HIDE DEF e
    <3>2. CASE container'[j] = e
      <4>1. container'[j].key = k /\ container'[j].pool = p
        BY <3>2 DEF e
      <4> QED BY <4>1, <1>1, <2>4, <2>5
    <3>3. CASE container'[j] \in Range(container)
      <4>1. PICK m \in DOMAIN container : container'[j] = container[m]
        BY <3>3 DEF Range
      <4>2. /\ container[m] \in Entries /\ made[container[m].pool] # NoPool
            /\ Filed(container[m])
        BY <1>2, ElementOfSeq DEF Alive, AllFiled
      <4>3. container[m].pool \in Pools
        BY <4>2 DEF Entries
      <4>4. made'[container[m].pool] = made[container[m].pool]
        BY <2>5, <4>2, <4>3
      <4> QED BY <4>1, <4>2, <4>4 DEF Filed
    <3> QED BY <2>1, <3>1, <3>2, <3>3
  <2>8. AllFiled'
    BY <2>7 DEF AllFiled, Filed
  <2>9. Alive'
    BY <2>6, <2>7 DEF Alive
  <2>10. Ordered'
    <3> HIDE DEF IInv, k
    <3> QED BY <1>1, <1>5, <2>2, InsertOrdered
  <2>11. TypeOK'
    BY <1>1, <1>3, <2>1, <2>4, <2>6, SizeAssumption DEF TypeOK, Entries
  <2> QED BY <1>3, <2>6, <2>8, <2>9, <2>10, <2>11
<1> QED BY <1>4, <1>5 DEF Lookup

LEMMA NextInv == IInv /\ [Next]_vars => IInv'
<1> SUFFICES ASSUME IInv, [Next]_vars PROVE IInv'
  OBVIOUS
<1>1. CASE UNCHANGED vars
  BY <1>1 DEF vars, IInv, TypeOK, Carried, Alive, Distinct, Ordered, Suited, Suits,
              AllFiled, Filed, PoolLimit, Users
<1>2. CASE Next
  BY <1>2, RequestInv, LookupInv, CheckoutInv, FinishInv, ClearInv, CollectInv DEF Next
<1> QED BY <1>1, <1>2

LEMMA Invariance == Spec => []IInv
BY InitInv, NextInv, PTL DEF Spec

\* Every variable keeps its type, and the container holds at most num_pools
\* pools, whatever threads, contexts, options and pools there are.
THEOREM TypeCorrect == Spec => []TypeOK
<1>1. IInv => TypeOK
  BY DEF IInv
<1> QED BY <1>1, Invariance, PTL

\* A request goes through a pool like the one it asks for.
THEOREM PoolsAreRight == Spec => []RightPool
<1>1. IInv => RightPool
  BY RightPoolIs DEF IInv
<1> QED BY <1>1, Invariance, PTL

\* The container holds the keys used last, in order.
THEOREM UsedLastAreKept == Spec => []LeastRecentlyUsed
<1>1. IInv => LeastRecentlyUsed
  <2> SUFFICES ASSUME IInv PROVE LeastRecentlyUsed
    OBVIOUS
  <2> USE DEF IInv
  <2> DEFINE l == Len(recent)
             n == IF l < num_pools THEN l ELSE num_pools
             keys == [i \in DOMAIN container |-> container[i].key]
             sub == SubSeq(recent, l - n + 1, l)
  <2>1. /\ container \in Seq(Entries) /\ recent \in Seq(Keys)
        /\ l \in Nat /\ num_pools \in Nat /\ n \in 0..l
        /\ Len(container) = n /\ DOMAIN container = 1..n
    BY LenProperties, SizeAssumption DEF TypeOK, Entries, Ordered
  <2>2. \A i \in 1..n : container[i].key = recent[(l - n) + i]
    BY <2>1 DEF Ordered
  <2>3. \A i \in (l - n + 1)..l : recent[i] \in Keys
    BY <2>1, ElementOfSeq
  <2>4. /\ sub \in Seq(Keys) /\ Len(sub) = n
        /\ \A i \in 1..n : sub[i] = recent[(l - n) + i]
    <3> HIDE DEF l, n, sub
    <3>1. l - n + 1 \in Int /\ l \in Int
      BY <2>1
    <3>2. /\ sub \in Seq(Keys)
          /\ Len(sub) = IF l - n + 1 <= l THEN l - (l - n + 1) + 1 ELSE 0
          /\ \A i \in 1..(l - (l - n + 1) + 1) : sub[i] = recent[(l - n + 1) + i - 1]
      BY <2>3, <3>1, SubSeqProperties DEF sub
    <3> QED BY <2>1, <3>2
  <2>5. keys = sub
    <3> HIDE DEF l, n, sub
    <3>1. DOMAIN sub = 1..n /\ sub = [i \in 1..n |-> sub[i]]
      BY <2>1, <2>4, LenProperties
    <3>2. \A i \in 1..n : container[i].key = sub[i]
      BY <2>2, <2>4
    <3> QED BY <2>1, <3>1, <3>2
  <2> QED BY <2>5 DEF LeastRecentlyUsed
<1> QED BY <1>1, Invariance, PTL
==============================================================================
