-------------------------- MODULE ResponseBodyProofs --------------------------
(***************************************************************************)
(* Proofs about ResponseBody, for any responses and any calls: the types,   *)
(* when a connection is given back, and that what a reader gets is the body *)
(* in order and, when it is told of the end, whole.  First what holds of    *)
(* sequences, BytesQueueBuffer, zlib and the decoders, then one lemma per   *)
(* action for the invariants Types, InPlace, Released and Sound.            *)
(***************************************************************************)
EXTENDS ResponseBody, WellFoundedInduction, SequenceTheorems, TLAPS

(***************************************************************************)
(* Induction, with a set of numbers in place of a predicate.                *)
(***************************************************************************)
LEMMA SetInduction ==
    ASSUME NEW P, 0 \in P, \A n \in Nat : n \in P => n + 1 \in P
    PROVE  \A n \in Nat : n \in P
<1> SUFFICES ASSUME NEW n \in Nat, n \notin P PROVE FALSE
  OBVIOUS
<1> DEFINE T == {m \in Nat : m \notin P}
           R == OpToRel(<, Nat)
<1>1. T \subseteq Nat /\ T # {}
  OBVIOUS
<1>2. PICK m \in T : \A k \in T : <<k, m>> \notin R
  <2> HIDE DEF T, R
  <2>1. IsWellFoundedOn(R, Nat)
    BY NatLessThanWellFounded DEF R
  <2> QED BY <1>1, <2>1, WFMin
<1>3. m # 0 /\ m - 1 \in Nat
  OBVIOUS
<1>4. <<m - 1, m>> \in R
  BY <1>3 DEF OpToRel
<1>5. m - 1 \in P
  BY <1>2, <1>3, <1>4
<1>6. m \in P
  BY <1>3, <1>5
<1> QED BY <1>6

(***************************************************************************)
(* Parts of sequences                                                       *)
(***************************************************************************)
LEMMA TakeIs ==
    ASSUME NEW S, NEW s \in Seq(S), NEW n \in 0..Len(s)
    PROVE  /\ Take(s, n) \in Seq(S) /\ Len(Take(s, n)) = n
           /\ \A i \in 1..n : Take(s, n)[i] = s[i]
BY SubSeqProperties, LenProperties, SMT DEF Take

LEMMA DropIs ==
    ASSUME NEW S, NEW s \in Seq(S), NEW n \in 0..Len(s)
    PROVE  /\ Drop(s, n) \in Seq(S) /\ Len(Drop(s, n)) = Len(s) - n
           /\ \A i \in 1..Len(s) - n : Drop(s, n)[i] = s[n + i]
BY SubSeqProperties, LenProperties, SMT DEF Drop

LEMMA TakeDrop ==
    ASSUME NEW S, NEW s \in Seq(S), NEW n \in 0..Len(s)
    PROVE  Take(s, n) \o Drop(s, n) = s
<1> DEFINE t == Take(s, n)
           d == Drop(s, n)
           c == t \o d
<1>1. /\ t \in Seq(S) /\ Len(t) = n /\ \A i \in 1..n : t[i] = s[i]
      /\ d \in Seq(S) /\ Len(d) = Len(s) - n
      /\ \A i \in 1..Len(s) - n : d[i] = s[n + i]
      /\ Len(s) \in Nat
  BY TakeIs, DropIs, LenProperties, Zenon
<1> HIDE DEF t, d
<1>2. /\ c \in Seq(S) /\ Len(c) = Len(t) + Len(d)
      /\ \A i \in 1..Len(t) + Len(d) :
           c[i] = IF i <= Len(t) THEN t[i] ELSE d[i - Len(t)]
  BY <1>1, ConcatProperties
<1> HIDE DEF c
<1>3. Len(c) = Len(s)
  BY <1>1, <1>2
<1>4. ASSUME NEW i \in 1..Len(c) PROVE c[i] = s[i]
  <2>1. CASE i <= n
    BY <1>1, <1>2, <2>1
  <2>2. CASE i > n
    <3>1. i - n \in 1..Len(s) - n /\ n + (i - n) = i
      BY <1>1, <1>3, <2>2
    <3> QED BY <1>1, <1>2, <1>3, <2>2, <3>1
  <2> QED BY <2>1, <2>2
<1>5. c = s
  BY <1>2, <1>3, <1>4, SeqEqual
<1> QED BY <1>5 DEF c, t, d

(***************************************************************************)
(* FlattenSeq                                                               *)
(***************************************************************************)
(* The function that FlattenSeq is made of, up to n.                        *)
Flattens(seqs, n, f) ==
    f = [i \in 1..n |-> IF i = 1 THEN seqs[i] ELSE f[i - 1] \o seqs[i]]

LEMMA FlattensExists ==
    ASSUME NEW seqs, NEW n \in Nat PROVE \E f : Flattens(seqs, n, f)
<1> DEFINE P == {m \in Nat : \E f : Flattens(seqs, m, f)}
<1>1. 0 \in P
  <2> DEFINE f == [i \in 1..0 |-> {}]
  <2>1. Flattens(seqs, 0, f)
    BY DEF Flattens
  <2> HIDE DEF f
  <2> QED BY <2>1
<1>2. ASSUME NEW m \in Nat, m \in P PROVE m + 1 \in P
  <2>1. PICK f : Flattens(seqs, m, f)
    BY <1>2
  <2> DEFINE next1 == IF m = 0 THEN seqs[1] ELSE f[m] \o seqs[m + 1]
             g == [i \in 1..m + 1 |-> IF i = m + 1 THEN next1 ELSE f[i]]
  <2>2. ASSUME NEW i \in 1..m + 1
        PROVE g[i] = IF i = 1 THEN seqs[i] ELSE g[i - 1] \o seqs[i]
    <3>1. CASE i = m + 1
      BY <3>1
    <3>2. CASE i # m + 1
      <4>1. i \in 1..m /\ (i # 1 => i - 1 \in 1..m /\ i - 1 \in 1..m + 1 /\ i - 1 # m + 1)
        BY <3>2
      <4>2. f[i] = IF i = 1 THEN seqs[i] ELSE f[i - 1] \o seqs[i]
        BY <2>1, <4>1 DEF Flattens
      <4> QED BY <3>2, <4>1, <4>2
    <3> QED BY <3>1, <3>2
  <2>3. Flattens(seqs, m + 1, g)
    <3>1. g = [i \in 1..m + 1 |-> g[i]]
      OBVIOUS
    <3> HIDE DEF g
    <3> QED BY <2>2, <3>1 DEF Flattens
  <2> HIDE DEF g
  <2> QED BY <2>3
<1> HIDE DEF P
<1>3. n \in P
  BY <1>1, <1>2, SetInduction
<1> QED BY <1>3 DEF P

LEMMA FlattenIs ==
    ASSUME NEW seqs, Len(seqs) \in Nat \ {0}
    PROVE  \E f : Flattens(seqs, Len(seqs), f) /\ FlattenSeq(seqs) = f[Len(seqs)]
<1> DEFINE f == CHOOSE g : Flattens(seqs, Len(seqs), g)
<1>1. Flattens(seqs, Len(seqs), f)
  BY FlattensExists
<1>2. FlattenSeq(seqs) = f[Len(seqs)]
  BY Zenon DEF FlattenSeq, Flattens
<1> HIDE DEF f
<1> QED BY <1>1, <1>2

LEMMA FlattensAt ==
    ASSUME NEW s, NEW n \in Nat, NEW f, Flattens(s, n, f), NEW i \in 1..n
    PROVE  f[i] = IF i = 1 THEN s[i] ELSE f[i - 1] \o s[i]
<1> DEFINE e(j) == IF j = 1 THEN s[j] ELSE f[j - 1] \o s[j]
           F == [j \in 1..n |-> e(j)]
<1>1. f = F
  BY DEF Flattens
<1> HIDE DEF e
<1>2. F[i] = e(i)
  OBVIOUS
<1> HIDE DEF F
<1>3. f[i] = e(i)
  BY <1>1, <1>2
<1> QED BY ONLY <1>3 DEF e

(* Sequences that agree are flattened alike.                                *)
LEMMA FlattensAgree ==
    ASSUME NEW s, NEW t, NEW n \in Nat, NEW m \in Nat, NEW f, NEW g,
           Flattens(s, n, f), Flattens(t, m, g),
           n <= m, \A i \in 1..n : s[i] = t[i]
    PROVE  \A i \in 1..n : f[i] = g[i]
<1> DEFINE P == {i \in Nat : i \in 1..n => f[i] = g[i]}
<1>1. 0 \in P
  OBVIOUS
<1>2. ASSUME NEW i \in Nat, i \in P PROVE i + 1 \in P
  <2> SUFFICES ASSUME i + 1 \in 1..n PROVE f[i + 1] = g[i + 1]
    OBVIOUS
  <2>1. /\ f[i + 1] = IF i + 1 = 1 THEN s[i + 1] ELSE f[i + 1 - 1] \o s[i + 1]
        /\ g[i + 1] = IF i + 1 = 1 THEN t[i + 1] ELSE g[i + 1 - 1] \o t[i + 1]
    BY FlattensAt
  <2>2. i + 1 - 1 = i /\ (i + 1 # 1 => f[i] = g[i])
    BY <1>2
  <2> QED BY <2>1, <2>2
<1> HIDE DEF P
<1>3. \A i \in Nat : i \in P
  BY <1>1, <1>2, SetInduction
<1> QED BY <1>3 DEF P

LEMMA FlattenPart ==
    ASSUME NEW s, NEW t, NEW m \in Nat, NEW f, Flattens(s, m, f),
           Len(t) \in Nat \ {0}, Len(t) <= m, \A i \in 1..Len(t) : t[i] = s[i]
    PROVE  FlattenSeq(t) = f[Len(t)]
<1>1. PICK n \in Nat : n = Len(t) /\ n # 0
  OBVIOUS
<1>2. PICK g : Flattens(t, n, g) /\ FlattenSeq(t) = g[n]
  BY <1>1, FlattenIs
<1>3. /\ Flattens(s, m, f) /\ Flattens(t, n, g)
      /\ n <= m /\ \A i \in 1..n : t[i] = s[i]
  BY <1>1, <1>2
<1>4. \A i \in 1..n : g[i] = f[i]
  BY ONLY <1>3, FlattensAgree
<1> QED BY <1>1, <1>2, <1>4

(* Every part of a sequence of sequences, flattened, is a value of one function. *)
LEMMA FlattenParts ==
    ASSUME NEW S, NEW s \in Seq(Seq(S)), NEW f, Flattens(s, Len(s), f)
    PROVE  /\ \A n \in 1..Len(s) : /\ FlattenSeq(Take(s, n)) = f[n]
                                   /\ f[n] \in Seq(S)
           /\ s # <<>> => FlattenSeq(s) = f[Len(s)]
<1>0. Len(s) \in Nat /\ Flattens(s, Len(s), f)
  BY LenProperties
<1>1. ASSUME NEW n \in 1..Len(s) PROVE FlattenSeq(Take(s, n)) = f[n]
  <2>1. PICK t : t = Take(s, n)
    OBVIOUS
  <2>2. Len(t) = n /\ n \in Nat /\ n # 0 /\ n <= Len(s) /\ n \in 0..Len(s)
    BY <1>0, <2>1, TakeIs
  <2>3. \A i \in 1..n : t[i] = s[i]
    BY <1>0, <2>1, <2>2, TakeIs
  <2>4. FlattenSeq(t) = f[n]
    <3>1. Len(t) \in Nat \ {0} /\ Len(t) <= Len(s) /\ \A i \in 1..Len(t) : t[i] = s[i]
      BY <2>2, <2>3
    <3>2. FlattenSeq(t) = f[Len(t)]
      BY ONLY <1>0, <3>1, FlattenPart, Zenon
    <3> QED BY <2>2, <3>2
  <2> QED BY <2>1, <2>4
<1>2. ASSUME s # <<>> PROVE FlattenSeq(s) = f[Len(s)]
  <2>1. Len(s) \in Nat \ {0} /\ Len(s) <= Len(s)
    BY <1>0, <1>2, EmptySeq
  <2> QED BY <1>0, <2>1, FlattenPart, Zenon
<1>3. \A n \in 1..Len(s) : f[n] \in Seq(S)
  <2> DEFINE P == {i \in Nat : i \in 1..Len(s) => f[i] \in Seq(S)}
  <2>1. 0 \in P
    OBVIOUS
  <2>2. ASSUME NEW i \in Nat, i \in P PROVE i + 1 \in P
    <3> SUFFICES ASSUME i + 1 \in 1..Len(s) PROVE f[i + 1] \in Seq(S)
      BY DEF P
    <3>1. f[i + 1] = IF i + 1 = 1 THEN s[i + 1] ELSE f[i + 1 - 1] \o s[i + 1]
      BY LenProperties, FlattensAt
    <3>2. s[i + 1] \in Seq(S)
      BY ElementOfSeq
    <3>3. CASE i = 0
      BY <3>1, <3>2, <3>3
    <3>4. CASE i # 0
      <4>1. f[i + 1 - 1] \in Seq(S)
        BY <2>2, <3>4, LenProperties
      <4>2. f[i + 1] = f[i + 1 - 1] \o s[i + 1]
        <5>1. i + 1 # 1
          BY <3>4
        <5> QED BY ONLY <3>1, <5>1, Zenon
      <4> QED BY <3>2, <4>1, <4>2, ConcatProperties
    <3> QED BY <3>3, <3>4
  <2> HIDE DEF P
  <2>3. \A i \in Nat : i \in P
    BY <2>1, <2>2, SetInduction
  <2> QED BY <2>3, LenProperties DEF P
<1> QED BY <1>1, <1>2, <1>3

LEMMA FlattenEmpty == FlattenSeq(<<>>) = <<>>
BY EmptySeq DEF FlattenSeq

LEMMA FlattenType ==
    ASSUME NEW S, NEW s \in Seq(Seq(S)) PROVE FlattenSeq(s) \in Seq(S)
<1>1. CASE s = <<>>
  BY <1>1, FlattenEmpty, EmptySeq
<1>2. CASE s # <<>>
  <2>1. Len(s) \in Nat \ {0}
    BY <1>2, EmptySeq
  <2>2. PICK f : Flattens(s, Len(s), f)
    BY <2>1, FlattensExists
  <2>3. FlattenSeq(s) = f[Len(s)] /\ \A n \in 1..Len(s) : f[n] \in Seq(S)
    BY <1>2, <2>2, FlattenParts
  <2> QED BY <2>1, <2>3
<1> QED BY <1>1, <1>2

(* What is flattened up to n, and the next one.                             *)
LEMMA FlattenStep ==
    ASSUME NEW S, NEW s \in Seq(Seq(S)), NEW n \in 0..Len(s) - 1
    PROVE  FlattenSeq(Take(s, n + 1)) = FlattenSeq(Take(s, n)) \o s[n + 1]
<1>1. Len(s) \in Nat /\ n \in Nat /\ n + 1 \in 1..Len(s) /\ s[n + 1] \in Seq(S)
  BY LenProperties, ElementOfSeq
<1>2. PICK f : Flattens(s, Len(s), f)
  BY <1>1, FlattensExists
<1>3. FlattenSeq(Take(s, n + 1)) = f[n + 1]
  BY <1>1, <1>2, FlattenParts
<1>4. f[n + 1] = IF n + 1 = 1 THEN s[n + 1] ELSE f[n + 1 - 1] \o s[n + 1]
  <2>1. PICK k, m : k \in Nat /\ k = Len(s) /\ m = n + 1
    BY <1>1
  <2>2. Flattens(s, k, f) /\ m \in 1..k
    BY <1>1, <1>2, <2>1
  <2>3. f[m] = IF m = 1 THEN s[m] ELSE f[m - 1] \o s[m]
    <3>1. k \in Nat
      BY <2>1
    <3> QED BY ONLY <2>2, <3>1, FlattensAt
  <2>4. n + 1 - 1 = m - 1
    BY ONLY <2>1
  <2> QED BY ONLY <2>1, <2>3, <2>4, Zenon
<1>5. CASE n = 0
  <2>1. Take(s, n) = <<>>
    BY <1>5, SubSeqEmpty DEF Take
  <2>2. FlattenSeq(Take(s, n)) = <<>>
    BY <2>1, FlattenEmpty
  <2>3. <<>> \o s[n + 1] = s[n + 1]
    BY <1>1, ConcatEmptySeq
  <2>4. FlattenSeq(Take(s, n + 1)) = s[n + 1]
    <3>1. n + 1 = 1
      BY <1>5
    <3> QED BY ONLY <1>3, <1>4, <3>1, Zenon
  <2> QED BY <2>2, <2>3, <2>4, Zenon
<1>6. CASE n # 0
  <2>1. n \in 1..Len(s) /\ n + 1 - 1 = n /\ n + 1 # 1
    BY <1>1, <1>6
  <2>2. FlattenSeq(Take(s, n)) = f[n]
    BY <1>2, <2>1, FlattenParts
  <2> QED BY ONLY <1>3, <1>4, <2>1, <2>2, Zenon
<1> QED BY <1>5, <1>6

(* A sequence appended is flattened at the end.                             *)
LEMMA FlattenAppend ==
    ASSUME NEW S, NEW s \in Seq(Seq(S)), NEW e \in Seq(S)
    PROVE  FlattenSeq(Append(s, e)) = FlattenSeq(s) \o e
<1> DEFINE t == Append(s, e)
<1>1. /\ t \in Seq(Seq(S)) /\ Len(t) = Len(s) + 1 /\ Len(s) \in Nat
      /\ t[Len(s) + 1] = e /\ Len(s) \in 0..Len(t) - 1
      /\ \A i \in 1..Len(s) : t[i] = s[i]
  BY AppendProperties, LenProperties
<1>2. Take(t, Len(s)) = s
  <2>1. /\ Take(t, Len(s)) \in Seq(Seq(S)) /\ Len(Take(t, Len(s))) = Len(s)
        /\ \A i \in 1..Len(s) : Take(t, Len(s))[i] = s[i]
    <3>1. Len(s) \in 0..Len(t)
      BY <1>1
    <3>2. /\ Take(t, Len(s)) \in Seq(Seq(S)) /\ Len(Take(t, Len(s))) = Len(s)
          /\ \A i \in 1..Len(s) : Take(t, Len(s))[i] = t[i]
      BY <1>1, <3>1, TakeIs
    <3> QED BY <1>1, <3>2
  <2> QED BY <2>1, SeqEqual
<1>3. Take(t, Len(s) + 1) = t
  BY <1>1, SubSeqFull DEF Take
<1> HIDE DEF t
<1>4. FlattenSeq(Take(t, Len(s) + 1)) = FlattenSeq(Take(t, Len(s))) \o t[Len(s) + 1]
  BY <1>1, FlattenStep
<1>5. FlattenSeq(t) = FlattenSeq(s) \o e
  BY ONLY <1>1, <1>2, <1>3, <1>4, Zenon
<1> QED BY <1>5 DEF t

(* Two sequences, one after the other.                                      *)
LEMMA FlattenConcat ==
    ASSUME NEW S, NEW s \in Seq(Seq(S)), NEW t \in Seq(Seq(S))
    PROVE  FlattenSeq(s \o t) = FlattenSeq(s) \o FlattenSeq(t)
<1> DEFINE P == {n \in Nat : n \in 0..Len(t) =>
                   FlattenSeq(s \o Take(t, n)) = FlattenSeq(s) \o FlattenSeq(Take(t, n))}
<1>1. 0 \in P
  <2>1. Take(t, 0) = <<>>
    BY SubSeqEmpty DEF Take
  <2>2. s \o <<>> = s /\ FlattenSeq(s) \o <<>> = FlattenSeq(s)
    BY FlattenType, ConcatEmptySeq
  <2>3. FlattenSeq(s \o Take(t, 0)) = FlattenSeq(s) \o FlattenSeq(Take(t, 0))
    BY <2>1, <2>2, FlattenEmpty, Zenon
  <2> QED BY <2>3
<1>2. ASSUME NEW n \in Nat, n \in P PROVE n + 1 \in P
  <2> SUFFICES ASSUME n + 1 \in 0..Len(t)
               PROVE  FlattenSeq(s \o Take(t, n + 1))
                        = FlattenSeq(s) \o FlattenSeq(Take(t, n + 1))
    OBVIOUS
  <2>1. /\ Len(t) \in Nat /\ n \in 0..Len(t) /\ n \in 0..Len(t) - 1
        /\ t[n + 1] \in Seq(S) /\ Take(t, n) \in Seq(Seq(S))
    <3>1. Len(t) \in Nat /\ n \in 0..Len(t) /\ n \in 0..Len(t) - 1 /\ n + 1 \in 1..Len(t)
      BY LenProperties
    <3>2. t[n + 1] \in Seq(S)
      BY <3>1, ElementOfSeq
    <3>3. Take(t, n) \in Seq(Seq(S))
      BY <3>1, TakeIs
    <3> QED BY <3>1, <3>2, <3>3
  <2> DEFINE u == Take(t, n)
             e == t[n + 1]
  <2>2. Take(t, n + 1) = Append(u, e)
    <3>1. Take(t, n + 1) = u \o <<e>>
      BY <2>1, SubSeqRecursiveSecond DEF Take
    <3>2. Append(u, e) = u \o <<e>>
      BY <2>1, AppendIsConcat
    <3> QED BY <3>1, <3>2, Zenon
  <2>3. u \in Seq(Seq(S)) /\ e \in Seq(S) /\ FlattenSeq(s \o u) = FlattenSeq(s) \o FlattenSeq(u)
    BY <1>2, <2>1
  <2> HIDE DEF u, e
  <2>4. s \o Append(u, e) = Append(s \o u, e) /\ s \o u \in Seq(Seq(S))
    <3>1. s \o u \in Seq(Seq(S))
      BY <2>3, ConcatProperties
    <3>2. Append(s \o u, e) = (s \o u) \o <<e>> /\ Append(u, e) = u \o <<e>>
      BY <2>3, <3>1, AppendIsConcat
    <3>3. PICK Q, c : Q = Seq(S) /\ c = <<e>>
      OBVIOUS
    <3>4. s \in Seq(Q) /\ u \in Seq(Q) /\ c \in Seq(Q)
      BY <2>3, <3>3
    <3>5. (s \o u) \o c = s \o (u \o c)
      BY ONLY <3>4, ConcatAssociative
    <3> QED BY ONLY <3>1, <3>2, <3>3, <3>5, Zenon
  <2>5. FlattenSeq(Append(s \o u, e)) = FlattenSeq(s \o u) \o e
    BY <2>3, <2>4, FlattenAppend
  <2>6. (FlattenSeq(s) \o FlattenSeq(u)) \o e = FlattenSeq(s) \o (FlattenSeq(u) \o e)
    <3>1. FlattenSeq(s) \in Seq(S) /\ FlattenSeq(u) \in Seq(S) /\ e \in Seq(S)
      BY <2>3, FlattenType
    <3> QED BY ONLY <3>1, ConcatAssociative
  <2>7. FlattenSeq(Append(u, e)) = FlattenSeq(u) \o e
    BY <2>3, FlattenAppend
  <2> QED BY ONLY <2>2, <2>3, <2>4, <2>5, <2>6, <2>7, Zenon
<1> HIDE DEF P
<1>3. Len(t) \in P
  BY <1>1, <1>2, SetInduction, LenProperties
<1>4. Take(t, Len(t)) = t
  BY SubSeqFull DEF Take
<1>5. Len(t) \in 0..Len(t)
  BY LenProperties
<1> QED BY <1>3, <1>4, <1>5 DEF P

(***************************************************************************)
(* BytesQueueBuffer                                                         *)
(***************************************************************************)
LEMMA LeastIs ==
    ASSUME NEW S, S \subseteq Nat, S # {}
    PROVE  Least(S) \in S /\ \A m \in S : Least(S) <= m
<1> DEFINE R == OpToRel(<, Nat)
<1>1. IsWellFoundedOn(R, Nat)
  BY NatLessThanWellFounded
<1>2. PICK n \in S : \A m \in S : <<m, n>> \notin R
  <2> HIDE DEF R
  <2> QED BY <1>1, WFMin
<1>3. ASSUME NEW m \in S PROVE n <= m
  <2>1. n \in Nat /\ m \in Nat /\ <<m, n>> \notin R
    BY <1>2
  <2>2. m < n => <<m, n>> \in R
    BY <2>1 DEF OpToRel
  <2>3. ~(m < n)
    BY <2>1, <2>2, Zenon
  <2>4. n \in Nat /\ m \in Nat
    BY <2>1
  <2> QED BY ONLY <2>3, <2>4
<1> QED BY <1>3 DEF Least

(* What the buffer holds, and that it knows how much.                       *)
Content(b) == FlattenSeq(b.chunks)
IsBuffer(b) ==
    b \in [chunks : Seq(Seq(Nat)), size : Nat] /\ b.size = Len(Content(b))

LEMMA ContentType == ASSUME NEW b, IsBuffer(b) PROVE Content(b) \in Seq(Nat)
BY FlattenType DEF IsBuffer, Content

LEMMA EmptyIs == IsBuffer(EmptyBuffer) /\ Content(EmptyBuffer) = <<>>
BY FlattenEmpty, EmptySeq DEF IsBuffer, Content, EmptyBuffer

LEMMA PutIs ==
    ASSUME NEW b, IsBuffer(b), NEW data \in Seq(Nat)
    PROVE  /\ IsBuffer(Put(b, data))
           /\ Content(Put(b, data)) = Content(b) \o data
           /\ Put(b, data).size = b.size + Len(data)
<1> DEFINE p == Put(b, data)
<1>1. b.chunks \in Seq(Seq(Nat)) /\ b.size \in Nat /\ b.size = Len(Content(b))
      /\ Content(b) \in Seq(Nat) /\ Len(data) \in Nat
  BY ContentType, LenProperties DEF IsBuffer
<1>2. p.chunks = Append(b.chunks, data) /\ p.size = b.size + Len(data)
      /\ p = [chunks |-> p.chunks, size |-> p.size]
  BY DEF Put
<1> HIDE DEF p
<1>3. p.chunks \in Seq(Seq(Nat))
  BY <1>1, <1>2, AppendProperties
<1>4. Content(p) = Content(b) \o data
  <2>1. FlattenSeq(Append(b.chunks, data)) = FlattenSeq(b.chunks) \o data
    BY <1>1, FlattenAppend
  <2> QED BY ONLY <1>2, <2>1, Zenon DEF Content
<1>5. Len(Content(b) \o data) = Len(Content(b)) + Len(data)
  BY <1>1, ConcatProperties
<1>6. p.size = Len(Content(p)) /\ p.size \in Nat
  BY ONLY <1>1, <1>2, <1>4, <1>5
<1>7. IsBuffer(p)
  BY ONLY <1>2, <1>3, <1>6 DEF IsBuffer
<1> QED BY <1>2, <1>4, <1>7 DEF p

(* get(n) returns the first n bytes, or all there are, and keeps the others. *)
LEMMA GetIs ==
    ASSUME NEW b, IsBuffer(b), NEW n \in Nat
    PROVE  LET g == Get(b, n)
           IN  /\ IsBuffer(g.b)
               /\ g.out \in Seq(Nat) /\ Len(g.out) = Smaller(n, b.size)
               /\ Content(b) = g.out \o Content(g.b)
               /\ g.ok = (n = 0 \/ b.chunks # <<>>)
<1> DEFINE c == b.chunks
           K == {i \in 0..Len(c) : i = Len(c) \/ Len(FlattenSeq(Take(c, i))) >= n}
           k == Least(K)
           u == FlattenSeq(Take(c, k))
           d == Drop(c, k)
           m == Smaller(n, Len(u))
           rest == Drop(u, n)
           left1 == (IF rest = <<>> THEN <<>> ELSE <<rest>>) \o d
           g == Get(b, n)
<1>1. c \in Seq(Seq(Nat)) /\ b.size \in Nat /\ b.size = Len(FlattenSeq(c))
      /\ Len(c) \in Nat /\ FlattenSeq(c) \in Seq(Nat)
  BY FlattenType, LenProperties DEF IsBuffer, Content
<1>2. /\ g.out = Take(u, m)
      /\ g.b = [chunks |-> left1, size |-> b.size - m]
      /\ g.ok = (n = 0 \/ b.chunks # <<>>)
  BY Zenon DEF Get
<1>3. k \in 0..Len(c) /\ (k = Len(c) \/ Len(u) >= n)
  <2>1. K \subseteq Nat /\ Len(c) \in K
    BY <1>1
  <2> HIDE DEF K
  <2>2. k \in K
    BY <2>1, LeastIs
  <2> QED BY <2>2 DEF K
<1>4. Take(c, k) \in Seq(Seq(Nat)) /\ d \in Seq(Seq(Nat)) /\ Take(c, k) \o d = c
  BY <1>1, <1>3, TakeIs, DropIs, TakeDrop
<1>5. u \in Seq(Nat) /\ Len(u) \in Nat /\ FlattenSeq(d) \in Seq(Nat) /\ Len(FlattenSeq(d)) \in Nat
  BY <1>4, FlattenType, LenProperties
<1>6. FlattenSeq(c) = u \o FlattenSeq(d)
  <2>1. PICK t, e : t = Take(c, k) /\ e = d
    OBVIOUS
  <2>2. FlattenSeq(t \o e) = FlattenSeq(t) \o FlattenSeq(e)
    BY <1>4, <2>1, FlattenConcat
  <2> QED BY ONLY <1>4, <2>1, <2>2, Zenon
<1> HIDE DEF k, K, d
<1>7. m \in Nat /\ m \in 0..Len(u) /\ m <= n /\ (n < Len(u) => m = n)
      /\ (n >= Len(u) => m = Len(u))
  BY <1>5 DEF Smaller
<1>8. b.size = Len(u) + Len(FlattenSeq(d))
  BY <1>1, <1>5, <1>6, ConcatProperties
<1>9. m = Smaller(n, b.size)
  <2>1. CASE Len(u) >= n
    BY <1>1, <1>5, <1>7, <1>8, <2>1 DEF Smaller
  <2>2. CASE Len(u) < n
    <3>1. k = Len(c)
      BY <1>3, <1>5, <2>2
    <3>2. Take(c, k) = c
      BY <1>1, <3>1, SubSeqFull DEF Take
    <3>3. Len(u) = b.size
      BY <1>1, <3>2
    <3> QED BY <3>3
  <2> QED BY <1>5, <2>1, <2>2
<1>10. g.out \in Seq(Nat) /\ Len(g.out) = m
  BY <1>2, <1>5, <1>7, TakeIs
<1>11. rest = Drop(u, m) /\ rest \in Seq(Nat) /\ Len(rest) = Len(u) - m
  <2>1. CASE n <= Len(u)
    <3>1. m = n /\ n \in 0..Len(u)
      BY <1>5, <1>7, <2>1
    <3>2. Drop(u, n) \in Seq(Nat) /\ Len(Drop(u, n)) = Len(u) - n
      BY <1>5, <3>1, DropIs
    <3> QED BY ONLY <3>1, <3>2, Zenon DEF rest
  <2>2. CASE n > Len(u)
    <3>1. m = Len(u) /\ Drop(u, n) = <<>> /\ Drop(u, m) = <<>>
      BY <1>5, <1>7, <2>2, SubSeqEmpty DEF Drop
    <3> QED BY <1>5, <3>1, EmptySeq
  <2> QED BY <1>5, <2>1, <2>2
<1>12. u = g.out \o rest
  BY <1>2, <1>5, <1>7, <1>11, TakeDrop
<1> HIDE DEF u, m, rest
<1>13. left1 \in Seq(Seq(Nat)) /\ FlattenSeq(left1) = rest \o FlattenSeq(d)
  <2>1. CASE rest = <<>>
    <3>1. left1 = <<>> \o d
      BY <2>1
    <3>2. <<>> \o d = d
      BY <1>4, ConcatEmptySeq
    <3>3. <<>> \o FlattenSeq(d) = FlattenSeq(d)
      BY <1>5, ConcatEmptySeq
    <3> QED BY ONLY <1>4, <2>1, <3>1, <3>2, <3>3, Zenon
  <2>2. CASE rest # <<>>
    <3>1. PICK r : r = <<rest>>
      OBVIOUS
    <3>2. left1 = r \o d
      BY <2>2, <3>1
    <3>3. r \in Seq(Seq(Nat))
      BY <1>11, <3>1
    <3>4. FlattenSeq(r) = rest
      <4>1. <<>> \in Seq(Seq(Nat))
        BY EmptySeq
      <4>2. r = Append(<<>>, rest)
        BY <3>1
      <4>3. FlattenSeq(Append(<<>>, rest)) = FlattenSeq(<<>>) \o rest
        BY <1>11, <4>1, FlattenAppend
      <4>4. <<>> \o rest = rest
        BY <1>11, ConcatEmptySeq
      <4> QED BY ONLY <4>2, <4>3, <4>4, FlattenEmpty, Zenon
    <3>5. FlattenSeq(r \o d) = FlattenSeq(r) \o FlattenSeq(d)
      BY <1>4, <3>3, FlattenConcat
    <3>6. r \o d \in Seq(Seq(Nat))
      BY <1>4, <3>3, ConcatProperties
    <3> QED BY ONLY <3>2, <3>4, <3>5, <3>6, Zenon
  <2> QED BY <2>1, <2>2
<1> HIDE DEF left1, g, c
<1>14. g.b \in [chunks : Seq(Seq(Nat)), size : Nat] /\ g.b.chunks = left1
       /\ g.b.size = b.size - m
  <2>1. b.size - m \in Nat
    BY <1>5, <1>7, <1>8
  <2> QED BY ONLY <1>2, <1>13, <2>1
<1>15. g.b.size = Len(FlattenSeq(left1))
  <2>1. Len(rest \o FlattenSeq(d)) = Len(rest) + Len(FlattenSeq(d))
    BY <1>5, <1>11, ConcatProperties
  <2> QED BY ONLY <1>5, <1>7, <1>8, <1>11, <1>13, <1>14, <2>1
<1>16. FlattenSeq(c) = g.out \o FlattenSeq(left1)
  <2>1. PICK x, y, z : x = g.out /\ y = rest /\ z = FlattenSeq(d)
    OBVIOUS
  <2>2. x \in Seq(Nat) /\ y \in Seq(Nat) /\ z \in Seq(Nat)
    BY ONLY <1>5, <1>10, <1>11, <2>1, Zenon
  <2>3. (x \o y) \o z = x \o (y \o z)
    BY ONLY <2>2, ConcatAssociative
  <2> QED BY ONLY <1>6, <1>12, <1>13, <2>1, <2>3, Zenon
<1>17. IsBuffer(g.b)
  BY ONLY <1>14, <1>15 DEF IsBuffer, Content
<1>18. Content(b) = g.out \o Content(g.b)
  BY ONLY <1>14, <1>16, Zenon DEF Content, c
<1>19. Len(g.out) = Smaller(n, b.size)
  BY ONLY <1>9, <1>10
<1> QED BY ONLY <1>2, <1>10, <1>17, <1>18, <1>19 DEF g

LEMMA GetAllIs ==
    ASSUME NEW b, IsBuffer(b)
    PROVE  LET g == GetAll(b)
           IN  /\ IsBuffer(g.b) /\ Content(g.b) = <<>> /\ g.b.size = 0
               /\ g.out \in Seq(Nat) /\ Len(g.out) = b.size /\ g.out = Content(b)
               /\ g.ok = TRUE
BY EmptyIs, ContentType DEF GetAll, IsBuffer, Content, EmptyBuffer

(***************************************************************************)
(* Units and their bytes                                                    *)
(***************************************************************************)
LEMMA OutsType ==
    ASSUME NEW units \in Seq(Unit)
    PROVE  /\ [i \in DOMAIN units |-> units[i].out] \in Seq(Seq(Nat))
           /\ Len([i \in DOMAIN units |-> units[i].out]) = Len(units)
<1>1. DOMAIN units = 1..Len(units) /\ Len(units) \in Nat
  BY LenProperties
<1>2. ASSUME NEW i \in 1..Len(units) PROVE units[i].out \in Seq(Nat)
  <2>1. units[i] \in Unit
    BY ElementOfSeq
  <2> QED BY ONLY <2>1 DEF Unit
<1> QED BY <1>1, <1>2

LEMMA BytesType == ASSUME NEW units \in Seq(Unit) PROVE Bytes(units) \in Seq(Nat)
BY OutsType, FlattenType DEF Bytes

LEMMA BytesEmpty == Bytes(<<>>) = <<>>
<1>1. [i \in DOMAIN <<>> |-> <<>>[i].out] = <<>>
  OBVIOUS
<1> QED BY <1>1, FlattenEmpty DEF Bytes

LEMMA BytesConcat ==
    ASSUME NEW s \in Seq(Unit), NEW t \in Seq(Unit)
    PROVE  Bytes(s \o t) = Bytes(s) \o Bytes(t)
<1> DEFINE Outs(u) == [i \in DOMAIN u |-> u[i].out]
<1>1. /\ s \o t \in Seq(Unit) /\ Len(s \o t) = Len(s) + Len(t)
      /\ DOMAIN s = 1..Len(s) /\ DOMAIN t = 1..Len(t) /\ DOMAIN (s \o t) = 1..Len(s) + Len(t)
      /\ Len(s) \in Nat /\ Len(t) \in Nat
      /\ \A i \in 1..Len(s) + Len(t) :
           (s \o t)[i] = IF i <= Len(s) THEN s[i] ELSE t[i - Len(s)]
  BY ConcatProperties, LenProperties
<1> DEFINE a == Outs(s)
           b == Outs(t)
           c == Outs(s \o t)
<1>2. /\ a \in Seq(Seq(Nat)) /\ b \in Seq(Seq(Nat)) /\ c \in Seq(Seq(Nat))
      /\ Len(a) = Len(s) /\ Len(b) = Len(t) /\ Len(c) = Len(s) + Len(t)
  BY <1>1, OutsType
<1>3. /\ \A i \in 1..Len(s) : a[i] = s[i].out
      /\ \A i \in 1..Len(t) : b[i] = t[i].out
      /\ \A i \in 1..Len(s) + Len(t) : c[i] = (s \o t)[i].out
  BY <1>1
<1> HIDE DEF a, b, c
<1>4. /\ a \o b \in Seq(Seq(Nat)) /\ Len(a \o b) = Len(c)
      /\ \A i \in 1..Len(s) + Len(t) :
           (a \o b)[i] = IF i <= Len(s) THEN a[i] ELSE b[i - Len(s)]
  BY <1>2, ConcatProperties
<1>5. ASSUME NEW i \in 1..Len(c) PROVE (a \o b)[i] = c[i]
  <2> DEFINE st == s \o t
             ab == a \o b
  <2>1. /\ i \in 1..Len(s) + Len(t) /\ Len(s) \in Nat /\ Len(t) \in Nat
        /\ st[i] = IF i <= Len(s) THEN s[i] ELSE t[i - Len(s)]
        /\ ab[i] = IF i <= Len(s) THEN a[i] ELSE b[i - Len(s)]
        /\ c[i] = st[i].out
    BY <1>1, <1>2, <1>3, <1>4
  <2> HIDE DEF st, ab
  <2>2. ASSUME i <= Len(s) PROVE ab[i] = c[i]
    <3>1. i \in 1..Len(s)
      BY ONLY <2>1, <2>2
    <3>2. a[i] = s[i].out
      BY ONLY <1>3, <3>1
    <3> QED BY ONLY <2>1, <2>2, <3>2, Zenon
  <2>3. ASSUME i > Len(s) PROVE ab[i] = c[i]
    <3>1. i - Len(s) \in 1..Len(t) /\ ~(i <= Len(s))
      BY ONLY <2>1, <2>3
    <3>2. b[i - Len(s)] = t[i - Len(s)].out
      BY ONLY <1>3, <3>1
    <3> QED BY ONLY <2>1, <3>1, <3>2, Zenon
  <2>4. i <= Len(s) \/ i > Len(s)
    BY ONLY <2>1
  <2>5. ab[i] = c[i]
    BY ONLY <2>2, <2>3, <2>4
  <2> QED BY <2>5 DEF ab
<1>6. c = a \o b
  BY <1>2, <1>4, <1>5, SeqEqual
<1>7. FlattenSeq(a \o b) = FlattenSeq(a) \o FlattenSeq(b)
  BY <1>2, FlattenConcat
<1> QED BY ONLY <1>6, <1>7, Zenon DEF Bytes, a, b, c

(***************************************************************************)
(* The decoders                                                             *)
(***************************************************************************)
LEMMA TheIs == ASSUME NEW S, S # {} PROVE The(S) \in S
BY DEF The

ZResult == [z : ZState, out : Seq(Nat), ok : BOOLEAN]
Amount == Nat \cup {None}

LEMMA LimitIs ==
    ASSUME NEW amt \in Amount, NEW n \in Nat
    PROVE  Limit(amt, n) \in 0..n /\ Limit(amt, n) = (IF amt = None \/ n <= amt THEN n ELSE amt)
BY NoneAssumption DEF Limit, Smaller, Amount

(* What Zlib makes of n units, when all is the output there is.             *)
ZlibOf(z, data, max, n, all, legal) ==
    LET room == Limit(max, Len(all))
        done == z.done \/ (n > 0 /\ data[n].end)
        eof  == done /\ room = Len(all)
    IN  [z   |-> [at     |-> IF n = 0 THEN z.at ELSE data[n].id,
                  done   |-> done,
                  pend   |-> Drop(all, room),
                  tail   |-> IF eof THEN <<>> ELSE Drop(data, n),
                  unused |-> IF eof THEN z.unused \o Drop(data, n) ELSE z.unused],
         out |-> Take(all, room),
         ok  |-> legal]

LEMMA ZlibIs ==
    ASSUME NEW z, z.at \in Nat, NEW data \in Seq(Unit), NEW max, ~Eof(z)
    PROVE  \E n \in 0..Len(data), legal \in BOOLEAN :
              Zlib(z, data, max)
                = ZlibOf(z, data, max, n, z.pend \o Bytes(Take(data, n)), legal)
<1> DEFINE upto(n) == z.pend \o Bytes(Take(data, n))
           before(n) == IF n = 1 THEN z.at ELSE data[n - 1].id
           legal(n) == IF before(n) = 0 THEN data[n].start
                       ELSE ~data[n].start /\ data[n].id = before(n) + 1
           stops(n) == \/ n = Len(data) \/ z.done
                       \/ max # None /\ Len(upto(n)) > max
                       \/ n > 0 /\ (data[n].end \/ ~legal(n))
           ok(n) == n = 0 \/ legal(n)
           result(n, all) == ZlibOf(z, data, max, n, all, ok(n))
           N == {n \in 0..Len(data) : stops(n) /\ \A m \in 0..n - 1 : ~stops(m)}
           M == {n \in 0..Len(data) : stops(n)}
           R == {result(n, upto(n)) : n \in N}
<1>1. Zlib(z, data, max) = The(R)
  BY Zenon DEF Zlib, ZlibOf
<1>2. \A n \in 0..Len(data) : ok(n) \in BOOLEAN
  <2> TAKE n \in 0..Len(data)
  <2>1. n = 0 \/ n \in 1..Len(data)
    BY LenProperties
  <2>2. ASSUME n \in 1..Len(data) PROVE data[n].start \in BOOLEAN
    <3>1. data[n] \in Unit
      BY <2>2, ElementOfSeq
    <3> QED BY ONLY <3>1 DEF Unit
  <2> QED BY <2>1, <2>2
<1>3. Len(data) \in M
  BY LenProperties
<1> HIDE DEF result, upto, stops, ok
<1>4. N # {}
  <2>1. M \subseteq Nat /\ M # {}
    BY <1>3, LenProperties
  <2> DEFINE k == Least(M)
  <2>2. k \in M /\ \A m \in M : k <= m
    BY <2>1, LeastIs
  <2> HIDE DEF k
  <2>3. k \in 0..Len(data) /\ stops(k) /\ \A m \in 0..k - 1 : ~stops(m)
    BY <2>2, LenProperties
  <2> QED BY <2>3
<1>5. The(R) \in R
  <2>1. R # {}
    BY <1>4
  <2> HIDE DEF R
  <2> QED BY <2>1, TheIs
<1>6. PICK n \in N : Zlib(z, data, max) = result(n, upto(n))
  BY <1>1, <1>5
<1>7. n \in 0..Len(data)
  BY <1>6
<1> QED BY <1>2, <1>6, <1>7, Zenon DEF upto, result

LEMMA ZlibOfType ==
    ASSUME NEW z \in ZState, NEW data \in Seq(Unit), NEW max \in Amount,
           NEW n \in 0..Len(data), NEW all \in Seq(Nat), NEW legal \in BOOLEAN
    PROVE  ZlibOf(z, data, max, n, all, legal) \in ZResult
<1> DEFINE room == Limit(max, Len(all))
           r == ZlibOf(z, data, max, n, all, legal)
           drop == Drop(data, n)
           done == z.done \/ (n > 0 /\ data[n].end)
<1>1. room \in 0..Len(all)
  BY LimitIs, LenProperties
<1>2. Take(all, room) \in Seq(Nat) /\ Drop(all, room) \in Seq(Nat)
  BY <1>1, TakeIs, DropIs
<1>3. drop \in Seq(Unit) /\ <<>> \in Seq(Unit)
  BY DropIs, EmptySeq
<1>4. z.unused \in Seq(Unit) /\ z.done \in BOOLEAN /\ z.at \in Nat
  BY DEF ZState
<1>5. z.unused \o drop \in Seq(Unit)
  BY <1>3, <1>4, ConcatProperties
<1>6. n # 0 => data[n].id \in Nat /\ data[n].end \in BOOLEAN
  <2> SUFFICES ASSUME n # 0 PROVE data[n].id \in Nat /\ data[n].end \in BOOLEAN
    OBVIOUS
  <2>1. n \in 1..Len(data)
    BY LenProperties
  <2>2. data[n] \in Unit
    BY <2>1, ElementOfSeq
  <2> QED BY ONLY <2>2 DEF Unit
<1>7. done \in BOOLEAN
  BY <1>4, <1>6
<1> DEFINE at == IF n = 0 THEN z.at ELSE data[n].id
           eof == done /\ room = Len(all)
           tail == IF eof THEN <<>> ELSE drop
           unused == IF eof THEN z.unused \o drop ELSE z.unused
<1>8. at \in Nat /\ tail \in Seq(Unit) /\ unused \in Seq(Unit)
  BY <1>3, <1>4, <1>5, <1>6
<1>9. r = [z |-> [at |-> at, done |-> done, pend |-> Drop(all, room),
                  tail |-> tail, unused |-> unused],
           out |-> Take(all, room), ok |-> legal]
  BY Zenon DEF ZlibOf
<1> HIDE DEF at, tail, unused, r, room, drop, done
<1>10. r \in ZResult
  BY ONLY <1>2, <1>7, <1>8, <1>9, legal \in BOOLEAN DEF ZResult, ZState
<1> QED BY <1>10 DEF r

LEMMA ZlibType ==
    ASSUME NEW z \in ZState, NEW data \in Seq(Unit), NEW max \in Amount
    PROVE  Zlib(z, data, max) \in ZResult
<1>1. CASE Eof(z)
  <2>1. Zlib(z, data, max)
          = [z |-> [z EXCEPT !.unused = @ \o data, !.tail = <<>>], out |-> <<>>, ok |-> TRUE]
    BY <1>1, Zenon DEF Zlib
  <2>2. z.unused \o data \in Seq(Unit)
    <3>1. z.unused \in Seq(Unit)
      BY DEF ZState
    <3> QED BY <3>1, ConcatProperties
  <2>3. PICK u : u = z.unused \o data
    OBVIOUS
  <2>4. u \in Seq(Unit) /\ <<>> \in Seq(Unit) /\ <<>> \in Seq(Nat)
    BY <2>2, <2>3, EmptySeq
  <2>5. [z EXCEPT !.unused = u, !.tail = <<>>] \in ZState
    BY <2>4 DEF ZState
  <2>6. [z EXCEPT !.unused = u, !.tail = <<>>] = [z EXCEPT !.unused = @ \o data, !.tail = <<>>]
    BY ONLY <2>3, Zenon
  <2> QED BY ONLY <2>1, <2>4, <2>5, <2>6 DEF ZResult
<1>2. CASE ~Eof(z)
  <2>1. z.at \in Nat /\ z.pend \in Seq(Nat)
    BY DEF ZState
  <2>2. PICK n \in 0..Len(data), legal \in BOOLEAN :
          Zlib(z, data, max) = ZlibOf(z, data, max, n, z.pend \o Bytes(Take(data, n)), legal)
    BY <1>2, <2>1, ZlibIs
  <2>3. Take(data, n) \in Seq(Unit)
    BY TakeIs
  <2>4. Bytes(Take(data, n)) \in Seq(Nat)
    BY <2>3, BytesType
  <2>5. z.pend \o Bytes(Take(data, n)) \in Seq(Nat)
    BY <2>1, <2>4, ConcatProperties
  <2> QED BY <2>2, <2>5, ZlibOfType
<1> QED BY <1>1, <1>2

LEMMA TheOne == ASSUME NEW x PROVE The({x}) = x
BY DEF The

(* A decoder, and what a call of one gives.                                 *)
Decoded == [d : Decoder, out : Seq(Nat), ok : BOOLEAN]

LEMMA NewZType == NewZ \in ZState
BY EmptySeq DEF NewZ, ZState

LEMMA DecoderParts ==
    ASSUME NEW d \in Decoder
    PROVE  d.z \in ZState /\ d.kept \in Seq(Unit) /\ d.z.tail \in Seq(Unit)
BY DEF Decoder, ZState

LEMMA NewDecoderType == NewDecoder \in Decoder
<1>1. NewZ \in ZState /\ <<>> \in Seq(Unit)
  BY NewZType, EmptySeq
<1> QED BY ONLY <1>1 DEF NewDecoder, Decoder

(* The result of Deflate when the decoder becomes one of the state "settled".*)
LEMMA SettledType ==
    ASSUME NEW r \in ZResult
    PROVE  [d |-> [z |-> r.z, kept |-> <<>>, state |-> "settled"],
            out |-> r.out, ok |-> r.ok] \in Decoded
<1>1. r.z \in ZState /\ r.out \in Seq(Nat) /\ r.ok \in BOOLEAN /\ <<>> \in Seq(Unit)
  BY EmptySeq DEF ZResult
<1> QED BY ONLY <1>1 DEF Decoded, Decoder

LEMMA DeflateType ==
    ASSUME NEW d \in Decoder, NEW data \in Seq(Unit), NEW max \in Amount
    PROVE  Deflate(d, data, max) \in Decoded
<1> DEFINE kept == d.kept \o data
           settled(r) == [d |-> [z |-> r.z, kept |-> <<>>, state |-> "settled"],
                          out |-> r.out, ok |-> r.ok]
           tried(r) == IF r.out # <<>> \/ ~r.ok THEN settled(r)
                       ELSE [d |-> [z |-> r.z, kept |-> kept, state |-> "try"],
                             out |-> <<>>, ok |-> TRUE]
           r1 == Zlib(d.z, d.z.tail \o data, max)
           r2 == Zlib(d.z, data, max)
           r3 == Zlib(NewZ, kept, max)
           nothing == [d |-> d, out |-> <<>>, ok |-> TRUE]
           waits == [d |-> [d EXCEPT !.kept = kept], out |-> <<>>, ok |-> TRUE]
<1>1. d.z \in ZState /\ d.kept \in Seq(Unit) /\ d.z.tail \in Seq(Unit)
  BY DecoderParts
<1>2. kept \in Seq(Unit) /\ d.z.tail \o data \in Seq(Unit)
  BY <1>1, ConcatProperties
<1>3. r1 \in ZResult /\ r2 \in ZResult /\ r3 \in ZResult
  <2>1. r1 \in ZResult
    BY <1>1, <1>2, ZlibType
  <2>2. r2 \in ZResult
    BY <1>1, ZlibType
  <2>3. r3 \in ZResult
    BY <1>2, NewZType, ZlibType
  <2> QED BY <2>1, <2>2, <2>3
<1>4. \/ Deflate(d, data, max) = nothing
      \/ Deflate(d, data, max) = The({settled(r) : r \in {r1}})
      \/ Deflate(d, data, max) = The({tried(r) : r \in {r2}})
      \/ Deflate(d, data, max) = The({settled(r) : r \in {r3}})
      \/ Deflate(d, data, max) = waits
  BY Zenon DEF Deflate
<1>5. nothing \in Decoded /\ waits \in Decoded
  <2> HIDE DEF kept
  <2>1. <<>> \in Seq(Nat) /\ d \in Decoder /\ kept \in Seq(Unit)
    BY <1>2, EmptySeq
  <2> QED BY ONLY <2>1 DEF Decoded, Decoder
<1>6. \A r \in ZResult : settled(r) \in Decoded
  BY SettledType
<1>7. \A r \in ZResult : tried(r) \in Decoded
  <2> TAKE r \in ZResult
  <2> HIDE DEF kept
  <2>1. r.z \in ZState /\ <<>> \in Seq(Nat) /\ kept \in Seq(Unit)
    BY <1>2, EmptySeq DEF ZResult
  <2>2. [d |-> [z |-> r.z, kept |-> kept, state |-> "try"], out |-> <<>>, ok |-> TRUE]
          \in Decoded
    BY ONLY <2>1 DEF Decoded, Decoder
  <2>3. settled(r) \in Decoded
    BY <1>6
  <2> QED BY <2>2, <2>3
<1> HIDE DEF settled, tried, r1, r2, r3, nothing, waits
<1>8. /\ The({settled(r) : r \in {r1}}) = settled(r1)
      /\ The({tried(r) : r \in {r2}}) = tried(r2)
      /\ The({settled(r) : r \in {r3}}) = settled(r3)
  <2>1. /\ {settled(r) : r \in {r1}} = {settled(r1)}
        /\ {tried(r) : r \in {r2}} = {tried(r2)}
        /\ {settled(r) : r \in {r3}} = {settled(r3)}
    OBVIOUS
  <2> QED BY <2>1, TheOne
<1> QED BY <1>3, <1>4, <1>5, <1>6, <1>7, <1>8

(* The states of the loop of GzipDecoder.decompress, and one pass of it.     *)
Loop == [d : Decoder, data : Seq(Unit), ret : Seq(Nat), going : BOOLEAN, ok : BOOLEAN]
HasRoom(l, max) == l.going => max = None \/ Len(l.ret) <= max
Step(l, max) == The({IF k.going THEN GzipPass(k, max) ELSE k : k \in {l}})
Passes(init, max, n, f) == f = [i \in 0..n |-> IF i = 0 THEN init ELSE Step(f[i - 1], max)]

LEMMA PassesExist ==
    ASSUME NEW init, NEW max, NEW n \in Nat PROVE \E f : Passes(init, max, n, f)
<1> DEFINE P == {m \in Nat : \E f : Passes(init, max, m, f)}
<1>1. 0 \in P
  <2> DEFINE f == [i \in 0..0 |-> init]
  <2>1. f = [i \in 0..0 |-> IF i = 0 THEN init ELSE Step(f[i - 1], max)]
    OBVIOUS
  <2>2. Passes(init, max, 0, f)
    BY ONLY <2>1, Zenon DEF Passes
  <2> QED BY <2>2
<1>2. ASSUME NEW m \in Nat, m \in P PROVE m + 1 \in P
  <2>1. PICK f : Passes(init, max, m, f)
    BY <1>2
  <2> DEFINE g == [i \in 0..m + 1 |-> IF i = m + 1 THEN Step(f[m], max) ELSE f[i]]
  <2>2. ASSUME NEW i \in 0..m + 1
        PROVE g[i] = IF i = 0 THEN init ELSE Step(g[i - 1], max)
    <3>1. CASE i = m + 1
      BY <3>1
    <3>2. CASE i # m + 1
      <4>1. i \in 0..m /\ (i # 0 => i - 1 \in 0..m /\ i - 1 \in 0..m + 1 /\ i - 1 # m + 1)
        BY <3>2
      <4>2. f[i] = IF i = 0 THEN init ELSE Step(f[i - 1], max)
        BY <2>1, <4>1 DEF Passes
      <4> QED BY <3>2, <4>1, <4>2
    <3> QED BY <3>1, <3>2
  <2>3. Passes(init, max, m + 1, g)
    <3>1. g = [i \in 0..m + 1 |-> g[i]]
      OBVIOUS
    <3> HIDE DEF g
    <3> QED BY <2>2, <3>1 DEF Passes
  <2> HIDE DEF g
  <2> QED BY <2>3
<1> HIDE DEF P
<1>3. n \in P
  BY <1>1, <1>2, SetInduction
<1> QED BY <1>3 DEF P

(* What every pass preserves, all passes preserve.                           *)
LEMMA PassesKeep ==
    ASSUME NEW init, NEW max, NEW n \in Nat, NEW f, NEW S, Passes(init, max, n, f), init \in S,
           \A l \in S : Step(l, max) \in S
    PROVE  f[n] \in S
<1> DEFINE P == {i \in Nat : i \in 0..n => f[i] \in S}
           F == [i \in 0..n |-> IF i = 0 THEN init ELSE Step(f[i - 1], max)]
<1>1. \A i \in 0..n : F[i] = IF i = 0 THEN init ELSE Step(f[i - 1], max)
  OBVIOUS
<1>2. f = F
  BY DEF Passes
<1> HIDE DEF F
<1>3. \A i \in 0..n : f[i] = IF i = 0 THEN init ELSE Step(f[i - 1], max)
  BY <1>1, <1>2
<1>4. 0 \in P
  BY <1>3
<1>5. ASSUME NEW i \in Nat, i \in P PROVE i + 1 \in P
  <2> SUFFICES ASSUME i + 1 \in 0..n PROVE f[i + 1] \in S
    OBVIOUS
  <2>1. i \in 0..n /\ i + 1 # 0 /\ i + 1 - 1 = i
    OBVIOUS
  <2>2. f[i + 1] = Step(f[i], max)
    BY <1>3, <2>1
  <2> QED BY <1>5, <2>1, <2>2
<1> HIDE DEF P
<1>6. n \in P
  BY <1>4, <1>5, SetInduction
<1> QED BY <1>6 DEF P

LEMMA GzipPassType ==
    ASSUME NEW l \in Loop, NEW max \in Amount, l.going, HasRoom(l, max)
    PROVE  GzipPass(l, max) \in Loop /\ HasRoom(GzipPass(l, max), max)
<1> DEFINE room == IF max = None THEN None ELSE max - Len(l.ret)
           data(r) == IF r.z.tail # <<>> THEN r.z.tail ELSE r.z.unused
           ret(r) == l.ret \o r.out
           full(r) == max # None /\ Len(ret(r)) >= max
           error == [l EXCEPT !.d = [@ EXCEPT !.state = "swallow", !.kept = <<>>],
                              !.going = FALSE, !.ok = l.d.state = "other"]
           more(r) == [l EXCEPT !.d = [@ EXCEPT !.z = r.z, !.kept = data(r)], !.data = data(r),
                                !.ret = ret(r), !.going = ~full(r) /\ data(r) # <<>>]
           other(r) == [l EXCEPT !.d = [z |-> NewZ, kept |-> data(r), state |-> "other"],
                                 !.data = data(r), !.ret = ret(r)]
           pass(r) == IF ~r.ok THEN error
                      ELSE IF full(r) \/ data(r) = <<>> \/ ~Eof(r.z) THEN more(r) ELSE other(r)
           z == Zlib(l.d.z, l.data, room)
<1>1. /\ l.d \in Decoder /\ l.data \in Seq(Unit) /\ l.ret \in Seq(Nat) /\ Len(l.ret) \in Nat
      /\ <<>> \in Seq(Unit)
  BY EmptySeq, LenProperties DEF Loop
<1>2. room \in Amount
  BY <1>1, NoneAssumption DEF HasRoom, Amount
<1>3. z \in ZResult
  <2> HIDE DEF room
  <2> QED BY <1>1, <1>2, DecoderParts, ZlibType
<1>4. GzipPass(l, max) = The({pass(r) : r \in {z}})
  BY Zenon DEF GzipPass
<1> HIDE DEF z
<1>5. GzipPass(l, max) = pass(z)
  <2> HIDE DEF pass
  <2>1. {pass(r) : r \in {z}} = {pass(z)}
    OBVIOUS
  <2> QED BY <1>4, <2>1, TheOne
<1>6. PICK dd, rr, zz : dd = data(z) /\ rr = ret(z) /\ zz = z.z
  OBVIOUS
<1>7. zz \in ZState /\ dd \in Seq(Unit) /\ rr \in Seq(Nat) /\ Len(rr) \in Nat
  <2>1. z.z \in ZState /\ z.out \in Seq(Nat)
    BY <1>3 DEF ZResult
  <2>2. z.z.tail \in Seq(Unit) /\ z.z.unused \in Seq(Unit)
    BY <2>1 DEF ZState
  <2>3. ret(z) \in Seq(Nat)
    BY <1>1, <2>1, ConcatProperties
  <2> QED BY <1>6, <2>1, <2>2, <2>3, LenProperties
<1>8. error \in Loop /\ HasRoom(error, max)
  BY ONLY <1>1, l \in Loop DEF Loop, HasRoom, Decoder
<1>9. ASSUME NEW b \in BOOLEAN, b => (max = None \/ Len(rr) <= max)
      PROVE  LET m == [l EXCEPT !.d = [@ EXCEPT !.z = zz, !.kept = dd], !.data = dd,
                                !.ret = rr, !.going = b]
             IN  m \in Loop /\ HasRoom(m, max)
  BY ONLY <1>1, <1>7, <1>9, l \in Loop DEF Loop, HasRoom, Decoder
<1>10. ASSUME max = None \/ Len(rr) <= max
       PROVE  LET m == [l EXCEPT !.d = [z |-> NewZ, kept |-> dd, state |-> "other"],
                                 !.data = dd, !.ret = rr]
              IN  m \in Loop /\ HasRoom(m, max)
  BY ONLY <1>1, <1>7, <1>10, l \in Loop, NewZType DEF Loop, HasRoom, Decoder
<1>11. ~full(z) => max = None \/ Len(rr) <= max
  <2> HIDE DEF ret
  <2> QED BY ONLY <1>6, <1>7, max \in Amount DEF Amount
<1>12. more(z) \in Loop /\ HasRoom(more(z), max)
  <2>1. PICK b \in BOOLEAN : b = (~full(z) /\ data(z) # <<>>)
    OBVIOUS
  <2>2. more(z) = [l EXCEPT !.d = [@ EXCEPT !.z = zz, !.kept = dd], !.data = dd,
                            !.ret = rr, !.going = b]
    BY ONLY <1>6, <2>1, Zenon
  <2> HIDE DEF more, full
  <2> QED BY ONLY <1>9, <1>11, <2>1, <2>2
<1>13. ~full(z) => other(z) \in Loop /\ HasRoom(other(z), max)
  <2>1. other(z) = [l EXCEPT !.d = [z |-> NewZ, kept |-> dd, state |-> "other"],
                             !.data = dd, !.ret = rr]
    BY ONLY <1>6, Zenon
  <2> HIDE DEF other, full
  <2> QED BY ONLY <1>10, <1>11, <2>1
<1> HIDE DEF error, more, other, full
<1> QED BY <1>5, <1>8, <1>12, <1>13

LEMMA StepType ==
    ASSUME NEW l \in Loop, NEW max \in Amount, HasRoom(l, max)
    PROVE  Step(l, max) \in Loop /\ HasRoom(Step(l, max), max)
<1> DEFINE e(k) == IF k.going THEN GzipPass(k, max) ELSE k
<1>1. Step(l, max) = e(l)
  <2>1. Step(l, max) = The({e(k) : k \in {l}})
    BY Zenon DEF Step
  <2> HIDE DEF e
  <2>2. {e(k) : k \in {l}} = {e(l)}
    OBVIOUS
  <2> QED BY <2>1, <2>2, TheOne
<1>2. l.going \in BOOLEAN
  BY DEF Loop
<1>3. CASE l.going
  BY <1>1, <1>3, GzipPassType
<1>4. CASE ~l.going
  BY <1>1, <1>4
<1> QED BY <1>2, <1>3, <1>4

LEMMA GzipType ==
    ASSUME NEW d \in Decoder, NEW data \in Seq(Unit), NEW max \in Amount
    PROVE  Gzip(d, data, max) \in Decoded
<1> DEFINE all == d.kept \o data
           K == 2 * Len(all) + 2
           init == [d |-> d, data |-> all, ret |-> <<>>, going |-> TRUE, ok |-> TRUE]
           pass == CHOOSE f : Passes(init, max, K, f)
           nothing == [d |-> d, out |-> <<>>, ok |-> TRUE]
           result(l) == [d |-> l.d, out |-> l.ret, ok |-> l.ok]
           S == {l \in Loop : HasRoom(l, max)}
<1>1. d.z \in ZState /\ d.kept \in Seq(Unit)
  BY DecoderParts
<1>2. all \in Seq(Unit) /\ Len(all) \in Nat
  BY <1>1, ConcatProperties, LenProperties
<1>3. K \in Nat
  BY <1>2
<1>4. \/ Gzip(d, data, max) = nothing
      \/ Gzip(d, data, max) = The({result(l) : l \in {pass[K]}})
  BY Zenon DEF Gzip, Passes, Step
<1>5. nothing \in Decoded
  <2>1. <<>> \in Seq(Nat)
    BY EmptySeq
  <2> QED BY ONLY <2>1, d \in Decoder DEF Decoded
<1>6. init \in S
  <2> HIDE DEF all
  <2>1. <<>> \in Seq(Nat) /\ Len(<<>>) = 0
    BY EmptySeq
  <2>2. init \in Loop
    BY ONLY <1>2, <2>1, d \in Decoder DEF Loop
  <2>3. HasRoom(init, max)
    BY ONLY <2>1, max \in Amount DEF HasRoom, Amount
  <2> QED BY <2>2, <2>3
<1>7. \A l \in S : Step(l, max) \in S
  BY StepType
<1> HIDE DEF all, K, init, S
<1>8. Passes(init, max, K, pass)
  BY <1>3, PassesExist
<1> HIDE DEF pass
<1>9. pass[K] \in S
  BY <1>3, <1>6, <1>7, <1>8, PassesKeep
<1>10. PICK l \in Loop : l = pass[K]
  BY <1>9 DEF S
<1>11. The({result(k) : k \in {pass[K]}}) = result(l)
  <2> HIDE DEF result
  <2>1. {result(k) : k \in {pass[K]}} = {result(l)}
    BY <1>10
  <2> QED BY <2>1, TheOne
<1>12. result(l) \in Decoded
  BY ONLY l \in Loop DEF Loop, Decoded
<1> QED BY <1>4, <1>5, <1>11, <1>12

LEMMA BrotliType ==
    ASSUME NEW d \in Decoder, NEW data \in Seq(Unit) PROVE Brotli(d, data) \in Decoded
<1>1. Bytes(data) \in Seq(Nat)
  BY BytesType
<1> QED BY ONLY <1>1, d \in Decoder DEF Brotli, Decoded

LEMMA DecompressType ==
    ASSUME NEW d \in Decoder, NEW data \in Seq(Unit), NEW max \in Amount
    PROVE  Decompress(d, data, max) \in Decoded
BY GzipType, DeflateType, BrotliType DEF Decompress

LEMMA FlushType ==
    ASSUME NEW r \in Decoded PROVE Flush(r) \in Decoded
<1> DEFINE flushed(s, f) == [d   |-> [s.d EXCEPT !.z = f.z],
                             out |-> r.out \o s.out \o f.out,
                             ok  |-> r.ok /\ s.ok /\ f.ok]
           inner(s) == The({flushed(s, f) : f \in {ZlibFlush(s.d.z)}})
<1>1. Flush(r) = The({inner(s) : s \in {Decompress(r.d, <<>>, None)}})
  BY Zenon DEF Flush
<1>2. /\ r.d \in Decoder /\ r.out \in Seq(Nat) /\ r.ok \in BOOLEAN
      /\ <<>> \in Seq(Unit) /\ None \in Amount
  BY EmptySeq DEF Decoded, Amount
<1>3. PICK s \in Decoded : s = Decompress(r.d, <<>>, None)
  BY <1>2, DecompressType
<1>4. Flush(r) = inner(s)
  <2> HIDE DEF inner
  <2>1. {inner(k) : k \in {Decompress(r.d, <<>>, None)}} = {inner(s)}
    BY <1>3
  <2> QED BY <1>1, <2>1, TheOne
<1>5. s.d \in Decoder /\ s.d.z \in ZState /\ s.out \in Seq(Nat) /\ s.ok \in BOOLEAN
  BY DEF Decoded, Decoder
<1>6. s.d.z.tail \in Seq(Unit)
  BY <1>5, DecoderParts
<1>7. PICK f \in ZResult : f = ZlibFlush(s.d.z)
  BY <1>2, <1>5, <1>6, ZlibType DEF ZlibFlush
<1>8. Flush(r) = flushed(s, f)
  <2> HIDE DEF flushed
  <2>1. {flushed(s, k) : k \in {ZlibFlush(s.d.z)}} = {flushed(s, f)}
    BY <1>7
  <2> QED BY <1>4, <2>1, TheOne
<1>9. f.z \in ZState /\ f.out \in Seq(Nat) /\ f.ok \in BOOLEAN
  BY DEF ZResult
<1>10. PICK o : o = r.out \o s.out \o f.out
  OBVIOUS
<1>11. o \in Seq(Nat)
  <2>1. r.out \o s.out \in Seq(Nat)
    BY <1>2, <1>5, ConcatProperties
  <2> QED BY <1>9, <1>10, <2>1, ConcatProperties
<1>12. PICK b \in BOOLEAN : b = (r.ok /\ s.ok /\ f.ok)
  BY <1>2, <1>5, <1>9
<1>13. Flush(r) = [d |-> [s.d EXCEPT !.z = f.z], out |-> o, ok |-> b]
  BY <1>8, <1>10, <1>12
<1>14. [s.d EXCEPT !.z = f.z] \in Decoder
  BY ONLY <1>5, <1>9 DEF Decoder
<1> QED BY ONLY <1>11, <1>12, <1>13, <1>14 DEF Decoded

(* The decoder of a response, or None.                                       *)
Maybe == Decoder \cup {None}
MaybeDecoded == [d : Maybe, out : Seq(Nat), ok : BOOLEAN]

LEMMA DecodedIsMaybe == \A r \in Decoded : r \in MaybeDecoded
BY DEF Decoded, MaybeDecoded, Maybe

LEMMA DecodeType ==
    ASSUME NEW d \in Maybe, NEW data \in Seq(Unit), NEW flush \in BOOLEAN, NEW max \in Amount
    PROVE  /\ Decode(d, data, flush, max) \in MaybeDecoded
           /\ d = None => Decode(d, data, flush, max)
                            = [d |-> None, out |-> Bytes(data), ok |-> TRUE]
<1>1. Bytes(data) \in Seq(Nat)
  BY BytesType
<1>2. CASE d = None
  <2>1. Decode(d, data, flush, max) = [d |-> None, out |-> Bytes(data), ok |-> TRUE]
    BY <1>2 DEF Decode
  <2>2. [d |-> None, out |-> Bytes(data), ok |-> TRUE] \in MaybeDecoded
    BY ONLY <1>1 DEF MaybeDecoded, Maybe
  <2> QED BY <2>1, <2>2
<1>3. CASE d # None
  <2>1. d \in Decoder
    BY <1>3 DEF Maybe
  <2>2. CASE ~flush
    <3>1. Decode(d, data, flush, max) = Decompress(d, data, max)
      BY <1>3, <2>2 DEF Decode
    <3> QED BY <1>3, <2>1, <3>1, DecompressType, DecodedIsMaybe
  <2>3. CASE flush
    <3>1. Decode(d, data, flush, max) = The({Flush(r) : r \in {Decompress(d, data, None)}})
      BY <1>3, <2>3, Zenon DEF Decode
    <3>2. PICK r \in Decoded : r = Decompress(d, data, None)
      BY <2>1, DecompressType DEF Amount
    <3>3. {Flush(k) : k \in {Decompress(d, data, None)}} = {Flush(r)}
      BY <3>2
    <3>4. Decode(d, data, flush, max) = Flush(r)
      BY <3>1, <3>3, TheOne
    <3> QED BY <1>3, <3>4, FlushType, DecodedIsMaybe
  <2> QED BY <2>2, <2>3
<1> QED BY <1>2, <1>3

LEMMA InitialisedType ==
    ASSUME NEW d \in Maybe, d = decoder
    PROVE  Initialised \in Maybe
BY NewDecoderType DEF Initialised, Maybe

LEMMA FromTailType ==
    ASSUME NEW d \in Maybe, NEW max \in Amount
    PROVE  /\ FromTail(d, max) \in MaybeDecoded
           /\ ~HasTail(d) => FromTail(d, max) = [d |-> d, out |-> <<>>, ok |-> TRUE]
<1>1. <<>> \in Seq(Nat) /\ <<>> \in Seq(Unit) /\ FALSE \in BOOLEAN
  BY EmptySeq
<1>2. Decode(d, <<>>, FALSE, max) \in MaybeDecoded
  BY <1>1, DecodeType
<1>3. [d |-> d, out |-> <<>>, ok |-> TRUE] \in MaybeDecoded
  BY ONLY <1>1, d \in Maybe DEF MaybeDecoded
<1> QED BY ONLY <1>2, <1>3 DEF FromTail

(***************************************************************************)
(* The states.  length_remaining is what is left of a body with a length,    *)
(* and the call that is in progress is one that can still use data.          *)
(***************************************************************************)
ReadCall == [m : {"read"}, amt : Amount \ {0}, cache : BOOLEAN, first : BOOLEAN]
Read1Call == [m : {"read1"}, amt : Amount \ {0}, first : BOOLEAN]
DrainCall == [m |-> "drain"]
\* What is on the wire lies before the end of what was sent.
OnWire(s) == [is : {"unit", "size", "break"}, unit : Unit, at : 0..s.sent]
Iterating(s) == [on : {TRUE}, amt : Amount \ {0}, chunks : BOOLEAN,
                 rest : Seq(OnWire(s)) \cup {None}]

TypesOfNetwork ==
    /\ scenario \in Scenarios
    /\ next \in 0..scenario.sent
    /\ fpopen \in BOOLEAN /\ fpchunk \in BOOLEAN
    /\ chunk_left \in (Nat \ {0}) \cup {None}
    /\ length_remaining = IF scenario.framing = "length" THEN Len(wire) - next ELSE None
    /\ conn \in {"held", "put"} /\ sock \in {"open", "closed"}

TypesOfReading ==
    /\ decoder \in Maybe
    /\ hasdecoded \in BOOLEAN
    /\ IsBuffer(buffer)
    /\ cached \in Seq(Nat) \cup {None}
    /\ uncached \in BOOLEAN

TypesOfCalls ==
    /\ \/ call \in {Idle, DrainCall} \cup Read1Call
       \/ call \in ReadCall /\ (call.amt = None \/ buffer.size < call.amt)
    /\ \/ iter = NotIterating
       \/ iter \in Iterating(scenario) /\ iter.chunks = (scenario.framing = "chunked")
    /\ delivered \in Seq(Nat)
    /\ spoiled \in BOOLEAN

Types == TypesOfNetwork /\ TypesOfReading /\ TypesOfCalls

(* A response that is closed has released its connection, unless an error or *)
(* close() closed that too; nothing is left unread on one that is reused, if   *)
(* stream() did not lose its place.                                          *)
Connected ==
    /\ scenario.framing = "close" => sock = "closed"
    /\ conn = "put" => ~fpopen
    /\ (conn = "held" /\ ~fpopen) => spoiled /\ sock = "closed"
    /\ (conn = "put" /\ sock = "open") => (Apart => next = Len(wire))

(* The call in progress is one the reader makes, and a drained response is    *)
(* not read to its end by anybody.                                           *)
Asked ==
    /\ call.m = "drain" => spoiled
    /\ call.m = "read1" => <<"read1", call.amt>> \in scenario.calls

Released == Connected /\ Asked /\ (Ended => conn = "put")

(* Everybody who calls read1() without an amount gets whole responses, as     *)
(* that call does not notice that a body with a length breaks off.            *)
BreaksAreNoticed ==
    \A s \in Scenarios : 
       s.framing = "length" /\ <<"read1", None>> \in s.calls => s.sent = Len(s.wire)

(***************************************************************************)
(* The response, and what a read of it can come to                          *)
(***************************************************************************)
LEMMA WireType ==
    ASSUME TypesOfNetwork
    PROVE  /\ IsScenario(scenario)
           /\ wire \in Seq(Unit) /\ Len(wire) \in Nat /\ Len(wire) < Big
           /\ scenario.sent \in 0..Len(wire) /\ next \in 0..Len(wire) /\ next \in Nat
           /\ Arrived \in Nat /\ next + Arrived = scenario.sent
<1>1. scenario \in Scenarios /\ next \in 0..scenario.sent
  BY DEF TypesOfNetwork
<1>2. IsScenario(scenario) /\ Len(wire) < Big
  BY <1>1, ScenarioAssumption DEF wire
<1>3. scenario.wire \in Seq(Unit) /\ scenario.sent \in 0..Len(scenario.wire)
  BY <1>2 DEF IsScenario
<1>4. PICK w, k : w = scenario.wire /\ k = scenario.sent
  OBVIOUS
<1>5. Len(w) \in Nat
  BY <1>3, <1>4, LenProperties
<1> QED BY ONLY <1>1, <1>2, <1>3, <1>4, <1>5 DEF wire, Arrived

(* Bytes that are units by themselves are as many as the units.              *)
LEMMA PlainLength ==
    ASSUME NEW s \in Seq(Unit), \A i \in DOMAIN s : Len(s[i].out) = 1
    PROVE  Len(Bytes(s)) = Len(s)
<1> DEFINE P == {n \in Nat : n \in 0..Len(s) => Len(Bytes(Take(s, n))) = n}
<1>1. 0 \in P
  <2>1. Take(s, 0) = <<>>
    BY SubSeqEmpty DEF Take
  <2> QED BY <2>1, BytesEmpty, EmptySeq
<1>2. ASSUME NEW n \in Nat, n \in P PROVE n + 1 \in P
  <2> SUFFICES ASSUME n + 1 \in 0..Len(s) PROVE Len(Bytes(Take(s, n + 1))) = n + 1
    OBVIOUS
  <2>1. Len(s) \in Nat /\ n \in 0..Len(s) /\ n + 1 \in 1..Len(s) /\ DOMAIN s = 1..Len(s)
    BY LenProperties
  <2>2. s[n + 1] \in Unit
    BY <2>1, ElementOfSeq
  <2>3. PICK u, e : u = Take(s, n) /\ e = s[n + 1]
    OBVIOUS
  <2>4. u \in Seq(Unit) /\ e \in Unit /\ e.out \in Seq(Nat) /\ Len(e.out) = 1
    BY <2>1, <2>2, <2>3, TakeIs DEF Unit
  <2>5. Take(s, n + 1) = u \o <<e>> /\ <<e>> \in Seq(Unit)
    BY <2>1, <2>3, <2>4, SubSeqRecursiveSecond DEF Take
  <2>6. Bytes(u \o <<e>>) = Bytes(u) \o Bytes(<<e>>)
    BY <2>4, <2>5, BytesConcat
  <2>7. Bytes(<<e>>) = e.out
    <3>1. [i \in DOMAIN <<e>> |-> <<e>>[i].out] = <<e.out>>
      OBVIOUS
    <3>2. <<>> \in Seq(Seq(Nat)) /\ FlattenSeq(<<>>) = <<>>
      BY FlattenEmpty, EmptySeq
    <3>3. Append(<<>>, e.out) = <<e.out>>
      OBVIOUS
    <3>4. FlattenSeq(Append(<<>>, e.out)) = FlattenSeq(<<>>) \o e.out
      BY <2>4, <3>2, FlattenAppend
    <3>5. <<>> \o e.out = e.out
      BY <2>4, ConcatEmptySeq
    <3> QED BY ONLY <3>1, <3>2, <3>3, <3>4, <3>5, Zenon DEF Bytes
  <2>8. Bytes(u) \in Seq(Nat) /\ Len(Bytes(u)) = n
    BY <1>2, <2>1, <2>3, <2>4, BytesType
  <2>9. Len(Bytes(u) \o e.out) = n + 1
    <3>1. Len(Bytes(u) \o e.out) = Len(Bytes(u)) + Len(e.out)
      BY <2>4, <2>8, ConcatProperties
    <3> QED BY ONLY <2>4, <2>8, <3>1
  <2> QED BY ONLY <2>5, <2>6, <2>7, <2>9, Zenon
<1> HIDE DEF P
<1>3. Len(s) \in P
  BY <1>1, <1>2, SetInduction, LenProperties
<1>4. Take(s, Len(s)) = s
  BY SubSeqFull DEF Take
<1>5. Len(s) \in 0..Len(s)
  BY LenProperties
<1> QED BY <1>3, <1>4, <1>5 DEF P

Outcome == [data : Seq(Unit), open : BOOLEAN, mid : BOOLEAN,
            err : {"none", "incomplete", "timeout", "exit", "undecodable"}]

LEMMA GotIs ==
    ASSUME TypesOfNetwork, NEW n \in Nat, n <= Arrived, NEW open \in BOOLEAN
    PROVE  /\ Got(n, open) \in Outcome
           /\ Len(Got(n, open).data) = n
           /\ n = 0 <=> Got(n, open).data = <<>>
           /\ Got(n, open).data = SubSeq(wire, next + 1, next + n)
           /\ Got(n, open).open = open /\ Got(n, open).err = "none"
<1>1. /\ wire \in Seq(Unit) /\ Len(wire) \in Nat /\ scenario.sent \in 0..Len(wire)
      /\ next \in Nat /\ Arrived \in Nat /\ next + Arrived = scenario.sent
  BY WireType
<1>2. PICK w, k : w = wire /\ k = next
  OBVIOUS
<1>3. w \in Seq(Unit) /\ Len(w) \in Nat /\ k \in Nat /\ k + n <= Len(w)
  BY ONLY <1>1, <1>2, n \in Nat, n <= Arrived
<1>4. PICK d : d = SubSeq(w, k + 1, k + n)
  OBVIOUS
<1>5. d \in Seq(Unit) /\ Len(d) = n
  BY ONLY <1>3, <1>4, n \in Nat, SubSeqProperties
<1>6. d = <<>> <=> n = 0
  BY <1>5, EmptySeq
<1>7. PICK mid \in BOOLEAN : mid = (scenario.framing = "chunked" /\ open)
  OBVIOUS
<1>8. Got(n, open) = [data |-> d, open |-> open, mid |-> mid, err |-> "none"]
  BY ONLY <1>2, <1>4, <1>7 DEF Got
<1>9. [data |-> d, open |-> open, mid |-> mid, err |-> "none"] \in Outcome
  BY ONLY <1>5, open \in BOOLEAN, mid \in BOOLEAN DEF Outcome
<1> QED BY ONLY <1>2, <1>4, <1>5, <1>6, <1>8, <1>9

LEMMA FailsIs ==
    ASSUME TypesOfNetwork, NEW why \in {"incomplete", "timeout", "exit", "undecodable"}
    PROVE  Fails(why) \in Outcome /\ Fails(why).data = <<>> /\ Fails(why).err # "none"
<1>1. fpopen \in BOOLEAN /\ fpchunk \in BOOLEAN /\ <<>> \in Seq(Unit)
  BY EmptySeq DEF TypesOfNetwork
<1>2. PICK a \in BOOLEAN, b \in BOOLEAN : a = fpopen /\ b = fpchunk
  BY <1>1
<1> QED BY ONLY <1>1, <1>2, why \in {"incomplete", "timeout", "exit", "undecodable"}
        DEF Fails, Outcome

LEMMA RoomIs ==
    ASSUME TypesOfNetwork, NEW amt \in Amount
    PROVE  /\ Room(amt) \in Nat /\ Room(amt) <= Arrived
           /\ scenario.framing = "length" => Room(amt) <= left /\ left \in Nat
           /\ amt # None => Room(amt) <= amt
           /\ scenario.framing # "length" /\ (amt = None \/ Arrived <= amt) => Room(amt) = Arrived
           /\ scenario.framing # "length" /\ amt # None /\ amt <= Arrived => Room(amt) = amt
           /\ scenario.framing = "length" =>
                 Room(amt) = left \/ Room(amt) = Arrived \/ (amt # None /\ Room(amt) = amt)
<1>1. /\ Arrived \in Nat /\ Len(wire) \in Nat /\ next \in 0..Len(wire)
  BY WireType
<1>2. scenario.framing = "length" => left = Len(wire) - next /\ left \in Nat
  BY <1>1 DEF TypesOfNetwork, left
<1>3. PICK a, k : a = Arrived /\ k = left
  OBVIOUS
<1>4. Limit(amt, a) \in 0..a /\ Limit(amt, a) = (IF amt = None \/ a <= amt THEN a ELSE amt)
  BY <1>1, <1>3, LimitIs
<1>5. k \in Nat => Limit(amt, k) \in 0..k
        /\ Limit(amt, k) = (IF amt = None \/ k <= amt THEN k ELSE amt)
  BY LimitIs
<1>6. Room(amt) = IF scenario.framing = "length" THEN Smaller(Limit(amt, k), a) ELSE Limit(amt, a)
  BY ONLY <1>3 DEF Room
<1>7. amt \in Nat \cup {None} /\ None \notin Nat
  BY NoneAssumption DEF Amount
<1>8. PICK x, y : x = Limit(amt, a) /\ y = Limit(amt, k)
  OBVIOUS
<1> QED BY ONLY <1>1, <1>2, <1>3, <1>4, <1>5, <1>6, <1>7, <1>8 DEF Smaller

(* What holds of anything that is read: the next units, or an error.         *)
Reads(o, amt) ==
    /\ o \in Outcome
    /\ Len(o.data) <= Arrived
    /\ o.data = SubSeq(wire, next + 1, next + Len(o.data))
    /\ amt # None => Len(o.data) <= amt
    /\ o.err # "none" => o.data = <<>>

(* The response is at its end, as far as its framing tells.                  *)
AllSent(o) ==
    IF scenario.framing = "length" THEN Len(o.data) = left
    ELSE Len(o.data) = Arrived /\ (scenario.framing = "chunked" => ~Cut)

(* Nothing more comes, which http.client takes for the end of the response.  *)
NoneLeft(o) == scenario.framing = "length" /\ o.data = <<>> /\ Arrived = 0

LEMMA NoUnits ==
    ASSUME NEW w, NEW k \in Nat PROVE SubSeq(w, k + 1, k + Len(<<>>)) = <<>>
<1>1. Len(<<>>) = 0
  BY EmptySeq
<1>2. k + 1 \in Int /\ k + Len(<<>>) \in Int /\ k + Len(<<>>) < k + 1
  BY <1>1
<1> QED BY <1>2, SubSeqEmpty

LEMMA FailsReads ==
    ASSUME TypesOfNetwork, NEW amt \in Amount,
           NEW why \in {"incomplete", "timeout", "exit", "undecodable"}
    PROVE  Reads(Fails(why), amt) /\ Fails(why).err # "none"
<1>1. Arrived \in Nat /\ amt \in Nat \cup {None}
  BY WireType DEF Amount
<1>2. /\ Fails(why) \in Outcome /\ Fails(why).data = <<>> /\ Fails(why).err # "none"
  BY FailsIs
<1>3. <<>> = SubSeq(wire, next + 1, next + Len(<<>>))
  BY WireType, NoUnits
<1>4. amt # None => Len(<<>>) <= amt
  BY <1>1, EmptySeq
<1>5. Len(<<>>) <= Arrived
  BY <1>1, EmptySeq
<1>6. PICK o : o = Fails(why)
  OBVIOUS
<1>7. o \in Outcome /\ o.data = <<>> /\ o.err # "none"
  BY <1>2, <1>6
<1>8. Reads(o, amt)
  BY ONLY <1>3, <1>4, <1>5, <1>7 DEF Reads
<1> QED BY <1>6, <1>7, <1>8

LEMMA FpReadIs ==
    ASSUME TypesOfNetwork, NEW amt \in Amount, NEW o \in FpRead(amt)
    PROVE  /\ Reads(o, amt)
           /\ o.err = "none" /\ ~o.open /\ fpopen => AllSent(o) \/ (NoneLeft(o) /\ amt # None)
           /\ o.err = "none" /\ o.data = <<>> /\ fpopen /\ amt # 0 => AllSent(o) \/ NoneLeft(o)
           /\ o.err = "none" /\ o.open => fpopen /\ amt # None
           /\ o.err = "none" /\ fpopen =>
                 amt = None \/ Len(o.data) >= amt \/ Len(o.data) = Arrived \/ Len(o.data) = left
<1> DEFINE n == Room(amt)
           read == IF scenario.framing = "length"
                   THEN IF amt = None /\ n < left THEN Fails("incomplete")
                        ELSE Got(n, n # 0 /\ n < left)
                   ELSE IF scenario.framing = "close"
                   THEN Got(n, amt # None /\ n > 0)
                   ELSE IF Cut /\ (amt = None \/ amt > Arrived)
                   THEN Fails("incomplete")
                   ELSE Got(n, amt # None /\ amt <= Arrived)
<1>1. /\ Room(amt) \in Nat /\ Room(amt) <= Arrived /\ Arrived \in Nat
      /\ scenario.framing = "length" => Room(amt) <= left /\ left \in Nat
      /\ amt # None => Room(amt) <= amt
      /\ scenario.framing # "length" /\ (amt = None \/ Arrived <= amt) => Room(amt) = Arrived
      /\ scenario.framing # "length" /\ amt # None /\ amt <= Arrived => Room(amt) = amt
      /\ scenario.framing = "length" =>
            Room(amt) = left \/ Room(amt) = Arrived \/ (amt # None /\ Room(amt) = amt)
      /\ amt \in Nat \cup {None} /\ None \notin Nat /\ fpopen \in BOOLEAN
  BY RoomIs, WireType, NoneAssumption DEF Amount, TypesOfNetwork
<1>2. \/ (~fpopen \/ amt = 0) /\ o = Got(0, fpopen)
      \/ fpopen /\ amt # 0 /\ o = Fails("timeout")
      \/ fpopen /\ amt # 0 /\ o = read
  <2>1. FpRead(amt) = IF ~fpopen \/ amt = 0 THEN {Got(0, fpopen)} ELSE {Fails("timeout"), read}
    BY Zenon DEF FpRead, read
  <2> QED BY <1>1, <2>1
<1>3. ASSUME NEW why \in {"incomplete", "timeout"}, o = Fails(why)
      PROVE Reads(o, amt) /\ o.err # "none"
  BY <1>3, FailsReads
<1>4. ASSUME NEW m \in Nat, m <= Arrived, NEW open \in BOOLEAN, o = Got(m, open), 
             amt # None => m <= amt
      PROVE  /\ Reads(o, amt) /\ o.err = "none" /\ o.open = open
             /\ Len(o.data) = m /\ (o.data = <<>> <=> m = 0)
  <2>1. /\ Got(m, open) \in Outcome
        /\ Len(Got(m, open).data) = m
        /\ m = 0 <=> Got(m, open).data = <<>>
        /\ Got(m, open).data = SubSeq(wire, next + 1, next + m)
        /\ Got(m, open).open = open /\ Got(m, open).err = "none"
    BY <1>4, GotIs
  <2> QED BY ONLY <1>4, <2>1 DEF Reads
<1> HIDE DEF read, n
<1>9. n = Room(amt)
  BY DEF n
<1>5. CASE ~fpopen \/ amt = 0
  <2>1. o = Got(0, fpopen)
    BY <1>2, <1>5
  <2>2. PICK b \in BOOLEAN : b = fpopen
    BY <1>1
  <2>3. amt # None => 0 <= amt
    BY <1>1
  <2>4. /\ Reads(o, amt) /\ o.err = "none" /\ o.open = b
        /\ Len(o.data) = 0 /\ o.data = <<>>
    BY ONLY <1>1, <1>4, <2>1, <2>2, <2>3
  <2>5. amt = None \/ 0 >= amt \/ ~fpopen
    BY <1>1, <1>5
  <2> QED BY ONLY <1>1, <1>5, <2>2, <2>4, <2>5
<1>6. CASE fpopen /\ amt # 0 /\ o = Fails("timeout")
  BY ONLY <1>3, <1>6
<1>7. CASE fpopen /\ amt # 0 /\ o = read
  <2>0. fpopen /\ amt # 0
    BY <1>7
  <2>1. CASE o = Fails("incomplete")
    BY ONLY <1>3, <2>1
  <2>2. CASE scenario.framing = "length" /\ ~(amt = None /\ n < left)
    <3>1. PICK open \in BOOLEAN : open = (n # 0 /\ n < left)
      OBVIOUS
    <3>2. o = Got(n, open)
      BY <1>7, <2>2, <3>1 DEF read
    <3>3. /\ Reads(o, amt) /\ o.err = "none" /\ o.open = open
          /\ Len(o.data) = n /\ (o.data = <<>> <=> n = 0)
      BY ONLY <1>1, <1>4, <3>2, <1>9
    <3>4. ~o.open => AllSent(o) \/ (NoneLeft(o) /\ amt # None)
      <4>1. ~o.open => ~(n # 0 /\ n < left)
        BY ONLY <3>1, <3>3, Zenon
      <4>2. ~(n # 0 /\ n < left) => AllSent(o) \/ (NoneLeft(o) /\ amt # None)
        BY ONLY <1>1, <1>9, <2>0, <2>2, <3>3 DEF AllSent, NoneLeft
      <4> QED BY ONLY <4>1, <4>2
    <3>5. o.data = <<>> => AllSent(o) \/ NoneLeft(o)
      BY ONLY <1>1, <1>9, <2>0, <2>2, <3>1, <3>3, open \in BOOLEAN DEF AllSent, NoneLeft
    <3>6. o.open => amt # None
      BY ONLY <1>1, <1>9, <2>0, <2>2, <3>1, <3>3
    <3>7. amt = None \/ Len(o.data) >= amt \/ Len(o.data) = Arrived \/ Len(o.data) = left
      BY ONLY <1>1, <1>9, <2>0, <2>2, <3>1, <3>3
    <3> QED BY ONLY <2>0, <3>3, <3>4, <3>5, <3>6, <3>7
  <2>3. CASE scenario.framing = "close"
    <3>1. PICK open \in BOOLEAN : open = (amt # None /\ n > 0)
      OBVIOUS
    <3>2. o = Got(n, open)
      BY <1>7, <2>3, <3>1 DEF read
    <3>3. /\ Reads(o, amt) /\ o.err = "none" /\ o.open = open
          /\ Len(o.data) = n /\ (o.data = <<>> <=> n = 0)
      BY ONLY <1>1, <1>4, <3>2, <1>9
    <3>4. ~o.open => AllSent(o) \/ (NoneLeft(o) /\ amt # None)
      <4>1. ~o.open => ~(amt # None /\ n > 0)
        BY ONLY <3>1, <3>3, Zenon
      <4>2. ~(amt # None /\ n > 0) => AllSent(o) \/ (NoneLeft(o) /\ amt # None)
        BY ONLY <1>1, <1>9, <2>0, <2>3, <3>3 DEF AllSent, NoneLeft
      <4> QED BY ONLY <4>1, <4>2
    <3>5. o.data = <<>> => AllSent(o) \/ NoneLeft(o)
      BY ONLY <1>1, <1>9, <2>0, <2>3, <3>1, <3>3, open \in BOOLEAN DEF AllSent, NoneLeft
    <3>6. o.open => amt # None
      BY ONLY <1>1, <1>9, <2>0, <2>3, <3>1, <3>3
    <3>7. amt = None \/ Len(o.data) >= amt \/ Len(o.data) = Arrived \/ Len(o.data) = left
      BY ONLY <1>1, <1>9, <2>0, <2>3, <3>1, <3>3
    <3> QED BY ONLY <2>0, <3>3, <3>4, <3>5, <3>6, <3>7
  <2>4. CASE /\ scenario.framing \notin {"length", "close"}
             /\ ~(Cut /\ (amt = None \/ amt > Arrived))
    <3>1. PICK open \in BOOLEAN : open = (amt # None /\ amt <= Arrived)
      OBVIOUS
    <3>2. o = Got(n, open)
      BY <1>7, <2>4, <3>1 DEF read
    <3>3. /\ Reads(o, amt) /\ o.err = "none" /\ o.open = open
          /\ Len(o.data) = n /\ (o.data = <<>> <=> n = 0)
      BY ONLY <1>1, <1>4, <3>2, <1>9
    <3>4. ~o.open => AllSent(o) \/ (NoneLeft(o) /\ amt # None)
      <4>1. ~o.open => ~(amt # None /\ amt <= Arrived)
        BY ONLY <3>1, <3>3, Zenon
      <4>2. ~(amt # None /\ amt <= Arrived) => AllSent(o) \/ (NoneLeft(o) /\ amt # None)
        BY ONLY <1>1, <1>9, <2>0, <2>4, <3>3 DEF AllSent, NoneLeft
      <4> QED BY ONLY <4>1, <4>2
    <3>5. o.data = <<>> => AllSent(o) \/ NoneLeft(o)
      BY ONLY <1>1, <1>9, <2>0, <2>4, <3>1, <3>3, open \in BOOLEAN DEF AllSent, NoneLeft
    <3>6. o.open => amt # None
      BY ONLY <1>1, <1>9, <2>0, <2>4, <3>1, <3>3
    <3>7. amt = None \/ Len(o.data) >= amt \/ Len(o.data) = Arrived \/ Len(o.data) = left
      BY ONLY <1>1, <1>9, <2>0, <2>4, <3>1, <3>3
    <3> QED BY ONLY <2>0, <3>3, <3>4, <3>5, <3>6, <3>7
  <2> QED BY <1>7, <2>1, <2>2, <2>3, <2>4 DEF read
<1> QED BY ONLY <1>2, <1>5, <1>6, <1>7, o \in FpRead(amt)

LEMMA FpRead1Is ==
    ASSUME TypesOfNetwork, NEW amt \in Amount \ {0}, NEW o \in FpRead1(amt)
    PROVE  /\ Reads(o, amt)
           /\ o.err = "none" /\ fpopen /\ (~o.open \/ o.data = <<>>) => AllSent(o) \/ NoneLeft(o)
           /\ o.err = "none" /\ o.open => fpopen
<1> DEFINE room == Room(amt)
           ended == scenario.framing = "length" /\ left = 0
<1>1. /\ Room(amt) \in Nat /\ Room(amt) <= Arrived /\ Arrived \in Nat
      /\ scenario.framing = "length" => Room(amt) <= left /\ left \in Nat
      /\ amt # None => Room(amt) <= amt
      /\ scenario.framing # "length" /\ (amt = None \/ Arrived <= amt) => Room(amt) = Arrived
      /\ scenario.framing # "length" /\ amt # None /\ amt <= Arrived => Room(amt) = amt
      /\ scenario.framing = "length" =>
            Room(amt) = left \/ Room(amt) = Arrived \/ (amt # None /\ Room(amt) = amt)
      /\ amt \in Nat \cup {None} /\ None \notin Nat /\ fpopen \in BOOLEAN /\ amt # 0
  <2>1. amt \in Amount
    OBVIOUS
  <2>2. amt \in Nat \cup {None} /\ None \notin Nat /\ fpopen \in BOOLEAN /\ Arrived \in Nat
    BY <2>1, WireType, NoneAssumption DEF Amount, TypesOfNetwork
  <2> QED BY <2>1, <2>2, RoomIs
<1> HIDE DEF room
<1>2. \/ ~fpopen /\ o = Got(0, FALSE)
      \/ fpopen /\ \E why \in {"incomplete", "timeout"} : o = Fails(why)
      \/ fpopen /\ \E n \in 1..room : o = Got(n, TRUE)
      \/ /\ fpopen /\ room = 0 /\ o = Got(0, ended)
         /\ scenario.framing = "chunked" => ~Cut
  BY DEF FpRead1, room
<1>3. room = Room(amt)
  BY DEF room
<1>4. ASSUME NEW n \in Nat, n <= room, NEW open \in BOOLEAN, o = Got(n, open)
      PROVE  /\ Reads(o, amt) /\ o.err = "none" /\ o.open = open
             /\ Len(o.data) = n /\ (o.data = <<>> <=> n = 0)
  <2>1. n <= Arrived /\ (amt # None => n <= amt)
    BY ONLY <1>1, <1>3, <1>4
  <2>2. /\ Got(n, open) \in Outcome
        /\ Len(Got(n, open).data) = n
        /\ n = 0 <=> Got(n, open).data = <<>>
        /\ Got(n, open).data = SubSeq(wire, next + 1, next + n)
        /\ Got(n, open).open = open /\ Got(n, open).err = "none"
    BY <2>1, GotIs
  <2> QED BY ONLY <1>4, <2>1, <2>2 DEF Reads
<1>5. CASE ~fpopen /\ o = Got(0, FALSE)
  <2>1. 0 <= room
    BY ONLY <1>1, <1>3
  <2>2. Reads(o, amt) /\ o.open = FALSE
    BY ONLY <1>4, <1>5, <2>1
  <2> QED BY ONLY <1>5, <2>2
<1>6. CASE \E why \in {"incomplete", "timeout"} : o = Fails(why)
  <2>1. PICK why \in {"incomplete", "timeout"} : o = Fails(why)
    BY <1>6
  <2>2. Reads(o, amt) /\ o.err # "none"
    BY <2>1, FailsReads
  <2> QED BY ONLY <2>2
<1>7. CASE fpopen /\ \E n \in 1..room : o = Got(n, TRUE)
  <2>1. PICK n \in 1..room : o = Got(n, TRUE)
    BY <1>7
  <2>2. n \in Nat /\ n <= room /\ n # 0
    BY ONLY <1>1, <1>3, n \in 1..room
  <2>3. Reads(o, amt) /\ o.open = TRUE /\ o.data # <<>>
    BY ONLY <1>4, <2>1, <2>2
  <2> QED BY ONLY <1>7, <2>3
<1>8. CASE /\ fpopen /\ room = 0 /\ o = Got(0, ended)
           /\ scenario.framing = "chunked" => ~Cut
  <2>1. PICK open \in BOOLEAN : open = ended
    OBVIOUS
  <2>2. o = Got(0, open) /\ 0 <= room
    BY ONLY <1>8, <2>1, 0 <= 0
  <2>3. Reads(o, amt) /\ Len(o.data) = 0 /\ o.data = <<>>
    BY ONLY <1>4, <2>2
  <2>4. AllSent(o) \/ NoneLeft(o)
    BY ONLY <1>1, <1>3, <1>8, <2>3 DEF AllSent, NoneLeft
  <2> QED BY ONLY <1>8, <2>3, <2>4
<1> QED BY ONLY <1>2, <1>5, <1>6, <1>7, <1>8

(* What _raw_read comes to.  Only read1() without an amount takes a body      *)
(* that broke off for a whole one.                                           *)
LEMMA RawReadIs ==
    ASSUME TypesOfNetwork, NEW amt \in Amount \ {0}, NEW one \in BOOLEAN,
           NEW o \in RawReads(amt, one)
    PROVE  /\ Reads(o, amt)
           /\ o.err = "none" /\ ~o.open /\ fpopen =>
                 AllSent(o) \/ (one /\ amt = None /\ NoneLeft(o))
           /\ o.err = "none" /\ o.data = <<>> => ~o.open
           /\ o.err = "none" /\ ~one /\ amt = None => ~o.open
           /\ o.err = "none" /\ o.open => fpopen
           /\ o.err = "none" /\ ~one /\ fpopen =>
                 amt = None \/ Len(o.data) >= amt \/ Len(o.data) = Arrived \/ Len(o.data) = left
<1>1. PICK p \in IF one THEN FpRead1(amt) ELSE FpRead(amt) : o = Settle(p, amt, one)
  BY DEF RawReads
<1> DEFINE ended == amt # None /\ amt # 0 /\ p.data = <<>>
           all1  == one /\ ((amt # 0 /\ p.data = <<>>) \/ left = Len(p.data))
<1>2. /\ amt \in Amount /\ amt # 0 /\ amt \in Nat \cup {None} /\ None \notin Nat
      /\ Len(p.data) = 0 <=> p.data = <<>>
  BY NoneAssumption DEF Amount
<1>3. /\ Reads(p, amt)
      /\ p.err = "none" /\ ~p.open /\ fpopen => AllSent(p) \/ NoneLeft(p)
      /\ p.err = "none" /\ ~p.open /\ fpopen /\ ~one => AllSent(p) \/ (NoneLeft(p) /\ amt # None)
      /\ p.err = "none" /\ p.data = <<>> /\ fpopen => AllSent(p) \/ NoneLeft(p)
      /\ p.err = "none" /\ p.open => fpopen /\ (one \/ amt # None)
      /\ p.err = "none" /\ ~one /\ fpopen =>
            amt = None \/ Len(p.data) >= amt \/ Len(p.data) = Arrived \/ Len(p.data) = left
  <2>1. CASE one
    BY <1>2, <2>1, FpRead1Is
  <2>2. CASE ~one
    BY <1>2, <2>2, FpReadIs
  <2> QED BY <2>1, <2>2
<1>4. p.err # "none" => o = p
  BY <1>1 DEF Settle
<1>5. CASE p.err # "none"
  BY ONLY <1>3, <1>4, <1>5
<1>6. CASE p.err = "none" /\ ended /\ left \notin {None, 0}
  <2>1. o = Fails("incomplete")
    BY <1>1, <1>6 DEF Settle
  <2>2. Reads(o, amt) /\ o.err # "none"
    BY <1>2, <2>1, FailsReads
  <2> QED BY ONLY <2>2
<1>7. CASE p.err = "none" /\ ~(ended /\ left \notin {None, 0})
  <2>1. o = [p EXCEPT !.open = p.open /\ ~ended /\ ~all1]
    BY <1>1, <1>7, Zenon DEF Settle
  <2>2. p \in Outcome
    BY ONLY <1>3 DEF Reads
  <2> HIDE DEF ended, all1
  <2>3. PICK open \in BOOLEAN : open = (p.open /\ ~ended /\ ~all1)
    OBVIOUS
  <2>4. o.data = p.data /\ o.err = p.err /\ o \in Outcome /\ o.open = open
    BY ONLY <2>1, <2>2, <2>3, open \in BOOLEAN DEF Outcome
  <2>5. ~o.open => ~p.open \/ ended \/ all1
    BY ONLY <2>3, <2>4, Zenon
  <2>6. o.open => p.open /\ ~ended /\ ~all1
    BY ONLY <2>3, <2>4, Zenon
  <2>7. Reads(o, amt)
    BY ONLY <1>3, <2>4 DEF Reads
  <2>8. (AllSent(p) <=> AllSent(o)) /\ (NoneLeft(p) <=> NoneLeft(o))
    BY ONLY <2>4 DEF AllSent, NoneLeft
  <2>9. /\ scenario.framing # "length" => left = None
        /\ scenario.framing = "length" => left \in Nat
    BY WireType DEF TypesOfNetwork, left
  <2>10. fpopen /\ ~o.open => AllSent(o) \/ (one /\ amt = None /\ NoneLeft(o))
    <3> SUFFICES ASSUME fpopen, ~o.open PROVE AllSent(p) \/ (one /\ amt = None /\ NoneLeft(p))
      BY <2>8
    <3>1. CASE ended
      <4>1. p.data = <<>> /\ (left = None \/ left = 0) /\ amt # None
        BY ONLY <1>7, <3>1 DEF ended
      <4>2. scenario.framing = "length" => left = Len(p.data)
        BY ONLY <1>2, <2>9, <4>1
      <4>3. AllSent(p) \/ NoneLeft(p)
        BY ONLY <1>3, <1>7, <4>1, fpopen
      <4> QED BY ONLY <4>2, <4>3 DEF AllSent, NoneLeft
    <3>2. CASE ~ended /\ all1
      <4>1. one /\ (p.data = <<>> \/ left = Len(p.data))
        BY ONLY <3>2 DEF all1
      <4>2. p.data = <<>> => amt = None
        BY ONLY <1>2, <3>2 DEF ended
      <4>3. Len(p.data) \in Nat
        BY <2>2, LenProperties DEF Outcome
      <4> QED BY ONLY <1>2, <1>3, <1>7, <2>9, <4>1, <4>2, <4>3, fpopen DEF AllSent, NoneLeft
    <3>3. CASE ~ended /\ ~all1
      <4>1. ~p.open
        BY <2>5, <3>3
      <4>2. one /\ p.data = <<>> => FALSE
        BY ONLY <1>2, <3>3 DEF all1
      <4>3. p.data = <<>> /\ amt # None => FALSE
        BY ONLY <1>2, <3>3 DEF ended
      <4> QED BY ONLY <1>2, <1>3, <1>7, <4>1, <4>2, <4>3, fpopen DEF NoneLeft
    <3> QED BY <3>1, <3>2, <3>3
  <2>11. o.data = <<>> => ~o.open
    BY ONLY <1>2, <1>3, <1>7, <2>4, <2>6 DEF ended, all1
  <2> QED BY ONLY <1>3, <1>7, <2>4, <2>6, <2>7, <2>10, <2>11
<1> QED BY <1>5, <1>6, <1>7

(***************************************************************************)
(* Every step keeps the types.                                              *)
(***************************************************************************)
LEMMA NetworkStays ==
    ASSUME TypesOfNetwork, NoNetwork, UNCHANGED <<scenario, chunk_left>>
    PROVE  TypesOfNetwork'
BY DEF TypesOfNetwork, NoNetwork, network, wire

LEMMA NetworkReceives ==
    ASSUME TypesOfNetwork, NEW o \in Outcome, Len(o.data) <= Arrived, Receive(o),
           scenario' = scenario, chunk_left' \in (Nat \ {0}) \cup {None}
    PROVE  TypesOfNetwork'
<1>1. /\ Len(wire) \in Nat /\ next \in Nat /\ Arrived \in Nat /\ next + Arrived = scenario.sent
      /\ scenario.sent \in 0..Len(wire)
  BY WireType
<1>2. Len(o.data) \in Nat /\ o.open \in BOOLEAN /\ o.mid \in BOOLEAN
  BY LenProperties DEF Outcome
<1>3. /\ next' = next + Len(o.data)
      /\ left' = IF left = None THEN None ELSE left - Len(o.data)
      /\ fpopen' \in BOOLEAN /\ fpchunk' \in BOOLEAN
      /\ sock' = IF o.err # "none" /\ conn = "held" THEN "closed" ELSE sock
      /\ conn' = IF fpopen' THEN conn ELSE "put"
  BY <1>2 DEF Receive, Caught, left
<1>4. /\ scenario \in Scenarios /\ conn \in {"held", "put"} /\ sock \in {"open", "closed"}
      /\ left = IF scenario.framing = "length" THEN Len(wire) - next ELSE None
  BY DEF TypesOfNetwork, left
<1>5. wire' = wire
  BY DEF wire
<1>6. next' \in 0..scenario.sent
  BY ONLY <1>1, <1>2, <1>3, Len(o.data) <= Arrived
<1>7. left' = IF scenario.framing = "length" THEN Len(wire) - next' ELSE None
  <2>1. CASE scenario.framing = "length"
    <3>1. left = Len(wire) - next /\ left \in Nat
      BY ONLY <1>1, <1>4, <2>1
    <3>2. left # None
      BY ONLY <3>1, NoneAssumption
    <3>3. left' = left - Len(o.data) /\ next' = next + Len(o.data)
      BY ONLY <1>3, <3>2
    <3>4. left' = Len(wire) - next'
      BY ONLY <1>1, <1>2, <3>1, <3>3
    <3> QED BY ONLY <2>1, <3>4
  <2>2. CASE scenario.framing # "length"
    BY ONLY <1>3, <1>4, <2>2
  <2> QED BY ONLY <2>1, <2>2
<1>8. conn' \in {"held", "put"} /\ sock' \in {"open", "closed"}
  BY ONLY <1>3, <1>4
<1> QED BY <1>3, <1>4, <1>5, <1>6, <1>7, <1>8 DEF TypesOfNetwork, left

LEMMA CallEnds ==
    ASSUME TypesOfCalls, call' = Idle, iter' \in {iter, NotIterating}, delivered' \in Seq(Nat),
           spoiled' \in BOOLEAN, scenario' = scenario
    PROVE  TypesOfCalls'
BY DEF TypesOfCalls

LEMMA CallRaises ==
    ASSUME TypesOfCalls, NEW why, Raises(why), scenario' = scenario
    PROVE  TypesOfCalls'
<1>1. /\ call' = Idle /\ iter' = NotIterating /\ delivered' = delivered /\ spoiled' = TRUE
  BY DEF Raises
<1>2. delivered \in Seq(Nat)
  BY DEF TypesOfCalls
<1> QED BY <1>1, <1>2, CallEnds

LEMMA CallReturns ==
    ASSUME TypesOfCalls, NEW m, NEW amt, NEW out \in Seq(Nat), Returns(m, amt, out),
           scenario' = scenario
    PROVE  TypesOfCalls'
<1>1. /\ call' = Idle /\ iter' = iter /\ delivered' = delivered \o out /\ spoiled' = spoiled
  BY DEF Returns
<1>2. delivered \in Seq(Nat) /\ spoiled \in BOOLEAN
  BY DEF TypesOfCalls
<1>3. delivered \o out \in Seq(Nat)
  BY <1>2, ConcatProperties
<1> QED BY <1>1, <1>2, <1>3, CallEnds

LEMMA CallReturnsBuffered ==
    ASSUME TypesOfCalls, NEW m, NEW amt, NEW g, IsBuffer(g.b), g.out \in Seq(Nat),
           ReturnsBuffered(m, amt, g), scenario' = scenario
    PROVE  TypesOfCalls' /\ IsBuffer(buffer')
<1>1. buffer' = g.b
  BY DEF ReturnsBuffered
<1>2. Returns(m, amt, g.out) \/ Raises("empty")
  BY DEF ReturnsBuffered
<1>3. PICK out \in Seq(Nat) : out = g.out
  OBVIOUS
<1> QED BY <1>1, <1>2, <1>3, CallReturns, CallRaises

LEMMA TakenIs ==
    ASSUME NEW b, IsBuffer(b), NEW amt \in Amount
    PROVE  /\ IsBuffer(Taken(b, amt).b) /\ Taken(b, amt).out \in Seq(Nat)
           /\ Content(b) = Taken(b, amt).out \o Content(Taken(b, amt).b)
           /\ amt # 0 /\ b.size > 0 => Taken(b, amt).out # <<>>
<1>0. b.size \in Nat /\ amt \in Nat \cup {None}
  BY DEF IsBuffer, Amount
<1>1. CASE amt = None
  <2>1. PICK g : g = GetAll(b)
    OBVIOUS
  <2>2. /\ IsBuffer(g.b) /\ g.out \in Seq(Nat) /\ Content(g.b) = <<>> /\ g.out = Content(b)
        /\ Len(g.out) = b.size
    BY <2>1, GetAllIs
  <2>3. g.out \o <<>> = g.out
    BY <2>2, ConcatEmptySeq
  <2>4. b.size > 0 => g.out # <<>>
    BY ONLY <1>0, <2>2, EmptySeq
  <2>5. Taken(b, amt) = g
    BY <1>1, <2>1 DEF Taken
  <2> QED BY ONLY <2>2, <2>3, <2>4, <2>5
<1>2. CASE amt # None
  <2>0. amt \in Nat
    BY <1>0, <1>2
  <2>1. PICK g : g = Get(b, amt)
    OBVIOUS
  <2>2. /\ IsBuffer(g.b) /\ g.out \in Seq(Nat) /\ Len(g.out) = Smaller(amt, b.size)
        /\ Content(b) = g.out \o Content(g.b)
    BY <2>0, <2>1, GetIs
  <2>3. Taken(b, amt) = g
    BY <1>2, <2>1 DEF Taken
  <2>4. amt # 0 /\ b.size > 0 => g.out # <<>>
    <3>1. amt # 0 /\ b.size > 0 => Smaller(amt, b.size) # 0
      BY ONLY <1>0, <2>0 DEF Smaller
    <3> QED BY ONLY <2>2, <3>1, EmptySeq
  <2> QED BY ONLY <2>2, <2>3, <2>4
<1> QED BY <1>1, <1>2

(* The amount that is still missing.                                        *)
LEMMA MissingIs ==
    ASSUME NEW b, IsBuffer(b), NEW amt \in Amount, amt # None, b.size < amt
    PROVE  amt - b.size \in Amount /\ amt \in Nat
BY DEF IsBuffer, Amount

LEMMA BeginReadTypes ==
    ASSUME Types, NEW amt \in Amount, NEW cache \in BOOLEAN, BeginRead(amt, cache),
           UNCHANGED <<scenario, chunk_left>>
    PROVE  Types'
<1>1. TypesOfNetwork /\ TypesOfReading /\ TypesOfCalls
  BY DEF Types
<1>2. TypesOfNetwork'
  BY <1>1, NetworkStays DEF BeginRead
<1>3. PICK d, b : d = decoder /\ b = buffer
  OBVIOUS
<1>4. d \in Maybe /\ IsBuffer(b) /\ hasdecoded \in BOOLEAN /\ b.size \in Nat
  BY <1>1, <1>3 DEF TypesOfReading, IsBuffer
<1>5. cached' = cached /\ uncached' = uncached
  BY DEF BeginRead
<1>6. PICK i \in Maybe : i = Initialised
  BY <1>3, <1>4, InitialisedType
<1>7. CASE amt = None
  <2>1. /\ decoder' = i /\ hasdecoded' = hasdecoded /\ buffer' = buffer
        /\ Continues([m |-> "read", amt |-> None, cache |-> cache, first |-> TRUE])
    BY <1>6, <1>7 DEF BeginRead
  <2>2. TypesOfReading'
    BY <1>1, <1>5, <2>1 DEF TypesOfReading
  <2>3. [m |-> "read", amt |-> None, cache |-> cache, first |-> TRUE] \in ReadCall
    BY NoneAssumption DEF ReadCall, Amount
  <2>4. TypesOfCalls'
    BY <1>1, <2>1, <2>3 DEF TypesOfCalls, Continues
  <2> QED BY <1>2, <2>2, <2>4 DEF Types
<1>8. CASE amt # None /\ b.size >= amt
  <2>1. /\ decoder' = i /\ hasdecoded' = hasdecoded
        /\ ReturnsBuffered("read", amt, Get(b, amt))
    BY <1>3, <1>6, <1>8 DEF BeginRead
  <2>2. amt \in Nat
    BY <1>8 DEF Amount
  <2>3. IsBuffer(Get(b, amt).b) /\ Get(b, amt).out \in Seq(Nat)
    BY <1>4, <2>2, GetIs
  <2>4. TypesOfCalls' /\ IsBuffer(buffer')
    BY <1>1, <2>1, <2>3, CallReturnsBuffered
  <2>5. TypesOfReading'
    BY <1>1, <1>5, <2>1, <2>4 DEF TypesOfReading
  <2> QED BY <1>2, <2>4, <2>5 DEF Types
<1>9. CASE amt # None /\ ~(b.size >= amt)
  <2>1. amt \in Nat /\ b.size < amt /\ amt - b.size \in Amount /\ amt # 0
    BY <1>4, <1>9 DEF Amount
  <2>2. PICK r \in MaybeDecoded : r = FromTail(i, amt - b.size)
    BY <2>1, FromTailType
  <2> DEFINE c == Refilled(r)
  <2>3. /\ decoder' = r.d /\ hasdecoded' = (hasdecoded \/ HasTail(decoder))
        /\ IF ~r.ok THEN Raises("undecodable") /\ UNCHANGED buffer
           ELSE IF c.size >= amt THEN ReturnsBuffered("read", amt, Get(c, amt))
           ELSE /\ buffer' = c
                /\ Continues([m |-> "read", amt |-> amt, cache |-> FALSE, first |-> TRUE])
    <3>1. ~(buffer.size >= amt)
      BY <1>3, <1>9
    <3> QED BY <1>3, <1>6, <1>9, <2>2, <3>1, Zenon DEF BeginRead
  <2>4. r.d \in Maybe /\ r.out \in Seq(Nat) /\ r.ok \in BOOLEAN
    BY DEF MaybeDecoded
  <2>5. IsBuffer(c)
    BY <1>3, <1>4, <2>4, PutIs DEF Refilled
  <2>6. hasdecoded' \in BOOLEAN
    BY <1>4, <2>3
  <2>7. ASSUME IsBuffer(buffer') PROVE TypesOfReading'
    BY <1>1, <1>5, <2>3, <2>4, <2>6, <2>7 DEF TypesOfReading
  <2>8. PICK k : k = c
    OBVIOUS
  <2> HIDE DEF c
  <2>9. CASE ~r.ok
    <3>1. Raises("undecodable") /\ buffer' = b
      BY <1>3, <2>3, <2>9
    <3>2. TypesOfCalls'
      BY <1>1, <3>1, CallRaises
    <3> QED BY <1>2, <1>4, <2>7, <3>1, <3>2 DEF Types
  <2>10. CASE r.ok /\ c.size >= amt
    <3>1. ReturnsBuffered("read", amt, Get(k, amt))
      BY <2>3, <2>8, <2>10
    <3>2. IsBuffer(Get(k, amt).b) /\ Get(k, amt).out \in Seq(Nat)
      BY <2>1, <2>5, <2>8, GetIs
    <3>3. TypesOfCalls' /\ IsBuffer(buffer')
      BY <1>1, <3>1, <3>2, CallReturnsBuffered
    <3> QED BY <1>2, <2>7, <3>3 DEF Types
  <2>11. CASE r.ok /\ ~(c.size >= amt)
    <3>1. /\ buffer' = c
          /\ Continues([m |-> "read", amt |-> amt, cache |-> FALSE, first |-> TRUE])
      BY <2>3, <2>11
    <3>2. [m |-> "read", amt |-> amt, cache |-> FALSE, first |-> TRUE] \in ReadCall
      BY <2>1 DEF ReadCall
    <3>3. c.size < amt
      BY <2>1, <2>5, <2>11 DEF IsBuffer
    <3>4. TypesOfCalls'
      BY <1>1, <3>1, <3>2, <3>3 DEF TypesOfCalls, Continues
    <3>5. IsBuffer(buffer')
      BY <2>5, <3>1
    <3> QED BY <1>2, <2>7, <3>4, <3>5 DEF Types
  <2> QED BY <2>9, <2>10, <2>11
<1> QED BY <1>7, <1>8, <1>9

LEMMA FinishAllTypes ==
    ASSUME TypesOfReading, TypesOfCalls, NEW data \in Seq(Unit), FinishAll(data),
           uncached' \in BOOLEAN, scenario' = scenario
    PROVE  TypesOfReading' /\ TypesOfCalls'
<1>1. PICK d, b : d = decoder /\ b = buffer
  OBVIOUS
<1>2. /\ d \in Maybe /\ IsBuffer(b) /\ hasdecoded \in BOOLEAN
      /\ cached \in Seq(Nat) \cup {None}
  BY <1>1 DEF TypesOfReading
<1>3. PICK r \in MaybeDecoded : r = Decode(d, data, TRUE, None)
  BY <1>2, DecodeType DEF Amount
<1> DEFINE all == IF scenario.decode /\ b.size > 0 THEN GetAll(Put(b, r.out))
                  ELSE [ok |-> TRUE, out |-> r.out, b |-> b]
<1>4. /\ Decodes(r.d)
      /\ IF ~r.ok THEN Raises("undecodable") /\ UNCHANGED <<buffer, cached>>
         ELSE /\ ReturnsBuffered("read", None, all)
              /\ cached' = IF call.cache /\ ~uncached THEN all.out ELSE cached
  BY <1>1, <1>3, Zenon DEF FinishAll
<1>5. r.d \in Maybe /\ r.out \in Seq(Nat) /\ r.ok \in BOOLEAN
  BY DEF MaybeDecoded
<1>6. decoder' \in Maybe /\ hasdecoded' \in BOOLEAN
  BY <1>2, <1>4, <1>5 DEF Decodes
<1>7. PICK g : g = all
  OBVIOUS
<1>8. IsBuffer(g.b) /\ g.out \in Seq(Nat)
  <2>1. CASE scenario.decode /\ b.size > 0
    <3>1. PICK c : c = Put(b, r.out)
      OBVIOUS
    <3>2. IsBuffer(c)
      BY <1>2, <1>5, <3>1, PutIs
    <3>3. g = GetAll(c)
      BY <1>7, <2>1, <3>1
    <3> QED BY <3>2, <3>3, GetAllIs
  <2>2. CASE ~(scenario.decode /\ b.size > 0)
    <3>1. g = [ok |-> TRUE, out |-> r.out, b |-> b]
      BY <1>7, <2>2
    <3> QED BY ONLY <1>2, <1>5, <3>1
  <2> QED BY <2>1, <2>2
<1> HIDE DEF all
<1>9. CASE ~r.ok
  <2>1. Raises("undecodable") /\ buffer' = b /\ cached' = cached
    BY <1>1, <1>4, <1>9
  <2>2. TypesOfCalls'
    BY <2>1, CallRaises
  <2> QED BY <1>2, <1>6, <2>1, <2>2 DEF TypesOfReading
<1>10. CASE r.ok
  <2>1. ReturnsBuffered("read", None, g) /\ cached' \in {g.out, cached}
    BY <1>4, <1>7, <1>10
  <2>2. TypesOfCalls' /\ IsBuffer(buffer')
    BY <1>8, <2>1, CallReturnsBuffered
  <2>3. cached' \in Seq(Nat) \cup {None}
    BY <1>2, <1>8, <2>1
  <2> QED BY <1>6, <2>2, <2>3 DEF TypesOfReading
<1> QED BY <1>9, <1>10

LEMMA FinishSomeTypes ==
    ASSUME TypesOfReading, TypesOfCalls, NEW data \in Seq(Unit), call \in ReadCall,
           call.amt # None, FinishSome(data), uncached' \in BOOLEAN, scenario' = scenario
    PROVE  TypesOfReading' /\ TypesOfCalls'
<1>1. PICK d, b, amt : d = decoder /\ b = buffer /\ amt = call.amt
  OBVIOUS
<1>2. /\ d \in Maybe /\ IsBuffer(b) /\ hasdecoded \in BOOLEAN
      /\ cached \in Seq(Nat) \cup {None}
  BY <1>1 DEF TypesOfReading
<1>3. amt \in Nat /\ amt # None /\ b.size < amt /\ b.size \in Nat
  <2>1. b.size < amt
    BY <1>1 DEF TypesOfCalls, ReadCall, Read1Call, Idle, DrainCall
  <2>2. amt \in Amount /\ amt # None
    BY <1>1 DEF ReadCall
  <2> QED BY <1>2, <2>1, <2>2 DEF Amount, IsBuffer
<1>4. PICK flush \in BOOLEAN : flush = (call.first /\ data = <<>>)
  OBVIOUS
<1>5. amt - b.size \in Amount
  BY <1>3 DEF Amount
<1>6. PICK r \in MaybeDecoded : r = Decode(d, data, flush, amt - b.size)
  BY <1>2, <1>5, DecodeType
<1>7. r.d \in Maybe /\ r.out \in Seq(Nat) /\ r.ok \in BOOLEAN
  BY DEF MaybeDecoded
<1>8. PICK c : c = Put(b, r.out)
  OBVIOUS
<1>9. /\ Decodes(r.d) /\ UNCHANGED cached
      /\ IF ~r.ok THEN Raises("undecodable") /\ UNCHANGED buffer
         ELSE IF c.size < amt /\ data # <<>>
         THEN buffer' = c /\ Continues([call EXCEPT !.first = FALSE])
         ELSE ReturnsBuffered("read", amt, Get(c, amt))
  BY <1>1, <1>4, <1>6, <1>8, Zenon DEF FinishSome
<1>10. decoder' \in Maybe /\ hasdecoded' \in BOOLEAN /\ cached' = cached
  BY <1>2, <1>7, <1>9 DEF Decodes
<1>11. ASSUME IsBuffer(buffer') PROVE TypesOfReading'
  BY <1>2, <1>10, <1>11 DEF TypesOfReading
<1>12. IsBuffer(c)
  BY <1>2, <1>7, <1>8, PutIs
<1>13. CASE ~r.ok
  <2>1. Raises("undecodable") /\ buffer' = b
    BY <1>1, <1>9, <1>13
  <2>2. TypesOfCalls'
    BY <2>1, CallRaises
  <2> QED BY <1>2, <1>11, <2>1, <2>2
<1>14. CASE r.ok /\ c.size < amt /\ data # <<>>
  <2>1. buffer' = c /\ Continues([call EXCEPT !.first = FALSE])
    BY <1>9, <1>14
  <2>2. [call EXCEPT !.first = FALSE] \in ReadCall /\ [call EXCEPT !.first = FALSE].amt = amt
    BY <1>1 DEF ReadCall
  <2>3. TypesOfCalls'
    BY <1>14, <2>1, <2>2 DEF TypesOfCalls, Continues
  <2> QED BY <1>11, <1>12, <2>1, <2>3
<1>15. CASE r.ok /\ ~(c.size < amt /\ data # <<>>)
  <2>1. ReturnsBuffered("read", amt, Get(c, amt))
    BY <1>9, <1>15
  <2>2. IsBuffer(Get(c, amt).b) /\ Get(c, amt).out \in Seq(Nat)
    BY <1>3, <1>12, GetIs
  <2>3. TypesOfCalls' /\ IsBuffer(buffer')
    BY <2>1, <2>2, CallReturnsBuffered
  <2> QED BY <1>11, <2>3
<1> QED BY <1>13, <1>14, <1>15

(* The call in progress is the one its name says.                           *)
LEMMA CallIs ==
    ASSUME TypesOfCalls
    PROVE  /\ call.m = "read" => call \in ReadCall
           /\ call.m = "read1" => call \in Read1Call
           /\ call \in ReadCall => call.amt \in Amount \ {0} /\ call.cache \in BOOLEAN
           /\ call \in Read1Call => call.amt \in Amount \ {0}
BY DEF TypesOfCalls, ReadCall, Read1Call, Idle, DrainCall

LEMMA ReadMoreTypes ==
    ASSUME Types, ReadMore PROVE Types'
<1>1. TypesOfNetwork /\ TypesOfReading /\ TypesOfCalls
  BY DEF Types
<1>2. call \in ReadCall /\ call.amt \in Amount \ {0} /\ call.cache \in BOOLEAN
  BY <1>1, CallIs DEF ReadMore
<1>3. PICK amt \in Amount \ {0} : amt = call.amt
  BY <1>2
<1>4. PICK o \in RawReads(amt, FALSE) :
          /\ Receive(o)
          /\ IF o.err # "none" THEN Raises(o.err) /\ UNCHANGED reading
             ELSE /\ uncached' = (uncached \/ ~call.cache)
                  /\ IF call.first /\ o.data = <<>> /\ buffer.size = 0 /\ ~HasTail(decoder)
                     THEN /\ Returns("read", call.amt, <<>>)
                          /\ UNCHANGED <<decoder, hasdecoded, buffer, cached>>
                     ELSE IF call.amt = None THEN FinishAll(o.data)
                     ELSE IF ~scenario.decode
                     THEN /\ Returns("read", call.amt, Bytes(o.data))
                          /\ UNCHANGED <<decoder, hasdecoded, buffer, cached>>
                     ELSE FinishSome(o.data)
  BY <1>3 DEF ReadMore
<1>5. scenario' = scenario /\ chunk_left' = chunk_left
  BY DEF ReadMore
<1>6. Reads(o, amt)
  BY <1>1, RawReadIs
<1>7. o \in Outcome /\ Len(o.data) <= Arrived /\ o.data \in Seq(Unit)
  BY <1>6 DEF Reads, Outcome
<1>8. TypesOfNetwork'
  <2>1. chunk_left' \in (Nat \ {0}) \cup {None}
    BY <1>1, <1>5 DEF TypesOfNetwork
  <2> QED BY <1>1, <1>4, <1>5, <1>7, <2>1, NetworkReceives
<1>9. uncached \in BOOLEAN /\ <<>> \in Seq(Nat)
  BY <1>1, EmptySeq DEF TypesOfReading
<1>10. CASE o.err # "none"
  <2>1. Raises(o.err) /\ UNCHANGED reading
    BY <1>4, <1>10
  <2>2. TypesOfCalls'
    BY <1>1, <1>5, <2>1, CallRaises
  <2>3. TypesOfReading'
    BY <1>1, <2>1 DEF TypesOfReading, reading
  <2> QED BY <1>8, <2>2, <2>3 DEF Types
<1>11. ASSUME o.err = "none", NEW out \in Seq(Nat), Returns("read", call.amt, out),
              UNCHANGED <<decoder, hasdecoded, buffer, cached>>
       PROVE  Types'
  <2>1. TypesOfCalls'
    BY <1>1, <1>3, <1>5, <1>11, CallReturns
  <2>2. uncached' \in BOOLEAN
    BY <1>2, <1>4, <1>9, <1>11
  <2>3. TypesOfReading'
    BY <1>1, <1>11, <2>2 DEF TypesOfReading
  <2> QED BY <1>8, <2>1, <2>3 DEF Types
<1>12. CASE o.err = "none"
  <2>1. uncached' \in BOOLEAN
    BY <1>2, <1>4, <1>9, <1>12
  <2>2. ASSUME FinishAll(o.data) PROVE Types'
    BY <1>1, <1>5, <1>7, <1>8, <2>1, <2>2, FinishAllTypes DEF Types
  <2>3. ASSUME FinishSome(o.data), call.amt # None PROVE Types'
    BY <1>1, <1>2, <1>5, <1>7, <1>8, <2>1, <2>3, FinishSomeTypes DEF Types
  <2>4. Bytes(o.data) \in Seq(Nat)
    BY <1>7, BytesType
  <2> QED BY <1>4, <1>9, <1>11, <1>12, <2>2, <2>3, <2>4
<1> QED BY <1>10, <1>12

LEMMA Read1Types ==
    ASSUME Types, NEW amt, Read1(amt) PROVE Types'
<1>1. TypesOfNetwork /\ TypesOfReading /\ TypesOfCalls
  BY DEF Types
<1>2. amt \in Amount /\ scenario' = scenario /\ chunk_left' = chunk_left
  <2>1. <<"read1", amt>> \in scenario.calls
    BY DEF Read1, MayCall
  <2>2. IsScenario(scenario)
    BY <1>1, WireType
  <2>3. <<"read1", amt>>[2] \in Nat \cup {None}
    BY <2>1, <2>2 DEF IsScenario
  <2> QED BY <2>3 DEF Amount, Read1
<1>3. TypesOfNetwork'
  BY <1>1, <1>2, NetworkStays DEF Read1
<1>4. PICK d, b : d = decoder /\ b = buffer
  OBVIOUS
<1>5. d \in Maybe /\ IsBuffer(b) /\ hasdecoded \in BOOLEAN /\ b.size \in Nat
  BY <1>1, <1>4 DEF TypesOfReading, IsBuffer
<1>6. PICK more \in BOOLEAN : more = (hasdecoded /\ (amt = None \/ b.size < amt))
  OBVIOUS
<1>7. PICK room : room = IF amt = None THEN None ELSE amt - b.size
  OBVIOUS
<1>8. more => room \in Amount
  <2>1. more => amt = None \/ b.size < amt
    BY <1>6
  <2>2. CASE amt = None
    BY <1>7, <2>2 DEF Amount
  <2>3. CASE amt # None
    <3>1. amt \in Nat /\ room = amt - b.size
      BY <1>2, <1>7, <2>3 DEF Amount
    <3>2. more => room \in Nat
      BY ONLY <1>5, <2>1, <2>3, <3>1
    <3> QED BY <3>2 DEF Amount
  <2> QED BY <2>2, <2>3
<1>9. PICK r : r = IF more THEN FromTail(d, room) ELSE [d |-> d, out |-> <<>>, ok |-> TRUE]
  OBVIOUS
<1>10. r \in MaybeDecoded
  <2>1. <<>> \in Seq(Nat)
    BY EmptySeq
  <2>2. [d |-> d, out |-> <<>>, ok |-> TRUE] \in MaybeDecoded
    BY ONLY <1>5, <2>1 DEF MaybeDecoded
  <2>3. more => FromTail(d, room) \in MaybeDecoded
    BY <1>5, <1>8, FromTailType
  <2> QED BY ONLY <1>9, <2>2, <2>3, more \in BOOLEAN
<1>11. r.d \in Maybe /\ r.out \in Seq(Nat) /\ r.ok \in BOOLEAN
  BY <1>10 DEF MaybeDecoded
<1>12. PICK c : c = IF more THEN Refilled(r) ELSE b
  OBVIOUS
<1>13. IsBuffer(c)
  <2>1. IsBuffer(Put(b, r.out))
    BY <1>5, <1>11, PutIs
  <2>2. Refilled(r) = Put(b, r.out) \/ Refilled(r) = b
    BY <1>4 DEF Refilled
  <2> QED BY ONLY <1>5, <1>12, <2>1, <2>2, more \in BOOLEAN
<1>14. /\ hasdecoded' = hasdecoded /\ cached' = cached /\ uncached' = uncached
       /\ decoder' = r.d
       /\ IF ~r.ok THEN Raises("undecodable") /\ UNCHANGED buffer
          ELSE IF hasdecoded /\ c.size > 0
          THEN ReturnsBuffered("read1", amt, Taken(c, amt))
          ELSE /\ buffer' = c
               /\ IF amt = 0 THEN Returns("read1", amt, <<>>)
                  ELSE Continues([m |-> "read1", amt |-> amt, first |-> TRUE])
  BY <1>4, <1>6, <1>7, <1>9, <1>12, Zenon DEF Read1
<1>15. ASSUME IsBuffer(buffer') PROVE TypesOfReading'
  BY <1>1, <1>11, <1>14, <1>15 DEF TypesOfReading
<1>16. CASE ~r.ok
  <2>1. Raises("undecodable") /\ buffer' = b
    BY <1>4, <1>14, <1>16
  <2>2. TypesOfCalls'
    BY <1>1, <1>2, <2>1, CallRaises
  <2> QED BY <1>3, <1>5, <1>15, <2>1, <2>2 DEF Types
<1>17. CASE r.ok /\ hasdecoded /\ c.size > 0
  <2>1. ReturnsBuffered("read1", amt, Taken(c, amt))
    BY <1>14, <1>17
  <2>2. IsBuffer(Taken(c, amt).b) /\ Taken(c, amt).out \in Seq(Nat)
    BY <1>2, <1>13, TakenIs
  <2>3. TypesOfCalls' /\ IsBuffer(buffer')
    BY <1>1, <1>2, <2>1, <2>2, CallReturnsBuffered
  <2> QED BY <1>3, <1>15, <2>3 DEF Types
<1>18. CASE r.ok /\ ~(hasdecoded /\ c.size > 0)
  <2>1. /\ buffer' = c
        /\ IF amt = 0 THEN Returns("read1", amt, <<>>)
           ELSE Continues([m |-> "read1", amt |-> amt, first |-> TRUE])
    BY <1>14, <1>18
  <2>2. TypesOfReading'
    BY <1>13, <1>15, <2>1
  <2>3. CASE amt = 0
    <3>1. Returns("read1", amt, <<>>) /\ <<>> \in Seq(Nat)
      BY <2>1, <2>3, EmptySeq
    <3>2. TypesOfCalls'
      BY <1>1, <1>2, <3>1, CallReturns
    <3> QED BY <1>3, <2>2, <3>2 DEF Types
  <2>4. CASE amt # 0
    <3>1. Continues([m |-> "read1", amt |-> amt, first |-> TRUE])
      BY <2>1, <2>4
    <3>2. [m |-> "read1", amt |-> amt, first |-> TRUE] \in Read1Call
      BY <1>2, <2>4 DEF Read1Call
    <3>3. TypesOfCalls'
      BY <1>1, <1>2, <3>1, <3>2 DEF TypesOfCalls, Continues
    <3> QED BY <1>3, <2>2, <3>3 DEF Types
  <2> QED BY <2>3, <2>4
<1> QED BY <1>11, <1>16, <1>17, <1>18

LEMMA FinishRead1Types ==
    ASSUME TypesOfReading, TypesOfCalls, NEW data \in Seq(Unit), call \in Read1Call,
           FinishRead1(data), uncached' \in BOOLEAN, scenario' = scenario
    PROVE  TypesOfReading' /\ TypesOfCalls'
<1>1. PICK d, b, amt : d = decoder /\ b = buffer /\ amt = call.amt
  OBVIOUS
<1>2. /\ d \in Maybe /\ IsBuffer(b) /\ hasdecoded \in BOOLEAN
      /\ cached \in Seq(Nat) \cup {None} /\ amt \in Amount
  BY <1>1 DEF TypesOfReading, Read1Call
<1>3. PICK i \in Maybe : i = Initialised
  BY <1>1, <1>2, InitialisedType
<1>4. PICK flush \in BOOLEAN : flush = (data = <<>>)
  OBVIOUS
<1>5. PICK r \in MaybeDecoded : r = Decode(i, data, flush, amt)
  BY <1>2, DecodeType
<1>6. r.d \in Maybe /\ r.out \in Seq(Nat) /\ r.ok \in BOOLEAN
  BY DEF MaybeDecoded
<1>7. PICK c : c = Put(b, r.out)
  OBVIOUS
<1>8. /\ Decodes(r.d) /\ UNCHANGED cached
      /\ IF ~r.ok THEN Raises("undecodable") /\ UNCHANGED buffer
         ELSE IF r.out = <<>> /\ data # <<>>
         THEN buffer' = c /\ Continues([call EXCEPT !.first = FALSE])
         ELSE ReturnsBuffered("read1", amt, Taken(c, amt))
  BY <1>1, <1>3, <1>4, <1>5, <1>7, Zenon DEF FinishRead1
<1>9. decoder' \in Maybe /\ hasdecoded' \in BOOLEAN /\ cached' = cached
  BY <1>2, <1>6, <1>8 DEF Decodes
<1>10. ASSUME IsBuffer(buffer') PROVE TypesOfReading'
  BY <1>2, <1>9, <1>10 DEF TypesOfReading
<1>11. IsBuffer(c)
  BY <1>2, <1>6, <1>7, PutIs
<1>12. CASE ~r.ok
  <2>1. Raises("undecodable") /\ buffer' = b
    BY <1>1, <1>8, <1>12
  <2>2. TypesOfCalls'
    BY <2>1, CallRaises
  <2> QED BY <1>2, <1>10, <2>1, <2>2
<1>13. CASE r.ok /\ r.out = <<>> /\ data # <<>>
  <2>1. buffer' = c /\ Continues([call EXCEPT !.first = FALSE])
    BY <1>8, <1>13
  <2>2. [call EXCEPT !.first = FALSE] \in Read1Call
    BY DEF Read1Call
  <2>3. TypesOfCalls'
    BY <2>1, <2>2 DEF TypesOfCalls, Continues
  <2> QED BY <1>10, <1>11, <2>1, <2>3
<1>14. CASE r.ok /\ ~(r.out = <<>> /\ data # <<>>)
  <2>1. ReturnsBuffered("read1", amt, Taken(c, amt))
    BY <1>8, <1>14
  <2>2. IsBuffer(Taken(c, amt).b) /\ Taken(c, amt).out \in Seq(Nat)
    BY <1>2, <1>11, TakenIs
  <2>3. TypesOfCalls' /\ IsBuffer(buffer')
    BY <2>1, <2>2, CallReturnsBuffered
  <2> QED BY <1>10, <2>3
<1> QED BY <1>6, <1>12, <1>13, <1>14

LEMMA BigIs == ASSUME TypesOfNetwork PROVE Big \in Amount \ {0}
<1>1. Len(wire) \in Nat /\ Len(wire) < Big
  BY WireType
<1> QED BY <1>1, BigAssumption DEF Amount

LEMMA Read1MoreTypes ==
    ASSUME Types, Read1More PROVE Types'
<1>1. TypesOfNetwork /\ TypesOfReading /\ TypesOfCalls
  BY DEF Types
<1>2. call \in Read1Call /\ call.amt \in Amount \ {0}
  BY <1>1, CallIs DEF Read1More
<1>3. PICK amt \in Amount \ {0} : amt = IF call.first THEN call.amt ELSE Big
  BY <1>1, <1>2, BigIs
<1>4. PICK o \in RawReads(amt, TRUE) :
          /\ Receive(o)
          /\ IF o.err # "none" THEN Raises(o.err) /\ UNCHANGED reading
             ELSE /\ uncached' = TRUE
                  /\ IF scenario.decode THEN FinishRead1(o.data)
                     ELSE /\ Returns("read1", call.amt, Bytes(o.data))
                          /\ UNCHANGED <<decoder, hasdecoded, buffer, cached>>
  BY <1>3 DEF Read1More
<1>5. scenario' = scenario /\ chunk_left' = chunk_left
  BY DEF Read1More
<1>6. Reads(o, amt)
  BY <1>1, RawReadIs
<1>7. o \in Outcome /\ Len(o.data) <= Arrived /\ o.data \in Seq(Unit)
  BY <1>6 DEF Reads, Outcome
<1>8. TypesOfNetwork'
  <2>1. chunk_left' \in (Nat \ {0}) \cup {None}
    BY <1>1, <1>5 DEF TypesOfNetwork
  <2> QED BY <1>1, <1>4, <1>5, <1>7, <2>1, NetworkReceives
<1>9. CASE o.err # "none"
  <2>1. Raises(o.err) /\ UNCHANGED reading
    BY <1>4, <1>9
  <2>2. TypesOfCalls'
    BY <1>1, <1>5, <2>1, CallRaises
  <2>3. TypesOfReading'
    BY <1>1, <2>1 DEF TypesOfReading, reading
  <2> QED BY <1>8, <2>2, <2>3 DEF Types
<1>10. CASE o.err = "none" /\ scenario.decode
  BY <1>1, <1>2, <1>4, <1>5, <1>7, <1>8, <1>10, FinishRead1Types DEF Types
<1>11. CASE o.err = "none" /\ ~scenario.decode
  <2>1. /\ Returns("read1", call.amt, Bytes(o.data)) /\ uncached' = TRUE
        /\ UNCHANGED <<decoder, hasdecoded, buffer, cached>>
    BY <1>4, <1>11
  <2>2. Bytes(o.data) \in Seq(Nat)
    BY <1>7, BytesType
  <2>3. PICK a, out : a = call.amt /\ out = Bytes(o.data)
    OBVIOUS
  <2>4. TypesOfCalls'
    BY <1>1, <1>5, <2>1, <2>2, <2>3, CallReturns
  <2>5. TypesOfReading'
    BY <1>1, <2>1 DEF TypesOfReading
  <2> QED BY <1>8, <2>4, <2>5 DEF Types
<1> QED BY <1>9, <1>10, <1>11

(* A chunk that is read gives at least one unit of it.                      *)
LEMMA HandleChunkIs ==
    ASSUME TypesOfNetwork, NEW amt \in Amount \ {0}, NEW o, o = HandleChunk(amt)
    PROVE  /\ Reads(o, amt) \/ (o \in Outcome /\ o.err # "none")
           /\ o \in Outcome /\ Len(o.data) <= Arrived
           /\ o.err # "none" => o.data = <<>>
           /\ o.err = "none" =>
                 /\ o.open = TRUE /\ o.data # <<>>
                 /\ ChunkLeft(Len(o.data)) \in (Nat \ {0}) \cup {None}
<1> DEFINE n == Limit(amt, ThisChunk)
<1>1. /\ Len(wire) \in Nat /\ next \in 0..Len(wire) /\ Arrived \in Nat
      /\ scenario.sent \in 0..Len(wire) /\ next + Arrived = scenario.sent
  BY WireType
<1>2. chunk_left \in (Nat \ {0}) \cup {None} /\ ChunkSize \in Nat \ {0} /\ None \notin Nat
  BY ChunkAssumption, NoneAssumption DEF TypesOfNetwork
<1>3. ThisChunk \in Nat
  BY ONLY <1>1, <1>2 DEF ThisChunk, Smaller
<1>4. ThisChunk = 0 => chunk_left = None /\ Arrived = 0
  BY ONLY <1>1, <1>2 DEF ThisChunk, Smaller
<1>5. /\ amt \in Amount /\ amt # 0 /\ amt \in Nat \cup {None}
  BY DEF Amount
<1>6. n \in 0..ThisChunk /\ n = (IF amt = None \/ ThisChunk <= amt THEN ThisChunk ELSE amt)
  <2>1. PICK k \in Nat : k = ThisChunk
    BY <1>3
  <2>2. Limit(amt, k) \in 0..k /\ Limit(amt, k) = (IF amt = None \/ k <= amt THEN k ELSE amt)
    BY <1>5, LimitIs
  <2> QED BY <2>1, <2>2
<1> HIDE DEF n
<1>7. \/ o = Fails("incomplete")
      \/ /\ ~(chunk_left = None /\ Arrived = 0) /\ ~(n > Arrived)
         /\ o = [Got(n, TRUE) EXCEPT !.mid = FALSE]
  BY DEF HandleChunk, n
<1>8. CASE o = Fails("incomplete")
  BY <1>5, <1>8, FailsIs, FailsReads DEF Reads
<1>9. CASE /\ ~(chunk_left = None /\ Arrived = 0) /\ ~(n > Arrived)
           /\ o = [Got(n, TRUE) EXCEPT !.mid = FALSE]
  <2>1. n \in Nat /\ n <= Arrived /\ n # 0 /\ n <= ThisChunk
    <3>1. ThisChunk # 0
      BY ONLY <1>4, <1>9
    <3>2. ~(n > Arrived)
      BY ONLY <1>9
    <3> QED BY ONLY <1>1, <1>3, <1>5, <1>6, <3>1, <3>2
  <2>2. PICK g : g = Got(n, TRUE)
    OBVIOUS
  <2>3. /\ g \in Outcome /\ Len(g.data) = n /\ g.open = TRUE /\ g.err = "none"
        /\ n = 0 <=> g.data = <<>>
        /\ g.data = SubSeq(wire, next + 1, next + n)
    BY <2>1, <2>2, GotIs
  <2>4. o \in Outcome /\ o.data = g.data /\ o.open = TRUE /\ o.err = "none"
    BY ONLY <1>9, <2>2, <2>3 DEF Outcome
  <2>5. ChunkLeft(n) \in (Nat \ {0}) \cup {None}
    BY ONLY <1>2, <1>3, <2>1 DEF ChunkLeft
  <2>6. amt # None => n <= amt
    BY ONLY <1>3, <1>5, <1>6
  <2>7. Reads(o, amt)
    BY ONLY <2>1, <2>3, <2>4, <2>6 DEF Reads
  <2>8. Len(o.data) = n /\ o.data # <<>>
    BY ONLY <2>1, <2>3, <2>4
  <2>9. ChunkLeft(Len(o.data)) \in (Nat \ {0}) \cup {None}
    BY ONLY <2>5, <2>8, Zenon
  <2> QED BY ONLY <2>1, <2>4, <2>7, <2>8, <2>9
<1> QED BY <1>7, <1>8, <1>9

LEMMA MarkType ==
    ASSUME NEW s, NEW is \in {"size", "break"}, NEW i \in 0..s.sent
    PROVE  <<Mark(is, i)>> \in Seq(OnWire(s))
<1>1. <<0>> \in Seq(Nat)
  OBVIOUS
<1>2. Mark(is, i) \in OnWire(s)
  BY <1>1 DEF Mark, Foreign, OnWire, Unit
<1> QED BY <1>2

LEMMA TokensType ==
    ASSUME TypesOfNetwork, NEW i \in 1..scenario.sent
    PROVE  Tokens(i) \in Seq(OnWire(scenario))
<1>1. wire \in Seq(Unit) /\ scenario.sent \in 0..Len(wire) /\ Len(wire) \in Nat
  BY WireType
<1>2. PICK S, a, b, c :
         /\ S = OnWire(scenario)
         /\ a = IF EndsChunk(i - 1) THEN <<Mark("size", i - 1)>> ELSE <<>>
         /\ b = <<[is |-> "unit", unit |-> wire[i], at |-> i]>>
         /\ c = IF EndsChunk(i) THEN <<Mark("break", i)>> ELSE <<>>
  OBVIOUS
<1>3. i \in 0..scenario.sent /\ i - 1 \in 0..scenario.sent /\ i \in 1..Len(wire)
  BY <1>1
<1>4. <<>> \in Seq(S)
  BY EmptySeq
<1>5. a \in Seq(S) /\ c \in Seq(S)
  BY <1>2, <1>3, <1>4, MarkType
<1>6. b \in Seq(S)
  <2>1. wire[i] \in Unit
    BY <1>1, <1>3, ElementOfSeq
  <2>2. [is |-> "unit", unit |-> wire[i], at |-> i] \in OnWire(scenario)
    BY <1>3, <2>1 DEF OnWire
  <2> QED BY <1>2, <2>2
<1>7. a \o (b \o c) \in Seq(S) /\ (a \o b) \o c \in Seq(S)
  BY ONLY <1>5, <1>6, ConcatProperties
<1>8. Tokens(i) = (a \o b) \o c
  BY <1>2 DEF Tokens
<1> QED BY <1>2, <1>7, <1>8

(* What follows a read() in the middle of a chunk is on the wire.             *)
LEMMA RestType ==
    ASSUME TypesOfNetwork PROVE Rest \in Seq(OnWire(scenario))
<1>1. /\ wire \in Seq(Unit) /\ scenario.sent \in 0..Len(wire) /\ Len(wire) \in Nat
      /\ next \in Nat /\ Arrived \in Nat /\ next + Arrived = scenario.sent
  BY WireType
<1>2. PICK S, t, a, b, c :
         /\ S = OnWire(scenario)
         /\ t = [i \in 1..Arrived |-> Tokens(next + i)]
         /\ a = IF EndsChunk(next) THEN <<Mark("break", next)>> ELSE <<>>
         /\ b = FlattenSeq(t)
         /\ c = IF Cut THEN <<>> ELSE <<Mark("size", Len(wire)), Mark("break", Len(wire))>>
  OBVIOUS
<1>3. <<>> \in Seq(S)
  BY EmptySeq
<1>4. a \in Seq(S)
  <2>1. next \in 0..scenario.sent
    BY <1>1
  <2> QED BY <1>2, <1>3, <2>1, MarkType
<1>5. b \in Seq(S)
  <2>1. \A i \in 1..Arrived : Tokens(next + i) \in Seq(S)
    <3> SUFFICES ASSUME NEW i \in 1..Arrived PROVE Tokens(next + i) \in Seq(S)
      OBVIOUS
    <3>1. next + i \in 1..scenario.sent
      BY <1>1
    <3> QED BY <1>2, <3>1, TokensType
  <2>2. t \in Seq(Seq(S))
    <3>1. t \in [1..Arrived -> Seq(S)]
      BY ONLY <1>2, <2>1
    <3> QED BY ONLY <1>1, <3>1
  <2> QED BY ONLY <1>2, <2>2, FlattenType
<1>6. c \in Seq(S)
  <2>1. ~Cut => Len(wire) \in 0..scenario.sent
    BY <1>1 DEF Cut
  <2>2. ~Cut => <<Mark("size", Len(wire))>> \in Seq(S) /\ <<Mark("break", Len(wire))>> \in Seq(S)
    BY <1>2, <2>1, MarkType
  <2>3. PICK x, y : x = Mark("size", Len(wire)) /\ y = Mark("break", Len(wire))
    OBVIOUS
  <2>4. ~Cut => x \in S /\ y \in S
    BY ONLY <2>2, <2>3
  <2>5. ~Cut => <<x, y>> \in Seq(S)
    BY ONLY <2>4
  <2> QED BY ONLY <1>2, <1>3, <2>3, <2>5
<1>7. (a \o b) \o c \in Seq(S)
  BY ONLY <1>4, <1>5, <1>6, ConcatProperties
<1>8. Rest = (a \o b) \o c
  BY <1>2 DEF Rest
<1> QED BY <1>2, <1>7, <1>8

LEMMA StreamTypes ==
    ASSUME Types, NEW amt, Stream(amt) PROVE Types'
<1>1. TypesOfNetwork /\ TypesOfReading /\ TypesOfCalls
  BY DEF Types
<1>2. amt \in Amount \ {0} /\ scenario' = scenario /\ chunk_left' = chunk_left
  <2>1. <<"stream", amt>> \in scenario.calls
    BY DEF Stream, MayCall
  <2>2. IsScenario(scenario)
    BY <1>1, WireType
  <2>3. <<"stream", amt>>[2] \in Nat \cup {None}
    BY <2>1, <2>2 DEF IsScenario
  <2> QED BY <2>3 DEF Amount, Stream
<1>3. TypesOfNetwork'
  BY <1>1, <1>2, NetworkStays DEF Stream
<1>4. PICK rest : rest = IF fpchunk /\ fpopen THEN Rest ELSE None
  OBVIOUS
<1>5. iter' \in Iterating(scenario') /\ iter'.chunks = (scenario'.framing = "chunked")
  <2>1. PICK c \in BOOLEAN : c = (scenario.framing = "chunked")
    OBVIOUS
  <2>2. iter' = [on |-> TRUE, amt |-> amt, chunks |-> c, rest |-> rest]
    BY <1>4, <2>1, Zenon DEF Stream
  <2>3. rest \in Seq(OnWire(scenario)) \cup {None}
    BY <1>1, <1>4, RestType
  <2> QED BY ONLY <1>2, <2>1, <2>2, <2>3 DEF Iterating
<1>6. /\ call' = call /\ buffer' = buffer /\ delivered' = delivered /\ spoiled' = spoiled
      /\ hasdecoded' = hasdecoded /\ cached' = cached /\ uncached' = uncached
      /\ decoder' \in {Initialised, decoder}
  BY DEF Stream
<1>7. decoder' \in Maybe
  <2>1. PICK d : d = decoder
    OBVIOUS
  <2>2. d \in Maybe
    BY <1>1, <2>1 DEF TypesOfReading
  <2>3. Initialised \in Maybe
    BY <2>1, <2>2, InitialisedType
  <2> QED BY <1>6, <2>1, <2>2, <2>3
<1>8. TypesOfReading'
  BY <1>1, <1>6, <1>7 DEF TypesOfReading
<1>9. TypesOfCalls'
  BY <1>1, <1>5, <1>6 DEF TypesOfCalls
<1> QED BY <1>3, <1>8, <1>9 DEF Types

(* The generator's own steps.                                               *)
LEMMA IterIs ==
    ASSUME TypesOfCalls, iter.on
    PROVE  /\ iter.amt \in Amount \ {0} /\ iter.chunks = (scenario.framing = "chunked")
           /\ iter.rest \in Seq(OnWire(scenario)) \cup {None}
<1>1. \/ iter = NotIterating
      \/ iter \in Iterating(scenario) /\ iter.chunks = (scenario.framing = "chunked")
  BY DEF TypesOfCalls
<1>2. iter # NotIterating
  BY DEF NotIterating
<1>3. iter \in Iterating(scenario) =>
         iter.amt \in Amount \ {0} /\ iter.rest \in Seq(OnWire(scenario)) \cup {None}
  BY ONLY DEF Iterating
<1> QED BY ONLY <1>1, <1>2, <1>3, Zenon

LEMMA StreamReadTypes ==
    ASSUME Types, StreamRead PROVE Types'
<1>1. TypesOfNetwork /\ TypesOfReading /\ TypesOfCalls
  BY DEF Types
<1>2. UNCHANGED <<scenario, chunk_left>>
  BY DEF StreamRead
<1>3. PICK amt \in Amount : amt = iter.amt
  BY <1>1, IterIs DEF StreamRead
<1>4. CASE BeginRead(iter.amt, FALSE)
  <2>1. BeginRead(amt, FALSE)
    BY <1>3, <1>4
  <2> QED BY <1>2, <2>1, BeginReadTypes
<1>5. CASE StreamStops /\ NoNetwork /\ UNCHANGED reading
  <2>1. TypesOfNetwork'
    BY <1>1, <1>2, <1>5, NetworkStays
  <2>2. TypesOfReading'
    BY <1>1, <1>5 DEF TypesOfReading, reading
  <2>3. TypesOfCalls'
    BY <1>1, <1>2, <1>5 DEF TypesOfCalls, StreamStops, reading
  <2> QED BY <2>1, <2>2, <2>3 DEF Types
<1> QED BY <1>4, <1>5 DEF StreamRead

LEMMA ChunkTurnTypes ==
    ASSUME Types, ChunkTurn PROVE Types'
<1>1. TypesOfNetwork /\ TypesOfReading /\ TypesOfCalls
  BY DEF Types
<1>2. /\ scenario' = scenario /\ buffer' = buffer /\ cached' = cached
      /\ uncached' = (uncached \/ ~HasTail(decoder))
  BY DEF ChunkTurn
<1>3. PICK amt \in Amount \ {0} : amt = iter.amt
  BY <1>1, IterIs DEF ChunkTurn
<1>4. PICK d : d = decoder
  OBVIOUS
<1>5. d \in Maybe /\ hasdecoded \in BOOLEAN /\ uncached \in BOOLEAN
  BY <1>1, <1>4 DEF TypesOfReading
<1>6. PICK o \in IF HasTail(d) THEN {Got(0, TRUE)} ELSE {HandleChunk(amt), Fails("timeout")} :
      \E r \in {Decode(d, o.data, FALSE, amt)} :
          /\ Receive([o EXCEPT !.mid = fpchunk,
                               !.err = IF r.ok THEN @ ELSE "undecodable"])
          /\ chunk_left' = IF HasTail(d) \/ o.err # "none" THEN chunk_left
                           ELSE ChunkLeft(Len(o.data))
          /\ IF o.err # "none"
             THEN Raises(o.err) /\ UNCHANGED <<decoder, hasdecoded>>
             ELSE /\ Decodes(r.d)
                  /\ IF r.ok THEN Yields(r.out) /\ UNCHANGED iter ELSE Raises("undecodable")
  BY <1>3, <1>4 DEF ChunkTurn
<1>7. o \in Outcome /\ Len(o.data) <= Arrived
  <2>1. CASE o = Got(0, TRUE)
    <3>1. Arrived \in Nat /\ 0 <= Arrived
      BY <1>1, WireType
    <3> QED BY <1>1, <2>1, <3>1, GotIs
  <2>2. CASE o = Fails("timeout")
    BY <1>1, <2>2, FailsIs, FailsReads DEF Reads
  <2>3. CASE o = HandleChunk(amt)
    BY <1>1, <2>3, HandleChunkIs
  <2> QED BY <1>6, <2>1, <2>2, <2>3
<1>8. PICK r \in {Decode(d, o.data, FALSE, amt)} :
          /\ Receive([o EXCEPT !.mid = fpchunk,
                               !.err = IF r.ok THEN @ ELSE "undecodable"])
          /\ chunk_left' = IF HasTail(d) \/ o.err # "none" THEN chunk_left
                           ELSE ChunkLeft(Len(o.data))
          /\ IF o.err # "none"
             THEN Raises(o.err) /\ UNCHANGED <<decoder, hasdecoded>>
             ELSE /\ Decodes(r.d)
                  /\ IF r.ok THEN Yields(r.out) /\ UNCHANGED iter ELSE Raises("undecodable")
  BY <1>6
<1>9. r \in MaybeDecoded
  <2>1. o.data \in Seq(Unit) /\ FALSE \in BOOLEAN /\ amt \in Amount
    BY <1>7 DEF Outcome
  <2> QED BY <1>5, <1>8, <2>1, DecodeType
<1>10. r.d \in Maybe /\ r.out \in Seq(Nat) /\ r.ok \in BOOLEAN
  BY <1>9 DEF MaybeDecoded
<1>11. PICK p : p = [o EXCEPT !.mid = fpchunk, !.err = IF r.ok THEN @ ELSE "undecodable"]
  OBVIOUS
<1>12. p \in Outcome /\ p.data = o.data
  <2>1. fpchunk \in BOOLEAN
    BY <1>1 DEF TypesOfNetwork
  <2>2. o \in Outcome
    BY <1>7
  <2> QED BY ONLY <1>10, <1>11, <2>1, <2>2 DEF Outcome
<1>13. chunk_left' \in (Nat \ {0}) \cup {None}
  <2>1. chunk_left \in (Nat \ {0}) \cup {None}
    BY <1>1 DEF TypesOfNetwork
  <2>2. CASE HasTail(d) \/ o.err # "none"
    BY <1>8, <2>1, <2>2
  <2>3. CASE ~HasTail(d) /\ o.err = "none"
    <3>1. Fails("timeout").err # "none"
      BY <1>1, FailsIs
    <3>2. o = HandleChunk(amt)
      BY <1>6, <2>3, <3>1
    <3> QED BY <1>1, <1>8, <2>3, <3>2, HandleChunkIs
  <2> QED BY <2>2, <2>3
<1>14. TypesOfNetwork'
  <2>1. Receive(p)
    BY <1>8, <1>11
  <2> QED BY <1>1, <1>2, <1>7, <1>12, <1>13, <2>1, NetworkReceives
<1>15. decoder' \in Maybe /\ hasdecoded' \in BOOLEAN /\ uncached' \in BOOLEAN
  BY <1>2, <1>4, <1>5, <1>8, <1>10 DEF Decodes
<1>16. TypesOfReading'
  BY <1>1, <1>2, <1>15 DEF TypesOfReading
<1>17. TypesOfCalls'
  <2>1. CASE Raises(o.err)
    BY <1>1, <1>2, <2>1, CallRaises
  <2>2. CASE Raises("undecodable")
    BY <1>1, <1>2, <2>2, CallRaises
  <2>3. CASE Yields(r.out) /\ UNCHANGED iter
    <3>1. delivered \in Seq(Nat)
      BY <1>1 DEF TypesOfCalls
    <3>2. delivered \o r.out \in Seq(Nat)
      BY <1>10, <3>1, ConcatProperties
    <3>3. /\ call' = call /\ iter' = iter /\ spoiled' = spoiled
          /\ delivered' \in Seq(Nat)
      BY <2>3, <3>2 DEF Yields
    <3> QED BY <1>1, <1>2, <3>3 DEF TypesOfCalls
  <2> QED BY <1>8, <2>1, <2>2, <2>3
<1> QED BY <1>14, <1>16, <1>17 DEF Types

LEMMA ChunkEndTypes ==
    ASSUME Types, ChunkEnd PROVE Types'
<1>1. TypesOfNetwork /\ TypesOfReading /\ TypesOfCalls
  BY DEF Types
<1>2. /\ scenario' = scenario /\ chunk_left' = chunk_left /\ hasdecoded' = hasdecoded
      /\ buffer' = buffer /\ cached' = cached /\ uncached' = TRUE
  BY DEF ChunkEnd, Finishes
<1>3. PICK d : d = decoder
  OBVIOUS
<1>4. d \in Maybe
  BY <1>1, <1>3 DEF TypesOfReading
<1>5. PICK r : 
          /\ r = IF d = None THEN [d |-> None, out |-> <<>>, ok |-> TRUE]
                 ELSE Decode(d, <<>>, TRUE, None)
          /\ Receive([Got(0, FALSE) EXCEPT !.err = IF r.ok THEN "none" ELSE "undecodable"])
          /\ decoder' = r.d
          /\ IF r.ok
             THEN /\ delivered' = delivered \o r.out /\ last' = "end"
                  /\ iter' = NotIterating /\ UNCHANGED <<call, spoiled>>
             ELSE Raises("undecodable")
  BY <1>3 DEF ChunkEnd, Flushed, Finishes
<1>6. r \in MaybeDecoded
  <2>1. <<>> \in Seq(Unit) /\ <<>> \in Seq(Nat) /\ None \in Amount /\ TRUE \in BOOLEAN
    BY EmptySeq DEF Amount
  <2>2. Decode(d, <<>>, TRUE, None) \in MaybeDecoded
    BY <1>4, <2>1, DecodeType
  <2>3. [d |-> None, out |-> <<>>, ok |-> TRUE] \in MaybeDecoded
    BY ONLY <2>1 DEF MaybeDecoded, Maybe
  <2> QED BY ONLY <1>5, <2>2, <2>3
<1>7. r.d \in Maybe /\ r.out \in Seq(Nat) /\ r.ok \in BOOLEAN
  BY <1>6 DEF MaybeDecoded
<1>8. PICK g : g = Got(0, FALSE)
  OBVIOUS
<1>9. g \in Outcome /\ Len(g.data) = 0 /\ Arrived \in Nat
  <2>1. Arrived \in Nat /\ 0 <= Arrived
    BY <1>1, WireType
  <2> QED BY <1>1, <1>8, <2>1, GotIs
<1>10. PICK p : p = [g EXCEPT !.err = IF r.ok THEN "none" ELSE "undecodable"]
  OBVIOUS
<1>11. p \in Outcome /\ p.data = g.data
  BY ONLY <1>7, <1>9, <1>10 DEF Outcome
<1>12. TypesOfNetwork'
  <2>1. Receive(p)
    BY <1>5, <1>8, <1>10
  <2>2. chunk_left' \in (Nat \ {0}) \cup {None}
    BY <1>1, <1>2 DEF TypesOfNetwork
  <2>3. Len(p.data) <= Arrived
    BY ONLY <1>9, <1>11
  <2> QED BY <1>1, <1>2, <1>11, <2>1, <2>2, <2>3, NetworkReceives
<1>13. TypesOfReading'
  BY <1>1, <1>2, <1>5, <1>7 DEF TypesOfReading
<1>14. TypesOfCalls'
  <2>1. CASE Raises("undecodable")
    BY <1>1, <1>2, <2>1, CallRaises
  <2>2. CASE r.ok
    <3>1. delivered \in Seq(Nat)
      BY <1>1 DEF TypesOfCalls
    <3>2. delivered \o r.out \in Seq(Nat)
      BY <1>7, <3>1, ConcatProperties
    <3>3. /\ call' = call /\ iter' = NotIterating /\ spoiled' = spoiled
          /\ delivered' \in Seq(Nat)
      BY <1>5, <2>2, <3>2
    <3> QED BY <1>1, <1>2, <3>3 DEF TypesOfCalls
  <2> QED BY <1>5, <1>7, <2>1, <2>2
<1> QED BY <1>12, <1>13, <1>14 DEF Types

(* A generator that has lost its place reads on along the wire.              *)
LEMMA ReadToTypes ==
    ASSUME TypesOfNetwork, NEW token \in OnWire(scenario), NEW open \in BOOLEAN,
           NEW ok \in BOOLEAN, ReadTo(token, open, ok), scenario' = scenario,
           scenario.framing = "chunked", chunk_left' \in (Nat \ {0}) \cup {None}
    PROVE  TypesOfNetwork'
<1>1. next' \in 0..scenario.sent
  BY DEF ReadTo, OnWire
<1>2. /\ fpopen' \in BOOLEAN /\ fpchunk' = fpchunk /\ length_remaining' = length_remaining
      /\ conn' \in {conn, "put"} /\ sock' \in {sock, "closed"}
  BY DEF ReadTo, Caught
<1> QED BY <1>1, <1>2 DEF TypesOfNetwork

LEMMA LostIs ==
    ASSUME TypesOfCalls, Lost
    PROVE  /\ iter.on /\ iter.chunks /\ fpopen /\ scenario.framing = "chunked"
           /\ iter.amt \in Amount \ {0}
           /\ iter.rest \in Seq(OnWire(scenario)) /\ iter.rest # None
BY IterIs DEF Lost

LEMMA LengthsAre ==
    ASSUME TypesOfNetwork, TypesOfCalls, Lost, NEW h \in Lengths
    PROVE  h.left \in Nat /\ h.rest \in Seq(OnWire(scenario))
<1>1. iter.rest \in Seq(OnWire(scenario)) /\ chunk_left \in (Nat \ {0}) \cup {None}
  BY LostIs DEF TypesOfNetwork
<1>2. CASE chunk_left # None
  <2>1. h = [left |-> chunk_left, rest |-> iter.rest]
    BY <1>2 DEF Lengths
  <2> QED BY ONLY <1>1, <1>2, <2>1
<1>3. CASE chunk_left = None
  <2>1. PICK k \in 0..Len(iter.rest), n \in DOMAIN iter.rest :
           h = [left |-> k, rest |-> Drop(iter.rest, n)]
    BY <1>3 DEF Lengths
  <2>2. Len(iter.rest) \in Nat /\ DOMAIN iter.rest = 1..Len(iter.rest)
    BY <1>1, LenProperties
  <2>3. n \in 0..Len(iter.rest) /\ k \in Nat
    BY <2>2
  <2>4. Drop(iter.rest, n) \in Seq(OnWire(scenario))
    BY <1>1, <2>3, DropIs
  <2> QED BY ONLY <2>1, <2>3, <2>4
<1> QED BY <1>2, <1>3

LEMMA LostTurnTypes ==
    ASSUME Types, LostTurn PROVE Types'
<1>1. TypesOfNetwork /\ TypesOfReading /\ TypesOfCalls
  BY DEF Types
<1>2. /\ Lost /\ scenario' = scenario /\ buffer' = buffer /\ cached' = cached
      /\ uncached' = TRUE
  BY DEF LostTurn
<1>3. /\ iter.on /\ iter.chunks /\ scenario.framing = "chunked"
      /\ iter \in Iterating(scenario)
  <2>1. iter # NotIterating
    BY <1>1, <1>2, LostIs DEF NotIterating
  <2> QED BY <1>1, <1>2, <2>1, LostIs DEF TypesOfCalls
<1>4. PICK amt \in Amount \ {0}, d \in Maybe : amt = iter.amt /\ d = decoder
  BY <1>1, <1>2, LostIs DEF TypesOfReading
<1>5. PICK h \in Lengths, toss \in 0..2 : \E n \in {Limit(amt, h.left)} :
         /\ h.left # 0 /\ n + toss <= Len(h.rest)
         /\ \E r \in {Decode(d, [i \in 1..n |-> h.rest[i].unit], FALSE, amt)} :
               /\ ReadTo(h.rest[n + toss], TRUE, r.ok)
               /\ Decodes(r.d)
               /\ IF r.ok
                  THEN Yields(r.out) /\ iter' = [iter EXCEPT !.rest = Drop(h.rest, n + toss)]
                  ELSE Raises("undecodable")
         /\ chunk_left' = IF n < h.left THEN h.left - n ELSE None
  BY <1>4 DEF LostTurn
<1>6. PICK s, k : s = h.rest /\ k = h.left
  OBVIOUS
<1>7. PICK n :
         /\ n = Limit(amt, k) /\ k # 0 /\ n + toss <= Len(s)
         /\ \E r \in {Decode(d, [i \in 1..n |-> s[i].unit], FALSE, amt)} :
               /\ ReadTo(s[n + toss], TRUE, r.ok)
               /\ Decodes(r.d)
               /\ IF r.ok
                  THEN Yields(r.out) /\ iter' = [iter EXCEPT !.rest = Drop(s, n + toss)]
                  ELSE Raises("undecodable")
         /\ chunk_left' = IF n < k THEN k - n ELSE None
  BY <1>5, <1>6
<1>8. k \in Nat \ {0} /\ s \in Seq(OnWire(scenario)) /\ Len(s) \in Nat /\ DOMAIN s = 1..Len(s)
  BY <1>1, <1>2, <1>6, <1>7, LengthsAre, LenProperties
<1>9. n \in 1..k /\ n \in Nat /\ n + toss \in 1..Len(s) /\ n + toss \in 0..Len(s)
  <2>1. amt \in Amount /\ amt # 0 /\ amt \in Nat \cup {None} /\ k \in Nat
    BY <1>8 DEF Amount
  <2>2. n \in 0..k /\ n = (IF amt = None \/ k <= amt THEN k ELSE amt)
    BY <1>7, <2>1, LimitIs
  <2>3. n # 0
    BY ONLY <1>8, <2>1, <2>2
  <2>4. n + toss <= Len(s)
    BY <1>7
  <2> QED BY ONLY <1>8, <2>2, <2>3, <2>4, toss \in 0..2
<1>10. PICK data : data = [i \in 1..n |-> s[i].unit]
  OBVIOUS
<1>11. data \in Seq(Unit)
  <2>1. \A i \in 1..n : s[i].unit \in Unit
    <3> SUFFICES ASSUME NEW i \in 1..n PROVE s[i].unit \in Unit
      OBVIOUS
    <3>1. i \in 1..Len(s)
      BY ONLY <1>8, <1>9, toss \in 0..2, i \in 1..n
    <3>2. s[i] \in OnWire(scenario)
      BY <1>8, <3>1, ElementOfSeq
    <3> QED BY <3>2 DEF OnWire
  <2>2. data \in [1..n -> Unit]
    BY ONLY <1>10, <2>1
  <2> QED BY ONLY <1>9, <2>2
<1>12. PICK r \in MaybeDecoded :
          /\ ReadTo(s[n + toss], TRUE, r.ok)
          /\ Decodes(r.d)
          /\ IF r.ok
             THEN Yields(r.out) /\ iter' = [iter EXCEPT !.rest = Drop(s, n + toss)]
             ELSE Raises("undecodable")
  <2>1. Decode(d, data, FALSE, amt) \in MaybeDecoded
    BY <1>11, DecodeType
  <2> QED BY <1>7, <1>10, <2>1
<1>13. r.d \in Maybe /\ r.out \in Seq(Nat) /\ r.ok \in BOOLEAN
  BY DEF MaybeDecoded
<1>14. TypesOfNetwork'
  <2>1. s[n + toss] \in OnWire(scenario)
    BY <1>8, <1>9, ElementOfSeq
  <2>2. chunk_left' \in (Nat \ {0}) \cup {None}
    <3>1. chunk_left' = IF n < k THEN k - n ELSE None
      BY <1>7
    <3> QED BY ONLY <1>8, <1>9, <3>1
  <2> QED BY <1>1, <1>2, <1>3, <1>12, <1>13, <2>1, <2>2, ReadToTypes
<1>15. TypesOfReading'
  <2>1. decoder' \in Maybe /\ hasdecoded' \in BOOLEAN
    BY <1>1, <1>12, <1>13 DEF Decodes, TypesOfReading
  <2> QED BY <1>1, <1>2, <2>1 DEF TypesOfReading
<1>16. TypesOfCalls'
  <2>1. CASE Raises("undecodable")
    BY <1>1, <1>2, <2>1, CallRaises
  <2>2. CASE Yields(r.out) /\ iter' = [iter EXCEPT !.rest = Drop(s, n + toss)]
    <3>1. Drop(s, n + toss) \in Seq(OnWire(scenario))
      BY <1>8, <1>9, DropIs
    <3>2. iter' \in Iterating(scenario) /\ iter'.chunks = iter.chunks
      BY ONLY <1>3, <2>2, <3>1 DEF Iterating
    <3>3. delivered \in Seq(Nat)
      BY <1>1 DEF TypesOfCalls
    <3>4. delivered \o r.out \in Seq(Nat)
      BY <1>13, <3>3, ConcatProperties
    <3>5. call' = call /\ spoiled' = spoiled /\ delivered' \in Seq(Nat)
      BY <2>2, <3>4 DEF Yields
    <3> QED BY <1>1, <1>2, <1>3, <3>2, <3>5 DEF TypesOfCalls
  <2> QED BY <1>12, <2>1, <2>2
<1> QED BY <1>14, <1>15, <1>16 DEF Types

LEMMA FlushedType ==
    ASSUME TypesOfReading PROVE Flushed \in MaybeDecoded
<1>1. decoder \in Maybe
  BY DEF TypesOfReading
<1>2. <<>> \in Seq(Unit) /\ <<>> \in Seq(Nat) /\ None \in Amount /\ TRUE \in BOOLEAN
  BY EmptySeq DEF Amount
<1>3. Decode(decoder, <<>>, TRUE, None) \in MaybeDecoded
  BY <1>1, <1>2, DecodeType
<1>4. [d |-> None, out |-> <<>>, ok |-> TRUE] \in MaybeDecoded
  BY ONLY <1>2 DEF MaybeDecoded, Maybe
<1> QED BY ONLY <1>3, <1>4 DEF Flushed

LEMMA LostEndTypes ==
    ASSUME Types, LostEnd PROVE Types'
<1>1. TypesOfNetwork /\ TypesOfReading /\ TypesOfCalls
  BY DEF Types
<1>2. Lost /\ scenario.framing = "chunked"
  BY <1>1, LostIs DEF LostEnd
<1>3. PICK h \in Lengths : \E n \in DOMAIN h.rest :
         \E r \in {Flushed} : ReadTo(h.rest[n], FALSE, r.ok) /\ Finishes(r)
  BY DEF LostEnd
<1>4. PICK n \in DOMAIN h.rest, r \in MaybeDecoded :
         ReadTo(h.rest[n], FALSE, r.ok) /\ Finishes(r)
  BY <1>1, <1>3, FlushedType
<1>5. r.d \in Maybe /\ r.out \in Seq(Nat) /\ r.ok \in BOOLEAN
  BY DEF MaybeDecoded
<1>6. /\ scenario' = scenario /\ chunk_left' = chunk_left /\ hasdecoded' = hasdecoded
      /\ buffer' = buffer /\ cached' = cached /\ uncached' = TRUE /\ decoder' = r.d
  BY <1>4 DEF Finishes
<1>7. TypesOfNetwork'
  <2>1. h.rest \in Seq(OnWire(scenario))
    BY <1>1, <1>2, LengthsAre
  <2>2. n \in 1..Len(h.rest)
    BY <2>1, LenProperties
  <2>3. h.rest[n] \in OnWire(scenario)
    BY <2>1, <2>2, ElementOfSeq
  <2>4. chunk_left' \in (Nat \ {0}) \cup {None}
    BY <1>1, <1>6 DEF TypesOfNetwork
  <2> QED BY <1>1, <1>2, <1>4, <1>5, <1>6, <2>3, <2>4, ReadToTypes
<1>8. TypesOfReading'
  BY <1>1, <1>5, <1>6 DEF TypesOfReading
<1>9. TypesOfCalls'
  <2>1. CASE Raises("undecodable")
    BY <1>1, <1>6, <2>1, CallRaises
  <2>2. CASE r.ok
    <3>1. delivered \in Seq(Nat)
      BY <1>1 DEF TypesOfCalls
    <3>2. delivered \o r.out \in Seq(Nat)
      BY <1>5, <3>1, ConcatProperties
    <3>3. /\ call' = call /\ iter' = NotIterating /\ spoiled' = spoiled
          /\ delivered' \in Seq(Nat)
      BY <1>4, <2>2, <3>2 DEF Finishes
    <3> QED BY <1>1, <1>6, <3>3 DEF TypesOfCalls
  <2> QED BY <1>4, <2>1, <2>2 DEF Finishes
<1> QED BY <1>7, <1>8, <1>9 DEF Types

LEMMA LostFailsTypes ==
    ASSUME Types, LostFails PROVE Types'
<1>1. TypesOfNetwork /\ TypesOfReading /\ TypesOfCalls
  BY DEF Types
<1>2. PICK why \in {"incomplete", "timeout"} : Receive(Fails(why)) /\ Raises(why)
  BY DEF LostFails
<1>3. /\ scenario' = scenario /\ chunk_left' = chunk_left /\ decoder' = decoder
      /\ hasdecoded' = hasdecoded /\ buffer' = buffer /\ cached' = cached /\ uncached' = TRUE
  BY DEF LostFails
<1>4. TypesOfNetwork'
  <2>1. PICK o : o = Fails(why)
    OBVIOUS
  <2>2. o \in Outcome /\ o.data = <<>>
    BY <1>1, <2>1, FailsIs
  <2>3. Len(o.data) <= Arrived
    <3>1. Arrived \in Nat /\ Len(<<>>) = 0
      BY <1>1, WireType, EmptySeq
    <3> QED BY ONLY <2>2, <3>1
  <2>4. chunk_left' \in (Nat \ {0}) \cup {None}
    BY <1>1, <1>3 DEF TypesOfNetwork
  <2> QED BY <1>1, <1>2, <1>3, <2>1, <2>2, <2>3, <2>4, NetworkReceives
<1>5. TypesOfReading'
  BY <1>1, <1>3 DEF TypesOfReading
<1>6. TypesOfCalls'
  BY <1>1, <1>2, <1>3, CallRaises
<1> QED BY <1>4, <1>5, <1>6 DEF Types

LEMMA OtherTypes ==
    ASSUME Types, ChunkNone \/ Break \/ Drain \/ Close PROVE Types'
<1>1. TypesOfNetwork /\ TypesOfReading /\ TypesOfCalls
  BY DEF Types
<1>2. CASE ChunkNone
  <2>1. TypesOfNetwork'
    BY <1>1, <1>2 DEF TypesOfNetwork, ChunkNone, network, wire
  <2>2. TypesOfReading'
    BY <1>1, <1>2 DEF TypesOfReading, ChunkNone, reading
  <2>3. TypesOfCalls'
    BY <1>1, <1>2 DEF TypesOfCalls, ChunkNone, StreamStops, reading
  <2> QED BY <2>1, <2>2, <2>3 DEF Types
<1>3. CASE Break
  <2>1. TypesOfReading'
    BY <1>1, <1>3 DEF TypesOfReading, Break, reading
  <2>2. TypesOfCalls'
    <3>1. delivered \in Seq(Nat) /\ spoiled \in BOOLEAN
      BY <1>1 DEF TypesOfCalls
    <3>2. /\ call' = call /\ call = Idle /\ iter' = NotIterating /\ delivered' = delivered
          /\ spoiled' \in BOOLEAN
      BY <1>3, <3>1 DEF Break
    <3> QED BY <3>1, <3>2 DEF TypesOfCalls
  <2>3. TypesOfNetwork'
    <3>1. scenario' = scenario /\ chunk_left' = chunk_left
      BY <1>3 DEF Break
    <3>2. CASE NoNetwork
      BY <1>1, <3>1, <3>2, NetworkStays
    <3>3. CASE Receive(Fails("exit"))
      <4>1. PICK o : o = Fails("exit")
        OBVIOUS
      <4>2. o \in Outcome /\ o.data = <<>>
        BY <1>1, <4>1, FailsIs
      <4>3. Len(o.data) <= Arrived
        <5>1. Arrived \in Nat /\ Len(<<>>) = 0
          BY <1>1, WireType, EmptySeq
        <5> QED BY ONLY <4>2, <5>1
      <4>4. chunk_left' \in (Nat \ {0}) \cup {None}
        BY <1>1, <3>1 DEF TypesOfNetwork
      <4> QED BY <1>1, <3>1, <3>3, <4>1, <4>2, <4>3, <4>4, NetworkReceives
    <3> QED BY <1>3, <3>2, <3>3 DEF Break
  <2> QED BY <2>1, <2>2, <2>3 DEF Types
<1>4. CASE Drain
  <2>1. TypesOfNetwork'
    BY <1>1, <1>4 DEF TypesOfNetwork, Drain, network, wire
  <2>2. TypesOfReading'
    BY <1>1, <1>4 DEF TypesOfReading, Drain, reading
  <2>3. TypesOfCalls'
    <3>1. /\ call' = DrainCall /\ iter' = iter /\ delivered' = delivered /\ spoiled' = TRUE
          /\ scenario' = scenario
      BY <1>4 DEF Drain, DrainCall
    <3> QED BY <1>1, <3>1 DEF TypesOfCalls
  <2> QED BY <2>1, <2>2, <2>3 DEF Types
<1>5. CASE Close
  <2>1. TypesOfNetwork'
    BY <1>1, <1>5 DEF TypesOfNetwork, Close, wire
  <2>2. TypesOfReading'
    BY <1>1, <1>5 DEF TypesOfReading, Close, reading
  <2>3. TypesOfCalls'
    <3>1. /\ call' = call /\ iter' = iter /\ delivered' = delivered /\ spoiled' = TRUE
          /\ scenario' = scenario /\ buffer' = buffer
      BY <1>5 DEF Close, reading
    <3> QED BY <1>1, <3>1 DEF TypesOfCalls
  <2> QED BY <2>1, <2>2, <2>3 DEF Types
<1> QED BY <1>2, <1>3, <1>4, <1>5

LEMMA DrainMoreTypes ==
    ASSUME Types, DrainMore PROVE Types'
<1>1. TypesOfNetwork /\ TypesOfReading /\ TypesOfCalls
  BY DEF Types
<1>2. /\ scenario' = scenario /\ chunk_left' = chunk_left /\ hasdecoded' = hasdecoded
      /\ cached' = cached /\ uncached' = uncached /\ iter' = iter /\ delivered' = delivered
      /\ spoiled' = spoiled
  BY DEF DrainMore
<1>3. PICK amt \in Amount \ {0} : amt = Big
  BY <1>1, BigIs
<1>4. PICK o \in RawReads(amt, FALSE) :
          /\ Receive(o)
          /\ call' = IF o.data = <<>> THEN Idle ELSE call
          /\ IF o.data = <<>> /\ hasdecoded
             THEN buffer' = EmptyBuffer /\ decoder' = None
             ELSE UNCHANGED <<buffer, decoder>>
  BY <1>3 DEF DrainMore
<1>5. Reads(o, amt)
  BY <1>1, RawReadIs
<1>6. o \in Outcome /\ Len(o.data) <= Arrived
  BY <1>5 DEF Reads
<1>7. TypesOfNetwork'
  <2>1. chunk_left' \in (Nat \ {0}) \cup {None}
    BY <1>1, <1>2 DEF TypesOfNetwork
  <2> QED BY <1>1, <1>2, <1>4, <1>6, <2>1, NetworkReceives
<1>8. decoder' \in Maybe /\ IsBuffer(buffer')
  <2>1. decoder \in Maybe /\ IsBuffer(buffer)
    BY <1>1 DEF TypesOfReading
  <2>2. None \in Maybe
    BY DEF Maybe
  <2> QED BY <1>4, <2>1, <2>2, EmptyIs
<1>9. TypesOfReading'
  BY <1>1, <1>2, <1>8 DEF TypesOfReading
<1>10. TypesOfCalls'
  <2>1. call = DrainCall
    BY <1>1 DEF DrainMore, TypesOfCalls, Idle, ReadCall, Read1Call, DrainCall
  <2>2. call' \in {Idle, DrainCall}
    BY <1>4, <2>1
  <2> QED BY <1>1, <1>2, <2>2 DEF TypesOfCalls
<1> QED BY <1>7, <1>9, <1>10 DEF Types

LEMMA ReadTypes ==
    ASSUME Types, NEW amt, Read(amt) PROVE Types'
<1>1. <<"read", amt>> \in scenario.calls
  BY DEF Read, MayCall
<1>2. IsScenario(scenario)
  BY WireType DEF Types
<1>3. <<"read", amt>>[2] \in Nat \cup {None}
  BY <1>1, <1>2 DEF IsScenario
<1>4. amt \in Amount /\ BeginRead(amt, FALSE) /\ UNCHANGED <<scenario, chunk_left>>
  BY <1>3 DEF Amount, Read
<1> QED BY <1>4, BeginReadTypes

LEMMA DataTypes ==
    ASSUME Types, Data PROVE Types'
<1>1. TypesOfNetwork /\ TypesOfReading /\ TypesOfCalls
  BY DEF Types
<1>2. UNCHANGED <<scenario, chunk_left>>
  BY DEF Data
<1>3. CASE BeginRead(None, TRUE)
  <2>1. None \in Amount
    BY DEF Amount
  <2> QED BY <1>2, <1>3, <2>1, BeginReadTypes
<1>4. CASE NoNetwork /\ UNCHANGED <<reading, call, iter, delivered, spoiled>>
  <2>1. TypesOfNetwork'
    BY <1>1, <1>2, <1>4, NetworkStays
  <2>2. TypesOfReading'
    BY <1>1, <1>4 DEF TypesOfReading, reading
  <2>3. TypesOfCalls'
    BY <1>1, <1>2, <1>4 DEF TypesOfCalls, reading
  <2> QED BY <2>1, <2>2, <2>3 DEF Types
<1> QED BY <1>3, <1>4 DEF Data

LEMMA NextTypes ==
    ASSUME Types, [Next]_vars PROVE Types'
<1>1. CASE \E c \in scenario.calls : Read(c[2]) \/ Read1(c[2]) \/ Stream(c[2])
  BY <1>1, ReadTypes, Read1Types, StreamTypes
<1>2. CASE Data
  BY <1>2, DataTypes
<1>3. CASE Drain \/ Close \/ Break \/ ChunkNone
  BY <1>3, OtherTypes
<1>4. CASE ReadMore \/ Read1More
  BY <1>4, ReadMoreTypes, Read1MoreTypes
<1>5. CASE StreamRead \/ ChunkTurn \/ ChunkEnd
  BY <1>5, StreamReadTypes, ChunkTurnTypes, ChunkEndTypes
<1>6. CASE DrainMore
  BY <1>6, DrainMoreTypes
<1>7. CASE LostTurn \/ LostEnd \/ LostFails
  BY <1>7, LostTurnTypes, LostEndTypes, LostFailsTypes
<1>8. CASE UNCHANGED vars
  BY <1>8 DEF vars, network, reading, Types, TypesOfNetwork, TypesOfReading, TypesOfCalls, wire
<1> QED BY <1>1, <1>2, <1>3, <1>4, <1>5, <1>6, <1>7, <1>8 DEF Next, Progress

LEMMA InitTypes ==
    ASSUME Init PROVE Types
<1>1. IsScenario(scenario) /\ Len(wire) < Big
  BY ScenarioAssumption DEF Init, wire
<1>2. scenario.sent \in Nat /\ scenario.wire \in Seq(Unit)
  <2>1. scenario.wire \in Seq(Unit) /\ scenario.sent \in 0..Len(scenario.wire)
    BY <1>1 DEF IsScenario
  <2>2. Len(scenario.wire) \in Nat
    BY <2>1, LenProperties
  <2> QED BY ONLY <2>1, <2>2
<1>3. Len(wire) \in Nat
  BY <1>2, LenProperties DEF wire
<1>4. TypesOfNetwork
  <2>1. next = 0 /\ next \in 0..scenario.sent /\ Len(wire) - next = Len(wire)
    BY <1>2, <1>3 DEF Init
  <2> QED BY ONLY <2>1, Init DEF Init, TypesOfNetwork
<1>5. TypesOfReading
  BY EmptyIs DEF Init, TypesOfReading, Maybe
<1>6. TypesOfCalls
  BY EmptySeq DEF Init, TypesOfCalls
<1> QED BY <1>4, <1>5, <1>6 DEF Types

(* Types is an invariant, and what it says is more than TypeOK.             *)
LEMMA TypesInvariant == Spec => []Types
<1>1. Init => Types
  BY InitTypes
<1>2. Types /\ [Next]_vars => Types'
  BY NextTypes
<1> QED BY <1>1, <1>2, PTL DEF Spec

(* The state of a response stays one the code can be in: the units read are  *)
(* ones that were sent, the buffer holds chunks of bytes, and no call is in  *)
(* progress but read, read1 and drain.                                       *)
THEOREM TypeCorrect == Spec => []TypeOK
<1>1. Types => TypeOK
  <2> SUFFICES ASSUME Types PROVE TypeOK
    OBVIOUS
  <2>1. TypesOfNetwork /\ TypesOfReading /\ TypesOfCalls
    BY DEF Types
  <2>2. length_remaining \in Nat \cup {None}
    <3>1. Len(wire) \in Nat /\ next \in 0..Len(wire)
      BY <2>1, WireType
    <3> QED BY <2>1, <3>1 DEF TypesOfNetwork
  <2>3. \A i \in DOMAIN buffer.chunks : buffer.chunks[i] \in Seq(Nat)
    <3>1. buffer.chunks \in Seq(Seq(Nat))
      BY <2>1 DEF TypesOfReading, IsBuffer
    <3>2. DOMAIN buffer.chunks = 1..Len(buffer.chunks)
      BY <3>1, LenProperties
    <3> QED BY <3>1, <3>2, ElementOfSeq
  <2>4. call.m \in {"idle", "read", "read1", "drain"}
    BY <2>1 DEF TypesOfCalls, Idle, DrainCall, ReadCall, Read1Call
  <2> QED BY <2>1, <2>2, <2>3, <2>4
          DEF TypeOK, Maybe, TypesOfNetwork, TypesOfReading, TypesOfCalls
<1> QED BY <1>1, TypesInvariant, PTL

(***************************************************************************)
(* Connections are released, and with nothing left to read.                 *)
(***************************************************************************)
LEMMA WholeIs ==
    ASSUME TypesOfNetwork, NEW o, AllSent(o), scenario.framing # "close"
    PROVE  next + Len(o.data) = Len(wire)
<1>1. /\ Len(wire) \in Nat /\ next \in Nat /\ Arrived \in Nat
      /\ scenario.sent \in 0..Len(wire) /\ next + Arrived = scenario.sent
      /\ IsScenario(scenario)
  BY WireType
<1>2. scenario.framing \in {"length", "close", "chunked"}
  BY <1>1 DEF IsScenario, Framings
<1>3. CASE scenario.framing = "length"
  <2>1. Len(o.data) = Len(wire) - next
    BY <1>3 DEF AllSent, TypesOfNetwork, left
  <2> QED BY ONLY <1>1, <2>1
<1>4. CASE scenario.framing = "chunked"
  <2>1. Len(o.data) = Arrived /\ ~(scenario.sent < Len(wire))
    BY <1>4 DEF AllSent, Cut
  <2> QED BY ONLY <1>1, <2>1
<1> QED BY <1>2, <1>3, <1>4

(* What an outcome may be for Connected to last.                             *)
Closes(o) ==
    /\ o.err = "none" /\ o.open => fpopen
    /\ o.err = "none" /\ ~o.open /\ fpopen =>
          scenario.framing = "close" \/ next + Len(o.data) = Len(wire)

LEMMA ReceiveConnects ==
    ASSUME TypesOfNetwork, Connected, NEW o \in Outcome, Len(o.data) <= Arrived, Receive(o),
           Closes(o), scenario' = scenario, spoiled => spoiled'
    PROVE  /\ Connected'
           /\ o.err = "none" /\ ~o.open => conn' = "put"
<1>1. /\ Len(wire) \in Nat /\ next \in Nat /\ Arrived \in Nat /\ next + Arrived = scenario.sent
      /\ scenario.sent \in 0..Len(wire)
  BY WireType
<1>2. Len(o.data) \in Nat /\ o.open \in BOOLEAN
  BY LenProperties DEF Outcome
<1>3. /\ next' = next + Len(o.data)
      /\ fpopen' = (o.open /\ o.err = "none")
      /\ sock' = IF o.err # "none" /\ conn = "held" THEN "closed" ELSE sock
      /\ conn' = IF fpopen' THEN conn ELSE "put"
  BY DEF Receive, Caught
<1>4. conn \in {"held", "put"} /\ sock \in {"open", "closed"} /\ fpopen \in BOOLEAN
  BY DEF TypesOfNetwork
<1>5. wire' = wire /\ Apart' = Apart
  BY DEF wire, Apart
<1>6. scenario'.framing = "close" => sock' = "closed"
  BY ONLY <1>3, scenario' = scenario, Connected DEF Connected
<1>7. CASE fpopen'
  <2>1. o.err = "none" /\ o.open
    BY ONLY <1>3, <1>7, Zenon
  <2>2. fpopen /\ conn' = conn
    BY ONLY <1>3, <1>7, <2>1, Closes(o) DEF Closes
  <2>3. conn # "put"
    BY ONLY <2>2, Connected DEF Connected
  <2> QED BY ONLY <1>6, <1>7, <2>1, <2>2, <2>3 DEF Connected
<1>8. CASE ~fpopen'
  <2>1. conn' = "put"
    BY ONLY <1>3, <1>8
  <2>2. sock' = "open" /\ Apart => next' = Len(wire)
    <3> SUFFICES ASSUME sock' = "open", Apart PROVE next' = Len(wire)
      OBVIOUS
    <3>1. sock = "open" /\ (o.err # "none" => conn = "put")
      BY ONLY <1>3, <1>4, sock' = "open"
    <3>2. conn = "put" => next = Len(wire)
      BY ONLY <3>1, Connected, Apart DEF Connected
    <3>3. conn = "put" => next + Len(o.data) = Len(wire)
      BY ONLY <1>1, <1>2, <3>2, Len(o.data) <= Arrived
    <3>4. conn = "held" => fpopen
      BY ONLY <1>4, <3>1, Connected DEF Connected
    <3>5. o.err = "none" => ~o.open
      BY ONLY <1>3, <1>8, Zenon
    <3>6. scenario.framing # "close"
      BY ONLY <3>1, Connected DEF Connected
    <3>7. next + Len(o.data) = Len(wire)
      BY ONLY <1>4, <3>1, <3>3, <3>4, <3>5, <3>6, Closes(o) DEF Closes
    <3> QED BY ONLY <1>3, <3>7
  <2> QED BY ONLY <1>5, <1>6, <1>8, <2>1, <2>2 DEF Connected
<1>9. o.err = "none" /\ ~o.open => ~fpopen'
  BY ONLY <1>3, Zenon
<1>10. o.err = "none" /\ ~o.open => conn' = "put"
  BY ONLY <1>3, <1>9
<1>11. Connected'
  BY <1>7, <1>8
<1> QED BY ONLY <1>10, <1>11

LEMMA ConnectionStays ==
    ASSUME Connected, NoNetwork, scenario' = scenario, spoiled => spoiled'
    PROVE  Connected' /\ conn' = conn /\ fpopen' = fpopen
BY DEF Connected, NoNetwork, network, wire, Apart

LEMMA ReturnsIs ==
    ASSUME NEW m, NEW amt, NEW out, Returns(m, amt, out)
    PROVE  /\ call' = Idle /\ spoiled' = spoiled
           /\ amt = 0 \/ (out # <<>> /\ (m = "read" => amt # None)) => ~Ended'
BY DEF Returns, Ended

LEMMA RaisesIs ==
    ASSUME NEW why, Raises(why)
    PROVE  call' = Idle /\ spoiled' = TRUE /\ ~Ended'
BY DEF Raises, Ended

LEMMA ReturnsBufferedIs ==
    ASSUME NEW m, NEW amt, NEW g, ReturnsBuffered(m, amt, g)
    PROVE  /\ call' = Idle /\ (spoiled => spoiled')
           /\ amt = 0 \/ (g.out # <<>> /\ (m = "read" => amt # None)) => ~Ended'
<1>1. CASE Raises("empty")
  BY <1>1, RaisesIs
<1>2. CASE Returns(m, amt, g.out)
  <2>1. PICK out : out = g.out
    OBVIOUS
  <2> QED BY <1>2, <2>1, ReturnsIs
<1> QED BY <1>1, <1>2 DEF ReturnsBuffered

LEMMA IdleIsAsked ==
    ASSUME call' = Idle PROVE Asked'
BY DEF Asked, Idle

(* The step that begins a read returns what is there, or goes on.            *)
LEMMA BeginReadReleases ==
    ASSUME Types, Released, NEW amt \in Amount, NEW cache, BeginRead(amt, cache),
           scenario' = scenario
    PROVE  Released'
<1>1. TypesOfNetwork /\ TypesOfReading /\ TypesOfCalls /\ Connected
  BY DEF Types, Released
<1>2. NoNetwork
  BY DEF BeginRead
<1>3. PICK d, b : d = decoder /\ b = buffer
  OBVIOUS
<1>4. d \in Maybe /\ IsBuffer(b) /\ b.size \in Nat
  BY <1>1, <1>3 DEF TypesOfReading, IsBuffer
<1>5. ASSUME spoiled => spoiled', ~Ended', Asked' PROVE Released'
  BY <1>1, <1>2, <1>5, ConnectionStays DEF Released
<1>6. ASSUME NEW c, c.m = "read", Continues(c) PROVE Released'
  <2>1. call' = c /\ spoiled' = spoiled
    BY <1>6 DEF Continues
  <2>2. ~Ended'
    BY <1>6, <2>1 DEF Ended, Idle
  <2>3. Asked'
    BY <1>6, <2>1 DEF Asked
  <2> QED BY <1>5, <2>1, <2>2, <2>3
<1>7. ASSUME NEW c, IsBuffer(c), amt \in Nat, c.size >= amt,
             ReturnsBuffered("read", amt, Get(c, amt))
      PROVE  Released'
  <2>1. PICK g : g = Get(c, amt)
    OBVIOUS
  <2>2. g.out \in Seq(Nat) /\ Len(g.out) = Smaller(amt, c.size) /\ c.size \in Nat
    BY <1>7, <2>1, GetIs DEF IsBuffer
  <2>3. amt # 0 => g.out # <<>>
    <3>1. Smaller(amt, c.size) = amt
      BY <1>7, <2>2 DEF Smaller
    <3> QED BY <2>2, <3>1, EmptySeq
  <2>4. amt # None
    BY <1>7, NoneAssumption
  <2>5. /\ call' = Idle /\ (spoiled => spoiled')
        /\ amt = 0 \/ (g.out # <<>> /\ ("read" = "read" => amt # None)) => ~Ended'
    BY <1>7, <2>1, ReturnsBufferedIs
  <2> QED BY <1>5, <2>3, <2>4, <2>5, IdleIsAsked
<1>8. CASE amt = None
  <2>1. Continues([m |-> "read", amt |-> None, cache |-> cache, first |-> TRUE])
    BY <1>8 DEF BeginRead
  <2> QED BY <1>6, <2>1
<1>9. CASE amt # None /\ b.size >= amt
  <2>1. ReturnsBuffered("read", amt, Get(b, amt))
    BY <1>3, <1>9 DEF BeginRead
  <2>2. amt \in Nat
    BY <1>9 DEF Amount
  <2> QED BY <1>4, <1>7, <1>9, <2>1, <2>2
<1>10. CASE amt # None /\ ~(b.size >= amt)
  <2>1. amt \in Nat /\ amt - b.size \in Amount
    BY <1>4, <1>10 DEF Amount
  <2>2. PICK i \in Maybe : i = Initialised
    BY <1>3, <1>4, InitialisedType
  <2>3. PICK r \in MaybeDecoded : r = FromTail(i, amt - b.size)
    BY <2>1, FromTailType
  <2>4. PICK c : c = Refilled(r)
    OBVIOUS
  <2>5. IF ~r.ok THEN Raises("undecodable") /\ UNCHANGED buffer
        ELSE IF c.size >= amt THEN ReturnsBuffered("read", amt, Get(c, amt))
        ELSE /\ buffer' = c
             /\ Continues([m |-> "read", amt |-> amt, cache |-> FALSE, first |-> TRUE])
    <3>1. ~(buffer.size >= amt)
      BY <1>3, <1>10
    <3> QED BY <1>3, <1>10, <2>2, <2>3, <2>4, <3>1, Zenon DEF BeginRead
  <2>6. IsBuffer(c)
    <3>1. r.out \in Seq(Nat)
      BY DEF MaybeDecoded
    <3>2. IsBuffer(Put(b, r.out))
      BY <1>4, <3>1, PutIs
    <3> QED BY <1>3, <1>4, <2>4, <3>2 DEF Refilled
  <2>7. CASE Raises("undecodable")
    BY <1>5, <2>7, RaisesIs, IdleIsAsked
  <2>8. CASE c.size >= amt /\ ReturnsBuffered("read", amt, Get(c, amt))
    BY <1>7, <2>1, <2>6, <2>8
  <2>9. CASE Continues([m |-> "read", amt |-> amt, cache |-> FALSE, first |-> TRUE])
    BY <1>6, <2>9
  <2> QED BY <2>5, <2>7, <2>8, <2>9
<1> QED BY <1>8, <1>9, <1>10

(* What is read from the network is a part of the wire.                      *)
LEMMA PlainBytes ==
    ASSUME TypesOfNetwork, Plainly(scenario), NEW o, NEW amt, Reads(o, amt)
    PROVE  Bytes(o.data) \in Seq(Nat) /\ Len(Bytes(o.data)) = Len(o.data)
<1>1. /\ IsScenario(scenario) /\ wire \in Seq(Unit) /\ Len(wire) \in Nat /\ next \in Nat
      /\ Arrived \in Nat /\ next + Arrived = scenario.sent /\ scenario.sent \in 0..Len(wire)
  BY WireType
<1>2. \A i \in DOMAIN wire : Len(wire[i].out) = 1
  BY <1>1 DEF IsScenario, wire
<1>3. PICK w, s : w = wire /\ s = o.data
  OBVIOUS
<1>4. s \in Seq(Unit) /\ Len(s) \in Nat /\ Len(s) <= Arrived
        /\ s = SubSeq(w, next + 1, next + Len(s))
  <2>1. o.data \in Seq(Unit)
    BY DEF Reads, Outcome
  <2> QED BY <1>3, <2>1, LenProperties DEF Reads
<1>5. PICK a, b : a = next + 1 /\ b = next + Len(s)
  OBVIOUS
<1>6. s = SubSeq(w, a, b) /\ a \in Int /\ b \in Int /\ a > 0 /\ b <= Len(w) /\ w \in Seq(Unit)
  BY ONLY <1>1, <1>3, <1>4, <1>5
<1>7. ASSUME NEW i \in DOMAIN s PROVE Len(s[i].out) = 1
  <2>1. i \in 1..Len(s)
    BY <1>4, LenProperties
  <2>2. i \in 1..(b - a + 1)
    BY ONLY <1>1, <1>4, <1>5, <2>1
  <2>3. SubSeq(w, a, b)[i] = w[a + i - 1] /\ a + i - 1 \in 1..Len(w)
    <3>1. \A j \in a..b : w[j] \in Unit
      <4> SUFFICES ASSUME NEW j \in a..b PROVE w[j] \in Unit
        OBVIOUS
      <4>1. j \in 1..Len(w)
        BY ONLY <1>1, <1>3, <1>6, j \in a..b
      <4> QED BY <1>6, <4>1, ElementOfSeq
    <3>2. \A j \in 1..(b - a + 1) : SubSeq(w, a, b)[j] = w[a + j - 1]
      BY ONLY <1>6, <3>1, SubSeqProperties
    <3>3. a + i - 1 \in 1..Len(w)
      BY ONLY <1>1, <1>3, <1>4, <1>5, <1>6, <2>1
    <3> QED BY ONLY <2>2, <3>2, <3>3
  <2>4. a + i - 1 \in DOMAIN wire
    BY <1>1, <1>3, <2>3, LenProperties
  <2> QED BY ONLY <1>2, <1>3, <1>6, <2>3, <2>4
<1>8. Len(Bytes(s)) = Len(s)
  BY ONLY <1>4, <1>7, PlainLength
<1> QED BY <1>3, <1>4, <1>8, BytesType

LEMMA PlainSome ==
    ASSUME TypesOfNetwork, ~scenario.decode, NEW o, NEW amt, Reads(o, amt), o.data # <<>>
    PROVE  Bytes(o.data) # <<>>
<1>1. Len(Bytes(o.data)) = Len(o.data) /\ o.data \in Seq(Unit)
  BY PlainBytes DEF Plainly, Reads, Outcome
<1> QED BY <1>1, EmptySeq

LEMMA GetsSome ==
    ASSUME NEW c, IsBuffer(c), NEW amt \in Nat, amt # 0, c.size >= amt
    PROVE  Get(c, amt).out # <<>>
<1>1. amt \in Amount /\ amt # None /\ c.size \in Nat
  BY NoneAssumption DEF Amount, IsBuffer
<1>2. c.size > 0
  BY <1>1
<1>3. Taken(c, amt).out # <<>>
  BY <1>1, <1>2, TakenIs
<1> QED BY <1>1, <1>3 DEF Taken

(* read(amt) goes on until it has its bytes, or the response is at its end.  *)
LEMMA FinishAllReturns ==
    ASSUME NEW data, FinishAll(data)
    PROVE  call' = Idle /\ (spoiled => spoiled')
<1>1. Raises("undecodable") => call' = Idle /\ (spoiled => spoiled')
  BY RaisesIs
<1>2. ASSUME NEW g, ReturnsBuffered("read", None, g) PROVE call' = Idle /\ (spoiled => spoiled')
  BY <1>2, ReturnsBufferedIs
<1>3. Raises("undecodable") \/ \E g : ReturnsBuffered("read", None, g)
  BY Zenon DEF FinishAll
<1> QED BY <1>1, <1>2, <1>3

LEMMA FinishSomeReturns ==
    ASSUME TypesOfReading, TypesOfCalls, NEW data \in Seq(Unit), call \in ReadCall,
           call.amt # None, FinishSome(data)
    PROVE  /\ spoiled => spoiled'
           /\ Asked'
           /\ data # <<>> => ~Ended'
<1>1. PICK d, b, amt : d = decoder /\ b = buffer /\ amt = call.amt
  OBVIOUS
<1>2. d \in Maybe /\ IsBuffer(b)
  BY <1>1 DEF TypesOfReading
<1>3. amt \in Nat /\ amt # 0 /\ b.size < amt /\ b.size \in Nat
  <2>1. b.size < amt
    BY <1>1 DEF TypesOfCalls, ReadCall, Read1Call, Idle, DrainCall
  <2>2. amt \in Amount \ {0} /\ amt # None
    BY <1>1 DEF ReadCall
  <2> QED BY <1>2, <2>1, <2>2 DEF Amount, IsBuffer
<1>4. PICK flush \in BOOLEAN : flush = (call.first /\ data = <<>>)
  OBVIOUS
<1>5. amt - b.size \in Amount
  BY <1>3 DEF Amount
<1>6. PICK r \in MaybeDecoded : r = Decode(d, data, flush, amt - b.size)
  BY <1>2, <1>5, DecodeType
<1>7. r.out \in Seq(Nat) /\ r.ok \in BOOLEAN
  BY DEF MaybeDecoded
<1>8. PICK c : c = Put(b, r.out)
  OBVIOUS
<1>9. IF ~r.ok THEN Raises("undecodable") /\ UNCHANGED buffer
      ELSE IF c.size < amt /\ data # <<>>
      THEN buffer' = c /\ Continues([call EXCEPT !.first = FALSE])
      ELSE ReturnsBuffered("read", amt, Get(c, amt))
  BY <1>1, <1>4, <1>6, <1>8, Zenon DEF FinishSome
<1>10. IsBuffer(c) /\ c.size \in Nat
  BY <1>2, <1>7, <1>8, PutIs DEF IsBuffer
<1>11. CASE ~r.ok
  BY <1>9, <1>11, RaisesIs, IdleIsAsked
<1>12. CASE r.ok /\ c.size < amt /\ data # <<>>
  <2>1. Continues([call EXCEPT !.first = FALSE])
    BY <1>9, <1>12
  <2>2. [call EXCEPT !.first = FALSE].m = "read"
    BY DEF ReadCall
  <2>3. call'.m = "read" /\ spoiled' = spoiled
    BY <2>1, <2>2 DEF Continues
  <2> QED BY <2>3 DEF Asked, Ended, Idle
<1>13. CASE r.ok /\ ~(c.size < amt /\ data # <<>>)
  <2>1. ReturnsBuffered("read", amt, Get(c, amt))
    BY <1>9, <1>13
  <2>2. PICK g : g = Get(c, amt)
    OBVIOUS
  <2>3. /\ call' = Idle /\ (spoiled => spoiled')
        /\ amt = 0 \/ (g.out # <<>> /\ ("read" = "read" => amt # None)) => ~Ended'
    BY <2>1, <2>2, ReturnsBufferedIs
  <2>4. data # <<>> => g.out # <<>>
    BY <1>3, <1>10, <1>13, <2>2, GetsSome
  <2>5. amt # None
    BY <1>3, NoneAssumption
  <2> QED BY <2>3, <2>4, <2>5, IdleIsAsked
<1> QED BY <1>7, <1>11, <1>12, <1>13

LEMMA ReadMoreReleases ==
    ASSUME Types, Released, ReadMore PROVE Released'
<1>1. TypesOfNetwork /\ TypesOfReading /\ TypesOfCalls /\ Connected
  BY DEF Types, Released
<1>2. call \in ReadCall /\ call.amt \in Amount \ {0}
  BY <1>1, CallIs DEF ReadMore
<1>3. PICK amt \in Amount \ {0} : amt = call.amt
  BY <1>2
<1>4. PICK o \in RawReads(amt, FALSE) :
          /\ Receive(o)
          /\ IF o.err # "none" THEN Raises(o.err) /\ UNCHANGED reading
             ELSE /\ uncached' = (uncached \/ ~call.cache)
                  /\ IF call.first /\ o.data = <<>> /\ buffer.size = 0 /\ ~HasTail(decoder)
                     THEN /\ Returns("read", call.amt, <<>>)
                          /\ UNCHANGED <<decoder, hasdecoded, buffer, cached>>
                     ELSE IF call.amt = None THEN FinishAll(o.data)
                     ELSE IF ~scenario.decode
                     THEN /\ Returns("read", call.amt, Bytes(o.data))
                          /\ UNCHANGED <<decoder, hasdecoded, buffer, cached>>
                     ELSE FinishSome(o.data)
  BY <1>3 DEF ReadMore
<1>5. scenario' = scenario /\ amt \in Amount /\ FALSE \in BOOLEAN
  BY DEF ReadMore
<1>6. /\ Reads(o, amt)
      /\ o.err = "none" /\ ~o.open /\ fpopen => AllSent(o)
      /\ o.err = "none" /\ o.data = <<>> => ~o.open
      /\ o.err = "none" /\ amt = None => ~o.open
      /\ o.err = "none" /\ o.open => fpopen
  BY <1>1, RawReadIs
<1>7. o \in Outcome /\ Len(o.data) <= Arrived /\ o.data \in Seq(Unit)
  BY <1>6 DEF Reads, Outcome
<1>8. Closes(o)
  BY <1>1, <1>6, WholeIs DEF Closes
<1>9. ASSUME spoiled => spoiled', Asked', Ended' => o.err = "none" /\ ~o.open
      PROVE  Released'
  BY <1>1, <1>4, <1>5, <1>7, <1>8, <1>9, ReceiveConnects DEF Released
<1>10. CASE o.err # "none"
  BY <1>4, <1>9, <1>10, RaisesIs, IdleIsAsked
<1>11. ASSUME o.err = "none", NEW out, Returns("read", amt, out),
             out = <<>> \/ amt = None => ~o.open
       PROVE  Released'
  <2>1. call' = Idle /\ spoiled' = spoiled /\ (out # <<>> /\ amt # None => ~Ended')
    BY <1>11, ReturnsIs
  <2> QED BY <1>9, <1>11, <2>1, IdleIsAsked
<1>12. CASE o.err = "none"
  <2>1. ASSUME FinishAll(o.data), amt = None PROVE Released'
    BY <1>6, <1>9, <1>12, <2>1, FinishAllReturns, IdleIsAsked
  <2>2. ASSUME FinishSome(o.data), amt # None PROVE Released'
    BY <1>1, <1>2, <1>3, <1>6, <1>7, <1>9, <1>12, <2>2, FinishSomeReturns
  <2>3. ASSUME ~scenario.decode, Returns("read", amt, Bytes(o.data)) PROVE Released'
    <3>1. o.data # <<>> => Bytes(o.data) # <<>>
      BY <1>1, <1>6, <2>3, PlainSome
    <3>2. PICK out : out = Bytes(o.data)
      OBVIOUS
    <3> QED BY <1>6, <1>11, <1>12, <2>3, <3>1, <3>2
  <2>4. ASSUME o.data = <<>>, Returns("read", amt, <<>>) PROVE Released'
    BY <1>6, <1>11, <1>12, <2>4
  <2> QED BY <1>3, <1>4, <1>12, <2>1, <2>2, <2>3, <2>4
<1> QED BY <1>10, <1>12

LEMMA ReadReleases ==
    ASSUME Types, Released, NEW amt, Read(amt) PROVE Released'
<1>1. <<"read", amt>> \in scenario.calls
  BY DEF Read, MayCall
<1>2. IsScenario(scenario)
  BY WireType DEF Types
<1>3. <<"read", amt>>[2] \in Nat \cup {None}
  BY <1>1, <1>2 DEF IsScenario
<1>4. amt \in Amount /\ BeginRead(amt, FALSE) /\ scenario' = scenario
  BY <1>3 DEF Amount, Read
<1> QED BY <1>4, BeginReadReleases

LEMMA DataReleases ==
    ASSUME Types, Released, Data PROVE Released'
<1>1. CASE BeginRead(None, TRUE)
  BY <1>1, BeginReadReleases DEF Amount, Data
<1>2. CASE /\ last' = "some" /\ NoNetwork
           /\ UNCHANGED <<reading, call, iter, delivered, spoiled>>
  <2>1. Connected' /\ scenario' = scenario
    BY <1>2, ConnectionStays DEF Data, Released
  <2>2. Asked' /\ ~Ended'
    BY <1>2, <2>1 DEF Released, Asked, Ended
  <2> QED BY <2>1, <2>2 DEF Released
<1> QED BY <1>1, <1>2 DEF Data

(* read1 returns bytes that are there, or asks the network.                  *)
LEMMA Read1Releases ==
    ASSUME Types, Released, NEW amt, Read1(amt) PROVE Released'
<1>1. TypesOfNetwork /\ TypesOfReading /\ TypesOfCalls
  BY DEF Types
<1>2. amt \in Amount /\ scenario' = scenario /\ <<"read1", amt>> \in scenario.calls
  <2>1. <<"read1", amt>> \in scenario.calls
    BY DEF Read1, MayCall
  <2>2. IsScenario(scenario)
    BY <1>1, WireType
  <2>3. <<"read1", amt>>[2] \in Nat \cup {None}
    BY <2>1, <2>2 DEF IsScenario
  <2> QED BY <2>1, <2>3 DEF Amount, Read1
<1>3. NoNetwork /\ Connected
  BY DEF Read1, Released
<1>4. ASSUME spoiled => spoiled', Asked', ~Ended' PROVE Released'
  BY <1>2, <1>3, <1>4, ConnectionStays DEF Released
<1>5. PICK d, b : d = decoder /\ b = buffer
  OBVIOUS
<1>6. d \in Maybe /\ IsBuffer(b)
  BY <1>1, <1>5 DEF TypesOfReading
<1>7. PICK more \in BOOLEAN : more = (hasdecoded /\ (amt = None \/ b.size < amt))
  OBVIOUS
<1>8. PICK room : room = IF amt = None THEN None ELSE amt - b.size
  OBVIOUS
<1>9. more => room \in Amount
  BY <1>2, <1>6, <1>7, <1>8, MissingIs DEF Amount
<1>10. PICK r : r = IF more THEN FromTail(d, room) ELSE [d |-> d, out |-> <<>>, ok |-> TRUE]
  OBVIOUS
<1>11. r \in MaybeDecoded
  <2>1. <<>> \in Seq(Nat)
    BY EmptySeq
  <2>2. [d |-> d, out |-> <<>>, ok |-> TRUE] \in MaybeDecoded
    BY ONLY <1>6, <2>1 DEF MaybeDecoded
  <2>3. more => FromTail(d, room) \in MaybeDecoded
    BY <1>6, <1>9, FromTailType
  <2> QED BY ONLY <1>10, <2>2, <2>3, more \in BOOLEAN
<1>12. PICK c : c = IF more THEN Refilled(r) ELSE b
  OBVIOUS
<1>13. IsBuffer(c)
  <2>1. r.out \in Seq(Nat)
    BY <1>11 DEF MaybeDecoded
  <2>2. IsBuffer(Put(b, r.out))
    BY <1>6, <2>1, PutIs
  <2>3. Refilled(r) = Put(b, r.out) \/ Refilled(r) = b
    BY <1>5 DEF Refilled
  <2> QED BY ONLY <1>6, <1>12, <2>2, <2>3, more \in BOOLEAN
<1>14. IF ~r.ok THEN Raises("undecodable") /\ UNCHANGED buffer
       ELSE IF hasdecoded /\ c.size > 0
       THEN ReturnsBuffered("read1", amt, Taken(c, amt))
       ELSE /\ buffer' = c
            /\ IF amt = 0 THEN Returns("read1", amt, <<>>)
               ELSE Continues([m |-> "read1", amt |-> amt, first |-> TRUE])
  BY <1>5, <1>7, <1>8, <1>10, <1>12, Zenon DEF Read1
<1>15. ASSUME Raises("undecodable") PROVE Released'
  BY <1>4, <1>15, RaisesIs, IdleIsAsked
<1>16. ASSUME c.size > 0, ReturnsBuffered("read1", amt, Taken(c, amt)) PROVE Released'
  <2>1. PICK g : g = Taken(c, amt)
    OBVIOUS
  <2>2. /\ call' = Idle /\ (spoiled => spoiled')
        /\ amt = 0 \/ (g.out # <<>> /\ ("read1" = "read" => amt # None)) => ~Ended'
    BY <1>16, <2>1, ReturnsBufferedIs
  <2>3. amt # 0 => g.out # <<>>
    BY <1>2, <1>13, <1>16, <2>1, TakenIs
  <2> QED BY <1>4, <2>2, <2>3, IdleIsAsked
<1>17. ASSUME amt = 0, Returns("read1", amt, <<>>) PROVE Released'
  BY <1>4, <1>17, ReturnsIs, IdleIsAsked
<1>18. ASSUME Continues([m |-> "read1", amt |-> amt, first |-> TRUE]) PROVE Released'
  <2>1. call' = [m |-> "read1", amt |-> amt, first |-> TRUE] /\ spoiled' = spoiled
    BY <1>18 DEF Continues
  <2>2. ~Ended'
    BY <2>1 DEF Ended, Idle
  <2>3. Asked'
    BY <1>2, <2>1 DEF Asked
  <2> QED BY <1>4, <2>1, <2>2, <2>3
<1> QED BY <1>14, <1>15, <1>16, <1>17, <1>18

LEMMA FinishRead1Returns ==
    ASSUME TypesOfReading, Asked, NEW data \in Seq(Unit), call \in Read1Call,
           FinishRead1(data), scenario' = scenario
    PROVE  /\ spoiled => spoiled'
           /\ Asked'
           /\ data # <<>> => ~Ended'
<1>1. PICK d, b, amt : d = decoder /\ b = buffer /\ amt = call.amt
  OBVIOUS
<1>2. d \in Maybe /\ IsBuffer(b) /\ amt \in Amount \ {0} /\ call.m = "read1"
  BY <1>1 DEF TypesOfReading, Read1Call
<1>3. PICK i \in Maybe : i = Initialised
  BY <1>1, <1>2, InitialisedType
<1>4. PICK flush \in BOOLEAN : flush = (data = <<>>)
  OBVIOUS
<1>5. PICK r \in MaybeDecoded : r = Decode(i, data, flush, amt)
  BY <1>2, DecodeType
<1>6. r.out \in Seq(Nat) /\ r.ok \in BOOLEAN
  BY DEF MaybeDecoded
<1>7. PICK c : c = Put(b, r.out)
  OBVIOUS
<1>8. IF ~r.ok THEN Raises("undecodable") /\ UNCHANGED buffer
      ELSE IF r.out = <<>> /\ data # <<>>
      THEN buffer' = c /\ Continues([call EXCEPT !.first = FALSE])
      ELSE ReturnsBuffered("read1", amt, Taken(c, amt))
  BY <1>1, <1>3, <1>4, <1>5, <1>7, Zenon DEF FinishRead1
<1>9. IsBuffer(c) /\ (r.out # <<>> => c.size > 0)
  <2>1. IsBuffer(c) /\ c.size = b.size + Len(r.out) /\ b.size \in Nat /\ Len(r.out) \in Nat
    BY <1>2, <1>6, <1>7, PutIs, LenProperties, Zenon DEF IsBuffer, Put
  <2>2. r.out # <<>> => Len(r.out) # 0
    BY <1>6, EmptySeq
  <2> QED BY ONLY <2>1, <2>2
<1>10. CASE ~r.ok
  BY <1>8, <1>10, RaisesIs, IdleIsAsked
<1>11. CASE r.ok /\ r.out = <<>> /\ data # <<>>
  <2>1. Continues([call EXCEPT !.first = FALSE])
    BY <1>8, <1>11
  <2>2. [call EXCEPT !.first = FALSE].m = "read1" /\ [call EXCEPT !.first = FALSE].amt = call.amt
    BY DEF Read1Call
  <2>3. call'.m = "read1" /\ call'.amt = call.amt /\ spoiled' = spoiled
    BY <2>1, <2>2 DEF Continues
  <2> QED BY <1>2, <2>3 DEF Asked, Ended, Idle
<1>12. CASE r.ok /\ ~(r.out = <<>> /\ data # <<>>)
  <2>1. ReturnsBuffered("read1", amt, Taken(c, amt))
    BY <1>8, <1>12
  <2>2. PICK g : g = Taken(c, amt)
    OBVIOUS
  <2>3. /\ call' = Idle /\ (spoiled => spoiled')
        /\ amt = 0 \/ (g.out # <<>> /\ ("read1" = "read" => amt # None)) => ~Ended'
    BY <2>1, <2>2, ReturnsBufferedIs
  <2>4. data # <<>> => g.out # <<>>
    BY <1>2, <1>9, <1>12, <2>2, TakenIs
  <2> QED BY <2>3, <2>4, IdleIsAsked
<1> QED BY <1>6, <1>10, <1>11, <1>12

LEMMA Read1MoreReleases ==
    ASSUME Types, Released, Read1More, BreaksAreNoticed PROVE Released'
<1>1. TypesOfNetwork /\ TypesOfReading /\ TypesOfCalls /\ Connected /\ Asked
  BY DEF Types, Released
<1>2. call \in Read1Call /\ call.amt \in Amount \ {0} /\ <<"read1", call.amt>> \in scenario.calls
  BY <1>1, CallIs DEF Read1More, Asked
<1>3. PICK amt \in Amount \ {0} : amt = IF call.first THEN call.amt ELSE Big
  BY <1>1, <1>2, BigIs
<1>4. PICK o \in RawReads(amt, TRUE) :
          /\ Receive(o)
          /\ IF o.err # "none" THEN Raises(o.err) /\ UNCHANGED reading
             ELSE /\ uncached' = TRUE
                  /\ IF scenario.decode THEN FinishRead1(o.data)
                     ELSE /\ Returns("read1", call.amt, Bytes(o.data))
                          /\ UNCHANGED <<decoder, hasdecoded, buffer, cached>>
  BY <1>3 DEF Read1More
<1>5. scenario' = scenario /\ amt \in Amount /\ TRUE \in BOOLEAN
  BY DEF Read1More
<1>6. /\ Reads(o, amt)
      /\ o.err = "none" /\ ~o.open /\ fpopen => AllSent(o) \/ (amt = None /\ NoneLeft(o))
      /\ o.err = "none" /\ o.data = <<>> => ~o.open
      /\ o.err = "none" /\ o.open => fpopen
  BY <1>1, RawReadIs
<1>7. o \in Outcome /\ Len(o.data) <= Arrived /\ o.data \in Seq(Unit)
  BY <1>6 DEF Reads, Outcome
<1>8. amt = None /\ NoneLeft(o) => next + Len(o.data) = Len(wire)
  <2> SUFFICES ASSUME amt = None, NoneLeft(o) PROVE next + Len(o.data) = Len(wire)
    OBVIOUS
  <2>1. Big # None
    BY BigAssumption, NoneAssumption
  <2>2. call.amt = None
    BY <1>3, <2>1
  <2>3. scenario.sent = Len(scenario.wire)
    <3>1. scenario \in Scenarios
      BY <1>1 DEF TypesOfNetwork
    <3> QED BY <1>2, <2>2, <3>1 DEF BreaksAreNoticed, NoneLeft
  <2>4. next \in Nat /\ Arrived = 0 /\ next + Arrived = scenario.sent
    BY <1>1, WireType DEF NoneLeft
  <2>5. Len(o.data) = 0
    BY EmptySeq DEF NoneLeft
  <2> QED BY ONLY <2>3, <2>4, <2>5 DEF wire
<1>9. Closes(o)
  BY <1>1, <1>6, <1>8, WholeIs DEF Closes
<1>10. ASSUME spoiled => spoiled', Asked', Ended' => o.err = "none" /\ ~o.open
       PROVE  Released'
  BY <1>1, <1>4, <1>5, <1>7, <1>9, <1>10, ReceiveConnects DEF Released
<1>11. CASE o.err # "none"
  BY <1>4, <1>10, <1>11, RaisesIs, IdleIsAsked
<1>12. CASE o.err = "none" /\ scenario.decode
  <2>1. FinishRead1(o.data)
    BY <1>4, <1>12
  <2> QED BY <1>1, <1>2, <1>5, <1>6, <1>7, <1>10, <1>12, <2>1, FinishRead1Returns
<1>13. CASE o.err = "none" /\ ~scenario.decode
  <2>1. PICK out, a : out = Bytes(o.data) /\ a = call.amt
    OBVIOUS
  <2>2. Returns("read1", a, out)
    BY <1>4, <1>13, <2>1
  <2>3. call' = Idle /\ spoiled' = spoiled /\ (out # <<>> => ~Ended')
    BY <2>2, ReturnsIs
  <2>4. o.data # <<>> => out # <<>>
    BY <1>1, <1>6, <1>13, <2>1, PlainSome
  <2> QED BY <1>6, <1>10, <1>13, <2>3, <2>4, IdleIsAsked
<1> QED BY <1>11, <1>12, <1>13

(* The generators of stream() and read_chunked().                            *)
LEMMA StreamReleases ==
    ASSUME Types, Released, NEW amt, Stream(amt) PROVE Released'
<1>1. Connected' /\ scenario' = scenario
  BY ConnectionStays DEF Stream, Released
<1>2. call' = call /\ spoiled' = spoiled /\ iter'.on
  BY DEF Stream
<1>3. Asked' /\ ~Ended'
  BY <1>1, <1>2 DEF Released, Asked, Ended
<1> QED BY <1>1, <1>3 DEF Released

LEMMA StreamReadReleases ==
    ASSUME Types, Released, StreamRead PROVE Released'
<1>1. TypesOfNetwork /\ TypesOfCalls /\ Connected
  BY DEF Types, Released
<1>2. scenario' = scenario
  BY DEF StreamRead
<1>3. CASE BeginRead(iter.amt, FALSE)
  <2>1. PICK amt \in Amount : amt = iter.amt
    BY <1>1, IterIs DEF StreamRead
  <2> QED BY <1>2, <1>3, <2>1, BeginReadReleases
<1>4. CASE StreamStops /\ NoNetwork /\ ~fpopen
  <2>1. Connected' /\ conn' = conn /\ call' = call /\ spoiled' = spoiled
    BY <1>1, <1>2, <1>4, ConnectionStays DEF StreamStops
  <2>2. Asked'
    BY <1>2, <2>1 DEF Released, Asked
  <2>3. conn \in {"held", "put"}
    BY <1>1 DEF TypesOfNetwork
  <2>4. ~spoiled => conn = "put"
    BY <1>1, <1>4, <2>3 DEF Connected
  <2> QED BY <2>1, <2>2, <2>4 DEF Released, Ended
<1> QED BY <1>3, <1>4 DEF StreamRead

LEMMA ChunkTurnReleases ==
    ASSUME Types, Released, ChunkTurn PROVE Released'
<1>1. TypesOfNetwork /\ TypesOfReading /\ TypesOfCalls /\ Connected /\ Asked
  BY DEF Types, Released
<1>2. scenario' = scenario /\ fpopen
  BY DEF ChunkTurn
<1>3. PICK amt \in Amount \ {0} : amt = iter.amt
  BY <1>1, IterIs DEF ChunkTurn
<1>4. PICK d : d = decoder
  OBVIOUS
<1>5. PICK o, r :
          /\ o \in IF HasTail(d) THEN {Got(0, TRUE)} ELSE {HandleChunk(amt), Fails("timeout")}
          /\ r = Decode(d, o.data, FALSE, amt)
          /\ Receive([o EXCEPT !.mid = fpchunk,
                               !.err = IF r.ok THEN @ ELSE "undecodable"])
          /\ IF o.err # "none"
             THEN Raises(o.err) /\ UNCHANGED <<decoder, hasdecoded>>
             ELSE /\ Decodes(r.d)
                  /\ IF r.ok THEN Yields(r.out) /\ UNCHANGED iter ELSE Raises("undecodable")
  BY <1>3, <1>4 DEF ChunkTurn
<1>6. o \in Outcome /\ Len(o.data) <= Arrived /\ (o.err = "none" => o.open)
  <2>1. CASE o = Got(0, TRUE)
    <3>1. Arrived \in Nat /\ 0 <= Arrived
      BY <1>1, WireType
    <3> QED BY <1>1, <2>1, <3>1, GotIs
  <2>2. CASE o = Fails("timeout")
    BY <1>1, <2>2, FailsIs, FailsReads DEF Reads
  <2>3. CASE o = HandleChunk(amt)
    BY <1>1, <2>3, HandleChunkIs
  <2> QED BY <1>5, <2>1, <2>2, <2>3
<1>7. r.ok \in BOOLEAN
  <2>1. o.data \in Seq(Unit) /\ FALSE \in BOOLEAN /\ amt \in Amount /\ d \in Maybe
    BY <1>1, <1>4, <1>6 DEF Outcome, TypesOfReading
  <2>2. r \in MaybeDecoded
    BY <1>5, <2>1, DecodeType
  <2> QED BY <2>2 DEF MaybeDecoded
<1>8. PICK p : p = [o EXCEPT !.mid = fpchunk, !.err = IF r.ok THEN @ ELSE "undecodable"]
  OBVIOUS
<1>9. p \in Outcome /\ p.data = o.data /\ (p.err = "none" => p.open)
  <2>1. fpchunk \in BOOLEAN
    BY <1>1 DEF TypesOfNetwork
  <2> QED BY ONLY <1>6, <1>7, <1>8, <2>1 DEF Outcome
<1>10. Closes(p)
  BY <1>2, <1>9 DEF Closes
<1>11. spoiled => spoiled'
  BY <1>5, RaisesIs DEF Yields
<1>12. Connected'
  <2>1. Receive(p) /\ Len(p.data) <= Arrived
    BY <1>5, <1>6, <1>8, <1>9
  <2> QED BY <1>1, <1>2, <1>9, <1>10, <1>11, <2>1, ReceiveConnects
<1>13. Asked' /\ ~Ended'
  <2>1. CASE Raises(o.err) \/ Raises("undecodable")
    BY <2>1, RaisesIs, IdleIsAsked
  <2>2. CASE Yields(r.out) /\ UNCHANGED iter
    BY <1>1, <1>2, <2>2 DEF Yields, Asked, Ended
  <2> QED BY <1>5, <2>1, <2>2
<1> QED BY <1>12, <1>13 DEF Released

LEMMA ChunkEndReleases ==
    ASSUME Types, Released, ChunkEnd PROVE Released'
<1>1. TypesOfNetwork /\ TypesOfReading /\ TypesOfCalls /\ Connected /\ Asked
  BY DEF Types, Released
<1>2. scenario' = scenario /\ next = Len(wire)
  BY DEF ChunkEnd, Finishes, AtEnd
<1>3. PICK d : d = decoder
  OBVIOUS
<1>4. PICK r : 
          /\ r = IF d = None THEN [d |-> None, out |-> <<>>, ok |-> TRUE]
                 ELSE Decode(d, <<>>, TRUE, None)
          /\ Receive([Got(0, FALSE) EXCEPT !.err = IF r.ok THEN "none" ELSE "undecodable"])
          /\ IF r.ok
             THEN /\ delivered' = delivered \o r.out /\ last' = "end"
                  /\ iter' = NotIterating /\ UNCHANGED <<call, spoiled>>
             ELSE Raises("undecodable")
  BY <1>3 DEF ChunkEnd, Flushed, Finishes
<1>5. PICK g : g = Got(0, FALSE)
  OBVIOUS
<1>6. g \in Outcome /\ Len(g.data) = 0 /\ Arrived \in Nat /\ next \in Nat /\ ~g.open
  <2>1. Arrived \in Nat /\ 0 <= Arrived
    BY <1>1, WireType
  <2> QED BY <1>1, <1>5, <2>1, GotIs, WireType
<1>7. PICK p : p = [g EXCEPT !.err = IF r.ok THEN "none" ELSE "undecodable"]
  OBVIOUS
<1>8. p \in Outcome /\ p.data = g.data /\ ~p.open /\ (r.ok => p.err = "none")
  BY ONLY <1>6, <1>7 DEF Outcome
<1>9. Closes(p) /\ Len(p.data) <= Arrived
  <2>1. next + Len(p.data) = Len(wire)
    BY ONLY <1>2, <1>6, <1>8
  <2> QED BY ONLY <1>6, <1>8, <2>1 DEF Closes
<1>10. spoiled => spoiled'
  BY <1>4, RaisesIs
<1>11. Connected' /\ (r.ok => conn' = "put")
  <2>1. Receive(p)
    BY <1>4, <1>5, <1>7
  <2> QED BY <1>1, <1>2, <1>8, <1>9, <1>10, <2>1, ReceiveConnects
<1>12. Asked'
  <2>1. CASE Raises("undecodable")
    BY <2>1, RaisesIs, IdleIsAsked
  <2>2. CASE r.ok
    BY <1>1, <1>2, <1>4, <2>2 DEF Asked
  <2> QED BY <1>4, <2>1, <2>2
<1>13. Ended' => r.ok
  BY <1>4, RaisesIs
<1> QED BY <1>11, <1>12, <1>13 DEF Released

LEMMA BreakReleases ==
    ASSUME Types, Released, Break PROVE Released'
<1>1. TypesOfNetwork /\ Connected /\ Asked
  BY DEF Types, Released
<1>2. scenario' = scenario /\ call' = call /\ last' = "left" /\ (spoiled => spoiled')
  BY DEF Break
<1>3. Connected'
  <2>1. CASE NoNetwork
    BY <1>1, <1>2, <2>1, ConnectionStays
  <2>2. CASE Receive(Fails("exit"))
    <3>1. PICK o : o = Fails("exit")
      OBVIOUS
    <3>2. o \in Outcome /\ o.data = <<>> /\ o.err # "none"
      BY <1>1, <3>1, FailsIs
    <3>3. Len(o.data) <= Arrived
      <4>1. Arrived \in Nat /\ Len(<<>>) = 0
        BY <1>1, WireType, EmptySeq
      <4> QED BY ONLY <3>2, <4>1
    <3>4. Closes(o)
      BY <3>2 DEF Closes
    <3> QED BY <1>1, <1>2, <2>2, <3>1, <3>2, <3>3, <3>4, ReceiveConnects
  <2> QED BY <2>1, <2>2 DEF Break
<1> QED BY <1>1, <1>2, <1>3 DEF Released, Asked, Ended

LEMMA EndsRelease ==
    ASSUME Types, Released, ChunkNone \/ Drain \/ Close PROVE Released'
<1>1. TypesOfNetwork /\ Connected /\ Asked
  BY DEF Types, Released
<1>2. CASE ChunkNone
  <2>1. /\ scenario' = scenario /\ call' = call /\ spoiled' = spoiled /\ conn' = "put"
        /\ sock' = sock /\ next' = next /\ fpopen' = fpopen /\ ~fpopen
    BY <1>2 DEF ChunkNone, StreamStops, network
  <2>2. conn \in {"held", "put"}
    BY <1>1 DEF TypesOfNetwork
  <2> QED BY <1>1, <2>1, <2>2 DEF Released, Connected, Asked, wire, Apart
<1>3. CASE Drain
  <2>1. /\ scenario' = scenario /\ call' = [m |-> "drain"] /\ spoiled' = TRUE /\ conn' = conn
        /\ sock' = sock /\ next' = next /\ fpopen' = fpopen
    BY <1>3 DEF Drain, network
  <2> QED BY <1>1, <2>1 DEF Released, Connected, Asked, wire, Ended, Apart
<1>4. CASE Close
  <2>1. /\ scenario' = scenario /\ call' = call /\ spoiled' = TRUE /\ conn' = conn
        /\ sock' = (IF conn = "held" THEN "closed" ELSE sock) /\ next' = next /\ fpopen' = FALSE
    BY <1>4 DEF Close
  <2> QED BY <1>1, <2>1 DEF Released, Connected, Asked, wire, Ended, Apart
<1> QED BY <1>2, <1>3, <1>4

LEMMA DrainMoreReleases ==
    ASSUME Types, Released, DrainMore PROVE Released'
<1>1. TypesOfNetwork /\ Connected /\ Asked
  BY DEF Types, Released
<1>2. scenario' = scenario /\ spoiled' = spoiled /\ spoiled
  BY <1>1 DEF DrainMore, Asked
<1>3. PICK amt \in Amount \ {0} : amt = Big
  BY <1>1, BigIs
<1>4. PICK o \in RawReads(amt, FALSE) : Receive(o) /\ call' = IF o.data = <<>> THEN Idle ELSE call
  BY <1>3 DEF DrainMore
<1>5. /\ Reads(o, amt)
      /\ o.err = "none" /\ ~o.open /\ fpopen => AllSent(o)
      /\ o.err = "none" /\ o.open => fpopen
  BY <1>1, RawReadIs
<1>6. Closes(o)
  BY <1>1, <1>5, WholeIs DEF Closes
<1>7. Connected'
  BY <1>1, <1>2, <1>4, <1>5, <1>6, ReceiveConnects DEF Reads
<1>8. Asked'
  BY <1>1, <1>2, <1>4, IdleIsAsked DEF Asked
<1> QED BY <1>2, <1>7, <1>8 DEF Released, Ended

(***************************************************************************)
(* A reader that keeps stream() apart from reads in part is never in the      *)
(* middle of a chunk of http.client's when it makes a generator, and so no    *)
(* generator loses its place.                                                *)
(***************************************************************************)
Streamed(s) == \E c \in s.calls : c[1] = "stream"
Parted == Apart /\ scenario.framing = "chunked" /\ Streamed(scenario)

InPlace ==
    /\ iter.on => Streamed(scenario)
    /\ Parted => /\ call.m # "read1"
                 /\ call.m = "read" => call.amt = None
                 /\ fpchunk /\ fpopen => call.m = "drain"
                 /\ iter.on => iter.rest = None

LEMMA PartedCalls ==
    ASSUME Parted, NEW m, NEW amt, <<m, amt>> \in scenario.calls
    PROVE  m # "read1" /\ (m = "read" => amt = None)
<1>1. \A c \in scenario.calls : c[1] # "read1" /\ (c[1] = "read" => c[2] = None)
  BY DEF Parted, Apart, Streamed
<1>2. <<m, amt>>[1] = m /\ <<m, amt>>[2] = amt
  OBVIOUS
<1> QED BY <1>1, <1>2

LEMMA LostNotApart == ASSUME TypesOfCalls, InPlace, Lost PROVE ~Apart
BY LostIs DEF InPlace, Parted

LEMMA PlaceKept ==
    ASSUME InPlace, scenario' = scenario, iter' \in {iter, NotIterating},
           Parted => /\ call'.m # "read1"
                     /\ call'.m = "read" => call'.amt = None
                     /\ fpchunk' /\ fpopen' => call'.m = "drain"
    PROVE  InPlace'
<1>1. Parted' = Parted /\ Streamed(scenario)' = Streamed(scenario)
  BY DEF Parted, Apart, Streamed
<1>2. iter' = NotIterating => ~iter'.on
  BY DEF NotIterating
<1> QED BY <1>1, <1>2 DEF InPlace

\* The chunk is as it was, or the response is closed, and no call is in progress.
LEMMA PlaceIdle ==
    ASSUME InPlace, scenario' = scenario, iter' \in {iter, NotIterating}, call' = Idle,
           Parted => (fpchunk' /\ fpopen' => fpchunk /\ fpopen /\ call.m # "drain")
    PROVE  InPlace'
<1>1. Idle.m = "idle"
  BY DEF Idle
<1> QED BY <1>1, PlaceKept DEF InPlace

LEMMA BeginReadCalls ==
    ASSUME NEW amt, NEW cache, BeginRead(amt, cache)
    PROVE  /\ iter' \in {iter, NotIterating}
           /\ amt = None => call'.m = "read" /\ call'.amt = None
           /\ UNCHANGED <<fpchunk, fpopen>>
<1>1. ASSUME NEW c, Continues(c) PROVE call' = c /\ iter' = iter
  BY <1>1 DEF Continues
<1>2. ASSUME NEW a, NEW g, ReturnsBuffered("read", a, g) PROVE iter' \in {iter, NotIterating}
  BY <1>2 DEF ReturnsBuffered, Returns, Raises
<1>3. Raises("undecodable") => iter' = NotIterating
  BY DEF Raises
<1>4. UNCHANGED <<fpchunk, fpopen>>
  BY DEF BeginRead, NoNetwork, network
<1>5. CASE amt = None
  <2>1. Continues([m |-> "read", amt |-> None, cache |-> cache, first |-> TRUE])
    BY <1>5 DEF BeginRead
  <2> QED BY <1>1, <1>4, <2>1
<1>6. CASE amt # None
  <2>1. \/ \E a, g : ReturnsBuffered("read", a, g)
        \/ Raises("undecodable")
        \/ \E c : Continues(c)
    BY <1>6, Zenon DEF BeginRead
  <2> QED BY <1>1, <1>2, <1>3, <1>4, <1>6, <2>1
<1> QED BY <1>5, <1>6

LEMMA BeginReadPlace ==
    ASSUME InPlace, call = Idle, NEW amt, NEW cache, BeginRead(amt, cache),
           scenario' = scenario, Parted => amt = None
    PROVE  InPlace'
<1>1. call.m # "drain"
  BY DEF Idle
<1> QED BY <1>1, BeginReadCalls, PlaceKept DEF InPlace

LEMMA CallsPlace ==
    ASSUME Types, InPlace,
           \/ \E c \in scenario.calls : Read(c[2]) \/ Read1(c[2]) \/ Stream(c[2])
           \/ Data
    PROVE  InPlace'
<1>1. ASSUME NEW amt, Read(amt) PROVE InPlace'
  <2>1. /\ call = Idle /\ <<"read", amt>> \in scenario.calls /\ BeginRead(amt, FALSE)
        /\ scenario' = scenario
    BY <1>1 DEF Read, MayCall
  <2>2. Parted => amt = None
    BY <2>1, PartedCalls
  <2> QED BY <2>1, <2>2, BeginReadPlace
<1>2. ASSUME NEW amt, Read1(amt) PROVE InPlace'
  <2>1. <<"read1", amt>> \in scenario.calls /\ scenario' = scenario
    BY <1>2 DEF Read1, MayCall
  <2>2. ~Parted
    BY <2>1, PartedCalls
  <2>3. iter' \in {iter, NotIterating}
    <3>1. \/ \E a, g : ReturnsBuffered("read1", a, g)
          \/ \E a, o : Returns("read1", a, o)
          \/ Raises("undecodable")
          \/ \E c : Continues(c)
      BY <1>2, Zenon DEF Read1
    <3> QED BY <3>1 DEF ReturnsBuffered, Returns, Raises, Continues
  <2> QED BY <2>1, <2>2, <2>3, PlaceKept
<1>3. ASSUME NEW amt, Stream(amt) PROVE InPlace'
  <2>1. /\ call = Idle /\ <<"stream", amt>> \in scenario.calls /\ scenario' = scenario
        /\ call' = call /\ fpchunk' = fpchunk /\ fpopen' = fpopen
    BY <1>3 DEF Stream, MayCall, NoNetwork, network
  <2>2. Streamed(scenario)
    <3>1. <<"stream", amt>>[1] = "stream"
      OBVIOUS
    <3> QED BY <2>1, <3>1 DEF Streamed
  <2>3. Parted' = Parted /\ Streamed(scenario)' = Streamed(scenario)
    BY <2>1 DEF Parted, Apart, Streamed
  <2>4. iter'.rest = IF fpchunk /\ fpopen THEN Rest ELSE None
    BY <1>3 DEF Stream
  <2>5. call.m # "drain" /\ call.m # "read" /\ call.m # "read1"
    BY <2>1 DEF Idle
  <2> QED BY <2>1, <2>2, <2>3, <2>4, <2>5 DEF InPlace
<1>4. CASE Data
  <2>1. call = Idle /\ scenario' = scenario
    BY <1>4 DEF Data, MayCall
  <2>2. CASE BeginRead(None, TRUE)
    BY <2>1, <2>2, BeginReadPlace
  <2>3. CASE NoNetwork /\ UNCHANGED <<reading, call, iter, delivered, spoiled>>
    <3>1. call' = Idle /\ iter' = iter /\ fpchunk' = fpchunk /\ fpopen' = fpopen /\ call.m # "drain"
      BY <2>1, <2>3 DEF NoNetwork, network, Idle
    <3> QED BY <2>1, <3>1, PlaceIdle
  <2> QED BY <1>4, <2>2, <2>3 DEF Data
<1> QED BY <1>1, <1>2, <1>3, <1>4

LEMMA FinishIters ==
    ASSUME NEW data, FinishAll(data) \/ FinishSome(data) \/ FinishRead1(data)
    PROVE  iter' \in {iter, NotIterating}
<1>1. \/ \E m, a, g : ReturnsBuffered(m, a, g)
      \/ Raises("undecodable")
      \/ \E c : Continues(c)
  BY Zenon DEF FinishAll, FinishSome, FinishRead1
<1> QED BY <1>1 DEF ReturnsBuffered, Returns, Raises, Continues

LEMMA ReadMorePlace ==
    ASSUME Types, InPlace, ReadMore PROVE InPlace'
<1>1. TypesOfNetwork /\ TypesOfCalls
  BY DEF Types
<1>2. call \in ReadCall /\ call.amt \in Amount \ {0} /\ call.m = "read"
  BY <1>1, CallIs DEF ReadMore
<1>3. PICK amt \in Amount \ {0} : amt = call.amt
  BY <1>2
<1>4. PICK o \in RawReads(amt, FALSE) :
          /\ Receive(o)
          /\ IF o.err # "none" THEN Raises(o.err) /\ UNCHANGED reading
             ELSE /\ uncached' = (uncached \/ ~call.cache)
                  /\ IF call.first /\ o.data = <<>> /\ buffer.size = 0 /\ ~HasTail(decoder)
                     THEN /\ Returns("read", call.amt, <<>>)
                          /\ UNCHANGED <<decoder, hasdecoded, buffer, cached>>
                     ELSE IF call.amt = None THEN FinishAll(o.data)
                     ELSE IF ~scenario.decode
                     THEN /\ Returns("read", call.amt, Bytes(o.data))
                          /\ UNCHANGED <<decoder, hasdecoded, buffer, cached>>
                     ELSE FinishSome(o.data)
  BY <1>3 DEF ReadMore
<1>5. scenario' = scenario
  BY DEF ReadMore
<1>6. iter' \in {iter, NotIterating}
  BY <1>4, FinishIters DEF Returns, Raises
<1>7. ASSUME Parted PROVE ~fpopen' /\ call' = Idle
  <2>1. amt = None
    BY <1>2, <1>3, <1>7 DEF InPlace
  <2>2. o.err = "none" => ~o.open
    BY <1>1, <2>1, RawReadIs
  <2>3. ~fpopen'
    BY <1>4, <2>2 DEF Receive, Caught
  <2>4. call' = Idle
    BY <1>3, <1>4, <2>1, FinishAllReturns DEF Returns, Raises
  <2> QED BY <2>3, <2>4
<1>8. Idle.m = "idle"
  BY DEF Idle
<1> QED BY <1>5, <1>6, <1>7, <1>8, PlaceKept

LEMMA Read1MorePlace ==
    ASSUME InPlace, Read1More PROVE InPlace'
<1>1. ~Parted /\ scenario' = scenario
  BY DEF InPlace, Read1More
<1>2. iter' \in {iter, NotIterating}
  <2>1. \/ \E why : Raises(why)
        \/ \E data : FinishRead1(data)
        \/ \E a, out : Returns("read1", a, out)
    BY Zenon DEF Read1More
  <2> QED BY <2>1, FinishIters DEF Returns, Raises
<1> QED BY <1>1, <1>2, PlaceKept

LEMMA StreamPlace ==
    ASSUME Types, InPlace, StreamRead \/ ChunkTurn \/ ChunkEnd \/ ChunkNone PROVE InPlace'
<1>1. TypesOfNetwork /\ TypesOfCalls
  BY DEF Types
<1>2. CASE StreamRead
  <2>1. iter.on /\ ~iter.chunks /\ call = Idle /\ scenario' = scenario
    BY <1>2 DEF StreamRead
  <2>2. ~Parted
    BY <1>1, <2>1, IterIs DEF Parted
  <2>3. CASE BeginRead(iter.amt, FALSE)
    BY <2>1, <2>2, <2>3, BeginReadPlace
  <2>4. CASE StreamStops
    BY <2>1, <2>2, <2>4, PlaceKept DEF StreamStops
  <2> QED BY <1>2, <2>3, <2>4 DEF StreamRead
<1>3. CASE ChunkTurn
  <2>1. scenario' = scenario /\ fpopen
    BY <1>3 DEF ChunkTurn
  <2>2. PICK o, r :
          /\ Receive([o EXCEPT !.mid = fpchunk,
                               !.err = IF r.ok THEN @ ELSE "undecodable"])
          /\ IF o.err # "none"
             THEN Raises(o.err) /\ UNCHANGED <<decoder, hasdecoded>>
             ELSE /\ Decodes(r.d)
                  /\ IF r.ok THEN Yields(r.out) /\ UNCHANGED iter ELSE Raises("undecodable")
          /\ o \in Outcome
    <3>1. iter.amt \in Amount \ {0}
      BY <1>1, <1>3, IterIs DEF ChunkTurn
    <3>2. Fails("timeout") \in Outcome /\ HandleChunk(iter.amt) \in Outcome
      BY <1>1, <3>1, FailsIs, HandleChunkIs
    <3>3. Got(0, TRUE) \in Outcome
      <4>1. Arrived \in Nat /\ 0 <= Arrived
        BY <1>1, WireType
      <4> QED BY <1>1, <4>1, GotIs
    <3>4. PICK S : S = IF HasTail(decoder) THEN {Got(0, TRUE)}
                       ELSE {HandleChunk(iter.amt), Fails("timeout")}
      OBVIOUS
    <3>5. S \subseteq Outcome
      BY <3>2, <3>3, <3>4
    <3> QED BY <1>3, <3>4, <3>5, Zenon DEF ChunkTurn
  <2>3. PICK e : e = IF r.ok THEN o.err ELSE "undecodable"
    OBVIOUS
  <2>4. PICK p : p = [o EXCEPT !.mid = fpchunk, !.err = IF r.ok THEN @ ELSE "undecodable"]
    OBVIOUS
  <2>5. p.mid = fpchunk /\ p.err = e
    BY ONLY <2>2, <2>3, <2>4 DEF Outcome
  <2>6. fpchunk' = fpchunk /\ (fpopen' => e = "none")
    BY <2>2, <2>4, <2>5 DEF Receive, Caught
  <2>7. CASE o.err # "none"
    <3>1. e # "none" /\ call' = Idle /\ iter' = NotIterating
      BY <2>2, <2>3, <2>7 DEF Raises
    <3> QED BY <2>1, <2>6, <3>1, PlaceIdle
  <2>8. CASE o.err = "none" /\ r.ok
    <3>1. call' = call /\ iter' = iter
      BY <2>2, <2>8 DEF Yields
    <3> QED BY <2>1, <2>6, <3>1, PlaceKept DEF InPlace
  <2>9. CASE o.err = "none" /\ ~r.ok
    <3>1. e # "none" /\ call' = Idle /\ iter' = NotIterating
      BY <2>2, <2>3, <2>9 DEF Raises
    <3> QED BY <2>1, <2>6, <3>1, PlaceIdle
  <2> QED BY <2>7, <2>8, <2>9
<1>4. CASE ChunkEnd
  <2>1. PICK r :
          /\ Receive([Got(0, FALSE) EXCEPT !.err = IF r.ok THEN "none" ELSE "undecodable"])
          /\ Finishes(r)
    BY <1>4 DEF ChunkEnd
  <2>2. ~fpopen'
    BY <2>1 DEF Receive, Caught, Got
  <2>3. scenario' = scenario /\ iter' = NotIterating /\ call' \in {call, Idle}
    BY <2>1 DEF Finishes, Raises
  <2>4. Idle.m = "idle"
    BY DEF Idle
  <2> QED BY <2>2, <2>3, <2>4, PlaceKept DEF InPlace
<1>5. CASE ChunkNone
  <2>1. /\ scenario' = scenario /\ iter' = NotIterating /\ call' = call
        /\ fpopen' = fpopen /\ fpchunk' = fpchunk
    BY <1>5 DEF ChunkNone, StreamStops, network
  <2> QED BY <2>1, PlaceKept DEF InPlace
<1> QED BY <1>2, <1>3, <1>4, <1>5

LEMMA LostPlace ==
    ASSUME Types, Types', InPlace, LostTurn \/ LostEnd \/ LostFails PROVE InPlace'
<1>1. Lost /\ ~Apart /\ scenario' = scenario /\ iter.on
  BY LostIs, LostNotApart, Zenon DEF Types, LostTurn, LostEnd, Finishes, LostFails
<1>2. ~Parted'
  BY <1>1 DEF Parted, Apart
<1>3. Streamed(scenario)'
  BY <1>1 DEF InPlace, Streamed
<1> QED BY <1>2, <1>3 DEF InPlace

LEMMA EndsPlace ==
    ASSUME Types, InPlace, Drain \/ Close \/ Break \/ DrainMore PROVE InPlace'
<1>1. TypesOfNetwork
  BY DEF Types
<1>2. CASE Drain
  <2>1. scenario' = scenario /\ iter' = iter /\ call' = [m |-> "drain"]
    BY <1>2 DEF Drain
  <2> QED BY <2>1, PlaceKept
<1>3. CASE Close
  <2>1. scenario' = scenario /\ iter' = iter /\ call' = call /\ fpopen' = FALSE
    BY <1>3 DEF Close
  <2> QED BY <2>1, PlaceKept DEF InPlace
<1>4. CASE Break
  <2>1. scenario' = scenario /\ iter' = NotIterating /\ call' = Idle /\ call.m # "drain"
    BY <1>4 DEF Break, Idle
  <2>2. CASE NoNetwork
    BY <2>1, <2>2, PlaceIdle DEF NoNetwork, network
  <2>3. CASE Receive(Fails("exit"))
    <3>1. ~fpopen'
      BY <1>1, <2>3, FailsIs DEF Receive, Caught
    <3> QED BY <2>1, <3>1, PlaceIdle
  <2> QED BY <1>4, <2>2, <2>3 DEF Break
<1>5. CASE DrainMore
  <2>1. scenario' = scenario /\ iter' = iter /\ call.m = "drain"
    BY <1>5 DEF DrainMore
  <2>2. PICK amt \in Amount \ {0} : amt = Big
    BY <1>1, BigIs
  <2>3. PICK o \in RawReads(amt, FALSE) :
           Receive(o) /\ call' = IF o.data = <<>> THEN Idle ELSE call
    BY <1>5, <2>2 DEF DrainMore
  <2>4. o.err = "none" /\ o.data = <<>> => ~o.open
    BY <1>1, RawReadIs
  <2>5. CASE o.data = <<>>
    <3>1. ~fpopen'
      BY <2>3, <2>4, <2>5 DEF Receive, Caught
    <3>2. call' = Idle
      BY <2>3, <2>5
    <3> QED BY <2>1, <3>1, <3>2, PlaceIdle
  <2>6. CASE o.data # <<>>
    <3>1. call' = call
      BY <2>3, <2>6
    <3> QED BY <2>1, <3>1, PlaceKept
  <2> QED BY <2>5, <2>6
<1> QED BY <1>2, <1>3, <1>4, <1>5

LEMMA NextPlace ==
    ASSUME Types, Types', InPlace, [Next]_vars PROVE InPlace'
<1>1. CASE Data \/ \E c \in scenario.calls : Read(c[2]) \/ Read1(c[2]) \/ Stream(c[2])
  BY <1>1, CallsPlace
<1>2. CASE ReadMore \/ Read1More
  BY <1>2, ReadMorePlace, Read1MorePlace
<1>3. CASE StreamRead \/ ChunkTurn \/ ChunkEnd \/ ChunkNone
  BY <1>3, StreamPlace
<1>4. CASE LostTurn \/ LostEnd \/ LostFails
  BY <1>4, LostPlace
<1>5. CASE Drain \/ Close \/ Break \/ DrainMore
  BY <1>5, EndsPlace
<1>6. CASE UNCHANGED vars
  BY <1>6 DEF vars, network, InPlace, Parted, Apart, Streamed
<1> QED BY <1>1, <1>2, <1>3, <1>4, <1>5, <1>6 DEF Next, Progress

LEMMA PlaceInvariant == Spec => []InPlace
<1>1. Init => InPlace
  BY DEF Init, InPlace, Idle, NotIterating
<1>2. Types /\ Types' /\ InPlace /\ [Next]_vars => InPlace'
  BY NextPlace
<1> QED BY <1>1, <1>2, TypesInvariant, PTL DEF Spec

LEMMA RigidScenario == ASSUME [Next]_vars PROVE scenario' = scenario
<1>1. CASE \E c \in scenario.calls : Read(c[2]) \/ Read1(c[2]) \/ Stream(c[2])
  BY <1>1 DEF Read, Read1, Stream
<1>2. CASE Data \/ Drain \/ Close \/ Break
  BY <1>2, Zenon DEF Data, Drain, Close, Break
<1>3. CASE Progress
  BY <1>3, Zenon DEF Progress, ReadMore, Read1More, StreamRead, ChunkTurn, ChunkEnd, ChunkNone,
                     LostTurn, LostEnd, LostFails, Finishes, DrainMore
<1>4. CASE UNCHANGED vars
  BY <1>4 DEF vars
<1> QED BY <1>1, <1>2, <1>3, <1>4 DEF Next

LEMMA LostReleases ==
    ASSUME Types, Released, InPlace, LostTurn \/ LostEnd \/ LostFails PROVE Released'
<1>1. TypesOfNetwork /\ TypesOfReading /\ TypesOfCalls /\ Connected /\ Asked
  BY DEF Types, Released
<1>2. Lost /\ fpopen /\ ~Apart /\ scenario.framing = "chunked"
  BY <1>1, LostIs, LostNotApart DEF LostTurn, LostEnd, LostFails
<1>3. scenario' = scenario /\ ~Apart'
  BY <1>2, Zenon DEF LostTurn, LostEnd, Finishes, LostFails, Apart
<1>4. ASSUME NEW open \in BOOLEAN, NEW err, Caught(open, err)
      PROVE  Connected' /\ (~open => conn' = "put")
  <2>1. /\ fpopen' = (open /\ err = "none") /\ conn' = IF fpopen' THEN conn ELSE "put"
        /\ sock' = IF err # "none" /\ conn = "held" THEN "closed" ELSE sock
    BY <1>4 DEF Caught
  <2>2. conn # "put"
    BY <1>1, <1>2 DEF Connected
  <2>3. fpopen' => conn' # "put"
    BY <2>1, <2>2
  <2>4. ~fpopen' => conn' = "put"
    BY <2>1
  <2>5. ~open => ~fpopen'
    BY <2>1
  <2> QED BY <1>1, <1>2, <1>3, <2>3, <2>4, <2>5 DEF Connected
<1>5. CASE LostTurn
  <2>1. PICK token, r : ReadTo(token, TRUE, r.ok) /\ (Yields(r.out) \/ Raises("undecodable"))
    BY <1>5, Zenon DEF LostTurn
  <2>2. PICK err : Caught(TRUE, err)
    BY <2>1 DEF ReadTo
  <2>3. Asked' /\ ~Ended'
    <3>1. CASE Raises("undecodable")
      BY <3>1, RaisesIs, IdleIsAsked
    <3>2. CASE Yields(r.out)
      BY <1>1, <1>3, <3>2 DEF Yields, Asked, Ended
    <3> QED BY <2>1, <3>1, <3>2
  <2> QED BY <1>4, <2>2, <2>3 DEF Released
<1>6. CASE LostEnd
  <2>1. PICK token, r : ReadTo(token, FALSE, r.ok) /\ Finishes(r)
    BY <1>6 DEF LostEnd
  <2>2. PICK err : Caught(FALSE, err)
    BY <2>1 DEF ReadTo
  <2>3. Asked'
    BY <1>1, <1>3, <2>1, RaisesIs, IdleIsAsked DEF Finishes, Asked
  <2>4. Connected' /\ conn' = "put"
    BY <1>4, <2>2
  <2> QED BY <2>3, <2>4 DEF Released
<1>7. CASE LostFails
  <2>1. PICK why : Receive(Fails(why)) /\ Raises(why)
    BY <1>7 DEF LostFails
  <2>2. PICK o : o = Fails(why)
    OBVIOUS
  <2>3. o.open = fpopen /\ fpopen \in BOOLEAN
    BY <1>1, <2>2 DEF Fails, TypesOfNetwork
  <2>4. Caught(o.open, o.err)
    BY <2>1, <2>2 DEF Receive
  <2>5. PICK open \in BOOLEAN : open = o.open
    BY <2>3
  <2>6. Connected'
    BY <1>4, <2>4, <2>5
  <2> QED BY <2>1, <2>6, RaisesIs, IdleIsAsked DEF Released
<1> QED BY <1>5, <1>6, <1>7

LEMMA NextReleases ==
    ASSUME Types, Released, InPlace, [Next]_vars, BreaksAreNoticed PROVE Released'
<1>1. CASE \E c \in scenario.calls : Read(c[2]) \/ Read1(c[2]) \/ Stream(c[2])
  BY <1>1, ReadReleases, Read1Releases, StreamReleases
<1>2. CASE Data \/ Break
  BY <1>2, DataReleases, BreakReleases
<1>3. CASE Drain \/ Close \/ ChunkNone
  BY <1>3, EndsRelease
<1>4. CASE ReadMore \/ Read1More
  BY <1>4, ReadMoreReleases, Read1MoreReleases
<1>5. CASE StreamRead \/ ChunkTurn \/ ChunkEnd
  BY <1>5, StreamReadReleases, ChunkTurnReleases, ChunkEndReleases
<1>6. CASE DrainMore
  BY <1>6, DrainMoreReleases
<1>7. CASE UNCHANGED vars
  BY <1>7 DEF vars, network, Released, Connected, Asked, Ended, wire, Apart
<1>8. CASE LostTurn \/ LostEnd \/ LostFails
  BY <1>8, LostReleases
<1> QED BY <1>1, <1>2, <1>3, <1>4, <1>5, <1>6, <1>7, <1>8 DEF Next, Progress

(* A connection that goes back to the pool with an open socket has nothing   *)
(* of the response left on it, and it goes back when a call says that the     *)
(* body is at its end, whatever the reader did in between: provided that      *)
(* nobody calls read1() without an amount on a body that breaks off, which    *)
(* that call does not notice.  A reader that is not Apart may leave something *)
(* of the response on the connection, but the response is closed by then.    *)
THEOREM ConnectionsAreReusedClean ==
    ASSUME BreaksAreNoticed PROVE Spec => []CleanReuse
<1>1. Init => Released
  BY DEF Init, Released, Connected, Asked, Idle, Ended
<1>2. Types /\ Released /\ InPlace /\ [Next]_vars => Released'
  BY NextReleases
<1>3. Released => CleanReuse
  BY DEF Released, Connected, CleanReuse
<1> QED BY <1>1, <1>2, <1>3, TypesInvariant, PlaceInvariant, PTL DEF Spec

(***************************************************************************)
(* The part of a sequence that follows its first a members, up to member m.  *)
(***************************************************************************)
Part(s, a, m) == SubSeq(s, a + 1, m)

LEMMA PartIs ==
    ASSUME NEW S, NEW s \in Seq(S), NEW m \in 0..Len(s), NEW a \in 0..m
    PROVE  /\ Part(s, a, m) \in Seq(S) /\ Len(Part(s, a, m)) = m - a
           /\ \A i \in 1..m - a : Part(s, a, m)[i] = s[a + i]
<1>1. Len(s) \in Nat /\ m \in Nat /\ a \in Nat /\ m <= Len(s) /\ a <= m
  BY LenProperties
<1>2. PICK b : b = a + 1
  OBVIOUS
<1>3. b \in Int /\ m \in Int /\ m - b + 1 = m - a /\ (b <= m => m - b + 1 = m - a)
  BY <1>1, <1>2
<1>4. \A i \in b..m : s[i] \in S
  <2> SUFFICES ASSUME NEW i \in b..m PROVE s[i] \in S
    OBVIOUS
  <2>1. i \in 1..Len(s)
    BY ONLY <1>1, <1>2, i \in b..m
  <2> QED BY <2>1, ElementOfSeq
<1>5. PICK p : p = SubSeq(s, b, m)
  OBVIOUS
<1>6. /\ p \in Seq(S) /\ Len(p) = IF b <= m THEN m - b + 1 ELSE 0
      /\ \A i \in 1..m - b + 1 : p[i] = s[b + i - 1]
  BY ONLY <1>3, <1>4, <1>5, SubSeqProperties
<1>7. Len(p) = m - a
  BY ONLY <1>1, <1>2, <1>3, <1>6
<1>8. \A i \in 1..m - a : p[i] = s[a + i]
  <2> SUFFICES ASSUME NEW i \in 1..m - a PROVE p[i] = s[a + i]
    OBVIOUS
  <2>1. i \in 1..m - b + 1 /\ b + i - 1 = a + i
    BY ONLY <1>1, <1>2, <1>3, i \in 1..m - a
  <2> QED BY ONLY <1>6, <2>1
<1>10. Part(s, a, m) = p
  BY <1>2, <1>5 DEF Part
<1> QED BY ONLY <1>6, <1>7, <1>8, <1>10

LEMMA PartEmpty ==
    ASSUME NEW S, NEW s \in Seq(S), NEW m \in 0..Len(s), NEW a \in 0..m
    PROVE  /\ a = m => Part(s, a, m) = <<>>
           /\ Part(s, a, m) = <<>> => a = m
<1>1. PICK p : p = Part(s, a, m)
  OBVIOUS
<1>2. p \in Seq(S) /\ Len(p) = m - a
  BY ONLY s \in Seq(S), m \in 0..Len(s), a \in 0..m, <1>1, PartIs, Zenon
<1>3. m \in Int /\ a \in Int
  BY LenProperties
<1>4. a = m => p = <<>>
  BY ONLY <1>2, <1>3, EmptySeq
<1>5. p = <<>> => a = m
  BY ONLY <1>2, <1>3, EmptySeq
<1> QED BY ONLY <1>1, <1>4, <1>5

LEMMA PartJoin ==
    ASSUME NEW S, NEW s \in Seq(S), NEW m \in 0..Len(s), NEW n \in 0..m, NEW a \in 0..n
    PROVE  Part(s, a, n) \o Part(s, n, m) = Part(s, a, m)
<1>1. Len(s) \in Nat /\ n \in 0..Len(s) /\ a \in 0..m /\ a \in Nat /\ n \in Nat /\ m \in Nat
      /\ a <= n /\ n <= m
  BY LenProperties
<1>2. PICK x, y, z : x = Part(s, a, n) /\ y = Part(s, n, m) /\ z = Part(s, a, m)
  OBVIOUS
<1>3. /\ x \in Seq(S) /\ Len(x) = n - a /\ \A i \in 1..n - a : x[i] = s[a + i]
      /\ y \in Seq(S) /\ Len(y) = m - n /\ \A i \in 1..m - n : y[i] = s[n + i]
      /\ z \in Seq(S) /\ Len(z) = m - a /\ \A i \in 1..m - a : z[i] = s[a + i]
  <2>1. x \in Seq(S) /\ Len(x) = n - a /\ \A i \in 1..n - a : x[i] = s[a + i]
    <3>1. Part(s, a, n) \in Seq(S) /\ Len(Part(s, a, n)) = n - a
            /\ \A i \in 1..n - a : Part(s, a, n)[i] = s[a + i]
      BY ONLY s \in Seq(S), <1>1, n \in 0..m, a \in 0..n, PartIs, Zenon
    <3> QED BY ONLY <1>2, <3>1
  <2>2. y \in Seq(S) /\ Len(y) = m - n /\ \A i \in 1..m - n : y[i] = s[n + i]
    <3>1. Part(s, n, m) \in Seq(S) /\ Len(Part(s, n, m)) = m - n
            /\ \A i \in 1..m - n : Part(s, n, m)[i] = s[n + i]
      BY ONLY s \in Seq(S), <1>1, n \in 0..m, m \in 0..Len(s), PartIs
    <3> QED BY ONLY <1>2, <3>1
  <2>3. z \in Seq(S) /\ Len(z) = m - a /\ \A i \in 1..m - a : z[i] = s[a + i]
    <3>1. Part(s, a, m) \in Seq(S) /\ Len(Part(s, a, m)) = m - a
            /\ \A i \in 1..m - a : Part(s, a, m)[i] = s[a + i]
      BY ONLY s \in Seq(S), <1>1, a \in 0..m, m \in 0..Len(s), PartIs, Zenon
    <3> QED BY ONLY <1>2, <3>1
  <2> QED BY ONLY <2>1, <2>2, <2>3
<1>4. PICK c : c = x \o y
  OBVIOUS
<1>5. /\ c \in Seq(S) /\ Len(c) = Len(x) + Len(y)
      /\ \A i \in 1..Len(x) + Len(y) : c[i] = IF i <= Len(x) THEN x[i] ELSE y[i - Len(x)]
  BY <1>3, <1>4, ConcatProperties
<1>6. Len(c) = Len(z)
  <2>1. (n - a) + (m - n) = m - a
    BY ONLY <1>1
  <2> QED BY ONLY <1>3, <1>5, <2>1
<1>7. ASSUME NEW i \in 1..Len(c) PROVE c[i] = z[i]
  <2>1. i \in 1..m - a /\ i \in 1..Len(x) + Len(y)
    <3>1. Len(c) = m - a
      BY ONLY <1>3, <1>6, Zenon
    <3>2. Len(c) = Len(x) + Len(y)
      BY ONLY <1>5, Zenon
    <3> QED BY ONLY i \in 1..Len(c), <3>1, <3>2, Zenon
  <2>2. CASE i <= n - a
    <3>1. i \in 1..n - a
      BY ONLY <2>1, <2>2
    <3> QED BY ONLY <1>3, <1>5, <2>1, <2>2, <3>1
  <2>3. CASE ~(i <= n - a)
    <3>1. i - (n - a) \in 1..m - n /\ n + (i - (n - a)) = a + i
      BY ONLY <1>1, <2>1, <2>3
    <3>2. c[i] = y[i - (n - a)]
      BY ONLY <1>3, <1>5, <2>1, <2>3
    <3> QED BY ONLY <1>3, <2>1, <3>1, <3>2
  <2> QED BY <2>2, <2>3
<1>8. c = z
  BY ONLY <1>3, <1>5, <1>6, <1>7, SeqEqual
<1> QED BY <1>2, <1>4, <1>8

(* A part of a part.                                                        *)
LEMMA PartOf ==
    ASSUME NEW S, NEW s \in Seq(S), NEW m \in 0..Len(s), NEW a \in 0..m, NEW n \in 0..m - a
    PROVE  /\ Take(Part(s, a, m), n) = Part(s, a, a + n)
           /\ Drop(Part(s, a, m), n) = Part(s, a + n, m)
<1>1. /\ Len(s) \in Nat /\ a \in Nat /\ n \in Nat /\ m \in Nat /\ a + n \in 0..m
      /\ a + n \in 0..Len(s) /\ a \in 0..a + n
  BY LenProperties
<1>2. PICK k : k = a + n
  OBVIOUS
<1>0. k \in 0..Len(s) /\ a \in 0..k /\ k \in 0..m
  BY <1>1, <1>2
<1>3. PICK x, y, z : x = Part(s, a, m) /\ y = Part(s, a, k) /\ z = Part(s, k, m)
  OBVIOUS
<1>4. /\ x \in Seq(S) /\ Len(x) = m - a /\ \A i \in 1..m - a : x[i] = s[a + i]
      /\ y \in Seq(S) /\ Len(y) = k - a /\ \A i \in 1..k - a : y[i] = s[a + i]
      /\ z \in Seq(S) /\ Len(z) = m - k /\ \A i \in 1..m - k : z[i] = s[k + i]
  <2>1. x \in Seq(S) /\ Len(x) = m - a /\ \A i \in 1..m - a : x[i] = s[a + i]
    BY ONLY s \in Seq(S), m \in 0..Len(s), a \in 0..m, <1>3, PartIs, Zenon
  <2>2. y \in Seq(S) /\ Len(y) = k - a /\ \A i \in 1..k - a : y[i] = s[a + i]
    BY ONLY s \in Seq(S), <1>0, <1>3, PartIs, Zenon
  <2>3. z \in Seq(S) /\ Len(z) = m - k /\ \A i \in 1..m - k : z[i] = s[k + i]
    BY ONLY s \in Seq(S), m \in 0..Len(s), <1>0, <1>3, PartIs, Zenon
  <2> QED BY ONLY <2>1, <2>2, <2>3
<1>5. n \in 0..Len(x)
  BY ONLY <1>4, n \in 0..m - a
<1>6. PICK t, d : t = Take(x, n) /\ d = Drop(x, n)
  OBVIOUS
<1>7. /\ t \in Seq(S) /\ Len(t) = n /\ \A i \in 1..n : t[i] = x[i]
      /\ d \in Seq(S) /\ Len(d) = Len(x) - n /\ \A i \in 1..Len(x) - n : d[i] = x[n + i]
  <2>1. x \in Seq(S)
    BY <1>4
  <2>2. t \in Seq(S) /\ Len(t) = n /\ \A i \in 1..n : t[i] = x[i]
    BY ONLY <2>1, <1>5, <1>6, TakeIs, Zenon
  <2>3. d \in Seq(S) /\ Len(d) = Len(x) - n /\ \A i \in 1..Len(x) - n : d[i] = x[n + i]
    BY ONLY <2>1, <1>5, <1>6, DropIs, Zenon
  <2> QED BY ONLY <2>2, <2>3
<1>8. t = y
  <2>1. Len(t) = Len(y)
    <3>1. k - a = n
      BY ONLY <1>1, <1>2
    <3> QED BY ONLY <1>4, <1>7, <3>1
  <2>2. ASSUME NEW i \in 1..Len(t) PROVE t[i] = y[i]
    <3>1. i \in 1..n
      BY ONLY <1>7, i \in 1..Len(t)
    <3>2. i \in 1..m - a /\ i \in 1..k - a
      BY ONLY <1>1, <1>2, <3>1, n \in 0..m - a
    <3> QED BY ONLY <1>4, <1>7, <3>1, <3>2
  <2> QED BY ONLY <1>4, <1>7, <2>1, <2>2, SeqEqual
<1>9. d = z
  <2>1. Len(d) = Len(z)
    <3>1. (m - a) - n = m - k
      BY ONLY <1>1, <1>2
    <3> QED BY ONLY <1>4, <1>7, <3>1
  <2>2. ASSUME NEW i \in 1..Len(d) PROVE d[i] = z[i]
    <3>0. i \in 1..Len(x) - n
      BY ONLY <1>7, i \in 1..Len(d)
    <3>1. i \in 1..(m - a) - n
      BY ONLY <1>4, <3>0
    <3>2. n + i \in 1..m - a /\ i \in 1..m - k /\ a + (n + i) = k + i
      BY ONLY <1>1, <1>2, <3>1
    <3>3. d[i] = x[n + i]
      BY ONLY <1>7, <3>0, Zenon
    <3>4. x[n + i] = s[a + (n + i)]
      BY ONLY <1>4, <3>2, Zenon
    <3>5. z[i] = s[k + i]
      BY ONLY <1>4, <3>2, Zenon
    <3> QED BY ONLY <3>2, <3>3, <3>4, <3>5, Zenon
  <2> QED BY ONLY <1>4, <1>7, <2>1, <2>2, SeqEqual
<1> QED BY ONLY <1>2, <1>3, <1>6, <1>8, <1>9

LEMMA TakePart == ASSUME NEW s, NEW n PROVE Take(s, n) = Part(s, 0, n)
<1>1. 0 + 1 = 1
  OBVIOUS
<1> QED BY <1>1, Zenon DEF Take, Part

LEMMA PartAll ==
    ASSUME NEW S, NEW s \in Seq(S) PROVE Part(s, 0, Len(s)) = s
BY SubSeqFull, TakePart DEF Take

LEMMA BytesJoin ==
    ASSUME NEW s \in Seq(Unit), NEW m \in 0..Len(s), NEW n \in 0..m, NEW a \in 0..n
    PROVE  /\ Bytes(Part(s, a, m)) = Bytes(Part(s, a, n)) \o Bytes(Part(s, n, m))
           /\ Bytes(Part(s, a, m)) \in Seq(Nat) /\ Bytes(Part(s, a, n)) \in Seq(Nat)
           /\ Bytes(Part(s, n, m)) \in Seq(Nat)
<1>1. n \in 0..Len(s) /\ a \in 0..m /\ m \in 0..Len(s)
  BY LenProperties
<1>2. PICK x, y, z : x = Part(s, a, n) /\ y = Part(s, n, m) /\ z = Part(s, a, m)
  OBVIOUS
<1>3. x \in Seq(Unit) /\ y \in Seq(Unit) /\ z \in Seq(Unit)
  BY <1>1, <1>2, PartIs
<1>4. z = x \o y
  BY <1>2, PartJoin
<1>5. Bytes(x \o y) = Bytes(x) \o Bytes(y)
  BY <1>3, BytesConcat
<1>6. Bytes(x) \in Seq(Nat) /\ Bytes(y) \in Seq(Nat) /\ Bytes(z) \in Seq(Nat)
  BY <1>3, BytesType
<1> QED BY ONLY <1>2, <1>4, <1>5, <1>6, Zenon

(* The bytes of the next unit follow those of the units before it.           *)
LEMMA BytesStep ==
    ASSUME NEW s \in Seq(Unit), NEW n \in Nat, n < Len(s), NEW a \in 0..n, s[n + 1].out = <<>>
    PROVE  Bytes(Part(s, a, n + 1)) = Bytes(Part(s, a, n))
<1>1. Len(s) \in Nat /\ n + 1 \in 0..Len(s) /\ n \in 0..n + 1 /\ n + 1 \in 1..Len(s)
      /\ (n + 1) - n = 1 /\ a \in 0..n /\ n \in 0..Len(s)
  BY LenProperties
<1>2. PICK k : k = n + 1
  OBVIOUS
<1>3. /\ Bytes(Part(s, a, k)) = Bytes(Part(s, a, n)) \o Bytes(Part(s, n, k))
      /\ Bytes(Part(s, a, n)) \in Seq(Nat)
  BY <1>1, <1>2, BytesJoin
<1>4. PICK p : p = Part(s, n, k)
  OBVIOUS
<1>5. p \in Seq(Unit) /\ Len(p) = 1 /\ p[1] = s[k]
  <2>1. k \in 0..Len(s) /\ n \in 0..k /\ k - n = 1 /\ n + 1 = k /\ 1 \in 1..1
    BY ONLY <1>1, <1>2
  <2>2. p \in Seq(Unit) /\ Len(p) = k - n /\ \A i \in 1..k - n : p[i] = s[n + i]
    BY ONLY s \in Seq(Unit), <2>1, <1>4, PartIs, Zenon
  <2> QED BY ONLY <2>1, <2>2
<1>6. p[1].out = <<>>
  BY <1>2, <1>5
<1>7. Bytes(p) = <<>>
  <2>1. DOMAIN p = 1..1
    BY ONLY <1>5, LenProperties
  <2>2. [i \in DOMAIN p |-> p[i].out] = <<<<>>>>
    BY ONLY <1>6, <2>1
  <2>3. <<>> \in Seq(Seq(Nat)) /\ <<>> \in Seq(Nat)
    BY EmptySeq
  <2>4. Append(<<>>, <<>>) = <<<<>>>>
    OBVIOUS
  <2>5. FlattenSeq(Append(<<>>, <<>>)) = FlattenSeq(<<>>) \o <<>>
    BY <2>3, FlattenAppend
  <2>6. <<>> \o <<>> = <<>>
    BY <2>3, ConcatEmptySeq
  <2> QED BY ONLY <2>2, <2>4, <2>5, <2>6, FlattenEmpty, Zenon DEF Bytes
<1>8. Bytes(Part(s, a, n)) \o <<>> = Bytes(Part(s, a, n))
  BY <1>3, ConcatEmptySeq
<1> QED BY ONLY <1>2, <1>3, <1>4, <1>7, <1>8, Zenon

(***************************************************************************)
(* zlib and one member of which all units are given in order                 *)
(***************************************************************************)
Member(w) ==
    \A i \in 1..Len(w) :
       /\ w[i].id = i
       /\ w[i].start = (i = 1)
       /\ w[i].end = (i = Len(w))
       /\ i = Len(w) => w[i].out = <<>>

(* Zlib when the units it is given are those it expects: it stops where the   *)
(* data or the member ends, or output has no room for the first time.        *)
Expected(at, data) ==
    LET before == [i \in 1..Len(data) |-> IF i = 1 THEN at ELSE data[i - 1].id]
    IN  \A i \in 1..Len(data) :
           IF before[i] = 0 THEN data[i].start
           ELSE ~data[i].start /\ data[i].id = before[i] + 1
Overflows(z, data, max, n) == max # None /\ Len(z.pend \o Bytes(Take(data, n))) > max

LEMMA ZlibStops ==
    ASSUME NEW z, z.at \in Nat, NEW data \in Seq(Unit), NEW max, ~Eof(z), Expected(z.at, data)
    PROVE  \E n \in 0..Len(data) :
              /\ Zlib(z, data, max)
                   = ZlibOf(z, data, max, n, z.pend \o Bytes(Take(data, n)), TRUE)
              /\ n = Len(data) \/ z.done \/ Overflows(z, data, max, n) \/ (n > 0 /\ data[n].end)
              /\ \A i \in 0..n - 1 : ~Overflows(z, data, max, i)
<1> DEFINE upto(n) == z.pend \o Bytes(Take(data, n))
           before(n) == IF n = 1 THEN z.at ELSE data[n - 1].id
           legal(n) == IF before(n) = 0 THEN data[n].start
                       ELSE ~data[n].start /\ data[n].id = before(n) + 1
           stops(n) == \/ n = Len(data) \/ z.done
                       \/ max # None /\ Len(upto(n)) > max
                       \/ n > 0 /\ (data[n].end \/ ~legal(n))
           ok(n) == n = 0 \/ legal(n)
           result(n, all) == ZlibOf(z, data, max, n, all, ok(n))
           N == {n \in 0..Len(data) : stops(n) /\ \A m \in 0..n - 1 : ~stops(m)}
           M == {n \in 0..Len(data) : stops(n)}
           R == {result(n, upto(n)) : n \in N}
<1>1. Zlib(z, data, max) = The(R)
  BY Zenon DEF Zlib, ZlibOf
<1>2. \A i \in 1..Len(data) : legal(i)
  <2> DEFINE at == [i \in 1..Len(data) |-> IF i = 1 THEN z.at ELSE data[i - 1].id]
  <2> TAKE i \in 1..Len(data)
  <2>1. IF at[i] = 0 THEN data[i].start ELSE ~data[i].start /\ data[i].id = at[i] + 1
    BY DEF Expected
  <2>2. at[i] = before(i)
    BY DEF before
  <2> QED BY <2>1, <2>2
<1>3. \A n \in 0..Len(data) : ok(n) = TRUE
  <2> TAKE n \in 0..Len(data)
  <2>1. n = 0 \/ n \in 1..Len(data)
    BY LenProperties
  <2> HIDE DEF legal
  <2> QED BY <1>2, <2>1
<1>4. Len(data) \in M
  BY LenProperties
<1> HIDE DEF result, upto, stops, ok
<1>5. N # {}
  <2>1. M \subseteq Nat /\ M # {}
    BY <1>4, LenProperties
  <2> DEFINE k == Least(M)
  <2>2. k \in M /\ \A m \in M : k <= m
    BY <2>1, LeastIs
  <2> HIDE DEF k
  <2>3. k \in 0..Len(data) /\ stops(k) /\ \A m \in 0..k - 1 : ~stops(m)
    BY <2>2, LenProperties
  <2> QED BY <2>3
<1>6. The(R) \in R
  <2>1. R # {}
    BY <1>5
  <2> HIDE DEF R
  <2> QED BY <2>1, TheIs
<1>7. PICK n \in N : Zlib(z, data, max) = result(n, upto(n))
  BY <1>1, <1>6
<1>8. n \in 0..Len(data) /\ stops(n) /\ \A m \in 0..n - 1 : ~stops(m)
  BY <1>7
<1>9. Zlib(z, data, max) = ZlibOf(z, data, max, n, upto(n), TRUE)
  BY <1>3, <1>7, <1>8, Zenon DEF result
<1>10. n > 0 => legal(n)
  <2>1. n > 0 => n \in 1..Len(data)
    BY <1>8, LenProperties
  <2> HIDE DEF legal
  <2> QED BY <1>2, <2>1
<1>11. \/ n = Len(data) \/ z.done
       \/ max # None /\ Len(upto(n)) > max
       \/ n > 0 /\ data[n].end
  <2> HIDE DEF legal
  <2> QED BY <1>8, <1>10, Zenon DEF stops
<1>12. \A i \in 0..n - 1 : ~(max # None /\ Len(upto(i)) > max)
  <2> HIDE DEF legal
  <2> QED BY <1>8, Zenon DEF stops
<1> QED BY <1>8, <1>9, <1>11, <1>12, Zenon DEF upto, Overflows

(* What zlib has come to in a member: it stands before unit z.at + 1.         *)
Standing(w, z) ==
    /\ z \in ZState /\ z.at <= Len(w)
    /\ z.done = (0 < z.at /\ z.at = Len(w))
    /\ z.unused = <<>>
    /\ z.at = Len(w) => z.pend = <<>>

UnitsAre(w, a, data) ==
    \A i \in 1..Len(data) :
       /\ data[i].id = a + i
       /\ data[i].start = (a + i = 1)
       /\ data[i].end = (a + i = Len(w))
       /\ a + i = Len(w) => data[i].out = <<>>

LEMMA PartUnits ==
    ASSUME NEW w \in Seq(Unit), Member(w), NEW m \in 0..Len(w), NEW a \in 0..m
    PROVE  /\ Part(w, a, m) \in Seq(Unit) /\ Len(Part(w, a, m)) = m - a
           /\ UnitsAre(w, a, Part(w, a, m))
<1> DEFINE data == Part(w, a, m)
<1> SUFFICES data \in Seq(Unit) /\ Len(data) = m - a /\ UnitsAre(w, a, data)
  OBVIOUS
<1>0. data = Part(w, a, m)
  OBVIOUS
<1> HIDE DEF data
<1>1. data \in Seq(Unit) /\ Len(data) = m - a /\ \A i \in 1..m - a : data[i] = w[a + i]
  BY ONLY w \in Seq(Unit), m \in 0..Len(w), a \in 0..m, <1>0, PartIs, Zenon
<1>2. ASSUME NEW i \in 1..Len(data)
      PROVE  /\ data[i].id = a + i
             /\ data[i].start = (a + i = 1)
             /\ data[i].end = (a + i = Len(w))
             /\ a + i = Len(w) => data[i].out = <<>>
  <2>1. i \in 1..m - a
    BY ONLY i \in 1..Len(data), <1>1
  <2>2. Len(w) \in Nat
    BY LenProperties
  <2>3. a + i \in 1..Len(w)
    BY ONLY <2>1, <2>2, m \in 0..Len(w), a \in 0..m
  <2>4. PICK k \in 1..Len(w) : k = a + i
    BY <2>3
  <2>5. data[i] = w[k]
    BY ONLY <1>1, <2>1, <2>4
  <2>6. /\ w[k].id = k /\ w[k].start = (k = 1) /\ w[k].end = (k = Len(w))
        /\ k = Len(w) => w[k].out = <<>>
    BY DEF Member
  <2> QED BY ONLY <2>4, <2>5, <2>6, Zenon
<1> QED BY <1>1, <1>2 DEF UnitsAre

(* The units are those zlib expects.                                         *)
LEMMA PartLegal ==
    ASSUME NEW w \in Seq(Unit), Member(w), NEW m \in 0..Len(w), NEW a \in 0..m, NEW data,
           data = Part(w, a, m)
    PROVE  Expected(a, data)
<1> DEFINE at == [i \in 1..Len(data) |-> IF i = 1 THEN a ELSE data[i - 1].id]
<1> SUFFICES ASSUME NEW i \in 1..Len(data)
             PROVE  IF at[i] = 0 THEN data[i].start
                    ELSE ~data[i].start /\ data[i].id = at[i] + 1
  BY DEF Expected
<1>0. data \in Seq(Unit) /\ UnitsAre(w, a, data)
  BY PartUnits
<1>1. /\ data \in Seq(Unit)
      /\ \A j \in 1..Len(data) : data[j].id = a + j /\ data[j].start = (a + j = 1)
  BY ONLY <1>0 DEF UnitsAre
<1>2. Len(data) \in Nat /\ a \in Nat
  BY <1>1, LenProperties
<1>3. at[i] = IF i = 1 THEN a ELSE data[i - 1].id
  OBVIOUS
<1> HIDE DEF at
<1>4. at[i] = a + i - 1
  <2>1. CASE i = 1
    BY ONLY <1>2, <1>3, <2>1
  <2>2. CASE i # 1
    <3>1. i - 1 \in 1..Len(data)
      BY ONLY <1>2, <2>2, i \in 1..Len(data)
    <3>2. data[i - 1].id = a + (i - 1)
      BY ONLY <1>1, <3>1
    <3>3. i \in Nat
      BY ONLY <1>2, i \in 1..Len(data)
    <3> QED BY ONLY <1>2, <1>3, <2>2, <3>2, <3>3
  <2> QED BY <2>1, <2>2
<1>5. data[i].id = a + i /\ data[i].start = (a + i = 1)
  BY <1>1
<1>6. at[i] \in Nat /\ a + i = at[i] + 1 /\ (a + i = 1 <=> at[i] = 0)
  BY ONLY <1>2, <1>4, i \in 1..Len(data)
<1>7. PICK b, c, k, j : b = data[i].start /\ c = data[i].id /\ k = at[i] /\ j = a + i
  OBVIOUS
<1>8. b = (j = 1) /\ c = j /\ k \in Nat /\ j = k + 1 /\ (j = 1 <=> k = 0)
  BY ONLY <1>5, <1>6, <1>7
<1>9. IF k = 0 THEN b ELSE ~b /\ c = k + 1
  BY ONLY <1>8
<1> QED BY ONLY <1>7, <1>9, Zenon

(* Zlib goes on where it stands, and keeps what it gives in order; with room  *)
(* left it holds nothing back.                                               *)
ZlibGoesOn(w, z, m, max, r) ==
    /\ r.ok /\ r \in ZResult
    /\ Standing(w, r.z)
    /\ z.at <= r.z.at /\ r.z.at <= m
    /\ r.z.tail = Part(w, r.z.at, m)
    /\ z.pend \o Bytes(Part(w, z.at, r.z.at)) = r.out \o r.z.pend
    /\ max = None \/ Len(r.out) < max => r.z.at = m /\ r.z.pend = <<>>

LEMMA ZlibFollows ==
    ASSUME NEW w \in Seq(Unit), Member(w), NEW z, Standing(w, z), NEW m \in 0..Len(w),
           z.at <= m, NEW max \in Amount
    PROVE  ZlibGoesOn(w, z, m, max, Zlib(z, Part(w, z.at, m), max))
<1> DEFINE data == Part(w, z.at, m)
           r == Zlib(z, data, max)
<1> SUFFICES ZlibGoesOn(w, z, m, max, r)
  OBVIOUS
<1>0. data = Part(w, z.at, m) /\ r = Zlib(z, data, max)
  OBVIOUS
<1> HIDE DEF data, r
<1>1. /\ z \in ZState /\ z.at \in Nat /\ z.pend \in Seq(Nat) /\ z.tail \in Seq(Unit)
      /\ z.unused = <<>> /\ z.done = (0 < z.at /\ z.at = Len(w))
      /\ z.at = Len(w) => z.pend = <<>>
  BY DEF Standing, ZState
<1>2. Len(w) \in Nat /\ m \in Nat /\ m <= Len(w)
  BY LenProperties
<1>3. PICK a \in 0..m : a = z.at
  BY <1>1, <1>2
<1>4. data = Part(w, a, m) /\ data \in Seq(Unit) /\ Len(data) = m - a /\ a \in Nat
  <2>1. data = Part(w, a, m)
    BY <1>0, <1>3
  <2>2. data \in Seq(Unit) /\ Len(data) = m - a
    BY ONLY w \in Seq(Unit), Member(w), m \in 0..Len(w), a \in 0..m, <2>1, PartUnits, Zenon
  <2> QED BY <1>2, <2>1, <2>2
<1>5. r \in ZResult
  BY <1>0, <1>1, <1>4, ZlibType
<1>6. CASE Eof(z)
  <2>1. r = [z |-> [z EXCEPT !.unused = @ \o data, !.tail = <<>>], out |-> <<>>, ok |-> TRUE]
    BY <1>0, <1>6, Zenon DEF Zlib
  <2>2. 0 < a /\ a = Len(w) /\ z.done = TRUE /\ z.pend = <<>>
    <3>1. z.done /\ z.pend = <<>>
      BY <1>6 DEF Eof
    <3> QED BY <1>1, <1>3, <3>1
  <2>3. a = m
    BY <1>2, <1>3, <2>2
  <2>4. data = <<>>
    BY ONLY w \in Seq(Unit), m \in 0..Len(w), a \in 0..m, <1>4, <2>3, PartEmpty, Zenon
  <2>5. z.unused \o data = <<>>
    BY <1>1, <2>4, ConcatEmptySeq, EmptySeq
  <2>6. PICK u : u = <<>>
    OBVIOUS
  <2>7. r.z = [z EXCEPT !.unused = u, !.tail = u] /\ r.out = u /\ r.ok = TRUE
    BY ONLY <2>1, <2>5, <2>6, Zenon
  <2>8. r.z.at = a /\ r.z.done = TRUE /\ r.z.pend = <<>> /\ r.z.tail = <<>> /\ r.z.unused = <<>>
        /\ r.out = <<>> /\ r.ok = TRUE
    <3>1. /\ r.z.at = z.at /\ r.z.done = z.done /\ r.z.pend = z.pend /\ r.z.tail = u
          /\ r.z.unused = u /\ r.out = u /\ r.ok = TRUE
      BY ONLY <1>1, <2>7 DEF ZState
    <3> QED BY ONLY <1>3, <2>2, <2>6, <3>1, Zenon
  <2>9. r.z \in ZState
    BY ONLY <1>5 DEF ZResult
  <2>10. Standing(w, r.z)
    <3>1. r.z.at <= Len(w)
      BY ONLY <1>2, <2>2, <2>8
    <3>2. r.z.done = (0 < r.z.at /\ r.z.at = Len(w))
      BY ONLY <2>2, <2>8, Zenon
    <3> QED BY ONLY <2>8, <2>9, <3>1, <3>2, Zenon DEF Standing
  <2>11. Part(w, a, a) = <<>> /\ Part(w, a, m) = <<>>
    BY <1>4, <2>3, <2>4
  <2>12. z.pend \o Bytes(Part(w, a, a)) = <<>> \o <<>>
    BY <2>2, <2>11, BytesEmpty, Zenon
  <2> QED BY ONLY <1>2, <1>3, <1>5, <2>3, <2>8, <2>10, <2>11, <2>12 DEF ZlibGoesOn
<1>7. CASE ~Eof(z)
  <2>2. Expected(z.at, data)
    <3>1. data = Part(w, a, m)
      BY <1>4
    <3>2. Expected(a, data)
      BY ONLY w \in Seq(Unit), Member(w), m \in 0..Len(w), a \in 0..m, <3>1, PartLegal
    <3> QED BY <1>3, <3>2
  <2>3. PICK n \in 0..Len(data) :
          /\ r = ZlibOf(z, data, max, n, z.pend \o Bytes(Take(data, n)), TRUE)
          /\ n = Len(data) \/ z.done \/ Overflows(z, data, max, n) \/ (n > 0 /\ data[n].end)
          /\ \A i \in 0..n - 1 : ~Overflows(z, data, max, i)
    <3>1. z.at \in Nat /\ data \in Seq(Unit) /\ ~Eof(z)
      BY <1>1, <1>4, <1>7
    <3> QED BY ONLY <2>2, <3>1, <1>0, ZlibStops, Zenon
  <2>4. n \in Nat /\ n \in 0..m - a
    BY ONLY <1>2, <1>4, n \in 0..Len(data)
  <2>5. PICK k : k = a + n
    OBVIOUS
  <2>6. k \in Nat /\ a <= k /\ k <= m /\ k \in 0..m /\ a \in 0..k /\ k \in 0..Len(w)
        /\ m \in 0..Len(w) /\ a \in 0..m
    BY ONLY <1>2, <1>4, <2>4, <2>5, a \in 0..m
  <2>7. Take(data, n) = Part(w, a, k) /\ Drop(data, n) = Part(w, k, m)
    BY ONLY <1>4, <2>4, <2>5, <2>6, w \in Seq(Unit), PartOf, Zenon
  <2>8. PICK all : all = z.pend \o Bytes(Part(w, a, k))
    OBVIOUS
  <2>9. all \in Seq(Nat) /\ Len(all) \in Nat
    <3>1. Part(w, a, k) \in Seq(Unit)
      BY ONLY <2>6, w \in Seq(Unit), PartIs, Zenon
    <3>2. Bytes(Part(w, a, k)) \in Seq(Nat)
      BY ONLY <3>1, BytesType, Zenon
    <3> QED BY <1>1, <2>8, <3>2, ConcatProperties, LenProperties
  <2>10. r = ZlibOf(z, data, max, n, all, TRUE)
    BY ONLY <2>3, <2>7, <2>8, Zenon
  <2> DEFINE room == Limit(max, Len(all))
             done == z.done \/ (n > 0 /\ data[n].end)
             eof == done /\ room = Len(all)
  <2>11. /\ r.z.at = (IF n = 0 THEN z.at ELSE data[n].id)
         /\ r.z.done = done
         /\ r.z.pend = Drop(all, room)
         /\ r.z.tail = IF eof THEN <<>> ELSE Drop(data, n)
         /\ r.z.unused = IF eof THEN z.unused \o Drop(data, n) ELSE z.unused
         /\ r.out = Take(all, room) /\ r.ok = TRUE
    BY ONLY <2>10 DEF ZlibOf
  <2>12. /\ room \in 0..Len(all)
         /\ room = IF max = None \/ Len(all) <= max THEN Len(all) ELSE max
    BY <2>9, LimitIs
  <2> HIDE DEF room
  <2>13. n # 0 => /\ data[n].id = k
                  /\ data[n].end = (k = Len(w))
                  /\ k = Len(w) => data[n].out = <<>>
    <3> SUFFICES ASSUME n # 0
                 PROVE  /\ data[n].id = k
                        /\ data[n].end = (k = Len(w))
                        /\ k = Len(w) => data[n].out = <<>>
      OBVIOUS
    <3>1. n \in 1..Len(data)
      BY ONLY <2>4, n # 0, n \in 0..Len(data)
    <3>2. /\ data[n].id = a + n
          /\ data[n].end = (a + n = Len(w))
          /\ a + n = Len(w) => data[n].out = <<>>
      <4>1. data = Part(w, a, m)
        BY <1>4
      <4>2. UnitsAre(w, a, data)
        BY ONLY w \in Seq(Unit), Member(w), m \in 0..Len(w), a \in 0..m, <4>1, PartUnits, Zenon
      <4> QED BY ONLY <3>1, <4>2, Zenon DEF UnitsAre
    <3> QED BY ONLY <2>5, <3>2, Zenon
  <2>14. r.z.at = k
    BY ONLY <1>3, <2>4, <2>5, <2>11, <2>13, a \in 0..m
  <2>15. n = 0 => k = a
    BY ONLY <2>4, <2>5, <1>4
  <2>16. z.done = (0 < a /\ a = Len(w))
    BY <1>1, <1>3
  <2>17. a = Len(w) => k = Len(w)
    BY ONLY <1>2, <1>4, <2>6
  <2>18. 0 < k <=> (0 < a \/ n # 0)
    BY ONLY <1>4, <2>4, <2>5
  <2>19. done = (0 < k /\ k = Len(w))
    <3>1. CASE n = 0
      <4>1. k = a
        BY <3>1, <2>15
      <4>2. done = z.done
        <5>1. ~(n > 0)
          BY ONLY <3>1
        <5> QED BY ONLY <5>1, <2>16
      <4> QED BY ONLY <4>1, <4>2, <2>16
    <3>2. CASE n # 0
      <4>1. 0 < k /\ n > 0
        BY ONLY <3>2, <2>4, <2>18
      <4>2. data[n].end = (k = Len(w))
        BY <3>2, <2>13
      <4>3. z.done => k = Len(w)
        BY ONLY <2>16, <2>17
      <4>4. done <=> k = Len(w)
        BY ONLY <4>1, <4>2, <4>3
      <4>5. done \in BOOLEAN
        BY ONLY <2>16
      <4> QED BY ONLY <4>1, <4>4, <4>5
    <3> QED BY <3>1, <3>2
  <2> HIDE DEF done
  <2>20. k = Len(w) => room = Len(all)
    <3> SUFFICES ASSUME k = Len(w) PROVE room = Len(all)
      OBVIOUS
    <3>1. CASE n = 0
      <4>1. a = Len(w) /\ k = a
        BY <3>1, <2>15
      <4>2. Part(w, a, k) = <<>>
        BY ONLY <2>6, <4>1, w \in Seq(Unit), PartEmpty, Zenon
      <4>3. z.pend = <<>>
        BY <1>1, <1>3, <4>1
      <4>4. all = <<>> \o <<>>
        BY ONLY <2>8, <4>2, <4>3, BytesEmpty, Zenon
      <4>5. Len(all) = 0
        BY ONLY <4>4, EmptySeq, ConcatEmptySeq
      <4> QED BY ONLY <2>9, <2>12, <4>5
    <3>2. CASE n # 0
      <4>1. PICK i : i = n - 1
        OBVIOUS
      <4>2. i \in 0..n - 1 /\ i \in Nat /\ i < m - a /\ i \in 0..m - a /\ i + 1 = n
        BY ONLY <2>4, <3>2, <4>1
      <4>3. PICK h : h = a + i
        OBVIOUS
      <4>4. h \in Nat /\ h < Len(w) /\ a \in 0..h /\ h + 1 = k
        BY ONLY <1>2, <1>4, <2>5, <2>6, <4>2, <4>3
      <4>5. Take(data, i) = Part(w, a, h)
        BY ONLY <1>4, <2>6, <4>2, <4>3, w \in Seq(Unit), PartOf, Zenon
      <4>6. w[h + 1].out = <<>>
        <5>1. k \in 1..Len(w)
          BY ONLY <4>4, <2>6
        <5>2. w[k].out = <<>>
          BY <5>1 DEF Member
        <5> QED BY ONLY <5>2, <4>4
      <4>7. Bytes(Part(w, a, h + 1)) = Bytes(Part(w, a, h))
        BY <4>4, <4>6, BytesStep
      <4>8. all = z.pend \o Bytes(Take(data, i))
        BY ONLY <2>8, <4>4, <4>5, <4>7, Zenon
      <4>9. ~(max # None /\ Len(all) > max)
        BY ONLY <2>3, <4>2, <4>8, Zenon DEF Overflows
      <4> QED BY ONLY <2>9, <2>12, <4>9, max \in Amount DEF Amount
    <3> QED BY <3>1, <3>2
  <2>21. k = Len(w) => k = m
    BY ONLY <1>2, <2>6
  <2>22. eof => k = m
    BY ONLY <2>19, <2>21
  <2>23. k = m => Part(w, k, m) = <<>>
    BY ONLY <2>6, w \in Seq(Unit), PartEmpty, Zenon
  <2>24. r.z.tail = Part(w, k, m)
    BY ONLY <2>7, <2>11, <2>22, <2>23, Zenon
  <2>25. r.z.unused = <<>>
    <3>1. eof => z.unused \o Drop(data, n) = <<>> \o <<>>
      BY ONLY <1>1, <2>7, <2>22, <2>23, Zenon
    <3>2. <<>> \o <<>> = <<>>
      BY EmptySeq, ConcatEmptySeq
    <3>3. z.unused = <<>>
      BY <1>1
    <3> QED BY ONLY <2>11, <3>1, <3>2, <3>3, Zenon
  <2>26. room = Len(all) => r.z.pend = <<>>
    <3>1. Len(Drop(all, room)) = Len(all) - room /\ Drop(all, room) \in Seq(Nat)
      BY ONLY <2>9, <2>12, DropIs, Zenon
    <3>2. ASSUME room = Len(all) PROVE Drop(all, room) = <<>>
      <4>1. Len(Drop(all, room)) = 0
        BY ONLY <2>9, <3>1, <3>2
      <4> QED BY ONLY <3>1, <4>1, EmptySeq
    <3> QED BY ONLY <2>11, <3>2, Zenon
  <2>27. r.z \in ZState
    BY ONLY <1>5 DEF ZResult
  <2>28. Standing(w, r.z)
    <3>1. r.z.done = (0 < r.z.at /\ r.z.at = Len(w))
      BY ONLY <2>11, <2>14, <2>19, Zenon
    <3>2. r.z.at <= Len(w)
      BY ONLY <2>14, <2>6, <1>2
    <3>3. r.z.at = Len(w) => r.z.pend = <<>>
      BY ONLY <2>14, <2>20, <2>26, Zenon
    <3> QED BY ONLY <2>25, <2>27, <3>1, <3>2, <3>3, Zenon DEF Standing
  <2>29. all = r.out \o r.z.pend
    <3>1. Take(all, room) \o Drop(all, room) = all
      BY ONLY <2>9, <2>12, TakeDrop, Zenon
    <3> QED BY ONLY <2>11, <3>1, Zenon
  <2>30. max = None \/ Len(r.out) < max => k = m /\ r.z.pend = <<>>
    <3> SUFFICES ASSUME max = None \/ Len(r.out) < max PROVE k = m /\ r.z.pend = <<>>
      OBVIOUS
    <3>1. Len(r.out) = room
      <4>1. Len(Take(all, room)) = room
        BY ONLY <2>9, <2>12, TakeIs, Zenon
      <4> QED BY ONLY <2>11, <4>1, Zenon
    <3>2. max = None \/ (max \in Nat /\ Len(all) <= max)
      BY ONLY <2>9, <2>12, <3>1, max \in Amount, max = None \/ Len(r.out) < max DEF Amount
    <3>3. room = Len(all)
      BY ONLY <2>12, <3>2
    <3>4. ~(max # None /\ Len(all) > max)
      BY ONLY <2>9, <3>2
    <3>5. n = Len(data) \/ z.done \/ (n > 0 /\ data[n].end)
      <4>1. all = z.pend \o Bytes(Take(data, n))
        BY ONLY <2>7, <2>8, Zenon
      <4> QED BY ONLY <2>3, <3>4, <4>1, Zenon DEF Overflows
    <3>6. n = Len(data) \/ done
      BY ONLY <3>5, Zenon DEF done
    <3>7. k = m
      <4>1. n = Len(data) => k = m
        BY ONLY <1>2, <1>4, <2>5, a \in 0..m
      <4> QED BY ONLY <2>19, <2>21, <3>6, <4>1
    <3> QED BY ONLY <2>26, <3>3, <3>7, Zenon
  <2>31. z.pend \o Bytes(Part(w, z.at, r.z.at)) = r.out \o r.z.pend
    BY ONLY <1>3, <2>8, <2>14, <2>29, Zenon
  <2>32. z.at <= r.z.at /\ r.z.at <= m /\ r.ok /\ r.z.tail = Part(w, r.z.at, m)
    BY ONLY <1>3, <2>6, <2>11, <2>14, <2>24
  <2> QED BY ONLY <1>5, <2>14, <2>28, <2>30, <2>31, <2>32, Zenon DEF ZlibGoesOn
<1> QED BY <1>6, <1>7

(***************************************************************************)
(* Decoders.  A decoder, or None, that was given n units of the response s;   *)
(* how many of them it has decoded, and what it holds back.                  *)
(***************************************************************************)
Fed(s, d, n) ==
    IF d = None THEN Plainly(s) \/ n = 0
    ELSE /\ d \in Decoder /\ ~Plainly(s)
         /\ s.coding = "br" => d.z = NewZ
         /\ s.coding # "br" => Standing(s.wire, d.z) /\ d.z.at <= n
                               /\ d.z.tail = Part(s.wire, d.z.at, n)
         /\ s.coding = "gzip" => d.state = "first" /\ d.kept = d.z.tail
         /\ s.coding = "deflate" =>
               \/ d.state = "settled"
               \/ d.state = "try" /\ d.z.pend = <<>> /\ d.z.tail = <<>>

At(s, d, n) == IF d = None \/ s.coding = "br" THEN n ELSE d.z.at
Pend(d) == IF d = None THEN <<>> ELSE d.z.pend

(* A response the decoders of which are given one member, if anything.        *)
Decodable(s) == Plainly(s) \/ s.coding = "br" \/ (~s.raw /\ Member(s.wire))

(* d, which was given n units, is given those up to m and makes r of them.    *)
GoesOn(s, d, n, m, r) ==
    /\ r.ok /\ r.d # None /\ Fed(s, r.d, m)
    /\ At(s, d, n) <= At(s, r.d, m) /\ At(s, r.d, m) <= m
    /\ Pend(d) \o Bytes(Part(s.wire, At(s, d, n), At(s, r.d, m))) = r.out \o Pend(r.d)

(* It has decoded all it was given.                                          *)
DecodesAll(s, m, r, max) == max = None \/ Len(r.out) < max => At(s, r.d, m) = m

LEMMA DecoderIsSome == ASSUME NEW d \in Decoder PROVE d # None
BY DecoderAssumption

LEMMA ScenarioIs ==
    ASSUME NEW s \in Scenarios
    PROVE  /\ s.wire \in Seq(Unit) /\ Len(s.wire) \in Nat /\ s.coding \in Codings
           /\ s.framing \in Framings /\ s.sent \in 0..Len(s.wire) /\ Len(s.wire) < Big
           /\ s.coding = "identity" => Plainly(s)
<1>1. IsScenario(s) /\ Len(s.wire) < Big
  BY ScenarioAssumption
<1>2. s.wire \in Seq(Unit)
  BY <1>1 DEF IsScenario
<1> QED BY <1>1, <1>2, LenProperties DEF IsScenario, Plainly

(* What a decoder makes that gives what zlib gave, and keeps what it became.  *)
LEMMA ZlibDecodes ==
    ASSUME NEW s \in Scenarios, s.coding # "br", ~Plainly(s), Member(s.wire),
           NEW m \in 0..Len(s.wire), NEW n \in 0..m,
           NEW d, d # None, Standing(s.wire, d.z), d.z.at <= m,
           NEW max \in Amount, NEW q, q = Zlib(d.z, Part(s.wire, d.z.at, m), max),
           NEW r, r.d \in Decoder, r.d.z = q.z, r.out = q.out, r.ok = q.ok,
           s.coding = "gzip" => r.d.state = "first" /\ r.d.kept = q.z.tail,
           s.coding = "deflate" =>
               \/ r.d.state = "settled"
               \/ r.d.state = "try" /\ q.z.pend = <<>> /\ q.z.tail = <<>>
    PROVE  /\ GoesOn(s, d, n, m, r) /\ DecodesAll(s, m, r, max)
           /\ max = None => Pend(r.d) = <<>>
<1>1. s.wire \in Seq(Unit)
  BY ScenarioIs
<1>4. /\ q.ok /\ q \in ZResult /\ Standing(s.wire, q.z) /\ d.z.at <= q.z.at /\ q.z.at <= m
      /\ q.z.tail = Part(s.wire, q.z.at, m)
      /\ d.z.pend \o Bytes(Part(s.wire, d.z.at, q.z.at)) = q.out \o q.z.pend
      /\ max = None \/ Len(q.out) < max => q.z.at = m /\ q.z.pend = <<>>
  <2>1. PICK w, z : w = s.wire /\ z = d.z
    OBVIOUS
  <2>2. w \in Seq(Unit) /\ Member(w) /\ Standing(w, z) /\ m \in 0..Len(w) /\ z.at <= m
    BY <1>1, <2>1
  <2>3. ZlibGoesOn(w, z, m, max, Zlib(z, Part(w, z.at, m), max))
    BY ONLY <2>2, max \in Amount, ZlibFollows
  <2>4. ZlibGoesOn(s.wire, d.z, m, max, q)
    BY ONLY <2>1, <2>3, q = Zlib(d.z, Part(s.wire, d.z.at, m), max), Zenon
  <2> QED BY ONLY <2>4 DEF ZlibGoesOn
<1>5. r.d # None
  BY DecoderIsSome
<1>6. At(s, d, n) = d.z.at /\ At(s, r.d, m) = q.z.at /\ Pend(d) = d.z.pend /\ Pend(r.d) = q.z.pend
  BY <1>5 DEF At, Pend
<1>7. Fed(s, r.d, m)
  BY <1>4, <1>5, Zenon DEF Fed
<1>8. Pend(d) \o Bytes(Part(s.wire, At(s, d, n), At(s, r.d, m))) = r.out \o Pend(r.d)
  BY ONLY <1>4, <1>6, r.out = q.out, Zenon
<1>9. GoesOn(s, d, n, m, r)
  <2>1. At(s, d, n) <= At(s, r.d, m) /\ At(s, r.d, m) <= m
    BY ONLY <1>4, <1>6
  <2> QED BY ONLY <1>4, <1>5, <1>7, <1>8, <2>1, r.ok = q.ok, Zenon DEF GoesOn
<1>10. DecodesAll(s, m, r, max)
  BY ONLY <1>4, <1>6, r.out = q.out, Zenon DEF DecodesAll
<1> QED BY <1>4, <1>6, <1>9, <1>10, Zenon

LEMMA DeflateFollows ==
    ASSUME NEW s \in Scenarios, s = scenario, s.coding = "deflate", ~Plainly(s), ~s.raw,
           Member(s.wire), NEW m \in 0..Len(s.wire), NEW n \in 0..m, NEW d \in Decoder,
           Fed(s, d, n), NEW max \in Amount \ {0}
    PROVE  LET r == Deflate(d, Part(s.wire, n, m), max)
           IN  GoesOn(s, d, n, m, r) /\ DecodesAll(s, m, r, max)
<1> DEFINE data == Part(s.wire, n, m)
           kept == d.kept \o data
           settled(q) == [d |-> [z |-> q.z, kept |-> <<>>, state |-> "settled"],
                          out |-> q.out, ok |-> q.ok]
           tried(q) == IF q.out # <<>> \/ ~q.ok THEN settled(q)
                       ELSE [d |-> [z |-> q.z, kept |-> kept, state |-> "try"],
                             out |-> <<>>, ok |-> TRUE]
           r == Deflate(d, data, max)
           q1 == Zlib(d.z, d.z.tail \o data, max)
           q2 == Zlib(d.z, data, max)
           nothing == [d |-> d, out |-> <<>>, ok |-> TRUE]
           Good(x) == GoesOn(s, d, n, m, x) /\ DecodesAll(s, m, x, max)
<1>1. /\ s.wire \in Seq(Unit) /\ Len(s.wire) \in Nat /\ d # None /\ s.coding # "br"
      /\ s.coding # "gzip" /\ max \in Amount
  BY ScenarioIs, DecoderIsSome
<1>2. /\ Standing(s.wire, d.z) /\ d.z.at <= n /\ d.z.tail = Part(s.wire, d.z.at, n)
      /\ d.state = "settled" \/ (d.state = "try" /\ d.z.pend = <<>> /\ d.z.tail = <<>>)
  BY <1>1 DEF Fed
<1>3. d.z \in ZState /\ d.kept \in Seq(Unit) /\ d.z.tail \in Seq(Unit) /\ d.z.at \in Nat
      /\ d.z.pend \in Seq(Nat)
  BY DecoderParts DEF ZState
<1>4. PICK w, a : w = s.wire /\ a = d.z.at
  OBVIOUS
<1>5. /\ w \in Seq(Unit) /\ m \in 0..Len(w) /\ n \in 0..Len(w) /\ n \in 0..m /\ a \in 0..n
         /\ a \in 0..m
      /\ a <= m /\ Len(w) \in Nat
  BY <1>1, <1>2, <1>3, <1>4
<1>6. data \in Seq(Unit) /\ kept \in Seq(Unit)
  <2>1. Part(w, n, m) \in Seq(Unit)
    BY ONLY <1>5, PartIs, Zenon
  <2>2. data \in Seq(Unit)
    BY <1>4, <2>1
  <2> HIDE DEF data
  <2> QED BY <1>3, <2>2, ConcatProperties
<1>7. d.z.tail \o data = Part(w, a, m)
  <2>1. Part(w, a, n) \o Part(w, n, m) = Part(w, a, m)
    BY ONLY <1>5, PartJoin, Zenon
  <2> QED BY <1>2, <1>4, <2>1
<1>8. \/ r = nothing /\ data = <<>> /\ d.z.tail = <<>>
      \/ r = The({settled(q) : q \in {q1}})
      \/ r = The({tried(q) : q \in {q2}}) /\ d.state # "settled"
  <2>1. ~scenario.raw
    OBVIOUS
  <2> QED BY <2>1, Zenon DEF Deflate
<1>9. data = <<>> /\ d.z.tail = <<>> => a = m
  <2>1. d.z.tail = <<>> => a = n
    <3>1. Part(w, a, n) = <<>> => a = n
      BY ONLY <1>5, PartEmpty, Zenon
    <3> QED BY <1>2, <1>4, <3>1
  <2>2. data = <<>> => n = m
    <3>1. Part(w, n, m) = <<>> => n = m
      BY ONLY <1>5, PartEmpty, Zenon
    <3> QED BY <1>4, <3>1
  <2> HIDE DEF data
  <2> QED BY <2>1, <2>2
<1> HIDE DEF data, kept, r
<1>10. ASSUME r = nothing, data = <<>>, d.z.tail = <<>> PROVE Good(r)
  <2>1. r.d = d /\ r.out = <<>> /\ r.ok = TRUE
    BY <1>10
  <2>2. a = m /\ n = m
    BY <1>5, <1>9, <1>10
  <2>3. At(s, d, n) = a /\ At(s, r.d, m) = m /\ Pend(d) = d.z.pend /\ Pend(r.d) = d.z.pend
    BY <1>1, <1>4, <2>1, <2>2 DEF At, Pend
  <2>4. Part(s.wire, At(s, d, n), At(s, r.d, m)) = <<>>
    <3>1. Part(w, m, m) = <<>>
      BY ONLY <1>5, <2>2, PartEmpty, Zenon
    <3> QED BY ONLY <1>4, <2>2, <2>3, <3>1
  <2>5. Pend(d) \o Bytes(<<>>) = <<>> \o d.z.pend
    <3>1. d.z.pend \o <<>> = <<>> \o d.z.pend
      BY <1>3, ConcatEmptySeq
    <3> QED BY ONLY <2>3, <3>1, BytesEmpty
  <2>6. Fed(s, r.d, m)
    BY <2>1, <2>2
  <2>7. Pend(d) \o Bytes(Part(s.wire, At(s, d, n), At(s, r.d, m))) = r.out \o Pend(r.d)
    BY ONLY <2>1, <2>3, <2>4, <2>5, Zenon
  <2>8. At(s, d, n) <= At(s, r.d, m) /\ At(s, r.d, m) <= m
    BY ONLY <1>5, <2>2, <2>3
  <2>9. GoesOn(s, d, n, m, r)
    BY ONLY <1>1, <2>1, <2>6, <2>7, <2>8, Zenon DEF GoesOn
  <2> QED BY <2>3, <2>9 DEF DecodesAll
<1>11. PICK q : q = Zlib(d.z, Part(s.wire, d.z.at, m), max)
  OBVIOUS
<1>12. q1 = q /\ (d.z.tail = <<>> => q2 = q)
  <2>1. q1 = q
    BY <1>4, <1>7, <1>11
  <2>2. d.z.tail = <<>> => d.z.tail \o data = data
    BY <1>6, ConcatEmptySeq
  <2> QED BY <2>1, <2>2
<1>13. q \in ZResult
  <2>1. d.z.tail \o data \in Seq(Unit)
    BY <1>3, <1>6, ConcatProperties
  <2> QED BY <1>1, <1>3, <1>12, <2>1, ZlibType
<1>14. q.z \in ZState /\ q.out \in Seq(Nat) /\ q.ok \in BOOLEAN
  BY <1>13 DEF ZResult
<1> HIDE DEF q1, q2
<1>15. ASSUME r = settled(q) PROVE Good(r)
  <2>1. r.d = [z |-> q.z, kept |-> <<>>, state |-> "settled"] /\ r.out = q.out /\ r.ok = q.ok
    BY <1>15
  <2>2. r.d \in Decoder /\ r.d.z = q.z /\ r.d.state = "settled"
    <3>1. <<>> \in Seq(Unit)
      BY EmptySeq
    <3> QED BY ONLY <1>14, <2>1, <3>1 DEF Decoder
  <2> QED BY <1>1, <1>2, <1>4, <1>5, <1>11, <2>1, <2>2, ZlibDecodes
<1>16. ASSUME d.state # "settled", r = tried(q), r # settled(q) PROVE Good(r)
  <2>1. q.out = <<>> /\ q.ok /\ r = [d |-> [z |-> q.z, kept |-> kept, state |-> "try"],
                                     out |-> <<>>, ok |-> TRUE]
    BY <1>16
  <2>2. r.d = [z |-> q.z, kept |-> kept, state |-> "try"] /\ r.out = q.out /\ r.ok = q.ok
    BY <1>14, <2>1
  <2>3. r.d \in Decoder /\ r.d.z = q.z /\ r.d.state = "try"
    BY ONLY <1>6, <1>14, <2>2 DEF Decoder
  <2>4. q.z.pend = <<>> /\ q.z.tail = <<>>
    <3>1. ZlibGoesOn(w, d.z, m, max, Zlib(d.z, Part(w, d.z.at, m), max))
      <4>1. Member(w) /\ Standing(w, d.z) /\ d.z.at <= m
        BY <1>2, <1>4, <1>5
      <4> QED BY ONLY <1>1, <1>5, <4>1, ZlibFollows
    <3>2. ZlibGoesOn(w, d.z, m, max, q)
      BY ONLY <1>4, <1>11, <3>1, Zenon
    <3>3. /\ max = None \/ Len(q.out) < max => q.z.at = m /\ q.z.pend = <<>>
          /\ q.z.tail = Part(w, q.z.at, m)
      BY ONLY <3>2, Zenon DEF ZlibGoesOn
    <3>4. max = None \/ 0 < max
      BY ONLY <1>1, max \in Amount \ {0} DEF Amount
    <3>5. Len(q.out) = 0
      BY <2>1
    <3>6. q.z.at = m /\ q.z.pend = <<>>
      BY ONLY <3>3, <3>4, <3>5
    <3>7. Part(w, m, m) = <<>>
      <4>1. m \in 0..m
        BY <1>5
      <4> QED BY ONLY <1>5, <4>1, PartEmpty, Zenon
    <3> QED BY ONLY <3>3, <3>6, <3>7
  <2> QED BY <1>1, <1>2, <1>4, <1>5, <1>11, <2>2, <2>3, <2>4, ZlibDecodes
<1>17. ASSUME r = The({settled(p) : p \in {q1}}) PROVE Good(r)
  <2> HIDE DEF settled, Good
  <2>1. {settled(p) : p \in {q1}} = {settled(q)}
    BY <1>12
  <2>2. r = settled(q)
    BY <1>17, <2>1, TheOne
  <2> QED BY <1>15, <2>2
<1>18. ASSUME r = The({tried(p) : p \in {q2}}), d.state # "settled" PROVE Good(r)
  <2>1. q2 = q
    BY <1>2, <1>12, <1>18
  <2> HIDE DEF settled, tried, Good
  <2>2. {tried(p) : p \in {q2}} = {tried(q)}
    BY <2>1
  <2>3. r = tried(q)
    BY <1>18, <2>2, TheOne
  <2> QED BY <1>15, <1>16, <1>18, <2>3
<1>19. Good(r)
  <2> HIDE DEF Good, settled, tried
  <2> QED BY <1>8, <1>10, <1>17, <1>18
<1> QED BY <1>19 DEF r, data

(* A pass after which the loop is left is the last one.                      *)
LEMMA PassesSettle ==
    ASSUME NEW init, NEW max, NEW n \in Nat \ {0}, NEW f, NEW l, Passes(init, max, n, f),
           Step(init, max) = l, Step(l, max) = l
    PROVE  f[n] = l
<1> DEFINE P == {i \in Nat : i + 1 \in 0..n => f[i + 1] = l}
           F == [i \in 0..n |-> IF i = 0 THEN init ELSE Step(f[i - 1], max)]
<1>1. \A i \in 0..n : F[i] = IF i = 0 THEN init ELSE Step(f[i - 1], max)
  OBVIOUS
<1>2. f = F
  BY DEF Passes
<1> HIDE DEF F
<1>3. \A i \in 0..n : f[i] = IF i = 0 THEN init ELSE Step(f[i - 1], max)
  BY <1>1, <1>2
<1>4. 0 \in P
  <2>1. f[0] = init /\ f[1] = Step(f[0], max)
    BY <1>3
  <2>2. f[1] = l
    BY <2>1
  <2> QED BY <2>2
<1>5. ASSUME NEW i \in Nat, i \in P PROVE i + 1 \in P
  <2> SUFFICES ASSUME (i + 1) + 1 \in 0..n PROVE f[(i + 1) + 1] = l
    OBVIOUS
  <2>1. i + 1 \in 0..n /\ (i + 1) + 1 # 0 /\ ((i + 1) + 1) - 1 = i + 1
    OBVIOUS
  <2>2. f[(i + 1) + 1] = Step(f[i + 1], max)
    BY <1>3, <2>1
  <2> QED BY <1>5, <2>1, <2>2
<1>6. n - 1 \in Nat /\ (n - 1) + 1 = n /\ n \in 0..n
  OBVIOUS
<1> HIDE DEF P
<1>7. n - 1 \in P
  BY <1>4, <1>5, <1>6, SetInduction
<1> QED BY <1>6, <1>7 DEF P

LEMMA StepIs ==
    ASSUME NEW l, NEW max
    PROVE  Step(l, max) = IF l.going THEN GzipPass(l, max) ELSE l
<1> DEFINE e(k) == IF k.going THEN GzipPass(k, max) ELSE k
<1>1. Step(l, max) = The({e(k) : k \in {l}})
  BY Zenon DEF Step
<1>2. Step(l, max) = e(l)
  <2> HIDE DEF e
  <2>1. {e(k) : k \in {l}} = {e(l)}
    OBVIOUS
  <2> QED BY <1>1, <2>1, TheOne
<1> QED BY <1>2

(* Nothing is left to do for a decoder that has decoded all it was given.     *)
LEMMA NothingFollows ==
    ASSUME NEW s \in Scenarios, NEW m \in 0..Len(s.wire), NEW d \in Decoder, Fed(s, d, m),
           At(s, d, m) = m, NEW max, NEW r, r.d = d, r.out = <<>>, r.ok
    PROVE  GoesOn(s, d, m, m, r) /\ DecodesAll(s, m, r, max)
<1>1. s.wire \in Seq(Unit) /\ d # None /\ d.z \in ZState /\ d.z.pend \in Seq(Nat) /\ m \in Int
  BY ScenarioIs, DecoderIsSome, DecoderParts DEF ZState
<1>2. Pend(d) = d.z.pend /\ Pend(r.d) = d.z.pend /\ At(s, r.d, m) = m
  BY <1>1 DEF Pend
<1>3. Part(s.wire, m, m) = <<>>
  <2>1. m \in 0..m
    BY ScenarioIs
  <2> QED BY <1>1, <2>1, PartEmpty
<1>4. Part(s.wire, At(s, d, m), At(s, r.d, m)) = <<>>
  BY <1>2, <1>3
<1>5. d.z.pend \o <<>> = <<>> \o d.z.pend
  BY <1>1, ConcatEmptySeq
<1>6. Pend(d) \o Bytes(Part(s.wire, At(s, d, m), At(s, r.d, m))) = r.out \o Pend(r.d)
  BY ONLY <1>2, <1>4, <1>5, BytesEmpty, r.out = <<>>, Zenon
<1>7. At(s, d, m) <= At(s, r.d, m) /\ At(s, r.d, m) <= m
  BY ONLY <1>1, <1>2, At(s, d, m) = m
<1>8. GoesOn(s, d, m, m, r)
  BY <1>1, <1>6, <1>7 DEF GoesOn
<1> QED BY <1>2, <1>8 DEF DecodesAll

LEMMA GzipFollows ==
    ASSUME NEW s \in Scenarios, s.coding = "gzip", ~Plainly(s),
           Member(s.wire), NEW m \in 0..Len(s.wire), NEW n \in 0..m, NEW d \in Decoder,
           Fed(s, d, n), NEW max \in Amount
    PROVE  LET r == Gzip(d, Part(s.wire, n, m), max)
           IN  GoesOn(s, d, n, m, r) /\ DecodesAll(s, m, r, max)
<1> DEFINE data == Part(s.wire, n, m)
           all == d.kept \o data
           K == 2 * Len(all) + 2
           init == [d |-> d, data |-> all, ret |-> <<>>, going |-> TRUE, ok |-> TRUE]
           pass == CHOOSE f : Passes(init, max, K, f)
           nothing == [d |-> d, out |-> <<>>, ok |-> TRUE]
           result(l) == [d |-> l.d, out |-> l.ret, ok |-> l.ok]
           r == Gzip(d, data, max)
           Good(x) == GoesOn(s, d, n, m, x) /\ DecodesAll(s, m, x, max)
<1>1. s.wire \in Seq(Unit) /\ Len(s.wire) \in Nat /\ d # None /\ s.coding # "br"
      /\ s.coding # "deflate"
  BY ScenarioIs, DecoderIsSome
<1>2. /\ Standing(s.wire, d.z) /\ d.z.at <= n /\ d.z.tail = Part(s.wire, d.z.at, n)
      /\ d.state = "first" /\ d.kept = d.z.tail
  BY <1>1 DEF Fed
<1>3. d.z \in ZState /\ d.kept \in Seq(Unit) /\ d.z.tail \in Seq(Unit) /\ d.z.at \in Nat
      /\ d.z.pend \in Seq(Nat)
  BY DecoderParts DEF ZState
<1>4. PICK w, a : w = s.wire /\ a = d.z.at
  OBVIOUS
<1>5. /\ w \in Seq(Unit) /\ m \in 0..Len(w) /\ n \in 0..Len(w) /\ n \in 0..m /\ a \in 0..n
         /\ a \in 0..m
      /\ a <= m /\ Len(w) \in Nat /\ a <= n /\ n <= m
  BY <1>1, <1>2, <1>3, <1>4
<1>6. data \in Seq(Unit) /\ all \in Seq(Unit) /\ Len(all) \in Nat
  <2>1. Part(w, n, m) \in Seq(Unit)
    BY ONLY <1>5, PartIs, Zenon
  <2>2. data \in Seq(Unit)
    BY <1>4, <2>1
  <2> HIDE DEF data
  <2> QED BY <1>3, <2>2, ConcatProperties, LenProperties
<1>7. all = Part(w, a, m)
  <2>1. Part(w, a, n) \o Part(w, n, m) = Part(w, a, m)
    BY ONLY <1>5, PartJoin, Zenon
  <2> QED BY <1>2, <1>4, <2>1
<1>8. K \in Nat \ {0}
  <2> HIDE DEF all
  <2>1. PICK k \in Nat : k = Len(all)
    BY <1>6
  <2>2. 2 * k + 2 \in Nat \ {0}
    OBVIOUS
  <2> QED BY <2>1, <2>2
<1>9. \/ r = nothing /\ all = <<>>
      \/ r = The({result(l) : l \in {pass[K]}})
  <2>1. d.state # "swallow"
    BY <1>2
  <2> QED BY <2>1, Zenon DEF Gzip, Passes, Step
<1> HIDE DEF data, r, K
<1>10. ASSUME r = nothing, all = <<>> PROVE Good(r)
  <2>1. a = m /\ n = m
    <3>1. Part(w, a, m) = <<>> => a = m
      BY ONLY <1>5, PartEmpty, Zenon
    <3> QED BY <1>5, <1>7, <1>10, <3>1
  <2>2. At(s, d, m) = m
    BY <1>1, <1>4, <2>1 DEF At
  <2>3. r.d = d /\ r.out = <<>> /\ r.ok
    BY <1>10
  <2>4. Fed(s, d, m)
    BY <2>1
  <2> QED BY <2>1, <2>2, <2>3, <2>4, NothingFollows
<1> HIDE DEF all
<1>11. PICK q : q = Zlib(d.z, Part(s.wire, d.z.at, m), max)
  OBVIOUS
<1>12. ZlibGoesOn(w, d.z, m, max, q)
  <2>1. Member(w) /\ Standing(w, d.z) /\ d.z.at <= m
    BY <1>2, <1>4, <1>5
  <2>2. ZlibGoesOn(w, d.z, m, max, Zlib(d.z, Part(w, d.z.at, m), max))
    BY ONLY <1>5, <2>1, max \in Amount, ZlibFollows
  <2> QED BY ONLY <1>4, <1>11, <2>2, Zenon
<1>13. /\ q.ok /\ q.z \in ZState /\ q.out \in Seq(Nat) /\ q.ok \in BOOLEAN /\ q.z.unused = <<>>
       /\ q.z.tail = Part(w, q.z.at, m) /\ q.z.tail \in Seq(Unit)
       /\ max = None \/ Len(q.out) < max => q.z.at = m
  <2>1. q \in ZResult /\ q.ok /\ Standing(w, q.z) /\ q.z.tail = Part(w, q.z.at, m)
        /\ (max = None \/ Len(q.out) < max => q.z.at = m)
    BY <1>12 DEF ZlibGoesOn
  <2>2. q.z \in ZState /\ q.out \in Seq(Nat) /\ q.ok \in BOOLEAN
    BY ONLY <2>1 DEF ZResult
  <2>3. q.z.unused = <<>>
    BY <2>1 DEF Standing
  <2>4. q.z.tail \in Seq(Unit)
    BY ONLY <2>2 DEF ZState
  <2> QED BY ONLY <2>1, <2>2, <2>3, <2>4
<1> DEFINE full == max # None /\ Len(q.out) >= max
           next1 == [init EXCEPT !.d = [@ EXCEPT !.z = q.z, !.kept = q.z.tail],
                                 !.data = q.z.tail, !.ret = q.out, !.going = FALSE]
<1>14. full \/ q.z.tail = <<>>
  <2> SUFFICES ASSUME ~full PROVE q.z.tail = <<>>
    OBVIOUS
  <2>1. max = None \/ Len(q.out) < max
    <3>1. Len(q.out) \in Nat
      BY <1>13, LenProperties
    <3> QED BY ONLY <3>1, ~full, max \in Amount DEF Amount
  <2>2. q.z.at = m
    BY <1>13, <2>1
  <2>3. Part(w, m, m) = <<>>
    <3>1. m \in 0..m
      BY <1>5
    <3> QED BY ONLY <1>5, <3>1, PartEmpty, Zenon
  <2> QED BY <1>13, <2>2, <2>3
<1>15. GzipPass(init, max) = next1
  <2> DEFINE data2(p) == IF p.z.tail # <<>> THEN p.z.tail ELSE p.z.unused
             ret2(p) == init.ret \o p.out
             full2(p) == max # None /\ Len(ret2(p)) >= max
             pass2(p) ==
               IF ~p.ok
               THEN [init EXCEPT !.d = [@ EXCEPT !.state = "swallow", !.kept = <<>>],
                                 !.going = FALSE, !.ok = init.d.state = "other"]
               ELSE IF full2(p) \/ data2(p) = <<>> \/ ~Eof(p.z)
               THEN [init EXCEPT !.d = [@ EXCEPT !.z = p.z, !.kept = data2(p)], !.data = data2(p),
                                 !.ret = ret2(p), !.going = ~full2(p) /\ data2(p) # <<>>]
               ELSE [init EXCEPT !.d = [z |-> NewZ, kept |-> data2(p), state |-> "other"],
                                 !.data = data2(p), !.ret = ret2(p)]
             room == IF max = None THEN None ELSE max - Len(init.ret)
             q2 == Zlib(init.d.z, init.data, room)
  <2>1. GzipPass(init, max) = The({pass2(p) : p \in {q2}})
    BY Zenon DEF GzipPass
  <2>2. init.d = d /\ init.data = all /\ init.ret = <<>>
    OBVIOUS
  <2>3. room = max
    <3>1. Len(<<>>) = 0
      BY EmptySeq
    <3> QED BY ONLY <2>2, <3>1, max \in Amount DEF Amount
  <2>4. q2 = q
    <3> HIDE DEF room, init
    <3> QED BY ONLY <1>4, <1>7, <1>11, <2>2, <2>3, Zenon
  <2>5. ret2(q) = q.out
    BY <1>13, <2>2, ConcatEmptySeq
  <2>6. data2(q) = q.z.tail
    BY <1>13
  <2>7. full2(q) = full
    BY <2>5
  <2>8. pass2(q) = next1
    <3>1. q.ok = TRUE
      BY <1>13
    <3>2. (~full2(q) /\ data2(q) # <<>>) = FALSE
      <4> HIDE DEF full, full2, data2
      <4> QED BY ONLY <1>14, <2>6, <2>7
    <3>3. full2(q) \/ data2(q) = <<>> \/ ~Eof(q.z)
      <4> HIDE DEF full, full2, data2
      <4> QED BY ONLY <1>14, <2>6, <2>7
    <3> HIDE DEF full, full2, data2, ret2, init
    <3> QED BY ONLY <2>5, <2>6, <3>1, <3>2, <3>3, Zenon
  <2>9. The({pass2(p) : p \in {q2}}) = pass2(q)
    <3> HIDE DEF pass2, q2
    <3>1. {pass2(p) : p \in {q2}} = {pass2(q)}
      BY <2>4
    <3> QED BY <3>1, TheOne
  <2> QED BY <2>1, <2>8, <2>9
<1>16. next1.going = FALSE /\ init.going = TRUE
  OBVIOUS
<1>17. next1.d = [d EXCEPT !.z = q.z, !.kept = q.z.tail] /\ next1.ret = q.out /\ next1.ok = TRUE
  OBVIOUS
<1> HIDE DEF init, next1
<1>18. Step(init, max) = next1 /\ Step(next1, max) = next1
  BY <1>15, <1>16, StepIs
<1>19. pass[K] = next1
  <2>1. Passes(init, max, K, pass)
    BY <1>8, PassesExist
  <2> HIDE DEF pass
  <2> QED BY <1>8, <1>18, <2>1, PassesSettle
<1> HIDE DEF pass
<1>20. ASSUME r = The({result(l) : l \in {pass[K]}}) PROVE Good(r)
  <2>1. r = result(next1)
    <3> HIDE DEF result
    <3>1. {result(l) : l \in {pass[K]}} = {result(next1)}
      BY <1>19
    <3> QED BY <1>20, <3>1, TheOne
  <2>2. r.d = [d EXCEPT !.z = q.z, !.kept = q.z.tail] /\ r.out = q.out /\ r.ok = TRUE
    BY <1>17, <2>1
  <2>3. r.d \in Decoder /\ r.d.z = q.z /\ r.d.kept = q.z.tail /\ r.d.state = "first"
    BY ONLY <1>2, <1>13, <2>2, d \in Decoder DEF Decoder
  <2>4. r.ok = q.ok
    BY <1>13, <2>2
  <2> QED BY <1>1, <1>2, <1>4, <1>5, <1>11, <2>2, <2>3, <2>4, ZlibDecodes
<1>21. Good(r)
  <2> HIDE DEF Good, result, nothing
  <2> QED BY <1>9, <1>10, <1>20
<1> QED BY <1>21 DEF r, data

LEMMA BrotliFollows ==
    ASSUME NEW s \in Scenarios, s.coding = "br", ~Plainly(s),
           NEW m \in 0..Len(s.wire), NEW n \in 0..m, NEW d \in Decoder,
           Fed(s, d, n), NEW max \in Amount
    PROVE  LET r == Brotli(d, Part(s.wire, n, m))
           IN  GoesOn(s, d, n, m, r) /\ DecodesAll(s, m, r, max)
<1> DEFINE data == Part(s.wire, n, m)
           r == Brotli(d, data)
<1>1. s.wire \in Seq(Unit) /\ d # None /\ d.z = NewZ
  BY ScenarioIs, DecoderIsSome DEF Fed
<1>2. r.d = d /\ r.out = Bytes(data) /\ r.ok = TRUE
  BY DEF Brotli
<1>3. data \in Seq(Unit)
  <2>1. n \in 0..Len(s.wire)
    BY ScenarioIs
  <2> QED BY <1>1, <2>1, PartIs
<1> HIDE DEF r
<1>4. At(s, d, n) = n /\ At(s, r.d, m) = m /\ Pend(d) = <<>> /\ Pend(r.d) = <<>>
  BY <1>1, <1>2 DEF At, Pend, NewZ
<1>5. Fed(s, r.d, m)
  BY <1>1, <1>2 DEF Fed
<1>6. <<>> \o Bytes(data) = Bytes(data) \o <<>>
  <2>1. Bytes(data) \in Seq(Nat)
    BY <1>3, BytesType
  <2> QED BY <2>1, ConcatEmptySeq
<1>7. Pend(d) \o Bytes(Part(s.wire, At(s, d, n), At(s, r.d, m))) = r.out \o Pend(r.d)
  BY ONLY <1>2, <1>4, <1>6, Zenon DEF data
<1>8. At(s, d, n) <= At(s, r.d, m) /\ At(s, r.d, m) <= m
  BY <1>4
<1>9. GoesOn(s, d, n, m, r)
  BY ONLY <1>1, <1>2, <1>5, <1>7, <1>8, Zenon DEF GoesOn
<1>10. DecodesAll(s, m, r, max)
  BY <1>4 DEF DecodesAll
<1> QED BY <1>9, <1>10 DEF r

LEMMA DecompressFollows ==
    ASSUME NEW s \in Scenarios, s = scenario, Decodable(s), ~Plainly(s),
           NEW m \in 0..Len(s.wire), NEW n \in 0..m, NEW d \in Decoder,
           Fed(s, d, n), NEW max \in Amount \ {0}
    PROVE  LET r == Decompress(d, Part(s.wire, n, m), max)
           IN  GoesOn(s, d, n, m, r) /\ DecodesAll(s, m, r, max)
<1> DEFINE data == Part(s.wire, n, m)
           r == Decompress(d, data, max)
           Good(x) == GoesOn(s, d, n, m, x) /\ DecodesAll(s, m, x, max)
<1>1. s.coding \in {"deflate", "gzip", "br"} /\ (s.coding = "br" \/ (~s.raw /\ Member(s.wire)))
  BY ScenarioIs DEF Codings, Decodable
<1>2. max \in Amount
  OBVIOUS
<1>3. ASSUME s.coding = "gzip" PROVE Good(r)
  <2>1. Good(Gzip(d, data, max))
    BY <1>1, <1>2, <1>3, GzipFollows
  <2>2. r = Gzip(d, data, max)
    BY <1>3 DEF Decompress
  <2> QED BY <2>1, <2>2
<1>4. ASSUME s.coding = "deflate" PROVE Good(r)
  <2>1. Good(Deflate(d, data, max))
    BY <1>1, <1>4, DeflateFollows
  <2>2. r = Deflate(d, data, max)
    BY <1>4 DEF Decompress
  <2> QED BY <2>1, <2>2
<1>5. ASSUME s.coding = "br" PROVE Good(r)
  <2>1. Good(Brotli(d, data))
    BY <1>2, <1>5, BrotliFollows
  <2>2. r = Brotli(d, data)
    BY <1>5 DEF Decompress
  <2> QED BY <2>1, <2>2
<1>6. Good(r)
  <2> HIDE DEF Good, r
  <2> QED BY <1>1, <1>3, <1>4, <1>5
<1> QED BY <1>6

(* What zlib flushes once it has taken all it was given: f, which leaves e.   *)
Flushes(s, m, d, f, e) ==
    /\ f.ok /\ f.out \in Seq(Nat) /\ e \in Decoder
    /\ Fed(s, e, m) /\ At(s, e, m) = m
    /\ d.z.pend = f.out \o e.z.pend

LEMMA ZlibFlushIs ==
    ASSUME NEW s \in Scenarios, Decodable(s), ~Plainly(s), NEW m \in 0..Len(s.wire),
           NEW d \in Decoder, Fed(s, d, m), At(s, d, m) = m
    PROVE  Flushes(s, m, d, ZlibFlush(d.z), [d EXCEPT !.z = ZlibFlush(d.z).z])
<1>a. PICK f : f = ZlibFlush(d.z)
  OBVIOUS
<1>b. PICK e : e = [d EXCEPT !.z = f.z]
  OBVIOUS
<1>1. /\ s.wire \in Seq(Unit) /\ Len(s.wire) \in Nat /\ d # None /\ d.z \in ZState
      /\ s.coding \in {"deflate", "gzip", "br"}
      /\ d.z.pend \in Seq(Nat) /\ None \in Amount
      /\ s.coding = "br" \/ (~s.raw /\ Member(s.wire))
  BY ScenarioIs, DecoderIsSome, DecoderParts DEF ZState, Amount, Codings, Decodable
<1>2. PICK z : z = d.z
  OBVIOUS
<1>3. PICK w : w = IF s.coding = "br" THEN <<>> ELSE s.wire
  OBVIOUS
<1>4. PICK k : k = IF s.coding = "br" THEN 0 ELSE m
  OBVIOUS
<1>5. w \in Seq(Unit) /\ Member(w) /\ Standing(w, z) /\ k \in 0..Len(w) /\ z.at <= k /\ z.at = k
      /\ z.tail = Part(w, k, k) /\ k \in 0..k
  <2>1. CASE s.coding = "br"
    <3>1. z = NewZ /\ w = <<>> /\ k = 0
      BY <1>1, <1>2, <1>3, <1>4, <2>1 DEF Fed
    <3>2. <<>> \in Seq(Unit) /\ Len(<<>>) = 0
      BY EmptySeq
    <3>3. Member(w)
      BY <3>1, <3>2 DEF Member
    <3>4. Standing(w, z)
      <4>1. z \in ZState /\ z.at = 0 /\ z.done = FALSE /\ z.unused = <<>> /\ z.pend = <<>>
              /\ Len(w) = 0
        BY <3>1, <3>2, NewZType DEF NewZ
      <4>2. z.at <= Len(w) /\ ~(0 < z.at)
        BY ONLY <4>1
      <4>3. z.done = (0 < z.at /\ z.at = Len(w))
        BY ONLY <4>1, <4>2, Zenon
      <4> QED BY ONLY <4>1, <4>2, <4>3, Zenon DEF Standing
    <3>5. Part(<<>>, 0, 0) = <<>>
      <4>1. 0 \in 0..Len(<<>>) /\ 0 \in 0..0
        BY ONLY <3>2
      <4> QED BY ONLY <3>2, <4>1, PartEmpty, Zenon
    <3> QED BY <3>1, <3>2, <3>3, <3>4, <3>5 DEF NewZ
  <2>2. CASE s.coding # "br"
    <3>1. w = s.wire /\ k = m /\ z.at = m
      BY <1>1, <1>2, <1>3, <1>4, <2>2 DEF At
    <3>2. Standing(s.wire, d.z) /\ d.z.tail = Part(s.wire, d.z.at, m)
      BY <1>1, <2>2 DEF Fed
    <3> QED BY <1>1, <1>2, <2>2, <3>1, <3>2
  <2> QED BY <2>1, <2>2
<1>6. ZlibGoesOn(w, z, k, None, Zlib(z, Part(w, z.at, k), None))
  BY ONLY <1>1, <1>5, ZlibFollows
<1>7. ZlibGoesOn(w, z, k, None, f)
  <2>1. f = Zlib(z, z.tail, None)
    BY <1>a, <1>2 DEF ZlibFlush
  <2> QED BY ONLY <1>5, <1>6, <2>1, Zenon
<1>8. /\ f.ok /\ f \in ZResult /\ Standing(w, f.z) /\ f.z.at = k /\ f.z.pend = <<>>
      /\ f.z.tail = Part(w, k, k)
      /\ z.pend \o Bytes(Part(w, z.at, f.z.at)) = f.out \o f.z.pend
  BY ONLY <1>7, Zenon DEF ZlibGoesOn
<1>9. f.z \in ZState /\ f.out \in Seq(Nat)
  BY ONLY <1>8 DEF ZResult
<1>10. e \in Decoder /\ e.z = f.z /\ e.kept = d.kept /\ e.state = d.state
  BY ONLY d \in Decoder, <1>9, <1>b DEF Decoder
<1>11. Part(w, k, k) = <<>>
  BY ONLY <1>5, PartEmpty, Zenon
<1>12. d.z.pend = f.out \o e.z.pend
  <2>1. Bytes(Part(w, z.at, f.z.at)) = <<>>
    BY ONLY <1>5, <1>8, <1>11, BytesEmpty, Zenon
  <2>2. d.z.pend \o <<>> = d.z.pend
    BY <1>1, ConcatEmptySeq
  <2> QED BY ONLY <1>2, <1>8, <1>10, <2>1, <2>2
<1>13. Fed(s, e, m) /\ At(s, e, m) = m
  <2>1. e # None
    BY <1>10, DecoderIsSome
  <2>2. CASE s.coding = "br"
    <3>1. f.z = NewZ
      <4>1. w = <<>> /\ k = 0
        BY <1>3, <1>4, <2>2
      <4>2. f.z.at = 0 /\ f.z.done = FALSE /\ f.z.pend = <<>> /\ f.z.tail = <<>>
              /\ f.z.unused = <<>>
        <5>1. f.z.done = (0 < f.z.at /\ f.z.at = Len(w)) /\ f.z.unused = <<>> /\ f.z.at = 0
          BY ONLY <1>8, <4>1, Zenon DEF Standing
        <5>2. ~(0 < 0)
          OBVIOUS
        <5>3. f.z.done = FALSE
          BY ONLY <5>1, <5>2
        <5> QED BY ONLY <1>8, <1>11, <5>1, <5>3
      <4> QED BY ONLY <1>9, <4>2 DEF ZState, NewZ
    <3> QED BY <1>10, <2>1, <2>2, <3>1 DEF Fed, At
  <2>3. CASE s.coding # "br"
    <3>1. w = s.wire /\ k = m
      BY <1>3, <1>4, <2>3
    <3>2. Standing(s.wire, e.z) /\ e.z.at = m /\ e.z.tail = Part(s.wire, e.z.at, m)
            /\ e.z.tail = <<>>
          /\ e.z.pend = <<>>
      BY ONLY <1>8, <1>10, <1>11, <3>1
    <3>3. s.coding = "gzip" => e.state = "first" /\ e.kept = <<>>
      <4>1. s.coding = "gzip" => d.state = "first" /\ d.kept = d.z.tail
        BY <1>1 DEF Fed
      <4>2. d.z.tail = <<>>
        BY <1>2, <1>5, <1>11
      <4> QED BY <1>10, <4>1, <4>2
    <3>4. s.coding = "deflate" => e.state \in {"settled", "try"}
      BY <1>1, <1>10 DEF Fed
    <3>5. e.z.at <= m
      BY <3>2
    <3>6. At(s, e, m) = m
      BY <2>1, <2>3, <3>2 DEF At
    <3> QED BY ONLY <2>1, <2>3, <3>2, <3>3, <3>4, <3>5, <3>6, <1>10, ~Plainly(s) DEF Fed
  <2> QED BY <2>2, <2>3
<1>14. Flushes(s, m, d, f, e)
  BY ONLY <1>8, <1>9, <1>10, <1>12, <1>13, Zenon DEF Flushes
<1> QED BY ONLY <1>a, <1>b, <1>14, Zenon

(* How a decoder, or None, goes on from n units to m.                        *)
Carries(s, d, n, m, r) ==
    /\ r.ok /\ Fed(s, r.d, m)
    /\ r.d = None => d = None
    /\ d = None => r.d = None
    /\ At(s, d, n) <= At(s, r.d, m) /\ At(s, r.d, m) <= m
    /\ Pend(d) \o Bytes(Part(s.wire, At(s, d, n), At(s, r.d, m))) = r.out \o Pend(r.d)

(* Concatenation, in a form that is applied to terms.                        *)
Associates(a, b, c) == (a \o b) \o c = a \o (b \o c) /\ a \o b \in Seq(Nat)

LEMMA Association ==
    ASSUME NEW a \in Seq(Nat), NEW b \in Seq(Nat), NEW c \in Seq(Nat)
    PROVE  Associates(a, b, c)
BY ConcatAssociative, ConcatProperties DEF Associates

Joins(b, o1, o2, o3, p3) == b = (o1 \o o2 \o o3) \o p3

LEMMA Joined ==
    ASSUME NEW b \in Seq(Nat), NEW p1 \in Seq(Nat), NEW p2 \in Seq(Nat), NEW p3 \in Seq(Nat),
           NEW o1 \in Seq(Nat), NEW o2 \in Seq(Nat), NEW o3 \in Seq(Nat),
           b = o1 \o p1, p1 = o2 \o p2, p2 = o3 \o p3
    PROVE  Joins(b, o1, o2, o3, p3)
<1>1. Associates(o1, o2, p2)
  BY Association, Zenon
<1>2. PICK o \in Seq(Nat) : o = o1 \o o2
  BY ONLY <1>1, Zenon DEF Associates
<1>3. Associates(o, o3, p3)
  BY Association, Zenon
<1> QED BY ONLY <1>1, <1>2, <1>3, b = o1 \o p1, p1 = o2 \o p2, p2 = o3 \o p3, Zenon
      DEF Associates, Joins

LEMMA FlushFollows ==
    ASSUME NEW s \in Scenarios, s = scenario, Decodable(s), ~Plainly(s),
           NEW m \in 0..Len(s.wire), NEW n \in 0..m, NEW d \in Decoder, Fed(s, d, n)
    PROVE  LET r == Flush(Decompress(d, Part(s.wire, n, m), None))
           IN  GoesOn(s, d, n, m, r) /\ At(s, r.d, m) = m
<1>1. /\ s.wire \in Seq(Unit) /\ Len(s.wire) \in Nat /\ d # None /\ d.z \in ZState
      /\ d.z.pend \in Seq(Nat) /\ m \in 0..m /\ n \in 0..Len(s.wire)
  BY ScenarioIs, DecoderIsSome, DecoderParts DEF ZState
<1>2. None \in Amount \ {0} /\ None \in Amount
  BY NoneAssumption DEF Amount
<1>3. PICK r : r = Decompress(d, Part(s.wire, n, m), None)
  OBVIOUS
<1>4. GoesOn(s, d, n, m, r) /\ DecodesAll(s, m, r, None)
  BY <1>2, <1>3, DecompressFollows
<1>5. r \in Decoded
  <2>1. Part(s.wire, n, m) \in Seq(Unit)
    BY ONLY <1>1, m \in 0..Len(s.wire), n \in 0..m, PartIs, Zenon
  <2> QED BY <1>2, <1>3, <2>1, DecompressType
<1>6. /\ r.d \in Decoder /\ r.out \in Seq(Nat) /\ r.ok /\ Fed(s, r.d, m) /\ At(s, r.d, m) = m
      /\ r.d # None /\ r.d.z.pend \in Seq(Nat)
  <2>1. r.d \in Decoder /\ r.out \in Seq(Nat)
    BY ONLY <1>5 DEF Decoded
  <2>2. r.d.z.pend \in Seq(Nat)
    BY ONLY <2>1 DEF Decoder, ZState
  <2> QED BY <1>4, <2>1, <2>2 DEF GoesOn, DecodesAll
<1>7. Part(s.wire, m, m) = <<>>
  BY <1>1, PartEmpty
<1>8. PICK q : q = Decompress(r.d, <<>>, None)
  OBVIOUS
<1>9. GoesOn(s, r.d, m, m, q) /\ DecodesAll(s, m, q, None)
  <2>1. LET x == Decompress(r.d, Part(s.wire, m, m), None)
        IN  GoesOn(s, r.d, m, m, x) /\ DecodesAll(s, m, x, None)
    BY <1>1, <1>2, <1>6, DecompressFollows
  <2> QED BY <1>7, <1>8, <2>1
<1>10. q \in Decoded
  <2>1. <<>> \in Seq(Unit)
    BY EmptySeq
  <2> QED BY <1>2, <1>6, <1>8, <2>1, DecompressType
<1>11. /\ q.d \in Decoder /\ q.out \in Seq(Nat) /\ q.ok /\ Fed(s, q.d, m) /\ At(s, q.d, m) = m
       /\ q.d # None /\ q.d.z.pend \in Seq(Nat)
       /\ Pend(r.d) \o Bytes(Part(s.wire, At(s, r.d, m), At(s, q.d, m))) = q.out \o Pend(q.d)
  <2>1. q.d \in Decoder /\ q.out \in Seq(Nat)
    BY ONLY <1>10 DEF Decoded
  <2>2. q.d.z.pend \in Seq(Nat)
    BY ONLY <2>1 DEF Decoder, ZState
  <2> QED BY <1>9, <2>1, <2>2 DEF GoesOn, DecodesAll
<1>12. r.d.z.pend = q.out \o q.d.z.pend
  <2>1. r.d.z.pend \o <<>> = q.out \o q.d.z.pend
    BY ONLY <1>6, <1>7, <1>11, BytesEmpty, Zenon DEF Pend
  <2> QED BY <1>6, <2>1, ConcatEmptySeq
<1>13. PICK f : f = ZlibFlush(q.d.z)
  OBVIOUS
<1>14. PICK e : e = [q.d EXCEPT !.z = f.z]
  OBVIOUS
<1>15. /\ f.ok /\ f.out \in Seq(Nat) /\ e \in Decoder /\ Fed(s, e, m) /\ At(s, e, m) = m
       /\ q.d.z.pend = f.out \o e.z.pend
  <2>1. PICK c \in Decoder : c = q.d
    BY <1>11
  <2>2. Fed(s, c, m) /\ At(s, c, m) = m /\ f = ZlibFlush(c.z) /\ e = [c EXCEPT !.z = f.z]
    BY ONLY <1>11, <1>13, <1>14, <2>1
  <2>3. Flushes(s, m, c, f, e)
    <3>1. Flushes(s, m, c, ZlibFlush(c.z), [c EXCEPT !.z = ZlibFlush(c.z).z])
      BY ONLY <2>2, m \in 0..Len(s.wire), Decodable(s), ~Plainly(s), ZlibFlushIs, Zenon
    <3> QED BY ONLY <2>2, <3>1, Zenon
  <2> QED BY ONLY <2>1, <2>3, Zenon DEF Flushes
<1>16. PICK t : t = Flush(r)
  OBVIOUS
<1>17. t.d = e /\ t.out = r.out \o q.out \o f.out /\ t.ok
  <2> DEFINE flushed(x, y) == [d   |-> [x.d EXCEPT !.z = y.z],
                               out |-> r.out \o x.out \o y.out,
                               ok  |-> r.ok /\ x.ok /\ y.ok]
             inner(x) == The({flushed(x, y) : y \in {ZlibFlush(x.d.z)}})
  <2>1. t = The({inner(x) : x \in {Decompress(r.d, <<>>, None)}})
    BY <1>16, Zenon DEF Flush
  <2>2. t = inner(q)
    <3> HIDE DEF inner
    <3>1. {inner(x) : x \in {Decompress(r.d, <<>>, None)}} = {inner(q)}
      BY <1>8
    <3> QED BY <2>1, <3>1, TheOne
  <2>3. t = flushed(q, f)
    <3> HIDE DEF flushed
    <3>1. {flushed(q, y) : y \in {ZlibFlush(q.d.z)}} = {flushed(q, f)}
      BY <1>13
    <3> QED BY <2>2, <3>1, TheOne
  <2>4. t.d = [q.d EXCEPT !.z = f.z] /\ t.out = r.out \o q.out \o f.out
        /\ t.ok = (r.ok /\ q.ok /\ f.ok)
    BY <2>3
  <2> QED BY ONLY <1>6, <1>11, <1>14, <1>15, <2>4, Zenon
<1>18. e # None /\ e.z.pend \in Seq(Nat)
  <2>1. e.z.pend \in Seq(Nat)
    BY ONLY <1>15 DEF Decoder, ZState
  <2> QED BY <1>15, <2>1, DecoderIsSome
<1>19. GoesOn(s, d, n, m, t)
  <2>1. /\ At(s, d, n) <= At(s, r.d, m)
        /\ Pend(d) \o Bytes(Part(s.wire, At(s, d, n), At(s, r.d, m))) = r.out \o Pend(r.d)
    BY ONLY <1>4, Zenon DEF GoesOn
  <2>2. PICK b : b = Pend(d) \o Bytes(Part(s.wire, At(s, d, n), m))
    OBVIOUS
  <2>3. b = r.out \o r.d.z.pend
    BY ONLY <1>6, <2>1, <2>2, Zenon DEF Pend
  <2>4. b \in Seq(Nat)
    BY <1>6, <2>3, ConcatProperties
  <2>5. b = (r.out \o q.out \o f.out) \o e.z.pend
    <3>1. PICK p1, p2, p3, o1, o2, o3 : /\ p1 = r.d.z.pend /\ p2 = q.d.z.pend /\ p3 = e.z.pend
                                        /\ o1 = r.out /\ o2 = q.out /\ o3 = f.out
      OBVIOUS
    <3>2. /\ p1 \in Seq(Nat) /\ p2 \in Seq(Nat) /\ p3 \in Seq(Nat) /\ o1 \in Seq(Nat)
          /\ o2 \in Seq(Nat) /\ o3 \in Seq(Nat)
      BY ONLY <1>6, <1>11, <1>15, <1>18, <3>1
    <3>3. b = o1 \o p1 /\ p1 = o2 \o p2 /\ p2 = o3 \o p3
      BY ONLY <1>12, <1>15, <2>3, <3>1, Zenon
    <3>4. Joins(b, o1, o2, o3, p3)
      BY ONLY <2>4, <3>2, <3>3, Joined, Zenon
    <3> QED BY ONLY <3>1, <3>4, Zenon DEF Joins
  <2>6. Pend(d) \o Bytes(Part(s.wire, At(s, d, n), At(s, t.d, m))) = t.out \o Pend(t.d)
    BY ONLY <1>15, <1>17, <1>18, <2>2, <2>5, Zenon DEF Pend
  <2>7. At(s, d, n) <= At(s, t.d, m) /\ At(s, t.d, m) <= m
    BY ONLY <1>6, <1>15, <1>17, <2>1, m \in 0..Len(s.wire), <1>1
  <2> QED BY ONLY <1>15, <1>17, <1>18, <2>6, <2>7, Zenon DEF GoesOn
<1> QED BY ONLY <1>3, <1>15, <1>16, <1>17, <1>19, Zenon

LEMMA NothingCarries ==
    ASSUME NEW s \in Scenarios, NEW m \in 0..Len(s.wire), NEW d \in Maybe, Fed(s, d, m),
           NEW r, r.d = d, r.out = <<>>, r.ok
    PROVE  Carries(s, d, m, m, r)
<1>1. s.wire \in Seq(Unit) /\ Len(s.wire) \in Nat /\ Pend(d) \in Seq(Nat)
  BY ScenarioIs, EmptySeq, DecoderParts DEF Pend, Maybe, ZState
<1>2. PICK a : a = At(s, d, m)
  OBVIOUS
<1>3. a \in 0..m /\ a \in 0..Len(s.wire) /\ a \in 0..a /\ a <= m
  <2>1. a \in Nat /\ a <= m
    BY <1>1, <1>2, DecoderParts DEF Fed, At, Maybe, ZState
  <2> QED BY <1>1, <2>1
<1>4. Part(s.wire, a, a) = <<>>
  BY ONLY <1>1, <1>3, PartEmpty, Zenon
<1>5. Pend(d) \o <<>> = <<>> \o Pend(d)
  BY <1>1, ConcatEmptySeq
<1>6. Pend(d) \o Bytes(Part(s.wire, At(s, d, m), At(s, r.d, m))) = r.out \o Pend(r.d)
  BY ONLY <1>2, <1>4, <1>5, BytesEmpty, r.d = d, r.out = <<>>, Zenon
<1>7. At(s, d, m) <= At(s, r.d, m) /\ At(s, r.d, m) <= m
  BY ONLY <1>2, <1>3, r.d = d
<1> QED BY ONLY <1>6, <1>7, Fed(s, d, m), r.d = d, r.ok, Zenon DEF Carries

LEMMA DecodeFollows ==
    ASSUME NEW s \in Scenarios, s = scenario, Decodable(s),
           NEW m \in 0..Len(s.wire), NEW n \in 0..m, NEW d \in Maybe, Fed(s, d, n),
           d # None \/ Plainly(s), NEW flush \in BOOLEAN, NEW max \in Amount \ {0}
    PROVE  LET r == Decode(d, Part(s.wire, n, m), flush, max)
           IN  /\ Carries(s, d, n, m, r)
               /\ flush \/ max = None \/ Len(r.out) < max => At(s, r.d, m) = m
<1> DEFINE data == Part(s.wire, n, m)
           r == Decode(d, data, flush, max)
           Good(x) == /\ Carries(s, d, n, m, x)
                      /\ flush \/ max = None \/ Len(x.out) < max => At(s, x.d, m) = m
<1>1. s.wire \in Seq(Unit) /\ Len(s.wire) \in Nat /\ n \in 0..Len(s.wire)
  BY ScenarioIs
<1>2. data \in Seq(Unit)
  BY ONLY <1>1, m \in 0..Len(s.wire), n \in 0..m, PartIs, Zenon
<1> HIDE DEF data
<1>3. ASSUME d = None PROVE Good(r)
  <2>1. r.d = None /\ r.out = Bytes(data) /\ r.ok = TRUE
    BY <1>3 DEF Decode
  <2>2. Plainly(s)
    BY <1>3
  <2>3. At(s, d, n) = n /\ At(s, r.d, m) = m /\ Pend(d) = <<>> /\ Pend(r.d) = <<>> /\ Fed(s, r.d, m)
    BY <1>3, <2>1, <2>2 DEF At, Pend, Fed
  <2>4. <<>> \o Bytes(data) = Bytes(data) \o <<>>
    <3>1. Bytes(data) \in Seq(Nat)
      BY <1>2, BytesType
    <3> QED BY <3>1, ConcatEmptySeq
  <2>5. Pend(d) \o Bytes(Part(s.wire, At(s, d, n), At(s, r.d, m))) = r.out \o Pend(r.d)
    BY ONLY <2>1, <2>3, <2>4, Zenon DEF data
  <2>6. At(s, d, n) <= At(s, r.d, m) /\ At(s, r.d, m) <= m
    BY <2>3
  <2>7. Carries(s, d, n, m, r)
    BY ONLY <1>3, <2>1, <2>3, <2>5, <2>6, Zenon DEF Carries
  <2> QED BY <2>3, <2>7
<1>4. ASSUME d # None PROVE Good(r)
  <2>1. d \in Decoder /\ ~Plainly(s) /\ max \in Amount
    BY <1>4 DEF Maybe, Fed
  <2>2. ASSUME NEW x, GoesOn(s, d, n, m, x) PROVE Carries(s, d, n, m, x)
    BY ONLY <1>4, <2>2, Zenon DEF GoesOn, Carries
  <2>3. CASE flush
    <3>1. PICK q : q = Decompress(d, data, None)
      OBVIOUS
    <3>2. r = Flush(q)
      <4>1. r = The({Flush(x) : x \in {Decompress(d, data, None)}})
        BY <1>4, <2>3, Zenon DEF Decode
      <4>2. {Flush(x) : x \in {Decompress(d, data, None)}} = {Flush(q)}
        BY <3>1
      <4> QED BY <4>1, <4>2, TheOne
    <3>3. LET x == Flush(Decompress(d, Part(s.wire, n, m), None))
          IN  GoesOn(s, d, n, m, x) /\ At(s, x.d, m) = m
      BY <2>1, FlushFollows
    <3>4. GoesOn(s, d, n, m, r) /\ At(s, r.d, m) = m
      BY ONLY <3>1, <3>2, <3>3, Zenon DEF data
    <3> QED BY <2>2, <3>4
  <2>4. CASE ~flush
    <3>1. r = Decompress(d, data, max)
      BY <1>4, <2>4 DEF Decode
    <3>2. LET x == Decompress(d, Part(s.wire, n, m), max)
          IN  GoesOn(s, d, n, m, x) /\ DecodesAll(s, m, x, max)
      BY <2>1, DecompressFollows
    <3>3. GoesOn(s, d, n, m, r) /\ DecodesAll(s, m, r, max)
      BY ONLY <3>1, <3>2, Zenon DEF data
    <3> QED BY <2>2, <2>4, <3>3 DEF DecodesAll
  <2> QED BY <2>3, <2>4
<1> QED BY <1>3, <1>4 DEF data

LEMMA FromTailFollows ==
    ASSUME NEW s \in Scenarios, s = scenario, Decodable(s),
           NEW m \in 0..Len(s.wire), NEW d \in Maybe, Fed(s, d, m), NEW max \in Amount \ {0}
    PROVE  Carries(s, d, m, m, FromTail(d, max))
<1>1. s.wire \in Seq(Unit) /\ Len(s.wire) \in Nat /\ m \in 0..m
  BY ScenarioIs
<1>2. PICK r : r = FromTail(d, max)
  OBVIOUS
<1>3. CASE HasTail(d)
  <2>1. r = Decode(d, <<>>, FALSE, max) /\ d # None
    BY <1>2, <1>3 DEF FromTail, HasTail
  <2>2. Part(s.wire, m, m) = <<>>
    BY <1>1, PartEmpty
  <2>3. FALSE \in BOOLEAN
    OBVIOUS
  <2>4. LET x == Decode(d, Part(s.wire, m, m), FALSE, max) IN Carries(s, d, m, m, x)
    BY <1>1, <2>1, <2>3, DecodeFollows
  <2> QED BY <1>2, <2>1, <2>2, <2>4
<1>4. CASE ~HasTail(d)
  <2>1. r = [d |-> d, out |-> <<>>, ok |-> TRUE]
    BY <1>2, <1>4 DEF FromTail
  <2>2. r.d = d /\ r.out = <<>> /\ r.ok
    BY ONLY <2>1
  <2> QED BY ONLY <1>2, <2>2, s \in Scenarios, m \in 0..Len(s.wire), d \in Maybe, Fed(s, d, m),
        NothingCarries, Zenon
<1> QED BY <1>3, <1>4

(* The bytes x were made, by what is now d, of the first n units.            *)
Follows(s, x, d, n) == Fed(s, d, n) /\ x \o Pend(d) = Bytes(Part(s.wire, 0, At(s, d, n)))

Begins(x, b) == \E t \in Seq(Nat) : b = x \o t

LEMMA PendType == ASSUME NEW d \in Maybe PROVE Pend(d) \in Seq(Nat)
BY EmptySeq, DecoderParts DEF Pend, Maybe, ZState

LEMMA AtIs ==
    ASSUME NEW s \in Scenarios, NEW n \in 0..Len(s.wire), NEW d \in Maybe, Fed(s, d, n)
    PROVE  At(s, d, n) \in 0..n
<1>1. n \in Nat
  BY ScenarioIs
<1>2. CASE d = None \/ s.coding = "br"
  BY <1>1, <1>2 DEF At
<1>3. CASE ~(d = None \/ s.coding = "br")
  <2>1. d.z.at \in Nat /\ d.z.at <= n
    BY <1>3, DecoderParts DEF Fed, ZState, Maybe
  <2> QED BY <1>1, <1>3, <2>1 DEF At
<1> QED BY <1>2, <1>3

LEMMA FollowsCarried ==
    ASSUME NEW s \in Scenarios, NEW m \in 0..Len(s.wire), NEW n \in 0..m, NEW d \in Maybe,
           NEW x \in Seq(Nat), Follows(s, x, d, n), NEW r \in MaybeDecoded, Carries(s, d, n, m, r)
    PROVE  Follows(s, x \o r.out, r.d, m)
<1>1. s.wire \in Seq(Unit) /\ Len(s.wire) \in Nat /\ n \in 0..Len(s.wire)
  BY ScenarioIs
<1>2. r.d \in Maybe /\ r.out \in Seq(Nat)
  BY DEF MaybeDecoded
<1>3. PICK a, b, p, q, o : /\ a = At(s, d, n) /\ b = At(s, r.d, m) /\ p = Pend(d)
                           /\ q = Pend(r.d) /\ o = r.out
  OBVIOUS
<1>4. p \in Seq(Nat) /\ q \in Seq(Nat) /\ o \in Seq(Nat)
  BY ONLY <1>2, <1>3, d \in Maybe, PendType
<1>5. Fed(s, d, n) /\ Fed(s, r.d, m) /\ a <= b /\ x \o p = Bytes(Part(s.wire, 0, a))
      /\ p \o Bytes(Part(s.wire, a, b)) = o \o q
  BY ONLY Follows(s, x, d, n), Carries(s, d, n, m, r), <1>3, Zenon DEF Follows, Carries
<1>6. a \in 0..n /\ b \in 0..m
  BY <1>1, <1>2, <1>3, <1>5, AtIs
<1>7. b \in 0..Len(s.wire) /\ a \in 0..b /\ 0 \in 0..a
  BY ONLY <1>1, <1>5, <1>6, m \in 0..Len(s.wire), n \in 0..m
<1>8. PICK e, f : e = Bytes(Part(s.wire, 0, a)) /\ f = Bytes(Part(s.wire, a, b))
  OBVIOUS
<1>9. Bytes(Part(s.wire, 0, b)) = e \o f /\ f \in Seq(Nat)
  BY ONLY <1>1, <1>7, <1>8, BytesJoin
<1>10. Associates(x, p, f) /\ Associates(x, o, q)
  BY ONLY x \in Seq(Nat), <1>4, <1>9, Association, Zenon
<1>11. (x \o o) \o q = Bytes(Part(s.wire, 0, b))
  BY ONLY <1>5, <1>8, <1>9, <1>10, Zenon DEF Associates
<1> QED BY ONLY <1>3, <1>5, <1>11, Zenon DEF Follows

(* The first bytes of a body.                                                *)
LEMMA FollowsBegins ==
    ASSUME NEW s \in Scenarios, NEW n \in 0..Len(s.wire), NEW d \in Maybe, NEW x \in Seq(Nat),
           Follows(s, x, d, n)
    PROVE  Begins(x, Bytes(s.wire)) /\ (n = 0 => x = <<>>)
<1>1. s.wire \in Seq(Unit) /\ Len(s.wire) \in Nat
  BY ScenarioIs
<1>2. PICK a, p, l : a = At(s, d, n) /\ p = Pend(d) /\ l = Len(s.wire)
  OBVIOUS
<1>3. p \in Seq(Nat) /\ Fed(s, d, n) /\ x \o p = Bytes(Part(s.wire, 0, a))
  BY <1>2, PendType DEF Follows
<1>4. a \in 0..n
  BY <1>2, <1>3, AtIs
<1>5. l \in 0..Len(s.wire) /\ a \in 0..l /\ 0 \in 0..a
  BY ONLY <1>1, <1>2, <1>4, n \in 0..Len(s.wire)
<1>6. PICK e, f : e = Bytes(Part(s.wire, 0, a)) /\ f = Bytes(Part(s.wire, a, l))
  OBVIOUS
<1>7. Bytes(Part(s.wire, 0, l)) = e \o f /\ f \in Seq(Nat)
  BY ONLY <1>1, <1>5, <1>6, BytesJoin
<1>8. Part(s.wire, 0, l) = s.wire
  BY ONLY <1>1, <1>2, PartAll
<1>9. Associates(x, p, f) /\ Associates(p, f, <<>>)
  BY ONLY x \in Seq(Nat), <1>3, <1>7, EmptySeq, Association, Zenon
<1>10. Bytes(s.wire) = x \o (p \o f) /\ p \o f \in Seq(Nat)
  BY ONLY <1>3, <1>6, <1>7, <1>8, <1>9, Zenon DEF Associates
<1>11. Begins(x, Bytes(s.wire))
  BY ONLY <1>10, Zenon DEF Begins
<1>12. ASSUME n = 0 PROVE x = <<>>
  <2>1. a = 0
    BY <1>4, <1>12
  <2>2. Part(s.wire, 0, 0) = <<>>
    <3>1. 0 \in 0..Len(s.wire) /\ 0 \in 0..0
      BY <1>1
    <3> QED BY ONLY <1>1, <3>1, PartEmpty, Zenon
  <2>3. x \o p = <<>>
    BY ONLY <1>3, <2>1, <2>2, BytesEmpty, Zenon
  <2>4. Len(x) + Len(p) = Len(<<>>) /\ Len(x) \in Nat /\ Len(p) \in Nat
    BY ONLY x \in Seq(Nat), <1>3, <2>3, ConcatProperties, LenProperties
  <2>5. Len(x) = 0
    BY ONLY <2>4, EmptySeq
  <2> QED BY ONLY x \in Seq(Nat), <2>5, EmptySeq
<1> QED BY <1>11, <1>12

(* When all has been given and decoded, all is there.                        *)
LEMMA FollowsWhole ==
    ASSUME NEW s \in Scenarios, NEW d \in Maybe, NEW x \in Seq(Nat),
           Follows(s, x, d, Len(s.wire)), At(s, d, Len(s.wire)) = Len(s.wire)
    PROVE  x = Bytes(s.wire)
<1>1. s.wire \in Seq(Unit) /\ Len(s.wire) \in Nat
  BY ScenarioIs
<1>2. Part(s.wire, 0, Len(s.wire)) = s.wire
  BY ONLY <1>1, PartAll
<1>3. Fed(s, d, Len(s.wire)) /\ x \o Pend(d) = Bytes(s.wire)
  BY ONLY Follows(s, x, d, Len(s.wire)), At(s, d, Len(s.wire)) = Len(s.wire), <1>2, Zenon
    DEF Follows
<1>4. Pend(d) = <<>>
  <2>1. CASE d = None
    BY <2>1 DEF Pend
  <2>2. CASE d # None /\ s.coding = "br"
    BY <1>3, <2>2 DEF Pend, Fed, NewZ
  <2>3. CASE d # None /\ s.coding # "br"
    <3>1. Standing(s.wire, d.z) /\ d.z.at = Len(s.wire)
      BY <1>3, <2>3 DEF Fed, At
    <3> QED BY <2>3, <3>1 DEF Pend, Standing
  <2> QED BY <2>1, <2>2, <2>3
<1>5. x \o <<>> = x
  BY ConcatEmptySeq
<1> QED BY ONLY <1>3, <1>4, <1>5

LEMMA BeginsType ==
    ASSUME NEW p \in Seq(Nat), NEW b, Begins(p, b)
    PROVE  b \in Seq(Nat)
BY ConcatProperties DEF Begins

LEMMA BeginsIsPrefix ==
    ASSUME NEW p \in Seq(Nat), NEW b, Begins(p, b)
    PROVE  IsPrefix(p, b)
<1>1. PICK t \in Seq(Nat) : b = p \o t
  BY DEF Begins
<1>2. PICK n \in Nat, k \in Nat : n = Len(p) /\ k = Len(t)
  BY LenProperties
<1>3. b \in Seq(Nat) /\ Len(b) = n + k /\ \A i \in 1..n + k :
        b[i] = IF i <= n THEN p[i] ELSE t[i - n]
  BY ONLY <1>1, <1>2, p \in Seq(Nat), t \in Seq(Nat), ConcatProperties
<1>4. SubSeq(p, 1, n) = p
  BY ONLY <1>2, p \in Seq(Nat), SubSeqFull
<1>5. PICK u : u = SubSeq(b, 1, n)
  OBVIOUS
<1>6. u \in Seq(Nat) /\ Len(u) = n /\ \A i \in 1..n : u[i] = b[i]
  <2>1. Part(b, 0, n) \in Seq(Nat) /\ Len(Part(b, 0, n)) = n - 0
          /\ \A i \in 1..n - 0 : Part(b, 0, n)[i] = b[0 + i]
    <3>1. n \in 0..Len(b) /\ 0 \in 0..n
      BY ONLY <1>3, n \in Nat, k \in Nat
    <3> QED BY ONLY <1>3, <3>1, PartIs
  <2>2. u = Part(b, 0, n)
    BY <1>5, TakePart DEF Take
  <2>3. n - 0 = n /\ \A i \in 1..n : 0 + i = i
    OBVIOUS
  <2> QED BY ONLY <2>1, <2>2, <2>3
<1>7. u = p
  <2>1. Len(u) = Len(p) /\ \A i \in 1..Len(u) : u[i] = p[i]
    BY ONLY <1>2, <1>3, <1>6, n \in Nat, k \in Nat
  <2> QED BY ONLY <1>6, <2>1, p \in Seq(Nat), SeqEqual
<1>8. Len(p) <= Len(b)
  BY ONLY <1>2, <1>3, n \in Nat, k \in Nat
<1> QED BY ONLY <1>2, <1>4, <1>5, <1>7, <1>8 DEF IsPrefix

(* All the bytes so far: what was delivered before the response was drained,   *)
(* p, and what was made of the first n units since.                          *)
InLine(s, all, d, n) ==
    \E p \in Seq(Nat) : \E x \in Seq(Nat) :
       /\ all = p \o x /\ Follows(s, x, d, n)
       /\ p = <<>> \/ (n = 0 /\ Begins(p, Bytes(s.wire)))

(* Unless the response was spoiled, that is what was made of all k units read. *)
Lined(s, all, d, k, b) ==
    IF b THEN \E n \in 0..k : InLine(s, all, d, n) ELSE Follows(s, all, d, k)

LEMMA FollowsInLine ==
    ASSUME NEW s, NEW all \in Seq(Nat), NEW d, NEW n, Follows(s, all, d, n)
    PROVE  InLine(s, all, d, n)
<1>1. <<>> \in Seq(Nat) /\ <<>> \o all = all
  BY EmptySeq, ConcatEmptySeq
<1> QED BY ONLY <1>1, all \in Seq(Nat), Follows(s, all, d, n), Zenon DEF InLine

LEMMA InLineCarried ==
    ASSUME NEW s \in Scenarios, NEW n \in 0..Len(s.wire), NEW d \in Maybe, NEW all,
           InLine(s, all, d, n), NEW r \in MaybeDecoded, Carries(s, d, n, n, r)
    PROVE  InLine(s, all \o r.out, r.d, n)
<1>1. PICK p \in Seq(Nat) : \E x \in Seq(Nat) :
               /\ all = p \o x /\ Follows(s, x, d, n)
               /\ p = <<>> \/ (n = 0 /\ Begins(p, Bytes(s.wire)))
  BY DEF InLine
<1>2. PICK x \in Seq(Nat) : /\ all = p \o x /\ Follows(s, x, d, n)
                            /\ p = <<>> \/ (n = 0 /\ Begins(p, Bytes(s.wire)))
  BY <1>1
<1>3. n \in 0..n
  BY ScenarioIs
<1>4. Follows(s, x \o r.out, r.d, n)
  BY <1>2, <1>3, FollowsCarried
<1>5. PICK o \in Seq(Nat) : o = r.out
  BY DEF MaybeDecoded
<1>6. Associates(p, x, o) /\ Associates(x, o, <<>>)
  BY EmptySeq, Association, Zenon
<1>7. all \o r.out = p \o (x \o o) /\ x \o o \in Seq(Nat)
  BY ONLY <1>2, <1>5, <1>6, Zenon DEF Associates
<1> QED BY ONLY <1>2, <1>4, <1>5, <1>7, p \in Seq(Nat), Zenon DEF InLine

LEMMA LinedBegins ==
    ASSUME NEW s \in Scenarios, NEW k \in 0..Len(s.wire), NEW d \in Maybe, NEW all \in Seq(Nat),
           NEW b \in BOOLEAN, Lined(s, all, d, k, b)
    PROVE  Begins(all, Bytes(s.wire))
<1>1. Len(s.wire) \in Nat
  BY ScenarioIs
<1>2. CASE ~b
  <2>1. Follows(s, all, d, k)
    BY <1>2 DEF Lined
  <2> QED BY <2>1, FollowsBegins
<1>3. CASE b
  <2>1. PICK n \in 0..k : InLine(s, all, d, n)
    BY <1>3 DEF Lined
  <2>2. PICK p \in Seq(Nat) : \E x \in Seq(Nat) :
               /\ all = p \o x /\ Follows(s, x, d, n)
               /\ p = <<>> \/ (n = 0 /\ Begins(p, Bytes(s.wire)))
    BY <2>1 DEF InLine
  <2>3. PICK x \in Seq(Nat) : /\ all = p \o x /\ Follows(s, x, d, n)
                              /\ p = <<>> \/ (n = 0 /\ Begins(p, Bytes(s.wire)))
    BY <2>2
  <2>4. n \in 0..Len(s.wire)
    BY <1>1
  <2>5. Begins(x, Bytes(s.wire)) /\ (n = 0 => x = <<>>)
    BY <2>3, <2>4, FollowsBegins
  <2>6. <<>> \o x = x /\ p \o <<>> = p
    BY ConcatEmptySeq
  <2>7. CASE p = <<>>
    BY ONLY <2>3, <2>5, <2>6, <2>7
  <2>8. CASE p # <<>>
    BY ONLY <2>3, <2>5, <2>6, <2>8
  <2> QED BY <2>7, <2>8
<1> QED BY <1>2, <1>3

LEMMA LinedSpoils ==
    ASSUME NEW s \in Scenarios, NEW j \in 0..Len(s.wire), NEW k \in 0..j, NEW d,
           NEW all \in Seq(Nat),
           NEW b \in BOOLEAN, Lined(s, all, d, k, b)
    PROVE  \E n \in 0..j : InLine(s, all, d, n)
<1>1. Len(s.wire) \in Nat
  BY ScenarioIs
<1>2. \E n \in 0..k : InLine(s, all, d, n)
  <2>1. CASE ~b
    <3>1. InLine(s, all, d, k)
      BY <2>1, FollowsInLine DEF Lined
    <3>2. k \in 0..k
      BY <1>1
    <3> QED BY <3>1, <3>2
  <2>2. CASE b
    BY <2>2 DEF Lined
  <2> QED BY <2>1, <2>2
<1>3. \A n \in 0..k : n \in 0..j
  BY <1>1
<1> QED BY ONLY <1>2, <1>3, Zenon

(* After a drain: what was delivered began the body.                         *)
LEMMA LinedDrained ==
    ASSUME NEW s \in Scenarios, NEW k \in 0..Len(s.wire), NEW all \in Seq(Nat), NEW c \in Seq(Nat),
           Begins(all \o c, Bytes(s.wire))
    PROVE  \E n \in 0..k : InLine(s, all, None, n)
<1>1. s.wire \in Seq(Unit) /\ Len(s.wire) \in Nat
  BY ScenarioIs
<1>2. PICK t \in Seq(Nat) : Bytes(s.wire) = (all \o c) \o t
  BY DEF Begins
<1>3. Associates(all, c, t) /\ Associates(c, t, <<>>)
  BY EmptySeq, Association, Zenon
<1>4. Begins(all, Bytes(s.wire))
  BY ONLY <1>2, <1>3, Zenon DEF Begins, Associates
<1>5. Follows(s, <<>>, None, 0)
  <2>1. Part(s.wire, 0, 0) = <<>>
    <3>1. 0 \in 0..Len(s.wire) /\ 0 \in 0..0
      BY <1>1
    <3> QED BY ONLY <1>1, <3>1, PartEmpty, Zenon
  <2>2. At(s, None, 0) = 0 /\ Pend(None) = <<>> /\ Fed(s, None, 0)
    BY DEF At, Pend, Fed
  <2>3. <<>> \o <<>> = <<>>
    OBVIOUS
  <2> QED BY ONLY <2>1, <2>2, <2>3, BytesEmpty, Zenon DEF Follows
<1>6. all = all \o <<>> /\ <<>> \in Seq(Nat)
  BY ConcatEmptySeq, EmptySeq
<1>7. InLine(s, all, None, 0)
  BY ONLY <1>4, <1>5, <1>6, all \in Seq(Nat), Zenon DEF InLine
<1>8. 0 \in 0..k
  BY <1>1
<1> QED BY ONLY <1>7, <1>8, Zenon

(* The decoder as it is made.                                                *)
LEMMA LinedInitialised ==
    ASSUME NEW s \in Scenarios, s = scenario, NEW k \in 0..Len(s.wire),
           NEW d \in Maybe, d = decoder,
           NEW all \in Seq(Nat), NEW b \in BOOLEAN, Lined(s, all, d, k, b)
    PROVE  /\ Lined(s, all, Initialised, k, b)
           /\ Initialised # None \/ Plainly(s)
           /\ d # None \/ Plainly(s) => Initialised = d
<1>1. s.wire \in Seq(Unit) /\ Len(s.wire) \in Nat
  BY ScenarioIs
<1>2. PICK i : i = Initialised
  OBVIOUS
<1>3. i = IF d = None /\ ~Plainly(s) THEN NewDecoder ELSE d
  BY <1>2 DEF Initialised, Plainly
<1>4. CASE d = None /\ ~Plainly(s)
  <2>1. i = NewDecoder /\ i \in Decoder /\ i # None
    BY <1>3, <1>4, NewDecoderType, DecoderIsSome
  <2>2. /\ i.z = NewZ /\ i.kept = <<>>
        /\ i.state = IF s.coding = "gzip" THEN "first" ELSE "try"
    BY <2>1 DEF NewDecoder
  <2>3. ASSUME NEW n \in 0..Len(s.wire), NEW x, Follows(s, x, d, n) PROVE Follows(s, x, i, n)
    <3>1. n = 0 /\ At(s, d, n) = n /\ Pend(d) = <<>>
      BY <1>4, <2>3 DEF Follows, Fed, At, Pend
    <3>2. At(s, i, 0) = 0 /\ Pend(i) = <<>>
      BY <2>1, <2>2 DEF At, Pend, NewZ
    <3>3. Standing(s.wire, NewZ)
      <4>1. NewZ.at <= Len(s.wire) /\ ~(0 < NewZ.at) /\ NewZ.done = FALSE /\ NewZ.unused = <<>>
            /\ NewZ.pend = <<>> /\ NewZ \in ZState
        BY <1>1, NewZType DEF NewZ
      <4>2. NewZ.done = (0 < NewZ.at /\ NewZ.at = Len(s.wire))
        BY ONLY <4>1, Zenon
      <4> QED BY ONLY <4>1, <4>2, Zenon DEF Standing
    <3>4. NewZ.at = 0 /\ NewZ.tail = <<>> /\ NewZ.pend = <<>>
      BY DEF NewZ
    <3>5. Part(s.wire, 0, 0) = <<>>
      <4>1. 0 \in 0..Len(s.wire) /\ 0 \in 0..0
        BY <1>1
      <4> QED BY ONLY <1>1, <4>1, PartEmpty, Zenon
    <3>6. NewZ.at <= 0 /\ NewZ.tail = Part(s.wire, NewZ.at, 0)
      BY <3>4, <3>5
    <3>7. Fed(s, i, 0)
      BY <1>4, <2>1, <2>2, <3>3, <3>4, <3>6 DEF Fed
    <3> QED BY ONLY <2>3, <3>1, <3>2, <3>7, Zenon DEF Follows
  <2>4. Lined(s, all, i, k, b)
    <3>1. CASE ~b
      BY ONLY <2>3, <3>1, Lined(s, all, d, k, b), k \in 0..Len(s.wire), Zenon DEF Lined
    <3>2. CASE b
      <4>1. PICK n \in 0..k : InLine(s, all, d, n)
        BY <3>2 DEF Lined
      <4>2. n \in 0..Len(s.wire)
        BY <1>1
      <4>3. InLine(s, all, i, n)
        BY ONLY <2>3, <4>1, <4>2, Zenon DEF InLine
      <4> QED BY ONLY <3>2, <4>3, n \in 0..k, Zenon DEF Lined
    <3> QED BY <3>1, <3>2
  <2> QED BY <1>2, <1>4, <2>1, <2>4
<1>5. CASE ~(d = None /\ ~Plainly(s))
  <2>1. i = d
    BY <1>3, <1>5
  <2> QED BY <1>2, <1>5, <2>1
<1> QED BY <1>4, <1>5

(* What r, made by d, adds to all the bytes so far.                          *)
Grows(s, all, d, m, b, r) ==
    /\ r.ok /\ r \in MaybeDecoded
    /\ r.d = None => d = None
    /\ d = None => r.d = None
    /\ Lined(s, all \o r.out, r.d, m, b)

LEMMA LinedDecode ==
    ASSUME NEW s \in Scenarios, s = scenario, Decodable(s), NEW m \in 0..Len(s.wire),
           NEW k \in 0..m,
           NEW d \in Maybe, d # None \/ Plainly(s), NEW all \in Seq(Nat), NEW b \in BOOLEAN,
           Lined(s, all, d, k, b), b => k = m, NEW flush \in BOOLEAN, NEW max \in Amount \ {0}
    PROVE  LET r == Decode(d, Part(s.wire, k, m), flush, max)
           IN  /\ Grows(s, all, d, m, b, r)
               /\ ~b /\ (flush \/ max = None \/ Len(r.out) < max) => At(s, r.d, m) = m
<1> DEFINE r == Decode(d, Part(s.wire, k, m), flush, max)
<1>1. s.wire \in Seq(Unit) /\ Len(s.wire) \in Nat /\ k \in 0..Len(s.wire) /\ m \in 0..m
  BY ScenarioIs
<1>2. Part(s.wire, k, m) \in Seq(Unit)
  BY ONLY <1>1, m \in 0..Len(s.wire), k \in 0..m, PartIs, Zenon
<1>3. r \in MaybeDecoded
  BY <1>2, DecodeType
<1>4. CASE ~b
  <2>1. Follows(s, all, d, k)
    BY <1>4 DEF Lined
  <2>2. Fed(s, d, k)
    BY <2>1 DEF Follows
  <2>3. /\ Carries(s, d, k, m, r)
        /\ flush \/ max = None \/ Len(r.out) < max => At(s, r.d, m) = m
    BY <2>2, DecodeFollows
  <2> HIDE DEF r
  <2>4. Follows(s, all \o r.out, r.d, m)
    BY ONLY <1>3, <2>1, <2>3, s \in Scenarios, m \in 0..Len(s.wire), k \in 0..m, d \in Maybe,
            all \in Seq(Nat), FollowsCarried, Zenon
  <2>5. r.ok /\ (r.d = None => d = None) /\ (d = None => r.d = None)
    BY ONLY <2>3, Zenon DEF Carries
  <2>6. Grows(s, all, d, m, b, r)
    BY ONLY <1>3, <1>4, <2>4, <2>5, Zenon DEF Grows, Lined
  <2> QED BY <2>3, <2>6 DEF r
<1>5. CASE b
  <2>1. PICK n \in 0..k : InLine(s, all, d, n)
    BY <1>5 DEF Lined
  <2>2. n \in 0..Len(s.wire) /\ n \in 0..n /\ k = m
    BY <1>1, <1>5
  <2>3. Part(s.wire, k, m) = <<>> /\ Part(s.wire, n, n) = <<>>
    BY <1>1, <2>2, PartEmpty
  <2>4. Fed(s, d, n)
    BY <2>1 DEF InLine, Follows
  <2>5. LET x == Decode(d, Part(s.wire, n, n), flush, max) IN Carries(s, d, n, n, x)
    BY <2>2, <2>4, DecodeFollows
  <2>6. Carries(s, d, n, n, r)
    BY <2>3, <2>5
  <2> HIDE DEF r
  <2>7. InLine(s, all \o r.out, r.d, n)
    BY ONLY <1>3, <2>1, <2>2, <2>6, s \in Scenarios, d \in Maybe, InLineCarried, Zenon
  <2>8. r.ok /\ (r.d = None => d = None) /\ (d = None => r.d = None)
    BY ONLY <2>6, Zenon DEF Carries
  <2>9. n \in 0..m
    BY <2>2
  <2>10. Grows(s, all, d, m, b, r)
    BY ONLY <1>3, <1>5, <2>7, <2>8, <2>9, Zenon DEF Grows, Lined
  <2> QED BY <1>5, <2>10 DEF r
<1> QED BY <1>4, <1>5

LEMMA LinedTail ==
    ASSUME NEW s \in Scenarios, s = scenario, Decodable(s), NEW k \in 0..Len(s.wire),
           NEW d \in Maybe, NEW all \in Seq(Nat), NEW b \in BOOLEAN,
           Lined(s, all, d, k, b), NEW max \in Amount \ {0}
    PROVE  Grows(s, all, d, k, b, FromTail(d, max))
<1>1. s.wire \in Seq(Unit) /\ Len(s.wire) \in Nat /\ k \in 0..k /\ max \in Amount
  BY ScenarioIs
<1>2. PICK r : r = FromTail(d, max)
  OBVIOUS
<1>3. r \in MaybeDecoded
  BY <1>1, <1>2, FromTailType
<1>4. ASSUME NEW n \in 0..Len(s.wire), Fed(s, d, n) PROVE Carries(s, d, n, n, r)
  BY <1>2, <1>4, FromTailFollows
<1>5. ASSUME NEW n \in 0..Len(s.wire), Carries(s, d, n, n, r)
      PROVE  r.ok /\ (r.d = None => d = None) /\ (d = None => r.d = None)
  BY ONLY <1>5, Zenon DEF Carries
<1>6. CASE ~b
  <2>1. Follows(s, all, d, k)
    BY <1>6 DEF Lined
  <2>2. Carries(s, d, k, k, r)
    BY <1>4, <2>1 DEF Follows
  <2>3. Follows(s, all \o r.out, r.d, k)
    BY ONLY <1>1, <1>3, <2>1, <2>2, s \in Scenarios, k \in 0..Len(s.wire), d \in Maybe,
            all \in Seq(Nat), FollowsCarried, Zenon
  <2> QED BY ONLY <1>2, <1>3, <1>5, <1>6, <2>2, <2>3, k \in 0..Len(s.wire), Zenon DEF Grows, Lined
<1>7. CASE b
  <2>1. PICK n \in 0..k : InLine(s, all, d, n)
    BY <1>7 DEF Lined
  <2>2. n \in 0..Len(s.wire) /\ Fed(s, d, n)
    BY <1>1, <2>1 DEF InLine, Follows
  <2>3. Carries(s, d, n, n, r)
    BY <1>4, <2>2
  <2>4. InLine(s, all \o r.out, r.d, n)
    BY ONLY <1>3, <2>1, <2>2, <2>3, s \in Scenarios, d \in Maybe, InLineCarried, Zenon
  <2> QED BY ONLY <1>2, <1>3, <1>5, <1>7, <2>2, <2>3, <2>4, n \in 0..k, Zenon DEF Grows, Lined
<1> QED BY <1>6, <1>7

(* A decoder without a tail has decoded all it was given.                    *)
LEMMA WithoutTail ==
    ASSUME NEW s \in Scenarios, s = scenario, NEW n \in 0..Len(s.wire),
           NEW d \in Maybe, Fed(s, d, n)
    PROVE  /\ ~HasTail(d) => At(s, d, n) = n
           /\ At(s, d, n) = n => ~HasTail(d)
<1>1. s.wire \in Seq(Unit) /\ Len(s.wire) \in Nat /\ n \in 0..n /\ n \in 0..Len(s.wire)
      /\ s.coding \in Codings
  BY ScenarioIs
<1>2. CASE d = None \/ s.coding = "br"
  <2>1. At(s, d, n) = n
    BY <1>2 DEF At
  <2>2. ~HasTail(d)
    BY <1>2 DEF HasTail
  <2> QED BY <2>1, <2>2
<1>3. CASE d # None /\ s.coding # "br"
  <2>1. PICK a : a = d.z.at
    OBVIOUS
  <2>2. /\ Standing(s.wire, d.z) /\ a <= n /\ d.z.tail = Part(s.wire, a, n) /\ ~Plainly(s)
        /\ s.coding = "gzip" => d.kept = d.z.tail
        /\ s.coding = "deflate" => d.state = "settled" \/ (d.state = "try" /\ d.z.tail = <<>>)
    BY <1>3, <2>1 DEF Fed
  <2>3. a \in 0..n
    BY <2>1, <2>2 DEF Standing, ZState
  <2>4. (a = n => Part(s.wire, a, n) = <<>>) /\ (Part(s.wire, a, n) = <<>> => a = n)
    BY ONLY <1>1, <2>3, PartEmpty, Zenon
  <2>5. At(s, d, n) = a
    BY <1>3, <2>1 DEF At
  <2>6. s.coding \in {"gzip", "deflate"}
    BY <1>1, <1>3, <2>2, ScenarioIs DEF Codings
  <2>7. (d.z.tail = <<>> => ~HasTail(d)) /\ (~HasTail(d) => d.z.tail = <<>>)
    BY <1>3, <2>2, <2>6 DEF HasTail
  <2> QED BY ONLY <2>2, <2>4, <2>5, <2>7, Zenon
<1> QED BY <1>2, <1>3

(***************************************************************************)
(* The order of the bytes, as an invariant.  For a response that is decoded   *)
(* it needs that the units are one member (or brotli's), and that a chunked   *)
(* one is either streamed or read, but not both: stream() does not look at    *)
(* what read() left over.                                                   *)
(***************************************************************************)
OnlyStreamed(s) == s.framing = "chunked" /\ ~Plainly(s) /\ Streamed(s)
Ordinary(s) == Decodable(s) /\ (OnlyStreamed(s) => \A c \in s.calls : c[1] = "stream")

(* A response that breaks off is one where the reader can tell.              *)
Noticed(s) ==
    s.sent < Len(s.wire) =>
       /\ s.framing # "close"
       /\ s.framing = "length" => <<"read1", None>> \notin s.calls

(* read(amt) without decoding returns what one read of the response found.    *)
Fills(s) == s.decode \/ s.sent = Len(s.wire)

Out == delivered \o Content(buffer)

Order == Lined(scenario, Out, decoder, next, spoiled)

(* What may be in progress when.                                            *)
Calling ==
    /\ spoiled /\ fpopen => call.m = "drain"
    /\ call.m = "drain" => spoiled
    /\ iter.on => Streamed(scenario)
    /\ iter.on /\ iter.chunks => call = Idle
    /\ call.m = "read" /\ call.amt = None => call.first
    /\ call.m = "read" /\ call.cache => call.amt = None
    /\ call.m = "read1" => <<"read1", call.amt>> \in scenario.calls
    /\ call.m = "read1" /\ Plainly(scenario) => call.first
    /\ OnlyStreamed(scenario) => call.m \in {"idle", "drain"}

(* What the decoder and the buffer hold when.                                *)
Holding ==
    /\ ~Plainly(scenario) /\ (call.m = "read" \/ (iter.on /\ iter.chunks)) => decoder # None
    /\ ~scenario.decode => buffer.size = 0
    /\ Plainly(scenario) /\ buffer.size > 0 => spoiled \/ (call.m = "read" /\ Arrived = 0)
    /\ OnlyStreamed(scenario) => buffer.size = 0

(* Until anything but data has read, nothing was returned or is held back.    *)
Unread == ~uncached => buffer.size = 0 /\ ~HasTail(decoder) /\ (delivered = <<>> \/ ~fpopen)

(* What was read to its end was read as a whole.                             *)
Reached ==
    /\ ~fpopen /\ ~spoiled => next = Len(wire)
    /\ Ended => delivered = Body
    /\ last = "short" /\ ~spoiled /\ Fills(scenario) => delivered = Body
    /\ cached # None => cached = Body
    /\ OnlyStreamed(scenario) /\ ~fpopen /\ ~spoiled => delivered = Body

Sound ==
    Order /\ Calling /\ Holding /\ Unread /\ (Noticed(scenario) => Reached)

LEMMA OrderHolds ==
    ASSUME NEW s, NEW all, NEW d, NEW k, NEW b, scenario' = s, Out' = all, decoder' = d,
           next' = k, spoiled' = b, Lined(s, all, d, k, b)
    PROVE  Order'
BY DEF Order

LEMMA OrderStays ==
    ASSUME Order, scenario' = scenario, delivered' = delivered, buffer' = buffer,
           decoder' = decoder, next' = next, spoiled' = spoiled
    PROVE  Order'
BY DEF Order, Out

LEMMA CallingIdle ==
    ASSUME Calling, call' = Idle, iter' \in {iter, NotIterating}, scenario' = scenario,
           spoiled' => ~fpopen'
    PROVE  Calling'
BY DEF Calling, Idle, NotIterating

LEMMA HoldingIdle ==
    ASSUME call' = Idle, iter'.on => ~iter'.chunks, scenario' = scenario,
           ~scenario.decode => buffer'.size = 0,
           Plainly(scenario) /\ buffer'.size > 0 => spoiled',
           OnlyStreamed(scenario) => buffer'.size = 0
    PROVE  Holding'
BY DEF Holding, Idle

(* The state, in constants.                                                  *)
LEMMA StateIs ==
    ASSUME Types
    PROVE  /\ scenario \in Scenarios /\ decoder \in Maybe /\ spoiled \in BOOLEAN
           /\ IsBuffer(buffer) /\ buffer.size \in Nat /\ Content(buffer) \in Seq(Nat)
           /\ delivered \in Seq(Nat) /\ Out \in Seq(Nat)
           /\ next \in 0..Len(scenario.wire) /\ fpopen \in BOOLEAN
           /\ buffer.size = 0 => Content(buffer) = <<>> /\ Out = delivered
<1>1. TypesOfNetwork /\ TypesOfReading /\ TypesOfCalls
  BY DEF Types
<1>2. PICK b, dl, c : b = buffer /\ dl = delivered /\ c = Content(b)
  OBVIOUS
<1>3. IsBuffer(b) /\ dl \in Seq(Nat) /\ decoder \in Maybe /\ spoiled \in BOOLEAN
  BY <1>1, <1>2 DEF TypesOfReading, TypesOfCalls
<1>4. b.size \in Nat /\ c \in Seq(Nat) /\ b.size = Len(c)
  BY <1>2, <1>3, ContentType DEF IsBuffer
<1>5. dl \o c \in Seq(Nat)
  BY ONLY <1>3, <1>4, ConcatProperties
<1>6. b.size = 0 => c = <<>>
  BY <1>4, EmptySeq
<1>7. dl \o <<>> = dl
  BY ONLY <1>3, ConcatEmptySeq
<1>8. scenario \in Scenarios /\ fpopen \in BOOLEAN /\ next \in 0..Len(scenario.wire)
  BY <1>1, WireType DEF TypesOfNetwork, wire
<1> QED BY ONLY <1>2, <1>3, <1>4, <1>5, <1>6, <1>7, <1>8, Zenon DEF Out

LEMMA StateAfter ==
    ASSUME Types'
    PROVE  /\ IsBuffer(buffer') /\ buffer'.size \in Nat /\ Content(buffer') \in Seq(Nat)
           /\ delivered' \in Seq(Nat)
           /\ buffer'.size = 0 => Content(buffer') = <<>> /\ Out' = delivered'
<1>1. TypesOfReading' /\ TypesOfCalls'
  BY DEF Types
<1>2. PICK b, dl, c : b = buffer' /\ dl = delivered' /\ c = Content(b)
  OBVIOUS
<1>3. IsBuffer(b) /\ dl \in Seq(Nat)
  BY <1>1, <1>2 DEF TypesOfReading, TypesOfCalls
<1>4. b.size \in Nat /\ c \in Seq(Nat) /\ b.size = Len(c)
  BY <1>2, <1>3, ContentType DEF IsBuffer
<1>6. b.size = 0 => c = <<>>
  BY <1>4, EmptySeq
<1>7. dl \o <<>> = dl
  BY ONLY <1>3, ConcatEmptySeq
<1> QED BY ONLY <1>2, <1>3, <1>4, <1>6, <1>7, Zenon DEF Out

(* What a raw read brings to the response.                                   *)
Arrives(o) ==
    /\ o.data = Part(scenario.wire, next, next')
    /\ next' \in 0..Len(scenario.wire) /\ next \in 0..next'
    /\ Len(o.data) = next' - next /\ o.data \in Seq(Unit)
    /\ o.data = <<>> => next' = next
    /\ fpopen' => fpopen
    /\ ~fpopen => o.data = <<>>
    /\ o.data = <<>> => ~fpopen'
    /\ o.err # "none" => o.data = <<>>

LEMMA ClosedReads ==
    ASSUME TypesOfNetwork, ~fpopen, NEW amt, NEW one \in BOOLEAN, NEW o \in RawReads(amt, one)
    PROVE  o.data = <<>>
<1>1. PICK p \in IF one THEN FpRead1(amt) ELSE FpRead(amt) : o = Settle(p, amt, one)
  BY DEF RawReads
<1>2. p = Got(0, fpopen) \/ p = Got(0, FALSE)
  BY <1>1 DEF FpRead1, FpRead
<1>3. p.data = <<>>
  <2>1. Arrived \in Nat /\ 0 <= Arrived /\ fpopen \in BOOLEAN
    BY WireType DEF TypesOfNetwork
  <2>2. Got(0, FALSE).data = <<>>
    BY <2>1, GotIs
  <2>3. fpopen = FALSE
    BY <2>1
  <2> QED BY <1>2, <2>2, <2>3
<1>4. o = p \/ o.data = <<>> \/ o.data = p.data
  <2>1. Fails("incomplete").data = <<>>
    BY DEF Fails
  <2>2. [p EXCEPT !.open = @ /\ ~(amt # None /\ amt # 0 /\ p.data = <<>>)
                             /\ ~(one /\ ((amt # 0 /\ p.data = <<>>)
                                     \/ left = Len(p.data)))].data = p.data
    <3>1. DOMAIN Got(0, FALSE) = {"data", "open", "mid", "err"}
            /\ DOMAIN Got(0, fpopen) = {"data", "open", "mid", "err"}
      BY DEF Got
    <3> QED BY <1>2, <3>1
  <2> QED BY <1>1, <2>1, <2>2, Zenon DEF Settle
<1> QED BY <1>3, <1>4

LEMMA RawArrives ==
    ASSUME Types, NEW amt \in Amount \ {0}, NEW one \in BOOLEAN,
           NEW o \in RawReads(amt, one), Receive(o)
    PROVE  Arrives(o)
<1>1. TypesOfNetwork
  BY DEF Types
<1>2. PICK w, k, n : w = scenario.wire /\ k = next /\ n = next'
  OBVIOUS
<1>3. /\ w \in Seq(Unit) /\ Len(w) \in Nat /\ k \in Nat /\ Arrived \in Nat
      /\ k + Arrived = scenario.sent /\ scenario.sent \in 0..Len(w) /\ fpopen \in BOOLEAN
  BY <1>1, <1>2, WireType DEF wire, TypesOfNetwork
<1>4. /\ Reads(o, amt)
      /\ o.err = "none" /\ o.data = <<>> => ~o.open
      /\ o.err = "none" /\ o.open => fpopen
  BY <1>1, RawReadIs
<1>5. /\ o.data \in Seq(Unit) /\ Len(o.data) <= Arrived /\ (o.err # "none" => o.data = <<>>)
      /\ o.data = SubSeq(w, k + 1, k + Len(o.data)) /\ o.open \in BOOLEAN
  BY <1>2, <1>4 DEF Reads, Outcome, wire
<1>6. n = k + Len(o.data) /\ fpopen' = (o.open /\ o.err = "none")
  BY <1>2 DEF Receive, Caught
<1>7. Len(o.data) \in Nat /\ (o.data = <<>> => Len(o.data) = 0)
  BY <1>5, LenProperties, EmptySeq
<1>8. n \in 0..Len(w) /\ k \in 0..n /\ Len(o.data) = n - k /\ (o.data = <<>> => n = k)
  <2>1. PICK l, a, e, len : l = Len(o.data) /\ a = Arrived /\ e = scenario.sent /\ len = Len(w)
    OBVIOUS
  <2>2. l \in Nat /\ a \in Nat /\ k \in Nat /\ l <= a /\ k + a = e /\ e \in 0..len /\ len \in Nat
        /\ n = k + l
    BY ONLY <1>3, <1>5, <1>6, <1>7, <2>1
  <2>3. n \in 0..len /\ k \in 0..n /\ l = n - k /\ (l = 0 => n = k)
    BY ONLY <2>2
  <2> QED BY ONLY <1>7, <2>1, <2>3
<1>9. o.data = Part(w, k, n)
  BY <1>5, <1>6 DEF Part
<1>11. ~fpopen => o.data = <<>>
  BY <1>1, ClosedReads
<1>12. /\ fpopen' => fpopen
       /\ o.data = <<>> => ~fpopen'
       /\ o.err # "none" => o.data = <<>>
  <2>1. o.err = "none" /\ o.open => fpopen
    BY <1>4
  <2>2. fpopen' => o.open /\ o.err = "none"
    BY ONLY <1>6, Zenon
  <2>3. o.err = "none" /\ o.data = <<>> => ~o.open
    BY <1>4
  <2> QED BY ONLY <1>5, <2>1, <2>2, <2>3, Zenon
<1>14. /\ o.data = Part(scenario.wire, next, next') /\ next' \in 0..Len(scenario.wire)
       /\ next \in 0..next' /\ Len(o.data) = next' - next /\ (o.data = <<>> => next' = next)
  BY ONLY <1>2, <1>8, <1>9
<1> QED BY ONLY <1>5, <1>11, <1>12, <1>14, Zenon DEF Arrives

(* A spoiled response has nothing more to read.                              *)
LEMMA SpoiledReads ==
    ASSUME Calling, call.m # "drain", NEW o, Arrives(o)
    PROVE  /\ spoiled => next = next' /\ o.data = <<>> /\ ~fpopen'
           /\ o.data # <<>> => fpopen /\ ~spoiled
<1>1. spoiled => ~fpopen
  BY DEF Calling
<1>2. (o.data = <<>> => next' = next) /\ (~fpopen => o.data = <<>>) /\ (o.data = <<>> => ~fpopen')
  BY DEF Arrives
<1> QED BY ONLY <1>1, <1>2, Zenon

(* A response that is found to be at its end, and that breaks off only where   *)
(* the reader can tell, was read as a whole.                                  *)
LEMMA RawEnds ==
    ASSUME Types, Reached, Noticed(scenario), ~spoiled, NEW amt \in Amount \ {0},
           NEW one \in BOOLEAN, one /\ amt = None => <<"read1", None>> \in scenario.calls,
           NEW o \in RawReads(amt, one), Receive(o), o.err = "none", ~fpopen'
    PROVE  next' = Len(scenario.wire)
<1>1. TypesOfNetwork
  BY DEF Types
<1>2. /\ next \in Nat /\ Arrived \in Nat /\ next + Arrived = scenario.sent
      /\ scenario.sent \in 0..Len(wire) /\ Len(wire) \in Nat
  BY <1>1, WireType
<1>3. next' = next + Len(o.data) /\ fpopen' = (o.open /\ o.err = "none")
  BY DEF Receive, Caught
<1>4. CASE ~fpopen
  <2>1. o.data = <<>>
    BY <1>1, <1>4, ClosedReads
  <2>2. next = Len(wire)
    BY <1>4 DEF Reached
  <2>3. Len(o.data) = 0
    BY <2>1, EmptySeq
  <2> QED BY <1>2, <1>3, <2>2, <2>3 DEF wire
<1>5. CASE fpopen
  <2>1. ~o.open
    BY ONLY <1>3, o.err = "none", ~fpopen', Zenon
  <2>2. AllSent(o) \/ (one /\ amt = None /\ NoneLeft(o))
    BY <1>1, <1>5, <2>1, RawReadIs
  <2>3. CASE AllSent(o) /\ scenario.framing # "close"
    BY <1>1, <1>3, <2>3, WholeIs DEF wire
  <2>4. CASE AllSent(o) /\ scenario.framing = "close"
    <3>1. ~(scenario.sent < Len(wire))
      BY <2>4 DEF Noticed, wire
    <3>2. Len(o.data) = Arrived
      BY <2>4 DEF AllSent
    <3> QED BY <1>2, <1>3, <3>1, <3>2 DEF wire
  <2>5. CASE one /\ amt = None /\ NoneLeft(o)
    <3>1. scenario.framing = "length" /\ o.data = <<>> /\ Arrived = 0
      BY <2>5 DEF NoneLeft
    <3>2. ~(scenario.sent < Len(wire))
      BY <2>5, <3>1 DEF Noticed, wire
    <3>3. Len(o.data) = 0
      BY <3>1, EmptySeq
    <3> QED BY <1>2, <1>3, <3>1, <3>2, <3>3 DEF wire
  <2> QED BY <2>2, <2>3, <2>4, <2>5
<1> QED BY <1>4, <1>5

(* All the bytes of the units are there when all the units are decoded.       *)
LEMMA AllIsBody ==
    ASSUME NEW s \in Scenarios, NEW d \in Maybe, NEW all \in Seq(Nat), NEW k, k = Len(s.wire),
           Lined(s, all, d, k, FALSE), At(s, d, k) = k
    PROVE  all = Bytes(s.wire)
BY FollowsWhole DEF Lined

LEMMA LinedFed ==
    ASSUME NEW s \in Scenarios, NEW d \in Maybe, NEW all, NEW k \in 0..Len(s.wire),
           NEW b \in BOOLEAN,
           Lined(s, all, d, k, b)
    PROVE  /\ ~b => Fed(s, d, k)
           /\ Plainly(s) => d = None
<1>1. ASSUME NEW n, NEW x, Follows(s, x, d, n) PROVE Fed(s, d, n) /\ (Plainly(s) => d = None)
  BY <1>1 DEF Follows, Fed
<1>2. CASE ~b
  BY <1>1, <1>2 DEF Lined
<1>3. CASE b
  BY <1>1, <1>3 DEF Lined, InLine
<1> QED BY <1>2, <1>3

(* The decoder of the next state.                                            *)
LEMMA TailAfter ==
    ASSUME NEW d, decoder' = d, scenario' = scenario, ~HasTail(d)
    PROVE  ~HasTail(decoder)'
BY DEF HasTail

LEMMA InitialisedTail ==
    ASSUME ~HasTail(decoder) PROVE ~HasTail(Initialised)
<1>1. ~HasTail(NewDecoder)
  BY DEF HasTail, NewDecoder
<1> QED BY <1>1 DEF Initialised

(* An error.                                                                *)
LEMMA ErrorSound ==
    ASSUME Types, Sound, scenario' = scenario, decoder' = decoder, buffer' = buffer,
           cached' = cached, uncached => uncached', delivered' = delivered, spoiled' = TRUE,
           ~fpopen', call' = Idle, iter' = NotIterating,
           next' \in 0..Len(scenario.wire), next \in 0..next'
    PROVE  Sound'
<1>1. Order /\ Holding /\ Unread /\ Calling
  BY DEF Sound
<1>2. scenario \in Scenarios /\ Out \in Seq(Nat) /\ spoiled \in BOOLEAN
  BY StateIs
<1>3. Order'
  <2>1. PICK s, k, j, d, all, b : s = scenario /\ k = next /\ j = next' /\ d = decoder
          /\ all = Out /\ b = spoiled
    OBVIOUS
  <2>2. Lined(s, all, d, k, b)
    BY <1>1, <2>1 DEF Order
  <2>3. \E n \in 0..j : InLine(s, all, d, n)
    <3>1. s \in Scenarios /\ j \in 0..Len(s.wire) /\ k \in 0..j /\ all \in Seq(Nat) /\ b \in BOOLEAN
      BY ONLY <1>2, <2>1, next' \in 0..Len(scenario.wire), next \in 0..next'
    <3> QED BY ONLY <2>2, <3>1, LinedSpoils
  <2>4. Out' = Out
    BY DEF Out
  <2> QED BY <2>1, <2>3, <2>4 DEF Order, Lined
<1>4. Calling'
  BY <1>1, CallingIdle
<1>5. Holding'
  <2>1. ~iter'.on
    BY DEF NotIterating
  <2>2. (~scenario.decode => buffer.size = 0) /\ (OnlyStreamed(scenario) => buffer.size = 0)
    BY <1>1 DEF Holding
  <2> QED BY <2>1, <2>2, HoldingIdle
<1>6. Unread'
  BY <1>1 DEF Unread, HasTail
<1>7. Noticed(scenario) => Reached'
  <2> SUFFICES ASSUME Noticed(scenario) PROVE Reached'
    OBVIOUS
  <2>1. cached # None => cached = Body
    BY DEF Sound, Reached
  <2> QED BY <2>1 DEF Reached, Ended, Body, wire
<1> QED BY <1>3, <1>4, <1>5, <1>6, <1>7 DEF Sound

(* Taking bytes from the buffer, and putting some there, keeps their order.   *)
LEMMA OutReturned ==
    ASSUME NEW dl \in Seq(Nat), NEW c, NEW out \in Seq(Nat), NEW rest \in Seq(Nat), c = out \o rest
    PROVE  (dl \o out) \o rest = dl \o c
<1>1. Associates(dl, out, rest)
  BY Association, Zenon
<1> QED BY ONLY <1>1, c = out \o rest, Zenon DEF Associates

LEMMA OutPut ==
    ASSUME NEW dl \in Seq(Nat), NEW b, IsBuffer(b), NEW out \in Seq(Nat)
    PROVE  dl \o Content(Put(b, out)) = (dl \o Content(b)) \o out
<1>1. Content(b) \in Seq(Nat) /\ Content(Put(b, out)) = Content(b) \o out
  BY ContentType, PutIs
<1>2. Associates(dl, Content(b), out)
  BY ONLY <1>1, dl \in Seq(Nat), out \in Seq(Nat), Association, Zenon
<1> QED BY ONLY <1>1, <1>2, Zenon DEF Associates

(* What the call's reader is given from b.                                    *)
Gives(b, amt, g) ==
    /\ g.ok /\ IsBuffer(g.b) /\ g.out \in Seq(Nat)
    /\ Content(b) = g.out \o Content(g.b)
    /\ b.size = Len(g.out) + g.b.size
    /\ Len(g.out) = Limit(amt, b.size)
    /\ g.out = <<>> => amt = 0 \/ b.size = 0

LEMMA SizeIs ==
    ASSUME NEW b, IsBuffer(b)
    PROVE  /\ b.size \in Nat /\ b.size = Len(Content(b)) /\ Content(b) \in Seq(Nat)
           /\ b.size = 0 => Content(b) = <<>>
           /\ b.size # 0 => b.chunks # <<>>
<1>1. b.size \in Nat /\ b.size = Len(Content(b)) /\ Content(b) \in Seq(Nat)
  BY ContentType DEF IsBuffer
<1>2. b.chunks = <<>> => Content(b) = <<>>
  BY FlattenEmpty DEF Content
<1> QED BY <1>1, <1>2, EmptySeq

LEMMA GivesTaken ==
    ASSUME NEW b, IsBuffer(b), NEW amt \in Amount, amt = None \/ amt = 0 \/ b.chunks # <<>>
    PROVE  Gives(b, amt, Taken(b, amt))
<1>1. PICK g : g = Taken(b, amt)
  OBVIOUS
<1>2. /\ g.ok /\ IsBuffer(g.b) /\ g.out \in Seq(Nat)
      /\ Content(b) = g.out \o Content(g.b) /\ Len(g.out) = Limit(amt, b.size)
  <2>1. CASE amt = None
    <3>1. g = GetAll(b)
      BY <1>1, <2>1 DEF Taken
    <3>2. /\ IsBuffer(g.b) /\ Content(g.b) = <<>> /\ g.b.size = 0
          /\ g.out \in Seq(Nat) /\ Len(g.out) = b.size /\ g.out = Content(b) /\ g.ok = TRUE
      BY <3>1, GetAllIs
    <3>3. g.out \o <<>> = g.out
      BY <3>2, ConcatEmptySeq
    <3>4. Limit(amt, b.size) = b.size
      BY <2>1 DEF Limit
    <3> QED BY ONLY <3>2, <3>3, <3>4
  <2>2. CASE amt # None
    <3>1. g = Get(b, amt) /\ amt \in Nat
      BY <1>1, <2>2 DEF Taken, Amount
    <3>2. /\ IsBuffer(g.b)
          /\ g.out \in Seq(Nat) /\ Len(g.out) = Smaller(amt, b.size)
          /\ Content(b) = g.out \o Content(g.b)
          /\ g.ok = (amt = 0 \/ b.chunks # <<>>)
      BY <3>1, GetIs
    <3>3. Limit(amt, b.size) = Smaller(amt, b.size)
      BY <2>2 DEF Limit
    <3>4. g.ok
      BY ONLY <3>2, <2>2, amt = None \/ amt = 0 \/ b.chunks # <<>>, Zenon
    <3> QED BY ONLY <3>2, <3>3, <3>4
  <2> QED BY <2>1, <2>2
<1>3. PICK out, rest, c : out = g.out /\ rest = Content(g.b) /\ c = Content(b)
  OBVIOUS
<1>4. /\ g.b.size = Len(rest) /\ rest \in Seq(Nat) /\ g.b.size \in Nat
      /\ b.size = Len(c) /\ c \in Seq(Nat) /\ b.size \in Nat
  BY <1>2, <1>3, SizeIs
<1>5. out \in Seq(Nat) /\ c = out \o rest
  BY <1>2, <1>3
<1>6. Len(c) = Len(out) + Len(rest)
  BY ONLY <1>4, <1>5, ConcatProperties
<1>7. out = <<>> => amt = 0 \/ b.size = 0
  <2> SUFFICES ASSUME out = <<>> PROVE amt = 0 \/ b.size = 0
    OBVIOUS
  <2>1. Limit(amt, b.size) = 0
    BY <1>2, <1>3, EmptySeq
  <2> QED BY <1>4, <2>1 DEF Limit, Smaller
<1> QED BY ONLY <1>1, <1>2, <1>3, <1>4, <1>6, <1>7 DEF Gives

LEMMA BufferedIs ==
    ASSUME delivered \in Seq(Nat), NEW b, NEW m, NEW amt, NEW g, Gives(b, amt, g),
           ReturnsBuffered(m, amt, g)
    PROVE  /\ Out' = delivered \o Content(b)
           /\ buffer' = g.b /\ delivered' = delivered \o g.out
           /\ call' = Idle /\ iter' = iter /\ spoiled' = spoiled
           /\ last' = "end" => amt # 0 /\ (g.out = <<>> \/ (m = "read" /\ amt = None))
           /\ last' = "short" => m = "read" /\ amt # 0 /\ amt # None /\ Len(g.out) < amt
<1>1. g.ok /\ IsBuffer(g.b) /\ g.out \in Seq(Nat) /\ Content(b) = g.out \o Content(g.b)
  BY DEF Gives
<1>2. Returns(m, amt, g.out) /\ buffer' = g.b
  BY <1>1 DEF ReturnsBuffered
<1>3. /\ delivered' = delivered \o g.out
      /\ call' = Idle /\ iter' = iter /\ spoiled' = spoiled
      /\ last' = "end" => amt # 0 /\ (g.out = <<>> \/ (m = "read" /\ amt = None))
      /\ last' = "short" => m = "read" /\ amt # 0 /\ amt # None /\ Len(g.out) < amt
  BY <1>2 DEF Returns
<1>4. Content(g.b) \in Seq(Nat)
  BY <1>1, SizeIs
<1>5. PICK dl, c, out, rest : dl = delivered /\ c = Content(b) /\ out = g.out /\ rest = Content(g.b)
  OBVIOUS
<1>6. (dl \o out) \o rest = dl \o c
  BY ONLY <1>1, <1>4, <1>5, delivered \in Seq(Nat), OutReturned
<1>7. Out' = delivered \o Content(b)
  BY ONLY <1>2, <1>3, <1>5, <1>6, Zenon DEF Out
<1> QED BY ONLY <1>2, <1>3, <1>7

(* The buffer with what came from the tail of the decoder.                    *)
LEMMA RefilledIs ==
    ASSUME Types, NEW max \in Amount, NEW d \in Maybe, ~HasTail(decoder) => ~HasTail(d),
           HasTail(decoder) => d = decoder
    PROVE  LET r == FromTail(d, max)
               b == Refilled(r)
           IN  /\ IsBuffer(b) /\ delivered \o Content(b) = Out \o r.out
               /\ r \in MaybeDecoded
               /\ ~HasTail(decoder) => b = buffer /\ r.d = d /\ r.out = <<>> /\ r.ok
<1>1. PICK r, b : r = FromTail(d, max) /\ b = Refilled(r)
  OBVIOUS
<1>2. /\ r \in MaybeDecoded
      /\ ~HasTail(d) => r = [d |-> d, out |-> <<>>, ok |-> TRUE]
  BY <1>1, FromTailType
<1>3. IsBuffer(buffer) /\ delivered \in Seq(Nat) /\ Out \in Seq(Nat)
  BY StateIs
<1>4. CASE HasTail(decoder)
  <2>1. b = Put(buffer, r.out) /\ r.out \in Seq(Nat)
    BY <1>1, <1>2, <1>4 DEF Refilled, MaybeDecoded
  <2>2. IsBuffer(b)
    BY <1>3, <2>1, PutIs
  <2>3. delivered \o Content(b) = Out \o r.out
    <3>1. PICK dl, c, out : dl = delivered /\ c = buffer /\ out = r.out
      OBVIOUS
    <3>2. dl \o Content(Put(c, out)) = (dl \o Content(c)) \o out
      BY ONLY <1>3, <2>1, <3>1, OutPut
    <3> QED BY ONLY <2>1, <3>1, <3>2, Zenon DEF Out
  <2> QED BY ONLY <1>1, <1>2, <1>4, <2>2, <2>3, Zenon
<1>5. CASE ~HasTail(decoder)
  <2>1. b = buffer /\ r.out = <<>> /\ r.d = d /\ r.ok
    BY <1>1, <1>2, <1>5 DEF Refilled
  <2>2. Out \o <<>> = Out
    BY <1>3, ConcatEmptySeq
  <2>3. delivered \o Content(b) = Out \o r.out
    BY ONLY <2>1, <2>2, Zenon DEF Out
  <2> QED BY ONLY <1>1, <1>2, <1>3, <1>5, <2>1, <2>3, Zenon
<1> QED BY <1>4, <1>5

(* What a step that ends a call, or that does not go to the network, keeps of   *)
(* the last conjunct.                                                        *)
LEMMA ReachedHolds ==
    ASSUME ~OnlyStreamed(scenario), scenario' = scenario,
           ~fpopen' /\ ~spoiled' => next' = Len(scenario.wire),
           last' = "end" /\ call' = Idle /\ ~spoiled' => delivered' = Body,
           last' = "short" /\ ~spoiled' /\ Fills(scenario) => delivered' = Body,
           cached' # None => cached' = Body
    PROVE  Reached'
BY DEF Reached, Ended, Body, wire

LEMMA OrderReturned ==
    ASSUME scenario' = scenario, NEW all, NEW d, Lined(scenario, all, d, next', spoiled'),
           Out' = all, decoder' = d
    PROVE  Order'
BY DEF Order

(* A call begins: it finds Initialised, which is what the decoder will be.    *)
LEMMA InitialisedIs ==
    ASSUME Types, Order
    PROVE  /\ Initialised \in Maybe
           /\ Lined(scenario, Out, Initialised, next, spoiled)
           /\ Initialised # None \/ Plainly(scenario)
           /\ Plainly(scenario) => decoder = None /\ Initialised = None
           /\ ~HasTail(decoder) => ~HasTail(Initialised)
           /\ HasTail(decoder) => Initialised = decoder
<1>1. /\ scenario \in Scenarios /\ decoder \in Maybe /\ spoiled \in BOOLEAN
      /\ Out \in Seq(Nat) /\ next \in 0..Len(scenario.wire)
  BY StateIs
<1>2. PICK s, d, all, k, b : s = scenario /\ d = decoder /\ all = Out /\ k = next /\ b = spoiled
  OBVIOUS
<1>3. s \in Scenarios /\ d \in Maybe /\ b \in BOOLEAN /\ all \in Seq(Nat) /\ k \in 0..Len(s.wire)
  BY ONLY <1>1, <1>2
<1>4. Lined(s, all, d, k, b)
  BY <1>2 DEF Order
<1>5. /\ Lined(s, all, Initialised, k, b)
      /\ Initialised # None \/ Plainly(s)
      /\ d # None \/ Plainly(s) => Initialised = d
  BY ONLY <1>2, <1>3, <1>4, LinedInitialised
<1>6. Plainly(s) => d = None
  BY ONLY <1>3, <1>4, LinedFed
<1>7. Initialised \in Maybe
  BY <1>1, InitialisedType
<1>8. HasTail(decoder) => decoder # None
  BY DEF HasTail
<1> QED BY <1>2, <1>5, <1>6, <1>7, <1>8, InitialisedTail

LEMMA IdleSpoiled ==
    ASSUME Types, Calling, call.m # "drain"
    PROVE  spoiled => ~fpopen
BY DEF Calling

(* A read begins, and returns what is there or goes on.                       *)
ReadCalled(amt, cache) == [m |-> "read", amt |-> amt, cache |-> cache, first |-> TRUE]

LEMMA CallingRead ==
    ASSUME NEW amt, NEW cache, Calling, call = Idle, call' \in {Idle, ReadCalled(amt, cache)},
           cache => amt = None, iter.on => ~iter.chunks, iter' = iter, scenario' = scenario,
           spoiled' = spoiled, fpopen' = fpopen, ~OnlyStreamed(scenario)
    PROVE  Calling'
BY DEF Calling, Idle, ReadCalled

(* The last conjunct, when a step returns some bytes or none, or goes on.     *)
LEMMA ReachedStays ==
    ASSUME Reached, ~OnlyStreamed(scenario), scenario' = scenario, fpopen' = fpopen, next' = next,
           spoiled' = spoiled, cached' = cached,
           \/ last' = last /\ delivered' = delivered /\ (call' # Idle
              \/ (call' = call /\ iter' = iter))
           \/ last' \notin {"end", "short"}
    PROVE  Reached'
BY DEF Reached, Ended, Body, wire

LEMMA BeginReadSound ==
    ASSUME Types, Sound, ~OnlyStreamed(scenario), Ordinary(scenario), call = Idle,
           NEW amt \in Amount,
           NEW cache \in BOOLEAN, cache => amt = None, iter.on => ~iter.chunks,
           BeginRead(amt, cache), scenario' = scenario
    PROVE  Sound'
<1>1. Order /\ Calling /\ Holding /\ Unread /\ (Noticed(scenario) => Reached)
  BY DEF Sound
<1>2. PICK i : i = Initialised
  OBVIOUS
<1>3. /\ i \in Maybe /\ Lined(scenario, Out, i, next, spoiled)
      /\ i # None \/ Plainly(scenario)
      /\ Plainly(scenario) => decoder = None /\ i = None
      /\ ~HasTail(decoder) => ~HasTail(i)
      /\ HasTail(decoder) => i = decoder
  BY <1>1, <1>2, InitialisedIs
<1>4. /\ scenario \in Scenarios /\ spoiled \in BOOLEAN
      /\ IsBuffer(buffer) /\ buffer.size \in Nat /\ Content(buffer) \in Seq(Nat)
      /\ delivered \in Seq(Nat) /\ Out \in Seq(Nat) /\ next \in 0..Len(scenario.wire)
  BY StateIs
<1>5. /\ next' = next /\ fpopen' = fpopen /\ cached' = cached /\ uncached' = uncached
  BY DEF BeginRead, NoNetwork, network
<1>6. spoiled => ~fpopen
  <2>1. call.m # "drain"
    BY DEF Idle
  <2> QED BY <1>1, <2>1, IdleSpoiled
<1>7. /\ ~scenario.decode => buffer.size = 0 /\ Plainly(scenario)
      /\ Plainly(scenario) /\ buffer.size > 0 => spoiled
      /\ ~uncached => buffer.size = 0 /\ ~HasTail(decoder) /\ (delivered = <<>> \/ ~fpopen)
  BY <1>1 DEF Holding, Unread, Idle, Plainly
<1>8. CASE amt = None
  <2>1. /\ decoder' = i /\ buffer' = buffer /\ call' = ReadCalled(amt, cache)
        /\ last' = last /\ delivered' = delivered /\ spoiled' = spoiled /\ iter' = iter
    BY <1>2, <1>8 DEF BeginRead, Continues, ReadCalled
  <2>2. Order'
    <3>1. Out' = Out
      BY <2>1 DEF Out
    <3> QED BY <1>3, <1>5, <2>1, <3>1, OrderReturned
  <2>3. Calling'
    BY <1>1, <1>5, <2>1, CallingRead
  <2>4. Holding'
    BY <1>3, <1>7, <2>1 DEF Holding
  <2>5. Unread'
    <3>1. ~HasTail(decoder) => ~HasTail(decoder)'
      BY <1>3, <2>1, TailAfter
    <3> QED BY <1>5, <1>7, <2>1, <3>1 DEF Unread
  <2>6. call' # Idle
    BY <2>1 DEF ReadCalled, Idle
  <2>7. Noticed(scenario) => Reached'
    BY <1>1, <1>5, <2>1, <2>6, ReachedStays
  <2> QED BY <2>2, <2>3, <2>4, <2>5, <2>7 DEF Sound
<1>9. CASE amt # None /\ buffer.size >= amt
  <2>1. PICK g : g = Get(buffer, amt)
    OBVIOUS
  <2>2. ReturnsBuffered("read", amt, g) /\ decoder' = i
    BY <1>2, <1>9, <2>1 DEF BeginRead
  <2>3. amt \in Nat /\ g = Taken(buffer, amt) /\ (amt = 0 \/ buffer.chunks # <<>>)
    BY <1>4, <1>9, <2>1, SizeIs DEF Taken, Amount
  <2>4. Gives(buffer, amt, g)
    BY <1>4, <2>3, GivesTaken
  <2>5. /\ Out' = delivered \o Content(buffer)
        /\ buffer' = g.b /\ delivered' = delivered \o g.out
        /\ call' = Idle /\ iter' = iter /\ spoiled' = spoiled
        /\ last' = "end" => amt # 0 /\ (g.out = <<>> \/ amt = None)
        /\ last' = "short" => Len(g.out) < amt
    BY ONLY <1>4, <2>2, <2>4, BufferedIs
  <2>6. /\ Len(g.out) = amt /\ g.b.size = buffer.size - amt /\ g.out \in Seq(Nat)
    <3>1. Limit(amt, buffer.size) = amt
      BY <1>4, <1>9, <2>3 DEF Limit, Smaller
    <3>2. Len(g.out) = amt /\ g.out \in Seq(Nat) /\ g.b.size \in Nat
            /\ buffer.size = Len(g.out) + g.b.size
      BY <2>4, <3>1, SizeIs DEF Gives
    <3> QED BY ONLY <1>4, <2>3, <3>2
  <2>7. Order'
    <3>1. Out' = Out
      BY <2>5 DEF Out
    <3> QED BY <1>3, <1>5, <2>2, <2>5, <3>1, OrderReturned
  <2>8. Calling'
    BY <1>1, <1>5, <2>5, CallingRead
  <2>9. Holding'
    <3>1. buffer'.size = buffer.size - amt
      BY <2>5, <2>6
    <3>2. (buffer.size = 0 => buffer'.size = 0) /\ (buffer'.size > 0 => buffer.size > 0)
      BY <1>4, <1>9, <2>3, <3>1
    <3> QED BY <1>7, <2>5, <3>2, HoldingIdle
  <2>10. Unread'
    <3> SUFFICES ASSUME ~uncached PROVE Unread'
      BY <1>5 DEF Unread
    <3>1. amt = 0 /\ g.b.size = 0
      BY <1>7, <1>9, <2>3, <2>6
    <3>2. g.out = <<>>
      BY <2>6, <3>1, EmptySeq
    <3>3. delivered \o <<>> = delivered
      BY <1>4, ConcatEmptySeq
    <3>4. ~HasTail(decoder)'
      BY <1>3, <1>7, <2>2, TailAfter
    <3> QED BY <1>5, <1>7, <2>5, <3>1, <3>2, <3>3, <3>4 DEF Unread
  <2>11. last' \notin {"end", "short"}
    <3>1. g.out = <<>> => amt = 0
      BY <2>6, EmptySeq
    <3> QED BY <1>9, <2>3, <2>5, <2>6, <3>1
  <2>12. Noticed(scenario) => Reached'
    BY <1>1, <1>5, <2>5, <2>11, ReachedStays
  <2> QED BY <2>7, <2>8, <2>9, <2>10, <2>12 DEF Sound
<1>10. CASE amt # None /\ ~(buffer.size >= amt)
  <2>1. amt \in Nat /\ amt # 0 /\ amt - buffer.size \in Amount \ {0} /\ buffer.size < amt
    BY <1>4, <1>10, NoneAssumption DEF Amount
  <2>2. PICK r, b : r = FromTail(i, amt - buffer.size) /\ b = Refilled(r)
    OBVIOUS
  <2>3. /\ decoder' = r.d
        /\ IF ~r.ok THEN Raises("undecodable") /\ UNCHANGED buffer
           ELSE IF b.size >= amt THEN ReturnsBuffered("read", amt, Get(b, amt))
           ELSE buffer' = b
                /\ Continues([m |-> "read", amt |-> amt, cache |-> FALSE, first |-> TRUE])
    BY <1>2, <1>10, <2>2 DEF BeginRead
  <2>4. Grows(scenario, Out, i, next, spoiled, r)
    <3>1. PICK s, all, k, bb, max : s = scenario /\ all = Out /\ k = next /\ bb = spoiled
            /\ max = amt - buffer.size
      OBVIOUS
    <3>2. s \in Scenarios /\ k \in 0..Len(s.wire) /\ all \in Seq(Nat) /\ bb \in BOOLEAN
            /\ max \in Amount \ {0}
          /\ Lined(s, all, i, k, bb)
      BY ONLY <1>3, <1>4, <2>1, <3>1
    <3>3. Decodable(s)
      BY <3>1 DEF Ordinary
    <3>4. Grows(s, all, i, k, bb, FromTail(i, max))
      BY ONLY <1>3, <3>1, <3>2, <3>3, LinedTail
    <3> QED BY ONLY <2>2, <3>1, <3>4
  <2>5. /\ IsBuffer(b) /\ delivered \o Content(b) = Out \o r.out
        /\ ~HasTail(decoder) => b = buffer /\ r.d = i /\ r.out = <<>> /\ r.ok
    BY <1>3, <2>1, <2>2, RefilledIs
  <2>6. /\ r.ok /\ (r.d = None => i = None)
        /\ Lined(scenario, Out \o r.out, r.d, next, spoiled)
    BY <2>4 DEF Grows
  <2>7. b.size \in Nat /\ (b.size # 0 => b.chunks # <<>>)
    BY <2>5, SizeIs
  <2>8. Plainly(scenario) \/ ~uncached => b = buffer /\ r.d = i /\ b.size < amt
    <3>1. Plainly(scenario) => ~HasTail(decoder)
      BY <1>3 DEF HasTail
    <3> QED BY <1>7, <2>1, <2>5, <3>1
  <2>9. CASE b.size >= amt
    <3>1. PICK g : g = Get(b, amt)
      OBVIOUS
    <3>2. ReturnsBuffered("read", amt, g)
      BY <2>3, <2>6, <2>9, <3>1
    <3>3. g = Taken(b, amt) /\ b.chunks # <<>>
      BY <1>10, <2>1, <2>7, <2>9, <3>1 DEF Taken
    <3>4. Gives(b, amt, g)
      BY <2>5, <3>3, GivesTaken
    <3>5. /\ Out' = delivered \o Content(b)
          /\ buffer' = g.b /\ delivered' = delivered \o g.out
          /\ call' = Idle /\ iter' = iter /\ spoiled' = spoiled
          /\ last' = "end" => amt # 0 /\ (g.out = <<>> \/ amt = None)
          /\ last' = "short" => Len(g.out) < amt
      BY ONLY <1>4, <3>2, <3>4, BufferedIs
    <3>6. Len(g.out) = amt /\ g.out # <<>>
      <4>1. Limit(amt, b.size) = amt
        BY <1>10, <2>1, <2>7, <2>9 DEF Limit, Smaller
      <4> QED BY <2>1, <3>4, <4>1, EmptySeq DEF Gives
    <3>7. ~Plainly(scenario) /\ uncached
      BY <2>1, <2>7, <2>8, <2>9
    <3>8. Order'
      BY <1>5, <2>3, <2>5, <2>6, <3>5, OrderReturned
    <3>9. Calling'
      BY <1>1, <1>5, <3>5, CallingRead
    <3>10. Holding'
      BY <1>7, <3>5, <3>7, HoldingIdle
    <3>11. Unread'
      BY <1>5, <3>7 DEF Unread
    <3>12. last' \notin {"end", "short"}
      BY <1>10, <2>1, <3>5, <3>6
    <3>13. Noticed(scenario) => Reached'
      BY <1>1, <1>5, <3>5, <3>12, ReachedStays
    <3> QED BY <3>8, <3>9, <3>10, <3>11, <3>13 DEF Sound
  <2>10. CASE ~(b.size >= amt)
    <3>1. /\ decoder' = r.d /\ buffer' = b /\ call' = ReadCalled(amt, FALSE)
          /\ last' = last /\ delivered' = delivered /\ spoiled' = spoiled /\ iter' = iter
      BY <2>3, <2>6, <2>10 DEF Continues, ReadCalled
    <3>2. Order'
      <4>1. Out' = Out \o r.out
        BY <2>5, <3>1 DEF Out
      <4> QED BY <1>5, <2>6, <3>1, <4>1, OrderReturned
    <3>3. Calling'
      BY <1>1, <1>5, <3>1, CallingRead
    <3>4. Holding'
      BY <1>3, <1>7, <2>6, <2>8, <3>1 DEF Holding
    <3>5. Unread'
      <4>1. ~uncached => ~HasTail(decoder)'
        BY <1>3, <1>7, <2>8, <3>1, TailAfter
      <4> QED BY <1>5, <1>7, <2>8, <3>1, <4>1 DEF Unread
    <3>6. call' # Idle
      BY <3>1 DEF ReadCalled, Idle
    <3>7. Noticed(scenario) => Reached'
      BY <1>1, <1>5, <3>1, <3>6, ReachedStays
    <3> QED BY <3>2, <3>3, <3>4, <3>5, <3>7 DEF Sound
  <2> QED BY <2>9, <2>10
<1> QED BY <1>8, <1>9, <1>10

(* The call goes to the network: what its decoder makes of the data.          *)
LEMMA DecodeSound ==
    ASSUME Types, Ordinary(scenario), NEW i \in Maybe, i # None \/ Plainly(scenario),
           Lined(scenario, Out, i, next, spoiled), NEW o, Arrives(o), spoiled => next = next',
           NEW flush \in BOOLEAN, NEW max \in Amount \ {0}
    PROVE  LET r == Decode(i, o.data, flush, max)
           IN  /\ Grows(scenario, Out, i, next', spoiled, r)
               /\ ~spoiled /\ (flush \/ max = None \/ Len(r.out) < max) =>
                     At(scenario, r.d, next') = next'
<1>1. /\ scenario \in Scenarios /\ spoiled \in BOOLEAN /\ Out \in Seq(Nat)
  BY StateIs
<1>2. o.data = Part(scenario.wire, next, next') /\ next' \in 0..Len(scenario.wire)
        /\ next \in 0..next'
  BY DEF Arrives
<1>3. PICK s, all, k, m, b : s = scenario /\ all = Out /\ k = next /\ m = next' /\ b = spoiled
  OBVIOUS
<1>4. /\ s \in Scenarios /\ b \in BOOLEAN /\ all \in Seq(Nat) /\ m \in 0..Len(s.wire) /\ k \in 0..m
      /\ i # None \/ Plainly(s)
      /\ Lined(s, all, i, k, b) /\ (b => k = m) /\ o.data = Part(s.wire, k, m)
  BY ONLY <1>1, <1>2, <1>3, i # None \/ Plainly(scenario), Lined(scenario, Out, i, next, spoiled),
          spoiled => next = next'
<1>5. Decodable(s)
  BY <1>3 DEF Ordinary
<1>6. LET r == Decode(i, Part(s.wire, k, m), flush, max)
      IN  /\ Grows(s, all, i, m, b, r)
          /\ ~b /\ (flush \/ max = None \/ Len(r.out) < max) => At(s, r.d, m) = m
  BY ONLY <1>3, <1>4, <1>5, i \in Maybe, flush \in BOOLEAN, max \in Amount \ {0}, LinedDecode
<1> QED BY ONLY <1>3, <1>4, <1>6

(* All is decoded, and nothing is held back: it is the body.                  *)
LEMMA WholeBody ==
    ASSUME Types', scenario' = scenario, scenario \in Scenarios, NEW d \in Maybe,
           Lined(scenario, Out', d, next', FALSE), next' = Len(scenario.wire),
           At(scenario, d, next') = next', buffer'.size = 0
    PROVE  delivered' = Body
<1>1. delivered' \in Seq(Nat) /\ Out' = delivered'
  BY StateAfter
<1>2. PICK s, all, k : s = scenario /\ all = delivered' /\ k = next'
  OBVIOUS
<1>3. s \in Scenarios /\ all \in Seq(Nat) /\ k = Len(s.wire) /\ Lined(s, all, d, k, FALSE)
        /\ At(s, d, k) = k
  BY ONLY <1>1, <1>2, scenario \in Scenarios, Lined(scenario, Out', d, next', FALSE),
          next' = Len(scenario.wire), At(scenario, d, next') = next'
<1>4. all = Bytes(s.wire)
  BY ONLY <1>3, d \in Maybe, AllIsBody
<1> QED BY ONLY <1>2, <1>4 DEF Body, wire

(* A response that is at its end, and breaks off only where the reader can tell,*)
(* is whole.                                                                *)
Ends == Noticed(scenario) /\ ~spoiled /\ ~fpopen' => next' = Len(scenario.wire)

(* A call that has read o, which is no call of a generator over chunks.       *)
HasRead(o) ==
    /\ Types /\ Types' /\ Sound /\ Ordinary(scenario) /\ scenario' = scenario
    /\ ~OnlyStreamed(scenario) /\ (iter.on => ~iter.chunks)
    /\ Arrives(o) /\ Ends
    /\ spoiled => next = next' /\ o.data = <<>> /\ ~fpopen'
    /\ o.data # <<>> => fpopen /\ ~spoiled
    /\ o.data = <<>> => ~fpopen'

LEMMA ReadHas ==
    ASSUME Types, Types', Sound, Ordinary(scenario), scenario' = scenario,
           call.m \in {"read", "read1"}, NEW amt \in Amount \ {0}, NEW one \in BOOLEAN,
           one => call.m = "read1" /\ (amt = None => call.amt = None),
           NEW o \in RawReads(amt, one), Receive(o), o.err = "none"
    PROVE  HasRead(o)
<1>1. Arrives(o)
  BY RawArrives
<1>2. Calling
  BY DEF Sound
<1>3. /\ call.m # "drain" /\ call # Idle
      /\ one /\ amt = None => <<"read1", None>> \in scenario.calls
  <2>1. call.m # "drain" /\ call.m # "idle"
    OBVIOUS
  <2>2. call # Idle
    BY <2>1 DEF Idle
  <2>3. one /\ amt = None => <<"read1", None>> \in scenario.calls
    BY <1>2 DEF Calling
  <2> QED BY <2>1, <2>2, <2>3
<1>4. ~OnlyStreamed(scenario) /\ (iter.on => ~iter.chunks)
  BY <1>2, <1>3 DEF Calling
<1>5. /\ spoiled => next = next' /\ o.data = <<>> /\ ~fpopen'
      /\ o.data # <<>> => fpopen /\ ~spoiled
  BY <1>1, <1>2, <1>3, SpoiledReads
<1>6. Ends
  <2> SUFFICES ASSUME Noticed(scenario), ~spoiled, ~fpopen' PROVE next' = Len(scenario.wire)
    BY DEF Ends
  <2>1. Reached
    BY DEF Sound
  <2> QED BY <1>3, <2>1, RawEnds
<1>7. o.data = <<>> => ~fpopen'
  BY <1>1 DEF Arrives
<1> QED BY <1>1, <1>4, <1>5, <1>6, <1>7 DEF HasRead

LEMMA ErrorReads ==
    ASSUME Types, Types', Sound, scenario' = scenario, NEW amt \in Amount \ {0},
           NEW one \in BOOLEAN,
           NEW o \in RawReads(amt, one), Receive(o), o.err # "none", Raises(o.err),
           UNCHANGED reading
    PROVE  Sound'
<1>1. Arrives(o)
  BY RawArrives
<1>2. next' \in 0..Len(scenario.wire) /\ next \in 0..next' /\ ~fpopen'
  BY <1>1 DEF Arrives
<1>3. /\ delivered' = delivered /\ spoiled' = TRUE /\ call' = Idle /\ iter' = NotIterating
  BY DEF Raises
<1>4. decoder' = decoder /\ buffer' = buffer /\ cached' = cached /\ uncached' = uncached
  BY DEF reading
<1> QED BY <1>2, <1>3, <1>4, ErrorSound

(* The call returns: what is left to be shown of it.                          *)
LEMMA ReturnSound ==
    ASSUME NEW o, HasRead(o), NEW d \in Maybe, NEW all, Lined(scenario, all, d, next', spoiled),
           Out' = all, decoder' = d, call' = Idle, iter' = iter, spoiled' = spoiled,
           ~scenario.decode => buffer'.size = 0,
           Plainly(scenario) /\ buffer'.size > 0 => spoiled,
           ~uncached' => buffer'.size = 0 /\ ~HasTail(d) /\ ~fpopen',
           Noticed(scenario) /\ ~spoiled /\ last' = "end" => delivered' = Body,
           Noticed(scenario) /\ ~spoiled /\ last' = "short" /\ Fills(scenario) => delivered' = Body,
           Noticed(scenario) => cached' = cached \/ cached' = Body
    PROVE  Sound'
<1>1. /\ Sound /\ scenario' = scenario /\ ~OnlyStreamed(scenario) /\ (iter.on => ~iter.chunks)
      /\ spoiled => ~fpopen'
  BY DEF HasRead
<1>2. Order'
  BY <1>1, OrderReturned
<1>3. Calling'
  BY <1>1, CallingIdle DEF Sound
<1>4. Holding'
  BY <1>1, HoldingIdle
<1>5. Unread'
  BY <1>1, TailAfter DEF Unread
<1>6. ASSUME Noticed(scenario) PROVE Reached'
  <2>1. ~fpopen' /\ ~spoiled' => next' = Len(scenario.wire)
    BY <1>6 DEF HasRead, Ends
  <2>2. cached # None => cached = Body
    BY <1>1, <1>6 DEF Sound, Reached
  <2> QED BY <1>1, <1>6, <2>1, <2>2, ReachedHolds
<1> QED BY <1>1, <1>2, <1>3, <1>4, <1>5, <1>6 DEF Sound

LEMMA NothingSound ==
    ASSUME NEW o, HasRead(o), o.data = <<>>, buffer.size = 0, ~HasTail(decoder), NEW m, NEW amt,
           Returns(m, amt, <<>>), UNCHANGED <<decoder, buffer, cached>>
    PROVE  Sound'
<1>1. /\ Types /\ Types' /\ Sound /\ scenario' = scenario /\ Arrives(o) /\ ~fpopen'
  BY DEF HasRead
<1>2. /\ scenario \in Scenarios /\ decoder \in Maybe /\ delivered \in Seq(Nat)
         /\ spoiled \in BOOLEAN
      /\ next \in 0..Len(scenario.wire)
  BY <1>1, StateIs
<1>3. delivered \o <<>> = delivered
  BY <1>2, ConcatEmptySeq
<1>4. /\ delivered' = delivered /\ call' = Idle /\ iter' = iter /\ spoiled' = spoiled
      /\ last' # "short"
  BY <1>3 DEF Returns
<1>5. next' = next
  BY <1>1 DEF Arrives
<1>6. Out' = Out
  BY <1>4 DEF Out
<1>7. PICK d : d = decoder
  OBVIOUS
<1>8. Lined(scenario, Out, d, next', spoiled) /\ d \in Maybe /\ ~HasTail(d)
  BY <1>1, <1>2, <1>5, <1>7 DEF Sound, Order
<1>9. Noticed(scenario) /\ ~spoiled => delivered' = Body
  <2> SUFFICES ASSUME Noticed(scenario), ~spoiled PROVE delivered' = Body
    OBVIOUS
  <2>1. next' = Len(scenario.wire)
    BY <1>1 DEF HasRead, Ends
  <2>2. PICK s, k, all : s = scenario /\ k = next' /\ all = Out
    OBVIOUS
  <2>3. s \in Scenarios /\ k \in 0..Len(s.wire) /\ Lined(s, all, d, k, FALSE)
    <3>1. Follows(scenario, Out, d, next')
      BY <1>8 DEF Lined
    <3> QED BY <1>2, <1>5, <2>2, <3>1 DEF Lined
  <2>4. Fed(s, d, k)
    BY ONLY <1>8, <2>3, LinedFed
  <2>5. At(s, d, k) = k
    BY <1>8, <2>2, <2>3, <2>4, WithoutTail
  <2>6. Lined(scenario, Out', d, next', FALSE) /\ At(scenario, d, next') = next'
    BY <1>6, <2>2, <2>3, <2>5
  <2> QED BY <1>1, <1>2, <1>8, <2>1, <2>6, WholeBody
<1> QED BY <1>1, <1>4, <1>6, <1>7, <1>8, <1>9, ReturnSound

(* The state of a call that has read o.                                      *)
LEMMA HasReadIs ==
    ASSUME NEW o, HasRead(o)
    PROVE  /\ scenario \in Scenarios /\ spoiled \in BOOLEAN
           /\ IsBuffer(buffer) /\ buffer.size \in Nat /\ Content(buffer) \in Seq(Nat)
           /\ delivered \in Seq(Nat) /\ Out \in Seq(Nat)
           /\ next \in 0..Len(scenario.wire) /\ next' \in 0..Len(scenario.wire)
           /\ Order /\ Calling /\ Holding /\ Unread
           /\ decoder \in Maybe /\ Lined(scenario, Out, decoder, next, spoiled)
           /\ Plainly(scenario) => decoder = None
           /\ o.data \in Seq(Unit) /\ (spoiled => next = next')
<1>1. /\ scenario \in Scenarios /\ spoiled \in BOOLEAN
      /\ IsBuffer(buffer) /\ buffer.size \in Nat /\ Content(buffer) \in Seq(Nat)
      /\ delivered \in Seq(Nat) /\ Out \in Seq(Nat) /\ decoder \in Maybe
      /\ next \in 0..Len(scenario.wire)
  BY StateIs DEF HasRead
<1>2. Order /\ Calling /\ Holding /\ Unread
  BY DEF HasRead, Sound
<1>3. Lined(scenario, Out, decoder, next, spoiled)
  BY <1>2 DEF Order
<1>4. o.data \in Seq(Unit) /\ next' \in 0..Len(scenario.wire) /\ (spoiled => next = next')
  BY DEF HasRead, Arrives
<1>5. Plainly(scenario) => decoder = None
  BY <1>2, InitialisedIs DEF HasRead
<1> QED BY <1>1, <1>2, <1>3, <1>4, <1>5

LEMMA FinishAllSound ==
    ASSUME NEW o, HasRead(o), call.m = "read", FinishAll(o.data), ~fpopen',
           ~(o.data = <<>> /\ buffer.size = 0 /\ ~HasTail(decoder)),
           uncached' = (uncached \/ ~call.cache)
    PROVE  Sound'
<1>1. /\ scenario \in Scenarios /\ spoiled \in BOOLEAN
      /\ IsBuffer(buffer) /\ buffer.size \in Nat /\ Content(buffer) \in Seq(Nat)
      /\ delivered \in Seq(Nat) /\ Out \in Seq(Nat)
      /\ next \in 0..Len(scenario.wire) /\ next' \in 0..Len(scenario.wire)
      /\ Order /\ Calling /\ Holding /\ Unread
      /\ decoder \in Maybe /\ Lined(scenario, Out, decoder, next, spoiled)
      /\ spoiled => next = next'
  BY HasReadIs
<1>2. /\ Types /\ Types' /\ Ordinary(scenario) /\ scenario' = scenario /\ Arrives(o)
      /\ o.data # <<>> => fpopen /\ ~spoiled
  BY DEF HasRead
<1>3. decoder # None \/ Plainly(scenario)
  BY <1>1 DEF Holding
<1>4. PICK d, b : d = decoder /\ b = buffer
  OBVIOUS
<1>5. PICK r : r = Decode(d, o.data, TRUE, None)
  OBVIOUS
<1>6. /\ Grows(scenario, Out, d, next', spoiled, r)
      /\ ~spoiled => At(scenario, r.d, next') = next'
  <2>1. None \in Amount \ {0} /\ TRUE \in BOOLEAN
    BY NoneAssumption DEF Amount
  <2>2. /\ Grows(scenario, Out, d, next', spoiled, Decode(d, o.data, TRUE, None))
        /\ ~spoiled => At(scenario, Decode(d, o.data, TRUE, None).d, next') = next'
    BY <1>1, <1>2, <1>3, <1>4, <2>1, DecodeSound
  <2> QED BY <1>5, <2>2
<1>7. /\ r.ok /\ r.d \in Maybe /\ r.out \in Seq(Nat)
      /\ Lined(scenario, Out \o r.out, r.d, next', spoiled)
  BY <1>6 DEF Grows, MaybeDecoded
<1> DEFINE all == IF scenario.decode /\ b.size > 0 THEN GetAll(Put(b, r.out))
                  ELSE [ok |-> TRUE, out |-> r.out, b |-> b]
<1>8. /\ decoder' = r.d /\ ReturnsBuffered("read", None, all)
      /\ cached' = IF call.cache /\ ~uncached THEN all.out ELSE cached
  <2>1. \E x \in {Decode(d, o.data, TRUE, None)} :
           LET a == IF scenario.decode /\ b.size > 0 THEN GetAll(Put(b, x.out))
                    ELSE [ok |-> TRUE, out |-> x.out, b |-> b]
           IN /\ Decodes(x.d)
              /\ IF ~x.ok
                 THEN Raises("undecodable") /\ UNCHANGED <<buffer, cached>>
                 ELSE /\ ReturnsBuffered("read", None, a)
                      /\ cached' = IF call.cache /\ ~uncached THEN a.out ELSE cached
    BY <1>4 DEF FinishAll
  <2> QED BY <1>5, <1>7, <2>1 DEF Decodes
<1>9. ~scenario.decode => b.size = 0
  BY <1>1, <1>4 DEF Holding
<1>10. PICK g : g = all
  OBVIOUS
<1>11. /\ g.ok /\ g.out \in Seq(Nat) /\ IsBuffer(g.b) /\ g.b.size = 0
       /\ delivered \o g.out = Out \o r.out
       /\ b.size = 0 => g.out = r.out
  <2>1. CASE scenario.decode /\ b.size > 0
    <3>1. g = GetAll(Put(b, r.out)) /\ IsBuffer(Put(b, r.out))
      BY <1>1, <1>4, <1>7, <1>10, <2>1, PutIs
    <3>2. /\ IsBuffer(g.b) /\ g.b.size = 0
          /\ g.out \in Seq(Nat) /\ g.out = Content(Put(b, r.out)) /\ g.ok = TRUE
      BY <3>1, GetAllIs
    <3>3. delivered \o Content(Put(b, r.out)) = Out \o r.out
      <4>1. PICK dl, out : dl = delivered /\ out = r.out
        OBVIOUS
      <4>2. dl \o Content(Put(b, out)) = (dl \o Content(b)) \o out
        BY ONLY <1>1, <1>4, <1>7, <4>1, OutPut
      <4> QED BY ONLY <1>4, <4>1, <4>2, Zenon DEF Out
    <3> QED BY <2>1, <3>2, <3>3
  <2>2. CASE ~(scenario.decode /\ b.size > 0)
    <3>1. g = [ok |-> TRUE, out |-> r.out, b |-> b] /\ b.size = 0
      BY <1>1, <1>4, <1>9, <1>10, <2>2
    <3>2. Out = delivered
      BY <1>2, <1>4, <3>1, StateIs
    <3> QED BY <1>1, <1>4, <1>7, <3>1, <3>2
  <2> QED BY <2>1, <2>2
<1> HIDE DEF all
<1>12. Returns("read", None, g.out) /\ buffer' = g.b
  BY <1>8, <1>10, <1>11 DEF ReturnsBuffered
<1>13. /\ delivered' = delivered \o g.out /\ call' = Idle /\ iter' = iter /\ spoiled' = spoiled
       /\ last' = "end"
  BY <1>12, NoneAssumption DEF Returns
<1>14. Out' = Out \o r.out /\ Out' = delivered'
  <2>1. Out' = delivered'
    BY <1>2, <1>11, <1>12, StateAfter
  <2> QED BY ONLY <1>11, <1>13, <2>1, Zenon
<1>15. Noticed(scenario) /\ ~spoiled => delivered' = Body
  <2> SUFFICES ASSUME Noticed(scenario), ~spoiled PROVE delivered' = Body
    OBVIOUS
  <2>1. next' = Len(scenario.wire)
    BY DEF HasRead, Ends
  <2>2. Lined(scenario, Out', r.d, next', FALSE)
    <3>1. Follows(scenario, Out', r.d, next')
      BY <1>7, <1>14 DEF Lined
    <3> QED BY <3>1 DEF Lined
  <2> QED BY <1>1, <1>2, <1>6, <1>7, <1>11, <1>12, <2>1, <2>2, WholeBody
<1>16. ~uncached' => /\ o.data # <<>> /\ ~spoiled /\ delivered = <<>> /\ b.size = 0
                     /\ ~uncached /\ call.cache
  BY <1>1, <1>2, <1>4 DEF Unread
<1>17. ~uncached' => ~HasTail(r.d)
  <2> SUFFICES ASSUME ~uncached' PROVE ~HasTail(r.d)
    OBVIOUS
  <2>1. PICK s, k, e : s = scenario /\ k = next' /\ e = r.d
    OBVIOUS
  <2>2. Follows(s, Out \o r.out, e, k) /\ At(s, e, k) = k
    BY <1>6, <1>7, <1>16, <2>1 DEF Lined
  <2>3. Fed(s, e, k) /\ s \in Scenarios /\ k \in 0..Len(s.wire) /\ e \in Maybe
    BY <1>1, <1>7, <2>1, <2>2 DEF Follows
  <2> QED BY <2>1, <2>2, <2>3, WithoutTail
<1>18. Noticed(scenario) => cached' = cached \/ cached' = Body
  <2>1. call.cache /\ ~uncached => ~uncached'
    OBVIOUS
  <2>2. delivered = <<>> => delivered \o g.out = g.out
    BY <1>11, ConcatEmptySeq
  <2> QED BY <1>8, <1>10, <1>13, <1>15, <1>16, <2>1, <2>2
<1>19. PICK e, total : e = r.d /\ total = Out \o r.out
  OBVIOUS
<1>20. /\ e \in Maybe /\ Lined(scenario, total, e, next', spoiled) /\ Out' = total
       /\ decoder' = e /\ call' = Idle /\ iter' = iter /\ spoiled' = spoiled
       /\ buffer'.size = 0 /\ (~uncached' => ~HasTail(e))
  BY <1>7, <1>8, <1>11, <1>12, <1>13, <1>14, <1>17, <1>19
<1>21. last' # "short"
  BY <1>13
<1> QED BY ONLY HasRead(o), ~fpopen', <1>15, <1>18, <1>20, <1>21, ReturnSound

(* Without decoding a call returns what it has read.                          *)
LEMMA PlainSound ==
    ASSUME NEW o, HasRead(o), ~scenario.decode, NEW m, NEW amt, amt # 0, m = "read" => amt # None,
           Returns(m, amt, Bytes(o.data)), UNCHANGED <<decoder, buffer, cached>>, uncached',
           Len(Bytes(o.data)) = Len(o.data),
           m = "read" /\ o.data # <<>> => Len(o.data) >= amt \/ next' = scenario.sent,
           m = "read" => amt \in Nat
    PROVE  Sound'
<1>1. /\ scenario \in Scenarios /\ spoiled \in BOOLEAN
      /\ IsBuffer(buffer) /\ buffer.size \in Nat /\ Content(buffer) \in Seq(Nat)
      /\ delivered \in Seq(Nat) /\ Out \in Seq(Nat)
      /\ next \in 0..Len(scenario.wire) /\ next' \in 0..Len(scenario.wire)
      /\ Holding /\ o.data \in Seq(Unit)
      /\ decoder \in Maybe /\ Lined(scenario, Out, decoder, next, spoiled)
      /\ Plainly(scenario) => decoder = None
      /\ spoiled => next = next'
  BY HasReadIs
<1>2. /\ Types /\ Types' /\ Ordinary(scenario) /\ scenario' = scenario /\ Arrives(o)
      /\ o.data = <<>> => ~fpopen'
  BY DEF HasRead
<1>3. Plainly(scenario) /\ decoder = None /\ buffer.size = 0 /\ None \in Maybe
  BY <1>1 DEF Plainly, Holding
<1>4. PICK out : out = Bytes(o.data)
  OBVIOUS
<1>5. /\ out \in Seq(Nat) /\ Lined(scenario, Out \o out, None, next', spoiled)
  <2>1. None \in Amount \ {0} /\ FALSE \in BOOLEAN
    BY NoneAssumption DEF Amount
  <2>2. Grows(scenario, Out, None, next', spoiled, Decode(None, o.data, FALSE, None))
    BY <1>1, <1>2, <1>3, <2>1, DecodeSound
  <2>3. Decode(None, o.data, FALSE, None) = [d |-> None, out |-> out, ok |-> TRUE]
    BY <1>1, <1>3, <1>4, <2>1, DecodeType
  <2>4. out \in Seq(Nat)
    BY <1>1, <1>4, BytesType
  <2>5. PICK r : r = Decode(None, o.data, FALSE, None)
    OBVIOUS
  <2>6. r.d = None /\ r.out = out
    <3>1. r = [d |-> None, out |-> out, ok |-> TRUE]
      BY ONLY <2>3, <2>5, Zenon
    <3> QED BY ONLY <3>1
  <2>7. Lined(scenario, Out \o r.out, r.d, next', spoiled)
    BY <2>2, <2>5 DEF Grows
  <2> QED BY ONLY <2>4, <2>6, <2>7
<1>6. /\ delivered' = delivered \o out /\ call' = Idle /\ iter' = iter /\ spoiled' = spoiled
      /\ last' = "end" => out = <<>>
      /\ last' = "short" => m = "read" /\ out # <<>> /\ Len(out) < amt
  BY <1>4 DEF Returns
<1>7. Out' = Out \o out
  <2>1. Out' = delivered'
    BY <1>2, <1>3, StateAfter
  <2>2. Out = delivered
    BY <1>2, <1>3, StateIs
  <2> QED BY ONLY <1>6, <2>1, <2>2
<1>8. Len(out) = Len(o.data) /\ Len(out) \in Nat /\ (out = <<>> => o.data = <<>>)
  <2>1. Len(out) \in Nat /\ Len(out) = Len(o.data) /\ (out = <<>> => Len(out) = 0)
    BY <1>4, <1>5, LenProperties, EmptySeq
  <2>2. Len(o.data) = 0 => o.data = <<>>
    BY <1>1, EmptySeq
  <2> QED BY <2>1, <2>2
<1>9. ASSUME ~spoiled, next' = Len(scenario.wire) PROVE delivered' = Body
  <2>1. At(scenario, None, next') = next'
    BY DEF At
  <2>2. Lined(scenario, Out', None, next', FALSE)
    <3>1. Follows(scenario, Out', None, next')
      BY <1>5, <1>7, <1>9 DEF Lined
    <3> QED BY <3>1 DEF Lined
  <2> QED BY <1>1, <1>2, <1>3, <1>9, <2>1, <2>2, WholeBody
<1>10. Noticed(scenario) /\ ~spoiled /\ last' = "end" => delivered' = Body
  BY <1>2, <1>6, <1>8, <1>9 DEF HasRead, Ends
<1>11. Noticed(scenario) /\ ~spoiled /\ last' = "short" /\ Fills(scenario) => delivered' = Body
  <2> SUFFICES ASSUME ~spoiled, last' = "short", Fills(scenario) PROVE delivered' = Body
    OBVIOUS
  <2>1. m = "read" /\ o.data # <<>> /\ Len(o.data) < amt /\ amt \in Nat
    BY <1>4, <1>6, <1>8, BytesEmpty
  <2>2. next' = scenario.sent /\ scenario.sent = Len(scenario.wire)
    BY <1>8, <2>1 DEF Fills
  <2> QED BY <1>9, <2>2
<1>12. PICK total : total = Out \o out
  OBVIOUS
<1>13. /\ Lined(scenario, total, None, next', spoiled) /\ Out' = total
       /\ decoder' = None /\ buffer'.size = 0 /\ cached' = cached
  BY <1>3, <1>5, <1>7, <1>12
<1> QED BY ONLY HasRead(o), uncached', <1>3, <1>6, <1>10, <1>11, <1>13, ReturnSound

(* read(amt) has data.                                                       *)
LEMMA FinishSomeSound ==
    ASSUME NEW o, HasRead(o), scenario.decode, call \in ReadCall,
           NEW amt \in Nat \ {0}, amt = call.amt,
           buffer.size < amt, FinishSome(o.data), uncached', Len(o.data) <= amt,
           Plainly(scenario) => Len(Bytes(o.data)) = Len(o.data),
           o.data # <<>> => Len(o.data) >= amt \/ next' = scenario.sent
    PROVE  Sound'
<1>1. /\ scenario \in Scenarios /\ spoiled \in BOOLEAN
      /\ IsBuffer(buffer) /\ buffer.size \in Nat /\ Content(buffer) \in Seq(Nat)
      /\ delivered \in Seq(Nat) /\ Out \in Seq(Nat)
      /\ next \in 0..Len(scenario.wire) /\ next' \in 0..Len(scenario.wire)
      /\ Holding /\ Calling /\ o.data \in Seq(Unit)
      /\ decoder \in Maybe /\ Lined(scenario, Out, decoder, next, spoiled)
      /\ Plainly(scenario) => decoder = None
      /\ spoiled => next = next'
  BY HasReadIs
<1>2. /\ Types /\ Types' /\ Ordinary(scenario) /\ scenario' = scenario /\ Arrives(o)
      /\ o.data # <<>> => fpopen /\ ~spoiled
      /\ o.data = <<>> => ~fpopen'
      /\ spoiled => o.data = <<>> /\ ~fpopen'
      /\ Sound /\ ~OnlyStreamed(scenario) /\ (iter.on => ~iter.chunks)
  BY DEF HasRead
<1>3. /\ call.m = "read" /\ call.amt # None /\ amt - buffer.size \in Amount \ {0}
  BY <1>1, NoneAssumption DEF ReadCall, Amount
<1>4. decoder # None \/ Plainly(scenario)
  BY <1>1, <1>3 DEF Holding
<1>5. PICK d, c, max : d = decoder /\ c = buffer /\ max = amt - buffer.size /\ max \in Amount \ {0}
  BY <1>3
<1>6. PICK flush \in BOOLEAN : flush = (call.first /\ o.data = <<>>)
  OBVIOUS
<1>7. PICK r : r = Decode(d, o.data, flush, max)
  OBVIOUS
<1>8. /\ Grows(scenario, Out, d, next', spoiled, r)
      /\ ~spoiled /\ Len(r.out) < max => At(scenario, r.d, next') = next'
  <2>1. LET x == Decode(d, o.data, flush, max)
        IN  /\ Grows(scenario, Out, d, next', spoiled, x)
            /\ ~spoiled /\ (flush \/ max = None \/ Len(x.out) < max) =>
                  At(scenario, x.d, next') = next'
    BY <1>1, <1>2, <1>4, <1>5, DecodeSound
  <2> QED BY <1>7, <2>1
<1>9. /\ r.ok /\ r.d \in Maybe /\ r.out \in Seq(Nat) /\ (r.d = None => d = None)
      /\ Lined(scenario, Out \o r.out, r.d, next', spoiled)
  BY <1>8 DEF Grows, MaybeDecoded
<1>10. PICK b : b = Put(c, r.out)
  OBVIOUS
<1>11. /\ decoder' = r.d /\ cached' = cached
       /\ IF b.size < amt /\ o.data # <<>>
          THEN buffer' = b /\ Continues([call EXCEPT !.first = FALSE])
          ELSE ReturnsBuffered("read", amt, Get(b, amt))
  <2>1. \E x \in {Decode(d, o.data, flush, max)} :
          /\ Decodes(x.d) /\ UNCHANGED cached
          /\ IF ~x.ok THEN Raises("undecodable") /\ UNCHANGED buffer
             ELSE IF Put(c, x.out).size < amt /\ o.data # <<>>
             THEN buffer' = Put(c, x.out) /\ Continues([call EXCEPT !.first = FALSE])
             ELSE ReturnsBuffered("read", amt, Get(Put(c, x.out), amt))
    BY <1>5, <1>6, amt = call.amt DEF FinishSome
  <2> QED BY <1>7, <1>9, <1>10, <2>1 DEF Decodes
<1>12. /\ IsBuffer(b) /\ b.size = c.size + Len(r.out) /\ Len(r.out) \in Nat /\ b.size \in Nat
       /\ delivered \o Content(b) = Out \o r.out /\ b.chunks # <<>>
  <2>1. IsBuffer(b) /\ b.size = c.size + Len(r.out)
    BY <1>1, <1>5, <1>9, <1>10, PutIs
  <2>2. delivered \o Content(b) = Out \o r.out
    <3>1. PICK dl, out : dl = delivered /\ out = r.out
      OBVIOUS
    <3>2. dl \o Content(Put(c, out)) = (dl \o Content(c)) \o out
      BY ONLY <1>1, <1>5, <1>9, <3>1, OutPut
    <3> QED BY ONLY <1>5, <1>10, <3>1, <3>2, Zenon DEF Out
  <2>3. b.chunks # <<>>
    <3>1. PICK t, e : t = c.chunks /\ e = r.out
      OBVIOUS
    <3>2. t \in Seq(Seq(Nat)) /\ e \in Seq(Nat) /\ b.chunks = Append(t, e)
      BY <1>1, <1>5, <1>9, <1>10, <3>1 DEF Put, IsBuffer
    <3>3. Len(Append(t, e)) = Len(t) + 1 /\ Len(t) \in Nat /\ Append(t, e) \in Seq(Seq(Nat))
      BY ONLY <3>2, AppendProperties, LenProperties
    <3>4. PICK u : u = Append(t, e)
      OBVIOUS
    <3>5. u \in Seq(Seq(Nat)) /\ Len(u) # 0
      BY ONLY <3>3, <3>4
    <3>6. u # <<>>
      BY ONLY <3>5, EmptySeq
    <3> QED BY ONLY <3>2, <3>4, <3>6, Zenon
  <2>4. Len(r.out) \in Nat /\ b.size \in Nat
    BY <1>9, <2>1, LenProperties, SizeIs
  <2> QED BY <2>1, <2>2, <2>3, <2>4
<1>13. Plainly(scenario) => Len(r.out) = Len(o.data)
  <2>1. None \in Maybe
    BY DEF Maybe
  <2>2. Plainly(scenario) => r.out = Bytes(o.data)
    BY <1>1, <1>5, <1>7, <2>1, DecodeType
  <2> QED BY <2>2
<1>14. Plainly(scenario) /\ buffer.size > 0 => spoiled \/ Arrived = 0
  BY <1>1, <1>3 DEF Holding
<1>15. Len(o.data) = next' - next /\ Len(o.data) \in Nat /\ (o.data # <<>> => Len(o.data) > 0)
  <2>1. Len(o.data) = next' - next
    BY <1>2 DEF Arrives
  <2> QED BY <1>1, <2>1, LenProperties, EmptySeq
<1>16. Arrived = scenario.sent - next /\ Arrived' = scenario.sent - next' /\ scenario.sent \in Nat
       /\ next \in Nat /\ next' \in Nat /\ next' <= scenario.sent
  <2>1. TypesOfNetwork /\ TypesOfNetwork'
    BY <1>2 DEF Types
  <2>2. scenario.sent \in Nat
    BY <1>1, ScenarioIs
  <2>3. next' \in 0..scenario.sent
    BY <1>2, <2>1 DEF TypesOfNetwork
  <2>4. next \in 0..scenario.sent
    BY <1>2, <2>1 DEF TypesOfNetwork
  <2>5. Arrived = scenario.sent - next /\ Arrived' = scenario.sent - next'
    BY <1>2 DEF Arrived
  <2> QED BY <2>2, <2>3, <2>4, <2>5
<1>17. CASE b.size < amt /\ o.data # <<>>
  <2>1. /\ buffer' = b /\ call' = [call EXCEPT !.first = FALSE]
        /\ last' = last /\ delivered' = delivered /\ spoiled' = spoiled /\ iter' = iter
    BY <1>11, <1>17 DEF Continues
  <2>2. Order'
    <3>1. Out' = Out \o r.out
      BY <1>12, <2>1 DEF Out
    <3> QED BY <1>2, <1>9, <1>11, <2>1, <3>1, OrderReturned
  <2>3. /\ call'.m = "read" /\ call'.amt = amt /\ call'.cache = call.cache
    BY ONLY <2>1, call \in ReadCall, amt = call.amt DEF ReadCall
  <2>4. ~spoiled
    BY <1>2, <1>17
  <2>5. call' # Idle /\ amt # None
    BY <1>3, <2>3 DEF Idle
  <2>6. Calling'
    <3>1. call.m = "read" /\ call.cache => call.amt = None
      BY <1>1 DEF Calling
    <3>2. iter.on => Streamed(scenario)
      BY <1>1 DEF Calling
    <3> QED BY <1>2, <1>3, <2>1, <2>3, <2>4, <2>5, <3>1, <3>2 DEF Calling
  <2>7. Holding'
    <3>1. PICK l, t, n, z, e, p : l = Len(o.data) /\ t = Len(r.out) /\ n = next' /\ z = b.size
                                  /\ e = scenario.sent /\ p = c.size
      OBVIOUS
    <3>2. /\ z < amt /\ z = p + t /\ t \in Nat /\ p \in Nat /\ l \in Nat /\ (l >= amt \/ n = e)
          /\ Arrived' = e - n /\ e \in Nat /\ n \in Nat
      BY ONLY <1>1, <1>5, <1>12, <1>15, <1>16, <1>17, <3>1,
              o.data # <<>> => Len(o.data) >= amt \/ next' = scenario.sent
    <3>3. Plainly(scenario) => t = l
      BY <1>13, <3>1
    <3>4. Plainly(scenario) => Arrived' = 0
      BY ONLY <3>2, <3>3, amt \in Nat \ {0}
    <3>5. Plainly(scenario) \/ decoder' # None
      BY ONLY <1>4, <1>5, <1>9, <1>11, Zenon
    <3> QED BY <1>2, <2>3, <3>4, <3>5 DEF Holding
  <2>8. Unread'
    BY DEF Unread
  <2>9. ASSUME Noticed(scenario) PROVE Reached'
    <3>1. ~fpopen' /\ ~spoiled => next' = Len(scenario.wire)
      BY <2>9 DEF HasRead, Ends
    <3>2. Reached
      BY <1>2, <2>9 DEF Sound
    <3> QED BY <1>2, <1>11, <2>1, <2>5, <3>1, <3>2 DEF Reached, Ended, Body, wire
  <2> QED BY <1>2, <2>2, <2>6, <2>7, <2>8, <2>9 DEF Sound
<1>18. CASE ~(b.size < amt /\ o.data # <<>>)
  <2>1. PICK g : g = Get(b, amt)
    OBVIOUS
  <2>2. g = Taken(b, amt) /\ amt \in Amount
    BY <1>3, <2>1 DEF Taken, Amount
  <2>3. Gives(b, amt, g)
    BY <1>12, <2>2, GivesTaken
  <2>4. ReturnsBuffered("read", amt, g)
    BY <1>11, <1>18, <2>1
  <2>5. /\ Out' = delivered \o Content(b)
        /\ buffer' = g.b /\ delivered' = delivered \o g.out
        /\ call' = Idle /\ iter' = iter /\ spoiled' = spoiled
        /\ last' = "end" => g.out = <<>>
        /\ last' = "short" => Len(g.out) < amt
    BY ONLY <1>1, <1>3, <2>3, <2>4, amt = call.amt, BufferedIs, Zenon
  <2>6. /\ Len(g.out) = (IF amt < b.size THEN amt ELSE b.size) /\ b.size = Len(g.out) + g.b.size
        /\ g.b.size \in Nat /\ (g.out = <<>> => Len(g.out) = 0)
    <3>1. Limit(amt, b.size) = IF amt < b.size THEN amt ELSE b.size
      BY <1>3 DEF Limit, Smaller
    <3>2. IsBuffer(g.b) /\ Len(g.out) = Limit(amt, b.size) /\ b.size = Len(g.out) + g.b.size
      BY <2>3 DEF Gives
    <3> QED BY <3>1, <3>2, SizeIs, EmptySeq
  <2>7. Plainly(scenario) /\ buffer'.size > 0 => spoiled
    <3> SUFFICES ASSUME Plainly(scenario), ~spoiled PROVE g.b.size = 0
      BY <2>5, <2>6
    <3>1. b.size = c.size + Len(o.data)
      BY <1>12, <1>13
    <3>2. c.size = 0 \/ Arrived = 0
      BY <1>1, <1>5, <1>14
    <3>3. PICK l, z, a : l = Len(o.data) /\ z = c.size /\ a = Arrived
      OBVIOUS
    <3>4. PICK n, m, e : n = next /\ m = next' /\ e = scenario.sent
      OBVIOUS
    <3>5. l = m - n /\ a = e - n /\ n \in Nat /\ m \in Nat /\ e \in Nat /\ m <= e /\ l \in Nat
      BY ONLY <1>15, <1>16, <3>3, <3>4
    <3>6. z \in Nat /\ z < amt /\ l <= amt /\ (z = 0 \/ a = 0)
      BY ONLY <1>1, <1>5, <3>2, <3>3, buffer.size < amt, Len(o.data) <= amt
    <3>7. z + l <= amt
      BY ONLY <3>5, <3>6, amt \in Nat \ {0}
    <3> QED BY ONLY <1>12, <2>6, <3>1, <3>3, <3>7, amt \in Nat \ {0}
  <2>8. last' \in {"end", "short"} => o.data = <<>> /\ b.size < amt /\ buffer'.size = 0
    <3>1. last' \in {"end", "short"} => Len(g.out) < amt
      BY <2>5, <2>6
    <3>2. Len(g.out) < amt => b.size < amt /\ g.b.size = 0
      BY <1>12, <2>6
    <3> QED BY <1>18, <2>5, <3>1, <3>2
  <2>9. Noticed(scenario) /\ ~spoiled /\ last' \in {"end", "short"} => delivered' = Body
    <3> SUFFICES ASSUME Noticed(scenario), ~spoiled, last' \in {"end", "short"}
          PROVE delivered' = Body
      OBVIOUS
    <3>1. o.data = <<>> /\ b.size < amt /\ buffer'.size = 0
      BY <2>8
    <3>2. next' = Len(scenario.wire)
      BY <1>2, <3>1 DEF HasRead, Ends
    <3>3. Len(r.out) < max
      BY <1>1, <1>5, <1>12, <3>1
    <3>4. At(scenario, r.d, next') = next'
      BY <1>8, <3>3
    <3>5. Lined(scenario, Out', r.d, next', FALSE)
      <4>1. Follows(scenario, Out', r.d, next')
        BY <1>9, <1>12, <2>5 DEF Lined
      <4> QED BY <4>1 DEF Lined
    <3> QED BY <1>1, <1>2, <1>9, <3>1, <3>2, <3>4, <3>5, WholeBody
  <2>10. PICK e, total : e = r.d /\ total = Out \o r.out
    OBVIOUS
  <2>11. /\ e \in Maybe /\ Lined(scenario, total, e, next', spoiled) /\ Out' = total
         /\ decoder' = e /\ call' = Idle /\ iter' = iter /\ spoiled' = spoiled /\ cached' = cached
    BY <1>9, <1>11, <1>12, <2>5, <2>10
  <2> QED BY ONLY HasRead(o), scenario.decode, uncached', <2>7, <2>9, <2>11, ReturnSound
<1> QED BY <1>17, <1>18

LEMMA ReadFills ==
    ASSUME TypesOfNetwork, NEW amt \in Amount \ {0}, NEW o \in RawReads(amt, FALSE), Receive(o),
           o.err = "none", fpopen, amt # None
    PROVE  Len(o.data) >= amt \/ next' = scenario.sent
<1>1. Len(o.data) >= amt \/ Len(o.data) = Arrived \/ Len(o.data) = left
  BY RawReadIs
<1>2. /\ next \in Nat /\ Arrived \in Nat /\ next + Arrived = scenario.sent
      /\ scenario.sent \in 0..Len(wire) /\ Len(wire) \in Nat
  BY WireType
<1>3. next' = next + Len(o.data)
  BY DEF Receive, Caught
<1>4. Len(o.data) \in Nat /\ Len(o.data) <= Arrived
  BY RawReadIs, LenProperties DEF Reads, Outcome
<1>5. left = None \/ left = Len(wire) - next
  BY DEF TypesOfNetwork, left
<1>6. PICK l, k, a, e, n, w : l = Len(o.data) /\ k = next /\ a = Arrived /\ e = scenario.sent
        /\ n = left /\ w = Len(wire)
  OBVIOUS
<1>7. n = None => l # n
  BY <1>4, <1>6, NoneAssumption
<1>8. l = a \/ (l = n /\ n = w - k) => k + l = e
  BY ONLY <1>2, <1>4, <1>6
<1> QED BY ONLY <1>1, <1>3, <1>5, <1>6, <1>7, <1>8

LEMMA ReadMoreSound ==
    ASSUME Types, Types', Sound, Ordinary(scenario), ReadMore PROVE Sound'
<1>1. TypesOfNetwork /\ TypesOfReading /\ TypesOfCalls
  BY DEF Types
<1>2. call.m = "read" /\ call \in ReadCall /\ call.amt \in Amount \ {0} /\ call.cache \in BOOLEAN
  BY <1>1, CallIs DEF ReadMore
<1>3. PICK amt \in Amount \ {0} : amt = call.amt
  BY <1>2
<1>4. PICK o \in RawReads(amt, FALSE) :
          /\ Receive(o)
          /\ IF o.err # "none" THEN Raises(o.err) /\ UNCHANGED reading
             ELSE /\ uncached' = (uncached \/ ~call.cache)
                  /\ IF call.first /\ o.data = <<>> /\ buffer.size = 0 /\ ~HasTail(decoder)
                     THEN /\ Returns("read", amt, <<>>)
                          /\ UNCHANGED <<decoder, hasdecoded, buffer, cached>>
                     ELSE IF amt = None THEN FinishAll(o.data)
                     ELSE IF ~scenario.decode
                     THEN /\ Returns("read", amt, Bytes(o.data))
                          /\ UNCHANGED <<decoder, hasdecoded, buffer, cached>>
                     ELSE FinishSome(o.data)
  BY <1>3 DEF ReadMore
<1>5. scenario' = scenario /\ FALSE \in BOOLEAN
  BY DEF ReadMore
<1>6. CASE o.err # "none"
  BY <1>4, <1>5, <1>6, ErrorReads
<1>7. CASE o.err = "none"
  <2>1. HasRead(o)
    BY <1>2, <1>4, <1>5, <1>7, ReadHas
  <2>2. Calling
    BY <2>1, HasReadIs
  <2>3. /\ amt = None => call.first
        /\ call.cache => amt = None
    BY <1>2, <1>3, <2>2 DEF Calling
  <2>4. uncached' = (uncached \/ ~call.cache)
    BY <1>4, <1>7
  <2>5. CASE call.first /\ o.data = <<>> /\ buffer.size = 0 /\ ~HasTail(decoder)
    <3>1. Returns("read", amt, <<>>) /\ UNCHANGED <<decoder, buffer, cached>>
      BY <1>4, <1>7, <2>5
    <3> QED BY <2>1, <2>5, <3>1, NothingSound
  <2>6. CASE ~(call.first /\ o.data = <<>> /\ buffer.size = 0 /\ ~HasTail(decoder)) /\ amt = None
    <3>1. FinishAll(o.data)
      BY <1>4, <1>7, <2>6
    <3>2. ~fpopen'
      <4>1. ~o.open
        BY <1>1, <1>5, <1>7, <2>6, RawReadIs
      <4> QED BY <1>4, <4>1 DEF Receive, Caught
    <3>3. ~(o.data = <<>> /\ buffer.size = 0 /\ ~HasTail(decoder))
      BY <2>3, <2>6
    <3> QED BY ONLY <1>2, <2>1, <2>4, <3>1, <3>2, <3>3, FinishAllSound
  <2>7. CASE ~(call.first /\ o.data = <<>> /\ buffer.size = 0 /\ ~HasTail(decoder)) /\ amt # None
    <3>1. Reads(o, amt)
      BY <1>1, <1>5, RawReadIs
    <3>2. Plainly(scenario) => Len(Bytes(o.data)) = Len(o.data)
      BY <1>1, <3>1, PlainBytes
    <3>3. o.data # <<>> => Len(o.data) >= amt \/ next' = scenario.sent
      <4>1. o.data # <<>> => fpopen
        BY <2>1 DEF HasRead
      <4> QED BY <1>1, <1>4, <1>7, <2>7, <4>1, ReadFills
    <3>4. amt \in Nat \ {0} /\ Len(o.data) <= amt
      BY <2>7, <3>1 DEF Amount, Reads
    <3>5. uncached' = TRUE
      BY <2>3, <2>4, <2>7
    <3>6. CASE ~scenario.decode
      <4>1. Returns("read", amt, Bytes(o.data)) /\ UNCHANGED <<decoder, buffer, cached>>
        BY <1>4, <1>7, <2>7, <3>6
      <4>2. Len(Bytes(o.data)) = Len(o.data)
        BY <3>2, <3>6 DEF Plainly
      <4> QED BY ONLY <2>1, <2>7, <3>3, <3>4, <3>5, <3>6, <4>1, <4>2, PlainSound
    <3>7. CASE scenario.decode
      <4>1. FinishSome(o.data)
        BY <1>4, <1>7, <2>7, <3>7
      <4>2. buffer.size < amt
        BY <1>1, <1>2, <1>3, <2>7 DEF TypesOfCalls, ReadCall, Read1Call, Idle, DrainCall
      <4> QED BY ONLY <1>2, <1>3, <2>1, <3>2, <3>3, <3>4, <3>5, <3>7, <4>1, <4>2, FinishSomeSound
    <3> QED BY <3>6, <3>7
  <2> QED BY <2>5, <2>6, <2>7
<1> QED BY <1>6, <1>7

(* A call begins, and what comes from the tail of the decoder d is put into b.  *)
Refills(r, b, d) ==
    /\ r.ok /\ (r.d = None => d = None) /\ IsBuffer(b)
    /\ delivered \o Content(b) = Out \o r.out
    /\ Lined(scenario, Out \o r.out, r.d, next, spoiled)
    /\ Plainly(scenario) \/ ~uncached => b = buffer /\ r.d = d

LEMMA TailRefills ==
    ASSUME Types, Sound, Ordinary(scenario), NEW max \in Amount \ {0}
    PROVE  Refills(FromTail(decoder, max), Refilled(FromTail(decoder, max)), decoder)
<1>1. /\ scenario \in Scenarios /\ spoiled \in BOOLEAN /\ IsBuffer(buffer) /\ decoder \in Maybe
      /\ Out \in Seq(Nat) /\ next \in 0..Len(scenario.wire)
  BY StateIs
<1>2. Order /\ Unread
  BY DEF Sound
<1>3. PICK r, b, d : r = FromTail(d, max) /\ b = Refilled(r) /\ d = decoder
  OBVIOUS
<1>4. Grows(scenario, Out, d, next, spoiled, r)
  <2>1. PICK s, all, k, bb : s = scenario /\ all = Out /\ k = next /\ bb = spoiled
    OBVIOUS
  <2>2. s \in Scenarios /\ k \in 0..Len(s.wire) /\ all \in Seq(Nat) /\ bb \in BOOLEAN
        /\ d \in Maybe /\ Lined(s, all, d, k, bb)
    BY ONLY <1>1, <1>2, <1>3, <2>1 DEF Order
  <2>3. Decodable(s)
    BY <2>1 DEF Ordinary
  <2>4. Grows(s, all, d, k, bb, FromTail(d, max))
    BY ONLY <2>1, <2>2, <2>3, max \in Amount \ {0}, LinedTail
  <2> QED BY ONLY <1>3, <2>1, <2>4
<1>5. /\ IsBuffer(b) /\ delivered \o Content(b) = Out \o r.out
      /\ ~HasTail(d) => b = buffer /\ r.d = d
  <2>1. d \in Maybe /\ (~HasTail(decoder) => ~HasTail(d)) /\ (HasTail(decoder) => d = decoder)
    BY <1>1, <1>3
  <2>2. max \in Amount
    OBVIOUS
  <2> QED BY <1>3, <2>1, <2>2, RefilledIs
<1>6. Plainly(scenario) \/ ~uncached => ~HasTail(d)
  <2>1. Plainly(scenario) => d = None
    BY <1>2, <1>3, InitialisedIs
  <2> QED BY <1>2, <1>3, <2>1 DEF Unread, HasTail
<1>7. Refills(r, b, d)
  BY ONLY <1>4, <1>5, <1>6, Zenon DEF Refills, Grows
<1> QED BY ONLY <1>3, <1>7

LEMMA NoneRefills ==
    ASSUME Types, Sound, NEW r, r = [d |-> decoder, out |-> <<>>, ok |-> TRUE]
    PROVE  Refills(r, buffer, decoder)
<1>1. IsBuffer(buffer) /\ Out \in Seq(Nat)
  BY StateIs
<1>2. r.d = decoder /\ r.out = <<>> /\ r.ok
  OBVIOUS
<1>3. Out \o <<>> = Out
  BY <1>1, ConcatEmptySeq
<1>4. Lined(scenario, Out, decoder, next, spoiled)
  BY DEF Sound, Order
<1>5. delivered \o Content(buffer) = Out
  BY DEF Out
<1> QED BY ONLY <1>1, <1>2, <1>3, <1>4, <1>5, Zenon DEF Refills

Read1Called(amt) == [m |-> "read1", amt |-> amt, first |-> TRUE]

LEMMA Read1Sound ==
    ASSUME Types, Types', Sound, Ordinary(scenario), NEW amt, Read1(amt) PROVE Sound'
<1>1. Order /\ Calling /\ Holding /\ Unread /\ (Noticed(scenario) => Reached)
  BY DEF Sound
<1>2. /\ call = Idle /\ ~iter.on /\ <<"read1", amt>> \in scenario.calls
      /\ scenario' = scenario /\ next' = next /\ fpopen' = fpopen /\ cached' = cached
      /\ uncached' = uncached
  BY DEF Read1, MayCall, NoNetwork, network
<1>3. amt \in Amount
  <2>1. TypesOfNetwork
    BY DEF Types
  <2>2. IsScenario(scenario)
    BY <2>1, WireType
  <2>3. <<"read1", amt>>[2] \in Nat \cup {None}
    BY <1>2, <2>2 DEF IsScenario
  <2> QED BY <2>3 DEF Amount
<1>4. ~OnlyStreamed(scenario)
  <2>1. <<"read1", amt>>[1] # "stream"
    OBVIOUS
  <2> QED BY <1>2, <2>1 DEF Ordinary
<1>5. /\ IsBuffer(buffer) /\ buffer.size \in Nat /\ delivered \in Seq(Nat) /\ spoiled \in BOOLEAN
  BY StateIs
<1>6. spoiled => ~fpopen
  <2>1. call.m # "drain"
    BY <1>2 DEF Idle
  <2> QED BY <1>1, <2>1, IdleSpoiled
<1>7. /\ ~scenario.decode => buffer.size = 0 /\ Plainly(scenario)
      /\ Plainly(scenario) /\ buffer.size > 0 => spoiled
      /\ ~uncached => buffer.size = 0 /\ ~HasTail(decoder) /\ (delivered = <<>> \/ ~fpopen)
  BY <1>1, <1>2 DEF Holding, Unread, Idle, Plainly
<1> DEFINE more == hasdecoded /\ (amt = None \/ buffer.size < amt)
           room == IF amt = None THEN None ELSE amt - buffer.size
<1>8. more => room \in Amount \ {0}
  BY <1>3, <1>5, NoneAssumption DEF Amount
<1>9. PICK r, b :
         /\ r = IF more THEN FromTail(decoder, room) ELSE [d |-> decoder, out |-> <<>>, ok |-> TRUE]
         /\ b = IF more THEN Refilled(r) ELSE buffer
         /\ decoder' = r.d
         /\ IF ~r.ok THEN Raises("undecodable") /\ UNCHANGED buffer
            ELSE IF hasdecoded /\ b.size > 0
            THEN ReturnsBuffered("read1", amt, Taken(b, amt))
            ELSE /\ buffer' = b
                 /\ IF amt = 0 THEN Returns("read1", amt, <<>>)
                    ELSE Continues([m |-> "read1", amt |-> amt, first |-> TRUE])
  BY DEF Read1
<1>10. Refills(r, b, decoder)
  <2>1. CASE more
    <3>1. Refills(FromTail(decoder, room), Refilled(FromTail(decoder, room)), decoder)
      BY <1>8, <2>1, TailRefills
    <3> QED BY ONLY <1>9, <2>1, <3>1
  <2>2. CASE ~more
    <3>1. r = [d |-> decoder, out |-> <<>>, ok |-> TRUE] /\ b = buffer
      BY ONLY <1>9, <2>2
    <3>2. Refills(r, buffer, decoder)
      BY ONLY Types, Sound, <3>1, NoneRefills
    <3> QED BY ONLY <3>1, <3>2
  <2> QED BY ONLY <2>1, <2>2
<1> HIDE DEF more, room
<1>11. /\ r.ok /\ (r.d = None => decoder = None) /\ IsBuffer(b)
       /\ delivered \o Content(b) = Out \o r.out
       /\ Lined(scenario, Out \o r.out, r.d, next, spoiled)
       /\ Plainly(scenario) \/ ~uncached => b = buffer /\ r.d = decoder
  BY <1>10 DEF Refills
<1>12. b.size \in Nat /\ (b.size # 0 => b.chunks # <<>>)
  BY <1>11, SizeIs
<1>13. CASE hasdecoded /\ b.size > 0
  <2>1. PICK g : g = Taken(b, amt)
    OBVIOUS
  <2>2. ReturnsBuffered("read1", amt, g)
    BY <1>9, <1>11, <1>13, <2>1
  <2>3. Gives(b, amt, g)
    BY <1>3, <1>11, <1>12, <1>13, <2>1, GivesTaken
  <2>4. /\ Out' = delivered \o Content(b)
        /\ buffer' = g.b
        /\ call' = Idle /\ iter' = iter /\ spoiled' = spoiled
        /\ last' = "end" => amt # 0 /\ g.out = <<>>
        /\ last' # "short"
    BY ONLY <1>5, <2>2, <2>3, BufferedIs
  <2>5. last' \notin {"end", "short"}
    BY <1>12, <1>13, <2>3, <2>4 DEF Gives
  <2>6. Plainly(scenario) => spoiled /\ scenario.decode
    BY <1>7, <1>11, <1>13
  <2>7. uncached
    BY <1>7, <1>11, <1>13
  <2>8. Order'
    BY <1>2, <1>9, <1>11, <2>4, OrderReturned
  <2>9. Calling'
    BY <1>1, <1>2, <1>6, <2>4, CallingIdle
  <2>10. Holding'
    BY <1>2, <1>4, <1>7, <2>4, <2>6, HoldingIdle
  <2>11. Unread'
    BY <1>2, <2>7 DEF Unread
  <2>12. Noticed(scenario) => Reached'
    BY <1>1, <1>2, <1>4, <2>4, <2>5, ReachedStays
  <2> QED BY <1>2, <2>8, <2>9, <2>10, <2>11, <2>12 DEF Sound
<1>14. CASE ~(hasdecoded /\ b.size > 0)
  <2>1. /\ buffer' = b /\ decoder' = r.d
        /\ IF amt = 0 THEN Returns("read1", amt, <<>>) ELSE Continues(Read1Called(amt))
    BY <1>9, <1>11, <1>14 DEF Read1Called
  <2>2. /\ delivered' = delivered /\ spoiled' = spoiled /\ iter' = iter
        /\ \/ amt = 0 /\ call' = Idle /\ last' = "some"
           \/ call' = Read1Called(amt) /\ last' = last
    <3>1. CASE amt = 0
      <4>1. delivered \o <<>> = delivered
        BY <1>5, ConcatEmptySeq
      <4> QED BY <2>1, <3>1, <4>1 DEF Returns
    <3>2. CASE amt # 0
      BY <2>1, <3>2 DEF Continues
    <3> QED BY <3>1, <3>2
  <2>3. Order'
    <3>1. Out' = Out \o r.out
      BY <1>11, <2>1, <2>2 DEF Out
    <3> QED BY <1>2, <1>11, <2>1, <2>2, <3>1, OrderReturned
  <2>4. Calling'
    <3>1. Calling /\ call = Idle /\ ~iter'.on /\ call' \in {Idle, Read1Called(amt)}
          /\ <<"read1", amt>> \in scenario.calls /\ ~OnlyStreamed(scenario)
          /\ (spoiled' => ~fpopen') /\ scenario' = scenario
      BY <1>1, <1>2, <1>4, <1>6, <2>2
    <3> QED BY ONLY <3>1 DEF Calling, Idle, Read1Called
  <2>5. Holding'
    <3>1. call'.m # "read" /\ ~iter'.on
      BY <1>2, <2>2 DEF Idle, Read1Called
    <3>2. ~scenario.decode \/ Plainly(scenario) => buffer' = buffer
      BY <1>7, <1>11, <2>1
    <3> QED BY <1>2, <1>4, <1>7, <2>2, <3>1, <3>2 DEF Holding
  <2>6. Unread'
    <3>1. ~uncached => ~HasTail(decoder)'
      BY <1>2, <1>7, <1>11, <2>1, TailAfter
    <3> QED BY <1>2, <1>7, <1>11, <2>1, <2>2, <3>1 DEF Unread
  <2>7. Noticed(scenario) => Reached'
    <3>1. Read1Called(amt) # Idle
      BY DEF Read1Called, Idle
    <3> QED BY <1>1, <1>2, <1>4, <2>2, <3>1, ReachedStays
  <2> QED BY <1>2, <2>3, <2>4, <2>5, <2>6, <2>7 DEF Sound
<1> QED BY <1>13, <1>14

(* read1 has data.                                                           *)
LEMMA FinishRead1Sound ==
    ASSUME NEW o, HasRead(o), scenario.decode, call \in Read1Call,
           NEW amt \in Amount \ {0}, amt = call.amt,
           FinishRead1(o.data), uncached',
           call.first /\ amt # None => Len(o.data) <= amt,
           Plainly(scenario) => Len(Bytes(o.data)) = Len(o.data)
    PROVE  Sound'
<1>1. /\ scenario \in Scenarios /\ spoiled \in BOOLEAN
      /\ IsBuffer(buffer) /\ buffer.size \in Nat /\ Content(buffer) \in Seq(Nat)
      /\ delivered \in Seq(Nat) /\ Out \in Seq(Nat)
      /\ next \in 0..Len(scenario.wire) /\ next' \in 0..Len(scenario.wire)
      /\ Holding /\ Calling /\ Order /\ o.data \in Seq(Unit)
      /\ decoder \in Maybe
      /\ spoiled => next = next'
  BY HasReadIs
<1>2. /\ Types /\ Types' /\ Ordinary(scenario) /\ scenario' = scenario /\ Arrives(o)
      /\ o.data # <<>> => fpopen /\ ~spoiled
      /\ o.data = <<>> => ~fpopen'
      /\ spoiled => o.data = <<>> /\ ~fpopen'
      /\ Sound /\ ~OnlyStreamed(scenario) /\ (iter.on => ~iter.chunks)
  BY DEF HasRead
<1>3. call.m = "read1"
  BY DEF Read1Call
<1>4. PICK i : i = Initialised
  OBVIOUS
<1>5. /\ i \in Maybe /\ Lined(scenario, Out, i, next, spoiled)
      /\ i # None \/ Plainly(scenario)
      /\ Plainly(scenario) => i = None
  BY <1>1, <1>2, <1>4, InitialisedIs
<1>6. PICK c, flush : c = buffer /\ flush = (o.data = <<>>) /\ flush \in BOOLEAN
  OBVIOUS
<1>7. PICK r : r = Decode(i, o.data, flush, amt)
  OBVIOUS
<1>8. /\ Grows(scenario, Out, i, next', spoiled, r)
      /\ ~spoiled /\ o.data = <<>> => At(scenario, r.d, next') = next'
  <2>1. LET x == Decode(i, o.data, flush, amt)
        IN  /\ Grows(scenario, Out, i, next', spoiled, x)
            /\ ~spoiled /\ (flush \/ amt = None \/ Len(x.out) < amt) =>
                  At(scenario, x.d, next') = next'
    <3>1. PICK max : max = amt /\ max \in Amount \ {0}
      OBVIOUS
    <3>2. LET x == Decode(i, o.data, flush, max)
          IN  /\ Grows(scenario, Out, i, next', spoiled, x)
              /\ ~spoiled /\ (flush \/ max = None \/ Len(x.out) < max) =>
                    At(scenario, x.d, next') = next'
      <4>1. /\ Types /\ Ordinary(scenario) /\ i \in Maybe /\ (i # None \/ Plainly(scenario))
            /\ Lined(scenario, Out, i, next, spoiled) /\ Arrives(o) /\ (spoiled => next = next')
            /\ flush \in BOOLEAN /\ max \in Amount \ {0}
        BY <1>1, <1>2, <1>5, <1>6, <3>1
      <4> QED BY ONLY <4>1, DecodeSound
    <3> QED BY ONLY <3>1, <3>2
  <2> QED BY ONLY <1>6, <1>7, <2>1
<1>9. /\ r.ok /\ r.d \in Maybe /\ r.out \in Seq(Nat) /\ (r.d = None => i = None)
      /\ Lined(scenario, Out \o r.out, r.d, next', spoiled)
  BY <1>8 DEF Grows, MaybeDecoded
<1>10. PICK b : b = Put(c, r.out)
  OBVIOUS
<1>11. /\ decoder' = r.d /\ cached' = cached
       /\ IF r.out = <<>> /\ o.data # <<>>
          THEN buffer' = b /\ Continues([call EXCEPT !.first = FALSE])
          ELSE ReturnsBuffered("read1", amt, Taken(b, amt))
  <2>1. \E x \in {Decode(i, o.data, flush, amt)} :
          /\ Decodes(x.d) /\ UNCHANGED cached
          /\ IF ~x.ok THEN Raises("undecodable") /\ UNCHANGED buffer
             ELSE IF x.out = <<>> /\ o.data # <<>>
             THEN buffer' = Put(c, x.out) /\ Continues([call EXCEPT !.first = FALSE])
             ELSE ReturnsBuffered("read1", amt, Taken(Put(c, x.out), amt))
    BY <1>4, <1>6, amt = call.amt DEF FinishRead1
  <2> QED BY <1>7, <1>9, <1>10, <2>1 DEF Decodes
<1>12. /\ IsBuffer(b) /\ b.size = c.size + Len(r.out) /\ Len(r.out) \in Nat /\ b.size \in Nat
       /\ delivered \o Content(b) = Out \o r.out /\ (b.size # 0 => b.chunks # <<>>)
          /\ b.chunks # <<>>
       /\ (r.out = <<>> <=> Len(r.out) = 0)
  <2>1. IsBuffer(b) /\ b.size = c.size + Len(r.out)
    BY <1>1, <1>6, <1>9, <1>10, PutIs
  <2>2. delivered \o Content(b) = Out \o r.out
    <3>1. PICK dl, out : dl = delivered /\ out = r.out
      OBVIOUS
    <3>2. dl \o Content(Put(c, out)) = (dl \o Content(c)) \o out
      BY ONLY <1>1, <1>6, <1>9, <3>1, OutPut
    <3> QED BY ONLY <1>6, <1>10, <3>1, <3>2, Zenon DEF Out
  <2>3. b.chunks # <<>>
    <3>1. PICK t, e : t = c.chunks /\ e = r.out
      OBVIOUS
    <3>2. t \in Seq(Seq(Nat)) /\ e \in Seq(Nat) /\ b.chunks = Append(t, e)
      BY <1>1, <1>6, <1>9, <1>10, <3>1 DEF Put, IsBuffer
    <3>3. Len(Append(t, e)) = Len(t) + 1 /\ Len(t) \in Nat /\ Append(t, e) \in Seq(Seq(Nat))
      BY ONLY <3>2, AppendProperties, LenProperties
    <3>4. PICK u : u = Append(t, e)
      OBVIOUS
    <3>5. u \in Seq(Seq(Nat)) /\ Len(u) # 0
      BY ONLY <3>3, <3>4
    <3>6. u # <<>>
      BY ONLY <3>5, EmptySeq
    <3> QED BY ONLY <3>2, <3>4, <3>6, Zenon
  <2>4. Len(r.out) \in Nat /\ b.size \in Nat /\ (r.out = <<>> <=> Len(r.out) = 0)
    BY <1>9, <2>1, LenProperties, SizeIs, EmptySeq
  <2> QED BY <2>1, <2>2, <2>3, <2>4
<1>13. Plainly(scenario) => Len(r.out) = Len(o.data) /\ call.first /\ (c.size = 0 \/ spoiled)
  <2>1. None \in Maybe
    BY DEF Maybe
  <2>2. amt \in Amount
    OBVIOUS
  <2>3. Plainly(scenario) => r.out = Bytes(o.data)
    <3>1. ASSUME i = None PROVE r.out = Bytes(o.data)
      <4>1. r = [d |-> None, out |-> Bytes(o.data), ok |-> TRUE]
        BY ONLY <1>7, <3>1, Zenon DEF Decode
      <4> QED BY ONLY <4>1
    <3> QED BY <1>5, <3>1
  <2>4. Plainly(scenario) => call.first
    BY <1>1, <1>3 DEF Calling
  <2>5. Plainly(scenario) => c.size = 0 \/ spoiled
    BY <1>1, <1>3, <1>6 DEF Holding
  <2> QED BY <2>3, <2>4, <2>5
<1>14. Len(o.data) \in Nat /\ (Len(o.data) = 0 => o.data = <<>>)
  BY <1>1, LenProperties, EmptySeq
<1>15. CASE r.out = <<>> /\ o.data # <<>>
  <2>1. /\ buffer' = b /\ call' = [call EXCEPT !.first = FALSE]
        /\ last' = last /\ delivered' = delivered /\ spoiled' = spoiled /\ iter' = iter
    BY <1>11, <1>15 DEF Continues
  <2>2. Order'
    <3>1. Out' = Out \o r.out
      BY <1>12, <2>1 DEF Out
    <3> QED BY <1>2, <1>9, <1>11, <2>1, <3>1, OrderReturned
  <2>3. call'.m = "read1" /\ call'.amt = call.amt
    BY ONLY <2>1, call \in Read1Call DEF Read1Call
  <2>4. ~spoiled
    BY <1>2, <1>15
  <2>5. call' # Idle
    BY <2>3 DEF Idle
  <2>6. ~Plainly(scenario)
    BY <1>12, <1>13, <1>14, <1>15
  <2>7. Calling'
    <3>1. <<"read1", call.amt>> \in scenario.calls /\ (iter.on => Streamed(scenario))
      BY <1>1, <1>3 DEF Calling
    <3> QED BY <1>2, <2>1, <2>3, <2>4, <2>5, <2>6, <3>1 DEF Calling
  <2>8. Holding'
    <3>1. decoder' # None
      BY ONLY <1>5, <1>9, <1>11, <2>6, Zenon
    <3> QED BY <1>2, <2>3, <2>6, <3>1 DEF Holding
  <2>9. Unread'
    BY DEF Unread
  <2>10. ASSUME Noticed(scenario) PROVE Reached'
    <3>1. ~fpopen' /\ ~spoiled => next' = Len(scenario.wire)
      BY <2>10 DEF HasRead, Ends
    <3>2. Reached
      BY <1>2, <2>10 DEF Sound
    <3> QED BY <1>2, <1>11, <2>1, <2>5, <3>1, <3>2 DEF Reached, Ended, Body, wire
  <2> QED BY <1>2, <2>2, <2>7, <2>8, <2>9, <2>10 DEF Sound
<1>16. CASE ~(r.out = <<>> /\ o.data # <<>>)
  <2>1. PICK g : g = Taken(b, amt)
    OBVIOUS
  <2>2. amt \in Amount
    OBVIOUS
  <2>3. Gives(b, amt, g)
    BY <1>12, <2>1, <2>2, GivesTaken
  <2>4. ReturnsBuffered("read1", amt, g)
    BY <1>11, <1>16, <2>1
  <2>5. /\ Out' = delivered \o Content(b)
        /\ buffer' = g.b
        /\ call' = Idle /\ iter' = iter /\ spoiled' = spoiled
        /\ last' = "end" => g.out = <<>>
        /\ last' # "short"
    BY ONLY <1>1, <2>3, <2>4, BufferedIs
  <2>6. /\ Len(g.out) = Limit(amt, b.size) /\ b.size = Len(g.out) + g.b.size
        /\ g.b.size \in Nat /\ Len(g.out) \in Nat /\ (g.out = <<>> => b.size = 0)
    <3>1. /\ IsBuffer(g.b) /\ Len(g.out) = Limit(amt, b.size) /\ b.size = Len(g.out) + g.b.size
          /\ (g.out = <<>> => b.size = 0) /\ g.out \in Seq(Nat)
      BY <2>3 DEF Gives
    <3> QED BY <3>1, SizeIs, LenProperties
  <2>7. Plainly(scenario) /\ buffer'.size > 0 => spoiled
    <3> SUFFICES ASSUME Plainly(scenario), ~spoiled PROVE g.b.size = 0
      BY <2>5, <2>6
    <3>1. b.size = Len(o.data)
      BY <1>12, <1>13, <1>14
    <3>2. amt = None \/ b.size <= amt
      BY <1>13, <3>1, amt = call.amt
    <3>3. Limit(amt, b.size) = b.size
      BY <1>12, <2>2, <3>2 DEF Limit, Smaller, Amount
    <3> QED BY <1>12, <2>6, <3>3
  <2>8. last' = "end" => o.data = <<>> /\ buffer'.size = 0
    <3> SUFFICES ASSUME last' = "end" PROVE o.data = <<>> /\ buffer'.size = 0
      OBVIOUS
    <3>1. b.size = 0
      BY <2>5, <2>6
    <3>2. Len(r.out) = 0 /\ g.b.size = 0
      <4>1. PICK x, y, u, v : x = Len(r.out) /\ y = c.size /\ u = Len(g.out) /\ v = g.b.size
        OBVIOUS
      <4>2. x \in Nat /\ y \in Nat /\ u \in Nat /\ v \in Nat /\ 0 = y + x /\ 0 = u + v
        BY ONLY <1>1, <1>6, <1>12, <2>6, <3>1, <4>1
      <4>3. x = 0 /\ v = 0
        BY ONLY <4>2
      <4> QED BY ONLY <4>1, <4>3
    <3> QED BY <1>12, <1>16, <2>5, <3>2
  <2>9. Noticed(scenario) /\ ~spoiled /\ last' = "end" => delivered' = Body
    <3> SUFFICES ASSUME Noticed(scenario), ~spoiled, last' = "end" PROVE delivered' = Body
      OBVIOUS
    <3>1. o.data = <<>> /\ buffer'.size = 0
      BY <2>8
    <3>2. next' = Len(scenario.wire)
      BY <1>2, <3>1 DEF HasRead, Ends
    <3>3. At(scenario, r.d, next') = next'
      BY <1>8, <3>1
    <3>4. Lined(scenario, Out', r.d, next', FALSE)
      <4>1. Follows(scenario, Out', r.d, next')
        BY <1>9, <1>12, <2>5 DEF Lined
      <4> QED BY <4>1 DEF Lined
    <3> QED BY <1>1, <1>2, <1>9, <3>1, <3>2, <3>3, <3>4, WholeBody
  <2>10. PICK e, total : e = r.d /\ total = Out \o r.out
    OBVIOUS
  <2>11. /\ e \in Maybe /\ Lined(scenario, total, e, next', spoiled) /\ Out' = total
         /\ decoder' = e /\ call' = Idle /\ iter' = iter /\ spoiled' = spoiled /\ cached' = cached
    BY <1>9, <1>11, <1>12, <2>5, <2>10
  <2> QED BY ONLY HasRead(o), scenario.decode, uncached', <2>5, <2>7, <2>9, <2>11, ReturnSound
<1> QED BY <1>15, <1>16

LEMMA Read1MoreSound ==
    ASSUME Types, Types', Sound, Ordinary(scenario), Read1More PROVE Sound'
<1>1. TypesOfNetwork /\ TypesOfReading /\ TypesOfCalls
  BY DEF Types
<1>2. call.m = "read1" /\ call \in Read1Call /\ call.amt \in Amount \ {0}
  BY <1>1, CallIs DEF Read1More
<1>3. PICK amt \in Amount \ {0} : amt = IF call.first THEN call.amt ELSE Big
  BY <1>1, <1>2, BigIs
<1>4. PICK o \in RawReads(amt, TRUE) :
          /\ Receive(o)
          /\ IF o.err # "none" THEN Raises(o.err) /\ UNCHANGED reading
             ELSE /\ uncached' = TRUE
                  /\ IF scenario.decode THEN FinishRead1(o.data)
                     ELSE /\ Returns("read1", call.amt, Bytes(o.data))
                          /\ UNCHANGED <<decoder, hasdecoded, buffer, cached>>
  BY <1>3 DEF Read1More
<1>5. scenario' = scenario /\ TRUE \in BOOLEAN
  BY DEF Read1More
<1>6. CASE o.err # "none"
  BY <1>4, <1>5, <1>6, ErrorReads
<1>7. CASE o.err = "none"
  <2>1. amt = None => call.amt = None
    BY <1>3, BigAssumption, NoneAssumption
  <2>2. HasRead(o)
    BY <1>2, <1>4, <1>5, <1>7, <2>1, ReadHas
  <2>3. Reads(o, amt)
    BY <1>1, <1>5, RawReadIs
  <2>4. Plainly(scenario) => Len(Bytes(o.data)) = Len(o.data)
    BY <1>1, <2>3, PlainBytes
  <2>5. PICK a \in Amount \ {0} : a = call.amt
    BY <1>2
  <2>6. CASE scenario.decode
    <3>1. FinishRead1(o.data) /\ uncached' = TRUE
      BY <1>4, <1>7, <2>6
    <3>2. call.first /\ a # None => Len(o.data) <= a
      BY <1>3, <2>3, <2>5 DEF Reads
    <3> QED BY ONLY <1>2, <2>2, <2>4, <2>5, <2>6, <3>1, <3>2, FinishRead1Sound
  <2>7. CASE ~scenario.decode
    <3>1. Returns("read1", a, Bytes(o.data)) /\ UNCHANGED <<decoder, buffer, cached>>
            /\ uncached' = TRUE
      BY <1>4, <1>7, <2>5, <2>7
    <3>2. Len(Bytes(o.data)) = Len(o.data)
      BY <2>4, <2>7 DEF Plainly
    <3>3. PICK m : m = "read1"
      OBVIOUS
    <3>4. m # "read" /\ a # 0
      BY <2>5, <3>3
    <3>5. Returns(m, a, Bytes(o.data))
      BY <3>1, <3>3
    <3>6. /\ m = "read" => a # None
          /\ m = "read" /\ o.data # <<>> => Len(o.data) >= a \/ next' = scenario.sent
          /\ m = "read" => a \in Nat
      BY <3>4
    <3> QED BY ONLY <2>2, <2>7, <3>1, <3>2, <3>4, <3>5, <3>6, PlainSound
  <2> QED BY <2>6, <2>7
<1> QED BY <1>6, <1>7

(* The calls that begin.                                                     *)
LEMMA CalledIs ==
    ASSUME Types, Ordinary(scenario), NEW m, NEW amt, m # "stream", <<m, amt>> \in scenario.calls
    PROVE  amt \in Amount /\ ~OnlyStreamed(scenario)
<1>1. TypesOfNetwork
  BY DEF Types
<1>2. IsScenario(scenario)
  BY <1>1, WireType
<1>3. <<m, amt>>[2] \in Nat \cup {None}
  BY <1>2 DEF IsScenario
<1>4. <<m, amt>>[1] # "stream"
  OBVIOUS
<1> QED BY <1>3, <1>4 DEF Amount, Ordinary

LEMMA ReadSound ==
    ASSUME Types, Sound, Ordinary(scenario), NEW amt, Read(amt) PROVE Sound'
<1>1. /\ call = Idle /\ ~iter.on /\ <<"read", amt>> \in scenario.calls
      /\ BeginRead(amt, FALSE) /\ scenario' = scenario
  BY DEF Read, MayCall
<1>2. amt \in Amount /\ ~OnlyStreamed(scenario)
  BY <1>1, CalledIs
<1>3. PICK cache \in BOOLEAN : cache = FALSE
  OBVIOUS
<1>4. BeginRead(amt, cache) /\ (cache => amt = None) /\ (iter.on => ~iter.chunks)
  BY <1>1, <1>3
<1> QED BY <1>1, <1>2, <1>4, BeginReadSound

(* A step between two calls that leaves the bytes where they are.            *)
LEMMA IdleStays ==
    ASSUME Types, Sound, call = Idle, scenario' = scenario, next' = next, fpopen' = fpopen,
           decoder' = decoder, buffer' = buffer, uncached' = uncached, call' = call,
           delivered' = delivered, spoiled' = spoiled, iter' \in {iter, NotIterating}
    PROVE  Order' /\ Calling' /\ Holding' /\ Unread'
<1>1. Order /\ Calling /\ Holding /\ Unread
  BY DEF Sound
<1>2. Order'
  BY <1>1, OrderStays
<1>3. Calling'
  BY <1>1 DEF Calling, NotIterating, Idle
<1>4. Holding'
  BY <1>1 DEF Holding, NotIterating, Idle
<1>5. Unread'
  BY <1>1 DEF Unread, HasTail
<1> QED BY <1>2, <1>3, <1>4, <1>5

LEMMA DataSound ==
    ASSUME Types, Sound, Ordinary(scenario), Data PROVE Sound'
<1>1. call = Idle /\ ~iter.on /\ <<"data", None>> \in scenario.calls /\ scenario' = scenario
  BY DEF Data, MayCall
<1>2. PICK amt, cache : amt = None /\ cache = TRUE
  OBVIOUS
<1>3. amt \in Amount /\ cache \in BOOLEAN /\ ~OnlyStreamed(scenario)
  <2>1. PICK m : m = "data" /\ m # "stream"
    OBVIOUS
  <2> QED BY <1>1, <1>2, <2>1, CalledIs
<1>4. CASE cached \notin {None, <<>>}
  <2>1. /\ next' = next /\ fpopen' = fpopen /\ decoder' = decoder /\ buffer' = buffer
        /\ uncached' = uncached /\ call' = call /\ delivered' = delivered /\ spoiled' = spoiled
        /\ iter' = iter /\ cached' = cached /\ last' = "some"
    BY <1>4 DEF Data, NoNetwork, network, reading
  <2>2. Order' /\ Calling' /\ Holding' /\ Unread'
    BY <1>1, <2>1, IdleStays
  <2>3. Noticed(scenario) => Reached'
    <3>1. Noticed(scenario) => Reached
      BY DEF Sound
    <3> QED BY <1>1, <1>3, <2>1, <3>1, ReachedStays
  <2> QED BY <1>1, <2>2, <2>3 DEF Sound
<1>5. CASE cached \in {None, <<>>}
  <2>1. BeginRead(amt, cache)
    BY <1>2, <1>5 DEF Data
  <2>2. (cache => amt = None) /\ (iter.on => ~iter.chunks)
    BY <1>1, <1>2
  <2> QED BY <1>1, <1>3, <2>1, <2>2, BeginReadSound
<1> QED BY <1>4, <1>5

LEMMA StreamSound ==
    ASSUME Types, Sound, Ordinary(scenario), NEW amt, Stream(amt) PROVE Sound'
<1>1. Order /\ Calling /\ Holding /\ Unread /\ (Noticed(scenario) => Reached)
  BY DEF Sound
<1>2. /\ call = Idle /\ <<"stream", amt>> \in scenario.calls /\ scenario' = scenario
      /\ next' = next /\ fpopen' = fpopen /\ buffer' = buffer /\ cached' = cached
      /\ uncached' = uncached /\ call' = call /\ last' = last /\ delivered' = delivered
      /\ spoiled' = spoiled
  BY DEF Stream, MayCall, NoNetwork, network
<1>3. PICK i : i = Initialised
  OBVIOUS
<1>4. /\ Lined(scenario, Out, i, next, spoiled)
      /\ i # None \/ Plainly(scenario)
      /\ ~HasTail(decoder) => ~HasTail(i)
  BY <1>1, <1>3, InitialisedIs
<1>5. PICK c : c = (scenario.framing = "chunked")
  OBVIOUS
<1>6. iter'.on /\ iter'.chunks = c /\ decoder' = IF c THEN i ELSE decoder
  <2>1. PICK rest : rest = IF fpchunk /\ fpopen THEN Rest ELSE None
    OBVIOUS
  <2>2. iter' = [on |-> TRUE, amt |-> amt, chunks |-> c, rest |-> rest]
          /\ decoder' = IF iter'.chunks THEN i ELSE decoder
    BY <1>3, <1>5, <2>1 DEF Stream
  <2> QED BY ONLY <2>2
<1>7. Streamed(scenario)
  <2>1. <<"stream", amt>>[1] = "stream"
    OBVIOUS
  <2> QED BY <1>2, <2>1 DEF Streamed
<1>8. PICK d : d = decoder'
  OBVIOUS
<1>9. /\ Lined(scenario, Out, d, next, spoiled) /\ (~HasTail(decoder) => ~HasTail(d))
      /\ iter'.chunks /\ ~Plainly(scenario) => d # None
  <2>1. Lined(scenario, Out, decoder, next, spoiled)
    BY <1>1 DEF Order
  <2>2. d = i \/ (d = decoder /\ ~iter'.chunks)
    BY ONLY <1>6, <1>8, Zenon
  <2> QED BY ONLY <1>4, <2>1, <2>2, Zenon
<1>10. Order'
  <2>1. Out' = Out
    BY <1>2 DEF Out
  <2> QED BY <1>2, <1>8, <1>9, <2>1, OrderReturned
<1>11. Calling'
  BY <1>1, <1>2, <1>7 DEF Calling, Idle
<1>12. Holding'
  BY <1>1, <1>2, <1>8, <1>9 DEF Holding, Idle
<1>13. Unread'
  <2>1. ~uncached => ~HasTail(decoder)'
    BY <1>1, <1>2, <1>8, <1>9, TailAfter DEF Unread
  <2> QED BY <1>1, <1>2, <2>1 DEF Unread
<1>14. Noticed(scenario) => Reached'
  BY <1>1, <1>2, <1>6 DEF Reached, Ended, Body, wire
<1> QED BY <1>2, <1>10, <1>11, <1>12, <1>13, <1>14 DEF Sound

(* All units were read, and nothing is held back: the body was returned.     *)
LEMMA EndIsBody ==
    ASSUME Types, Order, ~spoiled, next = Len(scenario.wire), buffer.size = 0, ~HasTail(decoder)
    PROVE  delivered = Body
<1>1. /\ scenario \in Scenarios /\ decoder \in Maybe /\ delivered \in Seq(Nat) /\ Out = delivered
      /\ next \in 0..Len(scenario.wire)
  BY StateIs
<1>2. PICK s, d, k, all : s = scenario /\ d = decoder /\ k = next /\ all = delivered
  OBVIOUS
<1>3. /\ s \in Scenarios /\ d \in Maybe /\ all \in Seq(Nat) /\ k \in 0..Len(s.wire)
      /\ k = Len(s.wire) /\ Lined(s, all, d, k, FALSE)
  <2>1. Lined(scenario, Out, decoder, next, FALSE)
    BY DEF Order, Lined
  <2> QED BY ONLY <1>1, <1>2, <2>1, next = Len(scenario.wire)
<1>4. Fed(s, d, k)
  BY ONLY <1>3, LinedFed
<1>5. At(s, d, k) = k
  BY <1>2, <1>3, <1>4, WithoutTail
<1>6. all = Bytes(s.wire)
  BY ONLY <1>3, <1>5, AllIsBody
<1> QED BY ONLY <1>2, <1>6 DEF Body, wire

LEMMA StreamReadSound ==
    ASSUME Types, Sound, Ordinary(scenario), StreamRead PROVE Sound'
<1>1. Order /\ Calling /\ Holding /\ Unread /\ (Noticed(scenario) => Reached)
  BY DEF Sound
<1>2. iter.on /\ ~iter.chunks /\ call = Idle /\ scenario' = scenario
  BY DEF StreamRead
<1>3. iter.amt \in Amount \ {0} /\ ~OnlyStreamed(scenario)
  <2>1. TypesOfCalls
    BY DEF Types
  <2> QED BY <1>2, <2>1, IterIs DEF OnlyStreamed
<1>4. CASE fpopen \/ buffer.size > 0 \/ HasTail(decoder)
  <2>1. PICK amt \in Amount : amt = iter.amt
    BY <1>3
  <2>2. PICK cache \in BOOLEAN : cache = FALSE
    OBVIOUS
  <2>3. BeginRead(amt, cache) /\ (cache => amt = None) /\ (iter.on => ~iter.chunks)
    BY <1>2, <1>4, <2>1, <2>2 DEF StreamRead
  <2> QED BY <1>2, <1>3, <2>3, BeginReadSound
<1>5. CASE ~(fpopen \/ buffer.size > 0 \/ HasTail(decoder))
  <2>1. /\ iter' = NotIterating /\ last' = "end" /\ call' = call /\ delivered' = delivered
        /\ spoiled' = spoiled /\ next' = next /\ fpopen' = fpopen /\ decoder' = decoder
        /\ buffer' = buffer /\ cached' = cached /\ uncached' = uncached
    BY <1>5 DEF StreamRead, StreamStops, NoNetwork, network, reading
  <2>2. Order' /\ Calling' /\ Holding' /\ Unread'
    BY <1>2, <2>1, IdleStays
  <2>3. ASSUME Noticed(scenario) PROVE Reached'
    <3>1. Reached
      BY <1>1, <2>3
    <3>2. ~spoiled => next = Len(scenario.wire)
      BY <1>5, <3>1 DEF Reached, wire
    <3>3. buffer.size = 0 /\ ~HasTail(decoder)
      <4>1. buffer.size \in Nat
        BY StateIs
      <4> QED BY <1>5, <4>1
    <3>4. ~spoiled => delivered = Body
      BY <1>1, <3>2, <3>3, EndIsBody
    <3>5. /\ last' = "end" /\ call' = Idle /\ ~spoiled' => delivered' = Body
          /\ last' # "short" /\ (cached' # None => cached' = Body)
      BY <1>2, <2>1, <3>1, <3>4 DEF Reached
    <3>6. ~fpopen' /\ ~spoiled' => next' = Len(scenario.wire)
      BY <2>1, <3>2
    <3> QED BY <1>2, <1>3, <3>5, <3>6, ReachedHolds
  <2> QED BY <1>2, <2>2, <2>3 DEF Sound
<1> QED BY <1>4, <1>5

(* The generator over chunks: between its turns nothing is in the buffer.     *)
LEMMA ChunksAre ==
    ASSUME Types, Sound, iter.on, iter.chunks
    PROVE  /\ call = Idle /\ scenario.framing = "chunked" /\ iter.amt \in Amount \ {0}
           /\ spoiled => ~fpopen
           /\ ~spoiled => buffer.size = 0 /\ Out = delivered
           /\ decoder # None \/ Plainly(scenario)
           /\ ~Plainly(scenario) => OnlyStreamed(scenario)
<1>1. Calling /\ Holding
  BY DEF Sound
<1>2. TypesOfCalls
  BY DEF Types
<1>3. call = Idle /\ scenario.framing = "chunked" /\ iter.amt \in Amount \ {0}
  BY <1>1, <1>2, IterIs DEF Calling
<1>4. ~Plainly(scenario) => OnlyStreamed(scenario)
  BY <1>1, <1>3 DEF Calling, OnlyStreamed
<1>5. spoiled => ~fpopen
  <2>1. call.m # "drain"
    BY <1>3 DEF Idle
  <2> QED BY <1>1, <2>1, IdleSpoiled
<1>6. ~spoiled => buffer.size = 0 /\ Out = delivered
  <2>1. call.m # "read"
    BY <1>3 DEF Idle
  <2>2. buffer.size \in Nat /\ (buffer.size = 0 => Out = delivered)
    BY StateIs
  <2> QED BY <1>1, <1>4, <2>1, <2>2 DEF Holding
<1> QED BY <1>1, <1>3, <1>4, <1>5, <1>6 DEF Holding

LEMMA ChunkData ==
    ASSUME Types, NEW amt \in Amount \ {0}, NEW o,
           o \in IF HasTail(decoder) THEN {Got(0, TRUE)} ELSE {HandleChunk(amt), Fails("timeout")},
           next' = next + Len(o.data)
    PROVE  /\ o.data = Part(scenario.wire, next, next')
           /\ next' \in 0..Len(scenario.wire) /\ next \in 0..next'
           /\ o.err = "none" => o.open = TRUE
<1>1. TypesOfNetwork
  BY DEF Types
<1>2. PICK w, k, n : w = scenario.wire /\ k = next /\ n = next'
  OBVIOUS
<1>3. /\ w \in Seq(Unit) /\ Len(w) \in Nat /\ k \in Nat /\ Arrived \in Nat
      /\ k + Arrived = scenario.sent /\ scenario.sent \in 0..Len(w) /\ k \in 0..Len(w)
  BY <1>1, <1>2, WireType DEF wire
<1>4. Part(w, k, k) = <<>>
  <2>1. k \in 0..k
    BY <1>3
  <2> QED BY <1>3, <2>1, PartEmpty
<1>5. /\ Len(o.data) \in Nat /\ Len(o.data) <= Arrived
      /\ o.data = Part(w, k, k + Len(o.data))
      /\ o.err = "none" => o.open = TRUE
  <2>1. Len(<<>>) = 0 /\ k + 0 = k
    BY <1>3, EmptySeq
  <2>2. CASE o = Got(0, TRUE)
    <3>1. o.data = <<>> /\ o.open = TRUE
      <4>1. 0 \in Nat /\ 0 <= Arrived
        BY <1>3
      <4>2. PICK open \in BOOLEAN : open = TRUE
        OBVIOUS
      <4>3. Got(0, open).data = <<>> /\ Got(0, open).open = open
        BY <1>1, <4>1, GotIs
      <4> QED BY ONLY <2>2, <4>2, <4>3
    <3> QED BY <1>3, <1>4, <2>1, <3>1
  <2>3. CASE o.data = <<>> /\ o.err # "none"
    BY <1>3, <1>4, <2>1, <2>3
  <2>4. CASE o = HandleChunk(amt) /\ ~(o.data = <<>> /\ o.err # "none")
    <3>1. /\ Reads(o, amt) \/ (o \in Outcome /\ o.err # "none")
          /\ o.err # "none" => o.data = <<>>
          /\ o.err = "none" => o.open = TRUE
      BY <1>1, <2>4, HandleChunkIs
    <3>2. Reads(o, amt) /\ o.open = TRUE
      BY <2>4, <3>1
    <3>3. /\ o.data \in Seq(Unit) /\ Len(o.data) <= Arrived
          /\ o.data = SubSeq(w, k + 1, k + Len(o.data))
      BY <1>2, <3>2 DEF Reads, Outcome, wire
    <3> QED BY <3>2, <3>3, LenProperties DEF Part
  <2>5. Fails("timeout").data = <<>> /\ Fails("timeout").err # "none"
    BY <1>1, FailsIs
  <2> QED BY <2>2, <2>3, <2>4, <2>5
<1>6. n \in 0..Len(w) /\ k \in 0..n /\ n = k + Len(o.data)
  BY <1>2, <1>3, <1>5
<1> QED BY ONLY <1>2, <1>5, <1>6

LEMMA ChunkTurnSound ==
    ASSUME Types, Types', Sound, Ordinary(scenario), ChunkTurn PROVE Sound'
<1>1. Order /\ Calling /\ Holding /\ Unread /\ (Noticed(scenario) => Reached)
  BY DEF Sound
<1>2. /\ iter.on /\ iter.chunks /\ fpopen /\ scenario' = scenario /\ buffer' = buffer
      /\ cached' = cached /\ uncached' = (uncached \/ ~HasTail(decoder))
  BY DEF ChunkTurn
<1>3. /\ call = Idle /\ iter.amt \in Amount \ {0} /\ ~spoiled
      /\ buffer.size = 0 /\ Out = delivered
      /\ decoder # None \/ Plainly(scenario)
  BY <1>2, ChunksAre
<1>4. PICK amt \in Amount \ {0} : amt = iter.amt
  BY <1>3
<1>5. PICK d : d = decoder
  OBVIOUS
<1>6. PICK o \in IF HasTail(decoder) THEN {Got(0, TRUE)} ELSE {HandleChunk(amt), Fails("timeout")} :
      \E r \in {Decode(d, o.data, FALSE, amt)} :
          /\ Receive([o EXCEPT !.mid = fpchunk,
                               !.err = IF r.ok THEN @ ELSE "undecodable"])
          /\ IF o.err # "none"
             THEN Raises(o.err) /\ UNCHANGED <<decoder, hasdecoded>>
             ELSE /\ Decodes(r.d)
                  /\ IF r.ok THEN Yields(r.out) /\ UNCHANGED iter ELSE Raises("undecodable")
  BY <1>4, <1>5 DEF ChunkTurn
<1>7. PICK r : /\ r = Decode(d, o.data, FALSE, amt)
               /\ Receive([o EXCEPT !.mid = fpchunk,
                               !.err = IF r.ok THEN @ ELSE "undecodable"])
               /\ IF o.err # "none"
                  THEN Raises(o.err) /\ UNCHANGED <<decoder, hasdecoded>>
                  ELSE /\ Decodes(r.d)
                       /\ IF r.ok THEN Yields(r.out) /\ UNCHANGED iter ELSE Raises("undecodable")
  BY <1>6
<1>8. /\ next' = next + Len(o.data)
      /\ fpopen' = (o.open /\ (IF r.ok THEN o.err ELSE "undecodable") = "none")
  <2>1. PICK p : p = [o EXCEPT !.mid = fpchunk, !.err = IF r.ok THEN @ ELSE "undecodable"]
    OBVIOUS
  <2>2. p.data = o.data /\ p.open = o.open /\ p.err = IF r.ok THEN o.err ELSE "undecodable"
    <3>1. o \in Outcome
      <4>1. TypesOfNetwork
        BY DEF Types
      <4>2. Fails("timeout") \in Outcome
        BY <4>1, FailsIs
      <4>3. HandleChunk(amt) \in Outcome
        BY <4>1, HandleChunkIs
      <4>4. Got(0, TRUE) \in Outcome
        <5>1. Arrived \in Nat /\ 0 <= Arrived
          BY <4>1, WireType
        <5> QED BY <4>1, <5>1, GotIs
      <4> QED BY <1>6, <4>2, <4>3, <4>4
    <3> QED BY ONLY <2>1, <3>1 DEF Outcome
  <2>3. Receive(p)
    BY <1>7, <2>1
  <2> QED BY ONLY <2>2, <2>3 DEF Receive, Caught
<1>9. /\ o.data = Part(scenario.wire, next, next')
      /\ next' \in 0..Len(scenario.wire) /\ next \in 0..next'
      /\ o.err = "none" => o.open = TRUE
  BY <1>6, <1>8, ChunkData
<1>10. CASE o.err # "none"
  <2>1. /\ delivered' = delivered /\ spoiled' = TRUE /\ call' = Idle /\ iter' = NotIterating
        /\ decoder' = decoder
    BY <1>7, <1>10 DEF Raises
  <2>2. ~fpopen'
    <3>1. (IF r.ok THEN o.err ELSE "undecodable") # "none"
      BY <1>10
    <3> QED BY ONLY <1>8, <3>1
  <2>3. uncached => uncached'
    BY ONLY <1>2, Zenon
  <2> QED BY <1>2, <1>9, <2>1, <2>2, <2>3, ErrorSound
<1>11. CASE o.err = "none"
  <2>1. Grows(scenario, delivered, d, next', FALSE, r)
    <3>1. PICK s, k, m, all, b, f : /\ s = scenario /\ k = next /\ m = next' /\ all = delivered
                                    /\ b = FALSE /\ f = FALSE
      OBVIOUS
    <3>2. scenario \in Scenarios /\ delivered \in Seq(Nat) /\ decoder \in Maybe
      BY StateIs
    <3>3. /\ s \in Scenarios /\ b \in BOOLEAN /\ f \in BOOLEAN /\ all \in Seq(Nat)
          /\ m \in 0..Len(s.wire) /\ k \in 0..m /\ d \in Maybe /\ (d # None \/ Plainly(s))
          /\ (b => k = m) /\ o.data = Part(s.wire, k, m)
      BY ONLY <1>3, <1>5, <1>9, <3>1, <3>2
    <3>4. Lined(s, all, d, k, b)
      <4>1. Lined(scenario, delivered, decoder, next, FALSE)
        BY <1>1, <1>3 DEF Order, Lined
      <4> QED BY ONLY <1>5, <3>1, <4>1
    <3>5. Decodable(s)
      BY <3>1 DEF Ordinary
    <3>6. Grows(s, all, d, m, b, Decode(d, Part(s.wire, k, m), f, amt))
      BY ONLY <3>1, <3>3, <3>4, <3>5, amt \in Amount \ {0}, LinedDecode
    <3>7. r = Decode(d, Part(s.wire, k, m), f, amt)
      BY ONLY <1>7, <3>1, <3>3
    <3> QED BY ONLY <3>1, <3>6, <3>7
  <2>2. /\ r.ok /\ (r.d = None => d = None)
           /\ Lined(scenario, delivered \o r.out, r.d, next', FALSE)
    BY <2>1 DEF Grows
  <2>3. /\ decoder' = r.d /\ delivered' = delivered \o r.out /\ last' = "some"
        /\ call' = call /\ spoiled' = spoiled /\ iter' = iter
    BY <1>7, <1>11, <2>2 DEF Decodes, Yields
  <2>4. fpopen'
    BY ONLY <1>8, <1>9, <1>11, <2>2
  <2>5. Order'
    <3>1. Out' = delivered'
      BY <1>2, <1>3, StateAfter
    <3>2. Lined(scenario, delivered \o r.out, r.d, next', spoiled')
      BY <1>3, <2>2, <2>3 DEF Lined
    <3>3. Out' = delivered \o r.out
      BY ONLY <2>3, <3>1
    <3> QED BY <1>2, <2>3, <3>2, <3>3, OrderReturned
  <2>6. Calling'
    BY <1>1, <1>2, <1>3, <2>3 DEF Calling, Idle
  <2>7. Holding'
    BY <1>2, <1>3, <1>5, <2>2, <2>3 DEF Holding, Idle
  <2>8. Unread'
    BY <1>1, <1>2 DEF Unread
  <2>9. Noticed(scenario) => Reached'
    BY <1>1, <1>2, <2>3, <2>4 DEF Reached, Ended, Body, wire
  <2> QED BY <1>2, <2>5, <2>6, <2>7, <2>8, <2>9 DEF Sound
<1> QED BY <1>10, <1>11

LEMMA ChunkEndSound ==
    ASSUME Types, Types', Sound, Ordinary(scenario), ChunkEnd PROVE Sound'
<1>1. Order /\ Calling /\ Holding /\ Unread /\ (Noticed(scenario) => Reached)
  BY DEF Sound
<1>2. /\ iter.on /\ iter.chunks /\ fpopen /\ scenario' = scenario /\ buffer' = buffer
      /\ cached' = cached /\ uncached' = TRUE /\ next = Len(scenario.wire)
  BY DEF ChunkEnd, Finishes, AtEnd, wire
<1>3. /\ call = Idle /\ ~spoiled /\ buffer.size = 0 /\ Out = delivered
      /\ decoder # None \/ Plainly(scenario)
  BY <1>2, ChunksAre
<1>4. PICK d : d = decoder
  OBVIOUS
<1>5. PICK r : 
          /\ r = IF d = None THEN [d |-> None, out |-> <<>>, ok |-> TRUE]
                 ELSE Decode(d, <<>>, TRUE, None)
          /\ Receive([Got(0, FALSE) EXCEPT !.err = IF r.ok THEN "none" ELSE "undecodable"])
          /\ decoder' = r.d
          /\ IF r.ok
             THEN /\ delivered' = delivered \o r.out /\ last' = "end"
                  /\ iter' = NotIterating /\ UNCHANGED <<call, spoiled>>
             ELSE Raises("undecodable")
  BY <1>4 DEF ChunkEnd, Flushed, Finishes
<1>6. /\ scenario \in Scenarios /\ delivered \in Seq(Nat) /\ d \in Maybe
         /\ next \in 0..Len(scenario.wire)
  BY <1>4, StateIs
<1>7. next' = next /\ ~fpopen'
  <2>1. PICK g : g = Got(0, FALSE)
    OBVIOUS
  <2>2. g \in Outcome /\ Len(g.data) = 0 /\ g.open = FALSE /\ next \in Nat
    <3>1. TypesOfNetwork
      BY DEF Types
    <3>2. Arrived \in Nat /\ 0 <= Arrived /\ next \in Nat
      BY <3>1, WireType
    <3> QED BY <2>1, <3>1, <3>2, GotIs
  <2>3. PICK e : e = IF r.ok THEN "none" ELSE "undecodable"
    OBVIOUS
  <2>4. PICK p : p = [g EXCEPT !.err = e]
    OBVIOUS
  <2>5. p.data = g.data /\ p.open = g.open
    BY ONLY <2>2, <2>4 DEF Outcome
  <2>6. Receive(p)
    BY <1>5, <2>1, <2>3, <2>4
  <2>7. next' = next + Len(p.data) /\ fpopen' = (p.open /\ p.err = "none")
    BY ONLY <2>6 DEF Receive, Caught
  <2>8. ~p.open
    BY ONLY <2>2, <2>5
  <2>9. ~fpopen'
    BY ONLY <2>7, <2>8, Zenon
  <2>10. next' = next
    <3>1. next' = next + 0
      BY ONLY <2>2, <2>5, <2>7
    <3> QED BY ONLY <2>2, <3>1
  <2> QED BY <2>9, <2>10
<1>8. PICK s, k, all, b, f, max : /\ s = scenario /\ k = next /\ all = delivered
                                  /\ b = FALSE /\ f = TRUE /\ max = None
  OBVIOUS
<1>9. /\ s \in Scenarios /\ b \in BOOLEAN /\ f \in BOOLEAN /\ all \in Seq(Nat)
         /\ k \in 0..Len(s.wire)
      /\ d # None \/ Plainly(s)
      /\ Lined(s, all, d, k, b) /\ max \in Amount \ {0} /\ k \in 0..k
  <2>1. Lined(scenario, delivered, decoder, next, FALSE)
    BY <1>1, <1>3 DEF Order, Lined
  <2>2. None \in Amount \ {0}
    BY NoneAssumption DEF Amount
  <2>3. next \in 0..next
    <3>1. Len(scenario.wire) \in Nat
      BY <1>6, ScenarioIs
    <3> QED BY ONLY <1>6, <3>1
  <2> QED BY ONLY <1>3, <1>4, <1>6, <1>8, <2>1, <2>2, <2>3
<1>10. Grows(s, all, d, k, b, r) /\ At(s, r.d, k) = k
  <2>1. CASE d = None
    <3>1. r = [d |-> None, out |-> <<>>, ok |-> TRUE]
      BY ONLY <1>5, <2>1, Zenon
    <3>2. r.d = None /\ r.out = <<>> /\ r.ok /\ r \in MaybeDecoded
      <4>1. r.d = None /\ r.out = <<>> /\ r.ok
        BY ONLY <3>1
      <4>2. <<>> \in Seq(Nat)
        BY EmptySeq
      <4> QED BY ONLY <3>1, <4>1, <4>2 DEF MaybeDecoded, Maybe
    <3>3. all \o <<>> = all
      BY <1>9, ConcatEmptySeq
    <3>4. Grows(s, all, d, k, b, r)
      BY ONLY <1>9, <2>1, <3>2, <3>3, Zenon DEF Grows
    <3>5. At(s, r.d, k) = k
      BY <3>2 DEF At
    <3> QED BY ONLY <3>4, <3>5
  <2>2. CASE d # None
    <3>1. r = Decode(d, Part(s.wire, k, k), f, max)
      <4>1. Part(s.wire, k, k) = <<>>
        <5>1. s.wire \in Seq(Unit)
          BY <1>9, ScenarioIs
        <5> QED BY <1>9, <5>1, PartEmpty
      <4> QED BY ONLY <1>5, <1>8, <2>2, <4>1
    <3>2. Decodable(s)
      BY <1>8 DEF Ordinary
    <3>3. f /\ ~b
      BY <1>8
    <3>4. LET x == Decode(d, Part(s.wire, k, k), f, max)
          IN  /\ Grows(s, all, d, k, b, x)
              /\ ~b /\ (f \/ max = None \/ Len(x.out) < max) => At(s, x.d, k) = k
      <4>1. /\ s \in Scenarios /\ s = scenario /\ Decodable(s) /\ k \in 0..Len(s.wire) /\ k \in 0..k
            /\ d \in Maybe /\ (d # None \/ Plainly(s)) /\ all \in Seq(Nat) /\ b \in BOOLEAN
            /\ Lined(s, all, d, k, b) /\ f \in BOOLEAN /\ max \in Amount \ {0}
        BY <1>6, <1>8, <1>9, <3>2
      <4>2. PICK m : m = k
        OBVIOUS
      <4>3. m \in 0..Len(s.wire) /\ k \in 0..m /\ (b => k = m)
        BY <4>1, <4>2
      <4>4. LET x == Decode(d, Part(s.wire, k, m), f, max)
            IN  /\ Grows(s, all, d, m, b, x)
                /\ ~b /\ (f \/ max = None \/ Len(x.out) < max) => At(s, x.d, m) = m
        BY ONLY <4>1, <4>3, LinedDecode
      <4> QED BY ONLY <4>2, <4>4
    <3> QED BY ONLY <3>1, <3>3, <3>4
  <2> QED BY <2>1, <2>2
<1>11. /\ r.ok /\ r.d \in Maybe
       /\ Lined(scenario, delivered \o r.out, r.d, next', FALSE)
       /\ At(scenario, r.d, next') = next'
  BY ONLY <1>7, <1>8, <1>10 DEF Grows, MaybeDecoded
<1>12. /\ decoder' = r.d /\ delivered' = delivered \o r.out /\ last' = "end"
       /\ iter' = NotIterating /\ call' = call /\ spoiled' = spoiled
  BY <1>5, <1>11
<1>13. buffer'.size = 0 /\ Out' = delivered'
  BY <1>2, <1>3, StateAfter
<1>14. Lined(scenario, Out', r.d, next', FALSE)
  BY ONLY <1>11, <1>12, <1>13
<1>15. delivered' = Body
  BY <1>2, <1>6, <1>7, <1>11, <1>13, <1>14, WholeBody
<1>16. Order'
  <2>1. Lined(scenario, Out', r.d, next', spoiled')
    BY <1>3, <1>12, <1>14 DEF Lined
  <2> QED BY <1>2, <1>12, <2>1, OrderReturned
<1>17. Calling'
  BY <1>1, <1>2, <1>3, <1>12, CallingIdle
<1>18. Holding'
  BY <1>2, <1>3, <1>12, <1>13, HoldingIdle DEF NotIterating
<1>19. Unread'
  BY <1>2 DEF Unread
<1>20. Noticed(scenario) => Reached'
  <2>1. Noticed(scenario) => (cached # None => cached = Body)
    BY <1>1 DEF Reached
  <2> QED BY <1>2, <1>7, <1>15, <1>12, <2>1 DEF Reached, Ended, Body, wire
<1> QED BY <1>2, <1>16, <1>17, <1>18, <1>19, <1>20 DEF Sound

LEMMA ChunkNoneSound ==
    ASSUME Types, Sound, Ordinary(scenario), ChunkNone PROVE Sound'
<1>1. Order /\ (Noticed(scenario) => Reached)
  BY DEF Sound
<1>2. /\ iter.on /\ iter.chunks /\ ~fpopen /\ scenario' = scenario
      /\ iter' = NotIterating /\ last' = "end" /\ call' = call /\ delivered' = delivered
      /\ spoiled' = spoiled /\ next' = next /\ fpopen' = fpopen /\ decoder' = decoder
      /\ buffer' = buffer /\ cached' = cached /\ uncached' = uncached
  BY DEF ChunkNone, StreamStops, network, reading
<1>3. /\ call = Idle /\ (~spoiled => buffer.size = 0)
      /\ ~Plainly(scenario) => OnlyStreamed(scenario)
  BY <1>2, ChunksAre
<1>4. Order' /\ Calling' /\ Holding' /\ Unread'
  BY <1>2, <1>3, IdleStays
<1>5. ASSUME Noticed(scenario) PROVE Reached'
  <2>1. Reached
    BY <1>1, <1>5
  <2>2. ~spoiled => next = Len(scenario.wire)
    BY <1>2, <2>1 DEF Reached, wire
  <2>3. Plainly(scenario) => ~HasTail(decoder)
    BY <1>1, InitialisedIs DEF HasTail
  <2>4. ~spoiled => delivered = Body
    <3>1. CASE Plainly(scenario)
      BY <1>1, <1>3, <2>2, <2>3, <3>1, EndIsBody
    <3>2. CASE ~Plainly(scenario)
      BY <1>2, <1>3, <2>1, <3>2 DEF Reached
    <3> QED BY <3>1, <3>2
  <2>5. cached # None => cached = Body
    BY <2>1 DEF Reached
  <2> QED BY <1>2, <2>2, <2>4, <2>5 DEF Reached, Ended, Body, wire
<1> QED BY <1>2, <1>4, <1>5 DEF Sound

LEMMA BreakSound ==
    ASSUME Types, Sound, Break PROVE Sound'
<1>1. TypesOfNetwork /\ TypesOfCalls
  BY DEF Types
<1>2. /\ iter.on /\ call = Idle /\ iter' = NotIterating /\ last' = "left" /\ scenario' = scenario
      /\ call' = call /\ delivered' = delivered /\ decoder' = decoder
      /\ buffer' = buffer /\ cached' = cached /\ uncached' = uncached
  BY DEF Break, reading
<1>3. CASE iter.chunks
  <2>1. PICK o : o = Fails("exit")
    OBVIOUS
  <2>2. Receive(o) /\ spoiled' = TRUE
    BY <1>3, <2>1 DEF Break
  <2>3. o.data = <<>> /\ o.err # "none"
    BY <1>1, <2>1, FailsIs
  <2>4. next' = next /\ ~fpopen'
    <3>1. next \in Nat
      BY <1>1, WireType
    <3>2. next' = next + Len(o.data) /\ fpopen' = (o.open /\ o.err = "none")
      BY <2>2 DEF Receive, Caught
    <3>3. Len(o.data) = 0
      BY <2>3, EmptySeq
    <3>4. next' = next
      BY ONLY <3>1, <3>2, <3>3
    <3>5. ~fpopen'
      BY ONLY <2>3, <3>2, Zenon
    <3> QED BY <3>4, <3>5
  <2>5. next' \in 0..Len(scenario.wire) /\ next \in 0..next'
    <3>1. next \in 0..Len(scenario.wire) /\ next \in Nat
      BY <1>1, WireType DEF wire
    <3> QED BY <2>4, <3>1
  <2> QED BY <1>2, <2>2, <2>4, <2>5, ErrorSound
<1>4. CASE ~iter.chunks
  <2>1. next' = next /\ fpopen' = fpopen /\ spoiled' = spoiled
    BY <1>4 DEF Break, NoNetwork, network
  <2>2. Order' /\ Calling' /\ Holding' /\ Unread'
    BY <1>2, <2>1, IdleStays
  <2>3. ~OnlyStreamed(scenario)
    BY <1>1, <1>2, <1>4, IterIs DEF OnlyStreamed
  <2>4. Noticed(scenario) => Reached'
    <3>1. Noticed(scenario) => Reached
      BY DEF Sound
    <3> QED BY <1>2, <2>1, <2>3, <3>1, ReachedStays
  <2> QED BY <1>2, <2>2, <2>4 DEF Sound
<1> QED BY <1>3, <1>4

(* The bytes stay where they are, and the response is given up.              *)
LEMMA OrderSpoils ==
    ASSUME Types, Order, scenario' = scenario, decoder' = decoder, buffer' = buffer,
           delivered' = delivered, spoiled' = TRUE,
           next' \in 0..Len(scenario.wire), next \in 0..next'
    PROVE  Order'
<1>1. scenario \in Scenarios /\ Out \in Seq(Nat) /\ spoiled \in BOOLEAN
  BY StateIs
<1>2. PICK s, k, j, d, all, b : s = scenario /\ k = next /\ j = next' /\ d = decoder /\ all = Out
        /\ b = spoiled
  OBVIOUS
<1>3. Lined(s, all, d, k, b)
  BY <1>2 DEF Order
<1>4. \E n \in 0..j : InLine(s, all, d, n)
  <2>1. s \in Scenarios /\ j \in 0..Len(s.wire) /\ k \in 0..j /\ all \in Seq(Nat) /\ b \in BOOLEAN
    BY ONLY <1>1, <1>2, next' \in 0..Len(scenario.wire), next \in 0..next'
  <2> QED BY ONLY <1>3, <2>1, LinedSpoils
<1>5. Out' = Out
  BY DEF Out
<1> QED BY <1>2, <1>4, <1>5 DEF Order, Lined

LEMMA DrainSound ==
    ASSUME Types, Sound, Drain PROVE Sound'
<1>1. Order /\ Calling /\ Holding /\ Unread /\ (Noticed(scenario) => Reached)
  BY DEF Sound
<1>2. /\ call' = DrainCall /\ spoiled' = TRUE /\ scenario' = scenario /\ next' = next
      /\ fpopen' = fpopen /\ decoder' = decoder /\ buffer' = buffer /\ cached' = cached
      /\ uncached' = uncached /\ iter' = iter /\ last' = last /\ delivered' = delivered
      /\ ~iter.on
  BY DEF Drain, DrainCall, network, reading
<1>3. next' \in 0..Len(scenario.wire) /\ next \in 0..next'
  <2>1. TypesOfNetwork
    BY DEF Types
  <2>2. next \in 0..Len(scenario.wire) /\ next \in Nat
    BY <2>1, WireType DEF wire
  <2> QED BY <1>2, <2>2
<1>4. Order'
  BY <1>1, <1>2, <1>3, OrderSpoils
<1>5. Calling'
  BY <1>1, <1>2 DEF Calling, DrainCall
<1>6. Holding'
  BY <1>1, <1>2 DEF Holding, DrainCall
<1>7. Unread'
  BY <1>1, <1>2 DEF Unread, HasTail
<1>8. Noticed(scenario) => Reached'
  BY <1>1, <1>2 DEF Reached, Ended, Body, wire
<1> QED BY <1>2, <1>4, <1>5, <1>6, <1>7, <1>8 DEF Sound

LEMMA CloseSound ==
    ASSUME Types, Sound, Close PROVE Sound'
<1>1. TypesOfNetwork /\ TypesOfCalls
  BY DEF Types
<1>2. /\ call' = call /\ call = Idle /\ spoiled' = TRUE /\ scenario' = scenario /\ next' = next
      /\ ~fpopen' /\ decoder' = decoder /\ buffer' = buffer /\ cached' = cached
      /\ uncached' = uncached /\ iter' = iter /\ delivered' = delivered /\ ~iter.on
  BY DEF Close, reading
<1>3. iter' = NotIterating
  BY <1>1, <1>2 DEF TypesOfCalls, Iterating
<1>4. next' \in 0..Len(scenario.wire) /\ next \in 0..next'
  <2>1. next \in 0..Len(scenario.wire) /\ next \in Nat
    BY <1>1, WireType DEF wire
  <2> QED BY <1>2, <2>1
<1> QED BY <1>2, <1>3, <1>4, ErrorSound

LEMMA DrainMoreSound ==
    ASSUME Types, Types', Sound, DrainMore PROVE Sound'
<1>1. Order /\ Calling /\ Holding /\ Unread /\ (Noticed(scenario) => Reached)
  BY DEF Sound
<1>2. /\ call.m = "drain" /\ scenario' = scenario /\ cached' = cached /\ uncached' = uncached
      /\ iter' = iter /\ last' = last /\ delivered' = delivered /\ spoiled' = spoiled
  BY DEF DrainMore
<1>3. /\ spoiled /\ spoiled' = TRUE
  <2>1. spoiled /\ spoiled \in BOOLEAN
    BY <1>1, <1>2, StateIs DEF Calling
  <2> QED BY <1>2, <2>1
<1>4. PICK amt \in Amount \ {0} : amt = Big
  <2>1. TypesOfNetwork
    BY DEF Types
  <2> QED BY <2>1, BigIs
<1>5. PICK o \in RawReads(amt, FALSE) :
          /\ Receive(o)
          /\ call' = IF o.data = <<>> THEN Idle ELSE call
          /\ IF o.data = <<>> /\ hasdecoded
             THEN buffer' = EmptyBuffer /\ decoder' = None
             ELSE UNCHANGED <<buffer, decoder>>
  BY <1>4 DEF DrainMore
<1>6. PICK one \in BOOLEAN : one = FALSE
  OBVIOUS
<1>7. Arrives(o)
  <2>1. o \in RawReads(amt, one) /\ Receive(o)
    BY <1>5, <1>6
  <2> QED BY <2>1, RawArrives
<1>8. /\ next' \in 0..Len(scenario.wire) /\ next \in 0..next'
      /\ (o.data = <<>> => ~fpopen') /\ (fpopen' => fpopen)
  BY <1>7 DEF Arrives
<1>9. call' = Idle \/ call' = call
  BY <1>5
<1>10. ~(iter.on /\ iter.chunks)
  BY <1>1, <1>2 DEF Calling, Idle
<1>11. \/ buffer' = buffer /\ decoder' = decoder
       \/ buffer' = EmptyBuffer /\ decoder' = None
  BY <1>5
<1>12. Order'
  <2>1. CASE buffer' = buffer /\ decoder' = decoder
    BY <1>1, <1>2, <1>3, <1>8, <2>1, OrderSpoils
  <2>2. CASE buffer' = EmptyBuffer /\ decoder' = None
    <3>1. /\ scenario \in Scenarios /\ Out \in Seq(Nat) /\ spoiled \in BOOLEAN /\ decoder \in Maybe
          /\ delivered \in Seq(Nat) /\ Content(buffer) \in Seq(Nat)
             /\ next \in 0..Len(scenario.wire)
      BY StateIs
    <3>2. PICK s, k, j, d, all, b, dl, c : 
             /\ s = scenario /\ k = next /\ j = next' /\ d = decoder /\ all = Out /\ b = spoiled
             /\ dl = delivered /\ c = Content(buffer)
      OBVIOUS
    <3>3. /\ s \in Scenarios /\ k \in 0..Len(s.wire) /\ j \in 0..Len(s.wire) /\ d \in Maybe
          /\ all \in Seq(Nat) /\ b \in BOOLEAN /\ dl \in Seq(Nat) /\ c \in Seq(Nat)
      BY ONLY <1>8, <3>1, <3>2
    <3>4. Lined(s, all, d, k, b)
      BY <1>1, <3>2 DEF Order
    <3>5. Begins(all, Bytes(s.wire))
      BY ONLY <3>3, <3>4, LinedBegins
    <3>6. all = dl \o c
      BY <3>2 DEF Out
    <3>7. Begins(dl \o c, Bytes(s.wire))
      BY ONLY <3>5, <3>6
    <3>8. \E n \in 0..j : InLine(s, dl, None, n)
      BY ONLY <3>3, <3>7, LinedDrained
    <3>9. Out' = dl
      <4>1. buffer'.size = 0
        BY <2>2 DEF EmptyBuffer
      <4> QED BY <1>2, <3>2, <4>1, StateAfter
    <3> QED BY <1>2, <1>3, <2>2, <3>2, <3>8, <3>9 DEF Order, Lined
  <2> QED BY <1>11, <2>1, <2>2
<1>13. Calling'
  <2>1. spoiled' /\ fpopen' => call'.m = "drain"
    BY <1>2, <1>5, <1>8
  <2>2. call'.m \in {"idle", "drain"}
    BY <1>2, <1>9 DEF Idle
  <2> QED BY <1>1, <1>2, <1>3, <1>10, <2>1, <2>2 DEF Calling
<1>14. buffer'.size = buffer.size \/ buffer'.size = 0
  BY <1>11 DEF EmptyBuffer
<1>15. Holding'
  <2>1. call'.m \in {"idle", "drain"}
    BY <1>2, <1>9 DEF Idle
  <2> QED BY <1>1, <1>2, <1>3, <1>10, <1>14, <2>1 DEF Holding
<1>16. Unread'
  <2>1. ~HasTail(decoder) => ~HasTail(decoder)'
    <3>1. CASE decoder' = decoder
      BY <1>2, <3>1 DEF HasTail
    <3>2. CASE decoder' = None
      BY <3>2 DEF HasTail
    <3> QED BY <1>11, <3>1, <3>2
  <2> QED BY <1>1, <1>2, <1>8, <1>14, <2>1 DEF Unread
<1>17. Noticed(scenario) => Reached'
  BY <1>1, <1>2, <1>3 DEF Reached, Ended, Body, wire
<1> QED BY <1>2, <1>12, <1>13, <1>15, <1>16, <1>17 DEF Sound

(* Nothing of a body is nothing read of it.                                  *)
LEMMA NothingYet ==
    ASSUME NEW s \in Scenarios PROVE Lined(s, <<>>, None, 0, FALSE)
<1>1. s.wire \in Seq(Unit) /\ Len(s.wire) \in Nat
  BY ScenarioIs
<1>2. Part(s.wire, 0, 0) = <<>>
  <2>1. 0 \in 0..Len(s.wire) /\ 0 \in 0..0
    BY <1>1
  <2> QED BY ONLY <1>1, <2>1, PartEmpty, Zenon
<1>3. At(s, None, 0) = 0 /\ Pend(None) = <<>> /\ Fed(s, None, 0)
  BY DEF At, Pend, Fed
<1>4. <<>> \o <<>> = <<>>
  OBVIOUS
<1>5. Follows(s, <<>>, None, 0)
  BY ONLY <1>2, <1>3, <1>4, BytesEmpty, Zenon DEF Follows
<1> QED BY <1>5 DEF Lined

LEMMA InitSound ==
    ASSUME Init PROVE Sound
<1>1. /\ scenario \in Scenarios /\ next = 0 /\ fpopen = TRUE /\ decoder = None
         /\ buffer = EmptyBuffer
      /\ cached = None /\ call = Idle /\ iter = NotIterating /\ last = "none" /\ delivered = <<>>
      /\ spoiled = FALSE
  BY DEF Init
<1>2. Order
  <2>1. Out = <<>>
    <3>1. <<>> \o <<>> = <<>>
      OBVIOUS
    <3> QED BY <1>1, <3>1, EmptyIs DEF Out
  <2>2. Lined(scenario, <<>>, None, 0, FALSE)
    BY <1>1, NothingYet
  <2> QED BY <1>1, <2>1, <2>2 DEF Order
<1>3. Calling
  BY <1>1 DEF Calling, Idle, NotIterating
<1>4. Holding
  BY <1>1 DEF Holding, Idle, NotIterating, EmptyBuffer
<1>5. Unread
  BY <1>1 DEF Unread, EmptyBuffer, HasTail
<1>6. Reached
  BY <1>1 DEF Reached, Ended
<1> QED BY <1>2, <1>3, <1>4, <1>5, <1>6 DEF Sound

LEMMA NextSound ==
    ASSUME Types, Types', InPlace, Sound, Ordinary(scenario), Apart, [Next]_vars PROVE Sound'
<1>1. CASE \E c \in scenario.calls : Read(c[2]) \/ Read1(c[2]) \/ Stream(c[2])
  BY <1>1, ReadSound, Read1Sound, StreamSound
<1>2. CASE Data \/ Break
  BY <1>2, DataSound, BreakSound
<1>3. CASE Drain \/ Close \/ ChunkNone
  BY <1>3, DrainSound, CloseSound, ChunkNoneSound
<1>4. CASE ReadMore \/ Read1More
  BY <1>4, ReadMoreSound, Read1MoreSound
<1>5. CASE StreamRead \/ ChunkTurn \/ ChunkEnd
  BY <1>5, StreamReadSound, ChunkTurnSound, ChunkEndSound
<1>6. CASE DrainMore
  BY <1>6, DrainMoreSound
<1>7. CASE UNCHANGED vars
  <2>1. /\ scenario' = scenario /\ next' = next /\ fpopen' = fpopen /\ decoder' = decoder
        /\ buffer' = buffer /\ cached' = cached /\ uncached' = uncached /\ call' = call
        /\ iter' = iter /\ last' = last /\ delivered' = delivered /\ spoiled' = spoiled
        /\ length_remaining' = length_remaining
    BY <1>7 DEF vars, network, reading
  <2>2. Order'
    BY <2>1, OrderStays DEF Sound
  <2>3. Calling' /\ Unread' /\ (Noticed(scenario) => Reached')
    BY <2>1 DEF Sound, Calling, Unread, Reached, Ended, Body, wire, HasTail
  <2>4. Holding'
    BY <2>1 DEF Sound, Holding, Arrived
  <2> QED BY <2>1, <2>2, <2>3, <2>4 DEF Sound
<1>8. CASE LostTurn \/ LostEnd \/ LostFails
  BY <1>8, LostNotApart DEF Types, LostTurn, LostEnd, LostFails
<1> QED BY <1>1, <1>2, <1>3, <1>4, <1>5, <1>6, <1>7, <1>8 DEF Next, Progress

LEMMA SoundInvariant == Spec => [](Types /\ (Ordinary(scenario) /\ Apart => Sound))
<1>1. Init => (Ordinary(scenario) /\ Apart => Sound)
  BY InitSound
<1>2. /\ Types /\ Types' /\ InPlace /\ (Ordinary(scenario) /\ Apart => Sound) /\ [Next]_vars
      => (Ordinary(scenario) /\ Apart => Sound)'
  <2> SUFFICES ASSUME Types, Types', InPlace, Ordinary(scenario) /\ Apart => Sound, [Next]_vars,
                      Ordinary(scenario)', Apart'
               PROVE  Sound'
    OBVIOUS
  <2>1. scenario' = scenario
    BY RigidScenario
  <2>2. Ordinary(scenario) /\ Apart
    BY <2>1 DEF Apart
  <2> QED BY <2>2, NextSound
<1> QED BY <1>1, <1>2, TypesInvariant, PlaceInvariant, PTL DEF Spec

(* Whatever calls a reader mixes, and whatever the network does, the bytes    *)
(* that were returned begin the body: none is lost between two calls, none is  *)
(* repeated, and none is out of place.  InOrder leaves out the readers that   *)
(* stream a chunked response and read it in part (Apart), which may get       *)
(* anything; InPlace says that all others keep their place among the chunks.  *)
THEOREM BytesComeInOrder ==
    Spec => [](Ordinary(scenario) => InOrder)
<1>1. ASSUME Types, Sound PROVE InOrder
  <2>1. /\ scenario \in Scenarios /\ Out \in Seq(Nat) /\ spoiled \in BOOLEAN /\ decoder \in Maybe
        /\ delivered \in Seq(Nat) /\ Content(buffer) \in Seq(Nat) /\ next \in 0..Len(scenario.wire)
    BY <1>1, StateIs
  <2>2. PICK s, k, d, all, b, dl, c : 
           /\ s = scenario /\ k = next /\ d = decoder /\ all = Out /\ b = spoiled
           /\ dl = delivered /\ c = Content(buffer)
    OBVIOUS
  <2>3. /\ s \in Scenarios /\ k \in 0..Len(s.wire) /\ d \in Maybe
        /\ all \in Seq(Nat) /\ b \in BOOLEAN /\ dl \in Seq(Nat) /\ c \in Seq(Nat)
    BY ONLY <2>1, <2>2
  <2>4. Lined(s, all, d, k, b)
    BY <1>1, <2>2 DEF Sound, Order
  <2>5. Begins(all, Bytes(s.wire))
    BY ONLY <2>3, <2>4, LinedBegins
  <2>6. all = dl \o c
    BY <2>2 DEF Out
  <2>7. PICK t \in Seq(Nat) : Bytes(s.wire) = (dl \o c) \o t
    BY ONLY <2>5, <2>6, Zenon DEF Begins
  <2>8. Associates(dl, c, t) /\ Associates(c, t, <<>>)
    BY ONLY <2>3, EmptySeq, Association, t \in Seq(Nat), Zenon
  <2>9. Begins(dl, Bytes(s.wire))
    BY ONLY <2>7, <2>8, Zenon DEF Begins, Associates
  <2>10. IsPrefix(dl, Bytes(s.wire))
    BY ONLY <2>3, <2>9, BeginsIsPrefix
  <2> QED BY ONLY <2>2, <2>10 DEF InOrder, Body, wire
<1>2. ~Apart => InOrder
  BY DEF InOrder
<1> QED BY <1>1, <1>2, SoundInvariant, PTL

(* A call that says that the body is at its end says so when every byte of it  *)
(* was returned; a body that breaks off raises an error instead.             *)
THEOREM EndsAreWhole ==
    Spec => [](Ordinary(scenario) /\ Noticed(scenario) => EndMeansWhole)
<1>1. ASSUME Types, Sound, Noticed(scenario) PROVE EndMeansWhole
  BY <1>1 DEF Sound, Reached, EndMeansWhole
<1>2. ~Apart => EndMeansWhole
  BY DEF EndMeansWhole
<1> QED BY <1>1, <1>2, SoundInvariant, PTL

(* read(amt) returns fewer than amt bytes at the end of the body only.        *)
THEOREM ReadsAreFull ==
    Spec => [](Ordinary(scenario) /\ Noticed(scenario) /\ Fills(scenario) => FullReads)
<1>1. ASSUME Types, Sound, Noticed(scenario), Fills(scenario) PROVE FullReads
  BY <1>1 DEF Sound, Reached, FullReads
<1>2. ~Apart => FullReads
  BY DEF FullReads
<1> QED BY <1>1, <1>2, SoundInvariant, PTL

(* data keeps only a whole body, also when something was read before it.  (The *)
(* runs find that so also of readers that are not Apart.)                    *)
THEOREM CachesAreWhole ==
    Spec => [](Ordinary(scenario) /\ Apart /\ Noticed(scenario) => CacheIsWhole)
<1>1. ASSUME Types, Sound, Noticed(scenario) PROVE CacheIsWhole
  BY <1>1 DEF Sound, Reached, CacheIsWhole
<1> QED BY <1>1, SoundInvariant, PTL
================================================================================
