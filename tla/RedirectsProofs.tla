---------------------------- MODULE RedirectsProofs ----------------------------
(***************************************************************************)
(* Proofs about Redirects and HeaderDict, for any URLs, headers, bodies and *)
(* setups and any number of redirects and retries.                         *)
(*                                                                         *)
(* First what the operations of a dictionary do to its names and to what   *)
(* it tells under a name, by induction over the folds they are; then the   *)
(* invariant of a request on its way, action by action; then the theorems. *)
(***************************************************************************)
EXTENDS Redirects, WellFoundedInduction, SequenceTheorems, TLAPS

(***************************************************************************)
(* Induction, with a set of numbers in place of a predicate.                *)
(***************************************************************************)
LEMMA SetInduction ==
    ASSUME NEW P, 0 \in P, \A n \in Nat : n \in P => n + 1 \in P
    PROVE  \A n \in Nat : n \in P
<1> SUFFICES ASSUME NEW n \in Nat, n \notin P PROVE FALSE
  OBVIOUS
<1> DEFINE T == {m \in Nat : m \notin P}
           R == OpToRel(<, Nat)
<1>1. T \subseteq Nat /\ T # {}
  OBVIOUS
<1>2. PICK m \in T : \A k \in T : <<k, m>> \notin R
  <2> HIDE DEF T, R
  <2>1. IsWellFoundedOn(R, Nat)
    BY NatLessThanWellFounded, Zenon DEF R
  <2> QED BY <1>1, <2>1, WFMin
<1>3. m # 0 /\ m - 1 \in Nat
  OBVIOUS
<1>4. <<m - 1, m>> \in R
  BY <1>3 DEF OpToRel
<1>5. m - 1 \in P
  BY <1>2, <1>3, <1>4, Zenon
<1>6. m \in P
  BY <1>3, <1>5
<1> QED BY <1>6

(***************************************************************************)
(* Folds: what FoldLeft makes of the elements up to each position           *)
(***************************************************************************)
LEMMA MaxIs ==
    ASSUME NEW n \in Nat, NEW t, t \subseteq 1..n, t # {}
    PROVE  Max(t) \in t /\ \A k \in t : k <= Max(t)
<1> DEFINE P == {m \in Nat : \A s \in SUBSET (1..m) :
                               s # {} => \E x \in s : \A k \in s : x >= k}
<1>1. 0 \in P
  <2>1. 1..0 = {}
    OBVIOUS
  <2> QED BY <2>1
<1>2. ASSUME NEW m \in Nat, m \in P PROVE m + 1 \in P
  <2> SUFFICES ASSUME NEW s \in SUBSET (1..m + 1), s # {}
               PROVE  \E x \in s : \A k \in s : x >= k
    OBVIOUS
  <2>1. CASE m + 1 \in s
    BY <2>1
  <2>2. CASE m + 1 \notin s
    <3>1. s \in SUBSET (1..m)
      BY <2>2
    <3> QED BY <1>2, <3>1
  <2> QED BY <2>1, <2>2
<1> HIDE DEF P
<1>3. n \in P
  BY <1>1, <1>2, SetInduction
<1>4. \E x \in t : \A k \in t : x >= k
  BY <1>3 DEF P
<1>5. Max(t) \in t /\ \A k \in t : Max(t) >= k
  BY <1>4, Zenon DEF Max
<1> HIDE DEF P
<1>6. PICK x : x = Max(t)
  OBVIOUS
<1>7. x \in t /\ \A k \in t : k <= x
  BY ONLY <1>5, <1>6, n \in Nat, t \subseteq 1..n
<1> QED BY ONLY <1>6, <1>7, Zenon

LEMMA MaxUpTo ==
    ASSUME NEW k \in Nat \ {0} PROVE Max(1..k) = k /\ (1..k) \ {k} = 1..k - 1
<1>1. PICK t : t = 1..k
  OBVIOUS
<1>2. k \in t /\ t \subseteq 1..k /\ t # {}
  <2>1. k \in 1..k
    OBVIOUS
  <2> QED BY ONLY <1>1, <2>1, Zenon
<1>3. PICK x : x = Max(t)
  OBVIOUS
<1>4. x \in t /\ \A j \in t : j <= x
  BY ONLY k \in Nat \ {0}, <1>2, <1>3, MaxIs
<1>5. x = k
  BY ONLY k \in Nat \ {0}, <1>1, <1>2, <1>4
<1>6. (1..k) \ {k} = 1..k - 1
  OBVIOUS
<1> QED BY ONLY <1>1, <1>3, <1>5, <1>6, Zenon

(* The function that a fold is, for a step that is a function: its value at a *)
(* set of positions is made of the greatest and of the value at the others.  *)
FoldsAt(base, step, f, t) ==
    f[t] = IF t = {} THEN base ELSE step[Max(t)][f[t \ {Max(t)}]]
Folding(A, base, step, n, f) ==
    f \in [SUBSET (1..n) -> A] /\ \A t \in SUBSET (1..n) : FoldsAt(base, step, f, t)

LEMMA FoldGrows ==
    ASSUME NEW A, NEW base \in A, NEW m \in Nat, NEW step, step[m + 1] \in [A -> A],
           NEW f, Folding(A, base, step, m, f)
    PROVE  \E g : Folding(A, base, step, m + 1, g)
<1> DEFINE last == step[m + 1]
           g == [t \in SUBSET (1..m + 1) |->
                   IF m + 1 \in t THEN last[f[t \ {m + 1}]] ELSE f[t]]
<1>1. f \in [SUBSET (1..m) -> A] /\ \A t \in SUBSET (1..m) : FoldsAt(base, step, f, t)
  BY DEF Folding
<1>2. ASSUME NEW t \in SUBSET (1..m + 1)
      PROVE  /\ t \ {m + 1} \in SUBSET (1..m)
             /\ m + 1 \notin t => t \in SUBSET (1..m)
  OBVIOUS
<1>3. \A t \in SUBSET (1..m + 1) : g[t] = IF m + 1 \in t THEN last[f[t \ {m + 1}]] ELSE f[t]
  OBVIOUS
<1>4. last \in [A -> A]
  OBVIOUS
<1> HIDE DEF last
<1>5. ASSUME NEW t \in SUBSET (1..m + 1)
      PROVE  (IF m + 1 \in t THEN last[f[t \ {m + 1}]] ELSE f[t]) \in A
  BY <1>1, <1>2, <1>4
<1>6. g \in [SUBSET (1..m + 1) -> A]
  BY <1>5
<1> HIDE DEF g
<1>7. ASSUME NEW t \in SUBSET (1..m + 1) PROVE FoldsAt(base, step, g, t)
  <2>1. CASE m + 1 \in t
    <3>1. PICK x : x = Max(t)
      OBVIOUS
    <3>2. m + 1 \in Nat /\ t \subseteq 1..m + 1 /\ t # {}
      BY <2>1
    <3>3. x \in t /\ \A k \in t : k <= x
      BY ONLY <3>1, <3>2, MaxIs
    <3>4. x = m + 1
      BY ONLY <2>1, <3>2, <3>3, m \in Nat
    <3>5. PICK u : u = t \ {m + 1}
      OBVIOUS
    <3>6. u \in SUBSET (1..m + 1) /\ m + 1 \notin u
      BY <3>5
    <3>7. g[t] = last[f[u]] /\ g[u] = f[u]
      BY ONLY <1>3, <2>1, <3>5, <3>6, t \in SUBSET (1..m + 1), Zenon
    <3> QED BY ONLY <3>1, <3>2, <3>4, <3>5, <3>7, Zenon DEF FoldsAt, last
  <2>2. CASE m + 1 \notin t
    <3>1. t \in SUBSET (1..m) /\ g[t] = f[t]
      BY <1>2, <1>3, <2>2
    <3>2. FoldsAt(base, step, f, t)
      BY <1>1, <3>1
    <3>3. CASE t = {}
      BY ONLY <3>1, <3>2, <3>3, Zenon DEF FoldsAt
    <3>4. CASE t # {}
      <4>1. PICK u : u = t \ {Max(t)}
        OBVIOUS
      <4>2. u \in SUBSET (1..m + 1) /\ m + 1 \notin u
        BY <2>2, <4>1
      <4>3. g[u] = f[u]
        BY ONLY <1>3, <4>2, Zenon
      <4> QED BY ONLY <3>1, <3>2, <3>4, <4>1, <4>3, Zenon DEF FoldsAt
    <3> QED BY <3>3, <3>4
  <2> QED BY <2>1, <2>2
<1>8. Folding(A, base, step, m + 1, g)
  BY ONLY <1>6, <1>7, Zenon DEF Folding
<1> QED BY <1>8

LEMMA FoldExists ==
    ASSUME NEW A, NEW base \in A, NEW n \in Nat, NEW step \in [1..n -> [A -> A]]
    PROVE  \E f : Folding(A, base, step, n, f)
<1> DEFINE P == {m \in Nat : m <= n => \E f : Folding(A, base, step, m, f)}
<1>1. 0 \in P
  <2> DEFINE f == [t \in SUBSET (1..0) |-> base]
  <2>1. f \in [SUBSET (1..0) -> A] /\ \A t \in SUBSET (1..0) : f[t] = base
    OBVIOUS
  <2>2. \A t \in SUBSET (1..0) : t = {}
    <3>1. 1..0 = {}
      OBVIOUS
    <3> QED BY ONLY <3>1, Zenon
  <2> HIDE DEF f
  <2>3. Folding(A, base, step, 0, f)
    BY ONLY <2>1, <2>2, Zenon DEF Folding, FoldsAt
  <2> QED BY <2>3
<1>2. ASSUME NEW m \in Nat, m \in P PROVE m + 1 \in P
  <2> SUFFICES ASSUME m + 1 <= n PROVE \E f : Folding(A, base, step, m + 1, f)
    OBVIOUS
  <2>1. PICK f : Folding(A, base, step, m, f)
    BY <1>2
  <2>2. step[m + 1] \in [A -> A]
    OBVIOUS
  <2> QED BY <2>1, <2>2, FoldGrows
<1> HIDE DEF P
<1>3. n \in P
  BY <1>1, <1>2, SetInduction
<1> QED BY <1>3 DEF P

(***************************************************************************)
(* Dictionaries                                                             *)
(***************************************************************************)
Text == Seq(STRING)
Dictionary == [folds : BOOLEAN, items : Seq(Entries)]
Distinct(d) ==
    \A i, j \in DOMAIN d.items : Same(d, d.items[i].key, d.items[j].key) => i = j

LEMMA DictIs == ASSUME NEW d PROVE IsDict(d) <=> d \in Dictionary /\ Distinct(d)
BY DEF IsDict, Dictionary, Distinct

LEMMA ItemsAre ==
    ASSUME NEW d \in Dictionary
    PROVE  /\ d.folds \in BOOLEAN /\ d.items \in Seq(Entries) /\ Len(d.items) \in Nat
           /\ DOMAIN d.items = 1..Len(d.items)
           /\ \A i \in 1..Len(d.items) : d.items[i] \in Entries
<1>1. d.folds \in BOOLEAN /\ d.items \in Seq(Entries)
  BY DEF Dictionary
<1> QED BY <1>1, LenProperties, ElementOfSeq

LEMMA EntryIs ==
    ASSUME NEW e \in Entries
    PROVE  /\ e.key \in Keys /\ e.key.name \in STRING /\ e.key.case \in Nat
           /\ e.vals \in Seq(Text) /\ e.vals # <<>>
BY DEF Entries, Keys, Text

LEMMA MinIs ==
    ASSUME NEW n \in Nat, NEW t, t \subseteq 1..n, t # {}
    PROVE  Min(t) \in t
<1> DEFINE R == OpToRel(<, Nat)
<1>1. IsWellFoundedOn(R, Nat)
  BY NatLessThanWellFounded, Zenon
<1>2. t \subseteq Nat
  OBVIOUS
<1>3. PICK m \in t : \A k \in t : <<k, m>> \notin R
  <2> HIDE DEF R
  <2> QED BY <1>1, <1>2, WFMin
<1>4. ASSUME NEW k \in t PROVE m <= k
  <2>1. m \in Nat /\ k \in Nat /\ <<k, m>> \notin R
    BY <1>2, <1>3
  <2>2. k < m => <<k, m>> \in R
    BY <2>1 DEF OpToRel
  <2>3. ~(k < m)
    BY <2>1, <2>2, Zenon
  <2>4. m \in Nat /\ k \in Nat
    BY <2>1
  <2> QED BY ONLY <2>3, <2>4
<1>5. \E x \in t : \A k \in t : x <= k
  BY <1>4
<1> QED BY <1>5, Zenon DEF Min

(* Where an entry is found, if there is one.                                *)
Found(d, k, j) == j \in 1..Len(d.items) /\ Same(d, d.items[j].key, k)
LEMMA AtIs ==
    ASSUME NEW d \in Dictionary, NEW k
    PROVE  /\ HasKey(d, k) => Found(d, k, At(d, k))
           /\ ~HasKey(d, k) => \A j \in 1..Len(d.items) : ~Same(d, d.items[j].key, k)
<1> DEFINE I == {j \in 1..Len(d.items) : Same(d, d.items[j].key, k)}
<1>1. At(d, k) = IF I # {} THEN Min(I) ELSE 0
  BY Zenon DEF At, SelectInSeq
<1>2. Len(d.items) \in Nat
  BY ItemsAre
<1>3. I \subseteq 1..Len(d.items)
  OBVIOUS
<1>4. \A j \in 1..Len(d.items) : j # 0
  BY <1>2
<1>5. CASE I = {}
  <2>1. \A j \in 1..Len(d.items) : ~Same(d, d.items[j].key, k)
    BY <1>5
  <2>2. ~HasKey(d, k)
    BY ONLY <1>1, <1>5, Zenon DEF HasKey
  <2> QED BY <2>1, <2>2
<1>6. CASE I # {}
  <2>1. Min(I) \in I
    <3> HIDE DEF I
    <3> QED BY <1>2, <1>3, <1>6, MinIs
  <2>2. Found(d, k, At(d, k)) /\ At(d, k) # 0
    <3>1. At(d, k) = Min(I)
      BY <1>1, <1>6, Zenon
    <3>2. PICK x : x = At(d, k)
      OBVIOUS
    <3>3. x \in I
      BY ONLY <2>1, <3>1, <3>2, Zenon
    <3>4. x \in 1..Len(d.items) /\ Same(d, d.items[x].key, k) /\ x # 0
      BY <1>4, <3>3, Zenon
    <3> QED BY ONLY <3>2, <3>4, Zenon DEF Found
  <2> QED BY ONLY <2>2, Zenon DEF HasKey
<1> QED BY <1>5, <1>6

(* What a step on a dictionary may do: put an entry in the place of one with  *)
(* a like key, or at the end if there is none.                               *)
Puts(d, e, k, vals) ==
    \/ \E j \in 1..Len(d.items) :
          /\ Same(d, d.items[j].key, k)
          /\ e = [folds |-> d.folds, items |-> [d.items EXCEPT ![j] = Entry(k, vals)]]
    \/ /\ \A j \in 1..Len(d.items) : ~Same(d, d.items[j].key, k)
       /\ e = [folds |-> d.folds, items |-> Append(d.items, Entry(k, vals))]

LEMMA SetItemPuts ==
    ASSUME NEW d \in Dictionary, NEW k, NEW val
    PROVE  Puts(d, SetItem(d, k, val), k, <<val>>)
<1>1. d = [folds |-> d.folds, items |-> d.items]
  BY DEF Dictionary
<1>2. CASE HasKey(d, k)
  <2>1. PICK j : j = At(d, k)
    OBVIOUS
  <2>2. j \in 1..Len(d.items) /\ Same(d, d.items[j].key, k)
    BY <1>2, <2>1, AtIs DEF Found
  <2>3. SetItem(d, k, val) = [d EXCEPT !.items[j] = Entry(k, <<val>>)]
    BY <1>2, <2>1, Zenon DEF SetItem
  <2>4. [d EXCEPT !.items[j] = Entry(k, <<val>>)]
        = [folds |-> d.folds, items |-> [d.items EXCEPT ![j] = Entry(k, <<val>>)]]
    BY <1>1
  <2> QED BY ONLY <2>2, <2>3, <2>4, Zenon DEF Puts
<1>3. CASE ~HasKey(d, k)
  <2>1. SetItem(d, k, val) = [d EXCEPT !.items = Append(@, Entry(k, <<val>>))]
    BY <1>3, Zenon DEF SetItem
  <2>2. [d EXCEPT !.items = Append(@, Entry(k, <<val>>))]
        = [folds |-> d.folds, items |-> Append(d.items, Entry(k, <<val>>))]
    BY <1>1
  <2>3. \A j \in 1..Len(d.items) : ~Same(d, d.items[j].key, k)
    BY <1>3, AtIs
  <2> QED BY ONLY <2>1, <2>2, <2>3, Zenon DEF Puts
<1> QED BY <1>2, <1>3

LEMMA SameKey == ASSUME NEW d, NEW k PROVE Same(d, k, k)
BY Zenon DEF Same

LEMMA SameBack ==
    ASSUME NEW d, NEW k, NEW l, Same(d, k, l) PROVE Same(d, l, k) /\ k.name = l.name
BY Zenon DEF Same

LEMMA SameOn ==
    ASSUME NEW d, NEW k, NEW l, NEW m, Same(d, k, l), Same(d, l, m) PROVE Same(d, k, m)
BY Zenon DEF Same

LEMMA SameFolds ==
    ASSUME NEW d, NEW e, d.folds = e.folds, NEW k, NEW l
    PROVE  Same(d, k, l) <=> Same(e, k, l)
BY Zenon DEF Same

(* All names in a dictionary.                                               *)
Named(d) == {d.items[i].key.name : i \in 1..Len(d.items)}

Vals == Seq(Text) \ {<<>>}
LEMMA EntryType ==
    ASSUME NEW k \in Keys, NEW vals \in Vals
    PROVE  /\ Entry(k, vals) \in Entries
           /\ Entry(k, vals).key = k /\ Entry(k, vals).vals = vals
BY DEF Entry, Entries, Vals, Text

LEMMA PutsType ==
    ASSUME NEW d \in Dictionary, NEW e, NEW k \in Keys, NEW vals \in Vals, Puts(d, e, k, vals)
    PROVE  /\ e \in Dictionary /\ e.folds = d.folds
           /\ Named(e) \subseteq Named(d) \cup {k.name}
           /\ Distinct(d) => Distinct(e)
<1> DEFINE s == d.items
           n == Len(d.items)
           x == Entry(k, vals)
<1>1. s \in Seq(Entries) /\ d.folds \in BOOLEAN /\ n \in Nat /\ n = Len(s)
      /\ DOMAIN s = 1..n /\ \A i \in 1..n : s[i] \in Entries
  BY ItemsAre
<1>2. x \in Entries /\ x.key = k
  BY EntryType
<1> HIDE DEF s, n, x
<1>3. CASE \E j \in 1..n :
              Same(d, s[j].key, k) /\ e = [folds |-> d.folds, items |-> [s EXCEPT ![j] = x]]
  <2>1. PICK j \in 1..n :
           Same(d, s[j].key, k) /\ e = [folds |-> d.folds, items |-> [s EXCEPT ![j] = x]]
    BY <1>3
  <2>2. PICK u : u = [s EXCEPT ![j] = x]
    OBVIOUS
  <2>3. /\ u \in Seq(Entries) /\ Len(u) = n /\ DOMAIN u = 1..n
        /\ \A i \in 1..n : u[i] = IF i = j THEN x ELSE s[i]
    BY <1>1, <1>2, <2>2, ExceptSeq, LenProperties
  <2>4. e = [folds |-> d.folds, items |-> u]
    BY <2>1, <2>2, Zenon
  <2>5. e.folds = d.folds /\ e.items = u /\ e \in Dictionary
    BY ONLY <1>1, <2>3, <2>4 DEF Dictionary
  <2>6. Named(e) \subseteq Named(d) \cup {k.name}
    <3> SUFFICES ASSUME NEW i \in 1..Len(e.items)
                 PROVE  e.items[i].key.name \in Named(d) \cup {k.name}
      BY Zenon DEF Named
    <3>1. i \in 1..n /\ e.items[i] = u[i]
      BY <2>3, <2>5
    <3>2. i = j => u[i].key.name = k.name
      BY <1>2, <2>3, <3>1, Zenon
    <3>3. i # j => u[i].key.name = s[i].key.name
      BY <2>3, <3>1, Zenon
    <3>4. s[i].key.name \in Named(d)
      BY <1>1, <3>1, Zenon DEF Named, s, n
    <3> QED BY ONLY <3>1, <3>2, <3>3, <3>4, Zenon
  <2>7. ASSUME Distinct(d) PROVE Distinct(e)
    <3> SUFFICES ASSUME NEW a \in 1..n, NEW b \in 1..n, Same(e, u[a].key, u[b].key)
                 PROVE  a = b
      BY <2>3, <2>5, Zenon DEF Distinct
    <3>1. \A i \in 1..n, l \in 1..n : Same(d, s[i].key, s[l].key) => i = l
      BY <1>1, <2>7, Zenon DEF Distinct, s
    <3>2. Same(d, u[a].key, u[b].key)
      BY <2>5, SameFolds, Zenon
    <3>3. CASE a # j /\ b # j
      BY ONLY <2>3, <3>1, <3>2, <3>3, a \in 1..n, b \in 1..n, Zenon
    <3>4. CASE a = j /\ b # j
      <4>1. Same(d, k, s[b].key)
        BY <1>2, <2>3, <3>2, <3>4, Zenon
      <4>2. Same(d, s[j].key, s[b].key)
        BY ONLY <2>1, <4>1, SameBack, SameOn, Zenon
      <4> QED BY <3>1, <3>4, <4>2, Zenon
    <3>5. CASE a # j /\ b = j
      <4>1. Same(d, s[a].key, k)
        BY <1>2, <2>3, <3>2, <3>5, Zenon
      <4>2. Same(d, s[a].key, s[j].key)
        BY ONLY <2>1, <4>1, SameBack, SameOn, Zenon
      <4> QED BY <3>1, <3>5, <4>2, Zenon
    <3> QED BY <3>3, <3>4, <3>5, Zenon
  <2> QED BY <2>5, <2>6, <2>7
<1>4. CASE /\ \A j \in 1..n : ~Same(d, s[j].key, k)
           /\ e = [folds |-> d.folds, items |-> Append(s, x)]
  <2>2. PICK u : u = Append(s, x)
    OBVIOUS
  <2>3. /\ u \in Seq(Entries) /\ Len(u) = n + 1 /\ DOMAIN u = 1..n + 1
        /\ \A i \in 1..n : u[i] = s[i]
        /\ u[n + 1] = x
    BY <1>1, <1>2, <2>2, AppendProperties, LenProperties
  <2>4. e = [folds |-> d.folds, items |-> u]
    BY <1>4, <2>2, Zenon
  <2>5. e.folds = d.folds /\ e.items = u /\ e \in Dictionary
    BY ONLY <1>1, <2>3, <2>4 DEF Dictionary
  <2>0. \A i \in 1..n + 1 : i \in 1..n \/ i = n + 1
    BY <1>1
  <2>6. Named(e) \subseteq Named(d) \cup {k.name}
    <3> SUFFICES ASSUME NEW i \in 1..Len(e.items)
                 PROVE  e.items[i].key.name \in Named(d) \cup {k.name}
      BY Zenon DEF Named
    <3>1. i \in 1..n + 1 /\ e.items[i] = u[i]
      BY <2>3, <2>5
    <3>2. i = n + 1 => u[i].key.name = k.name
      BY <1>2, <2>3, <3>1, Zenon
    <3>3. i \in 1..n => u[i].key.name = s[i].key.name
      BY <2>3, <3>1, Zenon
    <3>4. i \in 1..n => s[i].key.name \in Named(d)
      BY <1>1, <3>1, Zenon DEF Named, s, n
    <3> QED BY ONLY <2>0, <3>1, <3>2, <3>3, <3>4, Zenon
  <2>7. ASSUME Distinct(d) PROVE Distinct(e)
    <3> SUFFICES ASSUME NEW a \in 1..n + 1, NEW b \in 1..n + 1, Same(e, u[a].key, u[b].key)
                 PROVE  a = b
      BY <2>3, <2>5, Zenon DEF Distinct
    <3>1. \A i \in 1..n, l \in 1..n : Same(d, s[i].key, s[l].key) => i = l
      BY <1>1, <2>7, Zenon DEF Distinct, s
    <3>2. Same(d, u[a].key, u[b].key) /\ Same(d, u[b].key, u[a].key)
      <4>1. d.folds = e.folds
        BY <2>5
      <4>2. Same(d, u[a].key, u[b].key)
        BY <4>1, SameFolds, Zenon
      <4> QED BY ONLY <4>2, SameBack, Zenon
    <3>3. CASE a \in 1..n /\ b \in 1..n
      BY ONLY <2>3, <3>1, <3>2, <3>3, Zenon
    <3>4. CASE a = n + 1 /\ b \in 1..n
      <4>1. Same(d, s[b].key, k)
        BY <1>2, <2>3, <3>2, <3>4, Zenon
      <4> QED BY <1>4, <3>4, <4>1, Zenon
    <3>5. CASE a \in 1..n /\ b = n + 1
      <4>1. Same(d, s[a].key, k)
        BY <1>2, <2>3, <3>2, <3>5, Zenon
      <4> QED BY <1>4, <3>5, <4>1, Zenon
    <3> QED BY <2>0, <3>3, <3>4, <3>5, Zenon
  <2> QED BY <2>5, <2>6, <2>7
<1>5. \/ \E j \in 1..n :
            Same(d, s[j].key, k) /\ e = [folds |-> d.folds, items |-> [s EXCEPT ![j] = x]]
      \/ /\ \A j \in 1..n : ~Same(d, s[j].key, k)
         /\ e = [folds |-> d.folds, items |-> Append(s, x)]
  BY ONLY Puts(d, e, k, vals), Zenon DEF Puts, s, n, x
<1> QED BY <1>3, <1>4, <1>5

(* add, of a line: its value comes after those of its name, if there are any. *)
LEMMA AddPuts ==
    ASSUME NEW d \in Dictionary, NEW k \in Keys, NEW val \in Text
    PROVE  LET e == Add(d, k, val, FALSE)
           IN  \/ Puts(d, e, k, <<val>>) /\ \A j \in 1..Len(d.items) : ~Same(d, d.items[j].key, k)
               \/ \E j \in 1..Len(d.items) :
                     /\ Same(d, d.items[j].key, k)
                     /\ e = [folds |-> d.folds,
                             items |-> [d.items EXCEPT ![j] =
                                          Entry(d.items[j].key, Append(d.items[j].vals, val))]]
<1> DEFINE e == Add(d, k, val, FALSE)
<1>1. d = [folds |-> d.folds, items |-> d.items]
  BY DEF Dictionary
<1>2. CASE HasKey(d, k)
  <2>1. PICK j : j = At(d, k)
    OBVIOUS
  <2>2. j \in 1..Len(d.items) /\ Same(d, d.items[j].key, k)
    BY <1>2, <2>1, AtIs DEF Found
  <2>3. e = [d EXCEPT !.items[j].vals = Append(@, val)]
    BY <1>2, <2>1, Zenon DEF Add
  <2>4. PICK x : x = d.items[j]
    OBVIOUS
  <2>5. x = [key |-> x.key, vals |-> x.vals]
    BY <2>2, <2>4, ItemsAre DEF Entries
  <2>6. [x EXCEPT !.vals = Append(@, val)] = Entry(x.key, Append(x.vals, val))
    BY <2>5 DEF Entry
  <2>7. e = [folds |-> d.folds,
             items |-> [d.items EXCEPT ![j] = [x EXCEPT !.vals = Append(@, val)]]]
    BY <1>1, <2>3, <2>4
  <2> QED BY ONLY <2>2, <2>4, <2>6, <2>7, Zenon
<1>3. CASE ~HasKey(d, k)
  <2>1. e = SetItem(d, k, val)
    BY <1>3, Zenon DEF Add
  <2>2. Puts(d, e, k, <<val>>)
    BY <2>1, SetItemPuts
  <2>3. \A j \in 1..Len(d.items) : ~Same(d, d.items[j].key, k)
    BY <1>3, AtIs
  <2> QED BY <2>2, <2>3
<1> QED BY <1>2, <1>3

LEMMA AddType ==
    ASSUME NEW d \in Dictionary, NEW k \in Keys, NEW val \in Text
    PROVE  LET e == Add(d, k, val, FALSE)
           IN  /\ e \in Dictionary /\ e.folds = d.folds
               /\ Named(e) \subseteq Named(d) \cup {k.name}
               /\ Distinct(d) => Distinct(e)
<1> DEFINE e == Add(d, k, val, FALSE)
<1>1. \/ Puts(d, e, k, <<val>>) /\ \A j \in 1..Len(d.items) : ~Same(d, d.items[j].key, k)
      \/ \E j \in 1..Len(d.items) :
            /\ Same(d, d.items[j].key, k)
            /\ e = [folds |-> d.folds,
                    items |-> [d.items EXCEPT ![j] =
                                 Entry(d.items[j].key, Append(d.items[j].vals, val))]]
  BY AddPuts
<1> SUFFICES /\ e \in Dictionary /\ e.folds = d.folds
             /\ Named(e) \subseteq Named(d) \cup {k.name}
             /\ Distinct(d) => Distinct(e)
  OBVIOUS
<1> HIDE DEF e
<1>2. CASE Puts(d, e, k, <<val>>)
  <2>1. <<val>> \in Vals
    BY DEF Vals
  <2> QED BY ONLY <1>2, <2>1, d \in Dictionary, k \in Keys, PutsType
<1>3. CASE \E j \in 1..Len(d.items) :
            /\ Same(d, d.items[j].key, k)
            /\ e = [folds |-> d.folds,
                    items |-> [d.items EXCEPT ![j] =
                                 Entry(d.items[j].key, Append(d.items[j].vals, val))]]
  <2>1. PICK j \in 1..Len(d.items) :
            /\ Same(d, d.items[j].key, k)
            /\ e = [folds |-> d.folds,
                    items |-> [d.items EXCEPT ![j] =
                                 Entry(d.items[j].key, Append(d.items[j].vals, val))]]
    BY <1>3
  <2>2. PICK l, v : l = d.items[j].key /\ v = Append(d.items[j].vals, val)
    OBVIOUS
  <2>3. l \in Keys /\ v \in Vals /\ l.name = k.name
    <3>1. d.items[j].key \in Keys /\ d.items[j].vals \in Seq(Text)
      BY ItemsAre, EntryIs
    <3>2. Append(d.items[j].vals, val) \in Seq(Text) /\ Append(d.items[j].vals, val) # <<>>
      BY <3>1, AppendProperties, EmptySeq
    <3>3. l.name = k.name
      BY ONLY <2>1, <2>2, SameBack, Zenon
    <3> QED BY ONLY <2>2, <3>1, <3>2, <3>3, Zenon DEF Vals
  <2>4. Puts(d, e, l, v)
    <3>1. Same(d, d.items[j].key, l)
      BY <2>2, SameKey, Zenon
    <3> QED BY ONLY <2>1, <2>2, <3>1, j \in 1..Len(d.items), Zenon DEF Puts
  <2>5. /\ e \in Dictionary /\ e.folds = d.folds
        /\ Named(e) \subseteq Named(d) \cup {l.name}
        /\ Distinct(d) => Distinct(e)
    BY ONLY d \in Dictionary, <2>3, <2>4, PutsType
  <2> QED BY ONLY <2>3, <2>5, Zenon
<1> QED BY ONLY <1>1, <1>2, <1>3, Zenon

LEMMA SetItemType ==
    ASSUME NEW d \in Dictionary, NEW k \in Keys, NEW val \in Text
    PROVE  LET e == SetItem(d, k, val)
           IN  /\ e \in Dictionary /\ e.folds = d.folds
               /\ Named(e) \subseteq Named(d) \cup {k.name}
               /\ Distinct(d) => Distinct(e)
<1>1. <<val>> \in Vals
  BY DEF Vals
<1>2. Puts(d, SetItem(d, k, val), k, <<val>>)
  BY SetItemPuts
<1> QED BY ONLY <1>1, <1>2, d \in Dictionary, k \in Keys, PutsType

LEMMA UpToIs ==
    ASSUME NEW n \in Nat
    PROVE  /\ 1..0 = {} /\ 1..0 \in SUBSET (1..n) /\ 1..n \in SUBSET (1..n)
           /\ \A k \in 1..n : /\ 1..k \in SUBSET (1..n) /\ 1..k # {}
                              /\ k - 1 \in 0..n
                              /\ Max(1..k) = k /\ (1..k) \ {k} = 1..k - 1
<1>1. 1..0 = {} /\ 1..0 \in SUBSET (1..n) /\ 1..n \in SUBSET (1..n)
  OBVIOUS
<1>2. ASSUME NEW k \in 1..n
      PROVE  /\ 1..k \in SUBSET (1..n) /\ 1..k # {}
             /\ k - 1 \in 0..n
             /\ Max(1..k) = k /\ (1..k) \ {k} = 1..k - 1
  <2>1. k \in Nat \ {0}
    OBVIOUS
  <2>2. k \in 1..k /\ 1..k \in SUBSET (1..n) /\ k - 1 \in 0..n
    OBVIOUS
  <2>3. 1..k # {}
    BY ONLY <2>2, Zenon
  <2> QED BY ONLY <2>1, <2>2, <2>3, MaxUpTo, Zenon
<1> QED BY <1>1, <1>2

LEMMA MaxWithin ==
    ASSUME NEW n \in Nat, NEW t \in SUBSET (1..n), t # {}
    PROVE  Max(t) \in 1..n /\ t \ {Max(t)} \in SUBSET (1..n)
<1>1. Max(t) \in t
  BY MaxIs
<1> QED BY <1>1, Zenon

(* What holds of the base, and after a step of what holds before it.        *)
LEMMA Along ==
    ASSUME NEW A, NEW n \in Nat, NEW F, F[0] \in A,
           \A k \in 1..n : F[k - 1] \in A => F[k] \in A
    PROVE  \A k \in 0..n : F[k] \in A
<1> DEFINE P == {k \in Nat : k <= n => F[k] \in A}
<1>1. 0 \in P
  OBVIOUS
<1>2. ASSUME NEW k \in Nat, k \in P PROVE k + 1 \in P
  <2> SUFFICES ASSUME k + 1 <= n PROVE F[k + 1] \in A
    OBVIOUS
  <2>1. k + 1 \in 1..n /\ k + 1 - 1 = k /\ F[k] \in A
    BY <1>2
  <2> QED BY ONLY <2>1, \A j \in 1..n : F[j - 1] \in A => F[j] \in A
<1> HIDE DEF P
<1>3. \A k \in Nat : k \in P
  BY <1>1, <1>2, SetInduction
<1> QED BY <1>3 DEF P

(* Which entries stay.                                                      *)
Keeps(s, names, n, F) ==
    /\ F[0] = <<>>
    /\ \A k \in 1..n : F[k] = IF s[k].key.name \in names THEN F[k - 1] ELSE Append(F[k - 1], s[k])

LEMMA WithoutFold ==
    ASSUME NEW d \in Dictionary, NEW names
    PROVE  \E F : /\ Keeps(d.items, names, Len(d.items), F)
                  /\ \A k \in 0..Len(d.items) : F[k] \in Seq(Entries)
                  /\ Without(d, names) = [folds |-> d.folds, items |-> F[Len(d.items)]]
<1> DEFINE op(a, e) == IF e.key.name \in names THEN a ELSE Append(a, e)
           A == Seq(Entries)
<1>1. PICK s, n : s = d.items /\ n = Len(d.items)
  OBVIOUS
<1>2. n \in Nat /\ DOMAIN s = 1..n /\ \A i \in 1..n : s[i] \in Entries
  BY <1>1, ItemsAre, Zenon
<1>3. <<>> \in A
  BY EmptySeq
<1>4. ASSUME NEW a \in A, NEW e \in Entries PROVE op(a, e) \in A
  BY <1>4, AppendProperties
<1> DEFINE fold(g) == [t \in SUBSET (1..n) |->
                         IF t = {} THEN <<>> ELSE op(g[t \ {Max(t)}], s[Max(t)])]
<1>5. Without(d, names) = [d EXCEPT !.items = (CHOOSE g : g = fold(g))[1..n]]
  BY <1>1, <1>2, Zenon DEF Without, FoldLeft, MapThenFoldSet
<1> HIDE DEF A, op
<1> DEFINE step == [i \in 1..n |-> [a \in A |-> op(a, s[i])]]
<1>6. step \in [1..n -> [A -> A]]
  BY <1>2, <1>4
<1>7. PICK f : Folding(A, <<>>, step, n, f)
  <2> HIDE DEF step
  <2> QED BY ONLY <1>2, <1>3, <1>6, FoldExists, Zenon
<1>8. f = fold(f)
  <2>1. f \in [SUBSET (1..n) -> A] /\ \A t \in SUBSET (1..n) : FoldsAt(<<>>, step, f, t)
    BY ONLY <1>7, Zenon DEF Folding
  <2>2. ASSUME NEW t \in SUBSET (1..n)
        PROVE  f[t] = IF t = {} THEN <<>> ELSE op(f[t \ {Max(t)}], s[Max(t)])
    <3>1. f[t] = IF t = {} THEN <<>> ELSE step[Max(t)][f[t \ {Max(t)}]]
      BY ONLY <2>1, t \in SUBSET (1..n), Zenon DEF FoldsAt
    <3>2. CASE t = {}
      BY ONLY <3>1, <3>2, Zenon
    <3>3. CASE t # {}
      <4>1. Max(t) \in 1..n /\ t \ {Max(t)} \in SUBSET (1..n)
        BY <1>2, <3>3, MaxWithin
      <4>2. f[t \ {Max(t)}] \in A
        BY ONLY <2>1, <4>1, Zenon
      <4>3. step[Max(t)][f[t \ {Max(t)}]] = op(f[t \ {Max(t)}], s[Max(t)])
        BY ONLY <4>1, <4>2, Zenon
      <4> QED BY ONLY <3>1, <3>3, <4>3, Zenon
    <3> QED BY <3>2, <3>3
  <2> QED BY ONLY <2>1, <2>2, Zenon
<1>9. PICK g : g = fold(g) /\ g = CHOOSE h : h = fold(h)
  BY ONLY <1>8, Zenon
<1>10. ASSUME NEW t \in SUBSET (1..n)
       PROVE  g[t] = IF t = {} THEN <<>> ELSE op(g[t \ {Max(t)}], s[Max(t)])
  BY ONLY <1>9, t \in SUBSET (1..n), Zenon
<1> HIDE DEF fold
<1> DEFINE F == [k \in 0..n |-> g[1..k]]
<1>11. F[0] = <<>> /\ \A k \in 1..n : F[k] = op(F[k - 1], s[k])
  <2>1. \A k \in 0..n : F[k] = g[1..k]
    OBVIOUS
  <2>2. 0 \in 0..n /\ \A k \in 1..n : k \in 0..n
    BY <1>2
  <2> HIDE DEF F
  <2>3. g[1..0] = <<>>
    BY ONLY <1>2, <1>10, UpToIs, Zenon
  <2>4. ASSUME NEW k \in 1..n PROVE F[k] = op(F[k - 1], s[k])
    <3>1. /\ 1..k \in SUBSET (1..n) /\ 1..k # {} /\ k - 1 \in 0..n
          /\ Max(1..k) = k /\ (1..k) \ {k} = 1..k - 1
      BY ONLY <1>2, UpToIs, k \in 1..n, Zenon
    <3>2. g[1..k] = op(g[(1..k) \ {Max(1..k)}], s[Max(1..k)])
      BY ONLY <1>10, <3>1, Zenon
    <3>3. g[1..k] = op(g[1..k - 1], s[k])
      BY ONLY <3>1, <3>2, Zenon
    <3> QED BY ONLY <2>1, <2>2, <3>1, <3>3, k \in 1..n, Zenon
  <2> QED BY ONLY <2>1, <2>2, <2>3, <2>4, Zenon
<1>12. F[n] = g[1..n]
  BY <1>2
<1> HIDE DEF F
<1>13. \A k \in 0..n : F[k] \in A
  <2>1. \A k \in 1..n : F[k - 1] \in A => F[k] \in A
    BY ONLY <1>2, <1>4, <1>11, Zenon
  <2>2. F[0] \in A
    BY ONLY <1>3, <1>11, Zenon
  <2> QED BY ONLY <1>2, <2>1, <2>2, Along, Zenon
<1>14. Without(d, names) = [folds |-> d.folds, items |-> F[n]]
  <2>1. Without(d, names) = [d EXCEPT !.items = F[n]]
    BY ONLY <1>5, <1>9, <1>12, Zenon
  <2>2. d = [folds |-> d.folds, items |-> d.items]
    BY DEF Dictionary
  <2> QED BY ONLY <2>1, <2>2
<1>15. Keeps(s, names, n, F)
  BY ONLY <1>11, Zenon DEF Keeps, op
<1> QED BY ONLY <1>1, <1>13, <1>14, <1>15, Zenon DEF A

(***************************************************************************)
(* FlattenSeq, position by position                                         *)
(***************************************************************************)
(* The function that FlattenSeq is made of, up to n.                        *)
Flattens(seqs, n, f) ==
    f = [i \in 1..n |-> IF i = 1 THEN seqs[i] ELSE f[i - 1] \o seqs[i]]

LEMMA FlattensExists ==
    ASSUME NEW seqs, NEW n \in Nat PROVE \E f : Flattens(seqs, n, f)
<1> DEFINE P == {m \in Nat : \E f : Flattens(seqs, m, f)}
<1>1. 0 \in P
  <2> DEFINE f == [i \in 1..0 |-> {}]
  <2>1. Flattens(seqs, 0, f)
    BY DEF Flattens
  <2> HIDE DEF f
  <2> QED BY <2>1
<1>2. ASSUME NEW m \in Nat, m \in P PROVE m + 1 \in P
  <2>1. PICK f : Flattens(seqs, m, f)
    BY <1>2
  <2> DEFINE next1 == IF m = 0 THEN seqs[1] ELSE f[m] \o seqs[m + 1]
             g == [i \in 1..m + 1 |-> IF i = m + 1 THEN next1 ELSE f[i]]
  <2>2. ASSUME NEW i \in 1..m + 1
        PROVE g[i] = IF i = 1 THEN seqs[i] ELSE g[i - 1] \o seqs[i]
    <3>1. CASE i = m + 1
      BY <3>1
    <3>2. CASE i # m + 1
      <4>1. i \in 1..m /\ (i # 1 => i - 1 \in 1..m /\ i - 1 \in 1..m + 1 /\ i - 1 # m + 1)
        BY <3>2
      <4>2. f[i] = IF i = 1 THEN seqs[i] ELSE f[i - 1] \o seqs[i]
        BY <2>1, <4>1 DEF Flattens
      <4> QED BY <3>2, <4>1, <4>2
    <3> QED BY <3>1, <3>2
  <2>3. Flattens(seqs, m + 1, g)
    <3>1. g = [i \in 1..m + 1 |-> g[i]]
      OBVIOUS
    <3> HIDE DEF g
    <3> QED BY <2>2, <3>1 DEF Flattens
  <2> HIDE DEF g
  <2> QED BY <2>3
<1> HIDE DEF P
<1>3. n \in P
  BY <1>1, <1>2, SetInduction
<1> QED BY <1>3 DEF P

LEMMA FlattenIs ==
    ASSUME NEW seqs, Len(seqs) \in Nat \ {0}
    PROVE  \E f : Flattens(seqs, Len(seqs), f) /\ FlattenSeq(seqs) = f[Len(seqs)]
<1> DEFINE f == CHOOSE g : Flattens(seqs, Len(seqs), g)
<1>1. Flattens(seqs, Len(seqs), f)
  BY FlattensExists
<1>2. FlattenSeq(seqs) = f[Len(seqs)]
  BY Zenon DEF FlattenSeq, Flattens
<1> HIDE DEF f
<1> QED BY <1>1, <1>2

LEMMA FlattensAt ==
    ASSUME NEW s, NEW n \in Nat, NEW f, Flattens(s, n, f), NEW i \in 1..n
    PROVE  f[i] = IF i = 1 THEN s[i] ELSE f[i - 1] \o s[i]
<1> DEFINE e(j) == IF j = 1 THEN s[j] ELSE f[j - 1] \o s[j]
           F == [j \in 1..n |-> e(j)]
<1>1. f = F
  BY DEF Flattens
<1> HIDE DEF e
<1>2. F[i] = e(i)
  OBVIOUS
<1> HIDE DEF F
<1>3. f[i] = e(i)
  BY <1>1, <1>2
<1> QED BY ONLY <1>3 DEF e

Flattened(s, n, F) == F[0] = <<>> /\ \A k \in 1..n : F[k] = F[k - 1] \o s[k]

LEMMA FlattenFold ==
    ASSUME NEW S, NEW s \in Seq(Seq(S))
    PROVE  \E F : /\ Flattened(s, Len(s), F)
                  /\ \A k \in 0..Len(s) : F[k] \in Seq(S)
                  /\ FlattenSeq(s) = F[Len(s)]
<1>1. PICK n : n = Len(s)
  OBVIOUS
<1>2. n \in Nat /\ \A k \in 1..n : s[k] \in Seq(S)
  BY <1>1, LenProperties, ElementOfSeq
<1>3. <<>> \in Seq(S)
  BY EmptySeq
<1>4. PICK f : Flattens(s, n, f) /\ (n # 0 => FlattenSeq(s) = f[n])
  <2>1. CASE n = 0
    BY ONLY <1>2, <2>1, FlattensExists
  <2>2. CASE n # 0
    BY ONLY <1>1, <1>2, <2>2, FlattenIs
  <2> QED BY <2>1, <2>2
<1> DEFINE F == [k \in 0..n |-> IF k = 0 THEN <<>> ELSE f[k]]
<1>5. F[0] = <<>> /\ \A k \in 1..n : F[k] = f[k]
  BY <1>2
<1>6. n # 0 => F[n] = f[n]
  BY <1>2
<1>7. n = 0 => F[n] = <<>>
  BY <1>2
<1> HIDE DEF F
<1>8. ASSUME NEW k \in 1..n PROVE F[k] = F[k - 1] \o s[k]
  <2>1. f[k] = IF k = 1 THEN s[k] ELSE f[k - 1] \o s[k]
    BY ONLY <1>2, <1>4, k \in 1..n, FlattensAt
  <2>2. CASE k = 1
    <3>1. <<>> \o s[k] = s[k]
      BY <1>2, ConcatEmptySeq
    <3>2. k - 1 = 0
      BY ONLY <2>2
    <3> QED BY ONLY <1>5, <2>1, <2>2, <3>1, <3>2, k \in 1..n, Zenon
  <2>3. CASE k # 1
    <3>1. k - 1 \in 1..n
      BY ONLY <1>2, <2>3, k \in 1..n
    <3> QED BY ONLY <1>5, <2>1, <2>3, <3>1, k \in 1..n, Zenon
  <2> QED BY <2>2, <2>3
<1>9. \A k \in 0..n : F[k] \in Seq(S)
  <2>1. \A k \in 1..n : F[k - 1] \in Seq(S) => F[k] \in Seq(S)
    <3> SUFFICES ASSUME NEW k \in 1..n, F[k - 1] \in Seq(S) PROVE F[k] \in Seq(S)
      OBVIOUS
    <3>1. F[k - 1] \o s[k] \in Seq(S)
      BY <1>2, ConcatProperties
    <3> QED BY ONLY <1>8, <3>1, k \in 1..n, Zenon
  <2>2. F[0] \in Seq(S)
    BY ONLY <1>3, <1>5, Zenon
  <2> QED BY ONLY <1>2, <2>1, <2>2, Along, Zenon
<1>10. FlattenSeq(s) = F[n]
  <2>1. CASE n = 0
    <3>1. s = <<>>
      BY ONLY <1>1, <2>1, s \in Seq(Seq(S)), EmptySeq
    <3>2. FlattenSeq(s) = s
      BY ONLY <1>1, <2>1, Zenon DEF FlattenSeq
    <3> QED BY ONLY <1>7, <2>1, <3>1, <3>2, Zenon
  <2>2. CASE n # 0
    BY ONLY <1>4, <1>6, <2>2, Zenon
  <2> QED BY <2>1, <2>2
<1>11. Flattened(s, n, F)
  BY ONLY <1>5, <1>8, Zenon DEF Flattened
<1> QED BY ONLY <1>1, <1>9, <1>10, <1>11, Zenon

LEMMA JoinType == ASSUME NEW vals \in Seq(Text) PROVE Join(vals) \in Text
<1>1. PICK F : /\ Flattened(vals, Len(vals), F)
               /\ \A k \in 0..Len(vals) : F[k] \in Seq(STRING)
               /\ FlattenSeq(vals) = F[Len(vals)]
  BY FlattenFold DEF Text
<1>2. Len(vals) \in 0..Len(vals)
  BY LenProperties
<1> QED BY ONLY <1>1, <1>2, Zenon DEF Join, Text

Line == Keys \X Text

(* What is told, line by line.                                              *)
Tells(s, name, n, F) ==
    /\ F[0] = <<>>
    /\ \A k \in 1..n : F[k] = IF s[k][1].name = name THEN F[k - 1] \o s[k][2] ELSE F[k - 1]

LEMMA ToldFold ==
    ASSUME NEW s \in Seq(Line), NEW name
    PROVE  \E F : /\ Tells(s, name, Len(s), F)
                  /\ \A k \in 0..Len(s) : F[k] \in Text
                  /\ Told(s, name) = F[Len(s)]
<1> DEFINE op(a, l) == IF l[1].name = name THEN a \o l[2] ELSE a
           A == Text
<1>1. PICK n : n = Len(s)
  OBVIOUS
<1>2. n \in Nat /\ DOMAIN s = 1..n /\ \A i \in 1..n : s[i] \in Line
  BY <1>1, LenProperties, ElementOfSeq
<1>3. <<>> \in A
  BY EmptySeq DEF Text
<1>4. ASSUME NEW a \in A, NEW e \in Line PROVE op(a, e) \in A
  <2>1. e[2] \in Text
    BY DEF Line
  <2> QED BY <2>1, ConcatProperties DEF Text
<1> DEFINE fold(g) == [t \in SUBSET (1..n) |->
                         IF t = {} THEN <<>> ELSE op(g[t \ {Max(t)}], s[Max(t)])]
<1>5. Told(s, name) = (CHOOSE g : g = fold(g))[1..n]
  BY <1>1, <1>2, Zenon DEF Told, FoldLeft, MapThenFoldSet
<1> HIDE DEF A, op
<1> DEFINE step == [i \in 1..n |-> [a \in A |-> op(a, s[i])]]
<1>6. step \in [1..n -> [A -> A]]
  BY <1>2, <1>4
<1>7. PICK f : Folding(A, <<>>, step, n, f)
  <2> HIDE DEF step
  <2> QED BY ONLY <1>2, <1>3, <1>6, FoldExists, Zenon
<1>8. f = fold(f)
  <2>1. f \in [SUBSET (1..n) -> A] /\ \A t \in SUBSET (1..n) : FoldsAt(<<>>, step, f, t)
    BY ONLY <1>7, Zenon DEF Folding
  <2>2. ASSUME NEW t \in SUBSET (1..n)
        PROVE  f[t] = IF t = {} THEN <<>> ELSE op(f[t \ {Max(t)}], s[Max(t)])
    <3>1. f[t] = IF t = {} THEN <<>> ELSE step[Max(t)][f[t \ {Max(t)}]]
      BY ONLY <2>1, t \in SUBSET (1..n), Zenon DEF FoldsAt
    <3>2. CASE t = {}
      BY ONLY <3>1, <3>2, Zenon
    <3>3. CASE t # {}
      <4>1. Max(t) \in 1..n /\ t \ {Max(t)} \in SUBSET (1..n)
        BY <1>2, <3>3, MaxWithin
      <4>2. f[t \ {Max(t)}] \in A
        BY ONLY <2>1, <4>1, Zenon
      <4>3. step[Max(t)][f[t \ {Max(t)}]] = op(f[t \ {Max(t)}], s[Max(t)])
        BY ONLY <4>1, <4>2, Zenon
      <4> QED BY ONLY <3>1, <3>3, <4>3, Zenon
    <3> QED BY <3>2, <3>3
  <2> QED BY ONLY <2>1, <2>2, Zenon
<1>9. PICK g : g = fold(g) /\ g = CHOOSE h : h = fold(h)
  BY ONLY <1>8, Zenon
<1>10. ASSUME NEW t \in SUBSET (1..n)
       PROVE  g[t] = IF t = {} THEN <<>> ELSE op(g[t \ {Max(t)}], s[Max(t)])
  BY ONLY <1>9, t \in SUBSET (1..n), Zenon
<1> HIDE DEF fold
<1> DEFINE F == [k \in 0..n |-> g[1..k]]
<1>11. F[0] = <<>> /\ \A k \in 1..n : F[k] = op(F[k - 1], s[k])
  <2>1. \A k \in 0..n : F[k] = g[1..k]
    OBVIOUS
  <2>2. 0 \in 0..n /\ \A k \in 1..n : k \in 0..n
    BY <1>2
  <2> HIDE DEF F
  <2>3. g[1..0] = <<>>
    BY ONLY <1>2, <1>10, UpToIs, Zenon
  <2>4. ASSUME NEW k \in 1..n PROVE F[k] = op(F[k - 1], s[k])
    <3>1. /\ 1..k \in SUBSET (1..n) /\ 1..k # {} /\ k - 1 \in 0..n
          /\ Max(1..k) = k /\ (1..k) \ {k} = 1..k - 1
      BY ONLY <1>2, UpToIs, k \in 1..n, Zenon
    <3>2. g[1..k] = op(g[(1..k) \ {Max(1..k)}], s[Max(1..k)])
      BY ONLY <1>10, <3>1, Zenon
    <3>3. g[1..k] = op(g[1..k - 1], s[k])
      BY ONLY <3>1, <3>2, Zenon
    <3> QED BY ONLY <2>1, <2>2, <3>1, <3>3, k \in 1..n, Zenon
  <2> QED BY ONLY <2>1, <2>2, <2>3, <2>4, Zenon
<1>12. F[n] = g[1..n]
  BY <1>2
<1> HIDE DEF F
<1>13. \A k \in 0..n : F[k] \in A
  <2>1. \A k \in 1..n : F[k - 1] \in A => F[k] \in A
    BY ONLY <1>2, <1>4, <1>11, Zenon
  <2>2. F[0] \in A
    BY ONLY <1>3, <1>11, Zenon
  <2> QED BY ONLY <1>2, <2>1, <2>2, Along, Zenon
<1>14. Told(s, name) = F[n]
  BY ONLY <1>5, <1>9, <1>12, Zenon
<1>15. Tells(s, name, n, F)
  BY ONLY <1>11, Zenon DEF Tells, op
<1> QED BY ONLY <1>1, <1>13, <1>14, <1>15, Zenon DEF A

(* A dictionary that takes in another.                                      *)
Updates(d, s, n, F) ==
    F[0] = d /\ \A k \in 1..n : F[k] = SetItem(F[k - 1], s[k].key, Join(s[k].vals))

LEMMA UpdateFold ==
    ASSUME NEW d \in Dictionary, NEW other \in Dictionary
    PROVE  \E F : /\ Updates(d, other.items, Len(other.items), F)
                  /\ \A k \in 0..Len(other.items) : F[k] \in Dictionary
                  /\ Update(d, other) = F[Len(other.items)]
<1> DEFINE op(a, e) == SetItem(a, e.key, Join(e.vals))
           A == Dictionary
<1>1. PICK s, n : s = other.items /\ n = Len(other.items)
  OBVIOUS
<1>2. n \in Nat /\ DOMAIN s = 1..n /\ \A i \in 1..n : s[i] \in Entries
  BY <1>1, ItemsAre, Zenon
<1>3. d \in A
  OBVIOUS
<1>4. ASSUME NEW a \in A, NEW e \in Entries PROVE op(a, e) \in A
  <2>1. e.key \in Keys /\ Join(e.vals) \in Text
    BY EntryIs, JoinType
  <2> QED BY <2>1, SetItemType
<1> DEFINE fold(g) == [t \in SUBSET (1..n) |->
                         IF t = {} THEN d ELSE op(g[t \ {Max(t)}], s[Max(t)])]
<1>5. Update(d, other) = (CHOOSE g : g = fold(g))[1..n]
  BY <1>1, <1>2, Zenon DEF Update, FoldLeft, MapThenFoldSet
<1> HIDE DEF A, op
<1> DEFINE step == [i \in 1..n |-> [a \in A |-> op(a, s[i])]]
<1>6. step \in [1..n -> [A -> A]]
  BY <1>2, <1>4
<1>7. PICK f : Folding(A, d, step, n, f)
  <2> HIDE DEF step
  <2> QED BY ONLY <1>2, <1>3, <1>6, FoldExists, Zenon
<1>8. f = fold(f)
  <2>1. f \in [SUBSET (1..n) -> A] /\ \A t \in SUBSET (1..n) : FoldsAt(d, step, f, t)
    BY ONLY <1>7, Zenon DEF Folding
  <2>2. ASSUME NEW t \in SUBSET (1..n)
        PROVE  f[t] = IF t = {} THEN d ELSE op(f[t \ {Max(t)}], s[Max(t)])
    <3>1. f[t] = IF t = {} THEN d ELSE step[Max(t)][f[t \ {Max(t)}]]
      BY ONLY <2>1, t \in SUBSET (1..n), Zenon DEF FoldsAt
    <3>2. CASE t = {}
      BY ONLY <3>1, <3>2, Zenon
    <3>3. CASE t # {}
      <4>1. Max(t) \in 1..n /\ t \ {Max(t)} \in SUBSET (1..n)
        BY <1>2, <3>3, MaxWithin
      <4>2. f[t \ {Max(t)}] \in A
        BY ONLY <2>1, <4>1, Zenon
      <4>3. step[Max(t)][f[t \ {Max(t)}]] = op(f[t \ {Max(t)}], s[Max(t)])
        BY ONLY <4>1, <4>2, Zenon
      <4> QED BY ONLY <3>1, <3>3, <4>3, Zenon
    <3> QED BY <3>2, <3>3
  <2> QED BY ONLY <2>1, <2>2, Zenon
<1>9. PICK g : g = fold(g) /\ g = CHOOSE h : h = fold(h)
  BY ONLY <1>8, Zenon
<1>10. ASSUME NEW t \in SUBSET (1..n)
       PROVE  g[t] = IF t = {} THEN d ELSE op(g[t \ {Max(t)}], s[Max(t)])
  BY ONLY <1>9, t \in SUBSET (1..n), Zenon
<1> HIDE DEF fold
<1> DEFINE F == [k \in 0..n |-> g[1..k]]
<1>11. F[0] = d /\ \A k \in 1..n : F[k] = op(F[k - 1], s[k])
  <2>1. \A k \in 0..n : F[k] = g[1..k]
    OBVIOUS
  <2>2. 0 \in 0..n /\ \A k \in 1..n : k \in 0..n
    BY <1>2
  <2> HIDE DEF F
  <2>3. g[1..0] = d
    BY ONLY <1>2, <1>10, UpToIs, Zenon
  <2>4. ASSUME NEW k \in 1..n PROVE F[k] = op(F[k - 1], s[k])
    <3>1. /\ 1..k \in SUBSET (1..n) /\ 1..k # {} /\ k - 1 \in 0..n
          /\ Max(1..k) = k /\ (1..k) \ {k} = 1..k - 1
      BY ONLY <1>2, UpToIs, k \in 1..n, Zenon
    <3>2. g[1..k] = op(g[(1..k) \ {Max(1..k)}], s[Max(1..k)])
      BY ONLY <1>10, <3>1, Zenon
    <3>3. g[1..k] = op(g[1..k - 1], s[k])
      BY ONLY <3>1, <3>2, Zenon
    <3> QED BY ONLY <2>1, <2>2, <3>1, <3>3, k \in 1..n, Zenon
  <2> QED BY ONLY <2>1, <2>2, <2>3, <2>4, Zenon
<1>12. F[n] = g[1..n]
  BY <1>2
<1> HIDE DEF F
<1>13. \A k \in 0..n : F[k] \in A
  <2>1. \A k \in 1..n : F[k - 1] \in A => F[k] \in A
    BY ONLY <1>2, <1>4, <1>11, Zenon
  <2>2. F[0] \in A
    BY ONLY <1>3, <1>11, Zenon
  <2> QED BY ONLY <1>2, <2>1, <2>2, Along, Zenon
<1>14. Update(d, other) = F[n]
  BY ONLY <1>5, <1>9, <1>12, Zenon
<1>15. Updates(d, s, n, F)
  BY ONLY <1>11, Zenon DEF Updates, op
<1> QED BY ONLY <1>1, <1>13, <1>14, <1>15, Zenon DEF A

(* A dictionary that takes in lines.                                        *)
Extends(d, s, n, F) ==
    F[0] = d /\ \A k \in 1..n : F[k] = Add(F[k - 1], s[k][1], s[k][2], FALSE)

LEMMA ExtendFold ==
    ASSUME NEW d \in Dictionary, NEW s \in Seq(Line)
    PROVE  \E F : /\ Extends(d, s, Len(s), F)
                  /\ \A k \in 0..Len(s) : F[k] \in Dictionary
                  /\ Extend(d, s) = F[Len(s)]
<1> DEFINE op(a, l) == Add(a, l[1], l[2], FALSE)
           A == Dictionary
<1>1. PICK n : n = Len(s)
  OBVIOUS
<1>2. n \in Nat /\ DOMAIN s = 1..n /\ \A i \in 1..n : s[i] \in Line
  BY <1>1, LenProperties, ElementOfSeq
<1>3. d \in A
  OBVIOUS
<1>4. ASSUME NEW a \in A, NEW e \in Line PROVE op(a, e) \in A
  <2>1. e[1] \in Keys /\ e[2] \in Text
    BY DEF Line
  <2> QED BY <2>1, AddType
<1> DEFINE fold(g) == [t \in SUBSET (1..n) |->
                         IF t = {} THEN d ELSE op(g[t \ {Max(t)}], s[Max(t)])]
<1>5. Extend(d, s) = (CHOOSE g : g = fold(g))[1..n]
  BY <1>1, <1>2, Zenon DEF Extend, FoldLeft, MapThenFoldSet
<1> HIDE DEF A, op
<1> DEFINE step == [i \in 1..n |-> [a \in A |-> op(a, s[i])]]
<1>6. step \in [1..n -> [A -> A]]
  BY <1>2, <1>4
<1>7. PICK f : Folding(A, d, step, n, f)
  <2> HIDE DEF step
  <2> QED BY ONLY <1>2, <1>3, <1>6, FoldExists, Zenon
<1>8. f = fold(f)
  <2>1. f \in [SUBSET (1..n) -> A] /\ \A t \in SUBSET (1..n) : FoldsAt(d, step, f, t)
    BY ONLY <1>7, Zenon DEF Folding
  <2>2. ASSUME NEW t \in SUBSET (1..n)
        PROVE  f[t] = IF t = {} THEN d ELSE op(f[t \ {Max(t)}], s[Max(t)])
    <3>1. f[t] = IF t = {} THEN d ELSE step[Max(t)][f[t \ {Max(t)}]]
      BY ONLY <2>1, t \in SUBSET (1..n), Zenon DEF FoldsAt
    <3>2. CASE t = {}
      BY ONLY <3>1, <3>2, Zenon
    <3>3. CASE t # {}
      <4>1. Max(t) \in 1..n /\ t \ {Max(t)} \in SUBSET (1..n)
        BY <1>2, <3>3, MaxWithin
      <4>2. f[t \ {Max(t)}] \in A
        BY ONLY <2>1, <4>1, Zenon
      <4>3. step[Max(t)][f[t \ {Max(t)}]] = op(f[t \ {Max(t)}], s[Max(t)])
        BY ONLY <4>1, <4>2, Zenon
      <4> QED BY ONLY <3>1, <3>3, <4>3, Zenon
    <3> QED BY <3>2, <3>3
  <2> QED BY ONLY <2>1, <2>2, Zenon
<1>9. PICK g : g = fold(g) /\ g = CHOOSE h : h = fold(h)
  BY ONLY <1>8, Zenon
<1>10. ASSUME NEW t \in SUBSET (1..n)
       PROVE  g[t] = IF t = {} THEN d ELSE op(g[t \ {Max(t)}], s[Max(t)])
  BY ONLY <1>9, t \in SUBSET (1..n), Zenon
<1> HIDE DEF fold
<1> DEFINE F == [k \in 0..n |-> g[1..k]]
<1>11. F[0] = d /\ \A k \in 1..n : F[k] = op(F[k - 1], s[k])
  <2>1. \A k \in 0..n : F[k] = g[1..k]
    OBVIOUS
  <2>2. 0 \in 0..n /\ \A k \in 1..n : k \in 0..n
    BY <1>2
  <2> HIDE DEF F
  <2>3. g[1..0] = d
    BY ONLY <1>2, <1>10, UpToIs, Zenon
  <2>4. ASSUME NEW k \in 1..n PROVE F[k] = op(F[k - 1], s[k])
    <3>1. /\ 1..k \in SUBSET (1..n) /\ 1..k # {} /\ k - 1 \in 0..n
          /\ Max(1..k) = k /\ (1..k) \ {k} = 1..k - 1
      BY ONLY <1>2, UpToIs, k \in 1..n, Zenon
    <3>2. g[1..k] = op(g[(1..k) \ {Max(1..k)}], s[Max(1..k)])
      BY ONLY <1>10, <3>1, Zenon
    <3>3. g[1..k] = op(g[1..k - 1], s[k])
      BY ONLY <3>1, <3>2, Zenon
    <3> QED BY ONLY <2>1, <2>2, <3>1, <3>3, k \in 1..n, Zenon
  <2> QED BY ONLY <2>1, <2>2, <2>3, <2>4, Zenon
<1>12. F[n] = g[1..n]
  BY <1>2
<1> HIDE DEF F
<1>13. \A k \in 0..n : F[k] \in A
  <2>1. \A k \in 1..n : F[k - 1] \in A => F[k] \in A
    BY ONLY <1>2, <1>4, <1>11, Zenon
  <2>2. F[0] \in A
    BY ONLY <1>3, <1>11, Zenon
  <2> QED BY ONLY <1>2, <2>1, <2>2, Along, Zenon
<1>14. Extend(d, s) = F[n]
  BY ONLY <1>5, <1>9, <1>12, Zenon
<1>15. Extends(d, s, n, F)
  BY ONLY <1>11, Zenon DEF Extends, op
<1> QED BY ONLY <1>1, <1>13, <1>14, <1>15, Zenon DEF A

LEMMA Stepwise ==
    ASSUME NEW n \in Nat, NEW Q, 0 \in Q, \A k \in 1..n : k - 1 \in Q => k \in Q
    PROVE  \A k \in 0..n : k \in Q
<1> DEFINE P == {k \in Nat : k <= n => k \in Q}
<1>1. 0 \in P
  OBVIOUS
<1>2. ASSUME NEW k \in Nat, k \in P PROVE k + 1 \in P
  <2> SUFFICES ASSUME k + 1 <= n PROVE k + 1 \in Q
    OBVIOUS
  <2>1. k + 1 \in 1..n /\ k + 1 - 1 = k /\ k \in Q
    BY <1>2
  <2> QED BY ONLY <2>1, \A j \in 1..n : j - 1 \in Q => j \in Q
<1> HIDE DEF P
<1>3. \A k \in Nat : k \in P
  BY <1>1, <1>2, SetInduction
<1> QED BY <1>3 DEF P

LEMMA Nothing ==
    ASSUME NEW S, NEW s \in Seq(S) PROVE s \o <<>> = s /\ <<>> \o s = s
BY ConcatEmptySeq

Associates(x, y, z) == (x \o y) \o z = x \o (y \o z)
LEMMA Association ==
    ASSUME NEW x \in Text, NEW y \in Text, NEW z \in Text
    PROVE  Associates(x, y, z)
<1>1. x \in Seq(STRING) /\ y \in Seq(STRING) /\ z \in Seq(STRING)
  BY DEF Text
<1> QED BY ONLY <1>1, ConcatAssociative DEF Associates

(***************************************************************************)
(* What is told of a dictionary                                             *)
(***************************************************************************)
LEMMA ToldConcat ==
    ASSUME NEW s \in Seq(Line), NEW t \in Seq(Line), NEW name
    PROVE  /\ Told(s \o t, name) = Told(s, name) \o Told(t, name)
           /\ Told(s, name) \in Text
<1>1. PICK m, n, u : m = Len(s) /\ n = Len(t) /\ u = s \o t
  OBVIOUS
<1>2. /\ m \in Nat /\ n \in Nat /\ u \in Seq(Line) /\ Len(u) = m + n
      /\ \A i \in 1..m : u[i] = s[i]
      /\ \A i \in 1..n : u[m + i] = t[i]
      /\ \A i \in 1..n : t[i][2] \in Text
  <2>1. /\ m \in Nat /\ n \in Nat /\ u \in Seq(Line) /\ Len(u) = m + n
        /\ \A i \in 1..m + n : u[i] = IF i <= m THEN s[i] ELSE t[i - m]
    BY <1>1, LenProperties, ConcatProperties
  <2>2. \A i \in 1..m : u[i] = s[i]
    BY <2>1
  <2>3. ASSUME NEW i \in 1..n PROVE u[m + i] = t[i]
    <3>1. m + i \in 1..m + n /\ ~(m + i <= m) /\ m + i - m = i
      BY <2>1
    <3> QED BY ONLY <2>1, <3>1
  <2>4. ASSUME NEW i \in 1..n PROVE t[i][2] \in Text
    <3>1. t[i] \in Line
      BY <1>1, ElementOfSeq
    <3> QED BY <3>1 DEF Line
  <2> QED BY <2>1, <2>2, <2>3, <2>4
<1>3. PICK F : /\ Tells(u, name, m + n, F) /\ Told(u, name) = F[m + n]
               /\ \A k \in 0..m + n : F[k] \in Text
  <2>1. PICK l : l = m + n
    OBVIOUS
  <2>2. u \in Seq(Line) /\ Len(u) = l
    BY <1>2, <2>1
  <2>3. PICK F : /\ Tells(u, name, l, F) /\ Told(u, name) = F[l]
                 /\ \A k \in 0..l : F[k] \in Text
    BY ONLY <2>2, ToldFold, Zenon
  <2> QED BY ONLY <2>1, <2>3, Zenon
<1>4. PICK G : /\ Tells(s, name, m, G) /\ Told(s, name) = G[m]
               /\ \A k \in 0..m : G[k] \in Text
  BY <1>1, ToldFold
<1>5. PICK H : /\ Tells(t, name, n, H) /\ Told(t, name) = H[n]
               /\ \A k \in 0..n : H[k] \in Text
  BY <1>1, ToldFold
<1>6. F[m] = G[m]
  <2> DEFINE Q == {k \in 0..m : F[k] = G[k]}
  <2>1. 0 \in Q
    <3>1. F[0] = G[0]
      BY ONLY <1>3, <1>4, Zenon DEF Tells
    <3> QED BY <1>2, <3>1
  <2>2. ASSUME NEW k \in 1..m, k - 1 \in Q PROVE k \in Q
    <3>1. k \in 1..m + n /\ k \in 0..m
      BY <1>2
    <3>2. F[k - 1] = G[k - 1] /\ u[k] = s[k]
      BY <1>2, <2>2
    <3>3. /\ F[k] = IF u[k][1].name = name THEN F[k - 1] \o u[k][2] ELSE F[k - 1]
          /\ G[k] = IF s[k][1].name = name THEN G[k - 1] \o s[k][2] ELSE G[k - 1]
      BY ONLY <1>3, <1>4, <3>1, k \in 1..m, Zenon DEF Tells
    <3>4. F[k] = G[k]
      BY ONLY <3>2, <3>3, Zenon
    <3> QED BY <3>1, <3>4
  <2> HIDE DEF Q
  <2>3. \A k \in 0..m : k \in Q
    BY ONLY <1>2, <2>1, <2>2, Stepwise
  <2>4. m \in 0..m
    BY <1>2
  <2> QED BY <2>3, <2>4 DEF Q
<1>7. F[m + n] = G[m] \o H[n]
  <2> DEFINE Q == {k \in 0..n : F[m + k] = G[m] \o H[k]}
  <2>0. G[m] \in Text
    BY <1>2, <1>4
  <2>1. 0 \in Q
    <3>1. H[0] = <<>>
      BY ONLY <1>5, Zenon DEF Tells
    <3>2. m + 0 = m /\ 0 \in 0..n
      BY <1>2
    <3>3. G[m] \o <<>> = G[m]
      BY <2>0, Nothing DEF Text
    <3>4. F[m + 0] = G[m] \o H[0]
      BY ONLY <1>6, <3>1, <3>2, <3>3, Zenon
    <3> QED BY <3>2, <3>4
  <2>2. ASSUME NEW k \in 1..n, k - 1 \in Q PROVE k \in Q
    <3>1. m + k \in 1..m + n /\ m + k - 1 = m + (k - 1) /\ k \in 0..n /\ k - 1 \in 0..n
      BY <1>2
    <3>2. F[m + (k - 1)] = G[m] \o H[k - 1] /\ u[m + k] = t[k] /\ t[k][2] \in Text
      BY <1>2, <2>2
    <3>3. PICK l, p, x, y, z : l = m + k /\ p = m + k - 1 /\ x = G[m] /\ y = H[k - 1] /\ z = t[k][2]
      OBVIOUS
    <3>4. l \in 1..m + n /\ l - 1 = p /\ p = m + (k - 1)
      BY <1>2, <3>1, <3>3
    <3>5. F[l] = IF u[l][1].name = name THEN F[l - 1] \o u[l][2] ELSE F[l - 1]
      BY ONLY <1>3, <3>4, Zenon DEF Tells
    <3>6. F[p] = x \o y /\ u[l] = t[k]
      BY ONLY <3>2, <3>3, <3>4, Zenon
    <3>7. F[l] = IF t[k][1].name = name THEN (x \o y) \o z ELSE x \o y
      BY ONLY <3>3, <3>4, <3>5, <3>6, Zenon
    <3>8. H[k] = IF t[k][1].name = name THEN y \o z ELSE y
      BY ONLY <1>5, <3>3, k \in 1..n, Zenon DEF Tells
    <3>9. x \in Text /\ y \in Text /\ z \in Text
      BY ONLY <1>5, <2>0, <3>1, <3>2, <3>3, Zenon
    <3>10. (x \o y) \o z = x \o (y \o z)
      BY ONLY <3>9, Association, Zenon DEF Associates
    <3>11. F[l] = x \o H[k]
      BY ONLY <3>7, <3>8, <3>10, Zenon
    <3>12. F[m + k] = G[m] \o H[k]
      BY ONLY <3>3, <3>11, Zenon
    <3> QED BY <3>1, <3>12
  <2> HIDE DEF Q
  <2>3. \A k \in 0..n : k \in Q
    BY ONLY <1>2, <2>1, <2>2, Stepwise
  <2>4. n \in 0..n
    BY <1>2
  <2> QED BY <2>3, <2>4 DEF Q
<1>8. G[m] \in Text
  BY <1>2, <1>4
<1> QED BY ONLY <1>1, <1>3, <1>4, <1>5, <1>7, <1>8, Zenon

LEMMA ToldNothing == ASSUME NEW name PROVE Told(<<>>, name) = <<>>
<1>1. <<>> \in Seq(Line) /\ Len(<<>>) = 0
  BY EmptySeq
<1>2. PICK F : Tells(<<>>, name, Len(<<>>), F) /\ Told(<<>>, name) = F[Len(<<>>)]
  BY ONLY <1>1, ToldFold, Zenon
<1> QED BY ONLY <1>1, <1>2, Zenon DEF Tells

(* The lines of an entry.                                                   *)
LinesOf(e) == [j \in DOMAIN e.vals |-> <<e.key, e.vals[j]>>]
Piece(e, name) == IF e.key.name = name THEN Join(e.vals) ELSE <<>>

LEMMA ToldOfEntry ==
    ASSUME NEW e \in Entries, NEW name
    PROVE  /\ LinesOf(e) \in Seq(Line) /\ Told(LinesOf(e), name) = Piece(e, name)
           /\ Piece(e, name) \in Text
<1>1. PICK v, n, k, s : v = e.vals /\ n = Len(e.vals) /\ k = e.key /\ s = LinesOf(e)
  OBVIOUS
<1>2. v \in Seq(Text) /\ n \in Nat /\ DOMAIN v = 1..n /\ k \in Keys
      /\ n = Len(v) /\ \A i \in 1..n : v[i] \in Text
  BY <1>1, EntryIs, LenProperties, ElementOfSeq
<1>3. s = [j \in 1..n |-> <<k, v[j]>>]
  BY ONLY <1>1, <1>2, Zenon DEF LinesOf
<1>4. s \in Seq(Line) /\ Len(s) = n /\ \A j \in 1..n : s[j][1] = k /\ s[j][2] = v[j]
  <2>1. \A j \in 1..n : <<k, v[j]>> \in Line
    BY <1>2 DEF Line
  <2>2. s \in [1..n -> Line]
    BY ONLY <1>3, <2>1, Zenon
  <2>3. s \in Seq(Line)
    BY ONLY <1>2, <2>2, SeqDef
  <2>4. Len(s) = n
    BY <1>2, <1>3
  <2>5. ASSUME NEW j \in 1..n PROVE s[j][1] = k /\ s[j][2] = v[j]
    <3>1. s[j] = <<k, v[j]>>
      BY <1>3
    <3> QED BY ONLY <3>1
  <2> QED BY <2>3, <2>4, <2>5
<1>5. PICK F : Tells(s, name, n, F) /\ Told(s, name) = F[n]
  BY ONLY <1>4, ToldFold, Zenon
<1>6. PICK G : Flattened(v, n, G) /\ Join(v) = G[n] /\ \A i \in 0..n : G[i] \in Text
  <2>1. v \in Seq(Seq(STRING))
    BY <1>2 DEF Text
  <2>2. PICK G : Flattened(v, Len(v), G) /\ FlattenSeq(v) = G[Len(v)]
                 /\ \A i \in 0..Len(v) : G[i] \in Seq(STRING)
    BY ONLY <2>1, FlattenFold
  <2> QED BY ONLY <1>2, <2>2, Zenon DEF Join, Text
<1>7. F[0] = <<>> /\ G[0] = <<>>
  BY ONLY <1>5, <1>6, Zenon DEF Tells, Flattened
<1>8. ASSUME NEW i \in 1..n
      PROVE  /\ F[i] = IF k.name = name THEN F[i - 1] \o v[i] ELSE F[i - 1]
             /\ G[i] = G[i - 1] \o v[i]
  BY ONLY <1>4, <1>5, <1>6, i \in 1..n, Zenon DEF Tells, Flattened
<1>9. F[n] = IF k.name = name THEN G[n] ELSE <<>>
  <2> DEFINE Q == {i \in 0..n : F[i] = IF k.name = name THEN G[i] ELSE <<>>}
  <2>1. 0 \in Q
    <3>1. F[0] = IF k.name = name THEN G[0] ELSE <<>>
      BY ONLY <1>7, Zenon
    <3> QED BY <1>2, <3>1
  <2>2. ASSUME NEW i \in 1..n, i - 1 \in Q PROVE i \in Q
    <3>1. F[i - 1] = IF k.name = name THEN G[i - 1] ELSE <<>>
      BY <2>2
    <3>2. F[i] = IF k.name = name THEN G[i] ELSE <<>>
      BY ONLY <1>8, <3>1, i \in 1..n, Zenon
    <3>3. i \in 0..n
      BY <1>2
    <3> QED BY <3>2, <3>3
  <2> HIDE DEF Q
  <2>3. \A i \in 0..n : i \in Q
    BY ONLY <1>2, <2>1, <2>2, Stepwise
  <2>4. n \in 0..n
    BY <1>2
  <2> QED BY <2>3, <2>4 DEF Q
<1>10. Told(s, name) = Piece(e, name)
  BY ONLY <1>1, <1>5, <1>6, <1>9, Zenon DEF Piece
<1>11. Piece(e, name) \in Text
  <2>1. Join(e.vals) \in Text
    BY <1>1, <1>2, JoinType
  <2>2. <<>> \in Text
    BY EmptySeq DEF Text
  <2> QED BY ONLY <2>1, <2>2, Zenon DEF Piece
<1> QED BY ONLY <1>1, <1>4, <1>10, <1>11, Zenon

Pieces(s, name, n, G) ==
    G[0] = <<>> /\ \A k \in 1..n : G[k] = G[k - 1] \o Piece(s[k], name)

(* The lines of a dictionary are those of its entries, one after another.   *)
Lined(s, n, F) == F[0] = <<>> /\ \A k \in 1..n : F[k] = F[k - 1] \o LinesOf(s[k])

LEMMA LinesFold ==
    ASSUME NEW d \in Dictionary
    PROVE  \E F : /\ Lined(d.items, Len(d.items), F)
                  /\ \A k \in 0..Len(d.items) : F[k] \in Seq(Line)
                  /\ Lines(d) = F[Len(d.items)]
<1>1. PICK s, n : s = d.items /\ n = Len(d.items)
  OBVIOUS
<1>2. n \in Nat /\ DOMAIN s = 1..n /\ \A i \in 1..n : s[i] \in Entries
  BY <1>1, ItemsAre, Zenon
<1>3. PICK p : p = [i \in 1..n |-> LinesOf(s[i])]
  OBVIOUS
<1>4. Lines(d) = FlattenSeq(p)
  BY ONLY <1>1, <1>2, <1>3, Zenon DEF Lines, LinesOf
<1>5. p \in Seq(Seq(Line)) /\ Len(p) = n /\ \A i \in 1..n : p[i] = LinesOf(s[i])
  <2>1. \A i \in 1..n : LinesOf(s[i]) \in Seq(Line)
    BY ONLY <1>2, ToldOfEntry, Zenon
  <2>2. p \in [1..n -> Seq(Line)]
    BY ONLY <1>3, <2>1, Zenon
  <2>3. p \in Seq(Seq(Line))
    BY ONLY <1>2, <2>2, SeqDef
  <2>4. Len(p) = n
    BY ONLY <1>2, <1>3
  <2> QED BY ONLY <1>3, <2>3, <2>4, Zenon
<1>6. PICK F : /\ Flattened(p, n, F) /\ FlattenSeq(p) = F[n]
               /\ \A k \in 0..n : F[k] \in Seq(Line)
  BY ONLY <1>5, FlattenFold, Zenon
<1>7. Lined(s, n, F)
  BY ONLY <1>5, <1>6, Zenon DEF Lined, Flattened
<1> QED BY ONLY <1>1, <1>4, <1>6, <1>7, Zenon

LEMMA ToldOfDict ==
    ASSUME NEW d \in Dictionary, NEW name
    PROVE  \E G : /\ Pieces(d.items, name, Len(d.items), G)
                  /\ \A k \in 0..Len(d.items) : G[k] \in Text
                  /\ Told(Lines(d), name) = G[Len(d.items)]
<1>1. PICK s, n : s = d.items /\ n = Len(d.items)
  OBVIOUS
<1>2. n \in Nat /\ \A i \in 1..n : s[i] \in Entries
  BY <1>1, ItemsAre, Zenon
<1>3. PICK F : Lined(s, n, F) /\ Lines(d) = F[n] /\ \A k \in 0..n : F[k] \in Seq(Line)
  BY ONLY <1>1, d \in Dictionary, LinesFold, Zenon
<1> DEFINE G == [k \in 0..n |-> Told(F[k], name)]
<1>4. \A k \in 0..n : G[k] = Told(F[k], name)
  OBVIOUS
<1> HIDE DEF G
<1>5. 0 \in 0..n /\ n \in 0..n /\ \A k \in 1..n : k \in 0..n /\ k - 1 \in 0..n
  BY <1>2
<1>6. G[0] = <<>>
  BY ONLY <1>3, <1>4, <1>5, ToldNothing, Zenon DEF Lined
<1>7. ASSUME NEW k \in 1..n PROVE G[k] = G[k - 1] \o Piece(s[k], name)
  <2>1. F[k] = F[k - 1] \o LinesOf(s[k])
    BY ONLY <1>3, k \in 1..n, Zenon DEF Lined
  <2>2. F[k - 1] \in Seq(Line) /\ LinesOf(s[k]) \in Seq(Line)
        /\ Told(LinesOf(s[k]), name) = Piece(s[k], name)
    BY ONLY <1>2, <1>3, <1>5, k \in 1..n, ToldOfEntry, Zenon
  <2>3. Told(F[k - 1] \o LinesOf(s[k]), name) = Told(F[k - 1], name) \o Told(LinesOf(s[k]), name)
    BY ONLY <2>2, ToldConcat, Zenon
  <2> QED BY ONLY <1>4, <1>5, k \in 1..n, <2>1, <2>2, <2>3, Zenon
<1>8. \A k \in 0..n : G[k] \in Text
  BY ONLY <1>3, <1>4, ToldConcat, Zenon
<1>9. Pieces(s, name, n, G)
  BY ONLY <1>6, <1>7, Zenon DEF Pieces
<1> QED BY ONLY <1>1, <1>3, <1>4, <1>5, <1>8, <1>9, Zenon

(* The same pieces make the same.                                           *)
LEMMA PiecesAgree ==
    ASSUME NEW s, NEW t, NEW name, NEW n \in Nat, NEW G, NEW H,
           Pieces(s, name, n, G), Pieces(t, name, n, H),
           \A k \in 1..n : Piece(s[k], name) = Piece(t[k], name)
    PROVE  G[n] = H[n]
<1> DEFINE Q == {k \in 0..n : G[k] = H[k]}
<1>0. 0 \in 0..n /\ n \in 0..n /\ \A k \in 1..n : k \in 0..n /\ k - 1 \in 0..n
  OBVIOUS
<1>1. 0 \in Q
  <2>1. G[0] = H[0]
    BY ONLY Pieces(s, name, n, G), Pieces(t, name, n, H), Zenon DEF Pieces
  <2> QED BY <1>0, <2>1
<1>2. ASSUME NEW k \in 1..n, k - 1 \in Q PROVE k \in Q
  <2>1. G[k - 1] = H[k - 1]
    BY <1>2
  <2>2. G[k] = G[k - 1] \o Piece(s[k], name) /\ H[k] = H[k - 1] \o Piece(t[k], name)
    BY ONLY k \in 1..n, Pieces(s, name, n, G), Pieces(t, name, n, H), Zenon DEF Pieces
  <2>3. G[k] = H[k]
    BY ONLY <2>1, <2>2, k \in 1..n, Zenon,
            \A j \in 1..n : Piece(s[j], name) = Piece(t[j], name)
  <2> QED BY <1>0, <2>3
<1> HIDE DEF Q
<1>3. n \in Q
  BY ONLY <1>0, <1>1, <1>2, n \in Nat, Stepwise
<1> QED BY <1>3 DEF Q

(* One entry alone speaks of the name.                                      *)
LEMMA PieceAlone ==
    ASSUME NEW s, NEW name, NEW n \in Nat, NEW G, Pieces(s, name, n, G), NEW j \in 1..n,
           Piece(s[j], name) \in Text, \A k \in 1..n : k # j => Piece(s[k], name) = <<>>
    PROVE  G[n] = Piece(s[j], name)
<1> DEFINE Q == {k \in 0..n : G[k] = IF j <= k THEN Piece(s[j], name) ELSE <<>>}
<1>0. 0 \in 0..n /\ n \in 0..n /\ ~(j <= 0) /\ j <= n
      /\ \A k \in 1..n : k \in 0..n /\ k - 1 \in 0..n
  OBVIOUS
<1>1. 0 \in Q
  <2>1. G[0] = <<>>
    BY ONLY Pieces(s, name, n, G), Zenon DEF Pieces
  <2> QED BY <1>0, <2>1
<1>2. ASSUME NEW k \in 1..n, k - 1 \in Q PROVE k \in Q
  <2>1. G[k - 1] = IF j <= k - 1 THEN Piece(s[j], name) ELSE <<>>
    BY <1>2
  <2>2. G[k] = G[k - 1] \o Piece(s[k], name)
    BY ONLY k \in 1..n, Pieces(s, name, n, G), Zenon DEF Pieces
  <2>3. <<>> \o Piece(s[j], name) = Piece(s[j], name)
        /\ Piece(s[j], name) \o <<>> = Piece(s[j], name) /\ <<>> \o <<>> = <<>>
    <3>1. <<>> \in Seq(STRING) /\ Piece(s[j], name) \in Seq(STRING)
      BY EmptySeq DEF Text
    <3> QED BY ONLY <3>1, Nothing
  <2>4. CASE j = k
    <3>1. ~(j <= k - 1) /\ j <= k
      BY <2>4
    <3>2. G[k] = Piece(s[j], name)
      BY ONLY <2>1, <2>2, <2>3, <2>4, <3>1, Zenon
    <3> QED BY <1>0, <3>1, <3>2
  <2>5. CASE j # k
    <3>1. j <= k - 1 <=> j <= k
      BY <2>5
    <3>2. Piece(s[k], name) = <<>>
      BY <2>5
    <3>3. G[k] = IF j <= k THEN Piece(s[j], name) ELSE <<>>
      BY ONLY <2>1, <2>2, <2>3, <3>1, <3>2, Zenon
    <3> QED BY <1>0, <3>3
  <2> QED BY <2>4, <2>5
<1> HIDE DEF Q
<1>3. n \in Q
  BY ONLY <1>0, <1>1, <1>2, n \in Nat, Stepwise
<1> QED BY <1>0, <1>3 DEF Q

(* Nobody does.                                                             *)
LEMMA PieceNowhere ==
    ASSUME NEW s, NEW name, NEW n \in Nat, NEW G, Pieces(s, name, n, G),
           \A k \in 1..n : Piece(s[k], name) = <<>>
    PROVE  G[n] = <<>>
<1> DEFINE Q == {k \in 0..n : G[k] = <<>>}
<1>0. 0 \in 0..n /\ n \in 0..n /\ \A k \in 1..n : k \in 0..n /\ k - 1 \in 0..n
  OBVIOUS
<1>1. 0 \in Q
  <2>1. G[0] = <<>>
    BY ONLY Pieces(s, name, n, G), Zenon DEF Pieces
  <2> QED BY <1>0, <2>1
<1>2. ASSUME NEW k \in 1..n, k - 1 \in Q PROVE k \in Q
  <2>1. G[k - 1] = <<>>
    BY <1>2
  <2>2. G[k] = G[k - 1] \o Piece(s[k], name)
    BY ONLY k \in 1..n, Pieces(s, name, n, G), Zenon DEF Pieces
  <2>3. <<>> \o <<>> = <<>>
    <3>1. <<>> \in Seq(STRING)
      BY EmptySeq
    <3> QED BY ONLY <3>1, Nothing
  <2>4. Piece(s[k], name) = <<>>
    OBVIOUS
  <2>5. G[k] = <<>>
    BY ONLY <2>1, <2>2, <2>3, <2>4, Zenon
  <2> QED BY <1>0, <2>5
<1> HIDE DEF Q
<1>3. n \in Q
  BY ONLY <1>0, <1>1, <1>2, n \in Nat, Stepwise
<1> QED BY <1>3 DEF Q

(* All keys in a dictionary.                                                *)
Keyed(d) == {d.items[i].key : i \in 1..Len(d.items)}

(* An entry in the place of one, or at the end.                             *)
Replaced(d, e, x, j) ==
    /\ Len(e.items) = Len(d.items)
    /\ \A i \in 1..Len(d.items) : e.items[i] = IF i = j THEN x ELSE d.items[i]
Appended(d, e, x) ==
    /\ Len(e.items) = Len(d.items) + 1
    /\ \A i \in 1..Len(d.items) : e.items[i] = d.items[i]
    /\ e.items[Len(d.items) + 1] = x
Missing(d, k) == \A j \in 1..Len(d.items) : ~Same(d, d.items[j].key, k)

LEMMA PutsCases ==
    ASSUME NEW d \in Dictionary, NEW e, NEW k \in Keys, NEW vals \in Vals, Puts(d, e, k, vals)
    PROVE  \/ \E j \in 1..Len(d.items) : /\ d.items[j].key.name = k.name
                                        /\ Replaced(d, e, Entry(k, vals), j)
           \/ Missing(d, k) /\ Appended(d, e, Entry(k, vals))
<1> DEFINE s == d.items
           n == Len(d.items)
           x == Entry(k, vals)
<1>1. s \in Seq(Entries) /\ n \in Nat /\ n = Len(s) /\ DOMAIN s = 1..n /\ x \in Entries
  BY ItemsAre, EntryType, Zenon
<1> HIDE DEF s, n, x
<1>2. CASE \E j \in 1..n :
              Same(d, s[j].key, k) /\ e = [folds |-> d.folds, items |-> [s EXCEPT ![j] = x]]
  <2>1. PICK j \in 1..n :
           Same(d, s[j].key, k) /\ e = [folds |-> d.folds, items |-> [s EXCEPT ![j] = x]]
    BY <1>2
  <2>2. PICK u : u = [s EXCEPT ![j] = x]
    OBVIOUS
  <2>3. Len(u) = n /\ \A i \in 1..n : u[i] = IF i = j THEN x ELSE s[i]
    BY <1>1, <2>2, ExceptSeq, LenProperties
  <2>4. e.items = u
    BY ONLY <2>1, <2>2
  <2>5. s[j].key.name = k.name
    BY ONLY <2>1, SameBack, Zenon
  <2>6. Replaced(d, e, x, j)
    BY ONLY <2>3, <2>4, Zenon DEF Replaced, s, n
  <2> QED BY ONLY <2>5, <2>6, j \in 1..n, Zenon DEF s, n, x
<1>3. CASE /\ \A j \in 1..n : ~Same(d, s[j].key, k)
           /\ e = [folds |-> d.folds, items |-> Append(s, x)]
  <2>1. PICK u : u = Append(s, x)
    OBVIOUS
  <2>2. Len(u) = n + 1 /\ (\A i \in 1..n : u[i] = s[i]) /\ u[n + 1] = x
    BY <1>1, <2>1, AppendProperties, LenProperties
  <2>3. e.items = u
    BY ONLY <1>3, <2>1
  <2>4. Appended(d, e, x)
    BY ONLY <2>2, <2>3, Zenon DEF Appended, s, n
  <2>5. Missing(d, k)
    BY ONLY <1>3, Zenon DEF Missing, s, n
  <2> QED BY ONLY <2>4, <2>5, Zenon DEF x
<1> QED BY ONLY <1>2, <1>3, Puts(d, e, k, vals), Zenon DEF Puts, s, n, x

LEMMA PutsKeyed ==
    ASSUME NEW d \in Dictionary, NEW e, NEW k \in Keys, NEW vals \in Vals, Puts(d, e, k, vals)
    PROVE  Keyed(e) \subseteq Keyed(d) \cup {k}
<1>1. PICK n : n = Len(d.items)
  OBVIOUS
<1>2. n \in Nat /\ Entry(k, vals).key = k
  BY <1>1, ItemsAre, EntryType, Zenon
<1> SUFFICES ASSUME NEW i \in 1..Len(e.items) PROVE e.items[i].key \in Keyed(d) \cup {k}
  BY Zenon DEF Keyed
<1>3. \/ \E j \in 1..n : Replaced(d, e, Entry(k, vals), j)
      \/ Appended(d, e, Entry(k, vals))
  BY <1>1, PutsCases, Zenon
<1>4. i \in 1..n \/ (i = n + 1 /\ Len(e.items) = n + 1)
  BY ONLY <1>1, <1>2, <1>3, i \in 1..Len(e.items) DEF Replaced, Appended
<1>5. i \in 1..n => d.items[i].key \in Keyed(d)
  BY <1>1, Zenon DEF Keyed
<1> QED BY ONLY <1>1, <1>2, <1>3, <1>4, <1>5 DEF Replaced, Appended

LEMMA PieceOther ==
    ASSUME NEW e, NEW name, e.key.name # name PROVE Piece(e, name) = <<>>
BY Zenon DEF Piece

LEMMA ToldIsText ==
    ASSUME NEW d \in Dictionary, NEW name PROVE Told(Lines(d), name) \in Text
<1>1. PICK G : /\ \A k \in 0..Len(d.items) : G[k] \in Text
               /\ Told(Lines(d), name) = G[Len(d.items)]
  BY ToldOfDict
<1>2. Len(d.items) \in 0..Len(d.items)
  BY ItemsAre
<1> QED BY <1>1, <1>2

(* An entry more.                                                           *)
LEMMA ToldMore ==
    ASSUME NEW d \in Dictionary, NEW e \in Dictionary, NEW name,
           NEW x, Appended(d, e, x)
    PROVE  Told(Lines(e), name) = Told(Lines(d), name) \o Piece(x, name)
<1>1. PICK s, t, n, m : s = d.items /\ t = e.items /\ n = Len(d.items) /\ m = Len(d.items) + 1
  OBVIOUS
<1>2. n \in Nat /\ m \in Nat /\ m - 1 = n /\ m \in 1..m /\ \A k \in 1..n : k \in 1..m
  BY <1>1, ItemsAre
<1>3. PICK G : Pieces(s, name, n, G) /\ Told(Lines(d), name) = G[n]
  BY ONLY <1>1, d \in Dictionary, ToldOfDict, Zenon
<1>4. PICK H : Pieces(t, name, m, H) /\ Told(Lines(e), name) = H[m]
  BY ONLY <1>1, e \in Dictionary, Appended(d, e, x), ToldOfDict, Zenon DEF Appended
<1>5. Pieces(t, name, n, H)
  BY ONLY <1>2, <1>4, Zenon DEF Pieces
<1>6. G[n] = H[n]
  <2>1. \A k \in 1..n : Piece(s[k], name) = Piece(t[k], name)
    BY ONLY <1>1, Appended(d, e, x), Zenon DEF Appended
  <2> QED BY ONLY <1>2, <1>3, <1>5, <2>1, PiecesAgree
<1>7. H[m] = H[n] \o Piece(t[m], name)
  BY ONLY <1>2, <1>4, Zenon DEF Pieces
<1> QED BY ONLY <1>1, <1>3, <1>4, <1>6, <1>7, Appended(d, e, x), Zenon DEF Appended

(* What is put under another name is not told.                              *)
LEMMA ToldOther ==
    ASSUME NEW d \in Dictionary, NEW e \in Dictionary, NEW k \in Keys, NEW vals \in Vals,
           Puts(d, e, k, vals), NEW name, k.name # name
    PROVE  Told(Lines(e), name) = Told(Lines(d), name)
<1>1. PICK n, x : n = Len(d.items) /\ x = Entry(k, vals)
  OBVIOUS
<1>2. n \in Nat /\ x.key = k
  BY <1>1, ItemsAre, EntryType, Zenon
<1>3. Piece(x, name) = <<>>
  BY ONLY <1>2, k.name # name, PieceOther, Zenon
<1>4. \/ \E j \in 1..n : d.items[j].key.name = k.name /\ Replaced(d, e, x, j)
      \/ Appended(d, e, x)
  BY <1>1, PutsCases, Zenon
<1>5. CASE \E j \in 1..n : d.items[j].key.name = k.name /\ Replaced(d, e, x, j)
  <2>1. PICK j \in 1..n : d.items[j].key.name = k.name /\ Replaced(d, e, x, j)
    BY <1>5
  <2>2. PICK G : Pieces(d.items, name, n, G) /\ Told(Lines(d), name) = G[n]
    BY <1>1, ToldOfDict, Zenon
  <2>3. PICK H : Pieces(e.items, name, n, H) /\ Told(Lines(e), name) = H[n]
    <3>1. Len(e.items) = n
      BY ONLY <1>1, <2>1, Zenon DEF Replaced
    <3> QED BY <3>1, ToldOfDict, Zenon
  <2>4. Piece(d.items[j], name) = <<>>
    BY ONLY <2>1, k.name # name, PieceOther, Zenon
  <2>5. ASSUME NEW i \in 1..n PROVE Piece(d.items[i], name) = Piece(e.items[i], name)
    BY ONLY <1>1, <1>3, <2>1, <2>4, i \in 1..n, Zenon DEF Replaced
  <2>6. G[n] = H[n]
    BY ONLY <1>2, <2>2, <2>3, <2>5, PiecesAgree
  <2> QED BY ONLY <2>2, <2>3, <2>6, Zenon
<1>6. CASE Appended(d, e, x)
  <2>1. Told(Lines(e), name) = Told(Lines(d), name) \o Piece(x, name)
    BY <1>6, ToldMore, Zenon
  <2>2. PICK p : p = Told(Lines(d), name)
    OBVIOUS
  <2>3. p \in Seq(STRING)
    BY <2>2, ToldIsText DEF Text
  <2>4. p \o <<>> = p
    BY ONLY <2>3, Nothing
  <2> QED BY ONLY <1>3, <2>1, <2>2, <2>4, Zenon
<1> QED BY ONLY <1>4, <1>5, <1>6, Zenon

(* What is put where nothing was comes at the end.                          *)
LEMMA ToldNew ==
    ASSUME NEW d \in Dictionary, NEW e \in Dictionary, NEW k \in Keys, NEW vals \in Vals,
           Puts(d, e, k, vals), Missing(d, k)
    PROVE  Told(Lines(e), k.name) = Told(Lines(d), k.name) \o Join(vals)
<1>1. Appended(d, e, Entry(k, vals))
  <2>1. ~\E j \in 1..Len(d.items) : Same(d, d.items[j].key, k)
    BY Zenon DEF Missing
  <2>2. e = [folds |-> d.folds, items |-> Append(d.items, Entry(k, vals))]
    BY <2>1, Zenon DEF Puts
  <2>3. PICK u, x : x = Entry(k, vals) /\ u = Append(d.items, x)
    OBVIOUS
  <2>4. d.items \in Seq(Entries) /\ x \in Entries
    BY <2>3, ItemsAre, EntryType, Zenon
  <2>5. /\ Len(u) = Len(d.items) + 1 /\ u[Len(d.items) + 1] = x
        /\ \A i \in 1..Len(d.items) : u[i] = d.items[i]
    BY <2>3, <2>4, AppendProperties, LenProperties
  <2>6. e.items = u
    BY ONLY <2>2, <2>3
  <2> QED BY ONLY <2>3, <2>5, <2>6, Zenon DEF Appended
<1>2. Piece(Entry(k, vals), k.name) = Join(vals)
  BY EntryType, Zenon DEF Piece
<1>3. Told(Lines(e), k.name) = Told(Lines(d), k.name) \o Piece(Entry(k, vals), k.name)
  BY <1>1, ToldMore, Zenon
<1> QED BY ONLY <1>2, <1>3, Zenon

LEMMA JoinFold ==
    ASSUME NEW v \in Seq(Text)
    PROVE  \E G : /\ Flattened(v, Len(v), G) /\ Join(v) = G[Len(v)]
                  /\ \A i \in 0..Len(v) : G[i] \in Text
<1>1. v \in Seq(Seq(STRING))
  BY DEF Text
<1>2. PICK G : Flattened(v, Len(v), G) /\ FlattenSeq(v) = G[Len(v)]
               /\ \A i \in 0..Len(v) : G[i] \in Seq(STRING)
  BY ONLY <1>1, FlattenFold
<1> QED BY ONLY <1>2, Zenon DEF Join, Text

LEMMA JoinMore ==
    ASSUME NEW v \in Seq(Text), NEW val \in Text
    PROVE  Join(Append(v, val)) = Join(v) \o val
<1>1. PICK u, n, m : u = Append(v, val) /\ n = Len(v) /\ m = Len(v) + 1
  OBVIOUS
<1>2. /\ u \in Seq(Text) /\ Len(u) = m /\ n \in Nat /\ m - 1 = n /\ m \in 1..m
      /\ u[m] = val /\ (\A i \in 1..n : u[i] = v[i]) /\ \A i \in 1..n : i \in 1..m
  BY <1>1, AppendProperties, LenProperties
<1>3. PICK G : Flattened(v, n, G) /\ Join(v) = G[n]
  BY ONLY <1>1, v \in Seq(Text), JoinFold, Zenon
<1>4. PICK H : Flattened(u, m, H) /\ Join(u) = H[m]
  BY ONLY <1>2, JoinFold, Zenon
<1>5. G[n] = H[n]
  <2> DEFINE Q == {k \in 0..n : G[k] = H[k]}
  <2>0. 0 \in 0..n /\ n \in 0..n /\ \A k \in 1..n : k \in 0..n /\ k - 1 \in 0..n
    BY <1>2
  <2>1. 0 \in Q
    <3>1. G[0] = H[0]
      BY ONLY <1>3, <1>4, Zenon DEF Flattened
    <3> QED BY <2>0, <3>1
  <2>2. ASSUME NEW k \in 1..n, k - 1 \in Q PROVE k \in Q
    <3>1. G[k - 1] = H[k - 1]
      BY <2>2
    <3>2. G[k] = H[k]
      BY ONLY <1>2, <1>3, <1>4, <3>1, k \in 1..n, Zenon DEF Flattened
    <3> QED BY <2>0, <3>2
  <2> HIDE DEF Q
  <2>3. n \in Q
    BY ONLY <2>0, <2>1, <2>2, <1>2, Stepwise
  <2> QED BY <2>3 DEF Q
<1>6. H[m] = H[n] \o u[m]
  BY ONLY <1>2, <1>4, Zenon DEF Flattened
<1> QED BY ONLY <1>1, <1>2, <1>3, <1>4, <1>5, <1>6, Zenon

LEMMA JoinOne == ASSUME NEW val \in Text PROVE Join(<<val>>) = val
<1>1. PICK v : v = <<val>>
  OBVIOUS
<1>2. v \in Seq(Text) /\ Len(v) = 1 /\ v[1] = val
  BY <1>1
<1>3. PICK G : Flattened(v, 1, G) /\ Join(v) = G[1]
  BY ONLY <1>2, JoinFold, Zenon
<1>4. 1 \in 1..1 /\ 1 - 1 = 0
  OBVIOUS
<1>5. G[1] = <<>> \o val
  BY ONLY <1>2, <1>3, <1>4, Zenon DEF Flattened
<1>6. val \in Seq(STRING)
  BY DEF Text
<1>7. <<>> \o val = val
  BY ONLY <1>6, Nothing
<1> QED BY ONLY <1>1, <1>3, <1>5, <1>7, Zenon

(* A dictionary that has taken something in under some names.               *)
Takes(d, e, names) ==
    /\ e \in Dictionary /\ e.folds = d.folds
    /\ Named(e) \subseteq Named(d) \cup names
    /\ Distinct(d) => Distinct(e)
    /\ \A name : name \notin names => Told(Lines(e), name) = Told(Lines(d), name)

LEMMA TakesNothing == ASSUME NEW d \in Dictionary, NEW names PROVE Takes(d, d, names)
BY Zenon DEF Takes

LEMMA TakesOn ==
    ASSUME NEW d, NEW e, NEW f, NEW names, Takes(d, e, names), Takes(e, f, names)
    PROVE  Takes(d, f, names)
<1>1. f \in Dictionary /\ f.folds = d.folds /\ Distinct(d) => Distinct(f)
  BY Zenon DEF Takes
<1>2. Named(e) \subseteq Named(d) \cup names /\ Named(f) \subseteq Named(e) \cup names
  BY Zenon DEF Takes
<1>3. Named(f) \subseteq Named(d) \cup names
  BY ONLY <1>2
<1>4. f \in Dictionary /\ f.folds = d.folds /\ (Distinct(d) => Distinct(f))
      /\ \A name : name \notin names => Told(Lines(f), name) = Told(Lines(d), name)
  BY Zenon DEF Takes
<1> QED BY ONLY <1>3, <1>4, Zenon DEF Takes

LEMMA TakesMore ==
    ASSUME NEW d, NEW e, NEW names, NEW more, names \subseteq more, Takes(d, e, names)
    PROVE  Takes(d, e, more)
<1>1. Named(e) \subseteq Named(d) \cup names
  BY Zenon DEF Takes
<1>2. Named(e) \subseteq Named(d) \cup more
  BY ONLY <1>1, names \subseteq more
<1>3. \A name : name \notin more => name \notin names
  OBVIOUS
<1> QED BY <1>2, <1>3, Zenon DEF Takes

LEMMA PutsTakes ==
    ASSUME NEW d \in Dictionary, NEW e, NEW k \in Keys, NEW vals \in Vals, Puts(d, e, k, vals)
    PROVE  Takes(d, e, {k.name})
<1>1. /\ e \in Dictionary /\ e.folds = d.folds
      /\ Named(e) \subseteq Named(d) \cup {k.name}
      /\ Distinct(d) => Distinct(e)
  BY PutsType
<1>2. ASSUME NEW name, name \notin {k.name} PROVE Told(Lines(e), name) = Told(Lines(d), name)
  <2>1. k.name # name
    BY <1>2
  <2> QED BY <1>1, <2>1, ToldOther
<1> QED BY ONLY <1>1, <1>2, Zenon DEF Takes

LEMMA SetItemTakes ==
    ASSUME NEW d \in Dictionary, NEW k \in Keys, NEW val \in Text
    PROVE  Takes(d, SetItem(d, k, val), {k.name})
<1>1. <<val>> \in Vals
  BY DEF Vals
<1>2. Puts(d, SetItem(d, k, val), k, <<val>>)
  BY SetItemPuts
<1> QED BY ONLY <1>1, <1>2, d \in Dictionary, k \in Keys, PutsTakes

LEMMA AddCases ==
    ASSUME NEW d \in Dictionary, NEW k \in Keys, NEW val \in Text,
           NEW e, e = Add(d, k, val, FALSE)
    PROVE  \/ Missing(d, k) /\ Puts(d, e, k, <<val>>)
           \/ \E j \in 1..Len(d.items) :
                 /\ Same(d, d.items[j].key, k)
                 /\ Puts(d, e, d.items[j].key, Append(d.items[j].vals, val))
                 /\ Replaced(d, e, Entry(d.items[j].key, Append(d.items[j].vals, val)), j)
<1>1. \/ Puts(d, e, k, <<val>>) /\ \A j \in 1..Len(d.items) : ~Same(d, d.items[j].key, k)
      \/ \E j \in 1..Len(d.items) :
            /\ Same(d, d.items[j].key, k)
            /\ e = [folds |-> d.folds,
                    items |-> [d.items EXCEPT ![j] =
                                 Entry(d.items[j].key, Append(d.items[j].vals, val))]]
  BY AddPuts
<1>2. CASE \E j \in 1..Len(d.items) :
            /\ Same(d, d.items[j].key, k)
            /\ e = [folds |-> d.folds,
                    items |-> [d.items EXCEPT ![j] =
                                 Entry(d.items[j].key, Append(d.items[j].vals, val))]]
  <2>1. PICK j \in 1..Len(d.items) :
            /\ Same(d, d.items[j].key, k)
            /\ e = [folds |-> d.folds,
                    items |-> [d.items EXCEPT ![j] =
                                 Entry(d.items[j].key, Append(d.items[j].vals, val))]]
    BY <1>2
  <2>2. Same(d, d.items[j].key, d.items[j].key)
    BY SameKey, Zenon
  <2>3. Puts(d, e, d.items[j].key, Append(d.items[j].vals, val))
    BY ONLY <2>1, <2>2, j \in 1..Len(d.items), Zenon DEF Puts
  <2>4. PICK x, u : x = Entry(d.items[j].key, Append(d.items[j].vals, val))
                    /\ u = [d.items EXCEPT ![j] = x]
    OBVIOUS
  <2>5. Len(u) = Len(d.items) /\ \A i \in 1..Len(d.items) : u[i] = IF i = j THEN x ELSE d.items[i]
    <3>1. d.items \in Seq(Entries) /\ DOMAIN d.items = 1..Len(d.items) /\ Len(d.items) \in Nat
      BY ItemsAre
    <3> QED BY ONLY <2>4, <3>1
  <2>6. e.items = u
    BY ONLY <2>1, <2>4
  <2>7. Replaced(d, e, x, j)
    BY ONLY <2>5, <2>6, Zenon DEF Replaced
  <2> QED BY ONLY <2>1, <2>3, <2>4, <2>7, j \in 1..Len(d.items), Zenon
<1> QED BY ONLY <1>1, <1>2, Zenon DEF Missing

LEMMA AddTakes ==
    ASSUME NEW d \in Dictionary, NEW k \in Keys, NEW val \in Text
    PROVE  Takes(d, Add(d, k, val, FALSE), {k.name})
<1>1. PICK e : e = Add(d, k, val, FALSE)
  OBVIOUS
<1>2. CASE Puts(d, e, k, <<val>>)
  <2>1. <<val>> \in Vals
    BY DEF Vals
  <2>2. Takes(d, e, {k.name})
    BY ONLY <1>2, <2>1, d \in Dictionary, k \in Keys, PutsTakes
  <2> QED BY ONLY <1>1, <2>2, Zenon
<1>3. CASE \E j \in 1..Len(d.items) :
              /\ Same(d, d.items[j].key, k)
              /\ Puts(d, e, d.items[j].key, Append(d.items[j].vals, val))
  <2>1. PICK j \in 1..Len(d.items) :
              /\ Same(d, d.items[j].key, k)
              /\ Puts(d, e, d.items[j].key, Append(d.items[j].vals, val))
    BY <1>3
  <2>2. d.items[j].key \in Keys /\ d.items[j].vals \in Seq(Text)
    BY ItemsAre, EntryIs
  <2>3. Append(d.items[j].vals, val) \in Vals
    <3>1. PICK v, w : v = d.items[j].vals /\ w = Append(v, val)
      OBVIOUS
    <3>2. v \in Seq(Text) /\ val \in Text
      BY <2>2, <3>1
    <3>3. w \in Seq(Text) /\ w # <<>>
      BY ONLY <3>1, <3>2, AppendProperties
    <3> QED BY ONLY <3>1, <3>3, Zenon DEF Vals
  <2>4. d.items[j].key.name = k.name
    BY ONLY <2>1, Zenon DEF Same
  <2>5. Takes(d, e, {d.items[j].key.name})
    BY ONLY <2>1, <2>2, <2>3, d \in Dictionary, PutsTakes, Zenon
  <2> QED BY ONLY <1>1, <2>4, <2>5, Zenon
<1> QED BY <1>1, <1>2, <1>3, AddCases, Zenon

LEMMA ExtendTakes ==
    ASSUME NEW d \in Dictionary, NEW s \in Seq(Line)
    PROVE  Takes(d, Extend(d, s), Names(s))
<1>1. PICK n, N : n = Len(s) /\ N = Names(s)
  OBVIOUS
<1>2. n \in Nat /\ \A k \in 1..n : s[k][1] \in Keys /\ s[k][2] \in Text /\ s[k][1].name \in N
  <2>1. n \in Nat /\ DOMAIN s = 1..n
    BY <1>1, LenProperties
  <2>2. ASSUME NEW k \in 1..n PROVE s[k][1] \in Keys /\ s[k][2] \in Text
    <3>1. s[k] \in Line
      BY <1>1, ElementOfSeq
    <3> QED BY <3>1 DEF Line
  <2> QED BY ONLY <1>1, <2>1, <2>2, Zenon DEF Names
<1>3. PICK F : /\ Extends(d, s, n, F) /\ Extend(d, s) = F[n]
               /\ \A k \in 0..n : F[k] \in Dictionary
  BY <1>1, ExtendFold, Zenon
<1> DEFINE Q == {k \in 0..n : Takes(d, F[k], N)}
<1>4. 0 \in 0..n /\ n \in 0..n /\ \A k \in 1..n : k \in 0..n /\ k - 1 \in 0..n
  BY <1>2
<1>5. 0 \in Q
  <2>1. Takes(d, F[0], N)
    BY <1>3, TakesNothing, Zenon DEF Extends
  <2> QED BY <1>4, <2>1
<1>6. ASSUME NEW k \in 1..n, k - 1 \in Q PROVE k \in Q
  <2>1. Takes(d, F[k - 1], N)
    BY <1>6
  <2>2. F[k] = Add(F[k - 1], s[k][1], s[k][2], FALSE) /\ F[k - 1] \in Dictionary
    BY ONLY <1>3, <1>4, k \in 1..n, Zenon DEF Extends
  <2>3. Takes(F[k - 1], F[k], {s[k][1].name})
    BY ONLY <1>2, <2>2, k \in 1..n, AddTakes, Zenon
  <2>4. {s[k][1].name} \subseteq N
    BY <1>2
  <2>5. Takes(F[k - 1], F[k], N)
    BY ONLY <2>3, <2>4, TakesMore, Zenon
  <2>6. Takes(d, F[k], N)
    BY ONLY <2>1, <2>5, TakesOn, Zenon
  <2> QED BY <1>4, <2>6
<1> HIDE DEF Q
<1>7. n \in Q
  BY ONLY <1>2, <1>4, <1>5, <1>6, Stepwise
<1> QED BY <1>1, <1>3, <1>7 DEF Q

LEMMA UpdateTakes ==
    ASSUME NEW d \in Dictionary, NEW other \in Dictionary
    PROVE  Takes(d, Update(d, other), Named(other))
<1>1. PICK n, N, s : n = Len(other.items) /\ N = Named(other) /\ s = other.items
  OBVIOUS
<1>2. n \in Nat /\ \A k \in 1..n : s[k].key \in Keys /\ Join(s[k].vals) \in Text
                                   /\ s[k].key.name \in N
  <2>1. n \in Nat /\ \A k \in 1..n : s[k] \in Entries
    BY <1>1, ItemsAre, Zenon
  <2>2. ASSUME NEW k \in 1..n PROVE s[k].key \in Keys /\ Join(s[k].vals) \in Text
    BY ONLY <2>1, k \in 1..n, EntryIs, JoinType, Zenon
  <2> QED BY ONLY <1>1, <2>1, <2>2, Zenon DEF Named
<1>3. PICK F : /\ Updates(d, s, n, F) /\ Update(d, other) = F[n]
               /\ \A k \in 0..n : F[k] \in Dictionary
  BY <1>1, UpdateFold, Zenon
<1> DEFINE Q == {k \in 0..n : Takes(d, F[k], N)}
<1>4. 0 \in 0..n /\ n \in 0..n /\ \A k \in 1..n : k \in 0..n /\ k - 1 \in 0..n
  BY <1>2
<1>5. 0 \in Q
  <2>1. Takes(d, F[0], N)
    BY <1>3, TakesNothing, Zenon DEF Updates
  <2> QED BY <1>4, <2>1
<1>6. ASSUME NEW k \in 1..n, k - 1 \in Q PROVE k \in Q
  <2>1. Takes(d, F[k - 1], N)
    BY <1>6
  <2>2. F[k] = SetItem(F[k - 1], s[k].key, Join(s[k].vals)) /\ F[k - 1] \in Dictionary
    BY ONLY <1>3, <1>4, k \in 1..n, Zenon DEF Updates
  <2>3. Takes(F[k - 1], F[k], {s[k].key.name})
    BY ONLY <1>2, <2>2, k \in 1..n, SetItemTakes, Zenon
  <2>4. {s[k].key.name} \subseteq N
    BY <1>2
  <2>5. Takes(F[k - 1], F[k], N)
    BY ONLY <2>3, <2>4, TakesMore, Zenon
  <2>6. Takes(d, F[k], N)
    BY ONLY <2>1, <2>5, TakesOn, Zenon
  <2> QED BY <1>4, <2>6
<1> HIDE DEF Q
<1>7. n \in Q
  BY ONLY <1>2, <1>4, <1>5, <1>6, Stepwise
<1> QED BY <1>1, <1>3, <1>7 DEF Q

LEMMA EmptyDict ==
    ASSUME NEW f \in BOOLEAN
    PROVE  /\ Dict(f) \in Dictionary /\ Dict(f).folds = f /\ Distinct(Dict(f))
           /\ Named(Dict(f)) = {} /\ Keyed(Dict(f)) = {}
           /\ \A name : Told(Lines(Dict(f)), name) = <<>>
<1>1. PICK d : d = Dict(f)
  OBVIOUS
<1>2. d.folds = f /\ d.items = <<>> /\ d = [folds |-> f, items |-> <<>>]
  BY <1>1 DEF Dict
<1>3. <<>> \in Seq(Entries) /\ Len(<<>>) = 0 /\ DOMAIN <<>> = {} /\ 1..0 = {}
  BY EmptySeq
<1>4. d \in Dictionary
  BY ONLY <1>2, <1>3, f \in BOOLEAN DEF Dictionary
<1>5. Distinct(d) /\ Named(d) = {} /\ Keyed(d) = {}
  BY ONLY <1>2, <1>3, Zenon DEF Distinct, Named, Keyed
<1>6. ASSUME NEW name PROVE Told(Lines(d), name) = <<>>
  <2>1. PICK G : Pieces(d.items, name, Len(d.items), G) /\ Told(Lines(d), name) = G[Len(d.items)]
    BY <1>4, ToldOfDict
  <2> QED BY ONLY <1>2, <1>3, <2>1, Zenon DEF Pieces
<1> QED BY ONLY <1>1, <1>2, <1>4, <1>5, <1>6, Zenon

(* Where case folds, one entry has all that is told under its name.         *)
LEMMA ToldAlone ==
    ASSUME NEW d \in Dictionary, d.folds, Distinct(d), NEW j \in 1..Len(d.items), NEW name,
           d.items[j].key.name = name
    PROVE  Told(Lines(d), name) = Join(d.items[j].vals)
<1>1. PICK n, s : n = Len(d.items) /\ s = d.items
  OBVIOUS
<1>2. n \in Nat /\ DOMAIN s = 1..n /\ j \in 1..n /\ \A i \in 1..n : s[i] \in Entries
  BY <1>1, ItemsAre, Zenon
<1>3. PICK G : Pieces(s, name, n, G) /\ Told(Lines(d), name) = G[n]
  BY <1>1, ToldOfDict, Zenon
<1>4. ASSUME NEW i \in 1..n, i # j PROVE Piece(s[i], name) = <<>>
  <2>1. CASE s[i].key.name = name
    <3>1. Same(d, s[i].key, s[j].key)
      BY <1>1, <2>1, Zenon DEF Same
    <3>2. i = j
      BY <1>1, <1>2, <3>1, Zenon DEF Distinct
    <3> QED BY <1>4, <3>2
  <2>2. CASE s[i].key.name # name
    BY ONLY <2>2, PieceOther, Zenon
  <2> QED BY <2>1, <2>2
<1>5. Piece(s[j], name) \in Text
  BY ONLY <1>2, ToldOfEntry, Zenon
<1>6. G[n] = Piece(s[j], name)
  BY ONLY <1>2, <1>3, <1>4, <1>5, PieceAlone
<1> QED BY <1>1, <1>3, <1>6, Zenon DEF Piece

LEMMA AddTells ==
    ASSUME NEW d \in Dictionary, d.folds, Distinct(d), NEW k \in Keys, NEW val \in Text
    PROVE  Told(Lines(Add(d, k, val, FALSE)), k.name) = Told(Lines(d), k.name) \o val
<1>1. PICK e : e = Add(d, k, val, FALSE)
  OBVIOUS
<1>2. e \in Dictionary /\ e.folds /\ Distinct(e)
  BY <1>1, AddTakes, Zenon DEF Takes
<1>3. CASE Missing(d, k) /\ Puts(d, e, k, <<val>>)
  <2>1. <<val>> \in Vals
    BY DEF Vals
  <2>2. Told(Lines(e), k.name) = Told(Lines(d), k.name) \o Join(<<val>>)
    BY <1>2, <1>3, <2>1, ToldNew, Zenon
  <2>3. Join(<<val>>) = val
    BY JoinOne, Zenon
  <2> QED BY ONLY <1>1, <2>2, <2>3, Zenon
<1>4. CASE \E j \in 1..Len(d.items) :
              /\ Same(d, d.items[j].key, k)
              /\ Replaced(d, e, Entry(d.items[j].key, Append(d.items[j].vals, val)), j)
  <2>1. PICK j \in 1..Len(d.items) :
              /\ Same(d, d.items[j].key, k)
              /\ Replaced(d, e, Entry(d.items[j].key, Append(d.items[j].vals, val)), j)
    BY <1>4
  <2>2. PICK l, v, w : l = d.items[j].key /\ v = d.items[j].vals /\ w = Append(v, val)
    OBVIOUS
  <2>3. l.name = k.name /\ d.items[j].key.name = k.name /\ v \in Seq(Text) /\ l \in Keys
    <3>1. d.items[j] \in Entries
      BY ItemsAre, Zenon
    <3>2. l \in Keys /\ v \in Seq(Text)
      BY ONLY <2>2, <3>1, EntryIs, Zenon
    <3> QED BY ONLY <2>1, <2>2, <3>2, Zenon DEF Same
  <2>4. e.items[j] = Entry(l, w) /\ j \in 1..Len(e.items)
    BY ONLY <2>1, <2>2, j \in 1..Len(d.items), Zenon DEF Replaced
  <2>5. e.items[j].key.name = k.name /\ e.items[j].vals = w
    <3>1. PICK x : x = Entry(l, w)
      OBVIOUS
    <3>2. x.key = l /\ x.vals = w
      BY ONLY <3>1 DEF Entry
    <3> QED BY ONLY <2>3, <2>4, <3>1, <3>2, Zenon
  <2>6. Told(Lines(d), k.name) = Join(v)
    BY <2>2, <2>3, ToldAlone, Zenon
  <2>7. Told(Lines(e), k.name) = Join(w)
    BY <1>2, <2>4, <2>5, ToldAlone, Zenon
  <2>8. Join(w) = Join(v) \o val
    BY <2>2, <2>3, JoinMore, Zenon
  <2> QED BY ONLY <1>1, <2>6, <2>7, <2>8, Zenon
<1> QED BY <1>1, <1>3, <1>4, AddCases, Zenon

LEMMA ExtendTells ==
    ASSUME NEW s \in Seq(Line), NEW name
    PROVE  Told(Lines(Extend(Dict(TRUE), s)), name) = Told(s, name)
<1>1. PICK n, d : n = Len(s) /\ d = Dict(TRUE)
  OBVIOUS
<1>2. n \in Nat /\ \A k \in 1..n : s[k][1] \in Keys /\ s[k][2] \in Text
  <2>1. n \in Nat /\ DOMAIN s = 1..n
    BY <1>1, LenProperties
  <2>2. ASSUME NEW k \in 1..n PROVE s[k][1] \in Keys /\ s[k][2] \in Text
    <3>1. s[k] \in Line
      BY <1>1, ElementOfSeq
    <3> QED BY <3>1 DEF Line
  <2> QED BY ONLY <2>1, <2>2, Zenon
<1>3. d \in Dictionary /\ d.folds /\ Distinct(d) /\ Told(Lines(d), name) = <<>>
  BY ONLY <1>1, EmptyDict, Zenon
<1>4. PICK F : /\ Extends(d, s, n, F) /\ Extend(d, s) = F[n]
               /\ \A k \in 0..n : F[k] \in Dictionary
  BY <1>1, <1>3, ExtendFold, Zenon
<1>5. PICK G : Tells(s, name, n, G) /\ Told(s, name) = G[n]
  BY <1>1, ToldFold, Zenon
<1> DEFINE Q == {k \in 0..n : F[k].folds /\ Distinct(F[k]) /\ Told(Lines(F[k]), name) = G[k]}
<1>6. 0 \in 0..n /\ n \in 0..n /\ \A k \in 1..n : k \in 0..n /\ k - 1 \in 0..n
  BY <1>2
<1>7. 0 \in Q
  <2>1. F[0].folds /\ Distinct(F[0]) /\ Told(Lines(F[0]), name) = G[0]
    BY ONLY <1>3, <1>4, <1>5, Zenon DEF Extends, Tells
  <2> QED BY <1>6, <2>1
<1>8. ASSUME NEW k \in 1..n, k - 1 \in Q PROVE k \in Q
  <2>1. F[k - 1].folds /\ Distinct(F[k - 1]) /\ Told(Lines(F[k - 1]), name) = G[k - 1]
    BY <1>8
  <2>2. F[k] = Add(F[k - 1], s[k][1], s[k][2], FALSE) /\ F[k - 1] \in Dictionary
    BY ONLY <1>4, <1>6, k \in 1..n, Zenon DEF Extends
  <2>3. PICK p, q, l : p = s[k][1] /\ q = s[k][2] /\ l = F[k - 1]
    OBVIOUS
  <2>4. p \in Keys /\ q \in Text /\ l \in Dictionary /\ l.folds /\ Distinct(l)
        /\ F[k] = Add(l, p, q, FALSE) /\ Told(Lines(l), name) = G[k - 1]
    BY ONLY <1>2, <2>1, <2>2, <2>3, k \in 1..n, Zenon
  <2>5. Takes(l, F[k], {p.name})
    BY ONLY <2>4, AddTakes, Zenon
  <2>6. F[k].folds /\ Distinct(F[k])
    BY ONLY <2>4, <2>5, Zenon DEF Takes
  <2>7. G[k] = IF p.name = name THEN G[k - 1] \o q ELSE G[k - 1]
    BY ONLY <1>5, <2>3, k \in 1..n, Zenon DEF Tells
  <2>8. CASE p.name = name
    <3>1. Told(Lines(F[k]), p.name) = Told(Lines(l), p.name) \o q
      BY ONLY <2>4, AddTells, Zenon
    <3>2. Told(Lines(F[k]), name) = G[k]
      BY ONLY <2>4, <2>7, <2>8, <3>1, Zenon
    <3> QED BY <1>6, <2>6, <3>2
  <2>9. CASE p.name # name
    <3>1. name \notin {p.name}
      BY <2>9
    <3>2. Told(Lines(F[k]), name) = Told(Lines(l), name)
      BY ONLY <2>5, <3>1, Zenon DEF Takes
    <3>3. Told(Lines(F[k]), name) = G[k]
      BY ONLY <2>4, <2>7, <2>9, <3>2, Zenon
    <3> QED BY <1>6, <2>6, <3>3
  <2> QED BY <2>8, <2>9
<1> HIDE DEF Q
<1>9. n \in Q
  BY ONLY <1>2, <1>6, <1>7, <1>8, Stepwise
<1>10. Told(Lines(F[n]), name) = G[n]
  BY <1>9 DEF Q
<1> QED BY ONLY <1>1, <1>4, <1>5, <1>10, Zenon

LEMMA NamesOfConcat ==
    ASSUME NEW s \in Seq(Line), NEW t \in Seq(Line)
    PROVE  Names(s \o t) = Names(s) \cup Names(t)
<1>1. PICK u, m, n : u = s \o t /\ m = Len(s) /\ n = Len(t)
  OBVIOUS
<1>2. /\ m \in Nat /\ n \in Nat /\ DOMAIN s = 1..m /\ DOMAIN t = 1..n /\ DOMAIN u = 1..m + n
      /\ \A i \in 1..m + n : u[i] = IF i <= m THEN s[i] ELSE t[i - m]
  BY <1>1, LenProperties, ConcatProperties
<1>3. ASSUME NEW i \in 1..m + n PROVE u[i][1].name \in Names(s) \cup Names(t)
  <2>1. CASE i <= m
    <3>1. i \in 1..m /\ u[i] = s[i]
      BY <1>2, <2>1
    <3> QED BY ONLY <1>2, <3>1, Zenon DEF Names
  <2>2. CASE ~(i <= m)
    <3>1. PICK j : j = i - m
      OBVIOUS
    <3>2. j \in 1..n /\ u[i] = t[j]
      BY <1>2, <2>2, <3>1
    <3> QED BY ONLY <1>2, <3>2, Zenon DEF Names
  <2> QED BY <2>1, <2>2
<1>4. ASSUME NEW i \in 1..m PROVE s[i][1].name \in Names(u)
  <2>1. i \in 1..m + n /\ u[i] = s[i]
    BY <1>2
  <2> QED BY ONLY <1>2, <2>1, Zenon DEF Names
<1>5. ASSUME NEW i \in 1..n PROVE t[i][1].name \in Names(u)
  <2>1. PICK j : j = m + i
    OBVIOUS
  <2>2. j \in 1..m + n /\ ~(j <= m) /\ j - m = i
    BY <1>2, <2>1
  <2>3. u[j] = t[i]
    BY <1>2, <2>2
  <2> QED BY ONLY <1>2, <2>2, <2>3, Zenon DEF Names
<1>6. Names(u) \subseteq Names(s) \cup Names(t)
  <2> SUFFICES ASSUME NEW x \in Names(u) PROVE x \in Names(s) \cup Names(t)
    OBVIOUS
  <2>1. PICK i \in 1..m + n : x = u[i][1].name
    BY <1>2, Zenon DEF Names
  <2> QED BY <1>3, <2>1, Zenon
<1>7. Names(s) \subseteq Names(u)
  <2> SUFFICES ASSUME NEW x \in Names(s) PROVE x \in Names(u)
    OBVIOUS
  <2>1. PICK i \in 1..m : x = s[i][1].name
    BY <1>2, Zenon DEF Names
  <2> QED BY <1>4, <2>1, Zenon
<1>8. Names(t) \subseteq Names(u)
  <2> SUFFICES ASSUME NEW x \in Names(t) PROVE x \in Names(u)
    OBVIOUS
  <2>1. PICK i \in 1..n : x = t[i][1].name
    BY <1>2, Zenon DEF Names
  <2> QED BY <1>5, <2>1, Zenon
<1> QED BY ONLY <1>1, <1>6, <1>7, <1>8

LEMMA NamesOfEntry ==
    ASSUME NEW e \in Entries PROVE Names(LinesOf(e)) = {e.key.name}
<1>1. PICK v, n, k, s : v = e.vals /\ n = Len(e.vals) /\ k = e.key /\ s = LinesOf(e)
  OBVIOUS
<1>2. v \in Seq(Text) /\ v # <<>> /\ n \in Nat /\ DOMAIN v = 1..n /\ n = Len(v)
  BY <1>1, EntryIs, LenProperties
<1>3. s = [j \in 1..n |-> <<k, v[j]>>]
  BY ONLY <1>1, <1>2, Zenon DEF LinesOf
<1>4. DOMAIN s = 1..n /\ \A j \in 1..n : s[j][1] = k
  <2>1. DOMAIN s = 1..n
    BY ONLY <1>3, Zenon
  <2>2. ASSUME NEW j \in 1..n PROVE s[j][1] = k
    <3>1. s[j] = <<k, v[j]>>
      BY <1>3
    <3> QED BY ONLY <3>1
  <2> QED BY <2>1, <2>2
<1>5. 1 \in 1..n
  <2>1. n # 0
    BY ONLY <1>2, EmptySeq
  <2> QED BY ONLY <1>2, <2>1
<1> QED BY ONLY <1>1, <1>4, <1>5, Zenon DEF Names

LEMMA NamesNothing == Names(<<>>) = {}
<1>1. DOMAIN <<>> = {}
  BY EmptySeq
<1> QED BY ONLY <1>1, Zenon DEF Names

(* The names that the lines of a dictionary have are those in it.           *)
LEMMA NamesAre ==
    ASSUME NEW d \in Dictionary PROVE Names(Lines(d)) = Named(d) /\ Lines(d) \in Seq(Line)
<1>1. PICK s, n : s = d.items /\ n = Len(d.items)
  OBVIOUS
<1>2. n \in Nat /\ \A i \in 1..n : s[i] \in Entries
  BY <1>1, ItemsAre, Zenon
<1>3. PICK F : Lined(s, n, F) /\ Lines(d) = F[n] /\ \A k \in 0..n : F[k] \in Seq(Line)
  BY ONLY <1>1, d \in Dictionary, LinesFold, Zenon
<1> DEFINE upto(k) == {s[i].key.name : i \in 1..k}
           Q == {k \in 0..n : Names(F[k]) = upto(k)}
<1>4. 0 \in 0..n /\ n \in 0..n /\ \A k \in 1..n : k \in 0..n /\ k - 1 \in 0..n
  BY <1>2
<1>5. 0 \in Q
  <2>1. 1..0 = {}
    OBVIOUS
  <2>2. Names(F[0]) = {}
    BY ONLY <1>3, NamesNothing, Zenon DEF Lined
  <2>3. upto(0) = {}
    BY ONLY <2>1, Zenon
  <2> QED BY <1>4, <2>2, <2>3
<1>6. ASSUME NEW k \in 1..n, k - 1 \in Q PROVE k \in Q
  <2>1. Names(F[k - 1]) = upto(k - 1)
    BY <1>6
  <2>2. F[k] = F[k - 1] \o LinesOf(s[k])
    BY ONLY <1>3, k \in 1..n, Zenon DEF Lined
  <2>3. F[k - 1] \in Seq(Line) /\ LinesOf(s[k]) \in Seq(Line)
        /\ Names(LinesOf(s[k])) = {s[k].key.name}
    <3>1. F[k - 1] \in Seq(Line) /\ s[k] \in Entries
      BY ONLY <1>2, <1>3, <1>4, k \in 1..n, Zenon
    <3> QED BY ONLY <3>1, ToldOfEntry, NamesOfEntry, Zenon
  <2>4. Names(F[k - 1] \o LinesOf(s[k])) = Names(F[k - 1]) \cup Names(LinesOf(s[k]))
    BY ONLY <2>3, NamesOfConcat, Zenon
  <2>5. Names(F[k]) = upto(k - 1) \cup {s[k].key.name}
    BY ONLY <2>1, <2>2, <2>3, <2>4, Zenon
  <2>6. upto(k) = upto(k - 1) \cup {s[k].key.name}
    <3>1. 1..k = (1..k - 1) \cup {k}
      BY <1>2
    <3> QED BY ONLY <3>1, Zenon
  <2> QED BY ONLY <1>4, <2>5, <2>6, k \in 1..n, Zenon
<1> HIDE DEF Q
<1>7. n \in Q
  BY ONLY <1>2, <1>4, <1>5, <1>6, Stepwise
<1>8. Names(F[n]) = upto(n)
  BY ONLY <1>7, Zenon DEF Q
<1> QED BY ONLY <1>1, <1>3, <1>4, <1>8, Zenon DEF Named

(***************************************************************************)
(* What the operations on headers do to a dictionary                        *)
(***************************************************************************)
(* The constructor: the same under each name, in a dictionary that folds.    *)
LEMMA HTTPHeaderDictIs ==
    ASSUME NEW d, IsDict(d)
    PROVE  /\ IsDict(HTTPHeaderDict(d)) /\ HTTPHeaderDict(d).folds = TRUE
           /\ Named(HTTPHeaderDict(d)) \subseteq Named(d)
           /\ \A name : Told(Lines(HTTPHeaderDict(d)), name) = Told(Lines(d), name)
<1>1. d \in Dictionary /\ Distinct(d) /\ d.folds \in BOOLEAN
  BY DictIs, ItemsAre, Zenon
<1>2. CASE d.folds
  <2>1. HTTPHeaderDict(d) = d
    BY <1>2, Zenon DEF HTTPHeaderDict
  <2> QED BY <1>1, <1>2, <2>1, DictIs, Zenon
<1>3. CASE ~d.folds
  <2>1. PICK s, e : s = Lines(d) /\ e = Extend(Dict(TRUE), s)
    OBVIOUS
  <2>2. HTTPHeaderDict(d) = e
    BY <1>3, <2>1, Zenon DEF HTTPHeaderDict
  <2>3. s \in Seq(Line) /\ Names(s) = Named(d)
    BY <1>1, <2>1, NamesAre, Zenon
  <2>4. /\ Dict(TRUE) \in Dictionary /\ Dict(TRUE).folds = TRUE /\ Distinct(Dict(TRUE))
        /\ Named(Dict(TRUE)) = {}
    BY EmptyDict
  <2>5. Takes(Dict(TRUE), e, Names(s))
    BY <2>1, <2>3, <2>4, ExtendTakes, Zenon
  <2>6. e \in Dictionary /\ Distinct(e) /\ e.folds = TRUE
    BY ONLY <2>4, <2>5, Zenon DEF Takes
  <2>7. Named(e) \subseteq Named(Dict(TRUE)) \cup Names(s)
    BY ONLY <2>5, Zenon DEF Takes
  <2>8. Named(e) \subseteq Named(d)
    BY ONLY <2>3, <2>4, <2>7
  <2>9. \A name : Told(Lines(e), name) = Told(s, name)
    BY <2>1, <2>3, ExtendTells, Zenon
  <2>10. IsDict(e)
    BY <2>6, DictIs, Zenon
  <2> QED BY ONLY <2>1, <2>2, <2>6, <2>8, <2>9, <2>10, Zenon
<1> QED BY <1>1, <1>2, <1>3

(* Taking in a dictionary.                                                  *)
LEMMA UpdateIs ==
    ASSUME NEW d, IsDict(d), NEW other, IsDict(other)
    PROVE  /\ IsDict(Update(d, other)) /\ Update(d, other).folds = d.folds
           /\ Named(Update(d, other)) \subseteq Named(d) \cup Named(other)
           /\ \A name : name \notin Named(other) =>
                 Told(Lines(Update(d, other)), name) = Told(Lines(d), name)
<1>1. d \in Dictionary /\ Distinct(d) /\ other \in Dictionary
  BY DictIs, Zenon
<1>2. Takes(d, Update(d, other), Named(other))
  BY <1>1, UpdateTakes, Zenon
<1> QED BY <1>1, <1>2, DictIs, Zenon DEF Takes

LEMMA EntryMade ==
    ASSUME NEW e \in Entries PROVE Entry(e.key, e.vals) = e /\ e.vals \in Vals
BY DEF Entry, Entries, Vals, Text

(* All entries but some.                                                    *)
LEMMA WithoutIs ==
    ASSUME NEW d, IsDict(d), NEW names
    PROVE  /\ IsDict(Without(d, names)) /\ Without(d, names).folds = d.folds
           /\ Named(Without(d, names)) \subseteq Named(d) \ names
           /\ \A name : name \notin names =>
                 Told(Lines(Without(d, names)), name) = Told(Lines(d), name)
<1>1. d \in Dictionary /\ Distinct(d) /\ d.folds \in BOOLEAN
  BY DictIs, ItemsAre, Zenon
<1>2. PICK s, n, f : s = d.items /\ n = Len(d.items) /\ f = d.folds
  OBVIOUS
<1>3. n \in Nat /\ DOMAIN s = 1..n /\ \A i \in 1..n : s[i] \in Entries
  BY <1>1, <1>2, ItemsAre, Zenon
<1>4. PICK F : /\ Keeps(s, names, n, F) /\ \A k \in 0..n : F[k] \in Seq(Entries)
               /\ Without(d, names) = [folds |-> f, items |-> F[n]]
  BY <1>1, <1>2, WithoutFold, Zenon
<1> DEFINE D == [k \in 0..n |-> [folds |-> f, items |-> F[k]]]
<1>5. 0 \in 0..n /\ n \in 0..n /\ \A k \in 1..n : k \in 0..n /\ k - 1 \in 0..n
  BY <1>3
<1>6. \A k \in 0..n : D[k] = [folds |-> f, items |-> F[k]]
  OBVIOUS
<1> HIDE DEF D
<1>7. ASSUME NEW k \in 0..n
      PROVE  D[k] \in Dictionary /\ D[k].folds = d.folds /\ D[k].items = F[k]
  <2>1. PICK e, t : e = D[k] /\ t = F[k]
    OBVIOUS
  <2>2. e = [folds |-> f, items |-> t] /\ t \in Seq(Entries)
    BY ONLY <1>4, <1>6, <2>1, k \in 0..n, Zenon
  <2>3. e \in Dictionary /\ e.folds = f /\ e.items = t
    BY ONLY <1>1, <1>2, <2>2 DEF Dictionary
  <2> QED BY ONLY <1>2, <2>1, <2>3, Zenon
<1>8. F[0] = <<>> /\ \A k \in 1..n : F[k] = IF s[k].key.name \in names THEN F[k - 1]
                                             ELSE Append(F[k - 1], s[k])
  BY ONLY <1>4, Zenon DEF Keeps
<1>9. D[0] = Dict(f)
  BY ONLY <1>5, <1>6, <1>8, Zenon DEF Dict
<1> DEFINE until(k) == {s[i].key : i \in 1..k}
           good(k) == {q \in until(k) : q.name \notin names}
<1>10. ASSUME NEW k \in 1..n PROVE until(k) = until(k - 1) \cup {s[k].key}
  <2>1. 1..k = (1..k - 1) \cup {k}
    BY <1>3
  <2> QED BY ONLY <2>1, Zenon
<1>11. ASSUME NEW k \in 1..n, Keyed(D[k - 1]) \subseteq good(k - 1)
       PROVE  Missing(D[k - 1], s[k].key)
  <2> SUFFICES ASSUME NEW j \in 1..Len(D[k - 1].items),
                      Same(D[k - 1], D[k - 1].items[j].key, s[k].key)
               PROVE  FALSE
    BY Zenon DEF Missing
  <2>1. PICK q : q = D[k - 1].items[j].key
    OBVIOUS
  <2>2. q \in Keyed(D[k - 1])
    BY <2>1, Zenon DEF Keyed
  <2>3. q \in until(k - 1)
    BY <1>11, <2>2, Zenon
  <2>4. PICK i \in 1..k - 1 : q = s[i].key
    BY <2>3, Zenon
  <2>5. D[k - 1].folds = d.folds
    BY <1>5, <1>7, Zenon
  <2>6. Same(d, s[i].key, s[k].key)
    BY <2>1, <2>4, <2>5, SameFolds, Zenon
  <2>7. i \in 1..n /\ i # k
    BY <1>3
  <2> QED BY ONLY <1>1, <1>2, <1>3, <2>6, <2>7, k \in 1..n, Zenon DEF Distinct
<1> HIDE DEF until
<1>12. ASSUME NEW k \in 1..n, s[k].key.name \notin names, Missing(D[k - 1], s[k].key)
       PROVE  Puts(D[k - 1], D[k], s[k].key, s[k].vals) /\ s[k].key \in Keys /\ s[k].vals \in Vals
  <2>1. D[k] = [folds |-> f, items |-> Append(F[k - 1], s[k])]
    BY ONLY <1>5, <1>6, <1>8, <1>12, k \in 1..n, Zenon
  <2>2. D[k - 1].folds = f /\ D[k - 1].items = F[k - 1]
    BY ONLY <1>2, <1>5, <1>7, k \in 1..n, Zenon
  <2>3. Entry(s[k].key, s[k].vals) = s[k] /\ s[k].vals \in Vals /\ s[k].key \in Keys
    BY ONLY <1>3, k \in 1..n, EntryMade, EntryIs, Zenon
  <2>4. D[k] = [folds |-> D[k - 1].folds,
                items |-> Append(D[k - 1].items, Entry(s[k].key, s[k].vals))]
    BY ONLY <2>1, <2>2, <2>3, Zenon
  <2> QED BY ONLY <1>12, <2>3, <2>4, Zenon DEF Puts, Missing
<1>13. \A k \in 0..n : Distinct(D[k]) /\ Keyed(D[k]) \subseteq good(k)
  <2> DEFINE Q == {k \in 0..n : Distinct(D[k]) /\ Keyed(D[k]) \subseteq good(k)}
  <2>1. 0 \in Q
    <3>1. Distinct(D[0]) /\ Keyed(D[0]) = {}
      BY <1>1, <1>2, <1>9, EmptyDict, Zenon
    <3> QED BY <1>5, <3>1
  <2>2. ASSUME NEW k \in 1..n, k - 1 \in Q PROVE k \in Q
    <3>1. Distinct(D[k - 1]) /\ Keyed(D[k - 1]) \subseteq good(k - 1)
      BY <2>2
    <3>2. CASE s[k].key.name \in names
      <4>1. D[k] = D[k - 1]
        BY ONLY <1>5, <1>6, <1>8, <3>2, k \in 1..n, Zenon
      <4>2. Keyed(D[k]) \subseteq good(k)
        BY <1>10, <3>1, <4>1
      <4> QED BY <1>5, <3>1, <4>1, <4>2
    <3>3. CASE s[k].key.name \notin names
      <4>1. Missing(D[k - 1], s[k].key)
        BY <1>11, <3>1
      <4>2. Puts(D[k - 1], D[k], s[k].key, s[k].vals) /\ s[k].key \in Keys /\ s[k].vals \in Vals
        BY <1>12, <3>3, <4>1
      <4>3. D[k - 1] \in Dictionary
        BY <1>5, <1>7
      <4>4. Distinct(D[k])
        BY ONLY <3>1, <4>2, <4>3, PutsType, Zenon
      <4>5. Keyed(D[k]) \subseteq Keyed(D[k - 1]) \cup {s[k].key}
        BY ONLY <4>2, <4>3, PutsKeyed, Zenon
      <4>6. Keyed(D[k]) \subseteq good(k)
        BY <1>10, <3>1, <3>3, <4>5
      <4> QED BY <1>5, <4>4, <4>6
    <3> QED BY <3>2, <3>3
  <2> HIDE DEF Q
  <2>3. \A k \in 0..n : k \in Q
    BY ONLY <1>3, <1>5, <2>1, <2>2, Stepwise
  <2> QED BY <2>3 DEF Q
<1>14. ASSUME NEW name, name \notin names PROVE Told(Lines(D[n]), name) = Told(Lines(d), name)
  <2>1. PICK G : Pieces(s, name, n, G) /\ Told(Lines(d), name) = G[n]
                 /\ \A k \in 0..n : G[k] \in Text
    BY <1>1, <1>2, ToldOfDict, Zenon
  <2> DEFINE Q == {k \in 0..n : Told(Lines(D[k]), name) = G[k]}
  <2>2. 0 \in Q
    <3>1. Told(Lines(D[0]), name) = <<>>
      BY <1>1, <1>2, <1>9, EmptyDict, Zenon
    <3>2. G[0] = <<>>
      BY ONLY <2>1, Zenon DEF Pieces
    <3> QED BY <1>5, <3>1, <3>2
  <2>3. ASSUME NEW k \in 1..n, k - 1 \in Q PROVE k \in Q
    <3>1. Told(Lines(D[k - 1]), name) = G[k - 1]
      BY <2>3
    <3>2. G[k] = G[k - 1] \o Piece(s[k], name)
      BY ONLY <2>1, k \in 1..n, Zenon DEF Pieces
    <3>3. s[k].key.name # name => G[k] = G[k - 1]
      <4>1. PICK g : g = G[k - 1]
        OBVIOUS
      <4>2. g \in Seq(STRING)
        BY <1>5, <2>1, <4>1 DEF Text
      <4>3. g \o <<>> = g
        BY ONLY <4>2, Nothing
      <4> QED BY ONLY <3>2, <4>1, <4>3, PieceOther, Zenon
    <3>4. CASE s[k].key.name \in names
      <4>1. D[k] = D[k - 1]
        BY ONLY <1>5, <1>6, <1>8, <3>4, k \in 1..n, Zenon
      <4>2. s[k].key.name # name
        BY <1>14, <3>4
      <4> QED BY <1>5, <3>1, <3>3, <4>1, <4>2
    <3>5. CASE s[k].key.name \notin names
      <4>1. Missing(D[k - 1], s[k].key)
        BY <1>5, <1>11, <1>13
      <4>2. Puts(D[k - 1], D[k], s[k].key, s[k].vals) /\ s[k].key \in Keys /\ s[k].vals \in Vals
        BY <1>12, <3>5, <4>1
      <4>3. D[k - 1] \in Dictionary /\ D[k] \in Dictionary
        BY <1>5, <1>7
      <4>4. s[k].key.name # name => Told(Lines(D[k]), name) = Told(Lines(D[k - 1]), name)
        BY ONLY <4>2, <4>3, ToldOther, Zenon
      <4>5. Told(Lines(D[k]), s[k].key.name)
            = Told(Lines(D[k - 1]), s[k].key.name) \o Join(s[k].vals)
        BY ONLY <4>1, <4>2, <4>3, ToldNew, Zenon
      <4>6. s[k].key.name = name => Piece(s[k], name) = Join(s[k].vals)
        BY Zenon DEF Piece
      <4>7. Told(Lines(D[k]), name) = G[k]
        BY ONLY <3>1, <3>2, <3>3, <4>4, <4>5, <4>6, Zenon
      <4> QED BY <1>5, <4>7
    <3> QED BY <3>4, <3>5
  <2> HIDE DEF Q
  <2>4. n \in Q
    BY ONLY <1>3, <1>5, <2>2, <2>3, Stepwise
  <2>5. Told(Lines(D[n]), name) = G[n]
    BY ONLY <2>4, Zenon DEF Q
  <2> QED BY ONLY <2>1, <2>5, Zenon
<1>15. D[n] \in Dictionary /\ D[n].folds = d.folds /\ Without(d, names) = D[n]
  BY ONLY <1>4, <1>5, <1>6, <1>7, Zenon
<1>16. Named(D[n]) \subseteq Named(d) \ names
  <2> SUFFICES ASSUME NEW i \in 1..Len(D[n].items)
               PROVE  D[n].items[i].key.name \in Named(d) \ names
    BY Zenon DEF Named
  <2>1. D[n].items[i].key \in Keyed(D[n])
    BY Zenon DEF Keyed
  <2>2. D[n].items[i].key \in good(n)
    BY ONLY <1>5, <1>13, <2>1
  <2>3. PICK l \in 1..n : D[n].items[i].key = s[l].key
    BY <2>2, Zenon DEF until
  <2>4. s[l].key.name \in Named(d) /\ s[l].key.name \notin names
    BY <1>2, <2>2, <2>3, Zenon DEF Named
  <2> QED BY ONLY <2>3, <2>4, Zenon
<1>17. IsDict(D[n])
  BY <1>5, <1>13, <1>15, DictIs, Zenon
<1> QED BY ONLY <1>14, <1>15, <1>16, <1>17, Zenon

LEMMA ToldNone ==
    ASSUME NEW d \in Dictionary, NEW name, name \notin Named(d)
    PROVE  Told(Lines(d), name) = <<>>
<1>1. PICK n, s : n = Len(d.items) /\ s = d.items
  OBVIOUS
<1>2. n \in Nat
  BY <1>1, ItemsAre, Zenon
<1>3. PICK G : Pieces(s, name, n, G) /\ Told(Lines(d), name) = G[n]
  BY <1>1, ToldOfDict, Zenon
<1>4. ASSUME NEW i \in 1..n PROVE Piece(s[i], name) = <<>>
  <2>1. s[i].key.name # name
    BY <1>1, Zenon DEF Named
  <2> QED BY ONLY <2>1, PieceOther, Zenon
<1>5. G[n] = <<>>
  BY ONLY <1>2, <1>3, <1>4, PieceNowhere
<1> QED BY ONLY <1>3, <1>5, Zenon

(* A dictionary that does not fold, and takes in another, tells what that one *)
(* told, under every name that was not there before.                        *)
LEMMA UpdateTells ==
    ASSUME NEW d, IsDict(d), d.folds = FALSE, NEW other, IsDict(other),
           NEW name, name \notin Named(d)
    PROVE  Told(Lines(Update(d, other)), name) = Told(Lines(other), name)
<1>1. PICK n, s : n = Len(other.items) /\ s = other.items
  OBVIOUS
<1>2. d \in Dictionary /\ other \in Dictionary /\ Distinct(other) /\ Told(Lines(d), name) = <<>>
  BY DictIs, ToldNone, Zenon
<1>3. n \in Nat /\ DOMAIN s = 1..n
      /\ \A k \in 1..n : s[k].key \in Keys /\ Join(s[k].vals) \in Text
  <2>1. n \in Nat /\ DOMAIN s = 1..n /\ \A k \in 1..n : s[k] \in Entries
    BY <1>1, <1>2, ItemsAre, Zenon
  <2> QED BY ONLY <2>1, EntryIs, JoinType, Zenon
<1>4. PICK F : /\ Updates(d, s, n, F) /\ Update(d, other) = F[n]
               /\ \A k \in 0..n : F[k] \in Dictionary
  BY <1>1, <1>2, UpdateFold, Zenon
<1>5. PICK G : Pieces(s, name, n, G) /\ Told(Lines(other), name) = G[n]
               /\ \A k \in 0..n : G[k] \in Text
  BY <1>1, <1>2, ToldOfDict, Zenon
<1>6. 0 \in 0..n /\ n \in 0..n /\ \A k \in 1..n : k \in 0..n /\ k - 1 \in 0..n
  BY <1>3
<1> DEFINE until(k) == {s[i].key : i \in 1..k}
           Q == {k \in 0..n : /\ F[k].folds = FALSE
                              /\ Keyed(F[k]) \subseteq Keyed(d) \cup until(k)
                              /\ Told(Lines(F[k]), name) = G[k]}
<1>7. 0 \in Q
  <2>1. F[0] = d /\ G[0] = <<>>
    BY ONLY <1>4, <1>5, Zenon DEF Updates, Pieces
  <2> QED BY <1>2, <1>6, <2>1
<1>8. ASSUME NEW k \in 1..n, k - 1 \in Q PROVE k \in Q
  <2>1. PICK e, f, q, v : e = F[k - 1] /\ f = F[k] /\ q = s[k].key /\ v = Join(s[k].vals)
    OBVIOUS
  <2>2. e.folds = FALSE /\ Keyed(e) \subseteq Keyed(d) \cup until(k - 1)
        /\ Told(Lines(e), name) = G[k - 1]
    BY <1>8, <2>1
  <2>3. f = SetItem(e, q, v) /\ e \in Dictionary /\ q \in Keys /\ v \in Text
    BY ONLY <1>3, <1>4, <1>6, <2>1, k \in 1..n, Zenon DEF Updates
  <2>4. <<v>> \in Vals /\ Puts(e, f, q, <<v>>)
    <3>1. <<v>> \in Vals
      BY <2>3 DEF Vals
    <3> QED BY ONLY <2>3, <3>1, SetItemPuts, Zenon
  <2>5. Takes(e, f, {q.name})
    BY ONLY <2>3, <2>4, PutsTakes, Zenon
  <2>6. f \in Dictionary /\ f.folds = FALSE
    BY ONLY <2>2, <2>5, Zenon DEF Takes
  <2>7. Keyed(f) \subseteq Keyed(d) \cup until(k)
    <3>1. Keyed(f) \subseteq Keyed(e) \cup {q}
      BY ONLY <2>3, <2>4, PutsKeyed, Zenon
    <3>2. until(k) = until(k - 1) \cup {q}
      <4>1. 1..k = (1..k - 1) \cup {k}
        BY <1>3
      <4> QED BY ONLY <2>1, <4>1, Zenon
    <3> HIDE DEF until
    <3> QED BY ONLY <2>2, <3>1, <3>2
  <2>8. G[k] = G[k - 1] \o Piece(s[k], name)
    BY ONLY <1>5, k \in 1..n, Zenon DEF Pieces
  <2>9. Told(Lines(f), name) = G[k]
    <3>1. CASE q.name = name
      <4>1. Missing(e, q)
        <5> SUFFICES ASSUME NEW j \in 1..Len(e.items), Same(e, e.items[j].key, q)
                     PROVE  FALSE
          BY Zenon DEF Missing
        <5>1. e.items[j].key = q
          BY <2>2, Zenon DEF Same
        <5>2. q \in Keyed(e)
          BY <5>1, Zenon DEF Keyed
        <5>3. q \notin Keyed(d)
          BY <3>1, Zenon DEF Keyed, Named
        <5>4. q \in until(k - 1)
          BY <2>2, <5>2, <5>3
        <5>5. PICK i \in 1..k - 1 : q = s[i].key
          BY <5>4, Zenon
        <5>6. Same(other, s[i].key, s[k].key)
          BY <2>1, <5>5, SameKey, Zenon
        <5>7. i \in 1..n /\ i # k
          BY <1>3
        <5> QED BY ONLY <1>1, <1>2, <1>3, <5>6, <5>7, k \in 1..n, Zenon DEF Distinct
      <4>2. Told(Lines(f), q.name) = Told(Lines(e), q.name) \o Join(<<v>>)
        BY ONLY <2>3, <2>4, <2>6, <4>1, ToldNew, Zenon
      <4>3. Join(<<v>>) = v
        BY ONLY <2>3, JoinOne, Zenon
      <4>4. Piece(s[k], name) = v
        BY ONLY <2>1, <3>1, Zenon DEF Piece
      <4> QED BY ONLY <2>2, <2>8, <3>1, <4>2, <4>3, <4>4, Zenon
    <3>2. CASE q.name # name
      <4>1. PICK g : g = G[k - 1]
        OBVIOUS
      <4>2. g \in Seq(STRING)
        BY <1>5, <1>6, <4>1 DEF Text
      <4>3. g \o <<>> = g
        BY ONLY <4>2, Nothing
      <4>4. Piece(s[k], name) = <<>>
        BY ONLY <2>1, <3>2, PieceOther, Zenon
      <4>5. Told(Lines(f), name) = Told(Lines(e), name)
        <5>1. name \notin {q.name}
          BY <3>2
        <5> QED BY ONLY <2>5, <5>1, Zenon DEF Takes
      <4> QED BY ONLY <2>2, <2>8, <4>1, <4>3, <4>4, <4>5, Zenon
    <3> QED BY <3>1, <3>2
  <2> HIDE DEF until
  <2> QED BY <1>6, <2>1, <2>6, <2>7, <2>9
<1> HIDE DEF Q
<1>9. n \in Q
  BY ONLY <1>3, <1>6, <1>7, <1>8, Stepwise
<1>10. Told(Lines(F[n]), name) = G[n]
  BY ONLY <1>9, Zenon DEF Q
<1> QED BY ONLY <1>4, <1>5, <1>10, Zenon

LEMMA KeysAre ==
    /\ Host \in Keys /\ Host.name = "host" /\ Accept \in Keys /\ Accept.name = "accept"
<1>1. 1 \in Nat
  OBVIOUS
<1>2. PICK h : h = "host"
  OBVIOUS
<1>3. PICK a : a = "accept"
  OBVIOUS
<1>4. h \in STRING /\ a \in STRING
  BY <1>2, <1>3, LiteralsAssumption, Zenon
<1>5. ASSUME NEW n \in STRING PROVE Key(n, 1) \in Keys /\ Key(n, 1).name = n
  BY ONLY n \in STRING DEF Key, Keys
<1> QED BY ONLY <1>2, <1>3, <1>4, <1>5, Zenon DEF Host, Accept

(* Accept and Host come first, and everything else stays as it was.          *)
LEMMA ProxyHeadersAre ==
    ASSUME NEW url, url.host \in STRING, NEW d, IsDict(d)
    PROVE  /\ IsDict(SetProxyHeaders(url, d)) /\ SetProxyHeaders(url, d).folds = FALSE
           /\ Named(SetProxyHeaders(url, d)) \subseteq Named(d) \cup {"host", "accept"}
           /\ \A name : name \notin {"host", "accept"} =>
                 Told(Lines(SetProxyHeaders(url, d)), name) = Told(Lines(d), name)
<1>1. PICK a, b, v, w : /\ v = <<"any">> /\ w = <<url.host>>
                        /\ a = SetItem(Dict(FALSE), Accept, v) /\ b = SetItem(a, Host, w)
  OBVIOUS
<1>2. v \in Text /\ w \in Text
  <2>1. ASSUME NEW t \in STRING PROVE <<t>> \in Seq(STRING)
    OBVIOUS
  <2> QED BY <1>1, <2>1, LiteralsAssumption, Zenon DEF Text
<1>3. /\ Dict(FALSE) \in Dictionary /\ Dict(FALSE).folds = FALSE /\ Distinct(Dict(FALSE))
      /\ Named(Dict(FALSE)) = {}
  BY EmptyDict
<1>4. Takes(Dict(FALSE), a, {Accept.name})
  BY ONLY <1>1, <1>2, <1>3, KeysAre, SetItemTakes, Zenon
<1>5. a \in Dictionary /\ a.folds = FALSE /\ Distinct(a)
      /\ Named(a) \subseteq Named(Dict(FALSE)) \cup {Accept.name}
  BY ONLY <1>3, <1>4, Zenon DEF Takes
<1>6. Takes(a, b, {Host.name})
  BY ONLY <1>1, <1>2, <1>5, KeysAre, SetItemTakes, Zenon
<1>7. b \in Dictionary /\ b.folds = FALSE /\ Distinct(b)
      /\ Named(b) \subseteq Named(a) \cup {Host.name}
  BY ONLY <1>5, <1>6, Zenon DEF Takes
<1>8. Named(b) \subseteq {"host", "accept"}
  BY ONLY <1>3, <1>5, <1>7, KeysAre
<1>9. IsDict(b)
  BY ONLY <1>7, DictIs, Zenon
<1>10. SetProxyHeaders(url, d) = Update(b, d)
  BY ONLY <1>1, Zenon DEF SetProxyHeaders
<1>11. /\ IsDict(Update(b, d)) /\ Update(b, d).folds = FALSE
       /\ Named(Update(b, d)) \subseteq Named(b) \cup Named(d)
  BY <1>7, <1>9, UpdateIs, Zenon
<1>12. Named(Update(b, d)) \subseteq Named(d) \cup {"host", "accept"}
  BY ONLY <1>8, <1>11
<1>13. ASSUME NEW name, name \notin {"host", "accept"}
       PROVE  Told(Lines(Update(b, d)), name) = Told(Lines(d), name)
  <2>1. name \notin Named(b)
    BY <1>8, <1>13
  <2> QED BY <1>7, <1>9, <2>1, UpdateTells, Zenon
<1> QED BY ONLY <1>10, <1>11, <1>12, <1>13, Zenon

(***************************************************************************)
(* What a dictionary of headers is on the way: of the caller's names and    *)
(* of those urllib3 adds, without those that were to go after what has been *)
(* met, and telling what the caller's told under all that need not go.     *)
(***************************************************************************)
AddedBy(s) == Names(Lines(s.proxyHeaders)) \cup {"host", "accept"}
Gone(s, m) ==
    (IF m.seeOther THEN ContentSpecific ELSE {})
    \cup (IF m.crossed \/ (s.via = "proxy" /\ m.hops > 0) THEN Sensitive ELSE {})
Others(s, u, m) == Names(Lines(u.headers)) \ (Gone(s, m) \cup AddedBy(s))

Clean(s, u, m, h) ==
    /\ IsDict(h)
    /\ Named(h) \subseteq Named(u.headers) \cup AddedBy(s)
    /\ m.seeOther => Named(h) \cap ContentSpecific \subseteq AddedBy(s)
    /\ m.crossed => Named(h) \cap Sensitive \subseteq AddedBy(s)
Kept(s, u, m, h) ==
    \A name \in Others(s, u, m) : Told(Lines(h), name) = Told(Lines(u.headers), name)
CarriedBy(s, u, m, h) == Clean(s, u, m, h) /\ Kept(s, u, m, h)

(* No more has been met in w than in m; and nothing less.                  *)
NoMoreSeen(w, m) == w.seeOther => m.seeOther
NoMoreCrossed(w, m) == w.crossed => m.crossed
NoLess(s, m, w) == Gone(s, m) \subseteq Gone(s, w)

LEMMA CleanStill ==
    ASSUME NEW s, NEW u, NEW m, NEW h, Clean(s, u, m, h),
           NEW w, NoMoreSeen(w, m), NoMoreCrossed(w, m)
    PROVE  Clean(s, u, w, h)
BY Zenon DEF Clean, NoMoreSeen, NoMoreCrossed

(* From one dictionary to another.                                          *)
LEMMA CleanOn ==
    ASSUME NEW s, NEW u, NEW m, NEW h, Clean(s, u, m, h),
           NEW g, IsDict(g), Named(g) \subseteq Named(h) \cup AddedBy(s)
    PROVE  Clean(s, u, m, g)
<1>1. /\ Named(h) \subseteq Named(u.headers) \cup AddedBy(s)
      /\ m.seeOther => Named(h) \cap ContentSpecific \subseteq AddedBy(s)
      /\ m.crossed => Named(h) \cap Sensitive \subseteq AddedBy(s)
  BY Zenon DEF Clean
<1>2. PICK A, N, M, U : A = AddedBy(s) /\ N = Named(g) /\ M = Named(h) /\ U = Named(u.headers)
  OBVIOUS
<1>3. N \subseteq M \cup A /\ M \subseteq U \cup A
  BY <1>1, <1>2
<1>4. N \subseteq U \cup A
  BY ONLY <1>3
<1>5. ASSUME NEW C, M \cap C \subseteq A PROVE N \cap C \subseteq A
  BY ONLY <1>3, <1>5
<1>6. /\ m.seeOther => N \cap ContentSpecific \subseteq A
      /\ m.crossed => N \cap Sensitive \subseteq A
  BY ONLY <1>1, <1>2, <1>5, Zenon
<1> QED BY ONLY <1>2, <1>4, <1>6, IsDict(g), Zenon DEF Clean

LEMMA CleanStripped ==
    ASSUME NEW s, NEW u, NEW m, NEW h, Clean(s, u, m, h), NEW w, NoMoreSeen(w, m)
    PROVE  Clean(s, u, w, Without(h, Sensitive))
<1>1. PICK g : g = Without(h, Sensitive)
  OBVIOUS
<1>2. IsDict(h)
  BY Zenon DEF Clean
<1>3. IsDict(g) /\ Named(g) \subseteq Named(h) \ Sensitive
  BY ONLY <1>1, <1>2, WithoutIs, Zenon
<1>5. Named(g) \subseteq Named(h) \cup AddedBy(s)
      /\ Named(g) \cap Sensitive \subseteq AddedBy(s)
  BY ONLY <1>3
<1>6. Clean(s, u, m, g)
  BY <1>3, <1>5, CleanOn, Zenon
<1> QED BY ONLY <1>1, <1>5, <1>6, NoMoreSeen(w, m), Zenon DEF Clean, NoMoreSeen

LEMMA CleanChanged ==
    ASSUME NEW s, NEW u, NEW m, NEW h, Clean(s, u, m, h), NEW w, NoMoreCrossed(w, m)
    PROVE  Clean(s, u, w, PrepareForMethodChange(HTTPHeaderDict(h)))
<1>1. PICK f, g, C : C = ContentSpecific /\ f = HTTPHeaderDict(h) /\ g = Without(f, C)
  OBVIOUS
<1>2. IsDict(h)
  BY Zenon DEF Clean
<1>3. IsDict(f) /\ Named(f) \subseteq Named(h)
  BY ONLY <1>1, <1>2, HTTPHeaderDictIs, Zenon
<1>4. IsDict(g) /\ Named(g) \subseteq Named(f) \ C
  <2>1. g = Without(f, C) /\ IsDict(f)
    BY <1>1, <1>3, Zenon
  <2> QED BY ONLY <2>1, WithoutIs, Zenon
<1>7. Named(g) \subseteq Named(h) \cup AddedBy(s) /\ Named(g) \cap C \subseteq AddedBy(s)
  BY ONLY <1>3, <1>4
<1>8. Clean(s, u, m, g)
  BY <1>4, <1>7, CleanOn, Zenon
<1>9. Clean(s, u, w, g)
  BY ONLY <1>1, <1>7, <1>8, NoMoreCrossed(w, m), Zenon DEF Clean, NoMoreCrossed
<1> QED BY ONLY <1>1, <1>9, Zenon DEF PrepareForMethodChange

LEMMA CarriedStill ==
    ASSUME NEW s, NEW u, NEW m, NEW h, CarriedBy(s, u, m, h),
           NEW w, NoMoreSeen(w, m), NoMoreCrossed(w, m), NoLess(s, m, w)
    PROVE  CarriedBy(s, u, w, h)
<1>1. Clean(s, u, w, h)
  BY CleanStill, Zenon DEF CarriedBy
<1>2. Others(s, u, w) \subseteq Others(s, u, m)
  BY Zenon DEF Others, NoLess
<1> QED BY <1>1, <1>2, Zenon DEF CarriedBy, Kept

LEMMA CarriedOn ==
    ASSUME NEW s, NEW u, NEW m, NEW h, CarriedBy(s, u, m, h),
           NEW g, IsDict(g), Named(g) \subseteq Named(h) \cup AddedBy(s),
           \A name : name \notin AddedBy(s) => Told(Lines(g), name) = Told(Lines(h), name)
    PROVE  CarriedBy(s, u, m, g)
<1>1. Clean(s, u, m, g)
  BY CleanOn, Zenon DEF CarriedBy
<1>2. Kept(s, u, m, g)
  BY Zenon DEF CarriedBy, Kept, Others
<1> QED BY <1>1, <1>2, Zenon DEF CarriedBy

LEMMA CarriedProxied ==
    ASSUME NEW s, NEW u, NEW m, NEW h, CarriedBy(s, u, m, h), NEW url, url.host \in STRING
    PROVE  CarriedBy(s, u, m, SetProxyHeaders(url, h))
<1>1. PICK g, B : g = SetProxyHeaders(url, h) /\ B = {"host", "accept"}
  OBVIOUS
<1>2. IsDict(h)
  BY Zenon DEF CarriedBy, Clean
<1>3. /\ IsDict(g) /\ Named(g) \subseteq Named(h) \cup B
      /\ \A name : name \notin B => Told(Lines(g), name) = Told(Lines(h), name)
  BY ONLY <1>1, <1>2, url.host \in STRING, ProxyHeadersAre, Zenon
<1>4. B \subseteq AddedBy(s)
  BY <1>1 DEF AddedBy
<1>6. Named(g) \subseteq Named(h) \cup AddedBy(s)
  BY ONLY <1>3, <1>4
<1>7. \A name : name \notin AddedBy(s) => Told(Lines(g), name) = Told(Lines(h), name)
  BY ONLY <1>3, <1>4, Zenon
<1> QED BY <1>1, <1>3, <1>6, <1>7, CarriedOn, Zenon

LEMMA CarriedUpdated ==
    ASSUME NEW s \in Setups, NEW u, NEW m, NEW h, CarriedBy(s, u, m, h)
    PROVE  CarriedBy(s, u, m, Update(h, s.proxyHeaders))
<1>1. PICK g, p : p = s.proxyHeaders /\ g = Update(h, p)
  OBVIOUS
<1>2. IsDict(h) /\ IsDict(p)
  BY <1>1, RedirectsAssumption, Zenon DEF CarriedBy, Clean
<1>3. /\ IsDict(g) /\ Named(g) \subseteq Named(h) \cup Named(p)
      /\ \A name : name \notin Named(p) => Told(Lines(g), name) = Told(Lines(h), name)
  BY ONLY <1>1, <1>2, UpdateIs, Zenon
<1>4. Named(p) \subseteq AddedBy(s)
  <2>1. Names(Lines(p)) = Named(p)
    BY <1>2, DictIs, NamesAre, Zenon
  <2> QED BY ONLY <1>1, <2>1 DEF AddedBy
<1>6. Named(g) \subseteq Named(h) \cup AddedBy(s)
  BY ONLY <1>3, <1>4
<1>7. \A name : name \notin AddedBy(s) => Told(Lines(g), name) = Told(Lines(h), name)
  BY ONLY <1>3, <1>4, Zenon
<1> QED BY <1>1, <1>3, <1>6, <1>7, CarriedOn, Zenon

(* Over a redirect.                                                         *)
Carrying(status, same, h) ==
    Stripped(IF status # 303 THEN h ELSE PrepareForMethodChange(HTTPHeaderDict(h)), same)
Drops(s, status, same, w) ==
    /\ status = 303 => ContentSpecific \subseteq Gone(s, w)
    /\ ~same => Sensitive \subseteq Gone(s, w)
OverBy(s, status, same, m, w) ==
    /\ w.seeOther <=> m.seeOther \/ status = 303
    /\ w.crossed => m.crossed \/ ~same
    /\ NoLess(s, m, w) /\ Drops(s, status, same, w)

LEMMA CleanOver ==
    ASSUME NEW s, NEW u, NEW m, NEW h, Clean(s, u, m, h), NEW status, NEW same, NEW w,
           OverBy(s, status, same, m, w)
    PROVE  Clean(s, u, w, Carrying(status, same, h))
<1>1. PICK f : f = IF status # 303 THEN h ELSE PrepareForMethodChange(HTTPHeaderDict(h))
  OBVIOUS
<1> DEFINE v == [seeOther |-> w.seeOther, crossed |-> m.crossed]
<1>3. v.seeOther = w.seeOther /\ v.crossed = m.crossed
  BY Zenon
<1> HIDE DEF v
<1>4. NoMoreCrossed(v, m) /\ NoMoreSeen(w, v)
      /\ (status # 303 => NoMoreSeen(v, m)) /\ (same => NoMoreCrossed(w, v))
  BY <1>3, Zenon DEF NoMoreCrossed, NoMoreSeen, OverBy
<1>5. Clean(s, u, v, f)
  <2>1. CASE status = 303
    <3>1. Clean(s, u, v, PrepareForMethodChange(HTTPHeaderDict(h)))
      BY ONLY Clean(s, u, m, h), <1>4, CleanChanged, Zenon
    <3> QED BY <1>1, <2>1, <3>1, Zenon
  <2>2. CASE status # 303
    <3>1. Clean(s, u, v, h)
      BY ONLY Clean(s, u, m, h), <1>4, <2>2, CleanStill, Zenon
    <3> QED BY <1>1, <2>2, <3>1, Zenon
  <2> QED BY <2>1, <2>2
<1>6. CASE same
  <2>1. Clean(s, u, w, f)
    BY ONLY <1>4, <1>5, <1>6, CleanStill, Zenon
  <2> QED BY <1>1, <1>6, <2>1, Zenon DEF Stripped, Carrying
<1>7. CASE ~same
  <2>1. Clean(s, u, w, Without(f, Sensitive))
    BY ONLY <1>4, <1>5, CleanStripped, Zenon
  <2> QED BY <1>1, <1>7, <2>1, Zenon DEF Stripped, Carrying
<1> QED BY <1>6, <1>7

(* Nothing but what is to go is lost.                                       *)
TellsOn(D, h, g) == \A name : name \notin D => Told(Lines(g), name) = Told(Lines(h), name)

LEMMA CarryingTells ==
    ASSUME NEW s, NEW h, IsDict(h), NEW status, NEW same, NEW w, Drops(s, status, same, w)
    PROVE  TellsOn(Gone(s, w), h, Carrying(status, same, h))
<1> SUFFICES ASSUME NEW name, name \notin Gone(s, w)
             PROVE  Told(Lines(Carrying(status, same, h)), name) = Told(Lines(h), name)
  BY Zenon DEF TellsOn
<1>1. PICK f : f = IF status # 303 THEN h ELSE PrepareForMethodChange(HTTPHeaderDict(h))
  OBVIOUS
<1>2. IsDict(f) /\ Told(Lines(f), name) = Told(Lines(h), name)
  <2>1. CASE status = 303
    <3>1. PICK e, C : e = HTTPHeaderDict(h) /\ C = ContentSpecific
      OBVIOUS
    <3>2. IsDict(e) /\ Told(Lines(e), name) = Told(Lines(h), name)
      BY ONLY IsDict(h), <3>1, HTTPHeaderDictIs, Zenon
    <3>3. name \notin C
      BY <2>1, <3>1, Zenon DEF Drops
    <3>4. PICK g : g = Without(e, C)
      OBVIOUS
    <3>5. /\ IsDict(g)
          /\ \A n : n \notin C => Told(Lines(g), n) = Told(Lines(e), n)
      <4>1. g = Without(e, C) /\ IsDict(e)
        BY <3>2, <3>4, Zenon
      <4> QED BY ONLY <4>1, WithoutIs, Zenon
    <3>6. f = g
      BY <1>1, <2>1, <3>1, <3>4, Zenon DEF PrepareForMethodChange
    <3> QED BY ONLY <3>2, <3>3, <3>5, <3>6, Zenon
  <2>2. CASE status # 303
    BY <1>1, <2>2, Zenon
  <2> QED BY <2>1, <2>2
<1>3. CASE same
  <2>1. Carrying(status, same, h) = f
    BY <1>1, <1>3, Zenon DEF Carrying, Stripped
  <2> QED BY ONLY <1>2, <2>1, Zenon
<1>4. CASE ~same
  <2>1. PICK g : g = Without(f, Sensitive)
    OBVIOUS
  <2>2. name \notin Sensitive
    BY <1>4, Zenon DEF Drops
  <2>3. \A n : n \notin Sensitive => Told(Lines(g), n) = Told(Lines(f), n)
    <3>1. g = Without(f, Sensitive) /\ IsDict(f)
      BY <1>2, <2>1, Zenon
    <3> QED BY ONLY <3>1, WithoutIs, Zenon
  <2>4. Carrying(status, same, h) = g
    BY <1>1, <1>4, <2>1, Zenon DEF Carrying, Stripped
  <2> QED BY ONLY <1>2, <2>2, <2>3, <2>4, Zenon
<1> QED BY <1>3, <1>4

LEMMA CarriedOver ==
    ASSUME NEW s, NEW u, NEW m, NEW h, CarriedBy(s, u, m, h), NEW status, NEW same, NEW w,
           OverBy(s, status, same, m, w)
    PROVE  CarriedBy(s, u, w, Carrying(status, same, h))
<1>1. Clean(s, u, m, h) /\ IsDict(h) /\ Kept(s, u, m, h) /\ Drops(s, status, same, w)
      /\ Gone(s, m) \subseteq Gone(s, w)
  BY Zenon DEF CarriedBy, Clean, OverBy, NoLess
<1>2. Clean(s, u, w, Carrying(status, same, h))
  BY <1>1, CleanOver, Zenon
<1>3. Kept(s, u, w, Carrying(status, same, h))
  <2> SUFFICES ASSUME NEW name \in Others(s, u, w)
               PROVE  Told(Lines(Carrying(status, same, h)), name) = Told(Lines(u.headers), name)
    BY Zenon DEF Kept
  <2>1. name \in Others(s, u, m) /\ name \notin Gone(s, w)
    BY <1>1, Zenon DEF Others
  <2>2. Told(Lines(Carrying(status, same, h)), name) = Told(Lines(h), name)
    <3>1. TellsOn(Gone(s, w), h, Carrying(status, same, h))
      BY <1>1, CarryingTells, Zenon
    <3> QED BY ONLY <2>1, <3>1, Zenon DEF TellsOn
  <2>3. Told(Lines(h), name) = Told(Lines(u.headers), name)
    BY ONLY <1>1, <2>1, Zenon DEF Kept
  <2> QED BY ONLY <2>2, <2>3, Zenon
<1> QED BY ONLY <1>2, <1>3, Zenon DEF CarriedBy

(***************************************************************************)
(* The invariant                                                           *)
(***************************************************************************)
Stages == {"manager", "pool", "send", "answer", "done", "raised"}
Requests == [method : Methods, url : Urls, headers : Dictionary, body : Bodies \cup {"none"}]
Attempts == [method : Methods, url : Urls, headers : Dictionary, body : Bodies \cup {"none"},
             pos : -2..Length]

Types ==
    /\ setup \in Setups
    /\ user \in [method : Methods, url : Urls, headers : UserHeaders, body : Bodies,
                 chunked : BOOLEAN]
    /\ pc \in Stages
    /\ kw \in Requests /\ args \in Attempts
    /\ at \in 0..Length /\ budget \in 0..Budget
    /\ met \in [hops : 0..Budget, seeOther : BOOLEAN, crossed : BOOLEAN, retried : BOOLEAN]
    /\ met.hops + budget <= Budget

(* A request, wherever it has got to, is the caller's.                      *)
FollowsBy(s, u, m, r) ==
    /\ r.body = IF m.seeOther THEN "none" ELSE u.body
    /\ m.seeOther => r.method = "GET"
    /\ CarriedBy(s, u, m, r.headers)

InPool == pc # "manager"
Managed == setup.via # "pool"
Requested ==
    /\ Managed => FollowsBy(setup, user, met, kw)
    /\ InPool => FollowsBy(setup, user, met, args)
    /\ Managed /\ InPool => args.url = kw.url
    /\ ~Managed => InPool
    /\ ~Managed /\ ~met.crossed => args.url = setup.pool

(* Where the body is, as long as it can be read again.                      *)
Readable == Replayable /\ ~met.seeOther /\ user.body \in Reads
Placed ==
    Readable =>
      /\ pc \in {"manager", "send"} => at = 0
      /\ pc = "pool" /\ args.pos = Unset => at = 0
      /\ InPool => args.pos \in {Unset, 0, FailedTell}
      /\ InPool /\ user.body = "iterator" => args.pos = Unset
      /\ pc \in {"send", "answer"} /\ user.body # "iterator" => args.pos # Unset

(* What was sent.                                                           *)
Whole == IF met.seeOther \/ user.body = "none" THEN 0 ELSE Length
Sent ==
    pc = "answer" =>
      /\ sent.method = args.method /\ sent.headers = Lines(args.headers)
      /\ sent.framing = Framing(args.method, args.headers, args.body, user.chunked)
      /\ Replayable => sent.units = Whole

Inv == Types /\ Requested /\ Placed /\ Sent

LEMMA Amounts ==
    /\ Length \in Nat /\ Length # 0 /\ Budget \in Nat /\ Unset = -1 /\ FailedTell = -2
    /\ Unset \in -2..Length /\ FailedTell \in -2..Length /\ 0 \in -2..Length
    /\ 0 \in 0..Length /\ Length \in 0..Length /\ 0..Length \subseteq -2..Length
<1>1. Length \in Nat \ {0} /\ Budget \in Nat
  BY RedirectsAssumption, Zenon
<1> QED BY ONLY <1>1 DEF Unset, FailedTell

LEMMA TypesAre ==
    ASSUME Types
    PROVE  /\ setup \in Setups /\ user.headers \in UserHeaders /\ user.body \in Bodies
           /\ user.method \in Methods /\ user.url \in Urls /\ user.chunked \in BOOLEAN
           /\ pc \in Stages
           /\ kw.method \in Methods /\ kw.url \in Urls /\ kw.headers \in Dictionary
           /\ kw.body \in Bodies \cup {"none"}
           /\ args.method \in Methods /\ args.url \in Urls /\ args.headers \in Dictionary
           /\ args.body \in Bodies \cup {"none"} /\ args.pos \in -2..Length
           /\ at \in 0..Length /\ budget \in 0..Budget
           /\ met.hops \in 0..Budget /\ met.seeOther \in BOOLEAN /\ met.crossed \in BOOLEAN
           /\ met.retried \in BOOLEAN /\ met.hops + budget <= Budget
<1>1. setup \in Setups /\ pc \in Stages /\ at \in 0..Length /\ budget \in 0..Budget
      /\ met.hops + budget <= Budget
  BY Zenon DEF Types
<1>2. user.headers \in UserHeaders /\ user.body \in Bodies
      /\ user.method \in Methods /\ user.url \in Urls /\ user.chunked \in BOOLEAN
  BY DEF Types
<1>3. kw.method \in Methods /\ kw.url \in Urls /\ kw.headers \in Dictionary
      /\ kw.body \in Bodies \cup {"none"}
  BY DEF Types, Requests
<1>4. args.method \in Methods /\ args.url \in Urls /\ args.headers \in Dictionary
      /\ args.body \in Bodies \cup {"none"} /\ args.pos \in -2..Length
  BY DEF Types, Attempts
<1>5. met.hops \in 0..Budget /\ met.seeOther \in BOOLEAN /\ met.crossed \in BOOLEAN
      /\ met.retried \in BOOLEAN
  BY DEF Types
<1> QED BY ONLY <1>1, <1>2, <1>3, <1>4, <1>5

LEMMA GivenAre ==
    ASSUME NEW s \in Setups, NEW h \in UserHeaders, NEW url \in Urls
    PROVE  IsDict(s.proxyHeaders) /\ IsDict(h) /\ url.host \in STRING
<1>1. IsDict(s.proxyHeaders) /\ IsDict(h)
  BY RedirectsAssumption, Zenon
<1>2. Urls \subseteq [scheme : STRING, host : STRING]
  BY RedirectsAssumption, Zenon
<1>3. url \in [scheme : STRING, host : STRING]
  BY <1>2, Zenon
<1>4. url.host \in STRING
  BY ONLY <1>3
<1> QED BY <1>1, <1>4

LEMMA CarriedIsDictionary ==
    ASSUME NEW s, NEW u, NEW m, NEW h, CarriedBy(s, u, m, h) PROVE h \in Dictionary
BY DictIs, Zenon DEF CarriedBy, Clean

LEMMA InitHolds == ASSUME Init PROVE Inv
<1>1. user \in [method : Methods, url : Urls, headers : UserHeaders, body : Bodies,
                chunked : BOOLEAN] /\ setup \in Setups
  BY Zenon DEF Init
<1>2. user.headers \in UserHeaders /\ user.body \in Bodies
      /\ user.method \in Methods /\ user.url \in Urls
  BY ONLY <1>1
<1>3. IsDict(user.headers)
  BY ONLY <1>1, <1>2, GivenAre, Zenon
<1>4. user.headers \in Dictionary
  BY ONLY <1>3, DictIs, Zenon
<1>5. met = NotMet /\ pc = (IF setup.via = "pool" THEN "pool" ELSE "manager")
      /\ at = 0 /\ budget = Budget
      /\ kw = [method |-> user.method, url |-> user.url, headers |-> user.headers,
               body |-> user.body]
      /\ args = [method |-> user.method, url |-> user.url, headers |-> user.headers,
                 body |-> user.body, pos |-> Unset]
      /\ (setup.via # "pool" \/ user.url = setup.pool)
  BY Zenon DEF Init
<1>6. ~met.seeOther /\ ~met.crossed /\ ~met.retried /\ met.hops = 0
      /\ met \in [hops : 0..Budget, seeOther : BOOLEAN, crossed : BOOLEAN, retried : BOOLEAN]
  BY ONLY <1>5, Amounts DEF NotMet
<1>7. Types
  <2>1. kw \in Requests
    BY ONLY <1>2, <1>4, <1>5 DEF Requests
  <2>2. args \in Attempts
    BY ONLY <1>2, <1>4, <1>5, Amounts DEF Attempts
  <2>3. pc \in Stages
    BY ONLY <1>5 DEF Stages
  <2>4. at \in 0..Length /\ budget \in 0..Budget /\ met.hops + budget <= Budget
    BY ONLY <1>5, <1>6, Amounts
  <2> QED BY ONLY <1>1, <1>6, <2>1, <2>2, <2>3, <2>4, Zenon DEF Types
<1>8. CarriedBy(setup, user, met, user.headers)
  <2>1. Named(user.headers) \subseteq Named(user.headers) \cup AddedBy(setup)
    OBVIOUS
  <2> QED BY ONLY <1>3, <1>6, <2>1, Zenon DEF CarriedBy, Clean, Kept
<1>9. FollowsBy(setup, user, met, kw) /\ FollowsBy(setup, user, met, args)
  <2>1. /\ kw.body = user.body /\ kw.headers = user.headers
        /\ args.body = user.body /\ args.headers = user.headers
    BY ONLY <1>5
  <2> QED BY ONLY <1>6, <1>8, <2>1, Zenon DEF FollowsBy
<1>10. Requested
  <2>1. args.url = kw.url /\ args.url = user.url /\ (~Managed => InPool)
    BY ONLY <1>5 DEF Managed, InPool
  <2> QED BY ONLY <1>5, <1>9, <2>1, Zenon DEF Requested, Managed
<1>11. Placed
  <2>1. args.pos = Unset /\ pc \notin {"send", "answer"}
    BY ONLY <1>5
  <2> QED BY ONLY <1>5, <2>1, Zenon DEF Placed
<1>12. Sent
  <2>1. pc # "answer"
    BY ONLY <1>5
  <2> QED BY ONLY <2>1, Zenon DEF Sent
<1> QED BY ONLY <1>7, <1>10, <1>11, <1>12, Zenon DEF Inv

(* The proxy's headers are put before the others.                           *)
LEMMA ManageHolds == ASSUME Inv, Manage PROVE Inv'
<1> DEFINE h == IF setup.via = "proxy" /\ ~RequiresTunnel(kw.url)
                THEN SetProxyHeaders(kw.url, kw.headers) ELSE kw.headers
<1>1. /\ pc = "manager" /\ pc' = "pool"
      /\ kw' = [kw EXCEPT !.headers = h]
      /\ args' = [method |-> kw.method, url |-> kw.url, headers |-> h,
                  body |-> kw.body, pos |-> Unset]
      /\ setup' = setup /\ user' = user /\ at' = at /\ budget' = budget /\ met' = met
  BY Zenon DEF Manage
<1>2. Types /\ Requested /\ Placed
  BY Zenon DEF Inv
<1>3. FollowsBy(setup, user, met, kw) /\ Managed
  BY <1>1, <1>2, Zenon DEF Requested, InPool
<1>4. CarriedBy(setup, user, met, h)
  <2>1. kw.url.host \in STRING
    BY <1>2, TypesAre, GivenAre, Zenon
  <2>2. CarriedBy(setup, user, met, kw.headers)
    BY <1>3, Zenon DEF FollowsBy
  <2>3. CarriedBy(setup, user, met, SetProxyHeaders(kw.url, kw.headers))
    BY ONLY <2>1, <2>2, CarriedProxied, Zenon
  <2> QED BY ONLY <2>2, <2>3, Zenon
<1> HIDE DEF h
<1>5. h \in Dictionary
  BY ONLY <1>4, CarriedIsDictionary, Zenon
<1>6. kw \in Requests /\ args \in Attempts
  BY <1>2, Zenon DEF Types
<1>7. /\ kw' \in Requests /\ kw'.url = kw.url /\ kw'.headers = h /\ kw'.body = kw.body
      /\ kw'.method = kw.method
  BY ONLY <1>1, <1>5, <1>6 DEF Requests
<1>8. /\ args' \in Attempts /\ args'.url = kw.url /\ args'.headers = h /\ args'.body = kw.body
      /\ args'.method = kw.method /\ args'.pos = Unset
  BY ONLY <1>1, <1>5, <1>6, Amounts DEF Requests, Attempts
<1>9. Types'
  <2>1. pc' \in Stages
    BY ONLY <1>1 DEF Stages
  <2> QED BY ONLY <1>1, <1>2, <1>7, <1>8, <2>1, Zenon DEF Types
<1>10. Requested'
  <2>1. FollowsBy(setup, user, met, kw') /\ FollowsBy(setup, user, met, args')
    BY ONLY <1>3, <1>4, <1>7, <1>8, Zenon DEF FollowsBy
  <2>2. pc' # "manager"
    BY ONLY <1>1
  <2> QED BY ONLY <1>1, <1>3, <1>7, <1>8, <2>1, <2>2, Zenon DEF Requested, Managed, InPool
<1>11. Placed'
  <2>1. Readable' => Readable
    BY ONLY <1>1, Zenon DEF Readable, Replayable
  <2>2. Readable => at = 0
    BY ONLY <1>1, <1>2, Zenon DEF Placed
  <2>3. pc' \notin {"send", "answer"}
    BY ONLY <1>1
  <2> QED BY ONLY <1>1, <1>8, <2>1, <2>2, <2>3, Zenon DEF Placed
<1>12. Sent'
  <2>1. pc' # "answer"
    BY ONLY <1>1
  <2> QED BY ONLY <2>1, Zenon DEF Sent
<1> QED BY ONLY <1>9, <1>10, <1>11, <1>12, Zenon DEF Inv

LEMMA RecordedIs ==
    ASSUME NEW body, NEW pos \in -2..Length, at \in 0..Length
    PROVE  /\ SetFilePosition(body, pos) \in -2..Length
           /\ pos # Unset => SetFilePosition(body, pos) = pos
           /\ pos = Unset /\ body \notin HasTell => SetFilePosition(body, pos) = Unset
           /\ pos = Unset /\ body \in HasTell => SetFilePosition(body, pos) \in {at, FailedTell}
           /\ Rewinds(body, pos) => pos \in 0..Length
<1>1. PICK p, l, u, f : p = SetFilePosition(body, pos) /\ l = Length /\ u = Unset /\ f = FailedTell
  OBVIOUS
<1>2. /\ at \in -2..l /\ u \in -2..l /\ f \in -2..l /\ pos \in -2..l /\ l \in Nat
  BY <1>1, Amounts
<1>3. CASE pos # u
  <2>1. p = pos
    BY <1>1, <1>3, Zenon DEF SetFilePosition
  <2>2. pos >= 0 => pos \in 0..l
    BY ONLY <1>2
  <2> QED BY ONLY <1>1, <1>2, <1>3, <2>1, <2>2, Zenon DEF Rewinds
<1>4. CASE pos = u
  <2>1. p = IF body = "no tell" THEN f ELSE IF body \in HasTell THEN at ELSE u
    BY <1>1, <1>4, Zenon DEF SetFilePosition
  <2>2. body = "no tell" => body \in HasTell
    BY DEF HasTell
  <2>3. p \in {u, f, at}
    BY ONLY <2>1, Zenon
  <2>4. p \in -2..l
    BY ONLY <1>2, <2>3, Zenon
  <2>5. body \notin HasTell => p = u
    BY ONLY <2>1, <2>2, Zenon
  <2>6. body \in HasTell => p \in {at, f}
    BY ONLY <2>1, Zenon
  <2>7. pos >= 0 => pos \in 0..l
    BY ONLY <1>2
  <2> QED BY ONLY <1>1, <1>4, <2>4, <2>5, <2>6, <2>7, Zenon DEF Rewinds
<1> QED BY <1>3, <1>4

LEMMA PoolUrlopenHolds == ASSUME Inv, PoolUrlopen PROVE Inv'
<1>1. /\ pc = "pool"
      /\ setup' = setup /\ user' = user /\ kw' = kw /\ budget' = budget /\ met' = met
  BY Zenon DEF PoolUrlopen
<1>2. Types /\ Requested /\ Placed
  BY Zenon DEF Inv
<1>3. InPool /\ FollowsBy(setup, user, met, args)
  <2>1. InPool
    BY <1>1 DEF InPool
  <2> QED BY <1>2, <2>1, Zenon DEF Requested
<1>4. CASE pc' = "raised" /\ UNCHANGED <<args, at>>
  <2>1. args' = args /\ at' = at /\ pc' = "raised"
    BY <1>4
  <2>2. Types'
    <3>1. pc' \in Stages
      BY ONLY <2>1 DEF Stages
    <3> QED BY ONLY <1>1, <1>2, <2>1, <3>1, Zenon DEF Types
  <2>3. Requested'
    <3>1. pc' # "manager"
      BY ONLY <2>1
    <3> QED BY ONLY <1>1, <1>2, <1>3, <2>1, <3>1, Zenon DEF Requested, Managed, InPool
  <2>4. Placed'
    <3>1. Readable' => Readable
      BY ONLY <1>1, Zenon DEF Readable, Replayable
    <3>2. pc' \notin {"manager", "pool", "send", "answer"}
      BY ONLY <2>1
    <3> QED BY ONLY <1>1, <1>2, <1>3, <2>1, <3>1, <3>2, Zenon DEF Placed, InPool
  <2>5. Sent'
    <3>1. pc' # "answer"
      BY ONLY <2>1
    <3> QED BY ONLY <3>1, Zenon DEF Sent
  <2> QED BY ONLY <2>2, <2>3, <2>4, <2>5, Zenon DEF Inv
<1> DEFINE h == IF RequiresTunnel(args.url) THEN args.headers
                ELSE Update(args.headers, setup.proxyHeaders)
           p == SetFilePosition(args.body, args.pos)
<1>5. CASE /\ ~(args.pos # Unset /\ ~Rewinds(args.body, args.pos))
           /\ args' = [args EXCEPT !.headers = h, !.pos = p]
           /\ at' = IF args.pos # Unset THEN args.pos ELSE at
           /\ pc' = "send"
  <2>1. CarriedBy(setup, user, met, h)
    <3>1. CarriedBy(setup, user, met, args.headers) /\ setup \in Setups
      BY <1>2, <1>3, TypesAre, Zenon DEF FollowsBy
    <3>2. CarriedBy(setup, user, met, Update(args.headers, setup.proxyHeaders))
      BY ONLY <3>1, CarriedUpdated, Zenon
    <3> QED BY ONLY <3>1, <3>2, Zenon
  <2>2. h \in Dictionary
    BY ONLY <2>1, CarriedIsDictionary, Zenon
  <2>3. args.pos \in -2..Length /\ at \in 0..Length /\ args \in Attempts
    BY <1>2, TypesAre, Zenon DEF Types
  <2>4. /\ p \in -2..Length
        /\ args.pos # Unset => p = args.pos
        /\ args.pos = Unset /\ args.body \notin HasTell => p = Unset
        /\ args.pos = Unset /\ args.body \in HasTell => p \in {at, FailedTell}
        /\ Rewinds(args.body, args.pos) => args.pos \in 0..Length
    BY ONLY <2>3, RecordedIs, Zenon
  <2> HIDE DEF h, p
  <2>5. /\ args' \in Attempts /\ args'.url = args.url /\ args'.headers = h
        /\ args'.body = args.body /\ args'.method = args.method /\ args'.pos = p
    BY ONLY <1>5, <2>2, <2>3, <2>4 DEF Attempts
  <2>6. at' \in 0..Length
    BY ONLY <1>5, <2>3, <2>4, Zenon
  <2>7. Types'
    <3>1. pc' \in Stages
      BY ONLY <1>5 DEF Stages
    <3> QED BY ONLY <1>1, <1>2, <2>5, <2>6, <3>1, Zenon DEF Types
  <2>8. Requested'
    <3>1. pc' # "manager"
      BY ONLY <1>5
    <3>2. FollowsBy(setup, user, met, args')
      BY ONLY <1>3, <2>1, <2>5, Zenon DEF FollowsBy
    <3> QED BY ONLY <1>1, <1>2, <1>3, <2>5, <3>1, <3>2, Zenon DEF Requested, Managed, InPool
  <2>9. Placed'
    <3> SUFFICES ASSUME Readable'
                 PROVE  /\ at' = 0 /\ args'.pos \in {Unset, 0, FailedTell}
                        /\ user'.body = "iterator" => args'.pos = Unset
                        /\ user'.body # "iterator" => args'.pos # Unset
      <4>1. pc' \notin {"manager", "pool"}
        BY ONLY <1>5
      <4> QED BY <4>1, Zenon DEF Placed
    <3>1. Readable /\ ~met.seeOther /\ user.body \in Reads
      BY <1>1, Zenon DEF Readable, Replayable
    <3>2. /\ args.pos = Unset => at = 0
          /\ args.pos \in {Unset, 0, FailedTell}
          /\ user.body = "iterator" => args.pos = Unset
      BY ONLY <1>1, <1>2, <1>3, <3>1, Zenon DEF Placed
    <3>3. args.body = user.body
      BY ONLY <1>3, <3>1, Zenon DEF FollowsBy
    <3>4. args.pos # Unset => args.pos \in 0..Length
      BY ONLY <1>5, <2>4, Zenon
    <3>5. args.pos # Unset => args.pos = 0
      BY ONLY <3>2, <3>4, Amounts
    <3>6. at' = 0
      BY ONLY <1>5, <3>2, <3>5, Zenon
    <3>7. user.body = "iterator" <=> user.body \notin HasTell
      BY <3>1 DEF Reads, HasTell
    <3>8. p \in {Unset, 0, FailedTell} /\ (user.body = "iterator" => p = Unset)
      BY ONLY <2>4, <3>2, <3>3, <3>5, <3>7
    <3>9. user.body # "iterator" => p # Unset
      BY ONLY <2>4, <3>2, <3>3, <3>5, <3>7, Amounts
    <3> QED BY ONLY <1>1, <2>5, <3>6, <3>8, <3>9, Zenon
  <2>10. Sent'
    <3>1. pc' # "answer"
      BY ONLY <1>5
    <3> QED BY ONLY <3>1, Zenon DEF Sent
  <2> QED BY ONLY <2>7, <2>8, <2>9, <2>10, Zenon DEF Inv
<1> QED BY <1>4, <1>5, Zenon DEF PoolUrlopen

(* The whole body is sent, from where it began.                             *)
LEMMA SendHolds == ASSUME Inv, Send PROVE Inv'
<1> DEFINE from == IF args.body \in Reads THEN at ELSE 0
           units == IF args.body = "none" THEN 0 ELSE Length - from
           framing == Framing(args.method, args.headers, args.body, user.chunked)
           lines == Lines(args.headers)
<1>1. /\ pc = "send" /\ pc' = "answer"
      /\ sent' = [method |-> args.method, url |-> args.url, headers |-> lines,
                  units |-> units, framing |-> framing]
      /\ at' = IF args.body \in Reads THEN Length ELSE at
      /\ setup' = setup /\ user' = user /\ kw' = kw /\ args' = args
      /\ budget' = budget /\ met' = met
  BY Zenon DEF Send
<1>2. Types /\ Requested /\ Placed
  BY Zenon DEF Inv
<1>3. InPool /\ FollowsBy(setup, user, met, args)
  <2>1. InPool
    BY <1>1 DEF InPool
  <2> QED BY <1>2, <2>1, Zenon DEF Requested
<1>4. Types'
  <2>1. pc' \in Stages
    BY ONLY <1>1 DEF Stages
  <2>2. at' \in 0..Length
    BY ONLY <1>1, <1>2, Amounts, Zenon DEF Types
  <2> QED BY ONLY <1>1, <1>2, <2>1, <2>2, Zenon DEF Types
<1>5. Requested'
  <2>1. pc' # "manager"
    BY ONLY <1>1
  <2> QED BY ONLY <1>1, <1>2, <1>3, <2>1, Zenon DEF Requested, Managed, InPool
<1>6. Placed'
  <2>1. Readable' => Readable
    BY ONLY <1>1, Zenon DEF Readable, Replayable
  <2>2. pc' \notin {"manager", "pool", "send"} /\ pc \in {"send", "answer"}
    BY ONLY <1>1
  <2> QED BY ONLY <1>1, <1>2, <1>3, <2>1, <2>2, Zenon DEF Placed, InPool
<1>7. Replayable => units = Whole
  <2> SUFFICES ASSUME Replayable PROVE units = Whole
    OBVIOUS
  <2>1. args.body = IF met.seeOther THEN "none" ELSE user.body
    BY <1>3, Zenon DEF FollowsBy
  <2>2. CASE met.seeOther \/ user.body = "none"
    BY ONLY <2>1, <2>2, Zenon DEF Whole
  <2>3. CASE ~met.seeOther /\ user.body # "none"
    <3>1. args.body = user.body
      BY ONLY <2>1, <2>3, Zenon
    <3>2. user.body \in Reads => at = 0
      BY ONLY <1>1, <1>2, <2>3, Replayable, Zenon DEF Placed, Readable
    <3>3. from = 0
      BY ONLY <3>1, <3>2, Zenon
    <3> HIDE DEF from
    <3>4. Length - from = Length
      BY ONLY <3>3, Amounts
    <3>5. units = Length
      BY ONLY <2>3, <3>1, <3>4, Zenon
    <3> QED BY ONLY <2>3, <3>5, Zenon DEF Whole
  <2> QED BY <2>2, <2>3
<1>8. Sent'
  <2> HIDE DEF units, framing, lines
  <2>1. /\ sent'.method = args.method /\ sent'.headers = lines /\ sent'.units = units
        /\ sent'.framing = framing
    BY ONLY <1>1
  <2>2. Whole' = Whole /\ (Replayable' => Replayable)
    BY ONLY <1>1, Zenon DEF Whole, Replayable
  <2>3. /\ sent'.method = args'.method /\ sent'.headers = Lines(args'.headers)
        /\ sent'.framing = Framing(args'.method, args'.headers, args'.body, user'.chunked)
    BY ONLY <1>1, <2>1, Zenon DEF framing, lines
  <2>4. Framing(args'.method, args'.headers, args'.body, user'.chunked)
        = Framing(args.method, args.headers, args.body, user.chunked)'
    OBVIOUS
  <2> QED BY ONLY <1>7, <2>1, <2>2, <2>3, <2>4, Zenon DEF Sent
<1> QED BY ONLY <1>4, <1>5, <1>6, <1>8, Zenon DEF Inv

(* Nothing of a request changes when it is tried again.                     *)
LEMMA RetriedHolds ==
    ASSUME Types, Requested, Placed, pc \in {"send", "answer"}, pc' = "pool",
           setup' = setup, user' = user, kw' = kw, args' = args,
           met' = [met EXCEPT !.retried = TRUE]
    PROVE  Requested' /\ Placed' /\ Sent'
           /\ met' \in [hops : 0..Budget, seeOther : BOOLEAN, crossed : BOOLEAN,
                        retried : BOOLEAN]
           /\ met'.hops = met.hops
<1>0. met \in [hops : 0..Budget, seeOther : BOOLEAN, crossed : BOOLEAN, retried : BOOLEAN]
  BY Zenon DEF Types
<1>1. /\ met'.seeOther = met.seeOther /\ met'.crossed = met.crossed /\ met'.hops = met.hops
      /\ met'.retried
      /\ met' \in [hops : 0..Budget, seeOther : BOOLEAN, crossed : BOOLEAN, retried : BOOLEAN]
  BY ONLY <1>0, met' = [met EXCEPT !.retried = TRUE]
<1>2. InPool /\ FollowsBy(setup, user, met, args) /\ pc' # "manager" /\ pc' # "answer"
  <2>1. InPool
    BY DEF InPool
  <2> QED BY <2>1, Zenon DEF Requested
<1>3. ASSUME NEW r, FollowsBy(setup, user, met, r) PROVE FollowsBy(setup, user, met', r)
  <2>1. NoMoreSeen(met', met) /\ NoMoreCrossed(met', met) /\ NoLess(setup, met, met')
    BY ONLY <1>1, Zenon DEF NoMoreSeen, NoMoreCrossed, NoLess, Gone
  <2>2. CarriedBy(setup, user, met, r.headers)
    BY <1>3, Zenon DEF FollowsBy
  <2>3. CarriedBy(setup, user, met', r.headers)
    BY ONLY <2>1, <2>2, CarriedStill, Zenon
  <2> QED BY ONLY <1>1, <1>3, <2>3, Zenon DEF FollowsBy
<1>4. Requested'
  BY <1>1, <1>2, <1>3, Zenon DEF Requested, Managed, InPool
<1>5. Placed'
  <2> SUFFICES ASSUME Readable'
               PROVE  /\ args'.pos # Unset /\ args'.pos \in {Unset, 0, FailedTell}
                      /\ user'.body # "iterator"
    <3>1. pc' \notin {"manager", "send", "answer"}
      OBVIOUS
    <3> QED BY <3>1, Zenon DEF Placed
  <2>1. user'.body # "iterator"
    <3>1. user'.body \in Reads /\ Replayable'
      BY Zenon DEF Readable
    <3>2. user'.body # "iterator" \/ ~met'.retried
      <4>1. "iterator" \notin {"none", "bytes"} /\ "iterator" \notin HasTell
        BY DEF HasTell
      <4> QED BY <3>1, <4>1, Zenon DEF Replayable
    <3> QED BY <1>1, <3>2, Zenon
  <2>2. Replayable' => Replayable
    BY <1>1, Zenon DEF Replayable
  <2>3. Readable
    BY <1>1, <2>2, Zenon DEF Readable
  <2> QED BY <1>2, <2>1, <2>3, Zenon DEF Placed
<1>6. Sent'
  BY ONLY <1>2, Zenon DEF Sent
<1> QED BY ONLY <1>1, <1>4, <1>5, <1>6

LEMMA SendFailsHolds == ASSUME Inv, SendFails PROVE Inv'
<1>1. /\ pc = "send" /\ at' \in IF args.body \in Reads THEN at..Length ELSE {at}
      /\ \/ budget = 0 /\ pc' = "raised" /\ budget' = budget /\ met' = met
         \/ /\ budget # 0 /\ pc' = "pool" /\ budget' = budget - 1
            /\ met' = [met EXCEPT !.retried = TRUE]
      /\ setup' = setup /\ user' = user /\ kw' = kw /\ args' = args
  BY Zenon DEF SendFails
<1>2. Types /\ Requested /\ Placed
  BY Zenon DEF Inv
<1>3. at' \in 0..Length
  <2>1. at \in 0..Length
    BY <1>2, Zenon DEF Types
  <2>2. at..Length \subseteq 0..Length
    BY ONLY <2>1, Amounts
  <2> QED BY ONLY <1>1, <2>1, <2>2
<1>4. CASE pc' = "raised" /\ budget' = budget /\ met' = met
  <2>1. pc' \in Stages /\ pc' \notin {"manager", "pool", "send", "answer"} /\ InPool
    BY ONLY <1>1, <1>4 DEF Stages, InPool
  <2>2. Types'
    BY ONLY <1>1, <1>2, <1>3, <1>4, <2>1, Zenon DEF Types
  <2>3. Requested'
    BY ONLY <1>1, <1>2, <1>4, <2>1, Zenon DEF Requested, Managed, InPool
  <2>4. Placed'
    <3>1. Readable' => Readable
      BY ONLY <1>1, <1>4, Zenon DEF Readable, Replayable
    <3> QED BY ONLY <1>1, <1>2, <2>1, <3>1, Zenon DEF Placed, InPool
  <2>5. Sent'
    BY ONLY <2>1, Zenon DEF Sent
  <2> QED BY ONLY <2>2, <2>3, <2>4, <2>5, Zenon DEF Inv
<1>5. CASE /\ budget # 0 /\ pc' = "pool" /\ budget' = budget - 1
           /\ met' = [met EXCEPT !.retried = TRUE]
  <2>1. /\ Requested' /\ Placed' /\ Sent'
        /\ met' \in [hops : 0..Budget, seeOther : BOOLEAN, crossed : BOOLEAN,
                     retried : BOOLEAN]
        /\ met'.hops = met.hops
    <3>1. pc \in {"send", "answer"}
      BY <1>1
    <3> QED BY <1>1, <1>2, <1>5, <3>1, RetriedHolds, Zenon
  <2>2. budget' \in 0..Budget /\ met'.hops + budget' <= Budget
    BY <1>2, <1>5, <2>1, TypesAre, Amounts
  <2>3. pc' \in Stages
    BY ONLY <1>5 DEF Stages
  <2>4. Types'
    BY ONLY <1>1, <1>2, <1>3, <2>1, <2>2, <2>3, Zenon DEF Types
  <2> QED BY ONLY <2>1, <2>4, Zenon DEF Inv
<1> QED BY <1>1, <1>4, <1>5

LEMMA ReturnHolds == ASSUME Inv, Return PROVE Inv'
<1>1. /\ pc = "answer" /\ pc' = "done" /\ setup' = setup /\ user' = user /\ at' = at
      /\ kw' = kw /\ args' = args /\ budget' = budget /\ met' = met
  BY Zenon DEF Return, Answered
<1>2. Types /\ Requested /\ Placed
  BY Zenon DEF Inv
<1>3. pc' \in Stages /\ pc' \notin {"manager", "pool", "send", "answer"} /\ InPool
  BY ONLY <1>1 DEF Stages, InPool
<1>4. Types'
  BY ONLY <1>1, <1>2, <1>3, Zenon DEF Types
<1>5. Requested'
  BY ONLY <1>1, <1>2, <1>3, Zenon DEF Requested, Managed, InPool
<1>6. Placed'
  <2>1. Readable' => Readable
    BY ONLY <1>1, Zenon DEF Readable, Replayable
  <2> QED BY ONLY <1>1, <1>2, <1>3, <2>1, Zenon DEF Placed, InPool
<1>7. Sent'
  BY ONLY <1>3, Zenon DEF Sent
<1> QED BY ONLY <1>4, <1>5, <1>6, <1>7, Zenon DEF Inv

LEMMA RetryStatusHolds == ASSUME Inv, RetryStatus PROVE Inv'
<1>1. /\ pc = "answer" /\ pc' = "pool" /\ setup' = setup /\ user' = user /\ at' = at
      /\ kw' = kw /\ args' = args /\ budget > 0 /\ budget' = budget - 1
      /\ met' = [met EXCEPT !.retried = TRUE]
  BY Zenon DEF RetryStatus, Answered
<1>2. Types /\ Requested /\ Placed
  BY Zenon DEF Inv
<1>3. /\ Requested' /\ Placed' /\ Sent'
      /\ met' \in [hops : 0..Budget, seeOther : BOOLEAN, crossed : BOOLEAN,
                   retried : BOOLEAN]
      /\ met'.hops = met.hops
  <2>1. pc \in {"send", "answer"}
    BY <1>1
  <2> QED BY <1>1, <1>2, <2>1, RetriedHolds, Zenon
<1>4. budget' \in 0..Budget /\ met'.hops + budget' <= Budget
  BY <1>1, <1>2, <1>3, TypesAre, Amounts
<1>5. pc' \in Stages
  BY ONLY <1>1 DEF Stages
<1>6. Types'
  BY ONLY <1>1, <1>2, <1>3, <1>4, <1>5, Zenon DEF Types
<1> QED BY ONLY <1>3, <1>6, Zenon DEF Inv

(* A redirect is one of the budget.                                         *)
LEMMA HopsAre ==
    ASSUME NEW h \in 0..Budget, NEW b \in 0..Budget, h + b <= Budget, b > 0
    PROVE  h + 1 \in 0..Budget /\ b - 1 \in 0..Budget /\ (h + 1) + (b - 1) <= Budget
           /\ h + 1 # 0
BY Amounts

LEMMA MetIs ==
    ASSUME Types, budget > 0, NEW status, NEW url, Met(status, url)
    PROVE  /\ met' \in [hops : 0..Budget, seeOther : BOOLEAN, crossed : BOOLEAN,
                        retried : BOOLEAN]
           /\ met'.hops = met.hops + 1
           /\ met'.seeOther <=> met.seeOther \/ status = 303
           /\ met'.crossed <=> met.crossed \/ url \notin {args.url, PoolFor(args.url)}
<1> DEFINE s == met.seeOther \/ status = 303
           c == met.crossed \/ url \notin {args.url, PoolFor(args.url)}
           h == met.hops + 1
<1>1. met' = [hops |-> h, seeOther |-> s, crossed |-> c, retried |-> met.retried]
  BY Zenon DEF Met
<1>2. s \in BOOLEAN /\ c \in BOOLEAN
  BY Zenon
<1>3. met.retried \in BOOLEAN /\ h \in 0..Budget
  BY TypesAre, HopsAre
<1> HIDE DEF s, c, h
<1>4. /\ met' \in [hops : 0..Budget, seeOther : BOOLEAN, crossed : BOOLEAN, retried : BOOLEAN]
      /\ met'.hops = h
  BY ONLY <1>1, <1>2, <1>3
<1>5. met'.seeOther = s /\ met'.crossed = c
  BY ONLY <1>1, Zenon
<1> QED BY ONLY <1>4, <1>5, Zenon DEF s, c, h

Asked(r) == r \in Requests \/ r \in Attempts

(* The headers of a request for which the method changes.                   *)
LEMMA HeadersChanged ==
    ASSUME NEW r, Asked(r), NEW status
    PROVE  MethodChanged(r, status).headers
           = IF status # 303 THEN r.headers ELSE PrepareForMethodChange(HTTPHeaderDict(r.headers))
<1>0. PICK f : f = PrepareForMethodChange(HTTPHeaderDict(r.headers))
  OBVIOUS
<1>1. CASE status # 303
  BY <1>1, Zenon DEF MethodChanged
<1>2. CASE status = 303
  <2>1. PICK v : v = [r EXCEPT !.method = "GET", !.body = "none", !.headers = f]
    OBVIOUS
  <2>2. MethodChanged(r, status) = v
    BY <1>0, <1>2, <2>1, Zenon DEF MethodChanged
  <2>3. v.headers = f
    BY ONLY <2>1, Asked(r) DEF Asked, Requests, Attempts
  <2> QED BY <1>0, <1>2, <2>2, <2>3, Zenon
<1> QED BY <1>1, <1>2

(* The request of a redirect.                                               *)
Redirected(r, status, url, g) == [MethodChanged(r, status) EXCEPT !.url = url, !.headers = g]
RedirectedIs(r, status, url, g, q) ==
    /\ r \in Requests => q \in Requests
    /\ r \in Attempts => q \in Attempts /\ q.pos = r.pos
    /\ q.url = url /\ q.headers = g
    /\ q.body = (IF status = 303 THEN "none" ELSE r.body)
    /\ q.method = (IF status = 303 THEN "GET" ELSE r.method)

LEMMA ChangedIs ==
    ASSUME NEW r, Asked(r), NEW status, NEW url \in Urls, NEW g \in Dictionary
    PROVE  RedirectedIs(r, status, url, g, Redirected(r, status, url, g))
<1> USE DEF Asked
<1>0. PICK q : q = Redirected(r, status, url, g)
  OBVIOUS
<1>1. CASE status # 303
  <2>1. MethodChanged(r, status) = r
    BY <1>1, Zenon DEF MethodChanged
  <2>2. q = [r EXCEPT !.url = url, !.headers = g]
    BY <1>0, <2>1, Zenon DEF Redirected
  <2>3. /\ q.url = url /\ q.headers = g /\ q.body = r.body /\ q.method = r.method
        /\ r \in Requests => q \in Requests
        /\ r \in Attempts => q \in Attempts /\ q.pos = r.pos
    BY ONLY <2>2, Asked(r), url \in Urls, g \in Dictionary DEF Requests, Attempts
  <2>5. /\ q.body = (IF status = 303 THEN "none" ELSE r.body)
        /\ q.method = (IF status = 303 THEN "GET" ELSE r.method)
    BY ONLY <1>1, <2>3, Zenon
  <2> QED BY ONLY <1>0, <2>3, <2>5, Zenon DEF RedirectedIs
<1>2. CASE status = 303
  <2>0. PICK f : f = PrepareForMethodChange(HTTPHeaderDict(r.headers))
    OBVIOUS
  <2>1. MethodChanged(r, status) = [r EXCEPT !.method = "GET", !.body = "none", !.headers = f]
    BY <1>2, <2>0, Zenon DEF MethodChanged
  <2>2. PICK v : v = [r EXCEPT !.method = "GET", !.body = "none", !.headers = f]
    OBVIOUS
  <2>3. q = [v EXCEPT !.url = url, !.headers = g]
    BY <1>0, <2>1, <2>2, Zenon DEF Redirected
  <2>4. /\ q.url = url /\ q.headers = g /\ q.body = "none" /\ q.method = "GET"
        /\ r \in Requests => q \in Requests
        /\ r \in Attempts => q \in Attempts /\ q.pos = r.pos
    BY ONLY <2>2, <2>3, Asked(r), url \in Urls, g \in Dictionary
       DEF Requests, Attempts, Methods
  <2>5. /\ q.body = (IF status = 303 THEN "none" ELSE r.body)
        /\ q.method = (IF status = 303 THEN "GET" ELSE r.method)
    BY ONLY <1>2, <2>4, Zenon
  <2> QED BY ONLY <1>0, <2>4, <2>5, Zenon DEF RedirectedIs
<1> QED BY <1>1, <1>2

(* What a request becomes when it follows a redirect.                       *)
FollowsOverBy(r, status, url, g, q) ==
    RedirectedIs(r, status, url, g, q) /\ FollowsBy(setup, user, met', q)

Onward(r, status, same) == Stripped(MethodChanged(r, status).headers, same)

LEMMA FollowsOver ==
    ASSUME NEW r, Asked(r), FollowsBy(setup, user, met, r),
           NEW status, NEW url \in Urls, NEW same, OverBy(setup, status, same, met, met')
    PROVE  FollowsOverBy(r, status, url, Onward(r, status, same),
                         Redirected(r, status, url, Onward(r, status, same)))
<1>0. PICK h, g, q : h = MethodChanged(r, status).headers /\ g = Stripped(h, same)
                     /\ q = Redirected(r, status, url, g)
  OBVIOUS
<1>1. CarriedBy(setup, user, met, r.headers)
  BY Zenon DEF FollowsBy
<1>3. g = Carrying(status, same, r.headers)
  <2>1. MethodChanged(r, status).headers
        = IF status # 303 THEN r.headers ELSE PrepareForMethodChange(HTTPHeaderDict(r.headers))
    BY ONLY Asked(r), HeadersChanged
  <2> QED BY ONLY <1>0, <2>1, Zenon DEF Carrying
<1>4. CarriedBy(setup, user, met', g)
  <2>1. CarriedBy(setup, user, met, r.headers) /\ OverBy(setup, status, same, met, met')
    BY <1>1, Zenon
  <2>2. CarriedBy(setup, user, met', Carrying(status, same, r.headers))
    BY ONLY <2>1, CarriedOver, Zenon
  <2> QED BY ONLY <1>3, <2>2, Zenon
<1>5. g \in Dictionary
  BY ONLY <1>4, CarriedIsDictionary, Zenon
<1>6. RedirectedIs(r, status, url, g, q)
  <2>1. Asked(r) /\ g \in Dictionary /\ url \in Urls
    BY <1>5, Zenon
  <2>2. RedirectedIs(r, status, url, g, Redirected(r, status, url, g))
    BY ONLY <2>1, ChangedIs, Zenon
  <2> QED BY ONLY <1>0, <2>2, Zenon
<1>7. FollowsBy(setup, user, met', q)
  <2>1. r.body = (IF met.seeOther THEN "none" ELSE user.body)
        /\ (met.seeOther => r.method = "GET")
    BY Zenon DEF FollowsBy
  <2>2. q.body = (IF met'.seeOther THEN "none" ELSE user.body)
        /\ (met'.seeOther => q.method = "GET")
    BY ONLY <1>6, <2>1, OverBy(setup, status, same, met, met'), Zenon DEF RedirectedIs, OverBy
  <2>3. CarriedBy(setup, user, met', q.headers)
    BY ONLY <1>4, <1>6, Zenon DEF RedirectedIs
  <2> QED BY ONLY <2>2, <2>3, Zenon DEF FollowsBy
<1> QED BY ONLY <1>0, <1>6, <1>7, Zenon DEF FollowsOverBy, Onward

(* Only bytes, or nothing, are whole after a redirect a manager follows, and *)
(* no iterator is after any.                                               *)
LEMMA PoolRedirectHolds ==
    ASSUME Inv, NEW status \in {303, 307}, NEW url \in Urls, PoolRedirect(status, url)
    PROVE  Inv'
<1> DEFINE same == IsSameHost(setup.pool, url)
           g == Onward(args, status, same)
<1>1. /\ pc = "answer" /\ pc' = "pool" /\ setup' = setup /\ user' = user /\ at' = at
      /\ kw' = kw /\ setup.via = "pool" /\ budget > 0 /\ budget' = budget - 1
      /\ Met(status, url)
  BY Zenon DEF PoolRedirect, Answered
<1>2. Types /\ Requested /\ Placed
  BY Zenon DEF Inv
<1>3. InPool /\ FollowsBy(setup, user, met, args) /\ ~Managed
      /\ (~met.crossed => args.url = setup.pool)
  <2>1. InPool /\ ~Managed
    BY <1>1 DEF InPool, Managed
  <2> QED BY <1>2, <2>1, Zenon DEF Requested
<1>4. args' = Redirected(args, status, url, g)
  BY Zenon DEF PoolRedirect, Redirected, Onward
<1>5. /\ met' \in [hops : 0..Budget, seeOther : BOOLEAN, crossed : BOOLEAN, retried : BOOLEAN]
      /\ met'.hops = met.hops + 1
      /\ met'.seeOther <=> met.seeOther \/ status = 303
      /\ met'.crossed <=> met.crossed \/ url \notin {args.url, PoolFor(args.url)}
  BY ONLY <1>1, <1>2, MetIs, Zenon
<1>6. PoolFor(args.url) = args.url
  <2>1. setup.via # "proxy"
    BY ONLY <1>1
  <2> QED BY ONLY <2>1, Zenon DEF PoolFor
<1>10. /\ budget' \in 0..Budget /\ met'.hops + budget' <= Budget /\ met'.hops # 0 /\ met'.hops > 0
  <2>1. met.hops \in 0..Budget /\ budget \in 0..Budget /\ met.hops + budget <= Budget
    BY ONLY <1>2, TypesAre, Zenon
  <2>2. budget > 0 /\ budget' = budget - 1 /\ met'.hops = met.hops + 1
    BY ONLY <1>1, <1>5, Zenon
  <2> QED BY ONLY <2>1, <2>2, HopsAre, Amounts
<1>7. OverBy(setup, status, same, met, met')
  <2>1. met'.crossed <=> met.crossed \/ ~same
    BY ONLY <1>3, <1>5, <1>6 DEF IsSameHost
  <2>2. /\ Gone(setup, met) \subseteq Gone(setup, met')
        /\ status = 303 => ContentSpecific \subseteq Gone(setup, met')
        /\ met'.crossed => Sensitive \subseteq Gone(setup, met')
    BY ONLY <1>5, <1>10, Zenon DEF Gone
  <2> QED BY ONLY <1>5, <2>1, <2>2, Zenon DEF OverBy, NoLess, Drops
<1>8. FollowsOverBy(args, status, url, g, args')
  <2>1. Asked(args) /\ OverBy(setup, status, same, met, met') /\ FollowsBy(setup, user, met, args)
        /\ url \in Urls
    BY <1>2, <1>3, <1>7, Zenon DEF Asked, Types
  <2>2. FollowsOverBy(args, status, url, g, Redirected(args, status, url, g))
    BY ONLY <2>1, FollowsOver, Zenon
  <2> QED BY ONLY <1>4, <2>2, Zenon
<1> HIDE DEF g, same
<1>9. /\ args' \in Attempts /\ args'.pos = args.pos /\ args'.url = url
      /\ FollowsBy(setup, user, met', args')
  BY ONLY <1>2, <1>8, Zenon DEF FollowsOverBy, RedirectedIs, Types
<1>11. pc' \in Stages /\ pc' \notin {"manager", "send", "answer"}
  BY ONLY <1>1 DEF Stages
<1>12. Types'
  <2>1. at' \in 0..Length
    BY ONLY <1>1, <1>2, Zenon DEF Types
  <2> QED BY ONLY <1>1, <1>2, <1>5, <1>9, <1>10, <1>11, <2>1, Zenon DEF Types
<1>13. Requested'
  <2>1. ~met'.crossed => url = setup.pool
    BY ONLY <1>3, <1>5, <1>6
  <2>2. ~Managed' /\ InPool'
    BY ONLY <1>1, <1>3, <1>11, Zenon DEF Managed, InPool
  <2> QED BY ONLY <1>1, <1>9, <2>1, <2>2, Zenon DEF Requested
<1>14. Placed'
  <2> SUFFICES ASSUME Readable'
               PROVE  /\ args'.pos # Unset /\ args'.pos \in {Unset, 0, FailedTell}
                      /\ user'.body # "iterator"
    BY <1>11, Zenon DEF Placed
  <2>1. user.body # "iterator"
    <3>1. user'.body \in Reads /\ Replayable'
      BY Zenon DEF Readable
    <3>2. user'.body # "iterator" \/ met'.hops = 0
      <4>1. "iterator" \notin {"none", "bytes"} /\ "iterator" \notin HasTell
        BY DEF HasTell
      <4> QED BY <3>1, <4>1, Zenon DEF Replayable
    <3> QED BY ONLY <1>1, <1>10, <3>2, Zenon
  <2>2. Readable
    <3>1. user.body \in Reads /\ ~met'.seeOther /\ Replayable'
      BY <1>1, Zenon DEF Readable
    <3>2. user.body \in HasTell
      BY ONLY <2>1, <3>1 DEF Reads, HasTell
    <3> QED BY ONLY <1>1, <1>5, <3>1, <3>2, Zenon DEF Readable, Replayable
  <2> QED BY ONLY <1>1, <1>2, <1>3, <1>9, <2>1, <2>2, Zenon DEF Placed
<1>15. Sent'
  BY ONLY <1>11, Zenon DEF Sent
<1> QED BY ONLY <1>12, <1>13, <1>14, <1>15, Zenon DEF Inv

LEMMA ManagerRedirectHolds ==
    ASSUME Inv, NEW status \in {303, 307}, NEW url \in Urls, ManagerRedirect(status, url)
    PROVE  Inv'
<1> DEFINE same == IsSameHost(PoolFor(kw.url), url)
           g == Onward(kw, status, same)
<1>1. /\ pc = "answer" /\ pc' = "manager" /\ setup' = setup /\ user' = user /\ at' = at
      /\ args' = args /\ setup.via # "pool" /\ budget > 0 /\ budget' = budget - 1
      /\ Met(status, url)
  BY Zenon DEF ManagerRedirect, Answered
<1>2. Types /\ Requested /\ Placed
  BY Zenon DEF Inv
<1>3. FollowsBy(setup, user, met, kw) /\ Managed /\ args.url = kw.url
  <2>1. InPool /\ Managed
    BY <1>1 DEF InPool, Managed
  <2> QED BY <1>2, <2>1, Zenon DEF Requested
<1>4. kw' = Redirected(kw, status, url, g)
  BY Zenon DEF ManagerRedirect, Redirected, Onward
<1>5. /\ met' \in [hops : 0..Budget, seeOther : BOOLEAN, crossed : BOOLEAN, retried : BOOLEAN]
      /\ met'.hops = met.hops + 1
      /\ met'.seeOther <=> met.seeOther \/ status = 303
      /\ met'.crossed <=> met.crossed \/ url \notin {args.url, PoolFor(args.url)}
  BY ONLY <1>1, <1>2, MetIs, Zenon
<1>10. /\ budget' \in 0..Budget /\ met'.hops + budget' <= Budget /\ met'.hops # 0 /\ met'.hops > 0
  <2>1. met.hops \in 0..Budget /\ budget \in 0..Budget /\ met.hops + budget <= Budget
    BY ONLY <1>2, TypesAre, Zenon
  <2>2. budget > 0 /\ budget' = budget - 1 /\ met'.hops = met.hops + 1
    BY ONLY <1>1, <1>5, Zenon
  <2> QED BY ONLY <2>1, <2>2, HopsAre, Amounts
<1>7. OverBy(setup, status, same, met, met')
  <2>1. met'.crossed => met.crossed \/ ~same
    BY ONLY <1>3, <1>5, Zenon DEF IsSameHost
  <2>2. /\ Gone(setup, met) \subseteq Gone(setup, met')
        /\ status = 303 => ContentSpecific \subseteq Gone(setup, met')
        /\ met'.crossed \/ setup.via = "proxy" => Sensitive \subseteq Gone(setup, met')
    BY ONLY <1>5, <1>10, Zenon DEF Gone
  <2>3. ~same => met'.crossed \/ setup.via = "proxy"
    BY ONLY <1>3, <1>5 DEF IsSameHost, PoolFor
  <2> QED BY ONLY <1>5, <2>1, <2>2, <2>3, Zenon DEF OverBy, NoLess, Drops
<1>8. FollowsOverBy(kw, status, url, g, kw')
  <2>1. Asked(kw) /\ OverBy(setup, status, same, met, met') /\ FollowsBy(setup, user, met, kw)
        /\ url \in Urls
    BY <1>2, <1>3, <1>7, Zenon DEF Asked, Types
  <2>2. FollowsOverBy(kw, status, url, g, Redirected(kw, status, url, g))
    BY ONLY <2>1, FollowsOver, Zenon
  <2> QED BY ONLY <1>4, <2>2, Zenon
<1> HIDE DEF g, same
<1>9. kw' \in Requests /\ FollowsBy(setup, user, met', kw')
  BY ONLY <1>2, <1>8, Zenon DEF FollowsOverBy, RedirectedIs, Types
<1>11. pc' \in Stages /\ pc' \notin {"pool", "send", "answer"}
  BY ONLY <1>1 DEF Stages
<1>12. Types'
  <2>1. at' \in 0..Length
    BY ONLY <1>1, <1>2, Zenon DEF Types
  <2> QED BY ONLY <1>1, <1>2, <1>5, <1>9, <1>10, <1>11, <2>1, Zenon DEF Types
<1>13. Requested'
  <2>2. Managed' /\ ~InPool'
    BY ONLY <1>1, <1>3, Zenon DEF Managed, InPool
  <2> QED BY ONLY <1>1, <1>9, <2>2, Zenon DEF Requested
<1>14. Placed'
  <2>1. ~Readable'
    <3>1. setup'.via # "pool" /\ met'.hops # 0
      BY ONLY <1>1, <1>10, Zenon
    <3>2. user'.body \in Reads => user'.body \notin {"none", "bytes"}
      BY DEF Reads
    <3> QED BY ONLY <3>1, <3>2, Zenon DEF Readable, Replayable
  <2> QED BY ONLY <2>1, Zenon DEF Placed
<1>15. Sent'
  BY ONLY <1>11, Zenon DEF Sent
<1> QED BY ONLY <1>12, <1>13, <1>14, <1>15, Zenon DEF Inv

LEMMA NextHolds == Inv /\ [Next]_vars => Inv'
<1> SUFFICES ASSUME Inv, [Next]_vars PROVE Inv'
  OBVIOUS
<1>1. CASE Manage
  BY <1>1, ManageHolds, Zenon
<1>2. CASE PoolUrlopen
  BY <1>2, PoolUrlopenHolds, Zenon
<1>3. CASE Send
  BY <1>3, SendHolds, Zenon
<1>4. CASE SendFails
  BY <1>4, SendFailsHolds, Zenon
<1>5. CASE Return
  BY <1>5, ReturnHolds, Zenon
<1>6. CASE RetryStatus
  BY <1>6, RetryStatusHolds, Zenon
<1>7. ASSUME NEW status \in {303, 307}, NEW url \in Urls, PoolRedirect(status, url)
      PROVE  Inv'
  BY <1>7, PoolRedirectHolds
<1>8. ASSUME NEW status \in {303, 307}, NEW url \in Urls, ManagerRedirect(status, url)
      PROVE  Inv'
  BY <1>8, ManagerRedirectHolds
<1>9. CASE UNCHANGED vars
  <2>1. /\ setup' = setup /\ user' = user /\ pc' = pc /\ kw' = kw /\ args' = args /\ at' = at
        /\ budget' = budget /\ sent' = sent /\ met' = met
    BY <1>9 DEF vars
  <2>2. Types' /\ Requested'
    BY <2>1, Zenon DEF Inv, Types, Requested, Managed, InPool
  <2>3. Placed'
    BY <2>1, Zenon DEF Inv, Placed, Readable, Replayable, InPool
  <2>4. Sent'
    BY <2>1, Zenon DEF Inv, Sent, Replayable, Whole
  <2> QED BY <2>2, <2>3, <2>4, Zenon DEF Inv
<1> QED BY <1>1, <1>2, <1>3, <1>4, <1>5, <1>6, <1>7, <1>8, <1>9, Zenon DEF Next

LEMMA Invariance == Spec => []Inv
BY InitHolds, NextHolds, PTL DEF Spec

\* Nothing of the request, its position and its budget takes a value that another
\* part of the code does not expect, whatever the callers' headers and the URLs
\* of the redirects.
THEOREM TypeCorrect == Spec => []TypeOK
<1>1. Inv => TypeOK
  <2> SUFFICES ASSUME Inv PROVE TypeOK
    OBVIOUS
  <2>1. Types
    BY Zenon DEF Inv
  <2>2. kw.headers.folds \in BOOLEAN /\ args.headers.folds \in BOOLEAN
    BY <2>1, TypesAre, ItemsAre, Zenon
  <2>3. met \in [hops : 0..Budget, seeOther : BOOLEAN, crossed : BOOLEAN, retried : BOOLEAN]
    BY <2>1, Zenon DEF Types
  <2>4. pc \in {"manager", "pool", "send", "answer", "done", "raised"}
    BY <2>1, Zenon DEF Types, Stages
  <2> QED BY <2>1, <2>2, <2>3, <2>4, TypesAre, Zenon DEF TypeOK
<1> QED BY <1>1, Invariance, PTL

\* A request that is sent again, in a retry or a redirect, carries its whole body,
\* or none after a 303: rewind_body brings a file back to where it was, and what
\* cannot be brought back is not sent again.
THEOREM BodiesAreWhole == Spec => []BodyWhole
<1>1. Inv => BodyWhole
  BY Zenon DEF Inv, Sent, BodyWhole, Fresh, Whole
<1> QED BY <1>1, Invariance, PTL

(* What the caller's request promises of its body stays as it was.          *)
Announces == "content-length" \notin Names(Lines(user.headers)) \/ user.body # "none"

LEMMA AnnouncesHolds == Spec => []Announces
<1>1. Init => Announces
  BY Zenon DEF Init, Announces
<1>2. Announces /\ [Next]_vars => Announces'
  <2> SUFFICES ASSUME Announces, [Next]_vars PROVE Announces'
    OBVIOUS
  <2>1. user' = user
    BY Zenon DEF Next, vars, Manage, PoolUrlopen, Send, SendFails, Return, RetryStatus,
                 PoolRedirect, ManagerRedirect, Answered
  <2> QED BY <2>1, Zenon DEF Announces
<1> QED BY <1>1, <1>2, PTL DEF Spec

(***************************************************************************)
(* How a body is framed.                                                   *)
(***************************************************************************)
Has(h, name) == name \in Names(Lines(h))

LEMMA FramingIs ==
    ASSUME NEW method, NEW h, NEW body, NEW chunked \in BOOLEAN
    PROVE  LET f == Framing(method, h, body, chunked)
           IN  \/ f.coded /\ f.coded = f.te
               \/ /\ ~f.coded /\ f.length = Length /\ Has(h, "content-length")
                  /\ ~Has(h, "transfer-encoding") => f.coded = f.te
               \/ /\ ~f.coded /\ f.coded = f.te /\ f.length = ContentLength(method, body)
                  /\ f.length = Unset => body = "none"
<1>1. CASE chunked
  BY <1>1 DEF Framing
<1>2. CASE ~chunked /\ Has(h, "content-length")
  <2> DEFINE te == "transfer-encoding" \in Names(Lines(h))
             f == Framing(method, h, body, chunked)
  <2>2. f = [coded |-> FALSE, te |-> te, length |-> Length]
    BY <1>2, Zenon DEF Framing, Has
  <2>3. te \in BOOLEAN
    OBVIOUS
  <2>4. te => Has(h, "transfer-encoding")
    BY Zenon DEF Has
  <2> HIDE DEF te, f
  <2>5. f.coded = FALSE /\ f.te = te /\ f.length = Length
    BY <2>2, Zenon
  <2>6. ~te => te = FALSE
    BY <2>3
  <2>7. ~te => f.coded = f.te
    BY <2>5, <2>6
  <2>8. ~f.coded
    BY <2>5
  <2> QED BY <1>2, <2>4, <2>5, <2>7, <2>8, Zenon DEF f
<1>3. CASE ~chunked /\ ~Has(h, "content-length") /\ Has(h, "transfer-encoding")
  BY <1>3 DEF Framing, Has
<1>4. CASE ~chunked /\ ~Has(h, "content-length") /\ ~Has(h, "transfer-encoding")
  BY <1>4 DEF Framing, Has
<1> QED BY <1>1, <1>2, <1>3, <1>4

(* The headers of a request that is framed by a header of its own.          *)
LEMMA FramedByCaller ==
    ASSUME Inv, pc = "answer"
    PROVE  /\ Has(args.headers, "content-length") =>
                Has(user.headers, "content-length") /\ ~met.seeOther
           /\ ~(Has(args.headers, "content-length") /\ Has(args.headers, "transfer-encoding"))
<1>1. Types /\ CarriedBy(setup, user, met, args.headers)
  <2>1. InPool
    BY DEF InPool
  <2> QED BY <2>1, Zenon DEF Inv, Requested, FollowsBy
<1>2. PICK A, N, U : A = AddedBy(setup) /\ N = Named(args.headers) /\ U = Named(user.headers)
  OBVIOUS
<1>3. setup \in Setups /\ user.headers \in UserHeaders
  BY <1>1, TypesAre, Zenon
<1>4. Names(Lines(args.headers)) = N /\ Names(Lines(user.headers)) = U
  <2>1. args.headers \in Dictionary /\ user.headers \in Dictionary
    BY <1>1, <1>3, TypesAre, GivenAre, DictIs, Zenon
  <2> QED BY ONLY <1>2, <2>1, NamesAre, Zenon
<1>5. N \subseteq U \cup A /\ (met.seeOther => N \cap ContentSpecific \subseteq A)
  BY ONLY <1>1, <1>2, Zenon DEF CarriedBy, Clean
<1>6. "content-length" \notin A /\ "transfer-encoding" \notin A
  <2>1. Names(Lines(setup.proxyHeaders)) \cap {"content-length", "transfer-encoding"} = {}
    BY <1>3, FramingAssumption, Zenon
  <2> QED BY ONLY <1>2, <2>1 DEF AddedBy
<1>7. ~({"content-length", "transfer-encoding"} \subseteq U)
  BY ONLY <1>3, <1>4, FramingAssumption, Zenon
<1>8. "content-length" \in ContentSpecific
  BY DEF ContentSpecific
<1>9. /\ "content-length" \in N => "content-length" \in U /\ ~met.seeOther
      /\ ~("content-length" \in N /\ "transfer-encoding" \in N)
  BY ONLY <1>5, <1>6, <1>7, <1>8
<1> QED BY ONLY <1>4, <1>9, Zenon DEF Has

\* The server finds the end of a body exactly where the client left it: the chunk
\* coding is used if and only if it is announced, and otherwise the length that is
\* announced is the length sent, whatever has become of the body and the headers on
\* the way.
THEOREM BodiesAreFramed == Spec => []BodyFramed
<1>1. Inv /\ Announces => BodyFramed
  <2> SUFFICES ASSUME Inv, Announces, pc = "answer", Replayable
               PROVE  /\ sent.framing.coded = sent.framing.te
                      /\ ~sent.framing.coded =>
                           sent.units = IF sent.framing.length = Unset THEN 0
                                        ELSE sent.framing.length
    BY Zenon DEF BodyFramed, Fresh
  <2>1. /\ sent.framing = Framing(args.method, args.headers, args.body, user.chunked)
        /\ sent.units = Whole
    BY Zenon DEF Inv, Sent
  <2>2. args.body = (IF met.seeOther THEN "none" ELSE user.body) /\ user.chunked \in BOOLEAN
    <3>1. InPool /\ Types
      BY DEF InPool, Inv
    <3> QED BY <3>1, TypesAre, Zenon DEF Inv, Requested, FollowsBy
  <2>3. PICK f, b, n, w : f = sent.framing /\ b = args.body /\ w = Whole
                          /\ n = ContentLength(args.method, args.body)
    OBVIOUS
  <2>4. \/ f.coded /\ f.coded = f.te
        \/ /\ ~f.coded /\ f.length = Length /\ Has(args.headers, "content-length")
           /\ ~Has(args.headers, "transfer-encoding") => f.coded = f.te
        \/ /\ ~f.coded /\ f.coded = f.te /\ f.length = n
           /\ f.length = Unset => b = "none"
    BY ONLY <2>1, <2>2, <2>3, FramingIs
  <2>5. Length # Unset
    BY Amounts
  <2>6. b = "none" => w = 0
    BY ONLY <2>2, <2>3, Zenon DEF Whole
  <2>7. b # "none" => w = Length
    BY ONLY <2>2, <2>3, Zenon DEF Whole
  <2>8. CASE f.coded /\ f.coded = f.te
    BY ONLY <2>3, <2>8, Zenon
  <2>9. CASE ~f.coded /\ f.length = Length /\ Has(args.headers, "content-length")
             /\ (~Has(args.headers, "transfer-encoding") => f.coded = f.te)
    <3>1. Has(user.headers, "content-length") /\ ~met.seeOther
          /\ ~Has(args.headers, "transfer-encoding")
      BY <2>9, FramedByCaller, Zenon
    <3>2. user.body # "none"
      BY <3>1, Zenon DEF Announces, Has
    <3>3. w = Length
      BY ONLY <2>2, <2>3, <2>7, <3>1, <3>2, Zenon
    <3> QED BY ONLY <2>1, <2>3, <2>5, <2>9, <3>1, <3>3, Zenon
  <2>10. CASE ~f.coded /\ f.coded = f.te /\ f.length = n /\ (f.length = Unset => b = "none")
    <3>1. CASE b = "none"
      <4>1. n \in {Unset, 0}
        BY ONLY <2>3, <3>1, Zenon DEF ContentLength
      <4> QED BY ONLY <2>1, <2>3, <2>6, <2>10, <3>1, <4>1, Zenon
    <3>2. CASE b # "none"
      <4>1. n = Length
        BY ONLY <2>3, <2>10, <3>2, Zenon DEF ContentLength
      <4> QED BY ONLY <2>1, <2>3, <2>5, <2>7, <2>10, <3>2, <4>1, Zenon
    <3> QED BY <3>1, <3>2
  <2> QED BY <2>4, <2>8, <2>9, <2>10
<1> QED BY <1>1, Invariance, AnnouncesHolds, PTL

\* What a redirect takes away does not come back: after a 303 the method is GET and
\* no header speaks of a body, and beyond a redirect to another host none of
\* remove_headers_on_redirect is sent, however many redirects and retries follow,
\* unless urllib3 adds it itself for a proxy.
THEOREM HeadersAreDropped == Spec => []HeadersDropped
<1>1. Inv => HeadersDropped
  <2> SUFFICES ASSUME Inv, pc = "answer"
               PROVE  /\ met.seeOther =>
                           /\ sent.method = "GET"
                           /\ Names(sent.headers) \cap ContentSpecific \subseteq Added
                      /\ met.crossed => Names(sent.headers) \cap Sensitive \subseteq Added
    BY Zenon DEF HeadersDropped, Fresh
  <2>1. /\ CarriedBy(setup, user, met, args.headers)
        /\ met.seeOther => args.method = "GET"
        /\ sent.method = args.method /\ sent.headers = Lines(args.headers)
    <3>1. InPool
      BY DEF InPool
    <3> QED BY <3>1, Zenon DEF Inv, Requested, FollowsBy, Sent
  <2>2. Names(sent.headers) = Named(args.headers)
    BY <2>1, CarriedIsDictionary, NamesAre, Zenon
  <2> QED BY ONLY <2>1, <2>2, Zenon DEF CarriedBy, Clean, Added, AddedBy
<1> QED BY <1>1, Invariance, PTL

\* Every header of the caller that no redirect may have taken away reaches every
\* server as it was written: with all its values, in order, on however many lines,
\* through all the dictionaries it is copied, updated and stripped in.
THEOREM HeadersAreKept == Spec => []HeadersKept
<1>1. Inv => HeadersKept
  <2> SUFFICES ASSUME Inv, pc = "answer",
                      NEW name \in Names(Lines(user.headers)) \ (Dropped \cup Added)
               PROVE  Told(sent.headers, name) = Told(Lines(user.headers), name)
    BY Zenon DEF HeadersKept, Fresh
  <2>1. CarriedBy(setup, user, met, args.headers) /\ sent.headers = Lines(args.headers)
    <3>1. InPool
      BY DEF InPool
    <3> QED BY <3>1, Zenon DEF Inv, Requested, FollowsBy, Sent
  <2>2. name \in Others(setup, user, met)
    BY Zenon DEF Others, Gone, Dropped, Added, AddedBy
  <2> QED BY ONLY <2>1, <2>2, Zenon DEF CarriedBy, Kept
<1> QED BY <1>1, Invariance, PTL
================================================================================
