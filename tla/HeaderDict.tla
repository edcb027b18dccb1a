------------------------------ MODULE HeaderDict ------------------------------
(***************************************************************************)
(* HTTPHeaderDict (_collections.py), and the plain dict that takes its     *)
(* place in some calls.                                                    *)
(*                                                                         *)
(* A key is a name and the case it is written in.  A value is the sequence *)
(* of the values that ", " has joined in it.  A dictionary remembers       *)
(* whether it folds the case of its keys, and its entries in the order in  *)
(* which they were inserted, each with its values.                         *)
(***************************************************************************)
EXTENDS Naturals, Sequences, SequencesExt

Key(name, case) == [name |-> name, case |-> case]
Entry(key, vals) == [key |-> key, vals |-> vals]
Dict(folds) == [folds |-> folds, items |-> <<>>]

Same(d, k, l) == k.name = l.name /\ (d.folds \/ k = l)

(* A dictionary: a key comes once, with a value at least.                  *)
Keys == [name : STRING, case : Nat]
Entries == [key : Keys, vals : Seq(Seq(STRING)) \ {<<>>}]
IsDict(d) ==
  /\ d \in [folds : BOOLEAN, items : Seq(Entries)]
  /\ \A i, j \in DOMAIN d.items : Same(d, d.items[i].key, d.items[j].key) => i = j

At(d, k) == SelectInSeq(d.items, LAMBDA e : Same(d, e.key, k))
HasKey(d, k) == At(d, k) # 0

Join(vals) == FlattenSeq(vals)

GetList(d, k) == IF HasKey(d, k) THEN d.items[At(d, k)].vals ELSE <<>>

(* __setitem__: the place of the entry stays, its key and values do not.   *)
SetItem(d, k, val) ==
  IF HasKey(d, k) THEN [d EXCEPT !.items[At(d, k)] = Entry(k, <<val>>)]
  ELSE [d EXCEPT !.items = Append(@, Entry(k, <<val>>))]

SetDefault(d, k, val) == IF HasKey(d, k) THEN d ELSE SetItem(d, k, val)

Discard(d, k) ==
  [d EXCEPT !.items = SelectSeq(@, LAMBDA e : ~Same(d, e.key, k))]

(* add: the key keeps the case it was first seen in.                       *)
Add(d, k, val, combine) ==
  IF ~HasKey(d, k) THEN SetItem(d, k, val)
  ELSE LET Combined(vals) == [vals EXCEPT ![Len(vals)] = @ \o val]
       IN  [d EXCEPT !.items[At(d, k)].vals =
              IF combine THEN Combined(@) ELSE Append(@, val)]

(* iteritems: one pair of key and value for every line.                    *)
Lines(d) ==
  FlattenSeq([i \in DOMAIN d.items |->
    [j \in DOMAIN d.items[i].vals |-> <<d.items[i].key, d.items[i].vals[j]>>]])

Extend(d, lines) == FoldLeft(LAMBDA e, l : Add(e, l[1], l[2], FALSE), d, lines)

(* The constructor given a dictionary: _copy_from for one of its own.      *)
HTTPHeaderDict(other) ==
  IF other.folds THEN other ELSE Extend(Dict(TRUE), Lines(other))

(* Mutant of Update: of several lines of one key the last one is kept.     *)
UpdateLast(d, other) ==
  FoldLeft(LAMBDA e, i : SetItem(e, i.key, Last(i.vals)), d, other.items)

(* update, of either kind of dictionary: the lines of one key are joined.  *)
Update(d, other) ==
  FoldLeft(LAMBDA e, i : SetItem(e, i.key, Join(i.vals)), d, other.items)

ContentSpecific == {"content-encoding", "content-language", "content-location",
                    "content-type", "content-length", "digest", "last-modified"}

(* All entries but those of some names, in whatever case.                  *)
Without(d, names) ==
  [d EXCEPT !.items =
     FoldLeft(LAMBDA kept, e : IF e.key.name \in names THEN kept ELSE Append(kept, e), <<>>, @)]

(* Mutant of PrepareForMethodChange: the length is not seen as a header of *)
(* the content.                                                            *)
PrepareForMethodChangeKeeps(d) == Without(d, ContentSpecific \ {"content-length"})

PrepareForMethodChange(d) == Without(d, ContentSpecific)

(* What the peer is told under a name, in whatever case.                   *)
Told(lines, name) ==
  FoldLeft(LAMBDA told, l : IF l[1].name = name THEN told \o l[2] ELSE told, <<>>, lines)
Names(lines) == {lines[i][1].name : i \in DOMAIN lines}
================================================================================
