------------------------------- MODULE MCRetry -------------------------------
(* Instances of Retry for TLC.                                             *)
EXTENDS Retry, TLC

\* Some counters set, the others None
Unlimited == [k \in Kinds |-> None]
Some(f) == [k \in Kinds |-> IF k \in DOMAIN f THEN f[k] ELSE None]

\* A total alone, with limits of its own causes, disabled, or none at all
SomeStarts ==
    {Some([total |-> n]) : n \in {-1, 0, 1, 2, Disabled}}
    \cup {Some([total |-> 2] @@ (k :> n)) :
             k \in Kinds \ {"total"}, n \in {0, 1, 3, Disabled}}
    \cup {Some([total |-> None] @@ (k :> n)) :
             k \in Kinds \ {"total"}, n \in {0, 2, Disabled}}
    \cup {[k \in Kinds |-> CASE k = "total" -> None
                          [] k \in {"redirect", "read"} -> 1
                          [] OTHER -> 0]}
    \cup {Unlimited}

\* The budget of Retry(total=3)
DefaultStarts == {Some([total |-> 3])}
==============================================================================
