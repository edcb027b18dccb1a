---------------------------- MODULE BoundedSlots ----------------------------
(***************************************************************************)
(* What a blocking HTTPConnectionPool promises about its slots, with the   *)
(* queue, the connections and the requests abstracted away: Size slots,    *)
(* each free or held by one thread.  A slot is held by one thread at a     *)
(* time, comes back free, and disappears only when the pool is closed, or, *)
(* if Lossy, with a response that died before it was released.             *)
(***************************************************************************)
EXTENDS Naturals, FiniteSets

CONSTANTS Threads, Size, Lossy

VARIABLES free, holders, closed

svars == <<free, holders, closed>>

SlotsInit == free = Size /\ holders = {} /\ closed = FALSE

Take(t) ==
    /\ t \notin holders /\ free > 0
    /\ free' = free - 1
    /\ holders' = holders \cup {t}
    /\ UNCHANGED closed

Give(t) ==
    /\ t \in holders
    /\ free' = free + 1
    /\ holders' = holders \ {t}
    /\ UNCHANGED closed

\* A slot that its holder does not give back
Lose(t) ==
    /\ t \in holders /\ (closed \/ Lossy)
    /\ holders' = holders \ {t}
    /\ UNCHANGED <<free, closed>>

\* Closing, and what it takes away of the free slots
Shut ==
    /\ closed' = TRUE
    /\ free' \in 0..free
    /\ UNCHANGED holders

SlotsNext == (\E t \in Threads : Take(t) \/ Give(t) \/ Lose(t)) \/ Shut

SlotsSpec == SlotsInit /\ [][SlotsNext]_svars
=============================================================================
