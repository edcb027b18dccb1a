----------------------------- MODULE PoolManager -----------------------------
(***************************************************************************)
(* urllib3.PoolManager: a RecentlyUsedContainer of connection pools, one   *)
(* per key (scheme, host, port, ...), shared by threads.  An evicted or    *)
(* cleared pool lives on while a thread uses it: the container has no       *)
(* dispose_func, and only the garbage collector closes a pool.              *)
(*                                                                         *)
(* A pool is abstracted to its idle connections and the threads that use    *)
(* one (ConnectionPool has the detail); it blocks.  What a request asks of  *)
(* its pool is a context: scheme, host (in some spelling), port, and what   *)
(* overrides the manager's options.                                         *)
(***************************************************************************)
EXTENDS Naturals, FiniteSets, SequencesExt

CONSTANTS
    Threads,     \* threads that make requests through the manager
    Contexts,    \* what requests ask for: [scheme, host, spelling, port, override]
    Options,     \* the names of the options of a pool
    SslKeywords, \* those that an http pool does not take
    Base,        \* connection_pool_kw: the manager's options
    Default,     \* what an option is for a pool that is not given it
    Pools,       \* identities of pool objects, reused after death
    NoPool,
    num_pools,   \* num_pools
    MaxSize,     \* maxsize of every pool, which has block=True
    MaxRequests, \* bound: requests of one thread, redirects included
    MayClear     \* whether somebody calls clear()

None == "None"
Absent == "absent"
DefaultPort == 0            \* no port in the URL

\* An option may be absent, None or a value.  Which of the first two it is makes
\* no difference to a pool, but for the size of blocks, which None leaves unset.
ASSUME OptionsAssumption ==
    /\ "blocksize" \in Options /\ SslKeywords \subseteq Options \ {"blocksize"}
    /\ DOMAIN Base = Options /\ DOMAIN Default = Options
    /\ \A o \in Options \ {"blocksize"} : Default[o] = None
    /\ Default["blocksize"] \notin {None, Absent}
    /\ \A c \in Contexts : DOMAIN c.override = Options
ASSUME SizeAssumption ==
    /\ num_pools \in Nat /\ MaxSize \in Nat \ {0} /\ MaxRequests \in Nat
    /\ IsFiniteSet(Threads)
ASSUME ClearAssumption  == MayClear \in BOOLEAN

VARIABLES
    container, \* the OrderedDict: [key, pool] records, least recently used first
    made,      \* made[p]: the arguments of pool p, or NoPool if it does not exist
    idle,      \* idle[p]: open connections that wait in pool p
    pc,        \* pc[t]: "idle", "lookup", "have" a pool, or "using" a connection
    mine,      \* mine[t]: the pool of t's innermost urlopen
    frames,    \* frames[t]: the pools that t's nested calls of urlopen refer to
    want,      \* want[t]: the context of t's request
    requests,  \* requests[t]: requests and redirects so far
    recent     \* history: the keys looked up since clear(), last use last

vars == <<container, made, idle, pc, mine, frames, want, requests, recent>>

-----------------------------------------------------------------------------
\* _merge_pool_kwargs: an override of None takes the manager's option away.
MergePoolKwargs(override) ==
    [o \in Options |-> CASE override[o] = Absent -> Base[o]
                         [] override[o] = None   -> Absent
                         [] OTHER                -> override[o]]

\* connection_from_host: the port of the scheme, if the URL has none.
Port(c) == IF c.port # DefaultPort THEN c.port ELSE IF c.scheme = "https" THEN 443 ELSE 80

\* Mutant of Key: the options are not part of it.
KeyOfHost(c) == [scheme |-> c.scheme, host |-> c.host, port |-> Port(c)]

\* _default_key_normalizer: the spelling of the host is forgotten, and which
\* option is missing, which None.
Key(c) ==
    LET kw == MergePoolKwargs(c.override)
    IN [scheme |-> c.scheme, host |-> c.host, port |-> Port(c),
        kw |-> [o \in Options |-> IF kw[o] \notin {Absent, None} THEN kw[o]
                                  ELSE IF o = "blocksize" THEN Default[o] ELSE None]]

\* _new_pool, and the pool's constructor, which normalizes the host too.
NewPool(c) ==
    LET kw == MergePoolKwargs(c.override)
    IN [scheme |-> c.scheme, host |-> c.host, port |-> Port(c),
        kw |-> [o \in Options |->
                  CASE o = "blocksize" /\ kw[o] = None        -> Default[o]
                    [] c.scheme = "http" /\ o \in SslKeywords -> Absent
                    [] OTHER                                  -> kw[o]]]

\* What a pool with these arguments is like.
Effective(args) ==
    [args EXCEPT !.kw = [o \in Options |-> IF args.kw[o] = Absent THEN Default[o]
                                           ELSE args.kw[o]]]

Keys == {Key(c) : c \in Contexts}

ASSUME NoPoolAssumption == NoPool \notin Pools \cup Contexts \cup {NewPool(c) : c \in Contexts}

Init ==
    /\ container = <<>>
    /\ made = [p \in Pools |-> NoPool]
    /\ idle = [p \in Pools |-> 0]
    /\ pc = [t \in Threads |-> "idle"]
    /\ mine = [t \in Threads |-> NoPool]
    /\ frames = [t \in Threads |-> {}]
    /\ want = [t \in Threads |-> NoPool]
    /\ requests = [t \in Threads |-> 0]
    /\ recent = <<>>

Stored == {e.pool : e \in Range(container)}
Users(p) == {t \in Threads : mine[t] = p /\ pc[t] = "using"}
Referenced(p) == p \in Stored \/ \E t \in Threads : p \in frames[t]

\* Mutant of Touch: __getitem__ leaves the item where it is.
TouchNot(i) == container

\* RecentlyUsedContainer.__getitem__: the entry is popped and put at the end of
\* the line.
Touch(i) == Append(RemoveAt(container, i), container[i])

\* The history of a lookup: the key is the most recent one.
Recently(k) ==
    LET older == IF k \in Range(recent)
                 THEN RemoveAt(recent, CHOOSE i \in DOMAIN recent : recent[i] = k)
                 ELSE recent
    IN Append(older, k)

\* Mutant of Insert: the container may grow by one too many.
InsertLate(k, p) ==
    LET c == Append(container, [key |-> k, pool |-> p])
    IN IF Len(c) > num_pools + 1 THEN Tail(c) ELSE c

\* RecentlyUsedContainer.__setitem__ for a new key: the entry is added, then
\* the least recently used one evicted if there are too many.
Insert(k, p) ==
    LET c == Append(container, [key |-> k, pool |-> p])
    IN IF Len(c) > num_pools THEN Tail(c) ELSE c

-----------------------------------------------------------------------------
Request(t) ==
    /\ pc[t] = "idle" /\ requests[t] < MaxRequests
    /\ requests' = [requests EXCEPT ![t] = @ + 1]
    /\ want' \in {[want EXCEPT ![t] = c] : c \in Contexts}
    /\ pc' = [pc EXCEPT ![t] = "lookup"]
    /\ UNCHANGED <<container, made, idle, mine, frames, recent>>

\* connection_from_pool_key, all of it under the container's RLock: the pool of
\* the key, or a new one.
Lookup(t) ==
    LET key == Key(want[t]) IN
    /\ pc[t] = "lookup"
    /\ \/ \E i \in DOMAIN container :
             /\ container[i].key = key
             /\ mine' = [mine EXCEPT ![t] = container[i].pool]
             /\ frames' = [frames EXCEPT ![t] = @ \cup {container[i].pool}]
             /\ container' = Touch(i)
             /\ UNCHANGED made
       \/ /\ \A e \in Range(container) : e.key # key
          /\ \E p \in Pools :
                /\ made[p] = NoPool
                /\ mine' = [mine EXCEPT ![t] = p]
                /\ frames' = [frames EXCEPT ![t] = @ \cup {p}]
                /\ made' = [made EXCEPT ![p] = NewPool(want[t])]
                /\ container' = Insert(key, p)
    /\ recent' = Recently(key)
    /\ pc' = [pc EXCEPT ![t] = "have"]
    /\ UNCHANGED <<idle, want, requests>>

\* The pool's _get_conn: an idle connection, a new one, or wait for a slot.
Checkout(t) ==
    LET p == mine[t] IN
    /\ pc[t] = "have"
    /\ Cardinality(Users(p)) < MaxSize
    /\ idle' = [idle EXCEPT ![p] = IF @ > 0 THEN @ - 1 ELSE 0]
    /\ pc' = [pc EXCEPT ![t] = "using"]
    /\ UNCHANGED <<container, made, mine, frames, want, requests, recent>>

\* Mutant of Finish: a redirect is followed through the pool at hand.
FinishSamePool(t) ==
    /\ pc[t] = "using"
    /\ \E kept \in {0, 1} : idle' = [idle EXCEPT ![mine[t]] = @ + kept]
    /\ \/ /\ pc' = [pc EXCEPT ![t] = "have"]
          /\ UNCHANGED <<mine, frames>>
          /\ want' \in {[want EXCEPT ![t] = c] : c \in Contexts}
       \/ /\ pc' = [pc EXCEPT ![t] = "idle"]
          /\ mine' = [mine EXCEPT ![t] = NoPool]
          /\ frames' = [frames EXCEPT ![t] = {}]
          /\ want' = [want EXCEPT ![t] = NoPool]
    /\ UNCHANGED <<container, made, requests, recent>>

\* The request is over: its connection goes back, kept or closed.  The pool
\* then retries, or the manager follows a redirect to any host, or the caller
\* has its response and the references to pools are dropped.
Finish(t) ==
    /\ pc[t] = "using"
    /\ \E kept \in {0, 1} : idle' = [idle EXCEPT ![mine[t]] = @ + kept]
    /\ \/ /\ pc' = [pc EXCEPT ![t] = "have"]
          /\ UNCHANGED <<mine, frames, want, requests>>
       \/ /\ requests[t] < MaxRequests
          /\ requests' = [requests EXCEPT ![t] = @ + 1]
          /\ pc' = [pc EXCEPT ![t] = "lookup"]
          /\ mine' = [mine EXCEPT ![t] = NoPool]
          /\ UNCHANGED frames
          /\ want' \in {[want EXCEPT ![t] = c] : c \in Contexts}
       \/ /\ pc' = [pc EXCEPT ![t] = "idle"]
          /\ mine' = [mine EXCEPT ![t] = NoPool]
          /\ frames' = [frames EXCEPT ![t] = {}]
          /\ want' = [want EXCEPT ![t] = NoPool]
          /\ UNCHANGED requests
    /\ UNCHANGED <<container, made, recent>>

\* PoolManager.clear(): the mapping is wiped.
Clear ==
    /\ MayClear /\ container # <<>>
    /\ container' = <<>>
    /\ recent' = <<>>
    /\ UNCHANGED <<made, idle, pc, mine, frames, want, requests>>

\* Nothing refers to the pool: its finalizer closes the idle connections.
Collect(p) ==
    /\ ~Referenced(p) /\ made[p] # NoPool
    /\ idle' = [idle EXCEPT ![p] = 0]
    /\ made' = [made EXCEPT ![p] = NoPool]
    /\ UNCHANGED <<container, pc, mine, frames, want, requests, recent>>

Next ==
    \/ \E t \in Threads : Request(t) \/ Lookup(t) \/ Checkout(t) \/ Finish(t)
    \/ Clear
    \/ \E p \in Pools : Collect(p)

Spec == Init /\ [][Next]_vars

-----------------------------------------------------------------------------
TypeOK ==
    /\ container \in Seq([key : Keys, pool : Pools]) /\ Len(container) <= num_pools
    /\ made \in [Pools -> {NewPool(c) : c \in Contexts} \cup {NoPool}]
    /\ idle \in [Pools -> 0..MaxSize]
    /\ pc \in [Threads -> {"idle", "lookup", "have", "using"}]
    /\ mine \in [Threads -> Pools \cup {NoPool}]
    /\ frames \in [Threads -> SUBSET Pools]
    /\ want \in [Threads -> Contexts \cup {NoPool}]
    /\ requests \in [Threads -> 0..MaxRequests]
    /\ recent \in Seq(Keys)

\* The container holds the num_pools most recently used keys, in the order of
\* their last use: whatever threads interleave, the pool evicted is the least
\* recently used one.
LeastRecentlyUsed ==
    LET n == IF Len(recent) < num_pools THEN Len(recent) ELSE num_pools
    IN [i \in DOMAIN container |-> container[i].key]
          = SubSeq(recent, Len(recent) - n + 1, Len(recent))

\* A thread never sends its request through a pool that is not like the one its
\* request asks for, whoever made it and for which request, and the container
\* maps each key to a pool of that key, also when pools are evicted and their
\* keys come back.
RightPool ==
    /\ \A t \in Threads : pc[t] \in {"have", "using"} =>
          Effective(made[mine[t]]) = Effective(NewPool(want[t]))
    /\ \A e \in Range(container) : \E c \in Contexts : Key(c) = e.key /\ NewPool(c) = made[e.pool]
==============================================================================
