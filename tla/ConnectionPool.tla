--------------------------- MODULE ConnectionPool ---------------------------
(***************************************************************************)
(* urllib3.connectionpool.HTTPConnectionPool: a LIFO queue of MaxSize      *)
(* slots, each None or an idle connection, shared by the threads that call *)
(* urlopen, by the responses that own a connection until their body has    *)
(* been read, by close() and by the finalizer.                             *)
(*                                                                         *)
(* Steps are the accesses to shared state: one action ends where a thread  *)
(* releases the queue's mutex, (re)reads self.pool, or waits for the       *)
(* network.  The queue object outlives self.pool: close() only makes       *)
(* self.pool None, and a thread that read self.pool before keeps using it. *)
(***************************************************************************)
EXTENDS Naturals, FiniteSets, SequencesExt

CONSTANTS
    Threads,      \* threads that call urlopen and use its responses
    Closers,      \* threads that call HTTPConnectionPool.close
    Conns,        \* identities of HTTPConnection objects, reused after death
    NoConn,       \* None: an empty slot, or no connection
    MaxSize,      \* maxsize
    Blocking,     \* the values of block that pools are made with
    Calls,        \* the arguments urlopen is called with
    MaxRetries,   \* bound: the largest retry budget of a call
    MaxRequests,  \* bound: calls of urlopen by one thread
    Faults        \* what the environment may do, a subset of AllFaults

\* "drop": the caller forgets a response it has not released.
\* "badlocation": a redirect's Location cannot be parsed.
\* "interrupt": an exception raised asynchronously (KeyboardInterrupt, a signal
\*   handler) in a thread that waits for a slot.
AllFaults == {"drop", "badlocation", "interrupt"}

\* preload_content, release_conn, and whether a pool_timeout is given
AllCalls == [preload : BOOLEAN, release : BOOLEAN, timeout : BOOLEAN]

ASSUME MaxSizeAssumption == MaxSize \in Nat \ {0}
ASSUME ConnsAssumption   == NoConn \notin Conns
ASSUME ThreadsAssumption == IsFiniteSet(Threads)
ASSUME FlagsAssumption   == /\ Blocking \subseteq BOOLEAN
                            /\ Calls \subseteq AllCalls /\ Calls # {}
ASSUME FaultsAssumption  == Faults \subseteq AllFaults
ASSUME BoundsAssumption  == MaxRetries \in Nat /\ MaxRequests \in Nat

VARIABLES
    block,    \* block; it never changes
    pool,     \* "open", or "closed": self.pool is None
    queue,    \* contents of the LifoQueue, top last
    sock,     \* sock[c]: "closed", "live", or "dropped" (readable while idle)
    pc,       \* pc[t]: where thread t is
    call,     \* call[t]: arguments of t's current urlopen
    retries,  \* retries[t]: what is left of the retry budget
    conn,     \* conn[t]: urlopen's local conn
    resp,     \* resp[t]: the _connection of the response t works with
    then,     \* then[t]: who called _put_conn, and what follows
    calls,    \* calls[t]: calls of urlopen made so far
    closer,   \* closer[k]: where close() is in closer k
    lost,     \* history: slots whose holder died without _put_conn
    gone      \* the pool object was collected and its finalizer ran

vars == <<block, pool, queue, sock, pc, call, retries, conn, resp, then, calls,
          closer, lost, gone>>

\* What a step of a call leaves alone: the call's arguments, the pool object
kept == <<block, call, calls, pool, closer, gone>>

PCs == {"idle",      \* outside urlopen, holding no response
        "get",       \* in urlopen, about to read self.pool
        "dequeue",   \* in self.pool.get
        "request",   \* in _make_request
        "backoff",   \* in retries.sleep(), inside the except block
        "put_load",  \* in _put_conn, about to read self.pool
        "put",       \* in self.pool.put
        "warn",      \* in the "pool is full" warning, about to read self.pool
        "respond",   \* in urlopen, after the finally, looking at the response
        "holding"}   \* the caller has a response that owns a connection

\* finally of urlopen, then: look at the response / retry / raise;
\* release_conn of a drained response, then: retry / raise;
\* release_conn of the caller's response, then: back to the caller
Thens == {"respond", "retry", "raise", "redo", "giveup", "keep"}
ByResponse == {"redo", "giveup", "keep"}

SlotValues == Conns \cup {NoConn}

Referenced == (Range(queue) \cup {conn[t] : t \in Threads}
                            \cup {resp[t] : t \in Threads}) \ {NoConn}
Open(c) == sock[c] # "closed"

\* The sockets after closing connection c, if it is one
Closed(c) == [d \in Conns |-> IF d = c THEN "closed" ELSE sock[d]]

-----------------------------------------------------------------------------
Init ==
    /\ block \in Blocking
    /\ pool = "open"
    /\ queue = [i \in 1..MaxSize |-> NoConn]
    /\ sock = [c \in Conns |-> "closed"]
    /\ pc = [t \in Threads |-> "idle"]
    /\ call = [t \in Threads |-> CHOOSE c \in Calls : TRUE]
    /\ retries = [t \in Threads |-> 0]
    /\ conn = [t \in Threads |-> NoConn]
    /\ resp = [t \in Threads |-> NoConn]
    /\ then = [t \in Threads |-> "keep"]
    /\ calls = [t \in Threads |-> 0]
    /\ closer = [k \in Closers |-> "idle"]
    /\ lost = 0
    /\ gone = FALSE

-----------------------------------------------------------------------------
(* urlopen: _get_conn                                                      *)

\* The caller, holding no response, calls urlopen.
Urlopen(t) ==
    /\ pc[t] = "idle" /\ ~gone /\ calls[t] < MaxRequests
    /\ \E a \in Calls : call' = [call EXCEPT ![t] = a]
    /\ \E n \in 0..MaxRetries : retries' = [retries EXCEPT ![t] = n]
    /\ calls' = [calls EXCEPT ![t] = @ + 1]
    /\ pc' = [pc EXCEPT ![t] = "get"]
    /\ UNCHANGED <<block, pool, queue, sock, conn, resp, then, closer, lost, gone>>

\* _get_conn reads self.pool: None raises ClosedPoolError.  (The finally clause
\* of urlopen then calls _put_conn(None), which finds self.pool None as well.)
GetConn(t) ==
    /\ pc[t] = "get"
    /\ pc' = [pc EXCEPT ![t] = IF pool = "open" THEN "dequeue" ELSE "idle"]
    /\ UNCHANGED <<kept, queue, sock, retries, conn, resp, then, lost>>

\* A connection object that nothing refers to yet; its socket is not open.
Fresh(c) == c \notin Referenced /\ ~Open(c)

\* _get_conn has taken slot q (None, or None for "no slot" when the queue is
\* empty) and returns connection c: the pooled one, closed first when it is
\* found dropped, or a new one.  urlopen enters _make_request with it.
Checkout(t, q, c) ==
    /\ IF q = NoConn THEN Fresh(c) ELSE c = q
    /\ sock' = IF sock[c] = "live" THEN sock ELSE Closed(c)
    /\ conn' = [conn EXCEPT ![t] = c]
    /\ pc' = [pc EXCEPT ![t] = "request"]

\* self.pool.get returned the most recently put slot.
QueueGet(t) ==
    /\ pc[t] = "dequeue" /\ queue # <<>>
    /\ queue' = Front(queue)
    /\ \E c \in Conns : Checkout(t, Last(queue), c)
    /\ UNCHANGED <<kept, retries, resp, then, lost>>

\* Mutant of QueueEmpty: a blocking pool opens a connection too.
QueueEmptyAlways(t) ==
    /\ pc[t] = "dequeue" /\ queue = <<>>
    /\ \E c \in Conns : Checkout(t, NoConn, c)
    /\ UNCHANGED <<kept, queue, retries, resp, then, lost>>

\* self.pool.get raised Empty in a pool that does not block.
QueueEmpty(t) ==
    /\ pc[t] = "dequeue" /\ queue = <<>> /\ ~block
    /\ \E c \in Conns : Checkout(t, NoConn, c)
    /\ UNCHANGED <<kept, queue, retries, resp, then, lost>>

\* Mutant of QueueTimeout: the finally clause puts None back all the same.
QueueTimeoutPuts(t) ==
    /\ pc[t] = "dequeue" /\ queue = <<>> /\ block /\ call[t].timeout
    /\ then' = [then EXCEPT ![t] = "raise"]
    /\ pc' = [pc EXCEPT ![t] = "put_load"]
    /\ UNCHANGED <<kept, queue, sock, retries, conn, resp, lost>>

\* self.pool.get timed out in a pool that blocks: EmptyPoolError, and the
\* finally clause puts nothing back.
QueueTimeout(t) ==
    /\ pc[t] = "dequeue" /\ queue = <<>> /\ block /\ call[t].timeout
    /\ pc' = [pc EXCEPT ![t] = "idle"]
    /\ UNCHANGED <<kept, queue, sock, retries, conn, resp, then, lost>>

\* _new_conn raised after an empty slot was taken: an exception that urlopen
\* does not catch, so the finally clause puts None back and it propagates.
NewConnFails(t) ==
    /\ pc[t] = "dequeue" /\ queue # <<>> /\ Last(queue) = NoConn
    /\ queue' = Front(queue)
    /\ then' = [then EXCEPT ![t] = "raise"]
    /\ pc' = [pc EXCEPT ![t] = "put_load"]
    /\ UNCHANGED <<kept, sock, retries, conn, resp, lost>>

\* An asynchronous exception leaves self.pool.get before it took a slot.  It is
\* not EmptyPoolError, so the finally clause calls _put_conn(None).
Interrupt(t) ==
    /\ "interrupt" \in Faults
    /\ pc[t] = "dequeue"
    /\ then' = [then EXCEPT ![t] = "raise"]
    /\ pc' = [pc EXCEPT ![t] = "put_load"]
    /\ UNCHANGED <<kept, queue, sock, retries, conn, resp, lost>>

-----------------------------------------------------------------------------
(* urlopen: _make_request and its except and finally clauses               *)

\* Mutant of ResponseConn: the response always knows its connection.
ResponseConnAlways(t) == conn[t]

\* response_conn: the response owns the connection unless urlopen releases it.
ResponseConn(t) == IF call[t].release THEN NoConn ELSE conn[t]

\* A response arrived (and its body, with preload_content).  The socket is
\* closed if the response said so.  The finally clause releases conn only if
\* release_conn; otherwise urlopen goes on with the response.
RequestOk(t) ==
    /\ pc[t] = "request"
    /\ \E s \in {"live", "closed"} : sock' = [sock EXCEPT ![conn[t]] = s]
    /\ resp' = [resp EXCEPT ![t] = ResponseConn(t)]
    /\ IF call[t].release
       THEN /\ then' = [then EXCEPT ![t] = "respond"]
            /\ pc' = [pc EXCEPT ![t] = "put_load"]
            /\ UNCHANGED conn
       ELSE /\ pc' = [pc EXCEPT ![t] = "respond"]
            /\ conn' = [conn EXCEPT ![t] = NoConn]
            /\ UNCHANGED then
    /\ UNCHANGED <<kept, queue, retries, lost>>

\* finally, without clean_exit: close the connection, put None in its place.
Discard(t, next) ==
    /\ sock' = Closed(conn[t])
    /\ conn' = [conn EXCEPT ![t] = NoConn]
    /\ then' = [then EXCEPT ![t] = next]
    /\ pc' = [pc EXCEPT ![t] = "put_load"]
    /\ UNCHANGED <<kept, queue, resp, lost>>

\* The request failed and retries.increment() allows another attempt: the
\* thread sleeps in the except block, its connection not yet closed.
RequestRetry(t) ==
    /\ pc[t] = "request" /\ retries[t] > 0
    /\ \E s \in {"live", "closed"} : sock' = [sock EXCEPT ![conn[t]] = s]
    /\ retries' = [retries EXCEPT ![t] = @ - 1]
    /\ pc' = [pc EXCEPT ![t] = "backoff"]
    /\ UNCHANGED <<kept, queue, conn, resp, then, lost>>

Backoff(t) ==
    /\ pc[t] = "backoff"
    /\ Discard(t, "retry")
    /\ UNCHANGED retries

\* Mutant of RequestRaise: the finally clause closes the connection and puts
\* nothing in its place.
RequestRaiseLeaks(t) ==
    /\ pc[t] = "request"
    /\ sock' = Closed(conn[t])
    /\ conn' = [conn EXCEPT ![t] = NoConn]
    /\ pc' = [pc EXCEPT ![t] = "idle"]
    /\ UNCHANGED <<kept, queue, retries, resp, then, lost>>

\* The request failed and the exception propagates: MaxRetryError, or one
\* urlopen does not catch.
RequestRaise(t) ==
    /\ pc[t] = "request"
    /\ Discard(t, "raise")
    /\ UNCHANGED retries

-----------------------------------------------------------------------------
(* _put_conn, called by urlopen's finally clause or by release_conn        *)

Item(t) == IF then[t] \in ByResponse THEN resp[t] ELSE conn[t]

\* _put_conn returned: the caller's reference is dropped and it goes on.
AfterPut(t) ==
    /\ pc' = [pc EXCEPT ![t] = CASE then[t] = "respond" -> "respond"
                                 [] then[t] \in {"retry", "redo"} -> "get"
                                 [] OTHER -> "idle"]
    /\ conn' = [conn EXCEPT ![t] = NoConn]
    /\ resp' = [resp EXCEPT ![t] = IF then[t] \in ByResponse THEN NoConn ELSE @]

\* _put_conn raised: out of urlopen, or out of the caller's release_conn(),
\* which leaves the response's _connection set.
PutRaises(t) ==
    /\ pc' = [pc EXCEPT ![t] = IF then[t] = "keep" THEN "holding" ELSE "idle"]
    /\ conn' = [conn EXCEPT ![t] = NoConn]
    /\ resp' = [resp EXCEPT ![t] = IF then[t] = "keep" THEN @ ELSE NoConn]

\* Mutant of PutConn: a closed pool's connection is dropped, not closed.
PutConnDrops(t) ==
    /\ pc[t] = "put_load"
    /\ IF pool = "open"
       THEN /\ pc' = [pc EXCEPT ![t] = "put"]
            /\ UNCHANGED <<conn, resp>>
       ELSE AfterPut(t)
    /\ UNCHANGED <<kept, queue, sock, retries, then, lost>>

\* _put_conn reads self.pool (the second time, to call put on it).  When it is
\* None the connection is closed.
PutConn(t) ==
    /\ pc[t] = "put_load"
    /\ IF pool = "open"
       THEN /\ pc' = [pc EXCEPT ![t] = "put"]
            /\ UNCHANGED <<sock, conn, resp>>
       ELSE /\ sock' = Closed(Item(t))
            /\ AfterPut(t)
    /\ UNCHANGED <<kept, queue, retries, then, lost>>

\* self.pool.put found room.
QueuePut(t) ==
    /\ pc[t] = "put" /\ Len(queue) < MaxSize
    /\ queue' = Append(queue, Item(t))
    /\ AfterPut(t)
    /\ UNCHANGED <<kept, sock, retries, then, lost>>

\* self.pool.put raised Full: the connection is closed; a blocking pool raises
\* FullPoolError (which drain_conn() swallows), another one logs a warning.
QueueFull(t) ==
    /\ pc[t] = "put" /\ Len(queue) >= MaxSize
    /\ sock' = Closed(Item(t))
    /\ IF ~block
       THEN /\ pc' = [pc EXCEPT ![t] = "warn"]
            /\ UNCHANGED <<conn, resp>>
       ELSE IF then[t] \in {"redo", "giveup"} THEN AfterPut(t) ELSE PutRaises(t)
    /\ UNCHANGED <<kept, queue, retries, then, lost>>

\* The warning reads self.pool.qsize(): an AttributeError if close() came
\* in between.
WarnFull(t) ==
    /\ pc[t] = "warn"
    /\ IF pool = "open" THEN AfterPut(t) ELSE PutRaises(t)
    /\ UNCHANGED <<kept, queue, sock, retries, then, lost>>

-----------------------------------------------------------------------------
(* urlopen after the finally clause, and the caller's use of a response    *)

\* The response's release_conn(), called when its body has been read to the
\* end or given up: a no-op without a connection.
ReleaseConn(t, next, where) ==
    /\ then' = [then EXCEPT ![t] = next]
    /\ pc' = [pc EXCEPT ![t] = IF resp[t] = NoConn THEN where ELSE "put_load"]

\* Reading the rest of a body.  A failure closes the connection; a preloaded
\* body is complete and reading it cannot fail.
ReadRest(t) ==
    \/ UNCHANGED sock
    \/ ~call[t].preload /\ sock' = Closed(resp[t])

\* A redirect, or a status to retry on, and the budget allows it: drain_conn(),
\* which releases the response's connection, then urlopen again.
RespondAgain(t) ==
    /\ pc[t] = "respond" /\ retries[t] > 0
    /\ retries' = [retries EXCEPT ![t] = @ - 1]
    /\ ReadRest(t)
    /\ ReleaseConn(t, "redo", "get")
    /\ UNCHANGED <<kept, queue, conn, resp, lost>>

\* The budget is exhausted (MaxRetryError, with raise_on_redirect or
\* raise_on_status): drain_conn(), then raise.
RespondGiveUp(t) ==
    /\ pc[t] = "respond"
    /\ ReadRest(t)
    /\ ReleaseConn(t, "giveup", "idle")
    /\ UNCHANGED <<kept, queue, retries, conn, resp, lost>>

\* urlopen returns the response.
RespondReturn(t) ==
    /\ pc[t] = "respond"
    /\ pc' = [pc EXCEPT ![t] = IF resp[t] = NoConn THEN "idle" ELSE "holding"]
    /\ UNCHANGED <<kept, queue, sock, retries, conn, resp, then, lost>>

\* The response object dies with its connection, which the garbage collector
\* closes; in a blocking pool the slot it stood for never comes back.
Forget(t) ==
    /\ sock' = Closed(resp[t])
    /\ lost' = lost + (IF block /\ resp[t] # NoConn THEN 1 ELSE 0)
    /\ resp' = [resp EXCEPT ![t] = NoConn]
    /\ pc' = [pc EXCEPT ![t] = "idle"]
    /\ UNCHANGED <<kept, queue, retries, conn, then>>

\* is_same_host(redirect_location) raises LocationParseError: nobody drains or
\* releases the response.
RespondBadLocation(t) ==
    /\ "badlocation" \in Faults
    /\ pc[t] = "respond"
    /\ Forget(t)

\* The caller reads the body to the end, fails to, or calls release_conn().
CallerReleases(t) ==
    /\ pc[t] = "holding"
    /\ ReadRest(t)
    /\ ReleaseConn(t, "keep", "idle")
    /\ UNCHANGED <<kept, queue, retries, conn, resp, lost>>

\* The caller calls the response's close(): the connection is closed and the
\* response keeps it.
CallerCloses(t) ==
    /\ pc[t] = "holding" /\ Open(resp[t])
    /\ sock' = Closed(resp[t])
    /\ UNCHANGED <<kept, queue, retries, pc, conn, resp, then, lost>>

CallerForgets(t) ==
    /\ "drop" \in Faults
    /\ pc[t] = "holding"
    /\ Forget(t)

-----------------------------------------------------------------------------
(* close(), the finalizer, and the other end of the sockets                *)

callers == <<block, pc, call, retries, conn, resp, then, calls, lost>>

\* close() tests self.pool ...
CloseTest(k) ==
    /\ closer[k] = "idle" /\ ~gone
    /\ closer' = [closer EXCEPT ![k] = IF pool = "open" THEN "swap" ELSE "done"]
    /\ UNCHANGED <<callers, pool, queue, sock, gone>>

\* ... and then takes it, leaving None.  It may have become None in between:
\* _close_pool_connections(None) raises AttributeError.
CloseSwap(k) ==
    /\ closer[k] = "swap"
    /\ closer' = [closer EXCEPT ![k] = IF pool = "open" THEN "drain" ELSE "error"]
    /\ pool' = "closed"
    /\ UNCHANGED <<callers, queue, sock, gone>>

\* _close_pool_connections: one iteration of its loop, ended by Empty.
CloseDrain(k) ==
    /\ closer[k] = "drain"
    /\ IF queue = <<>>
       THEN /\ closer' = [closer EXCEPT ![k] = "done"]
            /\ UNCHANGED <<queue, sock>>
       ELSE /\ queue' = Front(queue)
            /\ sock' = Closed(Last(queue))
            /\ UNCHANGED closer
    /\ UNCHANGED <<callers, pool, gone>>

\* Nothing refers to the pool object any more: the finalizer drains the queue.
Finalize ==
    /\ ~gone
    /\ \A t \in Threads : pc[t] = "idle"
    /\ \A k \in Closers : closer[k] \in {"idle", "done", "error"}
    /\ gone' = TRUE
    /\ queue' = <<>>
    /\ sock' = [c \in Conns |-> IF c \in Range(queue) THEN "closed" ELSE sock[c]]
    /\ UNCHANGED <<callers, pool, closer>>

\* The server closes an open connection, or sends what nobody asked for.
PeerDrops(c) ==
    /\ sock[c] = "live"
    /\ sock' = [sock EXCEPT ![c] = "dropped"]
    /\ UNCHANGED <<callers, pool, queue, closer, gone>>

-----------------------------------------------------------------------------
Acquire(t) == GetConn(t) \/ QueueGet(t) \/ QueueEmpty(t) \/ QueueTimeout(t)
              \/ NewConnFails(t)
Perform(t) == RequestOk(t) \/ RequestRetry(t) \/ RequestRaise(t) \/ Backoff(t)
Return(t)  == PutConn(t) \/ QueuePut(t) \/ QueueFull(t) \/ WarnFull(t)
Respond(t) == RespondAgain(t) \/ RespondGiveUp(t) \/ RespondReturn(t)
              \/ RespondBadLocation(t)
Caller(t)  == CallerReleases(t) \/ CallerCloses(t) \/ CallerForgets(t)
Close(k)   == CloseTest(k) \/ CloseSwap(k) \/ CloseDrain(k)

\* What a thread inside urlopen does without being asked to
Progress(t) == Acquire(t) \/ Perform(t) \/ Return(t) \/ Respond(t)

Next ==
    \/ \E t \in Threads : Urlopen(t) \/ Progress(t) \/ Interrupt(t) \/ Caller(t)
    \/ \E k \in Closers : Close(k)
    \/ \E c \in Conns : PeerDrops(c)
    \/ Finalize

Spec == Init /\ [][Next]_vars

\* Threads inside urlopen keep running, callers finish with their responses,
\* and a close() that started ends.  Nothing makes anyone call urlopen or
\* close, makes a peer disconnect or the pool be collected, or interrupts a wait.
Fairness ==
    /\ \A t \in Threads : WF_vars(Progress(t)) /\ WF_vars(CallerReleases(t))
    /\ \A k \in Closers : WF_vars(CloseSwap(k) \/ CloseDrain(k))

FairSpec == Spec /\ Fairness

-----------------------------------------------------------------------------
(* Properties                                                              *)

States == {"closed", "live", "dropped"}

\* The type of every variable: budgets never fall below zero, the queue never
\* holds more than maxsize slots.
TypeOK ==
    /\ block \in Blocking
    /\ pool \in {"open", "closed"}
    /\ queue \in Seq(SlotValues) /\ Len(queue) <= MaxSize
    /\ sock \in [Conns -> States]
    /\ pc \in [Threads -> PCs]
    /\ call \in [Threads -> Calls]
    /\ retries \in [Threads -> 0..MaxRetries]
    /\ conn \in [Threads -> SlotValues]
    /\ resp \in [Threads -> SlotValues]
    /\ then \in [Threads -> Thens]
    /\ calls \in [Threads -> 0..MaxRequests]
    /\ closer \in [Closers -> {"idle", "swap", "drain", "done", "error"}]
    /\ lost \in Nat
    /\ gone \in BOOLEAN

HeldBy(t) == {conn[t], resp[t]} \ {NoConn}

\* A connection is in one place: in one slot of the queue, or with one thread
\* (in urlopen or in its response), never in both and never twice.  The code
\* calls the failure "a double-release mess": two requests on one socket.
ExclusiveOwnership ==
    /\ \A i, j \in DOMAIN queue : queue[i] = queue[j] /\ queue[i] # NoConn => i = j
    /\ \A t \in Threads : HeldBy(t) \cap Range(queue) = {}
    /\ \A t, u \in Threads : t # u => HeldBy(t) \cap HeldBy(u) = {}

\* The threads that took a slot and have not given it back
Holds(t) == \/ pc[t] \in {"request", "backoff", "put_load", "put", "warn"}
            \/ pc[t] \in {"respond", "holding"} /\ resp[t] # NoConn
Holders  == {t \in Threads : Holds(t)}

\* A blocking pool that is open loses no slot and creates none, over every
\* outcome of a request (success, retry, redirect, error, timeout): the slots
\* in the queue, the ones held and the ones lost with forgotten responses are
\* maxsize altogether.
SlotConservation ==
    block /\ pool = "open" /\ ~gone => Len(queue) + Cardinality(Holders) + lost = MaxSize

\* A thread that returns a slot to a blocking pool finds room for it: the
\* FullPoolError of _put_conn "should never happen if you got the conn from
\* self._get_conn".
NoFullPoolError ==
    block => \A t \in Threads : pc[t] = "put" => Len(queue) < MaxSize

\* With block=True "no more than maxsize connections will be used at a time":
\* the open sockets, idle ones included, close() included, are at most maxsize.
ConnectionLimit ==
    block => Cardinality({c \in Conns : Open(c)}) <= MaxSize

\* No socket is left open without an owner that can still close it: every path
\* through urlopen, _put_conn and close() closes a connection it gives up.
NoOpenOrphan == \A c \in Conns : Open(c) => c \in Referenced

\* After the finalizer ran no socket of the pool is open, also when a release
\* raced close() and put its connection into the queue close() had drained.
FinalizedMeansClosed == gone => \A c \in Conns : ~Open(c)

\* The connection a thread works with is closed by that thread only: close(),
\* the finalizer and other requests never close a socket in use.
OnlyHolderCloses ==
    [][\A t \in Threads : \A c \in HeldBy(t) :
          Open(c) /\ sock'[c] = "closed" => pc'[t] # pc[t] \/ pc[t] = "holding"]_vars

\* A call of urlopen ends: it raises, or returns its response.
EveryCallEnds ==
    \A t \in Threads : pc[t] = "get" ~> pc[t] \in {"idle", "holding"}

\* A call that raises gives its slot back: the finally clause of urlopen makes
\* "sure we put the None back in the pool to avoid leaking it".
NoSlotLost == lost = 0

\* The slots of a blocking pool, as the abstract specification sees them
Slots == INSTANCE BoundedSlots WITH
    Size <- MaxSize, Lossy <- Faults \cap {"drop", "badlocation"} # {},
    free <- IF block THEN Len(queue) ELSE MaxSize,
    holders <- IF block THEN Holders ELSE {},
    closed <- block /\ (pool = "closed" \/ gone)

\* A blocking pool implements the bounded set of slots: a step of the pool is a
\* step of BoundedSlots or leaves the slots alone.  (A pool that does not block
\* has no slots to speak of: it is mapped to slots that never change.)
ImplementsSlots == Slots!SlotsSpec
=============================================================================
