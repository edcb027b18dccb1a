------------------------ MODULE ConnectionPoolProofs ------------------------
(***************************************************************************)
(* Proofs about ConnectionPool, for any threads, connections, maxsize and  *)
(* arguments.                                                              *)
(***************************************************************************)
EXTENDS ConnectionPool, FiniteSetTheorems, SequenceTheorems, TLAPS

-----------------------------------------------------------------------------
(* Sequences: what popping from and pushing to the queue does              *)

LEMMA FrontProperties ==
    ASSUME NEW S, NEW s \in Seq(S), s # <<>>
    PROVE  /\ Front(s) \in Seq(S) /\ Len(Front(s)) = Len(s) - 1
           /\ Len(s) \in Nat \ {0}
           /\ \A i \in 1..Len(s) - 1 : Front(s)[i] = s[i]
           /\ Last(s) = s[Len(s)] /\ Last(s) \in S
<1>1. Len(s) \in Nat \ {0}
  BY EmptySeq
<1>2. \A i \in 1..Len(s) : s[i] \in S
  BY ElementOfSeq
<1>3. Last(s) = s[Len(s)] /\ Last(s) \in S
  BY <1>1, <1>2 DEF Last
<1> DEFINE n == Len(s) - 1
<1>4. n \in Int /\ 1 \in Int /\ \A i \in 1..n : s[i] \in S
  BY <1>1, <1>2
<1>5. /\ SubSeq(s, 1, n) \in Seq(S)
      /\ Len(SubSeq(s, 1, n)) = IF 1 <= n THEN n - 1 + 1 ELSE 0
      /\ \A i \in 1..n - 1 + 1 : SubSeq(s, 1, n)[i] = s[1 + i - 1]
  <2> HIDE DEF n
  <2> QED BY <1>4, SubSeqProperties
<1>6. Front(s) = SubSeq(s, 1, n)
  BY DEF Front
<1>6a. n \in Nat /\ n = Len(s) - 1
  BY <1>1
<1>7. Front(s) \in Seq(S) /\ Len(Front(s)) = Len(s) - 1
  <2> HIDE DEF n
  <2>1. (IF 1 <= n THEN n - 1 + 1 ELSE 0) = n
    BY <1>6a
  <2> QED BY <1>5, <1>6, <1>6a, <2>1
<1>8. ASSUME NEW i \in 1..Len(s) - 1 PROVE Front(s)[i] = s[i]
  <2>1. i \in 1..n - 1 + 1 /\ 1 + i - 1 = i
    BY <1>1
  <2> QED BY <1>5, <1>6, <2>1
<1> QED BY <1>1, <1>3, <1>7, <1>8

-----------------------------------------------------------------------------
(* Type correctness                                                        *)

LEMMA ClosedType ==
    ASSUME sock \in [Conns -> States], NEW c
    PROVE  Closed(c) \in [Conns -> States]
BY DEF Closed, States

LEMMA ItemType ==
    ASSUME TypeOK, NEW t \in Threads
    PROVE  Item(t) \in SlotValues
BY DEF Item, TypeOK

LEMMA InitType == Init => TypeOK
<1> SUFFICES ASSUME Init PROVE TypeOK
  OBVIOUS
<1>1. queue \in Seq(SlotValues) /\ Len(queue) <= MaxSize
  <2>1. queue \in [1..MaxSize -> SlotValues] /\ MaxSize \in Nat
    BY MaxSizeAssumption DEF Init, SlotValues
  <2>2. queue \in Seq(SlotValues)
    BY <2>1, SeqDef
  <2>3. Len(queue) = MaxSize
    BY <2>1, <2>2, LenProperties
  <2> QED BY <2>1, <2>2, <2>3
<1>2. (CHOOSE c \in Calls : TRUE) \in Calls
  BY FlagsAssumption
<1>3. /\ call \in [Threads -> Calls] /\ retries \in [Threads -> 0..MaxRetries]
      /\ calls \in [Threads -> 0..MaxRequests]
  BY <1>2, BoundsAssumption DEF Init
<1>4. /\ sock \in [Conns -> States] /\ pc \in [Threads -> PCs]
      /\ conn \in [Threads -> SlotValues] /\ resp \in [Threads -> SlotValues]
      /\ then \in [Threads -> Thens]
  BY DEF Init, SlotValues, States, PCs, Thens
<1> QED BY <1>1, <1>3, <1>4 DEF Init, TypeOK

\* Dequeuing: the queue gets shorter, and its last element is a slot.
LEMMA PopType ==
    ASSUME TypeOK, queue # <<>>
    PROVE  /\ Front(queue) \in Seq(SlotValues) /\ Len(Front(queue)) <= MaxSize
           /\ Last(queue) \in SlotValues
<1>1. queue \in Seq(SlotValues) /\ Len(queue) <= MaxSize
  BY DEF TypeOK
<1>2. /\ Front(queue) \in Seq(SlotValues) /\ Len(Front(queue)) = Len(queue) - 1
      /\ Len(queue) \in Nat \ {0} /\ Last(queue) \in SlotValues
  BY <1>1, FrontProperties
<1> QED BY <1>1, <1>2, MaxSizeAssumption

LEMMA CheckoutType ==
    ASSUME TypeOK, NEW t \in Threads, NEW q, NEW c \in Conns, Checkout(t, q, c)
    PROVE  /\ sock' \in [Conns -> States] /\ conn' \in [Threads -> SlotValues]
           /\ pc' \in [Threads -> PCs]
BY ClosedType DEF TypeOK, Checkout, SlotValues, PCs

LEMMA AcquireType ==
    ASSUME TypeOK, NEW t \in Threads, Urlopen(t) \/ Acquire(t) \/ Interrupt(t)
    PROVE  TypeOK'
<1> USE DEF TypeOK
<1>1. CASE Urlopen(t)
  BY <1>1, BoundsAssumption DEF Urlopen, PCs
<1>2. CASE GetConn(t)
  BY <1>2 DEF GetConn, kept, PCs
<1>3. CASE QueueGet(t)
  BY <1>3, PopType, CheckoutType DEF QueueGet, kept
<1>4. CASE QueueEmpty(t)
  BY <1>4, CheckoutType DEF QueueEmpty, kept
<1>5. CASE QueueTimeout(t)
  BY <1>5 DEF QueueTimeout, kept, PCs
<1>6. CASE NewConnFails(t)
  BY <1>6, PopType DEF NewConnFails, kept, PCs, Thens
<1>7. CASE Interrupt(t)
  BY <1>7 DEF Interrupt, kept, PCs, Thens
<1> QED BY <1>1, <1>2, <1>3, <1>4, <1>5, <1>6, <1>7 DEF Acquire

LEMMA DiscardType ==
    ASSUME TypeOK, NEW t \in Threads, NEW next \in Thens, Discard(t, next),
           UNCHANGED retries
    PROVE  TypeOK'
BY ClosedType DEF TypeOK, Discard, kept, SlotValues, PCs

LEMMA PerformType ==
    ASSUME TypeOK, NEW t \in Threads, Perform(t)
    PROVE  TypeOK'
<1>0. ASSUME NEW s \in {"live", "closed"}
      PROVE  [sock EXCEPT ![conn[t]] = s] \in [Conns -> States]
  BY DEF TypeOK, States
<1>1. CASE RequestOk(t)
  <2>1. sock' \in [Conns -> States]
    BY <1>0, <1>1 DEF RequestOk
  <2>2. resp' \in [Threads -> SlotValues] /\ conn' \in [Threads -> SlotValues]
    BY <1>1 DEF TypeOK, RequestOk, ResponseConn, SlotValues
  <2>3. pc' \in [Threads -> PCs] /\ then' \in [Threads -> Thens]
    BY <1>1 DEF TypeOK, RequestOk, PCs, Thens
  <2> QED BY <1>1, <2>1, <2>2, <2>3 DEF TypeOK, RequestOk, kept
<1>2. CASE RequestRetry(t)
  <2>1. sock' \in [Conns -> States]
    BY <1>0, <1>2 DEF RequestRetry
  <2>2. retries' \in [Threads -> 0..MaxRetries]
    BY <1>2, BoundsAssumption DEF TypeOK, RequestRetry
  <2> QED BY <1>2, <2>1, <2>2 DEF TypeOK, RequestRetry, kept, PCs
<1>3. CASE RequestRaise(t)
  BY <1>3, DiscardType DEF RequestRaise, Thens
<1>4. CASE Backoff(t)
  BY <1>4, DiscardType DEF Backoff, Thens
<1> QED BY <1>1, <1>2, <1>3, <1>4 DEF Perform

LEMMA AfterPutType ==
    ASSUME TypeOK, NEW t \in Threads, AfterPut(t) \/ PutRaises(t)
    PROVE  /\ pc' \in [Threads -> PCs] /\ conn' \in [Threads -> SlotValues]
           /\ resp' \in [Threads -> SlotValues]
BY DEF TypeOK, AfterPut, PutRaises, PCs, SlotValues

LEMMA ReturnType ==
    ASSUME TypeOK, NEW t \in Threads, Return(t)
    PROVE  TypeOK'
<1> USE DEF TypeOK
<1>1. CASE PutConn(t)
  BY <1>1, AfterPutType, ClosedType DEF PutConn, kept, PCs
<1>2. CASE QueuePut(t)
  <2>1. Append(queue, Item(t)) \in Seq(SlotValues)
    BY ItemType, AppendProperties
  <2>2. Len(Append(queue, Item(t))) = Len(queue) + 1 /\ Len(queue) \in Nat
    BY ItemType, AppendProperties, LenProperties
  <2> QED BY <1>2, <2>1, <2>2, AfterPutType, MaxSizeAssumption DEF QueuePut, kept
<1>3. CASE QueueFull(t)
  BY <1>3, AfterPutType, ClosedType DEF QueueFull, kept, PCs
<1>4. CASE WarnFull(t)
  BY <1>4, AfterPutType DEF WarnFull, kept
<1> QED BY <1>1, <1>2, <1>3, <1>4 DEF Return

LEMMA ForgetType ==
    ASSUME TypeOK, NEW t \in Threads, Forget(t)
    PROVE  TypeOK'
BY ClosedType DEF TypeOK, Forget, kept, PCs, SlotValues

LEMMA RespondType ==
    ASSUME TypeOK, NEW t \in Threads, Respond(t) \/ Caller(t)
    PROVE  TypeOK'
<1>1. CASE RespondAgain(t)
  BY <1>1, ClosedType, BoundsAssumption
     DEF TypeOK, RespondAgain, ReadRest, ReleaseConn, kept, PCs, Thens
<1>2. CASE RespondGiveUp(t)
  BY <1>2, ClosedType DEF TypeOK, RespondGiveUp, ReadRest, ReleaseConn, kept, PCs, Thens
<1>3. CASE RespondReturn(t)
  BY <1>3 DEF TypeOK, RespondReturn, kept, PCs
<1>4. CASE RespondBadLocation(t) \/ CallerForgets(t)
  BY <1>4, ForgetType DEF RespondBadLocation, CallerForgets
<1>5. CASE CallerReleases(t)
  BY <1>5, ClosedType DEF TypeOK, CallerReleases, ReadRest, ReleaseConn, kept, PCs, Thens
<1>6. CASE CallerCloses(t)
  BY <1>6, ClosedType DEF TypeOK, CallerCloses, kept
<1> QED BY <1>1, <1>2, <1>3, <1>4, <1>5, <1>6 DEF Respond, Caller

LEMMA CloseType ==
    ASSUME TypeOK, \/ \E k \in Closers : Close(k)
                   \/ \E c \in Conns : PeerDrops(c)
                   \/ Finalize
    PROVE  TypeOK'
<1>1. ASSUME NEW k \in Closers, CloseTest(k) \/ CloseSwap(k) PROVE TypeOK'
  BY <1>1 DEF TypeOK, CloseTest, CloseSwap, callers
<1>2. ASSUME NEW k \in Closers, CloseDrain(k) PROVE TypeOK'
  BY <1>2, PopType, ClosedType DEF TypeOK, CloseDrain, callers
<1>3. ASSUME NEW c \in Conns, PeerDrops(c) PROVE TypeOK'
  BY <1>3 DEF TypeOK, PeerDrops, callers, States
<1>4. CASE Finalize
  <2>1. <<>> \in Seq(SlotValues) /\ Len(<<>>) = 0
    BY EmptySeq
  <2> QED BY <1>4, <2>1, MaxSizeAssumption DEF TypeOK, Finalize, callers, States
<1> QED BY <1>1, <1>2, <1>3, <1>4 DEF Close

LEMMA NextType == TypeOK /\ [Next]_vars => TypeOK'
<1> SUFFICES ASSUME TypeOK, [Next]_vars PROVE TypeOK'
  OBVIOUS
<1>1. CASE UNCHANGED vars
  BY <1>1 DEF TypeOK, vars
<1>2. CASE Next
  BY <1>2, AcquireType, PerformType, ReturnType, RespondType, CloseType
     DEF Next, Progress
<1> QED BY <1>1, <1>2

\* Every variable keeps its type; the queue never holds more than maxsize
\* slots and no retry budget falls below zero.
THEOREM TypeCorrect == Spec => []TypeOK
BY InitType, NextType, PTL DEF Spec

-----------------------------------------------------------------------------
(* Who has which connection                                                *)

\* What a thread carries at each place: nothing before it has a slot, conn
\* while it performs the request, the response's connection after that.
\* (A blocking pool never warns, and close() drains what it took.)
Carries(t) ==
    /\ pc[t] \in {"idle", "get", "dequeue"} => conn[t] = NoConn /\ resp[t] = NoConn
    /\ pc[t] \in {"request", "backoff"} => conn[t] # NoConn /\ resp[t] = NoConn
    /\ pc[t] \in {"put_load", "put", "warn"} =>
          IF then[t] \in ByResponse THEN conn[t] = NoConn /\ resp[t] # NoConn
          ELSE resp[t] = NoConn
    /\ pc[t] = "respond" => conn[t] = NoConn
    /\ pc[t] = "holding" => conn[t] = NoConn /\ resp[t] # NoConn
    /\ block => pc[t] # "warn"

Shape == /\ \A t \in Threads : Carries(t)
         /\ \A k \in Closers : closer[k] = "drain" => pool = "closed"

\* The slots of a blocking pool, open or not
SlotInv ==
    block => /\ Len(queue) + Cardinality(Holders) + lost <= MaxSize
             /\ SlotConservation

LEMMA InitShape == Init => Shape
BY DEF Init, Shape, Carries

\* A step of thread t leaves the other threads and close() where they are.
OthersStay(t) ==
    /\ UNCHANGED <<block, closer, pool, gone>>
    /\ \A u \in Threads \ {t} : /\ pc'[u] = pc[u] /\ conn'[u] = conn[u]
                               /\ resp'[u] = resp[u] /\ then'[u] = then[u]

ThreadStep(t) == Urlopen(t) \/ Progress(t) \/ Interrupt(t) \/ Caller(t)

LEMMA OneThreadMoves ==
    ASSUME TypeOK, NEW t \in Threads, ThreadStep(t)
    PROVE  OthersStay(t)
<1> USE DEF TypeOK, OthersStay, kept
<1>1. CASE Urlopen(t) \/ Acquire(t) \/ Interrupt(t)
  BY <1>1 DEF Urlopen, Acquire, GetConn, QueueGet, QueueEmpty, QueueTimeout,
              NewConnFails, Interrupt, Checkout
<1>2. CASE Perform(t)
  BY <1>2 DEF Perform, RequestOk, RequestRetry, RequestRaise, Backoff, Discard
<1>3. CASE Return(t)
  BY <1>3 DEF Return, PutConn, QueuePut, QueueFull, WarnFull, AfterPut, PutRaises
<1>4. CASE Respond(t) \/ Caller(t)
  BY <1>4 DEF Respond, RespondAgain, RespondGiveUp, RespondReturn, RespondBadLocation,
              Caller, CallerReleases, CallerCloses, CallerForgets, Forget, ReleaseConn
<1> QED BY <1>1, <1>2, <1>3, <1>4 DEF ThreadStep, Progress

LEMMA ThreadCarries ==
    ASSUME TypeOK, Shape, NEW t \in Threads, ThreadStep(t)
    PROVE  Carries(t)'
<1> USE DEF TypeOK, kept, Carries, Shape
<1>1. CASE Urlopen(t) \/ GetConn(t) \/ QueueTimeout(t) \/ NewConnFails(t) \/ Interrupt(t)
  BY <1>1 DEF Urlopen, GetConn, QueueTimeout, NewConnFails, Interrupt, ByResponse
<1>2. CASE QueueGet(t) \/ QueueEmpty(t)
  BY <1>2, ConnsAssumption DEF QueueGet, QueueEmpty, Checkout
<1>3. CASE RequestOk(t) \/ RequestRetry(t)
  BY <1>3 DEF RequestOk, RequestRetry, ResponseConn, ByResponse
<1>4. CASE RequestRaise(t) \/ Backoff(t)
  BY <1>4 DEF RequestRaise, Backoff, Discard, ByResponse
<1>5. CASE Return(t)
  BY <1>5 DEF Return, PutConn, QueuePut, QueueFull, WarnFull, AfterPut, PutRaises,
              ByResponse, Thens
<1>6. CASE Respond(t) \/ Caller(t)
  BY <1>6 DEF Respond, RespondAgain, RespondGiveUp, RespondReturn, RespondBadLocation,
              Caller, CallerReleases, CallerCloses, CallerForgets, Forget, ReleaseConn,
              ByResponse
<1> QED BY <1>1, <1>2, <1>3, <1>4, <1>5, <1>6
        DEF ThreadStep, Progress, Acquire, Perform

LEMMA NextShape == TypeOK /\ Shape /\ [Next]_vars => Shape'
<1> SUFFICES ASSUME TypeOK, Shape, [Next]_vars PROVE Shape'
  OBVIOUS
<1>1. ASSUME NEW t \in Threads, ThreadStep(t) PROVE Shape'
  <2>1. OthersStay(t) /\ Carries(t)'
    BY <1>1, OneThreadMoves, ThreadCarries
  <2> QED BY <2>1 DEF Shape, Carries, OthersStay
<1>2. ASSUME NEW k \in Closers, Close(k) PROVE Shape'
  BY <1>2 DEF TypeOK, Shape, Carries, Close, CloseTest, CloseSwap, CloseDrain, callers
<1>3. ASSUME NEW c \in Conns, PeerDrops(c) PROVE Shape'
  BY <1>3 DEF Shape, Carries, PeerDrops, callers
<1>4. CASE Finalize
  BY <1>4 DEF Shape, Carries, Finalize, callers
<1>5. CASE UNCHANGED vars
  BY <1>5 DEF Shape, Carries, vars
<1> QED BY <1>1, <1>2, <1>3, <1>4, <1>5 DEF Next, ThreadStep

LEMMA ShapeInvariance == Spec => [](TypeOK /\ Shape)
BY InitType, NextType, InitShape, NextShape, PTL DEF Spec

-----------------------------------------------------------------------------
(* A connection is in one place                                            *)

Unique(q) == \A i, j \in DOMAIN q : q[i] = q[j] /\ q[i] # NoConn => i = j

LEMMA PopUnique ==
    ASSUME TypeOK, Unique(queue), queue # <<>>
    PROVE  /\ Unique(Front(queue)) /\ Range(Front(queue)) \subseteq Range(queue)
           /\ Last(queue) \in Range(queue)
           /\ Last(queue) # NoConn => Last(queue) \notin Range(Front(queue))
<1> DEFINE f == Front(queue)
<1> DEFINE n == Len(queue)
<1>1. queue \in Seq(SlotValues)
  BY DEF TypeOK
<1>2. /\ f \in Seq(SlotValues) /\ Len(f) = n - 1 /\ n \in Nat \ {0}
      /\ \A i \in 1..n - 1 : f[i] = queue[i]
      /\ Last(queue) = queue[n]
  BY <1>1, FrontProperties
<1>3. DOMAIN queue = 1..n /\ DOMAIN f = 1..n - 1
  BY <1>1, <1>2, LenProperties
<1>4. \A i \in DOMAIN f : i \in DOMAIN queue /\ i # n /\ f[i] = queue[i]
  BY <1>2, <1>3
<1>5. n \in DOMAIN queue
  BY <1>2, <1>3
<1> HIDE DEF f, n
<1>6. Unique(f)
  BY <1>4 DEF Unique
<1>7. Range(f) \subseteq Range(queue) /\ Last(queue) \in Range(queue)
  BY <1>2, <1>4, <1>5 DEF Range
<1>8. Last(queue) # NoConn => Last(queue) \notin Range(f)
  BY <1>2, <1>4, <1>5 DEF Range, Unique
<1> QED BY <1>6, <1>7, <1>8 DEF f

LEMMA PushUnique ==
    ASSUME TypeOK, Unique(queue), NEW q \in SlotValues,
           q # NoConn => q \notin Range(queue)
    PROVE  /\ Unique(Append(queue, q))
           /\ Range(Append(queue, q)) = Range(queue) \cup {q}
<1> DEFINE a == Append(queue, q)
<1> DEFINE n == Len(queue)
<1>1. queue \in Seq(SlotValues) /\ n \in Nat /\ DOMAIN queue = 1..n
  BY LenProperties DEF TypeOK
<1>2. /\ a \in Seq(SlotValues) /\ Len(a) = n + 1 /\ DOMAIN a = 1..n + 1
      /\ \A i \in 1..n : a[i] = queue[i]
      /\ a[n + 1] = q
  BY <1>1, AppendProperties, LenProperties
<1>3. /\ DOMAIN a = DOMAIN queue \cup {n + 1} /\ n + 1 \notin DOMAIN queue
      /\ \A i \in DOMAIN queue : a[i] = queue[i]
  BY <1>1, <1>2
<1> HIDE DEF a, n
<1>4. Range(a) = Range(queue) \cup {q}
  <2>1. \A x \in Range(a) : x \in Range(queue) \cup {q}
    BY <1>2, <1>3 DEF Range
  <2>2. \A x \in Range(queue) : x \in Range(a)
    BY <1>3 DEF Range
  <2>3. q \in Range(a)
    BY <1>2, <1>3 DEF Range
  <2> QED BY <2>1, <2>2, <2>3
<1>5. Unique(a)
  BY <1>2, <1>3 DEF Unique, Range
<1> QED BY <1>4, <1>5 DEF a

\* The three ways in which connections move: a thread drops some of what it
\* holds, takes one that nobody else has, or gives the queue one of its own.
LEMMA DropExclusive ==
    ASSUME ExclusiveOwnership, NEW t \in Threads, OthersStay(t),
           UNCHANGED queue, HeldBy(t)' \subseteq HeldBy(t)
    PROVE  ExclusiveOwnership'
BY DEF ExclusiveOwnership, OthersStay, HeldBy

LEMMA TakeExclusive ==
    ASSUME ExclusiveOwnership, NEW t \in Threads, OthersStay(t), NEW c,
           HeldBy(t)' \subseteq {c}, \A u \in Threads : c \notin HeldBy(u),
           Unique(queue'), Range(queue') \subseteq Range(queue) \ {c}
    PROVE  ExclusiveOwnership'
BY DEF ExclusiveOwnership, OthersStay, HeldBy, Unique

LEMMA GiveExclusive ==
    ASSUME ExclusiveOwnership, NEW t \in Threads, OthersStay(t), NEW q,
           HeldBy(t)' \subseteq HeldBy(t) \ {q}, q # NoConn => q \in HeldBy(t),
           Unique(queue'), Range(queue') = Range(queue) \cup {q}
    PROVE  ExclusiveOwnership'
<1>1. \A u \in Threads \ {t} : HeldBy(u)' = HeldBy(u) /\ q \notin HeldBy(u)
  BY DEF ExclusiveOwnership, OthersStay, HeldBy
<1>2. ASSUME NEW u \in Threads PROVE HeldBy(u)' \cap Range(queue') = {}
  BY <1>1 DEF ExclusiveOwnership
<1>3. ASSUME NEW u \in Threads, NEW v \in Threads, u # v
      PROVE  HeldBy(u)' \cap HeldBy(v)' = {}
  BY <1>1, <1>3 DEF ExclusiveOwnership
<1> QED BY <1>2, <1>3 DEF ExclusiveOwnership, Unique

LEMMA CheckoutExclusive ==
    ASSUME TypeOK, Shape, ExclusiveOwnership, NEW t \in Threads, ThreadStep(t),
           QueueGet(t) \/ QueueEmpty(t)
    PROVE  ExclusiveOwnership'
<1>1. OthersStay(t) /\ Unique(queue)
  BY OneThreadMoves DEF ExclusiveOwnership, Unique
<1>2. HeldBy(t) = {} /\ resp' = resp /\ resp[t] = NoConn
  BY DEF QueueGet, QueueEmpty, Shape, Carries, HeldBy
<1>3. ASSUME NEW c \in Conns, NEW q, Checkout(t, q, c)
      PROVE  HeldBy(t)' \subseteq {c}
  BY <1>2, <1>3 DEF Checkout, HeldBy, TypeOK
<1>4. CASE QueueGet(t)
  <2>1. PICK c \in Conns : Checkout(t, Last(queue), c)
    BY <1>4 DEF QueueGet
  <2>2. \A u \in Threads : c \notin HeldBy(u)
    BY <1>1, <1>4, <2>1, PopUnique
       DEF QueueGet, Checkout, Fresh, Referenced, HeldBy, ExclusiveOwnership
  <2>3. c \notin Range(queue')
    BY <1>1, <1>4, <2>1, PopUnique, ConnsAssumption
       DEF QueueGet, Checkout, Fresh, Referenced
  <2>4. Unique(queue') /\ Range(queue') \subseteq Range(queue) \ {c}
    BY <1>1, <1>4, <2>3, PopUnique DEF QueueGet
  <2>5. HeldBy(t)' \subseteq {c}
    BY <1>3, <2>1
  <2> QED BY <1>1, <2>2, <2>4, <2>5, TakeExclusive
<1>5. CASE QueueEmpty(t)
  <2>1. PICK c \in Conns : Checkout(t, NoConn, c)
    BY <1>5 DEF QueueEmpty
  <2>2. c \notin Range(queue) /\ \A u \in Threads : c \notin HeldBy(u)
    BY <2>1, ConnsAssumption DEF Checkout, Fresh, Referenced, HeldBy
  <2>3. Unique(queue') /\ Range(queue') \subseteq Range(queue) \ {c}
    <3>1. queue' = queue
      BY <1>5 DEF QueueEmpty
    <3> QED BY <1>1, <2>2, <3>1
  <2>4. HeldBy(t)' \subseteq {c}
    BY <1>3, <2>1
  <2> QED BY <1>1, <2>2, <2>3, <2>4, TakeExclusive
<1> QED BY <1>4, <1>5

LEMMA PutExclusive ==
    ASSUME TypeOK, Shape, ExclusiveOwnership, NEW t \in Threads, ThreadStep(t),
           QueuePut(t)
    PROVE  ExclusiveOwnership'
<1>1. OthersStay(t) /\ Unique(queue)
  BY OneThreadMoves DEF ExclusiveOwnership, Unique
<1>2. Item(t) \in SlotValues /\ (Item(t) # NoConn => Item(t) \in HeldBy(t))
  BY ItemType DEF Item, HeldBy
<1>3. Item(t) # NoConn => Item(t) \notin Range(queue)
  BY <1>2 DEF ExclusiveOwnership
<1>4. HeldBy(t)' \subseteq HeldBy(t) \ {Item(t)}
  BY DEF TypeOK, Shape, Carries, QueuePut, AfterPut, HeldBy, Item
<1>5. Unique(queue') /\ Range(queue') = Range(queue) \cup {Item(t)}
  BY <1>1, <1>2, <1>3, PushUnique DEF QueuePut
<1> QED BY <1>1, <1>2, <1>4, <1>5, GiveExclusive

\* Every other step of a thread drops what it holds, or keeps it.
LEMMA HoldExclusive ==
    ASSUME TypeOK, Shape, NEW t \in Threads, ThreadStep(t),
           ~QueueGet(t), ~QueueEmpty(t), ~QueuePut(t)
    PROVE  queue' \in {queue, Front(queue)} /\ HeldBy(t)' \subseteq HeldBy(t)
           /\ (queue' # queue => queue # <<>>)
<1> USE DEF TypeOK, HeldBy, kept
<1>1. CASE Urlopen(t) \/ GetConn(t) \/ QueueTimeout(t) \/ NewConnFails(t) \/ Interrupt(t)
  BY <1>1 DEF Urlopen, GetConn, QueueTimeout, NewConnFails, Interrupt
<1>2. CASE Perform(t)
  BY <1>2 DEF Perform, RequestOk, RequestRetry, RequestRaise, Backoff, Discard,
              ResponseConn
<1>3. CASE PutConn(t) \/ QueueFull(t) \/ WarnFull(t)
  BY <1>3 DEF PutConn, QueueFull, WarnFull, AfterPut, PutRaises
<1>4. CASE Respond(t) \/ Caller(t)
  BY <1>4 DEF Respond, RespondAgain, RespondGiveUp, RespondReturn, RespondBadLocation,
              Caller, CallerReleases, CallerCloses, CallerForgets, Forget, ReleaseConn
<1> QED BY <1>1, <1>2, <1>3, <1>4 DEF ThreadStep, Progress, Acquire, Return

LEMMA PopExclusive ==
    ASSUME TypeOK, ExclusiveOwnership, queue # <<>>, queue' = Front(queue),
           \A u \in Threads : HeldBy(u)' \subseteq HeldBy(u)
    PROVE  ExclusiveOwnership'
<1>1. Unique(queue') /\ Range(queue') \subseteq Range(queue)
  BY PopUnique DEF ExclusiveOwnership, Unique
<1>2. ASSUME NEW u \in Threads PROVE HeldBy(u)' \cap Range(queue') = {}
  BY <1>1 DEF ExclusiveOwnership
<1>3. ASSUME NEW u \in Threads, NEW v \in Threads, u # v
      PROVE  HeldBy(u)' \cap HeldBy(v)' = {}
  BY <1>3 DEF ExclusiveOwnership
<1> QED BY <1>1, <1>2, <1>3 DEF ExclusiveOwnership, Unique

LEMMA InitExclusive == Init => ExclusiveOwnership
BY MaxSizeAssumption DEF Init, ExclusiveOwnership, HeldBy, Range

LEMMA NextExclusive ==
    ASSUME TypeOK, Shape, ExclusiveOwnership, [Next]_vars
    PROVE  ExclusiveOwnership'
<1>1. ASSUME NEW t \in Threads, ThreadStep(t) PROVE ExclusiveOwnership'
  <2>1. CASE QueueGet(t) \/ QueueEmpty(t)
    BY <1>1, <2>1, CheckoutExclusive
  <2>2. CASE QueuePut(t)
    BY <1>1, <2>2, PutExclusive
  <2>3. CASE ~QueueGet(t) /\ ~QueueEmpty(t) /\ ~QueuePut(t)
    <3>1. OthersStay(t) /\ HeldBy(t)' \subseteq HeldBy(t)
      BY <1>1, <2>3, OneThreadMoves, HoldExclusive
    <3>2. \A u \in Threads : HeldBy(u)' \subseteq HeldBy(u)
      BY <3>1 DEF OthersStay, HeldBy
    <3>3. queue' = queue \/ (queue # <<>> /\ queue' = Front(queue))
      BY <1>1, <2>3, HoldExclusive
    <3> QED BY <3>1, <3>2, <3>3, DropExclusive, PopExclusive
  <2> QED BY <2>1, <2>2, <2>3
<1>2. ASSUME NEW k \in Closers, CloseDrain(k) PROVE ExclusiveOwnership'
  <2>1. \A u \in Threads : HeldBy(u)' = HeldBy(u)
    BY <1>2 DEF CloseDrain, callers, HeldBy
  <2>2. queue' = queue \/ (queue # <<>> /\ queue' = Front(queue))
    BY <1>2 DEF CloseDrain
  <2>3. CASE queue' = queue
    BY <2>1, <2>3 DEF ExclusiveOwnership
  <2> QED BY <2>1, <2>2, <2>3, PopExclusive
<1>3. CASE Finalize
  <2>1. queue' = <<>> /\ \A u \in Threads : HeldBy(u)' = HeldBy(u)
    BY <1>3 DEF Finalize, callers, HeldBy
  <2>2. DOMAIN queue' = {} /\ Range(queue') = {}
    BY <2>1 DEF Range
  <2> QED BY <2>1, <2>2 DEF ExclusiveOwnership
<1>4. CASE (\E c \in Conns : PeerDrops(c)) \/ (\E k \in Closers : CloseTest(k) \/ CloseSwap(k))
           \/ UNCHANGED vars
  <2>1. UNCHANGED <<queue, conn, resp>>
    BY <1>4 DEF PeerDrops, CloseTest, CloseSwap, callers, vars
  <2> QED BY <2>1 DEF ExclusiveOwnership, HeldBy
<1> QED BY <1>1, <1>2, <1>3, <1>4 DEF Next, ThreadStep, Close

\* No connection is ever in two places: the queue, a call of urlopen, a
\* response; for all interleavings of calls, retries, close() and faults.
THEOREM OwnershipIsExclusive == Spec => []ExclusiveOwnership
BY ShapeInvariance, InitExclusive, NextExclusive, PTL DEF Spec

-----------------------------------------------------------------------------
(* The slots of a blocking pool                                            *)

\* What a step does to the slots: thread t takes one, gives it back, loses it,
\* or leaves them as they are; without a thread, close() takes free ones away.
TakesSlot(t)  == /\ ~Holds(t) /\ Holds(t)' /\ lost' = lost
                 /\ queue # <<>> /\ queue' = Front(queue)
GivesSlot(t)  == /\ Holds(t) /\ ~Holds(t)' /\ lost' = lost
                 /\ queue' = Append(queue, Item(t))
DropsSlot(t)  == /\ Holds(t) /\ ~Holds(t)' /\ queue' = queue
                 /\ \/ lost' = lost /\ pool = "closed"
                    \/ lost' = lost + 1 /\ Faults \cap {"drop", "badlocation"} # {}
KeepsSlots(t) == Holds(t)' = Holds(t) /\ queue' = queue /\ lost' = lost

LEMMA SlotStep ==
    ASSUME "interrupt" \notin Faults, TypeOK, Shape, block, NoFullPoolError,
           NEW t \in Threads, ThreadStep(t)
    PROVE  TakesSlot(t) \/ GivesSlot(t) \/ DropsSlot(t) \/ KeepsSlots(t)
<1> USE DEF TypeOK, Shape, Carries, kept, Holds, TakesSlot, KeepsSlots
<1>1. CASE Urlopen(t) \/ GetConn(t) \/ QueueTimeout(t)
  BY <1>1 DEF Urlopen, GetConn, QueueTimeout
<1>2. CASE NewConnFails(t) \/ QueueGet(t)
  BY <1>2 DEF NewConnFails, QueueGet, Checkout
<1>3. CASE RequestOk(t) \/ RequestRetry(t)
  BY <1>3 DEF RequestOk, RequestRetry, ResponseConn
<1>4. CASE RequestRaise(t) \/ Backoff(t)
  BY <1>4 DEF RequestRaise, Backoff, Discard
<1>5. CASE PutConn(t) \/ QueuePut(t)
  BY <1>5 DEF PutConn, QueuePut, AfterPut, Item, Thens, ByResponse, GivesSlot, DropsSlot
<1>6. CASE RespondAgain(t) \/ RespondGiveUp(t) \/ CallerReleases(t)
  BY <1>6 DEF RespondAgain, RespondGiveUp, CallerReleases, ReleaseConn
<1>7. CASE RespondReturn(t) \/ CallerCloses(t)
  BY <1>7 DEF RespondReturn, CallerCloses
<1>8. CASE RespondBadLocation(t) \/ CallerForgets(t)
  <2>1. Faults \cap {"drop", "badlocation"} # {}
    BY <1>8 DEF RespondBadLocation, CallerForgets
  <2>2. lost' = lost + IF resp[t] # NoConn THEN 1 ELSE 0
    BY <1>8, ZenonT(30) DEF RespondBadLocation, CallerForgets, Forget
  <2>3. /\ pc[t] \in {"respond", "holding"} /\ pc'[t] = "idle"
        /\ resp'[t] = NoConn /\ queue' = queue
    BY <1>8 DEF RespondBadLocation, CallerForgets, Forget
  <2> QED BY <2>1, <2>2, <2>3 DEF DropsSlot
<1>9. ~QueueFull(t)
  <2>1. pc[t] = "put" => Len(queue) < MaxSize
    BY DEF NoFullPoolError
  <2>2. Len(queue) \in Nat /\ MaxSize \in Nat
    BY MaxSizeAssumption, LenProperties
  <2>3. QueueFull(t) => pc[t] = "put" /\ Len(queue) >= MaxSize
    BY DEF QueueFull
  <2> QED BY <2>1, <2>2, <2>3
<1>10. ~WarnFull(t) /\ ~QueueEmpty(t) /\ ~Interrupt(t)
  BY DEF WarnFull, QueueEmpty, Interrupt
<1> QED BY <1>1, <1>2, <1>3, <1>4, <1>5, <1>6, <1>7, <1>8,
          <1>9, <1>10
        DEF ThreadStep, Progress, Acquire, Perform, Return, Respond, Caller

\* Only thread t enters or leaves the holders.
LEMMA HoldersStep ==
    ASSUME NEW t \in Threads, OthersStay(t)
    PROVE  /\ Holds(t)' = Holds(t) => Holders' = Holders
           /\ ~Holds(t) /\ Holds(t)' =>
                 /\ t \notin Holders /\ Holders' = Holders \cup {t}
                 /\ Cardinality(Holders') = Cardinality(Holders) + 1
           /\ Holds(t) /\ ~Holds(t)' =>
                 /\ t \in Holders /\ Holders' = Holders \ {t}
                 /\ Cardinality(Holders') = Cardinality(Holders) - 1
<1>1. IsFiniteSet(Holders)
  BY ThreadsAssumption, FS_Subset DEF Holders
<1>2. \A u \in Threads \ {t} : Holds(u)' = Holds(u)
  BY DEF OthersStay, Holds
<1>3. CASE Holds(t)' = Holds(t)
  BY <1>2, <1>3 DEF Holders
<1>4. CASE ~Holds(t) /\ Holds(t)'
  <2>1. t \notin Holders /\ Holders' = Holders \cup {t}
    BY <1>2, <1>4 DEF Holders
  <2> QED BY <1>1, <1>4, <2>1, FS_AddElement
<1>5. CASE Holds(t) /\ ~Holds(t)'
  <2>1. t \in Holders /\ Holders' = Holders \ {t}
    BY <1>2, <1>5 DEF Holders
  <2> QED BY <1>1, <1>5, <2>1, FS_RemoveElement
<1> QED BY <1>3, <1>4, <1>5

LEMMA HoldersFinite == IsFiniteSet(Holders) /\ Cardinality(Holders) \in Nat
BY ThreadsAssumption, FS_Subset, FS_CardinalityType DEF Holders

\* Whoever returns a slot holds one, so that one is missing in the queue.
LEMMA RoomForReturn == TypeOK /\ SlotInv => NoFullPoolError
<1> SUFFICES ASSUME TypeOK, SlotInv, block, NEW t \in Threads, pc[t] = "put"
             PROVE  Len(queue) < MaxSize
  BY DEF NoFullPoolError
<1>1. t \in Holders /\ Holders # {}
  BY DEF Holders, Holds
<1>2. Cardinality(Holders) \in Nat \ {0}
  BY <1>1, HoldersFinite, FS_EmptySet
<1>3. Len(queue) \in Nat /\ lost \in Nat /\ MaxSize \in Nat
  BY MaxSizeAssumption, LenProperties DEF TypeOK
<1>4. Len(queue) + Cardinality(Holders) + lost <= MaxSize
  BY DEF SlotInv
<1> QED BY <1>2, <1>3, <1>4

LEMMA InitSlots == Init => SlotInv
<1> SUFFICES ASSUME Init PROVE SlotInv
  OBVIOUS
<1>1. Holders = {} /\ Cardinality(Holders) = 0
  BY FS_EmptySet DEF Init, Holders, Holds
<1>2. Len(queue) = MaxSize /\ MaxSize \in Nat
  <2>1. queue \in Seq(SlotValues) /\ DOMAIN queue = 1..MaxSize
    BY InitType DEF Init, TypeOK
  <2>2. DOMAIN queue = 1..Len(queue) /\ Len(queue) \in Nat /\ MaxSize \in Nat
    BY <2>1, LenProperties, MaxSizeAssumption
  <2> QED BY <2>1, <2>2
<1>3. lost = 0
  BY DEF Init
<1> QED BY <1>1, <1>2, <1>3 DEF SlotInv, SlotConservation

LEMMA ThreadSlots ==
    ASSUME "interrupt" \notin Faults, TypeOK, Shape, SlotInv, block,
           NEW t \in Threads, ThreadStep(t)
    PROVE  SlotInv'
<1>1. OthersStay(t) /\ (TakesSlot(t) \/ GivesSlot(t) \/ DropsSlot(t) \/ KeepsSlots(t))
  BY OneThreadMoves, RoomForReturn, SlotStep
<1>2. /\ Len(queue) \in Nat /\ lost \in Nat /\ MaxSize \in Nat
      /\ Cardinality(Holders) \in Nat /\ Item(t) \in SlotValues
      /\ queue \in Seq(SlotValues)
  BY HoldersFinite, ItemType, MaxSizeAssumption, LenProperties DEF TypeOK
<1>3. UNCHANGED <<block, pool, gone>>
  BY <1>1 DEF OthersStay
<1> DEFINE n == Cardinality(Holders)
<1>4. CASE TakesSlot(t)
  <2>1. n' = n + 1 /\ Len(queue') = Len(queue) - 1 /\ lost' = lost
    BY <1>1, <1>2, <1>4, HoldersStep, FrontProperties DEF TakesSlot
  <2> QED BY <1>2, <1>3, <2>1 DEF SlotInv, SlotConservation
<1>5. CASE GivesSlot(t)
  <2>1. n' = n - 1 /\ Len(queue') = Len(queue) + 1 /\ lost' = lost
    BY <1>1, <1>2, <1>5, HoldersStep, AppendProperties DEF GivesSlot
  <2> QED BY <1>2, <1>3, <2>1 DEF SlotInv, SlotConservation
<1>6. CASE DropsSlot(t)
  <2>1. n' = n - 1 /\ queue' = queue
        /\ (lost' = lost + 1 \/ (lost' = lost /\ pool # "open"))
    BY <1>1, <1>6, HoldersStep DEF DropsSlot
  <2> QED BY <1>2, <1>3, <2>1 DEF SlotInv, SlotConservation
<1>7. CASE KeepsSlots(t)
  <2>1. n' = n /\ queue' = queue /\ lost' = lost
    BY <1>1, <1>7, HoldersStep DEF KeepsSlots
  <2> QED BY <1>2, <1>3, <2>1 DEF SlotInv, SlotConservation
<1> QED BY <1>1, <1>4, <1>5, <1>6, <1>7

\* close(), the finalizer and the peers leave the threads alone.
LEMMA OtherStep ==
    ASSUME TypeOK, Shape, \/ \E k \in Closers : Close(k)
                          \/ \E c \in Conns : PeerDrops(c)
                          \/ Finalize
                          \/ UNCHANGED vars
    PROVE  /\ Holders' = Holders /\ UNCHANGED <<block, lost>>
           /\ (queue' = queue /\ gone' = gone /\ (pool' = "open" => pool = "open"))
              \/ /\ pool' = "closed" \/ gone'
                 /\ queue' = <<>> \/ (queue # <<>> /\ queue' = Front(queue))
<1> USE DEF callers, Holders, Holds
<1>1. CASE \E k \in Closers : Close(k)
  BY <1>1 DEF Shape, Close, CloseTest, CloseSwap, CloseDrain
<1>2. CASE \E c \in Conns : PeerDrops(c)
  BY <1>2 DEF PeerDrops
<1>3. CASE Finalize
  BY <1>3 DEF Finalize
<1>4. CASE UNCHANGED vars
  BY <1>4 DEF vars
<1> QED BY <1>1, <1>2, <1>3, <1>4

LEMMA NextSlots ==
    ASSUME "interrupt" \notin Faults, TypeOK, Shape, SlotInv, [Next]_vars
    PROVE  SlotInv'
<1>1. CASE \E t \in Threads : ThreadStep(t)
  <2>1. PICK t \in Threads : ThreadStep(t)
    BY <1>1
  <2>2. block' = block
    BY <2>1, OneThreadMoves DEF OthersStay
  <2> QED BY <2>1, <2>2, ThreadSlots DEF SlotInv
<1>2. CASE ~\E t \in Threads : ThreadStep(t)
  <2>1. /\ Holders' = Holders /\ UNCHANGED <<block, lost>>
        /\ (queue' = queue /\ gone' = gone /\ (pool' = "open" => pool = "open"))
           \/ /\ pool' = "closed" \/ gone'
              /\ queue' = <<>> \/ (queue # <<>> /\ queue' = Front(queue))
    BY <1>2, OtherStep DEF Next, ThreadStep
  <2>2. /\ Len(queue) \in Nat /\ lost \in Nat /\ MaxSize \in Nat
        /\ Cardinality(Holders) \in Nat /\ queue \in Seq(SlotValues)
    BY HoldersFinite, MaxSizeAssumption, LenProperties DEF TypeOK
  <2>3. CASE queue' = queue /\ gone' = gone /\ (pool' = "open" => pool = "open")
    BY <2>1, <2>3 DEF SlotInv, SlotConservation
  <2>4. CASE /\ pool' = "closed" \/ gone'
             /\ queue' = <<>> \/ (queue # <<>> /\ queue' = Front(queue))
    <3>1. Len(queue') <= Len(queue) /\ Len(queue') \in Nat
      BY <2>2, <2>4, FrontProperties, EmptySeq
    <3> QED BY <2>1, <2>2, <2>4, <3>1 DEF SlotInv, SlotConservation
  <2> QED BY <2>1, <2>3, <2>4
<1> QED BY <1>1, <1>2

LEMMA SlotInvariance ==
    ASSUME "interrupt" \notin Faults
    PROVE  Spec => [](TypeOK /\ Shape /\ SlotInv)
<1>1. TypeOK /\ Shape /\ SlotInv /\ [Next]_vars => SlotInv'
  BY NextSlots
<1> QED BY <1>1, InitType, NextType, InitShape, NextShape, InitSlots, PTL DEF Spec

\* No interleaving of calls, retries, errors and timeouts loses or creates a
\* slot of an open pool with block=True, if no exception comes from outside
\* while a thread waits for a slot.
THEOREM SlotsAreConserved ==
    ASSUME "interrupt" \notin Faults
    PROVE  Spec => []SlotConservation
<1>1. SlotInv => SlotConservation
  BY DEF SlotInv, SlotConservation
<1> QED BY <1>1, SlotInvariance, PTL

\* Under the same condition FullPoolError never happens.
THEOREM NeverFull ==
    ASSUME "interrupt" \notin Faults
    PROVE  Spec => []NoFullPoolError
BY SlotInvariance, RoomForReturn, PTL

-----------------------------------------------------------------------------
(* The pool implements BoundedSlots                                        *)

LEMMA InitRefines == Init => Slots!SlotsInit
<1> SUFFICES ASSUME Init PROVE Slots!SlotsInit
  OBVIOUS
<1>1. Holders = {} /\ pool # "closed" /\ ~gone
  BY DEF Init, Holders, Holds
<1>2. Len(queue) = MaxSize
  <2>1. queue \in Seq(SlotValues) /\ DOMAIN queue = 1..MaxSize
    BY InitType DEF Init, TypeOK
  <2> QED BY <2>1, LenProperties, MaxSizeAssumption
<1> QED BY <1>1, <1>2 DEF Slots!SlotsInit

LEMMA ThreadRefines ==
    ASSUME "interrupt" \notin Faults, TypeOK, Shape, SlotInv, block,
           NEW t \in Threads, ThreadStep(t)
    PROVE  [Slots!SlotsNext]_(Slots!svars)
<1>1. OthersStay(t) /\ (TakesSlot(t) \/ GivesSlot(t) \/ DropsSlot(t) \/ KeepsSlots(t))
  BY OneThreadMoves, RoomForReturn, SlotStep
<1>2. block' = block /\ pool' = pool /\ gone' = gone
  BY <1>1 DEF OthersStay
<1>3. queue \in Seq(SlotValues) /\ Item(t) \in SlotValues /\ Len(queue) \in Nat
  BY ItemType, LenProperties DEF TypeOK
<1>4. CASE TakesSlot(t)
  <2>1. Len(queue) > 0 /\ Len(queue') = Len(queue) - 1
    BY <1>3, <1>4, FrontProperties DEF TakesSlot
  <2>2. t \notin Holders /\ Holders' = Holders \cup {t}
    BY <1>1, <1>4, HoldersStep DEF TakesSlot
  <2>3. Slots!Take(t)
    BY <1>2, <2>1, <2>2 DEF Slots!Take
  <2> QED BY <2>3 DEF Slots!SlotsNext
<1>5. CASE GivesSlot(t)
  <2>1. Len(queue') = Len(queue) + 1
    BY <1>3, <1>5, AppendProperties DEF GivesSlot
  <2>2. t \in Holders /\ Holders' = Holders \ {t}
    BY <1>1, <1>5, HoldersStep DEF GivesSlot
  <2>3. Slots!Give(t)
    BY <1>2, <2>1, <2>2 DEF Slots!Give
  <2> QED BY <2>3 DEF Slots!SlotsNext
<1>6. CASE DropsSlot(t)
  <2>1. t \in Holders /\ Holders' = Holders \ {t} /\ queue' = queue
    BY <1>1, <1>6, HoldersStep DEF DropsSlot
  <2>2. pool = "closed" \/ Faults \cap {"drop", "badlocation"} # {}
    BY <1>6 DEF DropsSlot
  <2>3. Slots!Lose(t)
    BY <1>2, <2>1, <2>2 DEF Slots!Lose
  <2> QED BY <2>3 DEF Slots!SlotsNext
<1>7. CASE KeepsSlots(t)
  <2>1. Holders' = Holders /\ queue' = queue
    BY <1>1, <1>7, HoldersStep DEF KeepsSlots
  <2> QED BY <1>2, <2>1 DEF Slots!svars
<1> QED BY <1>1, <1>4, <1>5, <1>6, <1>7

LEMMA OtherRefines ==
    ASSUME TypeOK, Shape, block, pool' \in {"open", "closed"},
           \/ \E k \in Closers : Close(k)
           \/ \E c \in Conns : PeerDrops(c)
           \/ Finalize
           \/ UNCHANGED vars
    PROVE  [Slots!SlotsNext]_(Slots!svars)
<1>1. /\ Holders' = Holders /\ block' = block
      /\ (queue' = queue /\ gone' = gone /\ (pool' = "open" => pool = "open"))
         \/ /\ pool' = "closed" \/ gone'
            /\ queue' = <<>> \/ (queue # <<>> /\ queue' = Front(queue))
  BY OtherStep
<1>2. queue \in Seq(SlotValues) /\ Len(queue) \in Nat
  BY LenProperties DEF TypeOK
<1>3. Len(queue') \in 0..Len(queue)
  BY <1>1, <1>2, FrontProperties, EmptySeq
<1>4. CASE pool' = "closed" \/ gone'
  <2>1. Slots!Shut
    BY <1>1, <1>3, <1>4 DEF Slots!Shut
  <2> QED BY <2>1 DEF Slots!SlotsNext
<1>5. CASE ~(pool' = "closed" \/ gone')
  <2>1. queue' = queue /\ gone' = gone /\ pool' = "open" /\ pool = "open"
    BY <1>1, <1>5
  <2> QED BY <1>1, <2>1 DEF Slots!svars
<1> QED BY <1>4, <1>5

LEMMA NextRefines ==
    ASSUME "interrupt" \notin Faults, TypeOK, TypeOK', Shape, SlotInv, [Next]_vars
    PROVE  [Slots!SlotsNext]_(Slots!svars)
<1>1. block' = block
  <2>1. CASE \E t \in Threads : ThreadStep(t)
    BY <2>1, OneThreadMoves DEF OthersStay
  <2> QED BY <2>1, OtherStep DEF Next, ThreadStep
<1>2. CASE block
  <2>1. CASE \E t \in Threads : ThreadStep(t)
    BY <1>2, <2>1, ThreadRefines
  <2>2. pool' \in {"open", "closed"}
    BY DEF TypeOK
  <2> QED BY <1>2, <2>1, <2>2, OtherRefines DEF Next, ThreadStep
<1>3. CASE ~block
  BY <1>1, <1>3 DEF Slots!svars
<1> QED BY <1>2, <1>3

\* Every step of a pool with block=True takes, gives back or loses one slot of a
\* bounded set, closes it, or leaves it alone; one without block has no slots.
THEOREM PoolImplementsSlots ==
    ASSUME "interrupt" \notin Faults
    PROVE  Spec => ImplementsSlots
<1>1. [Next]_vars /\ (TypeOK /\ Shape /\ SlotInv) /\ (TypeOK /\ Shape /\ SlotInv)'
      => [Slots!SlotsNext]_(Slots!svars)
  BY NextRefines
<1> QED BY <1>1, InitRefines, SlotInvariance, PTL
        DEF Spec, ImplementsSlots, Slots!SlotsSpec

-----------------------------------------------------------------------------
(* Open sockets have an owner, and a blocking pool has at most MaxSize     *)

\* NoOpenOrphan, and: what is refused by a full queue is closed already.
Owned == /\ \A c \in Conns : Open(c) =>
               c \in Range(queue) \/ \E t \in Threads : c \in HeldBy(t)
         /\ \A t \in Threads : pc[t] = "warn" => \A c \in HeldBy(t) : ~Open(c)

LEMMA OwnedReferenced == Owned => NoOpenOrphan
BY ConnsAssumption DEF Owned, NoOpenOrphan, Referenced, HeldBy

\* What thread t does to its connections and the queue: every open socket it
\* gives up is in the queue or closed, and it opens only its own.
Careful(t) ==
    \A c \in Conns : Open(c)' =>
        \/ c \in HeldBy(t)' \/ c \in Range(queue')
        \/ Open(c) /\ c \notin HeldBy(t) /\ c \notin Range(queue)

LEMMA FrontRange ==
    ASSUME TypeOK, queue # <<>>
    PROVE  \A x \in Range(queue) : x = Last(queue) \/ x \in Range(Front(queue))
<1> DEFINE f == Front(queue)
<1> DEFINE n == Len(queue)
<1>1. queue \in Seq(SlotValues)
  BY DEF TypeOK
<1>2. /\ f \in Seq(SlotValues) /\ Len(f) = n - 1 /\ n \in Nat \ {0}
      /\ \A i \in 1..n - 1 : f[i] = queue[i]
      /\ Last(queue) = queue[n]
  BY <1>1, FrontProperties
<1>3. DOMAIN queue = 1..n /\ DOMAIN f = 1..n - 1
  BY <1>1, <1>2, LenProperties
<1>4. \A i \in DOMAIN queue : i = n \/ (i \in DOMAIN f /\ f[i] = queue[i])
  BY <1>2, <1>3
<1> HIDE DEF f, n
<1>5. \A x \in Range(queue) : x = Last(queue) \/ x \in Range(f)
  BY <1>2, <1>4 DEF Range
<1> QED BY <1>5 DEF f

LEMMA AppendRange ==
    ASSUME TypeOK, NEW t \in Threads, queue' = Append(queue, Item(t))
    PROVE  Item(t) \in Range(queue') /\ Range(queue) \subseteq Range(queue')
<1> DEFINE a == Append(queue, Item(t))
<1> DEFINE n == Len(queue)
<1>1. queue \in Seq(SlotValues) /\ n \in Nat /\ DOMAIN queue = 1..n
  BY LenProperties DEF TypeOK
<1>2. /\ a \in Seq(SlotValues) /\ DOMAIN a = 1..n + 1
      /\ \A i \in 1..n : a[i] = queue[i]
      /\ a[n + 1] = Item(t)
  BY <1>1, ItemType, AppendProperties, LenProperties
<1>3. /\ DOMAIN queue \subseteq DOMAIN a /\ n + 1 \in DOMAIN a
      /\ \A i \in DOMAIN queue : a[i] = queue[i]
  BY <1>1, <1>2
<1> HIDE DEF a, n
<1>4. \A x \in Range(queue) : x \in Range(a)
  BY <1>3 DEF Range
<1>5. Item(t) \in Range(a)
  BY <1>2, <1>3 DEF Range
<1> QED BY <1>4, <1>5 DEF a

LEMMA ThreadCareful ==
    ASSUME TypeOK, Shape, Owned, NEW t \in Threads, ThreadStep(t)
    PROVE  Careful(t)
<1> USE DEF TypeOK, Shape, Carries, kept, HeldBy, Open, Closed, Careful
<1>1. CASE Urlopen(t) \/ GetConn(t) \/ QueueTimeout(t) \/ Interrupt(t)
  BY <1>1 DEF Urlopen, GetConn, QueueTimeout, Interrupt
<1>2. CASE QueueGet(t)
  <2>1. PICK c \in Conns : Checkout(t, Last(queue), c)
    BY <1>2 DEF QueueGet
  <2>2. /\ queue' = Front(queue) /\ queue # <<>> /\ c \in HeldBy(t)' /\ HeldBy(t) = {}
        /\ \A d \in Conns : sock'[d] # "closed" => sock[d] # "closed"
        /\ Last(queue) \in {c, NoConn}
    BY <1>2, <2>1, ConnsAssumption DEF QueueGet, Checkout
  <2> QED BY <2>2, FrontRange, ConnsAssumption
<1>3. CASE QueueEmpty(t)
  BY <1>3, ConnsAssumption DEF QueueEmpty, Checkout
<1>4. CASE NewConnFails(t)
  BY <1>4, FrontRange, ConnsAssumption DEF NewConnFails
<1>5. CASE RequestOk(t) \/ RequestRetry(t)
  BY <1>5 DEF RequestOk, RequestRetry, ResponseConn
<1>6. CASE RequestRaise(t) \/ Backoff(t)
  BY <1>6 DEF RequestRaise, Backoff, Discard
<1>7. CASE PutConn(t) \/ QueueFull(t)
  <2>1. HeldBy(t) \subseteq {Item(t)} /\ queue' = queue
    BY <1>7 DEF PutConn, QueueFull, Item
  <2>2. sock' = Closed(Item(t)) \/ (sock' = sock /\ UNCHANGED <<conn, resp>>)
    BY <1>7 DEF PutConn, QueueFull
  <2> QED BY <2>1, <2>2
<1>8. CASE QueuePut(t)
  <2>1. HeldBy(t) \subseteq {Item(t)} /\ sock' = sock
    BY <1>8 DEF QueuePut, Item
  <2>2. Item(t) \in Range(queue') /\ Range(queue) \subseteq Range(queue')
    BY <1>8, AppendRange DEF QueuePut
  <2> QED BY <2>1, <2>2
<1>9. CASE WarnFull(t)
  BY <1>9 DEF WarnFull, Owned
<1>10. CASE RespondAgain(t) \/ RespondGiveUp(t) \/ CallerReleases(t)
  BY <1>10 DEF RespondAgain, RespondGiveUp, CallerReleases, ReadRest
<1>11. CASE RespondReturn(t) \/ CallerCloses(t)
  BY <1>11 DEF RespondReturn, CallerCloses
<1>12. CASE RespondBadLocation(t) \/ CallerForgets(t)
  BY <1>12 DEF RespondBadLocation, CallerForgets, Forget
<1> QED BY <1>1, <1>2, <1>3, <1>4, <1>5, <1>6, <1>7, <1>8, <1>9, <1>10, <1>11, <1>12
        DEF ThreadStep, Progress, Acquire, Perform, Return, Respond, Caller

\* Only a full queue makes a thread warn, and it closes the connection first.
LEMMA WarnCloses ==
    ASSUME TypeOK, Shape, Owned, NEW t \in Threads, ThreadStep(t), pc'[t] = "warn"
    PROVE  \A c \in Conns : c \in HeldBy(t)' => ~Open(c)'
<1> USE DEF TypeOK, Shape, Carries, kept
<1>1. QueueFull(t)
  <2>1. CASE Urlopen(t) \/ Acquire(t) \/ Interrupt(t) \/ Perform(t)
    BY <2>1 DEF Urlopen, Acquire, GetConn, QueueGet, QueueEmpty, QueueTimeout,
                NewConnFails, Interrupt, Checkout, Perform, RequestOk, RequestRetry,
                RequestRaise, Backoff, Discard
  <2>2. CASE PutConn(t) \/ QueuePut(t) \/ WarnFull(t)
    BY <2>2 DEF PutConn, QueuePut, WarnFull, AfterPut, PutRaises
  <2>3. CASE Respond(t) \/ Caller(t)
    BY <2>3 DEF Respond, RespondAgain, RespondGiveUp, RespondReturn, RespondBadLocation,
                Caller, CallerReleases, CallerCloses, CallerForgets, Forget, ReleaseConn
  <2> QED BY <2>1, <2>2, <2>3 DEF ThreadStep, Progress, Return
<1>2. sock' = Closed(Item(t)) /\ HeldBy(t) \subseteq {Item(t)}
  BY <1>1 DEF QueueFull, HeldBy, Item
<1>3. HeldBy(t)' \subseteq HeldBy(t)
  BY <1>1 DEF QueueFull, AfterPut, PutRaises, HeldBy
<1> QED BY <1>2, <1>3 DEF Open, Closed

LEMMA InitOwned == Init => Owned
BY DEF Init, Owned, Open

LEMMA NextOwned ==
    ASSUME TypeOK, Shape, ExclusiveOwnership, ExclusiveOwnership', Owned, [Next]_vars
    PROVE  Owned'
<1>1. ASSUME NEW t \in Threads, ThreadStep(t) PROVE Owned'
  <2>1. OthersStay(t) /\ Careful(t)
    BY <1>1, OneThreadMoves, ThreadCareful
  <2>2. \A u \in Threads \ {t} : HeldBy(u)' = HeldBy(u) /\ pc'[u] = pc[u]
    BY <2>1 DEF OthersStay, HeldBy
  <2>3. ASSUME NEW c \in Conns, Open(c)'
        PROVE  c \in Range(queue') \/ \E u \in Threads : c \in HeldBy(u)'
    BY <2>1, <2>2, <2>3 DEF Careful, Owned
  <2>4. ASSUME NEW u \in Threads \ {t}, pc'[u] = "warn", NEW c \in HeldBy(u)',
               c \in Conns
        PROVE  ~Open(c)'
    <3>1. c \notin HeldBy(t)' /\ c \notin Range(queue')
      BY <2>4 DEF ExclusiveOwnership
    <3>2. ~Open(c)
      BY <2>2, <2>4 DEF Owned
    <3> QED BY <2>1, <2>4, <3>1, <3>2 DEF Careful
  <2>5. TypeOK' /\ \A u \in Threads : HeldBy(u)' \subseteq Conns
    BY <1>1, NextType DEF Next, ThreadStep, TypeOK, HeldBy, SlotValues
  <2>6. ASSUME NEW u \in Threads, pc'[u] = "warn", NEW c \in HeldBy(u)'
        PROVE  ~Open(c)'
    BY <1>1, <2>4, <2>5, <2>6, WarnCloses
  <2> QED BY <2>3, <2>6 DEF Owned
<1>2. ASSUME NEW k \in Closers, Close(k) PROVE Owned'
  <2>1. CASE CloseDrain(k) /\ queue # <<>>
    <3>1. /\ queue' = Front(queue) /\ sock' = Closed(Last(queue))
          /\ UNCHANGED <<pc, conn, resp>>
      BY <2>1 DEF CloseDrain, callers
    <3>2. \A c \in Conns : Open(c)' => Open(c) /\ c # Last(queue)
      BY <3>1 DEF Open, Closed
    <3>3. \A u \in Threads : HeldBy(u)' = HeldBy(u) /\ HeldBy(u) \subseteq Conns
      BY <3>1 DEF HeldBy, TypeOK, SlotValues
    <3> QED BY <2>1, <3>1, <3>2, <3>3, FrontRange DEF Owned
  <2>2. CASE ~(CloseDrain(k) /\ queue # <<>>)
    <3>1. UNCHANGED <<pc, conn, resp, queue, sock>>
      BY <1>2, <2>2 DEF Close, CloseTest, CloseSwap, CloseDrain, callers
    <3> QED BY <3>1 DEF Owned, HeldBy, Open
  <2> QED BY <2>1, <2>2
<1>3. ASSUME NEW c \in Conns, PeerDrops(c) PROVE Owned'
  <2>1. UNCHANGED <<pc, conn, resp, queue>> /\ \A d \in Conns : Open(d)' => Open(d)
    BY <1>3 DEF PeerDrops, callers, Open, TypeOK
  <2>2. \A u \in Threads : HeldBy(u)' = HeldBy(u) /\ HeldBy(u) \subseteq Conns
    BY <2>1 DEF HeldBy, TypeOK, SlotValues
  <2> QED BY <2>1, <2>2 DEF Owned
<1>4. CASE Finalize
  <2>1. UNCHANGED <<pc, conn, resp>>
        /\ \A d \in Conns : Open(d)' => Open(d) /\ d \notin Range(queue)
    BY <1>4 DEF Finalize, callers, Open
  <2>2. \A u \in Threads : HeldBy(u)' = HeldBy(u) /\ HeldBy(u) \subseteq Conns
    BY <2>1 DEF HeldBy, TypeOK, SlotValues
  <2> QED BY <2>1, <2>2 DEF Owned
<1>5. CASE UNCHANGED vars
  BY <1>5 DEF Owned, HeldBy, Open, vars
<1> QED BY <1>1, <1>2, <1>3, <1>4, <1>5 DEF Next, ThreadStep

LEMMA OwnedInvariance == Spec => [](TypeOK /\ Shape /\ ExclusiveOwnership /\ Owned)
<1>1. /\ (TypeOK /\ Shape /\ ExclusiveOwnership /\ Owned)
      /\ ExclusiveOwnership' /\ [Next]_vars
      => Owned'
  BY NextOwned
<1> QED BY <1>1, ShapeInvariance, OwnershipIsExclusive, InitOwned, PTL DEF Spec

\* Every path through urlopen, _put_conn, close() and the finalizer closes the
\* connection it gives up: no socket stays open without an owner.
THEOREM NoOrphans == Spec => []NoOpenOrphan
BY OwnedInvariance, OwnedReferenced, PTL

\* The connection a thread has, if any
Mine(t) == IF conn[t] # NoConn THEN conn[t] ELSE resp[t]

LEMMA ImageBound ==
    ASSUME NEW S, IsFiniteSet(S), NEW T, NEW f \in [S -> T]
    PROVE  IsFiniteSet(Range(f)) /\ Cardinality(Range(f)) <= Cardinality(S)
<1>1. f \in Surjection(S, Range(f))
  BY DEF Surjection, Range
<1> QED BY <1>1, FS_Surjection DEF ExistsSurjection

LEMMA OwnersBound ==
    ASSUME TypeOK, Shape, Owned, SlotInv, block
    PROVE  Cardinality({c \in Conns : Open(c)}) <= MaxSize
<1> DEFINE held == [t \in Holders |-> Mine(t)]
<1> DEFINE opened == {c \in Conns : Open(c)}
<1>1. ASSUME NEW t \in Threads, NEW c \in HeldBy(t) PROVE t \in Holders /\ c = Mine(t)
  BY <1>1 DEF TypeOK, PCs, Shape, Carries, HeldBy, Holders, Holds, Mine
<1>2. opened \subseteq Range(queue) \cup Range(held)
  BY <1>1 DEF Owned, Range
<1>3. /\ IsFiniteSet(Range(held)) /\ Cardinality(Range(held)) <= Cardinality(Holders)
      /\ Cardinality(Range(held)) \in Nat
  <2>1. held \in [Holders -> SlotValues]
    BY DEF TypeOK, Holders, Mine
  <2> HIDE DEF held
  <2> QED BY <2>1, HoldersFinite, ImageBound, FS_CardinalityType
<1>4. queue \in [1..Len(queue) -> SlotValues] /\ Len(queue) \in Nat
  BY LenProperties DEF TypeOK
<1>5. IsFiniteSet(1..Len(queue)) /\ Cardinality(1..Len(queue)) = Len(queue)
  <2> DEFINE n == Len(queue)
  <2>1. 1 \in Int /\ n \in Int /\ (IF 1 > n THEN 0 ELSE n - 1 + 1) = n
    BY <1>4
  <2> HIDE DEF n
  <2>2. IsFiniteSet(1..n) /\ Cardinality(1..n) = IF 1 > n THEN 0 ELSE n - 1 + 1
    BY <2>1, FS_Interval
  <2> QED BY <2>1, <2>2 DEF n
<1>6. /\ IsFiniteSet(Range(queue)) /\ Cardinality(Range(queue)) <= Len(queue)
      /\ Cardinality(Range(queue)) \in Nat
  BY <1>4, <1>5, ImageBound, FS_CardinalityType
<1> HIDE DEF held, opened
<1>7. /\ IsFiniteSet(Range(queue) \cup Range(held))
      /\ Cardinality(Range(queue) \cup Range(held)) <= Len(queue) + Cardinality(Holders)
  <2>1. Cardinality(Range(queue) \cap Range(held)) \in Nat
    BY <1>6, FS_Subset, FS_CardinalityType
  <2>2. /\ IsFiniteSet(Range(queue) \cup Range(held))
        /\ Cardinality(Range(queue) \cup Range(held))
             = Cardinality(Range(queue)) + Cardinality(Range(held))
               - Cardinality(Range(queue) \cap Range(held))
    BY <1>3, <1>6, FS_Union
  <2> QED BY <1>3, <1>4, <1>6, <2>1, <2>2, HoldersFinite
<1>8. Cardinality(opened) <= Cardinality(Range(queue) \cup Range(held))
      /\ Cardinality(opened) \in Nat
  BY <1>2, <1>7, FS_Subset, FS_CardinalityType
<1>9. Len(queue) + Cardinality(Holders) + lost <= MaxSize /\ lost \in Nat /\ MaxSize \in Nat
  BY MaxSizeAssumption DEF SlotInv, TypeOK
<1>10. Cardinality(Range(queue) \cup Range(held)) \in Nat
  BY <1>7, FS_CardinalityType
<1>11. Cardinality(opened) <= MaxSize
  BY <1>4, <1>7, <1>8, <1>9, <1>10, HoldersFinite
<1> QED BY <1>11 DEF opened

\* A pool with block=True never has more than maxsize open sockets, idle, in use
\* or about to be closed, also while close() drains the queue.
THEOREM ConnectionsAreLimited ==
    ASSUME "interrupt" \notin Faults
    PROVE  Spec => []ConnectionLimit
<1>1. TypeOK /\ Shape /\ Owned /\ SlotInv => ConnectionLimit
  BY OwnersBound DEF ConnectionLimit
<1> QED BY <1>1, OwnedInvariance, SlotInvariance, PTL

-----------------------------------------------------------------------------
(* close() and the finalizer                                               *)

\* After the finalizer ran nothing moves any more.
Final == gone => /\ queue = <<>>
                 /\ \A t \in Threads : pc[t] = "idle"
                 /\ \A k \in Closers : closer[k] \in {"idle", "done", "error"}

LEMMA FinalStep == TypeOK /\ Final /\ [Next]_vars => Final'
<1> SUFFICES ASSUME TypeOK, Final, [Next]_vars PROVE Final'
  OBVIOUS
<1>1. ASSUME NEW t \in Threads, ThreadStep(t) PROVE Final'
  <2>1. ~gone
    BY <1>1 DEF Final, ThreadStep, Urlopen, Progress, Interrupt, Caller, Acquire, GetConn,
                QueueGet, QueueEmpty, QueueTimeout, NewConnFails, Perform, RequestOk,
                RequestRetry, RequestRaise, Backoff, Return, PutConn, QueuePut, QueueFull,
                WarnFull, Respond, RespondAgain, RespondGiveUp, RespondReturn,
                RespondBadLocation, CallerReleases, CallerCloses, CallerForgets
  <2> QED BY <1>1, <2>1, OneThreadMoves DEF OthersStay, Final
<1>2. ASSUME NEW k \in Closers, Close(k) PROVE Final'
  BY <1>2 DEF Final, Close, CloseTest, CloseSwap, CloseDrain, callers
<1>3. ASSUME NEW c \in Conns, PeerDrops(c) PROVE Final'
  BY <1>3 DEF Final, PeerDrops, callers
<1>4. CASE Finalize
  BY <1>4 DEF Final, Finalize, callers
<1>5. CASE UNCHANGED vars
  BY <1>5 DEF Final, vars
<1> QED BY <1>1, <1>2, <1>3, <1>4, <1>5 DEF Next, ThreadStep

\* Once nobody refers to the pool its sockets are closed, whatever close() and
\* late releases did before.
THEOREM FinalizerClosesAll == Spec => []FinalizedMeansClosed
<1>1. Init => Final
  BY DEF Init, Final
<1>2. Shape /\ Owned /\ Final => FinalizedMeansClosed
  BY DEF Shape, Carries, Owned, Final, FinalizedMeansClosed, HeldBy, Range
<1> QED BY <1>1, <1>2, FinalStep, OwnedInvariance, PTL DEF Spec

LEMMA PutMoves ==
    ASSUME TypeOK, NEW t \in Threads, AfterPut(t) \/ PutRaises(t)
    PROVE  pc'[t] \in {"respond", "get", "idle", "holding"}
BY DEF TypeOK, AfterPut, PutRaises

\* A thread closes only what it holds or has just taken from the queue, and
\* moves on when it does.
LEMMA ClosesOwn ==
    ASSUME TypeOK, Shape, NEW t \in Threads, ThreadStep(t), NEW c \in Conns,
           Open(c), sock'[c] = "closed"
    PROVE  /\ c \in HeldBy(t) \/ c \in Range(queue)
           /\ pc'[t] # pc[t] \/ pc[t] = "holding"
<1> USE DEF TypeOK, Shape, Carries, kept, HeldBy, Open, Closed
<1>1. CASE Urlopen(t) \/ GetConn(t) \/ QueueTimeout(t) \/ NewConnFails(t) \/ Interrupt(t)
  BY <1>1 DEF Urlopen, GetConn, QueueTimeout, NewConnFails, Interrupt
<1>2. CASE QueueGet(t) \/ QueueEmpty(t)
  <2>1. /\ pc[t] = "dequeue" /\ pc'[t] = "request"
        /\ \E d \in Conns : /\ (d = Last(queue) /\ queue # <<>>) \/ ~Open(d)
                           /\ sock' \in {sock, Closed(d)}
    BY <1>2 DEF QueueGet, QueueEmpty, Checkout, Fresh
  <2>2. queue # <<>> => Last(queue) \in Range(queue)
    <3>1. queue \in [1..Len(queue) -> SlotValues] /\ queue \in Seq(SlotValues)
      BY LenProperties
    <3>2. ASSUME queue # <<>>
          PROVE  Len(queue) \in Nat \ {0} /\ Last(queue) = queue[Len(queue)]
      BY <3>1, <3>2, FrontProperties
    <3>3. DOMAIN queue = 1..Len(queue)
      BY <3>1
    <3>4. queue # <<>> => Len(queue) \in DOMAIN queue
      BY <3>2, <3>3
    <3> QED BY <3>2, <3>4 DEF Range
  <2> QED BY <2>1, <2>2
<1>3. CASE RequestOk(t) \/ RequestRetry(t)
  BY <1>3 DEF RequestOk, RequestRetry
<1>4. CASE RequestRaise(t) \/ Backoff(t)
  BY <1>4 DEF RequestRaise, Backoff, Discard
<1>5. CASE PutConn(t)
  <2>1. sock' \in {sock, Closed(Item(t))} /\ Item(t) \in HeldBy(t) \cup {NoConn}
    BY <1>5 DEF PutConn, Item
  <2>2. pc[t] = "put_load" /\ pc'[t] # "put_load"
    BY <1>5, PutMoves DEF PutConn
  <2> QED BY <2>1, <2>2, ConnsAssumption
<1>6. CASE QueueFull(t)
  <2>1. sock' = Closed(Item(t)) /\ Item(t) \in HeldBy(t) \cup {NoConn}
    BY <1>6 DEF QueueFull, Item
  <2>2. pc[t] = "put" /\ pc'[t] # "put"
    BY <1>6, PutMoves DEF QueueFull
  <2> QED BY <2>1, <2>2, ConnsAssumption
<1>7. CASE QueuePut(t) \/ WarnFull(t)
  BY <1>7 DEF QueuePut, WarnFull
<1>8. CASE RespondAgain(t) \/ RespondGiveUp(t) \/ CallerReleases(t)
  <2>1. sock' \in {sock, Closed(resp[t])}
    BY <1>8 DEF RespondAgain, RespondGiveUp, CallerReleases, ReadRest
  <2>2. pc[t] = "holding" \/ pc'[t] # pc[t]
    BY <1>8 DEF RespondAgain, RespondGiveUp, ReleaseConn, CallerReleases
  <2> QED BY <2>1, <2>2, ConnsAssumption
<1>9. CASE RespondReturn(t) \/ CallerCloses(t)
  BY <1>9 DEF RespondReturn, CallerCloses
<1>10. CASE RespondBadLocation(t) \/ CallerForgets(t)
  <2>1. sock' = Closed(resp[t]) /\ pc[t] \in {"respond", "holding"} /\ pc'[t] = "idle"
    BY <1>10 DEF RespondBadLocation, CallerForgets, Forget
  <2> QED BY <2>1, ConnsAssumption
<1> QED BY <1>1, <1>2, <1>3, <1>4, <1>5, <1>6, <1>7, <1>8, <1>9, <1>10
        DEF ThreadStep, Progress, Acquire, Perform, Return, Respond, Caller

\* close(), the finalizer and the other threads never close a connection that a
\* request or a response works with.
THEOREM HoldersClose == Spec => OnlyHolderCloses
<1>1. ASSUME TypeOK, Shape, ExclusiveOwnership, [Next]_vars,
             NEW t \in Threads, NEW c \in HeldBy(t), Open(c), sock'[c] = "closed"
      PROVE  pc'[t] # pc[t] \/ pc[t] = "holding"
  <2>1. c \in Conns /\ c \notin Range(queue)
        /\ \A u \in Threads \ {t} : c \notin HeldBy(u)
    <3>1. c \in Conns
      BY <1>1 DEF TypeOK, SlotValues, HeldBy
    <3>2. HeldBy(t) \cap Range(queue) = {}
          /\ \A u \in Threads : t # u => HeldBy(t) \cap HeldBy(u) = {}
      BY <1>1 DEF ExclusiveOwnership
    <3> QED BY <1>1, <3>1, <3>2
  <2>2. CASE \E u \in Threads : ThreadStep(u)
    BY <1>1, <2>1, <2>2, ClosesOwn
  <2>3. CASE \E k \in Closers : Close(k)
    <3>1. ASSUME queue # <<>> PROVE c # Last(queue)
      BY <2>1, <3>1, PopUnique, <1>1 DEF ExclusiveOwnership, Unique
    <3> QED BY <1>1, <2>1, <2>3, <3>1
            DEF Close, CloseTest, CloseSwap, CloseDrain, callers, Open, Closed
  <2>4. CASE \E d \in Conns : PeerDrops(d)
    BY <1>1, <2>1, <2>4 DEF PeerDrops, TypeOK, Open
  <2>5. CASE Finalize
    BY <1>1, <2>1, <2>5 DEF Finalize, Open
  <2>6. CASE UNCHANGED vars
    BY <1>1, <2>6 DEF vars, Open
  <2> QED BY <1>1, <2>2, <2>3, <2>4, <2>5, <2>6 DEF Next, ThreadStep
<1>2. TypeOK /\ Shape /\ ExclusiveOwnership /\ [Next]_vars
      => [\A t \in Threads : \A c \in HeldBy(t) :
            Open(c) /\ sock'[c] = "closed" => pc'[t] # pc[t] \/ pc[t] = "holding"]_vars
  BY <1>1
<1> QED BY <1>2, ShapeInvariance, OwnershipIsExclusive, PTL DEF Spec, OnlyHolderCloses
=============================================================================
