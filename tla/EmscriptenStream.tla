---------------------------- MODULE EmscriptenStream ----------------------------
(***************************************************************************)
(* Responses in the browser (contrib/emscripten).  Python blocks on a      *)
(* buffer it shares with a web worker (fetch.py: _StreamingFetcher and     *)
(* _ReadStream; emscripten_fetch_worker.js), suspends itself on a promise  *)
(* (_JSPIReadStream), or has the whole body from an XMLHttpRequest; the    *)
(* response (response.py) reads any of them and gives the connection of    *)
(* the pool back.                                                          *)
(*                                                                         *)
(* A body is the units 1 .. size.  The worker runs one handler at a time   *)
(* up to its next await; Python runs beside it and sees every store.       *)
(***************************************************************************)
EXTENDS Integers, Sequences, FiniteSets, SequencesExt, FiniteSetsExt

CONSTANTS
  Requests,     \* the requests made, each at most once
  MaxSize,      \* bound: the units of a body
  Capacity,     \* the units the byte buffer holds
  Asks,         \* the amounts callers pass to read
  Slots,        \* the connections of the pool
  Timed         \* whether requests have a timeout

ASSUME EmscriptenAssumption ==
  /\ MaxSize \in Nat /\ Capacity \in Nat \ {0} /\ Slots \in Nat \ {0}
  /\ Asks \subseteq Nat \ {0} /\ Timed \in BOOLEAN

(* The first number of the shared buffer: a status, or a length.           *)
SUCCESS_HEADER == -1
SUCCESS_EOF == -2
ERROR_TIMEOUT == -3
ERROR_EXCEPTION == -4

All == 0                        \* read() without an amount
Nobody == [r |-> "none", undefined |-> TRUE]
NoConnection == [value |-> <<>>, curOffset |-> -1]

VARIABLES
  size,         \* the units the server will send
  py,           \* the call Python is in
  via,          \* how the request was made
  int0, bytes,  \* the shared buffer of each request
  stream,       \* the body object: its state, is_live, read_len, read_pos
  held,         \* the response holds a connection of the pool
  free,         \* the connections in the pool
  inbox,        \* what has been posted to the worker
  awaiting,     \* the handlers of a request that await something
  connections,  \* the worker's map
  given,        \* the units the browser's reader has handed out
  falling,      \* the handler that has stored an error and goes on
  got, ended,   \* what the caller has been given, and how it ended
  broke         \* ghost: the fetch failed under way
pyVars == <<py, via, stream, held, free, got, ended>>
workerVars == <<awaiting, connections, given, falling, broke>>
vars == <<size, pyVars, int0, bytes, inbox, workerVars>>

Units(from, to) == [i \in 1 .. to - from + 1 |-> from + i - 1]
Least(a, b) == IF a < b THEN a ELSE b
Idle == [pc |-> "idle", r |-> "none", amt |-> All]
NoBody == [state |-> "none", live |-> FALSE, len |-> 0, pos |-> 0]

Init ==
  /\ size \in [Requests -> 0 .. MaxSize]
  /\ py = Idle
  /\ via = [r \in Requests |-> "none"]
  /\ int0 = [r \in Requests |-> 0] /\ bytes = [r \in Requests |-> <<>>]
  /\ stream = [r \in Requests |-> NoBody]
  /\ held = [r \in Requests |-> FALSE] /\ free = Slots
  /\ inbox = <<>>
  /\ awaiting = [r \in Requests |-> <<>>]
  /\ connections = [r \in Requests |-> NoConnection]
  /\ given = [r \in Requests |-> 0]
  /\ falling = Nobody
  /\ got = [r \in Requests |-> <<>>]
  /\ ended = [r \in Requests |-> "no"]
  /\ broke = [r \in Requests |-> FALSE]

(***************************************************************************)
(* Python: a request.  urlopen takes a connection; whoever fails puts it   *)
(* back, and so does a request that preloads.                              *)
(***************************************************************************)
Begin(r, how) ==
  /\ py = Idle /\ via[r] = "none" /\ free > 0
  /\ via' = [via EXCEPT ![r] = how]
  /\ UNCHANGED <<size, workerVars, got>>

(* _StreamingFetcher.send, up to its wait.                                 *)
Send(r) ==
  /\ Begin(r, "worker")
  /\ int0' = [int0 EXCEPT ![r] = ERROR_TIMEOUT]
  /\ inbox' = Append(inbox, [do |-> "fetch", r |-> r])
  /\ py' = [pc |-> "send", r |-> r, amt |-> All]
  /\ free' = free - 1
  /\ UNCHANGED <<bytes, stream, held, ended>>

Raised(r, why) == ended' = [ended EXCEPT ![r] = why]
Opened(r, live, len) ==
  stream' = [stream EXCEPT ![r] = [state |-> "open", live |-> live, len |-> len, pos |-> 0]]

(* ...and after it: the headers, an error, or nothing yet.                 *)
SendReturns(r) ==
  /\ py.pc = "send" /\ py.r = r
  /\ py' = Idle
  /\ IF int0[r] = SUCCESS_HEADER
       THEN /\ Opened(r, TRUE, 0)
            /\ held' = [held EXCEPT ![r] = TRUE]
            /\ UNCHANGED <<free, ended>>
       ELSE /\ Raised(r, IF int0[r] = ERROR_TIMEOUT THEN "timeout" ELSE "error")
            /\ free' = free + 1
            /\ UNCHANGED <<stream, held>>
  /\ UNCHANGED <<size, via, int0, bytes, inbox, workerVars, got>>

SendWakes(r) == int0[r] # ERROR_TIMEOUT /\ SendReturns(r)
SendTimesOut(r) == int0[r] = ERROR_TIMEOUT /\ Timed /\ SendReturns(r)

(* send_request: the whole body at once.  It is read with the connection   *)
(* back in the pool if the caller preloads, else with it in hand.          *)
SendRequest(r, preload) ==
  /\ Begin(r, "whole")
  /\ \/ /\ Opened(r, FALSE, size[r])
        /\ bytes' = [bytes EXCEPT ![r] = Units(1, size[r])]
        /\ held' = [held EXCEPT ![r] = ~preload]
        /\ free' = IF preload THEN free ELSE free - 1
        /\ UNCHANGED ended
     \/ Raised(r, "error") /\ UNCHANGED <<stream, bytes, held, free>>
     \/ Timed /\ Raised(r, "timeout") /\ UNCHANGED <<stream, bytes, held, free>>
  /\ UNCHANGED <<py, int0, inbox>>

(* send_jspi_request for a stream.                                         *)
SendJspi(r) ==
  /\ Begin(r, "jspi")
  /\ \/ /\ Opened(r, FALSE, 0)
        /\ held' = [held EXCEPT ![r] = TRUE] /\ free' = free - 1
        /\ UNCHANGED ended
     \/ Raised(r, "error") /\ UNCHANGED <<stream, held, free>>
     \/ Timed /\ Raised(r, "timeout") /\ UNCHANGED <<stream, held, free>>
  /\ UNCHANGED <<py, int0, bytes, inbox>>

(***************************************************************************)
(* Python: reading.                                                        *)
(***************************************************************************)
Closed == [NoBody EXCEPT !.state = "closed"]

(* Mutant of CloseBody: the worker is not told.                            *)
CloseBodySilent(r, live) ==
  stream' = [stream EXCEPT ![r] = Closed] /\ UNCHANGED inbox

(* _ReadStream.close and _JSPIReadStream.close: the worker is told while   *)
(* the stream is live.                                                     *)
CloseBody(r, live) ==
  /\ stream' = [stream EXCEPT ![r] = Closed]
  /\ inbox' = IF live THEN Append(inbox, [do |-> "close", r |-> r]) ELSE inbox

ReleaseConn(r) ==
  /\ free' = IF held[r] THEN free + 1 ELSE free
  /\ held' = [held EXCEPT ![r] = FALSE]

(* The end of a read: _error_catcher closes what failed and releases the   *)
(* connection when the body is closed.                                     *)
Over(r, why) ==
  /\ CloseBody(r, stream[r].live /\ why # "end")
  /\ ReleaseConn(r)
  /\ Raised(r, why)
  /\ py' = Idle

Read(r, amt) ==
  /\ py = Idle /\ stream[r].state = "open"
  /\ py' = [pc |-> "read", r |-> r, amt |-> amt]
  /\ UNCHANGED <<size, via, int0, bytes, stream, held, free, inbox, workerVars, got, ended>>

Reading(r, pc) ==
  /\ py.pc = pc /\ py.r = r
  /\ UNCHANGED <<size, via, workerVars>>

(* readinto from what is there.  A stream is over when it says so; a body  *)
(* that was there whole is over with its last unit.                        *)
Copy(r) ==
  /\ Reading(r, "read") /\ stream[r].len > 0
  /\ LET s == stream[r]
         n == IF py.amt = All THEN s.len ELSE Least(s.len, py.amt)
     IN  /\ got' = [got EXCEPT ![r] = @ \o SubSeq(bytes[r], s.pos + 1, s.pos + n)]
         /\ IF via[r] = "whole" /\ s.len = n
              THEN Over(r, "end")
              ELSE /\ stream' = [stream EXCEPT ![r].len = @ - n, ![r].pos = @ + n]
                   /\ py' = IF py.amt = All THEN py ELSE Idle
                   /\ UNCHANGED <<held, free, inbox, ended>>
  /\ UNCHANGED <<int0, bytes>>

(* readinto with nothing there: the worker is asked for more.              *)
GetMore(r) ==
  /\ Reading(r, "read") /\ via[r] = "worker" /\ stream[r].len = 0
  /\ int0' = [int0 EXCEPT ![r] = ERROR_TIMEOUT]
  /\ inbox' = Append(inbox, [do |-> "getMore", r |-> r])
  /\ py' = [py EXCEPT !.pc = "wait"]
  /\ UNCHANGED <<bytes, stream, held, free, got, ended>>

Wake(r) ==
  /\ Reading(r, "wait") /\ int0[r] # ERROR_TIMEOUT
  /\ \/ /\ int0[r] > 0
        /\ stream' = [stream EXCEPT ![r].len = int0[r], ![r].pos = 0]
        /\ py' = [py EXCEPT !.pc = "read"]
        /\ UNCHANGED <<held, free, inbox, ended>>
     \/ int0[r] = ERROR_EXCEPTION /\ Over(r, "error")
     \/ int0[r] <= 0 /\ int0[r] # ERROR_EXCEPTION /\ Over(r, "end")
  /\ UNCHANGED <<int0, bytes, got>>

ReadTimesOut(r) ==
  /\ Reading(r, "wait") /\ Timed
  /\ Over(r, "timeout")
  /\ UNCHANGED <<int0, bytes, got>>

(* _JSPIReadStream._get_next_buffer: Python is suspended meanwhile.        *)
GetNextBuffer(r) ==
  /\ py.pc = "read" /\ py.r = r /\ via[r] = "jspi" /\ stream[r].len = 0
  /\ \/ \E n \in 1 .. size[r] - given[r] :
          /\ bytes' = [bytes EXCEPT ![r] = Units(given[r] + 1, given[r] + n)]
          /\ given' = [given EXCEPT ![r] = @ + n]
          /\ stream' = [stream EXCEPT ![r].len = n, ![r].pos = 0]
          /\ UNCHANGED <<py, held, free, inbox, ended, broke>>
     \/ /\ given[r] = size[r] /\ Over(r, "end")
        /\ UNCHANGED <<bytes, given, broke>>
     \/ /\ Over(r, "error") /\ broke' = [broke EXCEPT ![r] = TRUE]
        /\ UNCHANGED <<bytes, given>>
     \/ /\ Timed /\ Over(r, "timeout")
        /\ UNCHANGED <<bytes, given, broke>>
  /\ UNCHANGED <<size, via, int0, awaiting, connections, falling, got>>

(* A body of no units, that was there whole, is over with its first read.  *)
EmptyBody(r) ==
  /\ Reading(r, "read") /\ via[r] = "whole" /\ stream[r].len = 0
  /\ Over(r, "end")
  /\ UNCHANGED <<int0, bytes, got>>

(* The response is closed, drained or dropped: its connection is not put   *)
(* back.                                                                   *)
Close(r) ==
  /\ py = Idle /\ stream[r].state = "open"
  /\ CloseBody(r, stream[r].live)
  /\ Raised(r, IF held[r] THEN "lost" ELSE "closed")
  /\ held' = [held EXCEPT ![r] = FALSE]
  /\ UNCHANGED <<size, py, via, int0, bytes, workerVars, free, got>>

(***************************************************************************)
(* The worker.  No other handler runs while one goes on after an error.    *)
(***************************************************************************)
Handler == falling = Nobody /\ UNCHANGED <<size, pyVars>>
Store(r, n) == int0' = [int0 EXCEPT ![r] = n]
Taken(r, what) ==
  inbox # <<>> /\ Head(inbox) = [do |-> what, r |-> r] /\ inbox' = Tail(inbox)

TakeFetch(r) ==
  /\ Handler /\ Taken(r, "fetch")
  /\ awaiting' = [awaiting EXCEPT ![r] = Append(@, "fetch")]
  /\ UNCHANGED <<int0, bytes, connections, given, falling, broke>>

(* A response without a body fails like a fetch that does.                 *)
Fetched(r) ==
  /\ Handler /\ awaiting[r] # <<>> /\ Head(awaiting[r]) = "fetch"
  /\ awaiting' = [awaiting EXCEPT ![r] = Tail(@)]
  /\ \/ /\ connections' = [connections EXCEPT ![r] = [value |-> <<>>, curOffset |-> 0]]
        /\ Store(r, SUCCESS_HEADER)
     \/ Store(r, ERROR_EXCEPTION) /\ UNCHANGED connections
  /\ UNCHANGED <<bytes, inbox, given, falling, broke>>

TakeClose(r) ==
  /\ Handler /\ Taken(r, "close")
  /\ connections' = [connections EXCEPT ![r] = NoConnection]
  /\ UNCHANGED <<int0, bytes, awaiting, given, falling, broke>>

(* Mutants of SendBuffer: the length is not that of the buffer; the place  *)
(* in the value is not remembered.                                         *)
SendBufferWhole(r, value, curOffset) ==
  /\ bytes' = [bytes EXCEPT ![r] = SubSeq(value, curOffset + 1, Len(value))]
  /\ Store(r, Len(value) - curOffset)
  /\ connections' = [connections EXCEPT ![r] = [value |-> value, curOffset |-> Len(value)]]

SendBufferForgets(r, value, curOffset) ==
  LET curLen == Least(Len(value) - curOffset, Capacity)
  IN  /\ bytes' = [bytes EXCEPT ![r] = SubSeq(value, curOffset + 1, curOffset + curLen)]
      /\ Store(r, curLen)
      /\ connections' = [connections EXCEPT ![r] = [value |-> value, curOffset |-> curOffset]]

(* As much of a value as the buffer holds.                                 *)
SendBuffer(r, value, curOffset) ==
  LET curLen == Least(Len(value) - curOffset, Capacity)
  IN  /\ bytes' = [bytes EXCEPT ![r] = SubSeq(value, curOffset + 1, curOffset + curLen)
                                         \o SubSeq(@, curLen + 1, Len(@))]
      /\ Store(r, curLen)
      /\ connections' = [connections EXCEPT
            ![r] = [value |-> value, curOffset |-> curOffset + curLen]]

TakeGetMore(r) ==
  /\ Handler /\ Taken(r, "getMore")
  /\ LET c == connections[r]
     IN  IF c = NoConnection
           THEN UNCHANGED <<int0, bytes, connections, awaiting>>
           ELSE IF c.curOffset < Len(c.value)
             THEN SendBuffer(r, c.value, c.curOffset) /\ UNCHANGED awaiting
             ELSE /\ awaiting' = [awaiting EXCEPT ![r] = Append(@, "read")]
                  /\ UNCHANGED <<int0, bytes, connections>>
  /\ UNCHANGED <<given, falling, broke>>

(* The reader answers: with a piece, with the end, or with an error.  A    *)
(* connection that was closed meanwhile makes a piece an error too.        *)
Answers(r) ==
  /\ Handler /\ awaiting[r] # <<>> /\ Head(awaiting[r]) = "read"
  /\ awaiting' = [awaiting EXCEPT ![r] = Tail(@)]
  /\ UNCHANGED inbox

Piece(r) ==
  /\ Answers(r) /\ connections[r] # NoConnection
  /\ \E n \in 1 .. size[r] - given[r] :
       /\ SendBuffer(r, Units(given[r] + 1, given[r] + n), 0)
       /\ given' = [given EXCEPT ![r] = @ + n]
  /\ UNCHANGED <<falling, broke>>

(* Mutant of Done: nobody is told.                                         *)
DoneSilent(r) ==
  /\ Answers(r) /\ given[r] = size[r]
  /\ connections' = [connections EXCEPT ![r] = NoConnection]
  /\ UNCHANGED <<int0, bytes, given, falling, broke>>

Done(r) ==
  /\ Answers(r) /\ given[r] = size[r]
  /\ connections' = [connections EXCEPT ![r] = NoConnection]
  /\ Store(r, SUCCESS_EOF)
  /\ UNCHANGED <<bytes, given, falling, broke>>

\* The handler has its value from before it waited; of a stream that has been
\* closed since, it may have one or not.
Breaks(r) ==
  /\ Answers(r)
  /\ connections[r] # NoConnection \/ given[r] < size[r]
  /\ Store(r, ERROR_EXCEPTION)
  /\ \E undefined \in BOOLEAN :
        /\ connections[r] # NoConnection => undefined = (connections[r].value = <<>>)
        /\ falling' = [r |-> r, undefined |-> undefined]
  /\ broke' = [broke EXCEPT ![r] = TRUE]
  /\ UNCHANGED <<bytes, connections, given>>

(* After the catch the handler goes on to send the rest of the old value:  *)
(* nothing, or, if there is none, it ends in a TypeError.                  *)
FallThrough ==
  /\ falling # Nobody
  /\ IF falling.undefined THEN UNCHANGED int0 ELSE Store(falling.r, 0)
  /\ falling' = Nobody
  /\ UNCHANGED <<size, pyVars, bytes, inbox, awaiting, connections, given, broke>>

Python(r) ==
  \/ SendWakes(r) \/ Copy(r) \/ GetMore(r) \/ Wake(r)
  \/ GetNextBuffer(r) \/ EmptyBody(r)
Worker(r) == TakeFetch(r) \/ TakeClose(r) \/ TakeGetMore(r)
Browser(r) == Fetched(r) \/ Piece(r) \/ Done(r) \/ Breaks(r)

Next ==
  \/ \E r \in Requests :
       \/ Send(r) \/ SendJspi(r) \/ Close(r)
       \/ \E preload \in BOOLEAN : SendRequest(r, preload)
       \/ \E amt \in Asks \cup {All} : Read(r, amt)
       \/ Python(r) \/ SendTimesOut(r) \/ ReadTimesOut(r)
       \/ Worker(r) \/ Browser(r)
  \/ FallThrough

Spec == Init /\ [][Next]_vars

(* Python and the worker go on, the server answers or fails in the end; no *)
(* timeout need ever fire.                                                 *)
FairSpec ==
  /\ Spec /\ WF_vars(FallThrough)
  /\ \A r \in Requests :
       WF_vars(Python(r)) /\ WF_vars(Worker(r)) /\ WF_vars(Browser(r))

(***************************************************************************)
(* Properties.                                                             *)
(***************************************************************************)
TypeOK ==
  /\ size \in [Requests -> 0 .. MaxSize]
  /\ py.pc \in {"idle", "send", "read", "wait"}
  /\ py.r \in Requests \cup {"none"} /\ py.amt \in Asks \cup {All}
  /\ via \in [Requests -> {"none", "worker", "whole", "jspi"}]
  /\ int0 \in [Requests -> -4 .. Capacity]
  /\ \A r \in Requests :
       /\ stream[r].state \in {"none", "open", "closed"} /\ stream[r].live \in BOOLEAN
       /\ stream[r].len > 0 => stream[r].pos + stream[r].len <= Len(bytes[r])
       /\ Range(bytes[r]) \cup Range(got[r]) \subseteq 1 .. size[r]
       /\ Range(awaiting[r]) \subseteq {"fetch", "read"}
       /\ connections[r].curOffset \in -1 .. Len(connections[r].value)
       /\ given[r] \in 0 .. size[r]
  /\ held \in [Requests -> BOOLEAN] /\ broke \in [Requests -> BOOLEAN]
  /\ free \in 0 .. Slots
  /\ \A i \in DOMAIN inbox : inbox[i].do \in {"fetch", "getMore", "close"}
  /\ ended \in [Requests -> {"no", "end", "error", "timeout", "closed", "lost"}]

(* Whatever the pieces of the network, the buffer and the reader, and      *)
(* whoever gives up when, a caller has been given the units of its own     *)
(* body from the first on, none left out and none twice; and when it is    *)
(* told that this was all, then it was, unless the fetch broke.            *)
BodyInOrder ==
  \A r \in Requests :
    /\ got[r] = Units(1, Len(got[r]))
    /\ ended[r] = "end" => Len(got[r]) = size[r] \/ broke[r]

(* Nothing is left behind.  What the worker keeps belongs to a stream that *)
(* can still close it or has; the exceptions are a request that was given  *)
(* up before its headers came and a fetch that broke.  Every connection of *)
(* the pool is in it, in use, or was lost by closing a response early.     *)
NothingLeftBehind ==
  /\ \A r \in Requests : connections[r] # NoConnection =>
       \/ stream[r].live \/ broke[r]
       \/ stream[r].state = "none" /\ ended[r] = "timeout"
       \/ py.pc = "send" /\ py.r = r
       \/ [do |-> "close", r |-> r] \in Range(inbox)
  /\ free + Cardinality({r \in Requests : held[r] \/ ended[r] = "lost"})
       + (IF py.pc = "send" THEN 1 ELSE 0) = Slots

(* Every call returns: also when the fetch fails, when the stream was      *)
(* closed while the worker was reading, and without waiting for a timeout. *)
CallsReturn == py # Idle ~> py = Idle

(* fetch.py, at a length that is not positive: "EOF, free the buffers and  *)
(* return zero".                                                           *)
ZeroIsEOF ==
  \A r \in Requests : ended[r] = "end" => Len(got[r]) = size[r]
================================================================================
