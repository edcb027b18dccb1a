---------------------------- MODULE Http2Connection ----------------------------
(***************************************************************************)
(* An HTTP2Connection (http2/connection.py) and its server.  The library   *)
(* h2 turns the calls of the connection into frames and queues them; only  *)
(* data_to_send and sendall put them on the wire, and only getresponse     *)
(* reads what the server sends.  The pool's part is one request after      *)
(* another on the connection, and a close after any error.                 *)
(*                                                                         *)
(* Requests are numbered, and a field is the request it was put for.  A    *)
(* body is none, a byte string (one DATA frame), or a stream of chunks (a  *)
(* file or an iterable).                                                   *)
(***************************************************************************)
EXTENDS Integers, Sequences, SequencesExt

CONSTANTS
  Bodies,        \* the bodies of requests: [kind, size]
  Window,        \* h2: the flow control window
  MaxFrame,      \* h2: the largest DATA frame
  MaxData,       \* bound: the DATA frames of a response
  MaxRequests    \* bound: the requests of a behaviour

ASSUME Http2Assumption ==
  /\ {Window, MaxFrame, MaxData, MaxRequests} \subseteq Nat \ {0}
  /\ \A b \in Bodies : /\ b.kind \in {"none", "bytes", "stream"} /\ b.size \in Nat
                       /\ b.kind = "none" => b.size = 0

VARIABLES
  pc,        \* what the thread does
  request,   \* the number of the request and its body
  left,      \* the chunks of a stream not yet sent
  conn,      \* the connection: sock, _h2_stream, _headers
  h2,        \* the H2Connection: next stream, frames queued, window
  out, in,   \* the frames on their way to the server and from it
  server,    \* what the server makes of each stream of the connection
  eof,       \* the server has closed the connection
  reading,   \* what getresponse has gathered
  response   \* the response it returned last
vars == <<pc, request, left, conn, h2, out, in, server, eof, reading, response>>

Frame(type, stream, fields, size, end) ==
  [type |-> type, stream |-> stream, fields |-> fields, size |-> size, end |-> end]
Headers(s, fields, end) == Frame("HEADERS", s, fields, 0, end)
Data(s, size, end) == Frame("DATA", s, <<>>, size, end)
Settings == Frame("SETTINGS", 0, <<>>, 0, FALSE)
Acknowledged(type) == Frame(type, 0, <<>>, 0, FALSE)
WindowUpdate(size) == Frame("WINDOW_UPDATE", 0, <<>>, size, FALSE)

NewH2 == [next |-> 1, queued |-> <<>>, window |-> Window]
NewConn == [sock |-> FALSE, stream |-> 0, fields |-> <<>>]
NotReading == [of |-> 0, size |-> 0, ended |-> FALSE]

Init ==
  /\ pc = "idle" /\ left = 0
  /\ request \in [number : {0}, body : Bodies]
  /\ conn = NewConn /\ h2 = NewH2
  /\ out = <<>> /\ in = <<>> /\ server = <<>> /\ eof = FALSE
  /\ reading = NotReading
  /\ response = [request |-> 0, stream |-> 0, of |-> 0, size |-> 0, sent |-> 0]

(* Mutant of Close: the fields of a request that failed stay.              *)
CloseKeeps ==
  /\ conn' = [NewConn EXCEPT !.fields = conn.fields]
  /\ h2' = NewH2
  /\ out' = <<>> /\ in' = <<>> /\ server' = <<>> /\ eof' = FALSE
  /\ reading' = NotReading

(* close: GOAWAY and all that was queued go out if they can, and a new     *)
(* H2Connection takes the place of the old.                                *)
Close ==
  /\ conn' = NewConn
  /\ h2' = NewH2
  /\ out' = <<>> /\ in' = <<>> /\ server' = <<>> /\ eof' = FALSE
  /\ reading' = NotReading

(***************************************************************************)
(* urlopen: a connection with something to read counts as dropped.         *)
(***************************************************************************)
Urlopen(body) ==
  /\ pc = "idle" /\ request.number < MaxRequests
  /\ request' = [number |-> request.number + 1, body |-> body]
  /\ left' = IF body.kind = "stream" THEN body.size ELSE 0
  /\ IF conn.sock /\ (in # <<>> \/ eof)
       THEN Close /\ pc' = "connect"
       ELSE /\ pc' = IF conn.sock THEN "request" ELSE "connect"
            /\ UNCHANGED <<conn, h2, out, in, server, eof, reading>>
  /\ UNCHANGED response

(* connect: initiate_connection, and its preface is written.               *)
Connect ==
  /\ pc = "connect"
  /\ conn' = [conn EXCEPT !.sock = TRUE]
  /\ out' = Append(h2.queued, Settings)
  /\ h2' = [h2 EXCEPT !.queued = <<>>]
  /\ pc' = "request"
  /\ UNCHANGED <<request, left, in, server, eof, reading, response>>

(* Mutant of PutRequest: stream numbers are counted one by one.            *)
PutRequestOdd ==
  /\ pc = "request"
  /\ conn' = [conn EXCEPT !.fields = Append(@, request), !.stream = @ + 1]
  /\ pc' = "headers"
  /\ UNCHANGED <<request, left, h2, out, in, server, eof, reading, response>>

(* putrequest and putheader: the stream is only chosen, and nothing sent.  *)
PutRequest ==
  /\ pc = "request"
  /\ conn' = [conn EXCEPT !.fields = Append(@, request), !.stream = h2.next]
  /\ pc' = "headers"
  /\ UNCHANGED <<request, left, h2, out, in, server, eof, reading, response>>

(* data_to_send and sendall.                                               *)
Flush(frames) ==
  /\ out' = out \o frames
  /\ h2' = [h2 EXCEPT !.queued = <<>>]

EndHeaders ==
  /\ pc = "headers"
  /\ LET end == request.body.kind = "none"
         frames == Append(h2.queued, Headers(conn.stream, conn.fields, end))
     IN  /\ out' = out \o frames
         /\ h2' = [h2 EXCEPT !.queued = <<>>, !.next = conn.stream + 2]
         /\ pc' = IF end THEN "wait" ELSE request.body.kind
  /\ conn' = [conn EXCEPT !.fields = <<>>]
  /\ reading' = NotReading
  /\ UNCHANGED <<request, left, in, server, eof, response>>

Fits(size) == size <= MaxFrame /\ size <= h2.window

(* Mutant of SendBytes: the DATA frame is queued, and not sent.            *)
SendBytesQueued ==
  /\ pc = "bytes" /\ Fits(request.body.size)
  /\ h2' = [h2 EXCEPT !.queued = Append(@, Data(conn.stream, request.body.size, TRUE)),
                      !.window = @ - request.body.size]
  /\ pc' = "wait"
  /\ UNCHANGED <<request, left, conn, out, in, server, eof, reading, response>>

(* send of a byte string: h2 refuses one that is too long for a frame or   *)
(* for the window (see Fail).                                              *)
SendBytes ==
  /\ pc = "bytes" /\ Fits(request.body.size)
  /\ out' = out \o Append(h2.queued, Data(conn.stream, request.body.size, TRUE))
  /\ h2' = [h2 EXCEPT !.queued = <<>>, !.window = @ - request.body.size]
  /\ pc' = "wait"
  /\ UNCHANGED <<request, left, conn, in, server, eof, reading, response>>

(* send of a stream, one chunk at a time; its end is queued, not sent.     *)
SendChunk ==
  /\ pc = "stream" /\ left > 0 /\ Fits(1)
  /\ out' = out \o Append(h2.queued, Data(conn.stream, 1, FALSE))
  /\ h2' = [h2 EXCEPT !.queued = <<>>, !.window = @ - 1]
  /\ left' = left - 1
  /\ UNCHANGED <<pc, request, conn, in, server, eof, reading, response>>

EndStream ==
  /\ pc = "stream" /\ left = 0
  /\ h2' = [h2 EXCEPT !.queued = Append(@, Data(conn.stream, 0, TRUE))]
  /\ pc' = "wait"
  /\ UNCHANGED <<request, left, conn, out, in, server, eof, reading, response>>

(***************************************************************************)
(* getresponse.  What one recv brings is handed to h2, frame by frame: a   *)
(* window update, an acknowledgement to queue, or an event for the loop,   *)
(* which looks at no stream number.  Then the queue is written, and the    *)
(* loop ends once some stream has ended.                                   *)
(***************************************************************************)
GatheredLast(r, frame) ==    \* Mutant of Gathered: only the last data are kept
  [of    |-> IF frame.type = "HEADERS" THEN frame.stream ELSE r.of,
   size  |-> IF frame.type = "DATA" THEN frame.size ELSE r.size,
   ended |-> r.ended \/ frame.end]

Gathered(r, frame) ==
  [of    |-> IF frame.type = "HEADERS" THEN frame.stream ELSE r.of,
   size  |-> r.size + IF frame.type = "DATA" THEN frame.size ELSE 0,
   ended |-> r.ended \/ frame.end]

(* What h2 makes of the frames: what the loop gathers, what the server     *)
(* grants to the window, and the acknowledgements.                         *)
Takes(t, f) ==
  [read    |-> Gathered(t.read, f),
   granted |-> IF f.type = "WINDOW_UPDATE" THEN t.granted + f.size ELSE t.granted,
   answers |-> CASE f.type = "DATA" -> Append(t.answers, Acknowledged("WINDOW_UPDATE"))
                 [] f.type = "SETTINGS" -> Append(t.answers, Acknowledged("ACK"))
                 [] OTHER -> t.answers]

Taken(frames) ==
  FoldLeft(Takes, [read |-> reading, granted |-> 0, answers |-> <<>>], frames)

Receive ==
  /\ pc = "wait"
  /\ \E k \in 1 .. Len(in) :
       LET taken == Taken(SubSeq(in, 1, k))
           r == taken.read
       IN  /\ in' = SubSeq(in, k + 1, Len(in))
           /\ out' = out \o h2.queued \o taken.answers
           /\ h2' = [h2 EXCEPT !.queued = <<>>, !.window = @ + taken.granted]
           /\ reading' = r
           /\ IF r.ended
                THEN /\ pc' = "idle"
                     /\ response' = [request |-> request.number, stream |-> conn.stream,
                                     of |-> r.of, size |-> r.size,
                                     sent |-> IF r.of \in DOMAIN server
                                                THEN server[r.of].sent ELSE 0]
                ELSE UNCHANGED <<pc, response>>
  /\ UNCHANGED <<request, left, conn, server, eof>>

(* The server has closed: recv returns nothing at once, again and again.   *)
Spin ==
  /\ pc = "wait" /\ eof /\ in = <<>>
  /\ Flush(h2.queued)
  /\ UNCHANGED <<pc, request, left, conn, in, server, eof, reading, response>>

(* An error at any step (an illegal field, a body h2 refuses, a socket     *)
(* that fails or times out): urlopen closes the connection.                *)
Fail ==
  /\ pc # "idle"
  /\ Close
  /\ pc' = "idle"
  /\ UNCHANGED <<request, left, response>>

(***************************************************************************)
(* The server.  It reads frames, and may update the window; it answers a   *)
(* stream when it has ended, or before; it may reset it, or go away.       *)
(***************************************************************************)
NewStream(f) == [fields |-> f.fields, size |-> 0, ended |-> f.end,
                 answer |-> "none", sent |-> 0]

ServerSettings ==
  /\ conn.sock /\ out # <<>> /\ Head(out).type = "SETTINGS" /\ ~eof
  /\ out' = Tail(out)
  /\ in' = Append(in, Settings)
  /\ UNCHANGED <<pc, request, left, conn, h2, server, eof, reading, response>>

ServerReads ==
  /\ out # <<>> /\ Head(out).type # "SETTINGS" /\ ~eof
  /\ out' = Tail(out)
  /\ LET f == Head(out)
     IN  CASE f.type = "HEADERS" ->
                server' = [s \in DOMAIN server \cup {f.stream} |->
                             IF s = f.stream THEN NewStream(f) ELSE server[s]]
           [] f.type = "DATA" ->
                server' = [server EXCEPT ![f.stream].size = @ + f.size,
                                         ![f.stream].ended = f.end]
           [] OTHER -> UNCHANGED server
  /\ \/ UNCHANGED in
     \/ Head(out).type = "DATA" /\ Head(out).size > 0
        /\ in' = Append(in, WindowUpdate(Head(out).size))
  /\ UNCHANGED <<pc, request, left, conn, h2, eof, reading, response>>

Emits(s, frame) ==
  /\ ~eof /\ s \in DOMAIN server
  /\ in' = Append(in, frame)
  /\ UNCHANGED <<pc, request, left, conn, h2, out, eof, reading, response>>

ServerHeaders(s) ==
  /\ Emits(s, Headers(s, <<>>, FALSE))
  /\ server[s].answer = "none"
  /\ server' = [server EXCEPT ![s].answer = "headers"]

ServerData(s) ==
  /\ Emits(s, Data(s, 1, FALSE))
  /\ server[s].answer = "headers" /\ server[s].sent < MaxData
  /\ server' = [server EXCEPT ![s].sent = @ + 1]

ServerEnds(s) ==
  /\ Emits(s, Data(s, 0, TRUE))
  /\ server[s].answer = "headers"
  /\ server' = [server EXCEPT ![s].answer = "ended"]

ServerResets(s) ==
  /\ Emits(s, Frame("RST_STREAM", s, <<>>, 0, FALSE))
  /\ server[s].answer \in {"none", "headers"}
  /\ server' = [server EXCEPT ![s].answer = "reset"]

ServerCloses ==
  /\ conn.sock /\ ~eof
  /\ eof' = TRUE
  /\ UNCHANGED <<pc, request, left, conn, h2, out, in, server, reading, response>>

Streams == {2 * i - 1 : i \in 1 .. MaxRequests}

Client ==
  \/ \E body \in Bodies : Urlopen(body)
  \/ Connect \/ PutRequest \/ EndHeaders \/ SendBytes \/ SendChunk \/ EndStream
  \/ Receive \/ Spin \/ Fail

Server ==
  \/ ServerSettings \/ ServerReads \/ ServerCloses
  \/ \E s \in Streams : ServerHeaders(s) \/ ServerData(s) \/ ServerEnds(s)
                          \/ ServerResets(s)

Next == Client \/ Server

Spec == Init /\ [][Next]_vars

(* The thread goes on as long as nothing fails; a server reads what it is  *)
(* sent, and answers a request that has ended.                             *)
Fairness ==
  /\ WF_vars(Connect \/ PutRequest \/ EndHeaders \/ SendBytes \/ SendChunk
             \/ EndStream \/ Receive)
  /\ WF_vars(ServerSettings \/ ServerReads)
  /\ \A s \in Streams : /\ WF_vars(ServerHeaders(s) /\ server[s].ended)
                        /\ WF_vars(ServerEnds(s))

FairSpec == Spec /\ Fairness

(***************************************************************************)
(* Properties.                                                             *)
(***************************************************************************)
Requests == [number : 0 .. MaxRequests, body : Bodies]

TypeOK ==
  /\ pc \in {"idle", "connect", "request", "headers", "bytes", "stream", "wait"}
  /\ request \in Requests /\ left \in Nat
  /\ conn.sock \in BOOLEAN /\ conn.stream \in {0} \cup Streams
  /\ conn.fields \in Seq(Requests)
  /\ h2.next \in Nat /\ h2.next % 2 = 1 /\ h2.window \in 0 .. Window
  /\ DOMAIN server \subseteq Streams /\ eof \in BOOLEAN
  /\ reading.of \in {0} \cup Streams /\ reading.size \in Nat

(* What the server takes for a request is one request: the fields of no    *)
(* other, whatever happened to those before it on this connection, and     *)
(* once the stream has ended the whole body and nothing but the body.      *)
RequestWhole ==
  \A s \in DOMAIN server :
    /\ Len(server[s].fields) = 1
    /\ server[s].ended => server[s].size = server[s].fields[1].body.size

(* getresponse returns the response to the request it was called for, with *)
(* all the data the server sent in it.                                     *)
ResponseWhole ==
  response.request > 0 =>
    response.of = response.stream /\ response.size = response.sent

(* Once a request without a body, or with a byte string, is sent, a server *)
(* that stays and does not reset the stream gets it to its end, and the    *)
(* thread its response.                                                    *)
Gone == eof \/ \E s \in DOMAIN server : server[s].answer = "reset"
Waiting(k, kinds) ==
  pc = "wait" /\ request.number = k /\ request.body.kind \in kinds

BytesAnswered ==
  \A k \in 1 .. MaxRequests :
    Waiting(k, {"none", "bytes"}) ~> (~Waiting(k, {"none", "bytes"}) \/ Gone)

(* send promises the same for "iterable, or file-like objects".            *)
StreamsAnswered ==
  \A k \in 1 .. MaxRequests : Waiting(k, {"stream"}) ~> (~Waiting(k, {"stream"}) \/ Gone)
================================================================================
