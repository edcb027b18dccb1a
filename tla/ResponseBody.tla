----------------------------- MODULE ResponseBody -----------------------------
(***************************************************************************)
(* urllib3.response.HTTPResponse: one response whose body is read, in any   *)
(* mixture of calls, from an http.client.HTTPResponse (_fp, which is also   *)
(* _original_response), decoded, kept in a BytesQueueBuffer and returned.   *)
(*                                                                         *)
(* What is on the wire is a sequence of units.  A unit stands for some      *)
(* encoded bytes, and u.out are the decoded bytes it stands for, each with  *)
(* an identity: a byte that is lost, repeated or out of place shows.  Units *)
(* that start or end a compressed member are marked.                        *)
(*                                                                         *)
(* One thread reads; the network decides how much a read1() finds, when a   *)
(* read times out and where a response breaks off.                          *)
(***************************************************************************)
EXTENDS Integers, Sequences, SequencesExt, Functions

CONSTANTS
    None,        \* the value None
    Scenarios,   \* the responses and what their reader does, see below
    ChunkSize,   \* the server's chunks have so many units
    Big          \* more units than any wire has: _READ_CHUNK_SIZE, 8192

Framings == {"length", "close", "chunked"}
Codings  == {"identity", "deflate", "gzip", "br"}
Methods  == {"read", "data", "read1", "stream"}

\* A scenario: the framing and coding of a response, its units, whether deflate
\* data lacks the zlib format, how many units the server sends before it closes
\* the connection, decode_content, the calls <<method, amt>> of the reader, and
\* whether it may drain or close the response.
Unit == [id : Nat, out : Seq(Nat), start : BOOLEAN, end : BOOLEAN]
\* Without a coding, or without decode_content, the units are the bytes themselves.
Plainly(s) == s.coding = "identity" \/ ~s.decode
IsScenario(s) ==
    /\ s.framing \in Framings /\ s.coding \in Codings
    /\ s.wire \in Seq(Unit) /\ s.sent \in 0..Len(s.wire)
    /\ s.raw \in BOOLEAN /\ s.decode \in BOOLEAN
    /\ Plainly(s) => \A i \in DOMAIN s.wire : Len(s.wire[i].out) = 1
    /\ s.ends \subseteq {"drain", "close"}
    /\ \A c \in s.calls : c[1] \in Methods /\ c[2] \in Nat \cup {None}

\* What a decompressobj is, and a decoder: DeflateDecoder, GzipDecoder or BrotliDecoder
ZState == [at : Nat, done : BOOLEAN, pend : Seq(Nat), tail : Seq(Unit), unused : Seq(Unit)]
Decoder == [z : ZState, kept : Seq(Unit),
            state : {"try", "first", "settled", "swallow", "other"}]

ASSUME NoneAssumption     == None \notin Nat
ASSUME DecoderAssumption  == None \notin Decoder
ASSUME ScenarioAssumption == \A s \in Scenarios : IsScenario(s) /\ Len(s.wire) < Big
ASSUME ChunkAssumption    == ChunkSize \in Nat \ {0}
ASSUME BigAssumption      == Big \in Nat

VARIABLES
    scenario,   \* rigid
    next,       \* how many units have been read from the network
    fpopen,     \* ~_fp.isclosed()
    fpchunk,    \* http.client has begun a chunk (its own chunk_left is not None)
    chunk_left, \* chunk_left of read_chunked
    length_remaining,
    decoder,    \* _decoder
    hasdecoded, \* _has_decoded_content
    buffer,     \* _decoded_buffer: its deque of chunks and _size
    cached,     \* _body
    uncached,   \* _uncached_read_occurred
    conn,       \* the connection is "held", or was "put" into the pool
    sock,       \* the connection's socket is "open" or "closed"
    call,       \* the call that is in progress
    iter,       \* the amt of the stream() generator that is being iterated
    last,       \* history: how the last call ended
    delivered,  \* history: the bytes returned so far
    spoiled     \* history: an error was raised, or the body closed or drained

network == <<next, fpopen, fpchunk, length_remaining>>
reading == <<decoder, hasdecoded, buffer, cached, uncached>>
vars == <<scenario, network, chunk_left, reading, conn, sock, call, iter, last,
          delivered, spoiled>>

wire == scenario.wire
Bytes(units) == FlattenSeq([i \in DOMAIN units |-> units[i].out])
Body == Bytes(wire)

Least(S) == CHOOSE n \in S : \A m \in S : n <= m
Take(s, n) == SubSeq(s, 1, n)
Drop(s, n) == SubSeq(s, n + 1, Len(s))
\* The member of a set of one.  (Operands bound this way are evaluated once.)
The(S) == CHOOSE x \in S : TRUE
Smaller(a, b) == IF a < b THEN a ELSE b
\* amt, where None means everything
Limit(amt, n) == IF amt = None THEN n ELSE Smaller(amt, n)

-----------------------------------------------------------------------------
(* zlib.decompressobj: at is the unit it has come to (0 at the start), pend   *)
(* the output it holds back, tail unconsumed_tail, unused unused_data.        *)

NewZ == [at |-> 0, done |-> FALSE, pend |-> <<>>, tail |-> <<>>, unused |-> <<>>]
Eof(z) == z.done /\ z.pend = <<>>

\* decompress(data, max_length): at most max bytes of output.  Input is consumed
\* until there is output that has no room; that output is held back.  At the
\* end of the member what follows goes to unused_data, now and in later calls.
Zlib(z, data, max) ==
    LET upto(n) == z.pend \o Bytes(Take(data, n))
        before(n) == IF n = 1 THEN z.at ELSE data[n - 1].id
        legal(n) == IF before(n) = 0 THEN data[n].start
                    ELSE ~data[n].start /\ data[n].id = before(n) + 1
        stops(n) == \/ n = Len(data) \/ z.done
                    \/ max # None /\ Len(upto(n)) > max
                    \/ n > 0 /\ (data[n].end \/ ~legal(n))
        \* n units are consumed, which makes the bytes all
        result(n, all) ==
            LET room == Limit(max, Len(all))
                done == z.done \/ (n > 0 /\ data[n].end)
                eof  == done /\ room = Len(all)
            IN [z   |-> [at     |-> IF n = 0 THEN z.at ELSE data[n].id,
                         done   |-> done,
                         pend   |-> Drop(all, room),
                         tail   |-> IF eof THEN <<>> ELSE Drop(data, n),
                         unused |-> IF eof THEN z.unused \o Drop(data, n) ELSE z.unused],
                out |-> Take(all, room),
                ok  |-> n = 0 \/ legal(n)]
    IN IF Eof(z)
       THEN [z |-> [z EXCEPT !.unused = @ \o data, !.tail = <<>>], out |-> <<>>, ok |-> TRUE]
       ELSE The({result(n, upto(n)) : n \in
                    {n \in 0..Len(data) : stops(n) /\ \A m \in 0..n - 1 : ~stops(m)}})

\* flush(): all output there is, from what is held back and from the tail
ZlibFlush(z) == Zlib(z, z.tail, None)

(* DeflateDecoder and GzipDecoder.  state is "try" while _first_try, and the   *)
(* GzipDecoderState; kept is _first_try_data or _unconsumed_tail.             *)

NewDecoder ==
    [z |-> NewZ, kept |-> <<>>,
     state |-> IF scenario.coding = "gzip" THEN "first" ELSE "try"]

\* DeflateDecoder.decompress(data, max): it tries the zlib format, which fails
\* at the second byte of raw deflate data, and starts again without it.
Deflate(d, data, max) ==
    LET kept == d.kept \o data
        settled(r) == [d |-> [z |-> r.z, kept |-> <<>>, state |-> "settled"],
                       out |-> r.out, ok |-> r.ok]
        tried(r) == IF r.out # <<>> \/ ~r.ok THEN settled(r)
                    ELSE [d |-> [z |-> r.z, kept |-> kept, state |-> "try"],
                          out |-> <<>>, ok |-> TRUE]
    IN IF data = <<>> /\ d.z.tail = <<>> THEN [d |-> d, out |-> <<>>, ok |-> TRUE]
       ELSE IF d.state = "settled"
       THEN The({settled(r) : r \in {Zlib(d.z, d.z.tail \o data, max)}})
       ELSE IF ~scenario.raw
       THEN The({tried(r) : r \in {Zlib(d.z, data, max)}})
       ELSE IF Len(kept) >= 2
       THEN The({settled(r) : r \in {Zlib(NewZ, kept, max)}})
       ELSE [d |-> [d EXCEPT !.kept = kept], out |-> <<>>, ok |-> TRUE]

\* One pass of the loop of GzipDecoder.decompress over a loop state
\* [d, data, ret, going, ok]
GzipPass(l, max) ==
    LET pass(r) ==
            LET ret  == l.ret \o r.out
                data == IF r.z.tail # <<>> THEN r.z.tail ELSE r.z.unused
                full == max # None /\ Len(ret) >= max
            IN IF ~r.ok
               THEN [l EXCEPT !.d = [@ EXCEPT !.state = "swallow", !.kept = <<>>],
                              !.going = FALSE, !.ok = l.d.state = "other"]
               ELSE IF full \/ data = <<>> \/ ~Eof(r.z)
               THEN [l EXCEPT !.d = [@ EXCEPT !.z = r.z, !.kept = data], !.data = data,
                              !.ret = ret, !.going = ~full /\ data # <<>>]
               ELSE [l EXCEPT !.d = [z |-> NewZ, kept |-> data, state |-> "other"],
                              !.data = data, !.ret = ret]
    IN The({pass(r) : r \in {Zlib(l.d.z, l.data,
                                  IF max = None THEN None ELSE max - Len(l.ret))}})

\* GzipDecoder.decompress(data, max): member after member; garbage after a
\* member is swallowed.  Each pass but the last ends a member, so there are
\* fewer passes than twice the units at hand.
Gzip(d, data, max) ==
    LET all == d.kept \o data
        pass[n \in 0..2 * Len(all) + 2] ==
            IF n = 0 THEN [d |-> d, data |-> all, ret |-> <<>>, going |-> TRUE, ok |-> TRUE]
            ELSE The({IF l.going THEN GzipPass(l, max) ELSE l : l \in {pass[n - 1]}})
        end == pass[2 * Len(all) + 2]
    IN IF d.state = "swallow" \/ (all = <<>> /\ Eof(d.z))
       THEN [d |-> d, out |-> <<>>, ok |-> TRUE]
       ELSE The({[d |-> l.d, out |-> l.ret, ok |-> l.ok] : l \in {end}})

\* BrotliDecoder.decompress, where brotli knows no output_buffer_limit: all there is,
\* whatever max is
Brotli(d, data) == [d |-> d, out |-> Bytes(data), ok |-> TRUE]

Decompress(d, data, max) ==
    IF scenario.coding = "gzip" THEN Gzip(d, data, max)
    ELSE IF scenario.coding = "deflate" THEN Deflate(d, data, max)
    ELSE Brotli(d, data)

\* has_unconsumed_tail of the decoder that d may be
HasTail(d) ==
    /\ d # None
    /\ \/ scenario.coding = "gzip" /\ d.kept # <<>>
       \/ scenario.coding = "deflate" /\ d.state = "settled" /\ d.z.tail # <<>>

\* _flush_decoder(), whose output follows that of r
Flush(r) ==
    LET flushed(s, f) == [d   |-> [s.d EXCEPT !.z = f.z],
                          out |-> r.out \o s.out \o f.out,
                          ok  |-> r.ok /\ s.ok /\ f.ok]
    IN The({The({flushed(s, f) : f \in {ZlibFlush(s.d.z)}})
               : s \in {Decompress(r.d, <<>>, None)}})

\* _decode(data, flush_decoder, max_length) with decoder d
Decode(d, data, flush, max) ==
    IF d = None THEN [d |-> d, out |-> Bytes(data), ok |-> TRUE]
    ELSE IF flush THEN The({Flush(r) : r \in {Decompress(d, data, None)}})
    ELSE Decompress(d, data, max)

\* _init_decoder()
Initialised ==
    IF decoder = None /\ scenario.coding # "identity" /\ scenario.decode
    THEN NewDecoder ELSE decoder

-----------------------------------------------------------------------------
(* BytesQueueBuffer                                                         *)

EmptyBuffer == [chunks |-> <<>>, size |-> 0]

Put(b, data) == [chunks |-> Append(b.chunks, data), size |-> b.size + Len(data)]

\* get(n): whole chunks, and a part of the last one, whose rest goes back.
\* ok is FALSE where it raises "buffer is empty".
Get(b, n) ==
    LET upto(k) == FlattenSeq(Take(b.chunks, k))
        k    == Least({i \in 0..Len(b.chunks) : i = Len(b.chunks) \/ Len(upto(i)) >= n})
        rest == Drop(upto(k), n)
    IN [ok  |-> n = 0 \/ b.chunks # <<>>,
        out |-> Take(upto(k), Smaller(n, Len(upto(k)))),
        b   |-> [chunks |-> (IF rest = <<>> THEN <<>> ELSE <<rest>>) \o Drop(b.chunks, k),
                 size   |-> b.size - Smaller(n, Len(upto(k)))]]

GetAll(b) == [ok |-> TRUE, out |-> FlattenSeq(b.chunks), b |-> EmptyBuffer]

Taken(b, amt) == IF amt = None THEN GetAll(b) ELSE Get(b, amt)

-----------------------------------------------------------------------------
(* The network, as seen through http.client.  What a read can come to: the   *)
(* units, whether the response is still open afterwards, whether a chunk of   *)
(* a chunked body is begun, and the error.                                   *)

left == length_remaining
Arrived == scenario.sent - next
Cut == scenario.sent < Len(wire)

Got(n, open) == [data |-> SubSeq(wire, next + 1, next + n), open |-> open,
                 mid |-> scenario.framing = "chunked" /\ open, err |-> "none"]
Fails(why) == [data |-> <<>>, open |-> fpopen, mid |-> fpchunk, err |-> why]

\* What amt comes to: http.client reads no more than the length that is left.
Room(amt) == IF scenario.framing = "length" THEN Smaller(Limit(amt, left), Arrived)
             ELSE Limit(amt, Arrived)

\* _fp.read(amt), which waits for amt units or the end of the response
FpRead(amt) ==
    LET n == Room(amt)
    IN IF ~fpopen \/ amt = 0 THEN {Got(0, fpopen)}
       ELSE {Fails("timeout"),
             IF scenario.framing = "length"
             THEN IF amt = None /\ n < left THEN Fails("incomplete")
                  ELSE Got(n, n # 0 /\ n < left)
             ELSE IF scenario.framing = "close"
             THEN Got(n, amt # None /\ n > 0)
             ELSE IF Cut /\ (amt = None \/ amt > Arrived)
             THEN Fails("incomplete")
             ELSE Got(n, amt # None /\ amt <= Arrived)}

\* _fp.read1(amt), which returns what one read of the socket finds
FpRead1(amt) ==
    LET room == Room(amt)
    IN IF ~fpopen THEN {Got(0, FALSE)}
       ELSE IF scenario.framing = "chunked" /\ room = 0 /\ Cut
       THEN {Fails("incomplete"), Fails("timeout")}
       ELSE {Got(n, TRUE) : n \in 1..room} \cup {Fails("timeout")}
            \cup (IF room # 0 THEN {}
                  ELSE {Got(0, scenario.framing = "length" /\ left = 0)})

\* Mutant of Settle: the length is not checked.
SettleUnchecked(o, amt, one) ==
    IF o.err = "none" /\ amt \notin {None, 0} /\ o.data = <<>>
    THEN [o EXCEPT !.open = FALSE] ELSE o

\* _raw_read(amt, read1): it closes _fp when nothing came or everything has come,
\* and checks the length, but not for a read1() without amt.
Settle(o, amt, one) ==
    LET ended == amt # None /\ amt # 0 /\ o.data = <<>>
        all1  == one /\ ((amt # 0 /\ o.data = <<>>) \/ left = Len(o.data))
    IN IF o.err # "none" THEN o
       ELSE IF ended /\ left \notin {None, 0} THEN Fails("incomplete")
       ELSE [o EXCEPT !.open = @ /\ ~ended /\ ~all1]

RawReads(amt, one) ==
    {Settle(o, amt, one) : o \in IF one THEN FpRead1(amt) ELSE FpRead(amt)}

\* Mutant of Receive: an error does not close the connection.
ReceiveOpen(o) ==
    /\ next' = next + Len(o.data)
    /\ length_remaining' = IF left = None THEN None ELSE left - Len(o.data)
    /\ fpopen' = (o.open /\ o.err = "none")
    /\ fpchunk' = o.mid
    /\ sock' = sock
    /\ conn' = IF fpopen' THEN conn ELSE "put"

\* _error_catcher: an error closes the response and the connection, and a closed
\* response releases its connection.
Caught(open, err) ==
    /\ fpopen' = (open /\ err = "none")
    /\ sock' = IF err # "none" /\ conn = "held" THEN "closed" ELSE sock
    /\ conn' = IF fpopen' THEN conn ELSE "put"

\* The network side of a raw read
Receive(o) ==
    /\ next' = next + Len(o.data)
    /\ length_remaining' = IF left = None THEN None ELSE left - Len(o.data)
    /\ fpchunk' = o.mid
    /\ Caught(o.open, o.err)

NoNetwork == UNCHANGED <<network, conn, sock>>

-----------------------------------------------------------------------------
Idle == [m |-> "idle"]
NotIterating == [on |-> FALSE]

Init ==
    /\ scenario \in Scenarios
    /\ next = 0 /\ fpopen = TRUE /\ fpchunk = FALSE /\ chunk_left = None
    /\ length_remaining = IF scenario.framing = "length" THEN Len(wire) ELSE None
    /\ decoder = None /\ hasdecoded = FALSE
    /\ buffer = EmptyBuffer
    /\ cached = None /\ uncached = FALSE
    /\ conn = "held"
    /\ sock = IF scenario.framing = "close" THEN "closed" ELSE "open"
    /\ call = Idle /\ iter = NotIterating
    /\ last = "none" /\ delivered = <<>> /\ spoiled = FALSE

\* The call returns bytes out of the at most amt it was asked for.
Returns(m, amt, out) ==
    /\ call' = Idle
    /\ delivered' = delivered \o out
    /\ last' = IF amt = 0 THEN "some"
               ELSE IF out = <<>> \/ (m = "read" /\ amt = None) THEN "end"
               ELSE IF m = "read" /\ Len(out) < amt THEN "short"
               ELSE "some"
    /\ UNCHANGED <<spoiled, iter>>

\* An error leaves the call, and the generator if it was in one.
Raises(why) ==
    /\ call' = Idle /\ last' = why /\ spoiled' = TRUE /\ iter' = NotIterating
    /\ UNCHANGED delivered

\* The call returns what g, a result of Get or GetAll, took from the buffer.
ReturnsBuffered(m, amt, g) ==
    /\ buffer' = g.b
    /\ IF g.ok THEN Returns(m, amt, g.out) ELSE Raises("empty")

Continues(c) == call' = c /\ UNCHANGED <<last, delivered, spoiled, iter>>

\* Whether the reader may make this call now
MayCall(m, amt) == call = Idle /\ ~iter.on /\ <<m, amt>> \in scenario.calls

\* After a decoder was used
Decodes(d) == decoder' = d /\ hasdecoded' = (hasdecoded \/ d # None)

-----------------------------------------------------------------------------
(* read(amt) and data                                                       *)

\* What the decoder d still makes, up to max bytes, of what it holds
FromTail(d, max) ==
    IF HasTail(d) THEN Decode(d, <<>>, FALSE, max) ELSE [d |-> d, out |-> <<>>, ok |-> TRUE]

\* The buffer with what came from the tail of the decoder
Refilled(r) == IF HasTail(decoder) THEN Put(buffer, r.out) ELSE buffer

\* The start of read(amt): bytes that are decoded, or that the decoder can
\* still produce from what it holds, are enough, or the network is asked.
BeginRead(amt, cache) ==
    /\ NoNetwork /\ UNCHANGED <<cached, uncached>>
    /\ IF amt = None
       THEN /\ decoder' = Initialised
            /\ Continues([m |-> "read", amt |-> None, cache |-> cache, first |-> TRUE])
            /\ UNCHANGED <<hasdecoded, buffer>>
       ELSE IF buffer.size >= amt
       THEN /\ decoder' = Initialised
            /\ ReturnsBuffered("read", amt, Get(buffer, amt))
            /\ UNCHANGED hasdecoded
       ELSE \E r \in {FromTail(Initialised, amt - buffer.size)} :
               LET b == Refilled(r)
               IN /\ decoder' = r.d /\ hasdecoded' = (hasdecoded \/ HasTail(decoder))
                  /\ IF ~r.ok THEN Raises("undecodable") /\ UNCHANGED buffer
                     ELSE IF b.size >= amt THEN ReturnsBuffered("read", amt, Get(b, amt))
                     ELSE /\ buffer' = b
                          /\ Continues([m |-> "read", amt |-> amt, cache |-> FALSE,
                                        first |-> TRUE])

Read(amt) ==
    /\ MayCall("read", amt)
    /\ BeginRead(amt, FALSE)
    /\ UNCHANGED <<scenario, chunk_left>>

\* The property data: the cached body, unless that is empty, or all the rest
Data ==
    /\ MayCall("data", None)
    /\ IF cached \notin {None, <<>>}
       THEN /\ last' = "some"
            /\ NoNetwork
            /\ UNCHANGED <<reading, call, iter, delivered, spoiled>>
       ELSE BeginRead(None, TRUE)
    /\ UNCHANGED <<scenario, chunk_left>>

\* Mutant of FinishAll: what earlier reads took is not remembered.
FinishAllCaches(data) ==
    \E r \in {Decode(decoder, data, TRUE, None)} :
       LET all == IF scenario.decode /\ buffer.size > 0
                  THEN GetAll(Put(buffer, r.out))
                  ELSE [ok |-> TRUE, out |-> r.out, b |-> buffer]
       IN /\ Decodes(r.d)
          /\ IF ~r.ok
             THEN Raises("undecodable") /\ UNCHANGED <<buffer, cached>>
             ELSE /\ ReturnsBuffered("read", None, all)
                  /\ cached' = IF call.cache THEN all.out ELSE cached

\* Mutant of FinishAll: what an earlier read left in the buffer is forgotten.
FinishAllForgets(data) ==
    \E r \in {Decode(decoder, data, TRUE, None)} :
       /\ Decodes(r.d) /\ UNCHANGED <<buffer, cached>>
       /\ IF r.ok THEN Returns("read", None, r.out) ELSE Raises("undecodable")

\* read(None) has its data.
FinishAll(data) ==
    \E r \in {Decode(decoder, data, TRUE, None)} :
       LET all == IF scenario.decode /\ buffer.size > 0
                  THEN GetAll(Put(buffer, r.out))
                  ELSE [ok |-> TRUE, out |-> r.out, b |-> buffer]
       IN /\ Decodes(r.d)
          /\ IF ~r.ok
             THEN Raises("undecodable") /\ UNCHANGED <<buffer, cached>>
             ELSE /\ ReturnsBuffered("read", None, all)
                  /\ cached' = IF call.cache /\ ~uncached THEN all.out ELSE cached

\* Mutant of FinishSome: no more is read.
FinishSomeOnce(data) ==
    \E r \in {Decode(decoder, data, call.first /\ data = <<>>, call.amt - buffer.size)} :
       LET b == Put(buffer, r.out)
       IN /\ Decodes(r.d) /\ UNCHANGED cached
          /\ IF ~r.ok THEN Raises("undecodable") /\ UNCHANGED buffer
             ELSE ReturnsBuffered("read", call.amt, Get(b, call.amt))

\* read(amt) has data: it is decoded, and more is read until amt bytes are there.
FinishSome(data) ==
    LET amt == call.amt
    IN \E r \in {Decode(decoder, data, call.first /\ data = <<>>, amt - buffer.size)} :
          LET b == Put(buffer, r.out)
          IN /\ Decodes(r.d) /\ UNCHANGED cached
             /\ IF ~r.ok THEN Raises("undecodable") /\ UNCHANGED buffer
                ELSE IF b.size < amt /\ data # <<>>
                THEN buffer' = b /\ Continues([call EXCEPT !.first = FALSE])
                ELSE ReturnsBuffered("read", amt, Get(b, amt))

ReadMore ==
    /\ call.m = "read"
    /\ \E o \in RawReads(call.amt, FALSE) :
          /\ Receive(o)
          /\ IF o.err # "none" THEN Raises(o.err) /\ UNCHANGED reading
             ELSE /\ uncached' = (uncached \/ ~call.cache)
                  /\ IF call.first /\ o.data = <<>> /\ buffer.size = 0 /\ ~HasTail(decoder)
                     THEN /\ Returns("read", call.amt, <<>>)
                          /\ UNCHANGED <<decoder, hasdecoded, buffer, cached>>
                     ELSE IF call.amt = None THEN FinishAll(o.data)
                     ELSE IF ~scenario.decode
                     THEN /\ Returns("read", call.amt, Bytes(o.data))
                          /\ UNCHANGED <<decoder, hasdecoded, buffer, cached>>
                     ELSE FinishSome(o.data)
    /\ UNCHANGED <<scenario, chunk_left>>

-----------------------------------------------------------------------------
(* read1(amt)                                                               *)

\* Bytes that are decoded already are returned without going to the network.
Read1(amt) ==
    LET more == hasdecoded /\ (amt = None \/ buffer.size < amt)
        room == IF amt = None THEN None ELSE amt - buffer.size
    IN /\ MayCall("read1", amt)
       /\ NoNetwork /\ UNCHANGED <<scenario, chunk_left, hasdecoded, cached, uncached>>
       /\ \E r \in {IF more THEN FromTail(decoder, room)
                    ELSE [d |-> decoder, out |-> <<>>, ok |-> TRUE]} :
             LET b == IF more THEN Refilled(r) ELSE buffer
             IN /\ decoder' = r.d
                /\ IF ~r.ok THEN Raises("undecodable") /\ UNCHANGED buffer
                   ELSE IF hasdecoded /\ b.size > 0
                   THEN ReturnsBuffered("read1", amt, Taken(b, amt))
                   ELSE /\ buffer' = b
                        /\ IF amt = 0 THEN Returns("read1", amt, <<>>)
                           ELSE Continues([m |-> "read1", amt |-> amt, first |-> TRUE])

\* Mutant of FinishRead1: more is read until there are bytes, also at the end.
FinishRead1Loops(data) ==
    \E r \in {Decode(Initialised, data, data = <<>>, call.amt)} :
       LET b == IF r.out = <<>> THEN buffer ELSE Put(buffer, r.out)
       IN /\ Decodes(r.d) /\ UNCHANGED cached
          /\ IF ~r.ok THEN Raises("undecodable") /\ UNCHANGED buffer
             ELSE IF r.out = <<>>
             THEN buffer' = b /\ Continues([call EXCEPT !.first = FALSE])
             ELSE ReturnsBuffered("read1", call.amt, Taken(b, call.amt))

\* read1 has data: it is decoded, and more is read until there are bytes.
FinishRead1(data) ==
    \E r \in {Decode(Initialised, data, data = <<>>, call.amt)} :
       LET b == Put(buffer, r.out)
       IN /\ Decodes(r.d) /\ UNCHANGED cached
          /\ IF ~r.ok THEN Raises("undecodable") /\ UNCHANGED buffer
             ELSE IF r.out = <<>> /\ data # <<>>
             THEN buffer' = b /\ Continues([call EXCEPT !.first = FALSE])
             ELSE ReturnsBuffered("read1", call.amt, Taken(b, call.amt))

Read1More ==
    /\ call.m = "read1"
    /\ \E o \in RawReads(IF call.first THEN call.amt ELSE Big, TRUE) :
          /\ Receive(o)
          /\ IF o.err # "none" THEN Raises(o.err) /\ UNCHANGED reading
             ELSE /\ uncached' = TRUE
                  /\ IF scenario.decode THEN FinishRead1(o.data)
                     ELSE /\ Returns("read1", call.amt, Bytes(o.data))
                          /\ UNCHANGED <<decoder, hasdecoded, buffer, cached>>
    /\ UNCHANGED <<scenario, chunk_left>>

-----------------------------------------------------------------------------
(* stream(amt) and read_chunked(amt)                                         *)

(* http.client and read_chunked count chunks each for itself.  If a read()    *)
(* has begun a chunk, read_chunked takes the rest of it for the line with     *)
(* the next length, and has lost its place: what is on the wire from there,   *)
(* units and what stands between chunks, it takes for what it expects next.   *)

\* A piece of the wire, and the unit that has been read with it
Token == [is : {"unit", "size", "break"}, unit : Unit, at : Nat]
\* Bytes that are not of the body
Foreign == [id |-> 0, out |-> <<0>>, start |-> FALSE, end |-> FALSE]
Mark(is, i) == [is |-> is, unit |-> Foreign, at |-> i]

EndsChunk(i) == i % ChunkSize = 0 \/ i = Len(wire)

\* Unit i, a length before it that begins a chunk, a line break after it that ends one
Tokens(i) ==
    (IF EndsChunk(i - 1) THEN <<Mark("size", i - 1)>> ELSE <<>>)
    \o <<[is |-> "unit", unit |-> wire[i], at |-> i]>>
    \o (IF EndsChunk(i) THEN <<Mark("break", i)>> ELSE <<>>)

\* What is on the wire after a read: the line break of a chunk that was read to
\* its end, all units, and the last length with the empty line after it
Rest ==
    (IF EndsChunk(next) THEN <<Mark("break", next)>> ELSE <<>>)
    \o FlattenSeq([i \in 1..Arrived |-> Tokens(next + i)])
    \o (IF Cut THEN <<>> ELSE <<Mark("size", Len(wire)), Mark("break", Len(wire))>>)

\* The generator is made and iterated: over chunks, or over read(amt).
Stream(amt) ==
    /\ MayCall("stream", amt) /\ amt # 0
    /\ iter' = [on |-> TRUE, amt |-> amt, chunks |-> scenario.framing = "chunked",
                rest |-> IF fpchunk /\ fpopen THEN Rest ELSE None]
    /\ decoder' = IF iter'.chunks THEN Initialised ELSE decoder
    /\ NoNetwork
    /\ UNCHANGED <<scenario, chunk_left, hasdecoded, buffer, cached, uncached, call,
                   last, delivered, spoiled>>

\* The generator is exhausted.
StreamStops == iter' = NotIterating /\ last' = "end" /\ UNCHANGED <<call, delivered, spoiled>>

\* stream's loop over read(amt)
StreamRead ==
    /\ iter.on /\ ~iter.chunks /\ call = Idle
    /\ IF fpopen \/ buffer.size > 0 \/ HasTail(decoder)
       THEN BeginRead(iter.amt, FALSE)
       ELSE StreamStops /\ NoNetwork /\ UNCHANGED reading
    /\ UNCHANGED <<scenario, chunk_left>>

\* read_chunked yields out, if there is anything in it.
Yields(out) ==
    /\ delivered' = delivered \o out
    /\ last' = "some"
    /\ UNCHANGED <<call, spoiled>>

\* What read_chunked decodes next: nothing new while the decoder has a tail, and
\* otherwise what _update_chunk_length and _handle_chunk read.
AtEnd == next = Len(wire) /\ chunk_left = None
ThisChunk == IF chunk_left # None THEN chunk_left ELSE Smaller(ChunkSize, Len(wire) - next)

\* Mutant of ChunkLeft: the end of a chunk is not noticed.
ChunkLeftZero(n) == ThisChunk - n

\* chunk_left after n units of the chunk were read
ChunkLeft(n) == IF n = ThisChunk THEN None ELSE ThisChunk - n

HandleChunk(amt) ==
    LET n == Limit(amt, ThisChunk)
    IN IF (chunk_left = None /\ Arrived = 0) \/ n > Arrived
       THEN Fails("incomplete")
       ELSE [Got(n, TRUE) EXCEPT !.mid = FALSE]

\* One turn of read_chunked's loop.  Any error, also of the decoder, passes
\* through its _error_catcher.
ChunkTurn ==
    /\ iter.on /\ iter.chunks /\ fpopen
    /\ HasTail(decoder) \/ (iter.rest = None /\ ~AtEnd)
    /\ \E o \in IF HasTail(decoder) THEN {Got(0, TRUE)}
                ELSE {HandleChunk(iter.amt), Fails("timeout")} :
       \E r \in {Decode(decoder, o.data, FALSE, iter.amt)} :
          /\ Receive([o EXCEPT !.mid = fpchunk,
                               !.err = IF r.ok THEN @ ELSE "undecodable"])
          /\ uncached' = (uncached \/ ~HasTail(decoder))
          /\ chunk_left' = IF HasTail(decoder) \/ o.err # "none" THEN chunk_left
                           ELSE ChunkLeft(Len(o.data))
          /\ IF o.err # "none"
             THEN Raises(o.err) /\ UNCHANGED <<decoder, hasdecoded>>
             ELSE /\ Decodes(r.d)
                  /\ IF r.ok THEN Yields(r.out) /\ UNCHANGED iter ELSE Raises("undecodable")
    /\ UNCHANGED <<scenario, buffer, cached>>

\* The flushed decoder and its output, after the last chunk
Flushed == IF decoder = None THEN [d |-> None, out |-> <<>>, ok |-> TRUE]
           ELSE Decode(decoder, <<>>, TRUE, None)

\* read_chunked ends with r, what was flushed.
Finishes(r) ==
    /\ decoder' = r.d
    /\ IF r.ok
       THEN /\ delivered' = delivered \o r.out /\ last' = "end"
            /\ iter' = NotIterating /\ UNCHANGED <<call, spoiled>>
       ELSE Raises("undecodable")
    /\ uncached' = TRUE
    /\ UNCHANGED <<scenario, chunk_left, hasdecoded, buffer, cached>>

\* The last chunk: the decoder is flushed, the response is closed.
ChunkEnd ==
    /\ iter.on /\ iter.chunks /\ fpopen
    /\ ~HasTail(decoder) /\ iter.rest = None /\ AtEnd
    /\ \E r \in {Flushed} :
          /\ Receive([Got(0, FALSE) EXCEPT !.err = IF r.ok THEN "none" ELSE "undecodable"])
          /\ Finishes(r)

\* The generator has lost its place, and reads.
Lost == iter.on /\ iter.chunks /\ fpopen /\ ~HasTail(decoder) /\ iter.rest # None

\* _update_chunk_length: the lengths it may find, and what follows the line.  A
\* line goes on to a line break, which a unit may hold, or to the end of a broken
\* response.  A line with nothing before its break is no number; all others may be.
Lengths ==
    IF chunk_left # None THEN {[left |-> chunk_left, rest |-> iter.rest]}
    ELSE {[left |-> k, rest |-> Drop(iter.rest, n)] :
             k \in 0..Len(iter.rest),
             n \in {n \in DOMAIN iter.rest : /\ iter.rest[1].is # "break"
                                            /\ \A i \in 1..n - 1 : iter.rest[i].is = "unit"}}

\* The network has been read up to a token of rest.
ReadTo(token, open, ok) ==
    /\ next' = token.at
    /\ Caught(open, IF ok THEN "none" ELSE "undecodable")
    /\ UNCHANGED <<fpchunk, length_remaining>>

\* A turn of the loop: h.left is the length of a chunk for which whatever is there
\* is taken and, when it is complete, two bytes more (one piece of the wire, or two).
LostTurn ==
    /\ Lost
    /\ \E h \in Lengths, toss \in 0..2 : \E n \in {Limit(iter.amt, h.left)} :
          /\ h.left # 0 /\ n + toss <= Len(h.rest)
          /\ toss = 0 <=> n < h.left
          /\ \E r \in {Decode(decoder, [i \in 1..n |-> h.rest[i].unit], FALSE, iter.amt)} :
                /\ ReadTo(h.rest[n + toss], TRUE, r.ok)
                /\ Decodes(r.d)
                /\ IF r.ok
                   THEN Yields(r.out) /\ iter' = [iter EXCEPT !.rest = Drop(h.rest, n + toss)]
                   ELSE Raises("undecodable")
          /\ chunk_left' = IF n < h.left THEN h.left - n ELSE None
    /\ uncached' = TRUE
    /\ UNCHANGED <<scenario, buffer, cached>>

\* A length of 0: all is skipped up to a line that is empty, as any line break may be,
\* or to the end of a broken response.
LostEnd ==
    /\ Lost
    /\ \E h \in Lengths : \E n \in DOMAIN h.rest :
          /\ h.left = 0
          /\ h.rest[n].is = "break" \/ (n = Len(h.rest) /\ Cut)
          /\ \E r \in {Flushed} : ReadTo(h.rest[n], FALSE, r.ok) /\ Finishes(r)

\* The line is no number, or there is less than the length says.
LostFails ==
    /\ Lost
    /\ \E why \in {"incomplete", "timeout"} : Receive(Fails(why)) /\ Raises(why)
    /\ uncached' = TRUE
    /\ UNCHANGED <<scenario, chunk_left, decoder, hasdecoded, buffer, cached>>

\* A response that is closed already has no chunks.
ChunkNone ==
    /\ iter.on /\ iter.chunks /\ ~fpopen
    /\ StreamStops
    /\ conn' = "put"
    /\ UNCHANGED <<scenario, network, sock, chunk_left, reading>>

\* The reader leaves the loop.  GeneratorExit passes through the _error_catcher of
\* read_chunked, and is nothing to the other loop.
Break ==
    /\ iter.on /\ call = Idle
    /\ iter' = NotIterating /\ last' = "left"
    /\ IF iter.chunks
       THEN Receive(Fails("exit")) /\ spoiled' = TRUE
       ELSE NoNetwork /\ UNCHANGED spoiled
    /\ UNCHANGED <<scenario, chunk_left, reading, call, delivered>>

-----------------------------------------------------------------------------
(* drain_conn(), as urlopen calls it before a retry or redirect, and close() *)

Drain ==
    /\ call = Idle /\ ~iter.on /\ "drain" \in scenario.ends
    /\ call' = [m |-> "drain"]
    /\ spoiled' = TRUE
    /\ UNCHANGED <<scenario, network, conn, sock, chunk_left, reading, iter, last, delivered>>

DrainMore ==
    /\ call.m = "drain"
    /\ \E o \in RawReads(Big, FALSE) :
          /\ Receive(o)
          /\ call' = IF o.data = <<>> THEN Idle ELSE call
          /\ IF o.data = <<>> /\ hasdecoded
             THEN buffer' = EmptyBuffer /\ decoder' = None
             ELSE UNCHANGED <<buffer, decoder>>
    /\ UNCHANGED <<scenario, chunk_left, hasdecoded, cached, uncached, iter, last,
                   delivered, spoiled>>

\* close() closes the response and its connection, and does not release it.
Close ==
    /\ call = Idle /\ ~iter.on /\ "close" \in scenario.ends
    /\ fpopen' = FALSE /\ spoiled' = TRUE
    /\ sock' = IF conn = "held" THEN "closed" ELSE sock
    /\ UNCHANGED <<scenario, next, fpchunk, length_remaining, conn, chunk_left, reading,
                   call, iter, last, delivered>>

-----------------------------------------------------------------------------
Progress == ReadMore \/ Read1More \/ StreamRead \/ ChunkTurn \/ ChunkEnd \/ ChunkNone
            \/ LostTurn \/ LostEnd \/ LostFails \/ DrainMore

Next ==
    \/ \E c \in scenario.calls : Read(c[2]) \/ Read1(c[2]) \/ Stream(c[2])
    \/ Data \/ Drain \/ Close \/ Break
    \/ Progress

Spec == Init /\ [][Next]_vars

\* A call that was made goes on, reads time out, and a generator that was begun
\* is iterated, unless the reader leaves it.
FairSpec == Spec /\ WF_vars(Progress)

-----------------------------------------------------------------------------
TypeOK ==
    /\ scenario \in Scenarios
    /\ next \in 0..scenario.sent
    /\ fpopen \in BOOLEAN /\ fpchunk \in BOOLEAN
    /\ chunk_left \in (Nat \ {0}) \cup {None}
    /\ length_remaining \in Nat \cup {None}
    /\ decoder \in Decoder \cup {None}
    /\ hasdecoded \in BOOLEAN /\ uncached \in BOOLEAN /\ spoiled \in BOOLEAN
    /\ \A i \in DOMAIN buffer.chunks : buffer.chunks[i] \in Seq(Nat)
    /\ conn \in {"held", "put"} /\ sock \in {"open", "closed"}
    /\ call.m \in {"idle", "read", "read1", "drain"}
    /\ delivered \in Seq(Nat)

\* A chunked response that is streamed is not also read in part: stream() takes no
\* notice of the chunk that http.client is in, nor of what is in the buffer.
Apart ==
    /\ scenario.framing = "chunked"
    /\ \E c \in scenario.calls : c[1] = "stream"
    => \A c \in scenario.calls : c[1] # "read1" /\ (c[1] = "read" => c[2] = None)

\* Whatever calls the reader mixes (but those), it gets the bytes of the body in their
\* order, none twice and none left out before another.
InOrder == Apart => IsPrefix(delivered, Body)

\* stream() is "a generator wrapper for the read() method": also after other reads,
\* it goes on where they stopped.
StreamIsRead == IsPrefix(delivered, Body)

\* When a call says that the body is at its end, every byte has been returned:
\* the decoder and the buffer hold nothing back, and a body that was cut short is an
\* error.
Ended == last = "end" /\ call = Idle /\ ~iter.on /\ ~spoiled
EndMeansWhole == Ended /\ Apart => delivered = Body

\* read(amt) returns less than amt only at the end of the body: the buffer is there
\* "to always return the correct amount of bytes".
FullReads == last = "short" /\ ~spoiled /\ Apart => delivered = Body

\* .data is cached only if it is the whole body, whatever was read before.
CacheIsWhole == cached # None => cached = Body

\* A connection is put back into the pool with an open socket only when all of the
\* response has been read from it (what is left would be taken for the next one), and
\* it is put back when a call says that the body is at its end.
CleanReuse ==
    /\ (conn = "put" /\ sock = "open") => ~fpopen /\ (Apart => next = Len(wire))
    /\ Ended => conn = "put"

\* A generator that is iterated ends, and so does every call.
CallsEnd == (call # Idle \/ iter.on) ~> (call = Idle /\ ~iter.on)
==============================================================================
