---------------------------- MODULE MCResponseBody ----------------------------
(* Instances of ResponseBody for TLC.                                      *)
EXTENDS ResponseBody

\* Unit i of a member that stands for n bytes, the bytes after f
U(i, f, n, start, end) ==
    [id |-> i, out |-> [k \in 1..n |-> f + k], start |-> start, end |-> end]

Plain == [i \in 1..4 |-> U(i, i - 1, 1, i = 1, i = 4)]
\* a header, data that expands, a trailer
Member == <<U(1, 0, 0, TRUE, FALSE), U(2, 0, 1, FALSE, FALSE), U(3, 1, 3, FALSE, FALSE),
            U(4, 4, 0, FALSE, TRUE)>>
Member2 == <<U(6, 4, 0, TRUE, FALSE), U(7, 4, 2, FALSE, FALSE), U(8, 6, 0, FALSE, TRUE)>>
Garbage == <<U(10, 0, 0, FALSE, FALSE)>>
BrotliBody == <<U(1, 0, 0, TRUE, FALSE), U(2, 0, 3, FALSE, FALSE), U(3, 3, 2, FALSE, TRUE)>>
\* raw deflate: neither header nor trailer
RawDeflate == <<U(1, 0, 1, TRUE, FALSE), U(2, 1, 3, FALSE, TRUE)>>

Amts == {0, 1, 2, 4}
ReadCalls == {<<"read", n>> : n \in Amts \cup {None}}
Streams == {<<"stream", 2>>, <<"stream", None>>}
AllCalls == ReadCalls \cup {<<"data", None>>} \cup Streams
            \cup {<<"read1", n>> : n \in {0, 1, 3, None}}

S(framing, coding, w, sent, calls) ==
    [framing |-> framing, coding |-> coding, wire |-> w, raw |-> FALSE, sent |-> sent,
     decode |-> TRUE, calls |-> calls, ends |-> {"drain", "close"}]

\* The reader of a chunked response reads it or streams it, or mixes both.
Reading == AllCalls \ Streams
Streaming == Streams \cup {<<"read", None>>, <<"data", None>>}

\* Whole responses of every framing and coding
Whole == {S(f, "identity", w, Len(w), AllCalls) : f \in {"length", "close"}, w \in {Plain, <<>>}}
         \cup {[S(f, "identity", Plain, 4, AllCalls) EXCEPT !.decode = FALSE]
                  : f \in {"length", "close"}}
         \cup {S("chunked", "identity", w, Len(w), calls) : w \in {Plain, <<>>},
                  calls \in {Reading, Streaming, AllCalls}}
         \cup {[S("chunked", "identity", Plain, 4, calls) EXCEPT !.decode = FALSE] :
                  calls \in {Reading, Streaming}}
         \cup {S(f, c, Member, 4, AllCalls) : f \in {"length", "close"}, c \in {"deflate", "gzip"}}
         \cup {S("chunked", c, Member, 4, calls) : c \in {"deflate", "gzip"},
                                                  calls \in {Reading, Streaming, AllCalls}}
         \cup {S("length", "br", BrotliBody, 3, AllCalls), S("chunked", "br", BrotliBody, 3, Reading)}
         \cup {S("length", "gzip", Member \o Garbage, 5, AllCalls),
               S("chunked", "gzip", Member \o Garbage, 5, Streams)}

\* gzip members one after the other, read as a whole
Members == {S("length", "gzip", Member \o Member2, 7, {<<"read", None>>, <<"data", None>>,
                                                       <<"stream", None>>, <<"read1", None>>})}

\* Responses that break off, where the framing tells; all but read1() notice.
Broken == {S("length", c, IF c = "gzip" THEN Member ELSE Plain, k, AllCalls \ {<<"read1", None>>})
              : c \in {"identity", "gzip"}, k \in {0, 2, 3}}
          \cup {S("chunked", c, IF c = "gzip" THEN Member ELSE Plain, k, calls)
              : c \in {"identity", "gzip"}, k \in {0, 2, 3}, calls \in {Reading, Streaming, AllCalls}}

SomeScenarios == Whole \cup Members \cup Broken

\* Two gzip members, the first of which decodes to as much as a read() asks for
Member6 == <<U(1, 0, 0, TRUE, FALSE), U(2, 0, 6, FALSE, FALSE), U(3, 6, 0, FALSE, TRUE)>>
Member8 == <<U(5, 6, 0, TRUE, FALSE), U(6, 6, 2, FALSE, FALSE), U(7, 8, 0, FALSE, TRUE)>>
PartScenarios == {S("length", "gzip", Member6 \o Member8, 6, {<<"read", 6>>})}
\* Raw deflate data, read or streamed by parts
RawScenarios == {[S("length", "deflate", RawDeflate, 2, ReadCalls \cup Streams) EXCEPT !.raw = TRUE]}
\* A body of a known length that breaks off, read by read1() without an amount
Read1Scenarios == {S("length", "identity", Plain, 2, {<<"read1", None>>})}
\* A chunked body that is read in part and then streamed
MixedScenarios == {S("chunked", "identity", Plain, 4, {<<"read", 1>>, <<"stream", 2>>})}
==============================================================================
