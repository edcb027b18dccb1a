--------------------------- MODULE MCHttp2Connection ---------------------------
(* Bodies of every kind: one that h2 refuses for its size, and a stream    *)
(* that is empty.                                                          *)
EXTENDS Http2Connection

MCBody(kind, size) == [kind |-> kind, size |-> size]
MCBodies == { MCBody("none", 0), MCBody("bytes", 1), MCBody("bytes", 3),
              MCBody("stream", 0), MCBody("stream", 2) }
================================================================================
