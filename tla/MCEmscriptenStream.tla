-------------------------- MODULE MCEmscriptenStream --------------------------
(* Two requests through a pool of two, bodies of up to three units, a      *)
(* buffer of two: pieces larger and smaller than the buffer and the read.  *)
EXTENDS EmscriptenStream

MCRequests == {"a", "b"}
================================================================================
