--------------------------- MODULE MCCircularBuffer ---------------------------
(* Small instance of CircularBuffer: chunks of one to MaxChunk bytes. *)
EXTENDS CircularBuffer

CONSTANT MaxChunk

MCChunk == UNION {[1 .. n -> Byte] : n \in 1 .. MaxChunk}
===============================================================================
