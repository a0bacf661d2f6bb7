---------------------------- MODULE MCEpollSocket ----------------------------
(***************************************************************************)
(* Small instance of EpollSocket.  Which bytes are written does not matter *)
(* to it, so that a byte has one value and a message is its length.        *)
(***************************************************************************)
EXTENDS EpollSocket

CONSTANT MaxMessage

MCChunk == UNION {[1 .. n -> Byte] : n \in 1 .. MaxMessage}
===============================================================================
