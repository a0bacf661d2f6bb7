------------------------------- MODULE ByteFifo -------------------------------
(***************************************************************************)
(* What a byte buffer of the network layer promises its two users: bytes   *)
(* leave in the order they entered, none is lost, none is invented, and it *)
(* never holds more than its capacity.  CircularBuffer is shown to         *)
(* implement this specification.                                           *)
(***************************************************************************)
EXTENDS Integers, Sequences

CONSTANTS
  Capacity,  (* the number of bytes the buffer can hold        *)
  Chunk      (* the byte strings its users add in one call     *)

VARIABLE queue   (* the bytes stored, oldest first *)

Init == queue = << >>

(* A whole chunk is added behind the bytes stored, or nothing is. *)
Push(s) ==
  /\ Len(queue) + Len(s) <= Capacity
  /\ queue' = queue \o s

(* The n oldest bytes leave. *)
Pop(n) ==
  /\ n <= Len(queue)
  /\ queue' = SubSeq(queue, n + 1, Len(queue))

Next ==
  \/ \E s \in Chunk : Push(s)
  \/ \E n \in 1 .. Capacity : Pop(n)

Spec == Init /\ [][Next]_queue
===============================================================================
