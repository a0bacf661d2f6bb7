------------------------------ MODULE MCMessages ------------------------------
(***************************************************************************)
(* Small instance of Messages: bytes 0 and 1, messages that hold up to     *)
(* four bytes, sizes modulo 8, and a configuration with every kind of     *)
(* entry: one refused, one defined twice, one with an unknown last word.   *)
(***************************************************************************)
EXTENDS Messages

CONSTANT MaxBody

MCWidth == [UINT8 |-> 1, UINT32 |-> 4]

Node(id, words, function) == [id |-> id, words |-> words, function |-> function]
MCNodes == <<
  Node(1, << "UINT8", "STRING" >>, "defined"),
  Node(2, << "REPEAT", "UINT8" >>, "defined"),
  Node(3, << "UINT8", "none" >>, "defined"),
  Node(4, << >>, "missing"), Node(5, << >>, ""), Node(6, << >>, "defined"),
  Node(1, << "UINT32" >>, "defined"),
  Node(7, << "none", "UINT8" >>, "defined"), Node(8, << >>, "defined") >>

MCValue == {
  [type |-> "UINT8", bytes |-> << 1 >>],
  [type |-> "UINT32", bytes |-> << 1, 1, 0, 1 >>],
  [type |-> "STRING", bytes |-> << 1 >>],
  [type |-> "STRING", bytes |-> [i \in 1 .. Wrap + 1 |-> 1]] }

Bodies(n) == UNION {[1 .. k -> 0 .. Base - 1] : k \in 0 .. n}
MCIncoming == [id : {1, 2}, body : Bodies(MaxBody)] \cup [id : 3 .. 8, body : Bodies(1)]
===============================================================================
