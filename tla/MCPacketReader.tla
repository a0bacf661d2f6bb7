---------------------------- MODULE MCPacketReader ----------------------------
(***************************************************************************)
(* Small instance of PacketReader: a byte has Base values, the header is   *)
(* the two bytes of the length, packets of Lengths bytes are filled with   *)
(* one value of Fill.                                                      *)
(***************************************************************************)
EXTENDS PacketReader

CONSTANTS Lengths, Fill

MCByte == 0 .. Base - 1

MCPacket ==
  {<< len % Base, len \div Base >> \o [i \in 1 .. len - 2 |-> f] : len \in Lengths, f \in Fill}
===============================================================================
