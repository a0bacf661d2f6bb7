------------------------------ MODULE MCSessions ------------------------------
(***************************************************************************)
(* Small instance of Sessions: one descriptor that is used again and again.*)
(***************************************************************************)
EXTENDS Sessions

MCFd == {7}
===============================================================================
