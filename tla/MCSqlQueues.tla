------------------------------ MODULE MCSqlQueues -----------------------------
(***************************************************************************)
(* Small instance of SqlQueues: two database threads and three queries.    *)
(***************************************************************************)
EXTENDS SqlQueues
===============================================================================
