----------------------------- MODULE MCServerLink -----------------------------
(***************************************************************************)
(* Small instance of ServerLink: one server of the map, one that is not in *)
(* it and one player compete for two descriptors.                          *)
(***************************************************************************)
EXTENDS ServerLink
===============================================================================
