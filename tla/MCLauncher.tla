------------------------------ MODULE MCLauncher ------------------------------
(***************************************************************************)
(* Small instance of Launcher: scripts that register a module that uses    *)
(* the configuration through the map, one that uses it through GData and   *)
(* one that does not, and try again what failed.                           *)
(***************************************************************************)
EXTENDS Launcher
===============================================================================
