----------------------------- MODULE MCConsole -----------------------------
(***************************************************************************)
(* One tab with two apps, a flag and a test whose configuration is         *)
(* invalid, and two requests of each kind in flight.                       *)
(***************************************************************************)
EXTENDS Console
=============================================================================
