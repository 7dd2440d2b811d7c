----------------------------- MODULE MCRegistry ----------------------------
(* Registry for TLC: its bounds are in MCRegistry.cfg. *)
EXTENDS Registry
=============================================================================
