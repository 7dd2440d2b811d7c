---------------------------- MODULE MCConnection ---------------------------
(* Connection for TLC: its bounds are in MCConnection.cfg. *)
EXTENDS Connection
=============================================================================
