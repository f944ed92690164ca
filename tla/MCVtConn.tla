------------------------------- MODULE MCVtConn -------------------------------
(* VtConn for TLC. *)
EXTENDS VtConn
=============================================================================
