----------------------------- MODULE MCTcpDevice -----------------------------
(* TcpDevice for TLC. *)
EXTENDS TcpDevice
=============================================================================
