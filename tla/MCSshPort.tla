------------------------------ MODULE MCSshPort ------------------------------
(* SshPort for TLC. *)
EXTENDS SshPort
=============================================================================
