----------------------------- MODULE ByteStream -----------------------------
(***************************************************************************)
(* What a device (xterminal/SerialIo.h) promises to the terminal reading   *)
(* from it, whatever transport is behind it: the bytes of one connection   *)
(* come out once, in order and from the first one on; a connection that    *)
(* ends may lose a tail, never a byte in the middle; nothing of a newer    *)
(* connection overtakes an older one.                                      *)
(*                                                                         *)
(* A byte is its position on the connection that carried it.  The value    *)
(* of a byte matters to no device and is left out.                         *)
(***************************************************************************)
EXTENDS Naturals, Sequences

CONSTANTS MaxConns,  (* connections made during a behaviour (a bound) *)
          MaxBytes   (* bytes the peer sends on one connection (a bound) *)

VARIABLES conn,   (* number of the current connection                  *)
          nsent,  (* bytes the peer sent on it                         *)
          up,     (* TRUE while the connection accepts bytes           *)
          line,   (* bytes sent and not yet handed to the reader       *)
          ready,  (* how many of them the device already holds: what   *)
                  (* it tells the reader is available                  *)
          got     (* every byte handed to the reader, in order         *)

bsVars == <<conn, nsent, up, line, ready, got>>

Byte == [conn : Nat, seq : Nat]

BSInit == /\ conn = 1
          /\ nsent = 0
          /\ up = TRUE
          /\ line = <<>>
          /\ ready = 0
          /\ got = <<>>

(* The peer sends one more byte on the current connection. *)
Send == /\ up
        /\ nsent < MaxBytes
        /\ nsent' = nsent + 1
        /\ line' = Append(line, [conn |-> conn, seq |-> nsent + 1])
        /\ UNCHANGED <<conn, up, ready, got>>

(* The device takes bytes from the connection: n are available now. *)
Receive(n) == /\ ready' = n
              /\ UNCHANGED <<conn, nsent, up, line, got>>

(* The reader takes the n oldest bytes. *)
Deliver(n) == /\ ready' = ready - n
              /\ got' = got \o SubSeq(line, 1, n)
              /\ line' = SubSeq(line, n + 1, Len(line))
              /\ UNCHANGED <<conn, nsent, up>>

(* The connection ends: some tail of what the device does not hold is lost. *)
Break(n) == /\ up' = FALSE
            /\ line' = SubSeq(line, 1, n)
            /\ UNCHANGED <<conn, nsent, ready, got>>

(* A new connection replaces one that ended. *)
Connect == /\ ~up
           /\ conn < MaxConns
           /\ conn' = conn + 1
           /\ nsent' = 0
           /\ up' = TRUE
           /\ UNCHANGED <<line, ready, got>>

BSNext == \/ Send
          \/ \E n \in ready .. Len(line) : Receive(n)
          \/ \E n \in 0 .. ready : Deliver(n)
          \/ \E n \in ready .. Len(line) : Break(n)
          \/ Connect

BSSpec == BSInit /\ [][BSNext]_bsVars
=============================================================================
