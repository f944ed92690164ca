------------------------------- MODULE Kermit -------------------------------
(***************************************************************************)
(* xterminal/proto/ProtoKermit.cpp: sending files with Kermit.  Each file  *)
(* is announced (S and F), sent in D packets that are repeated when the    *)
(* answer is N, ended (Z), and after the last one the session too (B).     *)
(* It uses the variables and the line of XModem; an answer is the mark of  *)
(* the receiver's packet, or "bad" for one that was damaged.               *)
(*                                                                         *)
(* The receiver, a standard Kermit receiver, is external.                  *)
(***************************************************************************)
EXTENDS XModem

VARIABLES last_file, (* the file is the last of the batch                   *)
          damaged    (* expect_resp: its buffer begins with a packet that   *)
                     (* cannot be parsed                                    *)

kVars == <<last_file, damaged>>

KPacket(kind, n) == [kind |-> kind, num |-> n, cs |-> "C", ok |-> TRUE]

KInit == last_file = TRUE /\ damaged = FALSE

-----------------------------------------------------------------------------
(* expect_resp: the mark of the next packet.  The buffer is kept from the   *)
(* first SOH on, so that nothing is found any more once it begins with a    *)
(* damaged packet; the next call begins with an empty one.                  *)
Marked(mark) == /\ ~damaged
                /\ Got(mark)
                /\ UNCHANGED damaged

NoMark == NoAnswer /\ damaged' = FALSE

KSkip == /\ pc \in {"kS", "kF", "kwait", "kZ", "kB"}
         /\ ~should_stop /\ toSend # <<>>
         /\ damaged \/ Head(toSend) = "bad"
         /\ damaged' = TRUE
         /\ toSend' = Tail(toSend)
         /\ UNCHANGED <<senderVars, staticVars, toRecv, noise, receiverVars,
                        last_file>>

-----------------------------------------------------------------------------
(* The sender.  should_stop is a variable of the call here. *)

KTransferBegin == /\ pc = "off"
                  /\ ntransfers < MaxTransfers
                  /\ ntransfers' = ntransfers + 1
                  /\ pc' = "kflush"
                  /\ k' = 0 /\ retry' = 0 /\ cs_type' = "C" /\ failed' = FALSE
                  /\ should_stop' = FALSE
                  /\ last_file' \in BOOLEAN
                  /\ UNCHANGED <<ret, toRecv, toSend, noise, receiverVars,
                                 damaged>>

(* _FlushIn drops what the device has; S. *)
KInitFrame == /\ pc = "kflush"
              /\ \E n \in 0 .. Len(toSend) :
                   toSend' = SubSeq(toSend, n + 1, Len(toSend))
              /\ toRecv' = Append(toRecv, KPacket("S", 0))
              /\ pc' = "kS"
              /\ UNCHANGED <<k, retry, cs_type, failed, staticVars, noise,
                             receiverVars, kVars>>

(* An answer to a packet that is not repeated: Y goes on, anything else and *)
(* no answer ends the transfer.                                             *)
Once(label, next, packets) ==
  /\ pc = label
  /\ \/ Marked("Y") /\ UNCHANGED failed /\ pc' = next
        /\ toRecv' = toRecv \o packets
     \/ /\ (\E mark \in {"N", "E"} : Marked(mark)) \/ NoMark
        /\ failed' = TRUE /\ pc' = "kend" /\ UNCHANGED toRecv
  /\ UNCHANGED <<k, retry, cs_type, staticVars, noise, receiverVars, last_file>>

KInitAnswered == Once("kS", "kF", <<KPacket("F", 0)>>)
KFileAnswered == Once("kF", "kdata", <<>>)

KData == KPacket("D", k)

(* KermitDataStream: the file in pieces that fill a packet when encoded. *)
IsEnd == k = NFrames
Take == ~IsEnd /\ k' = k + 1

KNextData == /\ pc = "kdata"
             /\ ~failed /\ ~should_stop /\ Take
             /\ toRecv' = Append(toRecv, KPacket("D", k + 1))
             /\ retry' = MaxRetry - 1
             /\ pc' = "kwait"
             /\ UNCHANGED <<cs_type, failed, staticVars, toSend, noise,
                            receiverVars, kVars>>

(* retry is decremented once more when the loop ends: an ACK to the last    *)
(* attempt fails as well.                                                   *)
KDataAcked == /\ pc = "kwait"
              /\ Marked("Y")
              /\ failed' = (retry = 0)
              /\ pc' = "kdata"
              /\ UNCHANGED <<k, retry, cs_type, staticVars, toRecv, noise,
                             receiverVars, last_file>>

KDataNaked == /\ pc = "kwait"
              /\ Marked("N")
              /\ IF retry > 0
                 THEN /\ toRecv' = Append(toRecv, KData)
                      /\ retry' = retry - 1
                      /\ UNCHANGED <<failed, pc>>
                 ELSE /\ failed' = TRUE /\ pc' = "kdata"
                      /\ UNCHANGED <<toRecv, retry>>
              /\ UNCHANGED <<k, cs_type, staticVars, noise, receiverVars,
                             last_file>>

KDataFailed == /\ pc = "kwait"
               /\ Marked("E") \/ NoMark
               /\ failed' = TRUE
               /\ pc' = "kdata"
               /\ UNCHANGED <<k, retry, cs_type, staticVars, toRecv, noise,
                              receiverVars, last_file>>

(* Z, also when the user stopped the loop before the end of the file.       *)
KSendEOF == /\ pc = "kdata"
            /\ IF failed
               THEN pc' = "kend" /\ UNCHANGED toRecv
               ELSE /\ should_stop \/ IsEnd
                    /\ toRecv' = Append(toRecv, KPacket("Z", k + 1))
                    /\ pc' = "kZ"
            /\ UNCHANGED <<k, retry, cs_type, failed, staticVars, toSend, noise,
                           receiverVars, kVars>>

KEOFAnswered == IF last_file THEN Once("kZ", "kB", <<KPacket("B", k + 2)>>)
                             ELSE Once("kZ", "kend", <<>>)
KBreakAnswered == Once("kB", "kend", <<>>)

(* An E packet for a cancelled transfer; the function returns the size of   *)
(* the file.                                                                *)
KFinish == /\ pc = "kend"
           /\ toRecv' = IF should_stop THEN Append(toRecv, KPacket("E", 0))
                                       ELSE toRecv
           /\ ret' = IF failed THEN -1 ELSE NFrames
           /\ pc' = "done"
           /\ UNCHANGED <<k, retry, cs_type, failed, should_stop, ntransfers,
                          toSend, noise, receiverVars, kVars>>

(* The loop over the batch goes on after a result that is positive. *)
KNextFile == /\ pc = "done"
             /\ ret > 0 /\ ~last_file
             /\ ntransfers < MaxTransfers
             /\ ntransfers' = ntransfers + 1
             /\ pc' = "kflush"
             /\ k' = 0 /\ retry' = 0 /\ failed' = FALSE
             /\ should_stop' = FALSE
             /\ last_file' = TRUE
             /\ UNCHANGED <<cs_type, ret, toRecv, toSend, noise, receiverVars,
                            damaged>>

KTransferEnd == /\ ret <= 0 \/ last_file
                /\ TransferEnd
                /\ UNCHANGED kVars

KSender == \/ KInitFrame \/ KInitAnswered \/ KFileAnswered
           \/ KNextData \/ KDataAcked \/ KDataNaked \/ KDataFailed
           \/ KSendEOF \/ KEOFAnswered \/ KBreakAnswered \/ KFinish
           \/ KSkip

-----------------------------------------------------------------------------
(* The receiver (external). *)

KReceiverStart == /\ rstate \in {"off", "complete", "closed", "aborted"}
                  /\ pc \in {"off", "kflush"}
                  /\ rstate' = "sync" /\ nsync' = 0 /\ rfile' = <<>>
                  /\ toRecv' = <<>>
                  /\ UNCHANGED <<senderVars, staticVars, toSend, noise, rmode>>

(* It asks again for what it waits for. *)
KReceiverAsks == /\ rstate \in {"sync", "file", "receiving"}
                 /\ nsync < MaxSync
                 /\ nsync' = nsync + 1
                 /\ toSend' = Append(toSend, "N")
                 /\ UNCHANGED <<senderVars, staticVars, toRecv, noise, rstate,
                                rmode, rfile>>

(* A packet is taken when it is the next one, acknowledged again when it is *)
(* the one before, and answered with N otherwise.                           *)
KReceiverTakes ==
  /\ toRecv # <<>>
  /\ rstate \in {"sync", "file", "receiving", "complete"}
  /\ LET p == Head(toRecv)
     IN  \/ ~p.ok /\ Receives("N", rstate, rfile)
         \/ p.ok /\ p.kind = "S" /\ rstate \in {"sync", "file"}
              /\ Receives("Y", "file", rfile)
         \/ p.ok /\ p.kind = "F" /\ rstate \in {"file", "receiving"}
              /\ Receives("Y", "receiving", rfile)
         \/ /\ p.ok /\ p.kind = "D" /\ rstate = "receiving"
            /\ IF HasIdx(p, Expected) THEN Receives("Y", rstate,
                                                    Append(rfile, p.num))
               ELSE Receives(IF HasIdx(p, Expected - 1) THEN "Y" ELSE "N",
                             rstate, rfile)
         \/ /\ p.ok /\ p.kind = "Z" /\ rstate \in {"receiving", "complete"}
            /\ IF HasIdx(p, Expected) THEN Receives("Y", "complete", rfile)
                                      ELSE Receives("N", rstate, rfile)
         \/ /\ p.ok /\ p.kind = "B" /\ rstate = "complete"
            /\ Receives("Y", "closed", rfile)

KReceiverDrops ==
  /\ toRecv # <<>>
  /\ LET p == Head(toRecv)
         closed == rstate \in {"off", "closed", "aborted"}
         error == p.ok /\ p.kind = "E"
         wrong == CASE rstate = "sync" -> {"F", "D", "Z", "B"}
                    [] rstate = "file" -> {"D", "Z", "B"}
                    [] rstate = "receiving" -> {"S", "B"}
                    [] rstate = "complete" -> {"S", "F", "D"}
                    [] closed -> {}
     IN  /\ closed \/ error \/ (p.ok /\ p.kind \in wrong)
         /\ toSend' = IF closed \/ error THEN toSend ELSE Append(toSend, "E")
         /\ rstate' = IF closed THEN rstate ELSE "aborted"
  /\ toRecv' = Tail(toRecv)
  /\ UNCHANGED <<senderVars, staticVars, noise, rmode, nsync, rfile>>

KReceiver == /\ KReceiverAsks \/ KReceiverTakes \/ KReceiverDrops
             /\ UNCHANGED kVars

(* Noise inside an answer. *)
KNoise == /\ noise < MaxNoise
          /\ noise' = noise + 1
          /\ \E i \in DOMAIN toSend : toSend' = [toSend EXCEPT ![i] = "bad"]
          /\ UNCHANGED <<senderVars, staticVars, toRecv, receiverVars, kVars>>
=============================================================================
