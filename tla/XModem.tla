------------------------------- MODULE XModem -------------------------------
(***************************************************************************)
(* xterminal/proto/ProtoXmodem.cpp: sending a file with XMODEM.  The job   *)
(* thread of TransmitFile synchronises with the receiver, sends the file   *)
(* frame by frame, each answered by ACK, NAK or CAN, then EOT.  The        *)
(* progress dialog's close button sets should_stop at any moment, and the  *)
(* same process may send again afterwards.                                 *)
(*                                                                         *)
(* The receiver is a standard XMODEM receiver and external, as are the two *)
(* directions of the line.  A frame is its number in the file: its data is *)
(* what the receiver stores when it accepts the frame.                     *)
(***************************************************************************)
EXTENDS Integers, Sequences, SequencesExt

CONSTANTS NFrames,     (* frames of the file                                *)
          IdxMod,      (* frame indexes wrap at this, 256 in the code       *)
          MaxRetry,    (* int retry = 3                                     *)
          MaxNoise,    (* frames or answers the line damages (a bound)      *)
          MaxSync,     (* sync characters a receiver sends (a bound)        *)
          MaxTransfers (* transfers in a behaviour (a bound)                *)

ASSUME XModemAssumption == /\ NFrames \in Nat
                           /\ IdxMod \in Nat \ {0, 1, 2}
                           /\ MaxRetry \in Nat \ {0}
                           /\ {MaxNoise, MaxSync, MaxTransfers} \subseteq Nat

VARIABLES
  pc,          (* the job: where it is in TransmitFile's lambda            *)
  k,           (* frames taken from the file; idx is k % IdxMod            *)
  retry,       (* the loop counter of _TransmitFrame                       *)
  cs_type,     (* checksum announced by the sync character                 *)
  failed,
  should_stop, (* static: it outlives the transfer                         *)
  ret,         (* what TransmitFile returned last, 0 before                *)
  ntransfers,  (* history: transfers begun                                 *)
  toRecv,      (* what the sender wrote and the receiver has not seen      *)
  toSend,      (* the receiver's answers, not read by the job yet          *)
  noise,       (* damages so far                                           *)
  rstate,      (* receiver: "off", "sync", "receiving", "complete" or      *)
               (* "aborted"                                                *)
  rmode,       (* the sync character it sends                              *)
  nsync,       (* how often it did                                         *)
  rfile        (* the frames it stored                                     *)

senderVars == <<pc, k, retry, cs_type, failed>>
staticVars == <<should_stop, ret, ntransfers>>
receiverVars == <<rstate, rmode, nsync, rfile>>
vars == <<pc, k, retry, cs_type, failed, should_stop, ret, ntransfers, toRecv,
          toSend, noise, rstate, rmode, nsync, rfile>>

SyncChars == {"C", "NAK", "W"}
Answers == SyncChars \cup {"ACK", "CAN"}

Frame(n, cs, ok) == [kind |-> "frame", num |-> n, cs |-> cs, ok |-> ok]
Control(c) == [kind |-> c, num |-> 0, cs |-> "C", ok |-> TRUE]
Packets == [kind : {"frame"}, num : 1 .. NFrames, cs : {"C", "NAK"}, ok : BOOLEAN]
             \cup {Control("EOT"), Control("CAN")}

FullFile == [i \in 1 .. NFrames |-> i]

Init == /\ pc = "off" /\ k = 0 /\ retry = 0 /\ cs_type = "C"
        /\ failed = FALSE /\ should_stop = FALSE /\ ret = 0 /\ ntransfers = 0
        /\ toRecv = <<>> /\ toSend = <<>> /\ noise = 0
        /\ rstate = "off" /\ rmode = "C" /\ nsync = 0 /\ rfile = <<>>

-----------------------------------------------------------------------------
(* expect_resp: one byte of the device at a time, others than the expected *)
(* ones are skipped; it gives up when the user cancels or nothing came.    *)

Got(c) == /\ ~should_stop
          /\ toSend # <<>>
          /\ Head(toSend) = c
          /\ toSend' = Tail(toSend)

NoAnswer == /\ should_stop \/ toSend = <<>>
            /\ UNCHANGED toSend

SkipAnswer(tks) == /\ \E c \in Answers \ tks : Got(c)
                   /\ UNCHANGED <<senderVars, staticVars, toRecv, noise,
                                  receiverVars>>

-----------------------------------------------------------------------------
(* The sender. *)

Packet == Frame(k, cs_type, TRUE)

(* TransmitFile: everything is set up anew but the static should_stop. *)
TransferBegin == /\ pc = "off"
                 /\ ntransfers < MaxTransfers
                 /\ ntransfers' = ntransfers + 1
                 /\ pc' = "sync"
                 /\ k' = 0 /\ retry' = 0 /\ cs_type' = "C" /\ failed' = FALSE
                 /\ UNCHANGED <<should_stop, ret, toRecv, toSend, noise,
                                receiverVars>>

(* The dialog's WhenClose. *)
UserCancel == /\ pc # "off"
              /\ should_stop' = TRUE
              /\ UNCHANGED <<senderVars, ret, ntransfers, toRecv, toSend,
                             noise, receiverVars>>

Sync_KeepsType ==
        /\ pc = "sync"
        /\ \/ Got("C") /\ UNCHANGED failed
           \/ Got("NAK") /\ UNCHANGED failed
           \/ Got("W") /\ failed' = TRUE
           \/ NoAnswer /\ failed' = TRUE
        /\ pc' = "next"
        /\ UNCHANGED <<k, retry, cs_type, staticVars, toRecv, noise,
                       receiverVars>>

(* Sync: 'C' asks for CRC16, NAK for the checksum, anything else fails. *)
Sync == /\ pc = "sync"
        /\ \/ Got("C") /\ cs_type' = "C" /\ UNCHANGED failed
           \/ Got("NAK") /\ cs_type' = "NAK" /\ UNCHANGED failed
           \/ Got("W") /\ failed' = TRUE /\ UNCHANGED cs_type
           \/ NoAnswer /\ failed' = TRUE /\ UNCHANGED cs_type
        /\ pc' = "next"
        /\ UNCHANGED <<k, retry, staticVars, toRecv, noise, receiverVars>>

SyncSkip == pc = "sync" /\ SkipAnswer(SyncChars)

(* while (!should_stop && !failed && !fin.IsEof()): the next frame is read *)
(* and sent for the first time.                                            *)
NextFrame == /\ pc = "next"
             /\ ~should_stop /\ ~failed /\ k < NFrames
             /\ k' = k + 1
             /\ toRecv' = Append(toRecv, Frame(k + 1, cs_type, TRUE))
             /\ retry' = MaxRetry - 1
             /\ pc' = "wait"
             /\ UNCHANGED <<cs_type, failed, staticVars, toSend, noise,
                            receiverVars>>

FrameAcked == /\ pc = "wait"
              /\ Got("ACK")
              /\ pc' = "next"
              /\ UNCHANGED <<k, retry, cs_type, failed, staticVars, toRecv,
                             noise, receiverVars>>

FrameNaked_Forever ==
              /\ pc = "wait"
              /\ Got("NAK")
              /\ toRecv' = Append(toRecv, Packet)
              /\ UNCHANGED <<k, cs_type, failed, staticVars, noise,
                             receiverVars, pc, retry>>

FrameNaked_TakesNext ==
              /\ pc = "wait"
              /\ Got("NAK")
              /\ toRecv' = Append(toRecv, Frame((k % NFrames) + 1, cs_type, TRUE))
              /\ retry' = retry - 1
              /\ pc' = IF retry > 0 THEN "wait" ELSE "next"
              /\ UNCHANGED <<k, cs_type, failed, staticVars, noise,
                             receiverVars>>

FrameNaked_OneMore ==
              /\ pc = "wait"
              /\ Got("NAK")
              /\ toRecv' = toRecv \o <<Packet, Packet>>
              /\ retry' = retry - 1
              /\ pc' = IF retry >= 0 THEN "wait" ELSE "next"
              /\ UNCHANGED <<k, cs_type, failed, staticVars, noise,
                             receiverVars>>

(* NAK: the packet is written, and written again at the top of the loop    *)
(* unless the retries are used up; then the loop ends without a failure.   *)
FrameNaked == /\ pc = "wait"
              /\ Got("NAK")
              /\ IF retry > 0
                 THEN /\ toRecv' = toRecv \o <<Packet, Packet>>
                      /\ retry' = retry - 1
                      /\ UNCHANGED pc
                 ELSE /\ toRecv' = Append(toRecv, Packet)
                      /\ pc' = "next"
                      /\ UNCHANGED retry
              /\ UNCHANGED <<k, cs_type, failed, staticVars, noise,
                             receiverVars>>

(* CAN, a user's cancel or no answer in time: the transfer failed. *)
FrameFailed == /\ pc = "wait"
               /\ Got("CAN") \/ NoAnswer
               /\ failed' = TRUE
               /\ pc' = "next"
               /\ UNCHANGED <<k, retry, cs_type, staticVars, toRecv, noise,
                              receiverVars>>

FrameSkip == pc = "wait" /\ SkipAnswer({"ACK", "NAK", "CAN"})

SendEOT_AnyTime ==
           /\ pc = "next"
           /\ should_stop \/ k >= NFrames - 1
           /\ toRecv' = Append(toRecv, Control("EOT"))
           /\ failed' = TRUE
           /\ pc' = "eot"
           /\ UNCHANGED <<k, retry, cs_type, staticVars, toSend, noise,
                          receiverVars>>

(* Unless something failed, EOT ends the file, also when the user stopped  *)
(* the loop before its end.                                                *)
SendEOT == /\ pc = "next"
           /\ ~failed
           /\ should_stop \/ k = NFrames
           /\ toRecv' = Append(toRecv, Control("EOT"))
           /\ failed' = TRUE
           /\ pc' = "eot"
           /\ UNCHANGED <<k, retry, cs_type, staticVars, toSend, noise,
                          receiverVars>>

EOTAnswered == /\ pc = "eot"
               /\ \/ Got("ACK") /\ failed' = FALSE
                  \/ NoAnswer /\ UNCHANGED failed
               /\ pc' = "finish"
               /\ UNCHANGED <<k, retry, cs_type, staticVars, toRecv, noise,
                              receiverVars>>

EOTSkip == pc = "eot" /\ SkipAnswer({"ACK"})

Cancelled == /\ pc = "next"
             /\ failed
             /\ pc' = "finish"
             /\ UNCHANGED <<k, retry, cs_type, failed, staticVars, toRecv,
                            toSend, noise, receiverVars>>

(* A CAN for a cancelled transfer, and the dialog is closed; the function  *)
(* returns T_FAILED, or input_size, which is -1 as well.                   *)
Finish == /\ pc = "finish"
          /\ toRecv' = IF should_stop THEN Append(toRecv, Control("CAN"))
                                      ELSE toRecv
          /\ ret' = -1
          /\ pc' = "done"
          /\ UNCHANGED <<k, retry, cs_type, failed, should_stop, ntransfers,
                         toSend, noise, receiverVars>>

(* The dialog is gone and the terminal runs again: it reads some of the    *)
(* answers that nobody waited for.                                         *)
TransferEnd == /\ pc = "done"
               /\ pc' = "off"
               /\ \E n \in 0 .. Len(toSend) :
                    toSend' = SubSeq(toSend, n + 1, Len(toSend))
               /\ UNCHANGED <<k, retry, cs_type, failed, staticVars, toRecv,
                              noise, receiverVars>>

Sender == \/ Sync \/ SyncSkip
          \/ NextFrame \/ FrameAcked \/ FrameNaked \/ FrameFailed \/ FrameSkip
          \/ SendEOT \/ EOTAnswered \/ EOTSkip \/ Cancelled
          \/ Finish

-----------------------------------------------------------------------------
(* The receiver (external). *)

(* It starts with a purged line and asks for one kind of checksum. *)
ReceiverStart == /\ rstate \in {"off", "complete", "aborted"}
                 /\ pc \in {"off", "sync"}
                 /\ rstate' = "sync"
                 /\ rmode' \in SyncChars
                 /\ nsync' = 0
                 /\ rfile' = <<>>
                 /\ toRecv' = <<>>
                 /\ UNCHANGED <<senderVars, staticVars, toSend, noise>>

ReceiverSync == /\ rstate = "sync"
                /\ nsync < MaxSync
                /\ nsync' = nsync + 1
                /\ toSend' = Append(toSend, rmode)
                /\ UNCHANGED <<senderVars, staticVars, toRecv, noise, rstate,
                               rmode, rfile>>

Receives(answer, state, file) ==
  /\ toRecv' = Tail(toRecv)
  /\ toSend' = Append(toSend, answer)
  /\ rstate' = state
  /\ rfile' = file
  /\ UNCHANGED <<senderVars, staticVars, noise, rmode, nsync>>

Expected == Len(rfile) + 1
HasIdx(p, n) == p.num % IdxMod = n % IdxMod

(* A sound frame is stored when its index is the next one, acknowledged    *)
(* only when it repeats the last one, and ends the transfer otherwise.     *)
ReceiverFrame ==
  /\ rstate \in {"sync", "receiving"}
  /\ toRecv # <<>>
  /\ LET p == Head(toRecv)
     IN  /\ p.kind = "frame"
         /\ \/ /\ ~p.ok \/ p.cs # rmode
               /\ Receives("NAK", rstate, rfile)
            \/ /\ p.ok /\ p.cs = rmode
               /\ \/ /\ HasIdx(p, Expected)
                     /\ Receives("ACK", "receiving", Append(rfile, p.num))
                  \/ /\ HasIdx(p, Expected - 1)
                     /\ Receives("ACK", "receiving", rfile)
                  \/ /\ ~HasIdx(p, Expected) /\ ~HasIdx(p, Expected - 1)
                     /\ Receives("CAN", "aborted", rfile)

ReceiverEOT == /\ rstate \in {"sync", "receiving"}
               /\ toRecv # <<>>
               /\ Head(toRecv).kind = "EOT"
               /\ Receives("ACK", "complete", rfile)

(* CAN ends it, and a receiver that ended takes no notice of the line. *)
ReceiverDrops ==
  /\ toRecv # <<>>
  /\ rstate \in {"off", "complete", "aborted"} \/ Head(toRecv).kind = "CAN"
  /\ toRecv' = Tail(toRecv)
  /\ rstate' = IF rstate \in {"sync", "receiving"} THEN "aborted" ELSE rstate
  /\ UNCHANGED <<senderVars, staticVars, toSend, noise, rmode, nsync, rfile>>

Receiver == ReceiverSync \/ ReceiverFrame \/ ReceiverEOT \/ ReceiverDrops

(* What carries a checksum: of the receivers' protocols, those of YModem    *)
(* and Kermit included.                                                     *)
Checked == {"frame", "header", "empty", "S", "F", "D", "Z", "B"}

(* The line damages a frame, or an answer, which then matches nothing. *)
Noise ==
  /\ noise < MaxNoise
  /\ noise' = noise + 1
  /\ \/ /\ \E i \in 1 .. Len(toRecv) :
             /\ toRecv[i].kind \in Checked
             /\ toRecv' = [toRecv EXCEPT ![i].ok = FALSE]
        /\ UNCHANGED toSend
     \/ /\ \E i \in 1 .. Len(toSend) :
             toSend' = SubSeq(toSend, 1, i - 1)
                         \o SubSeq(toSend, i + 1, Len(toSend))
        /\ UNCHANGED toRecv
  /\ UNCHANGED <<senderVars, staticVars, receiverVars>>

-----------------------------------------------------------------------------
Next == \/ TransferBegin \/ UserCancel \/ Sender \/ TransferEnd
        \/ ReceiverStart \/ Receiver
        \/ Noise

Spec == Init /\ [][Next]_vars

(* The job thread goes on: expect_resp always comes back.  The receiver,  *)
(* the user and the line owe nothing.                                     *)
FairSpec == Spec /\ WF_vars(Sender)

-----------------------------------------------------------------------------
(* Every variable keeps its type. *)
TypeOK == /\ pc \in {"off", "sync", "next", "wait", "eot", "finish", "done"}
          /\ k \in 0 .. NFrames /\ retry \in 0 .. MaxRetry - 1
          /\ cs_type \in {"C", "NAK"}
          /\ failed \in BOOLEAN /\ should_stop \in BOOLEAN
          /\ ret \in Int /\ ntransfers \in 0 .. MaxTransfers
          /\ toRecv \in Seq(Packets) /\ toSend \in Seq(Answers)
          /\ noise \in 0 .. MaxNoise
          /\ rstate \in {"off", "sync", "receiving", "complete", "aborted"}
          /\ rmode \in SyncChars /\ nsync \in 0 .. MaxSync
          /\ rfile \in Seq(1 .. NFrames)

(* What the receiver stored is always the beginning of the file: the       *)
(* double retransmission after a NAK, the answers it leaves behind and the *)
(* wrapping index never put a frame in another's place, on a line that     *)
(* damages frames (ProtoXmodem.cpp 94-147, 193-209).  A second transfer    *)
(* into a receiver that still waits for the first one is not spoken of.    *)
StoredIsPrefix == ntransfers = 1 => IsPrefix(rfile, FullFile)

InFlight == {toRecv[i].num : i \in {j \in 1 .. Len(toRecv) :
                                      toRecv[j].kind \in {"frame", "D"}}}
Stored == {rfile[i] : i \in 1 .. Len(rfile)}

(* On a line without damage a transfer that did not fail has delivered     *)
(* every frame or has it on the way, although answers to repeated sync     *)
(* characters and retransmissions let the sender run ahead.  A later       *)
(* transfer can take answers an earlier one left behind for its own.       *)
SuccessIsDelivered ==
  (noise = 0 /\ ntransfers = 1 /\ pc = "done" /\ ~failed
     /\ rstate \in {"receiving", "complete", "closed"})
     => 1 .. NFrames \subseteq Stored \cup InFlight

(* On a line without damage a receiver takes a file for complete only when *)
(* it has all of it, or the user cancelled: then EOT may follow any frame.  *)
(* This too is about the first transfer only.                              *)
CompleteIsWhole ==
  (noise = 0 /\ ntransfers = 1 /\ rstate \in {"complete", "closed"}
     /\ ~should_stop)
     => rfile = FullFile

(* The job ends, so that the modal dialog closes and the terminal runs     *)
(* again, whatever the receiver and the line do.                           *)
TransferEnds == pc \notin {"off", "done"} ~> pc = "done"

(* "completed." (ProtoXmodem.cpp 234): a transfer that the sender takes    *)
(* for completed is complete at a receiver that took it for complete.      *)
CompletedIsWhole ==
  (pc = "done" /\ ~failed /\ rstate = "complete" /\ ~should_stop)
     => rfile = FullFile

=============================================================================
