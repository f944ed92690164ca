------------------------------- MODULE YModem -------------------------------
(***************************************************************************)
(* xterminal/proto/ProtoYmodem.cpp: sending files with YMODEM.  A header   *)
(* frame with the name comes first and an empty one ends the batch; the    *)
(* frames between them and EOT are sent as in XModem, whose variables,     *)
(* frame actions and line this module uses.                                *)
(*                                                                         *)
(* The receiver, a standard YMODEM receiver, is external.                  *)
(***************************************************************************)
EXTENDS XModem

VARIABLES last_one, (* the file is the last of the batch                    *)
          seen      (* expect_seqs: what it has read                        *)

yVars == <<last_one, seen>>

Header(kind) == [kind |-> kind, num |-> 0, cs |-> "C", ok |-> TRUE]

YInit == last_one = TRUE /\ seen = <<>>

-----------------------------------------------------------------------------
(* expect_seqs takes everything there is and looks for the sequence at the  *)
(* first place its first character has in all it has read.                  *)

FirstAt(s, c) == CHOOSE i \in DOMAIN s :
                    s[i] = c /\ \A j \in DOMAIN s : s[j] = c => i <= j

Matches(s, tks) == /\ \E i \in DOMAIN s : s[i] = tks[1]
                   /\ IsPrefix(tks, SubSeq(s, FirstAt(s, tks[1]), Len(s)))

ReadsChunk(n) == /\ ~should_stop
                 /\ n \in 1 .. Len(toSend)
                 /\ toSend' = SubSeq(toSend, n + 1, Len(toSend))

Chunk(n) == seen \o SubSeq(toSend, 1, n)

SeqFound(tks) == /\ \E n \in 1 .. Len(toSend) :
                      ReadsChunk(n) /\ Matches(Chunk(n), tks)
                 /\ seen' = <<>>

SeqMissing == NoAnswer /\ seen' = <<>>

SeqGoesOn(tks) == /\ \E n \in 1 .. Len(toSend) :
                       /\ ReadsChunk(n) /\ ~Matches(Chunk(n), tks)
                       /\ seen' = Chunk(n)
                  /\ UNCHANGED <<senderVars, staticVars, toRecv, noise,
                                 receiverVars, last_one>>

-----------------------------------------------------------------------------
(* The sender. *)

YTransferBegin == /\ pc = "off"
                  /\ ntransfers < MaxTransfers
                  /\ ntransfers' = ntransfers + 1
                  /\ pc' = "ysync"
                  /\ k' = 0 /\ retry' = 0 /\ cs_type' = "C" /\ failed' = FALSE
                  /\ last_one' \in BOOLEAN
                  /\ UNCHANGED <<should_stop, ret, toRecv, toSend, noise,
                                 receiverVars, seen>>

(* The header is written whether the receiver asked for CRC16 or not. *)
YSync == /\ pc = "ysync"
         /\ \/ Got("C") /\ UNCHANGED failed
            \/ Got("CAN") /\ failed' = TRUE
            \/ NoAnswer /\ failed' = TRUE
         /\ toRecv' = Append(toRecv, Header("header"))
         /\ pc' = "yheader"
         /\ UNCHANGED <<k, retry, cs_type, staticVars, noise, receiverVars,
                        yVars>>

YSyncSkip == /\ pc = "ysync"
             /\ SkipAnswer({"C", "CAN"})
             /\ UNCHANGED yVars

YHeaderAnswered == /\ pc = "yheader"
                   /\ \/ SeqFound(<<"ACK", "C">>) /\ UNCHANGED failed
                      \/ SeqMissing /\ failed' = TRUE
                   /\ pc' = "next"
                   /\ UNCHANGED <<k, retry, cs_type, staticVars, toRecv, noise,
                                  receiverVars, last_one>>

YHeaderGoesOn == pc = "yheader" /\ SeqGoesOn(<<"ACK", "C">>)

(* EOT: the answer has to be ACK and C; then, after the last file, the      *)
(* empty header.                                                            *)
YEOTAnswered ==
  /\ pc = "eot"
  /\ \/ /\ SeqFound(<<"ACK", "C">>)
        /\ failed' = FALSE
        /\ IF last_one THEN /\ toRecv' = Append(toRecv, Header("empty"))
                            /\ pc' = "ytail"
                       ELSE pc' = "finish" /\ UNCHANGED toRecv
     \/ SeqMissing /\ pc' = "finish" /\ UNCHANGED <<failed, toRecv>>
  /\ UNCHANGED <<k, retry, cs_type, staticVars, noise, receiverVars, last_one>>

YEOTGoesOn == pc = "eot" /\ SeqGoesOn(<<"ACK", "C">>)

YTailAnswered == /\ pc = "ytail"
                 /\ \/ SeqFound(<<"ACK">>) /\ failed' = FALSE
                    \/ SeqMissing /\ failed' = TRUE
                 /\ pc' = "finish"
                 /\ UNCHANGED <<k, retry, cs_type, staticVars, toRecv, noise,
                                receiverVars, last_one>>

YTailGoesOn == pc = "ytail" /\ SeqGoesOn(<<"ACK">>)

(* TransmitFile returns -1 for a file that was sent as well: the loop over  *)
(* the files of the batch ends with the first one.                          *)
YTransferEnd == /\ pc = "done" /\ ret <= 0
                /\ TransferEnd
                /\ UNCHANGED yVars

(* _TransmitFrame, the loop over the frames, EOT and CAN are XModem's. *)
YShared == \/ NextFrame \/ FrameAcked \/ FrameNaked \/ FrameFailed \/ FrameSkip
           \/ SendEOT \/ Cancelled \/ Finish

YSender == \/ YSync \/ YSyncSkip \/ YHeaderAnswered \/ YHeaderGoesOn
           \/ YShared /\ UNCHANGED yVars
           \/ YEOTAnswered \/ YEOTGoesOn \/ YTailAnswered \/ YTailGoesOn

-----------------------------------------------------------------------------
(* The receiver (external): it asks with C for the header and again for the *)
(* frames, and after EOT for the next header.                               *)

YReceiverStart == /\ rstate \in {"off", "complete", "closed", "aborted"}
                  /\ pc \in {"off", "ysync"}
                  /\ rstate' = "sync" /\ rmode' = "C" /\ nsync' = 0
                  /\ rfile' = <<>> /\ toRecv' = <<>>
                  /\ UNCHANGED <<senderVars, staticVars, toSend, noise>>

YReceiverAsks == /\ rstate = "sync" \/ (rstate = "receiving" /\ rfile = <<>>)
                 /\ nsync < MaxSync
                 /\ nsync' = nsync + 1
                 /\ toSend' = Append(toSend, "C")
                 /\ UNCHANGED <<senderVars, staticVars, toRecv, noise, rstate,
                                rmode, rfile>>

Answers2(answers, state) ==
  /\ toRecv' = Tail(toRecv)
  /\ toSend' = toSend \o answers
  /\ rstate' = state
  /\ UNCHANGED <<senderVars, staticVars, noise, rmode, nsync, rfile>>

YReceiverHeader ==
  /\ toRecv # <<>>
  /\ LET p == Head(toRecv)
     IN  \/ /\ rstate \in {"sync", "receiving", "complete"}
            /\ p.kind \in {"header", "empty"} /\ ~p.ok
            /\ Answers2(<<"NAK">>, rstate)
         \/ /\ rstate \in {"sync", "receiving"} /\ rfile = <<>>
            /\ p.kind = "header" /\ p.ok
            /\ Answers2(<<"ACK", "C">>, "receiving")
         \/ /\ rstate = "complete"
            /\ p.kind = "empty" /\ p.ok
            /\ Answers2(<<"ACK">>, "closed")

YReceiverFrame == rstate = "receiving" /\ ReceiverFrame

YReceiverEOT == /\ rstate = "receiving"
                /\ toRecv # <<>>
                /\ Head(toRecv).kind = "EOT"
                /\ Answers2(<<"ACK", "C">>, "complete")

YReceiverDrops ==
  /\ toRecv # <<>>
  /\ LET p == Head(toRecv)
         takes == rstate \in {"sync", "receiving"}
     IN  /\ \/ rstate \in {"off", "closed", "aborted"} \/ p.kind = "CAN"
            \/ rstate = "complete" /\ p.kind # "empty"
            \/ rstate = "sync" /\ p.kind \in {"frame", "EOT"}
         /\ rstate' = IF takes /\ p.kind = "CAN" THEN "aborted" ELSE rstate
  /\ toRecv' = Tail(toRecv)
  /\ UNCHANGED <<senderVars, staticVars, toSend, noise, rmode, nsync, rfile>>

YReceiver == /\ \/ YReceiverAsks \/ YReceiverHeader \/ YReceiverFrame
                \/ YReceiverEOT \/ YReceiverDrops
             /\ UNCHANGED yVars
=============================================================================
