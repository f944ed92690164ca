------------------------- MODULE FileTransfer_proofs -------------------------
(***************************************************************************)
(* Theorems about FileTransfer.                                            *)
(*                                                                         *)
(* The first half is what keeps the pieces of a file in their places in a  *)
(* Kermit transfer: the sender sends a packet for an answer, the receiver  *)
(* an answer for a packet, and it may ask again; packets and answers that  *)
(* are on their way are no more than the asking allows, and an index tells *)
(* them apart as long as it does not wrap within so many.                  *)
(*                                                                         *)
(* The second half is what the header, which goes before the frames, adds  *)
(* in a YMODEM transfer to the inductive invariant of XModem, and then     *)
(* the theorems, about whichever protocol the transfer takes.              *)
(***************************************************************************)
EXTENDS FileTransfer, XModem_proofs

USE XModemAssumption
    DEF senderVars, staticVars, receiverVars, kVars

-----------------------------------------------------------------------------
(* Types.                                                                  *)
KAnswers == {"Y", "N", "E", "bad"}
Yes(s) == Cardinality(Places(s, {"Y"}))

KTyped == /\ k \in 0 .. NFrames /\ noise \in Nat /\ ntransfers \in Nat
          /\ nsync \in 0 .. MaxSync
          /\ toRecv \in Seq(KermitPackets) /\ toSend \in Seq(KAnswers)
          /\ rfile \in Seq(1 .. NFrames)
          /\ pc = "kwait" => k > 0

(* What the types say of the numbers the invariants compare.               *)
LEMMA KTypes ==
  ASSUME KTyped
  PROVE  /\ k \in Nat /\ k <= NFrames /\ noise \in Nat /\ nsync \in Nat
         /\ nsync <= MaxSync /\ MaxSync \in Nat /\ ntransfers \in Nat
         /\ Len(rfile) \in Nat /\ Expected = Len(rfile) + 1
         /\ toRecv \in Seq(Parcels) /\ Len(toRecv) \in Nat
         /\ Len(toSend) \in Nat /\ toSend \in Seq(KAnswers)
         /\ Yes(toSend) \in Nat /\ Yes(toSend) <= Len(toSend)
         /\ Num(toRecv, k, 1) \in Nat
<1>1. /\ k \in Nat /\ k <= NFrames /\ noise \in Nat /\ nsync \in Nat
      /\ nsync <= MaxSync /\ MaxSync \in Nat /\ ntransfers \in Nat
  BY DEF KTyped
<1>2. toRecv \in Seq(Parcels)
  BY SeqMonotonic DEF KTyped, Parcels
<1>3. Len(rfile) \in Nat /\ Expected = Len(rfile) + 1 /\ Len(toRecv) \in Nat
      /\ Len(toSend) \in Nat /\ toSend \in Seq(KAnswers)
  BY <1>2, LenProperties DEF KTyped, Expected
<1>4. Yes(toSend) \in Nat /\ Yes(toSend) <= Len(toSend)
  BY <1>3, PlacesType DEF Yes
<1>5. Num(toRecv, k, 1) \in Nat
  BY <1>1, <1>2, NumType
<1>. QED  BY <1>1, <1>2, <1>3, <1>4, <1>5

(* The answers after a step.                                               *)
LEMMA KTypedNext ==
  ASSUME KTyped'
  PROVE  /\ Len(toSend') \in Nat /\ Yes(toSend') \in Nat
         /\ Yes(toSend') <= Len(toSend')
<1>. toSend' \in Seq(KAnswers)
  BY DEF KTyped
<1>. QED  BY LenProperties, PlacesType DEF Yes

(* The packets the job makes.                                              *)
LEMMA KPacketType ==
  ASSUME NEW n \in Nat
  PROVE  /\ \A kind \in {"S", "F", "Z", "B", "E"} :
              /\ KPacket(kind, n) \in KermitPackets /\ ~IsFrame(KPacket(kind, n))
         /\ n \in 1 .. NFrames =>
              KPacket("D", n) \in KermitPackets /\ IsFrame(KPacket("D", n))
         /\ \A kind \in {"S", "F", "D", "Z", "B", "E"} :
              /\ KPacket(kind, n).kind = kind /\ KPacket(kind, n).num = n
              /\ KPacket(kind, n).ok
BY DEF KPacket, KermitPackets, IsFrame

(* A Kermit packet is a parcel of the line; only D is a frame.             *)
LEMMA KermitParcel ==
  ASSUME NEW p \in KermitPackets
  PROVE  /\ p \in Parcels /\ p.kind \in {"S", "F", "D", "Z", "B", "E"}
         /\ IsFrame(p) <=> p.kind = "D"
BY DEF Parcels, KermitPackets, IsFrame

(* The answers that are left when the job has read some.                   *)
LEMMA KAnswersLeft ==
  ASSUME toSend \in Seq(KAnswers),
         \/ UNCHANGED toSend
         \/ NoMark
         \/ \E mark : Marked(mark)
         \/ KSkip
         \/ \E n \in 0 .. Len(toSend) : toSend' = SubSeq(toSend, n + 1, Len(toSend))
  PROVE  /\ toSend' \in Seq(KAnswers)
         /\ Len(toSend') <= Len(toSend)
         /\ Places(toSend, {"Y"}) = {} => Places(toSend', {"Y"}) = {}
<1>0. Len(toSend) \in Nat
  BY LenProperties
<1>1. CASE UNCHANGED toSend \/ NoMark
  <2>1. toSend' = toSend
    BY <1>1 DEF NoMark, NoAnswer
  <2>. QED  BY <1>0, <2>1
<1>2. ASSUME NEW n \in 0 .. Len(toSend), toSend' = SubSeq(toSend, n + 1, Len(toSend))
      PROVE  /\ toSend' \in Seq(KAnswers)
             /\ Len(toSend') <= Len(toSend)
             /\ Places(toSend, {"Y"}) = {} => Places(toSend', {"Y"}) = {}
  <2>1. toSend' \in Seq(KAnswers) /\ Len(toSend') = Len(toSend) - n
    BY <1>2, CutAt
  <2>2. \A i \in 1 .. Len(toSend) - n : toSend'[i] = toSend[i + n]
    BY <1>0, <1>2
  <2>3. ASSUME Places(toSend, {"Y"}) = {}, NEW i \in Places(toSend', {"Y"})
        PROVE  FALSE
    <3>1. i \in 1 .. Len(toSend') /\ toSend'[i] = "Y"
      BY <2>3 DEF Places
    <3>2. i + n \in 1 .. Len(toSend) /\ toSend[i + n] = "Y"
      BY <1>0, <2>1, <2>2, <3>1
    <3>. QED  BY <2>3, <3>2 DEF Places
  <2>. QED  BY <1>0, <2>1, <2>3
<1>3. CASE (\E mark : Marked(mark)) \/ KSkip
  <2>1. toSend # <<>> /\ toSend' = Tail(toSend)
    BY <1>3 DEF Marked, Got, KSkip
  <2>2. Len(toSend) >= 1 /\ toSend' = SubSeq(toSend, 1 + 1, Len(toSend))
    BY <1>0, <2>1, EmptySeq
  <2>3. 1 \in 0 .. Len(toSend)
    BY <1>0, <2>2
  <2>. QED  BY <1>2, <2>2, <2>3
<1>. QED  BY <1>1, <1>2, <1>3

(* What the receiver leaves on the line, and what it answers.              *)
LEMMA KReceivesType ==
  ASSUME KTyped, toRecv # <<>>, toRecv' = Tail(toRecv),
         \/ UNCHANGED toSend
         \/ \E answer \in KAnswers : toSend' = Append(toSend, answer)
  PROVE  toRecv' \in Seq(KermitPackets) /\ toSend' \in Seq(KAnswers)
<1>1. toRecv \in Seq(KermitPackets) /\ toSend \in Seq(KAnswers)
  BY DEF KTyped
<1>2. Tail(toRecv) \in Seq(KermitPackets)
  BY <1>1, TailEach
<1>3. toSend' \in Seq(KAnswers)
  <2>1. CASE UNCHANGED toSend
    BY <1>1, <2>1
  <2>2. ASSUME NEW answer \in KAnswers, toSend' = Append(toSend, answer)
        PROVE  toSend' \in Seq(KAnswers)
    BY <1>1, <2>2, AppendProperties
  <2>. QED  BY <2>1, <2>2
<1>. QED  BY <1>2, <1>3

(* The receiver's choices, one by one.                                     *)
LEMMA KTakes ==
  ASSUME KReceiverTakes
  PROVE  LET p == Head(toRecv)
         IN  /\ toRecv # <<>>
             /\ rstate \in {"sync", "file", "receiving", "complete"}
             /\ \/ ~p.ok /\ Receives("N", rstate, rfile)
                \/ /\ p.ok /\ p.kind \in {"S", "F"}
                   /\ rstate \in {"sync", "file", "receiving"}
                   /\ \/ Receives("Y", "file", rfile)
                      \/ Receives("Y", "receiving", rfile)
                \/ /\ p.ok /\ p.kind = "D" /\ rstate = "receiving"
                   /\ \/ /\ HasIdx(p, Expected)
                         /\ Receives("Y", rstate, Append(rfile, p.num))
                      \/ HasIdx(p, Expected - 1) /\ Receives("Y", rstate, rfile)
                      \/ /\ ~HasIdx(p, Expected) /\ ~HasIdx(p, Expected - 1)
                         /\ Receives("N", rstate, rfile)
                \/ /\ p.ok /\ p.kind = "Z" /\ rstate \in {"receiving", "complete"}
                   /\ \/ HasIdx(p, Expected) /\ Receives("Y", "complete", rfile)
                      \/ Receives("N", rstate, rfile)
                \/ /\ p.ok /\ p.kind = "B" /\ rstate = "complete"
                   /\ Receives("Y", "closed", rfile)
<1>. DEFINE p == Head(toRecv)
<1>1. CASE ~HasIdx(p, Expected) /\ HasIdx(p, Expected - 1)
  BY <1>1, Zenon DEF KReceiverTakes
<1>2. CASE ~HasIdx(p, Expected) /\ ~HasIdx(p, Expected - 1)
  BY <1>2, Zenon DEF KReceiverTakes
<1>3. CASE HasIdx(p, Expected)
  BY <1>3, Zenon DEF KReceiverTakes
<1>. QED  BY <1>1, <1>2, <1>3

(* Every step keeps the types.                                             *)
LEMMA KTypedStep == KTyped /\ [KNext]_<<vars, kVars>> => KTyped'
<1>. SUFFICES ASSUME KTyped, [KNext]_<<vars, kVars>>  PROVE KTyped'
  OBVIOUS
<1>0. /\ k \in 0 .. NFrames /\ noise \in Nat /\ ntransfers \in Nat
      /\ nsync \in 0 .. MaxSync /\ MaxSync \in Nat
      /\ toRecv \in Seq(KermitPackets) /\ toSend \in Seq(KAnswers)
      /\ rfile \in Seq(1 .. NFrames)
      /\ pc = "kwait" => k > 0
      /\ <<>> \in Seq(KermitPackets) /\ <<>> \in Seq(1 .. NFrames)
  BY EmptySeq DEF KTyped
<1>1. CASE KTransferBegin \/ KNextFile
  <2>1. /\ k' \in 0 .. NFrames /\ ntransfers' \in Nat /\ pc' = "kflush"
        /\ UNCHANGED <<noise, nsync, toRecv, toSend, rfile>>
    BY <1>0, <1>1 DEF KTransferBegin, KNextFile
  <2>. QED  BY <1>0, <2>1 DEF KTyped
<1>2. CASE KInitFrame
  <2>1. toSend' \in Seq(KAnswers)
    BY <1>0, <1>2, KAnswersLeft DEF KInitFrame
  <2>2. toRecv' \in Seq(KermitPackets)
    <3>1. KPacket("S", 0) \in KermitPackets
      BY KPacketType
    <3>2. Append(toRecv, KPacket("S", 0)) \in Seq(KermitPackets)
      BY <1>0, <3>1, AppendProperties
    <3>. QED  BY <1>2, <3>2, Zenon DEF KInitFrame
  <2>. QED  BY <1>0, <1>2, <2>1, <2>2 DEF KInitFrame, KTyped
<1>3. ASSUME NEW label, NEW next, NEW packets \in Seq(KermitPackets),
             next # "kwait", Once(label, next, packets)
      PROVE  KTyped'
  <2>1. toSend' \in Seq(KAnswers)
    BY <1>0, <1>3, KAnswersLeft DEF Once
  <2>2. toRecv' \in Seq(KermitPackets)
    <3>1. toRecv \o packets \in Seq(KermitPackets)
      BY <1>0, ConcatProperties
    <3>. QED  BY <1>0, <1>3, <3>1, Zenon DEF Once
  <2>3. pc' # "kwait" /\ UNCHANGED <<k, noise, ntransfers, nsync, rfile>>
    BY <1>3 DEF Once
  <2>. QED  BY <1>0, <2>1, <2>2, <2>3 DEF KTyped
<1>4. CASE KInitAnswered \/ KFileAnswered \/ KEOFAnswered \/ KBreakAnswered
  <2>1. /\ KPacket("F", 0) \in KermitPackets
        /\ KPacket("B", k + 2) \in KermitPackets
    BY <1>0, KPacketType
  <2>2. /\ <<KPacket("F", 0)>> \in Seq(KermitPackets)
        /\ <<KPacket("B", k + 2)>> \in Seq(KermitPackets)
    BY <2>1
  <2>3. \/ Once("kS", "kF", <<KPacket("F", 0)>>)
        \/ Once("kF", "kdata", <<>>)
        \/ Once("kZ", "kB", <<KPacket("B", k + 2)>>)
        \/ Once("kZ", "kend", <<>>) \/ Once("kB", "kend", <<>>)
    BY <1>4 DEF KInitAnswered, KFileAnswered, KEOFAnswered, KBreakAnswered
  <2>. QED  BY <1>0, <1>3, <2>2, <2>3
<1>5. CASE KNextData
  <2>1. k' \in 0 .. NFrames /\ k' = k + 1 /\ k' > 0 /\ k' \in 1 .. NFrames
    BY <1>0, <1>5 DEF KNextData, Take, IsEnd
  <2>2. toRecv' \in Seq(KermitPackets)
    BY <1>0, <1>5, <2>1, KPacketType, AppendProperties DEF KNextData
  <2>. QED  BY <1>0, <1>5, <2>1, <2>2 DEF KNextData, KTyped
<1>6. CASE KDataAcked \/ KDataNaked \/ KDataFailed \/ KSkip
  <2>1. toSend' \in Seq(KAnswers)
    BY <1>0, <1>6, KAnswersLeft DEF KDataAcked, KDataNaked, KDataFailed
  <2>2. toRecv' \in Seq(KermitPackets)
    <3>1. pc = "kwait" => Append(toRecv, KData) \in Seq(KermitPackets)
      <4>1. pc = "kwait" => KData \in KermitPackets
        BY <1>0, KPacketType DEF KData
      <4>. QED  BY <1>0, <4>1, AppendProperties
    <3>. QED  BY <1>0, <1>6, <3>1 DEF KDataAcked, KDataNaked, KDataFailed, KSkip
  <2>3. UNCHANGED <<k, noise, ntransfers, nsync, rfile>>
        /\ (pc' = "kwait" => pc = "kwait")
    BY <1>6 DEF KDataAcked, KDataNaked, KDataFailed, KSkip
  <2>. QED  BY <1>0, <2>1, <2>2, <2>3 DEF KTyped
<1>7. CASE KSendEOF \/ KFinish \/ UserCancel
  <2>1. toRecv' \in Seq(KermitPackets)
    <3>1. /\ KPacket("Z", k + 1) \in KermitPackets
          /\ KPacket("E", 0) \in KermitPackets
      BY <1>0, KPacketType
    <3>2. /\ Append(toRecv, KPacket("Z", k + 1)) \in Seq(KermitPackets)
          /\ Append(toRecv, KPacket("E", 0)) \in Seq(KermitPackets)
      BY <1>0, <3>1, AppendProperties
    <3>. QED  BY <1>0, <1>7, <3>2, Zenon DEF KSendEOF, KFinish, UserCancel
  <2>2. /\ UNCHANGED <<k, noise, ntransfers, nsync, toSend, rfile>>
        /\ pc' = pc \/ pc' # "kwait"
    BY <1>7 DEF KSendEOF, KFinish, UserCancel
  <2>. QED  BY <1>0, <2>1, <2>2 DEF KTyped
<1>8. CASE KTransferEnd
  <2>1. toSend' \in Seq(KAnswers)
    BY <1>0, <1>8, KAnswersLeft DEF KTransferEnd, TransferEnd
  <2>. QED  BY <1>0, <1>8, <2>1 DEF KTransferEnd, TransferEnd, KTyped
<1>9. CASE KReceiverStart
  BY <1>0, <1>9 DEF KReceiverStart, KTyped
<1>10. CASE KReceiverAsks
  <2>1. toSend' \in Seq(KAnswers)
    BY <1>0, <1>10, AppendProperties DEF KReceiverAsks, KAnswers
  <2>2. nsync' \in 0 .. MaxSync
    BY <1>0, <1>10 DEF KReceiverAsks
  <2>. QED  BY <1>0, <1>10, <2>1, <2>2 DEF KReceiverAsks, KTyped
<1>11. CASE KReceiverTakes
  <2>1. PICK answer, state, file :
          /\ Receives(answer, state, file)
          /\ answer \in {"Y", "N"}
          /\ \/ file = rfile
             \/ file = Append(rfile, Head(toRecv).num) /\ Head(toRecv).kind = "D"
    BY <1>11, KTakes, Zenon
  <2>2. toRecv # <<>> /\ toRecv' = Tail(toRecv)
    BY <1>11, <2>1, KTakes DEF Receives
  <2>3. toRecv' \in Seq(KermitPackets) /\ toSend' \in Seq(KAnswers)
    BY <1>0, <2>1, <2>2, KReceivesType DEF Receives, KAnswers
  <2>4. rfile' \in Seq(1 .. NFrames)
    <3>1. Head(toRecv) \in KermitPackets
      BY <1>0, <2>2, HeadTailProperties
    <3>2. Head(toRecv).kind = "D" => Head(toRecv).num \in 1 .. NFrames
      BY <3>1, KermitParcel, PacketFields
    <3>3. Head(toRecv).kind = "D" => Append(rfile, Head(toRecv).num) \in Seq(1 .. NFrames)
      BY <1>0, <3>2, AppendProperties
    <3>4. rfile' = file
      BY <2>1 DEF Receives
    <3>. QED  BY <1>0, <2>1, <3>3, <3>4
  <2>5. UNCHANGED <<pc, k, noise, ntransfers, nsync>>
    BY <2>1 DEF Receives
  <2>. QED  BY <1>0, <2>3, <2>4, <2>5 DEF KTyped
<1>12. CASE KReceiverDrops
  <2>1. toRecv # <<>> /\ toRecv' = Tail(toRecv)
        /\ (UNCHANGED toSend \/ toSend' = Append(toSend, "E"))
    BY <1>12 DEF KReceiverDrops
  <2>2. toRecv' \in Seq(KermitPackets) /\ toSend' \in Seq(KAnswers)
    BY <2>1, KReceivesType DEF KAnswers
  <2>. QED  BY <1>0, <1>12, <2>2 DEF KReceiverDrops, KTyped
<1>13. CASE KNoise
  <2>1. noise' \in Nat
    <3>1. noise' = noise + 1
      BY <1>13 DEF KNoise
    <3>. QED  BY <1>0, <3>1
  <2>2. PICK i \in 1 .. Len(toSend) : toSend' = [toSend EXCEPT ![i] = "bad"]
    <3>1. DOMAIN toSend = 1 .. Len(toSend)
      BY <1>0
    <3>. QED  BY <1>13, <3>1, Zenon DEF KNoise
  <2>3. toSend' \in Seq(KAnswers)
    <3>1. "bad" \in KAnswers
      BY DEF KAnswers
    <3>. QED  BY <1>0, <2>2, <3>1, ExceptSeq
  <2>. QED  BY <1>0, <1>13, <2>1, <2>3 DEF KNoise, KTyped
<1>14. CASE Noise
  <2>1. noise' \in Nat
    <3>1. noise' = noise + 1
      BY <1>14 DEF Noise
    <3>. QED  BY <1>0, <3>1
  <2>2. toRecv' \in Seq(KermitPackets) /\ toSend' \in Seq(KAnswers)
    BY <1>0, <1>14, KTypes, NoiseTypes
  <2>. QED  BY <1>0, <1>14, <2>1, <2>2 DEF Noise, KTyped
<1>15. CASE UNCHANGED <<vars, kVars>>
  BY <1>15 DEF vars, KTyped
<1>. QED
  BY <1>1, <1>2, <1>4, <1>5, <1>6, <1>7, <1>8, <1>9, <1>10, <1>11, <1>12, <1>13,
     <1>14, <1>15
  DEF KNext, KSender, KReceiver

-----------------------------------------------------------------------------
(* The inductive invariant.  While the job sends data, and before that.     *)
KEarly == {"kflush", "kS", "kF", "kdata", "kwait"}

(* Until the job sends S nothing was sent, and no Y answers anything; the   *)
(* first two packets wait for theirs.                                      *)
KBeginInv ==
  /\ ntransfers = 0 => pc = "off"
  /\ pc = "kflush" \/ ntransfers = 0 =>
       /\ rstate \in {"off", "sync"}
       /\ k = 0 /\ rfile = <<>> /\ toRecv = <<>>
       /\ rstate = "off" => toSend = <<>>
       /\ Len(toSend) <= nsync /\ Places(toSend, {"Y"}) = {}
  /\ pc \in {"kflush", "kS", "kF"} => ~failed
  /\ pc \in {"kS", "kF"} =>
       /\ k = 0 /\ Len(toRecv) + Yes(toSend) <= 1
       /\ \A i \in 1 .. Len(toRecv) : toRecv[i].kind \in {"S", "F"}

KLineInv ==
  /\ Steady(toRecv, k)
  /\ \A i \in 1 .. Len(toRecv) :
       /\ pc \in {"kdata", "kwait"} /\ ~failed => IsFrame(toRecv[i])
       /\ k > 0 => toRecv[i].kind \notin {"S", "F"}
       /\ toRecv[i].kind = "Z" => /\ toRecv[i].num = k + 1
                                  /\ k = NFrames \/ should_stop
                                  /\ pc \notin KEarly
       /\ noise = 0 => toRecv[i].ok

(* What may go out without waiting: the first packet, and one for each time *)
(* the receiver asked.  A Y that is not read yet lets the next piece go.    *)
KActive == pc \in KEarly /\ ~failed
KHeld == IF pc \in {"kflush", "kdata"} THEN 1 ELSE 0

KCountInv ==
  /\ KActive => Len(toRecv) + Len(toSend) + KHeld <= 1 + nsync
  /\ KActive => k - Len(rfile) + Yes(toSend) + KHeld <= 1 + nsync
  /\ k - Len(rfile) <= 1 + nsync

KSenderInv ==
  /\ pc = "kwait" => ~failed
  /\ pc = "kZ" => k = NFrames \/ should_stop
  /\ pc = "kB" => k = NFrames
  /\ pc \in {"kend", "done"} /\ ~failed => k = NFrames

KReceiverInv ==
  /\ \A i \in 1 .. Len(rfile) : rfile[i] = i
  /\ Len(rfile) <= k
  /\ rstate \in {"sync", "file", "receiving"} =>
       /\ Num(toRecv, k, 1) >= Len(rfile)
       /\ noise = 0 => Num(toRecv, k, 1) <= Expected
  /\ rstate \in {"complete", "closed"} =>
       /\ pc \notin KEarly
       /\ k = NFrames \/ should_stop
       /\ Len(rfile) = k

KCore == KBeginInv /\ KLineInv /\ KCountInv /\ KSenderInv /\ KReceiverInv

(* The first transfer, from a receiver that asks again fewer times than an  *)
(* index needs to wrap, unless the line damages nothing.                   *)
KFirstTransfer == ntransfers <= 1 /\ (noise = 0 \/ MaxSync < IdxMod - 1)

KTransferInv == KFirstTransfer => Restarted \/ KCore

-----------------------------------------------------------------------------
(* Sequences of answers and of packets.                                    *)
LEMMA KAnswerTaken ==
  ASSUME KTyped, toSend # <<>>, toSend' = Tail(toSend)
  PROVE  /\ Len(toSend') = Len(toSend) - 1 /\ Len(toSend) >= 1
         /\ Len(toSend) \in Nat /\ Yes(toSend) \in Nat /\ Yes(toSend') \in Nat
         /\ Yes(toSend') <= Yes(toSend)
         /\ Head(toSend) = "Y" => Yes(toSend') <= Yes(toSend) - 1
<1>1. toSend \in Seq(KAnswers) /\ Len(toSend) \in Nat /\ Yes(toSend) \in Nat
  BY KTypes
<1>2. /\ Len(Tail(toSend)) = Len(toSend) - 1 /\ Len(toSend) >= 1
      /\ Tail(toSend) \in Seq(KAnswers)
  BY <1>1, TailEach, EmptySeq
<1>3. Head(toSend) = toSend[1]
  BY <1>1, FirstOf
<1>4. /\ Cardinality(Places(Tail(toSend), {"Y"})) <= Cardinality(Places(toSend, {"Y"}))
      /\ toSend[1] \in {"Y"} => Cardinality(Places(Tail(toSend), {"Y"}))
                                  <= Cardinality(Places(toSend, {"Y"})) - 1
  BY <1>1, TailPlaces
<1>5. Yes(Tail(toSend)) \in Nat
  BY <1>2, PlacesType DEF Yes
<1>. QED  BY <1>1, <1>2, <1>3, <1>4, <1>5 DEF Yes

(* An answer that is added counts as a Y only if it is one.                *)
LEMMA KAnswerAdded ==
  ASSUME KTyped, NEW answer \in KAnswers, toSend' = Append(toSend, answer)
  PROVE  /\ Len(toSend') = Len(toSend) + 1 /\ Len(toSend) \in Nat
         /\ Yes(toSend) \in Nat /\ Yes(toSend') \in Nat
         /\ Yes(toSend') <= Len(toSend')
         /\ Yes(toSend') <= Yes(toSend) + 1
         /\ answer # "Y" => /\ Yes(toSend') = Yes(toSend)
                            /\ Places(toSend', {"Y"}) = Places(toSend, {"Y"})
<1>1. toSend \in Seq(KAnswers) /\ Len(toSend) \in Nat /\ Yes(toSend) \in Nat
  BY KTypes
<1>. DEFINE q == Append(toSend, answer)
<1>2. Len(q) = Len(toSend) + 1 /\ q \in Seq(KAnswers)
  BY <1>1, AppendProperties
<1>3. /\ answer \notin {"Y"} => Places(q, {"Y"}) = Places(toSend, {"Y"})
      /\ Cardinality(Places(q, {"Y"})) <= Cardinality(Places(toSend, {"Y"})) + 1
  BY <1>1, AppendPlaces
<1>4. toSend' = q
  OBVIOUS
<1>. HIDE DEF q
<1>5. Yes(q) \in Nat /\ Yes(q) <= Len(q)
  BY <1>2, PlacesType DEF Yes
<1>. QED  BY <1>1, <1>2, <1>3, <1>4, <1>5 DEF Yes

(* No number on a steady line is past the next one.                        *)
LEMMA NumBound ==
  ASSUME NEW s \in Seq(Parcels), NEW n \in Nat, Steady(s, n), NEW i \in Nat
  PROVE  Num(s, n, i) \in Nat /\ Num(s, n, i) <= n + 1
<1>1. CASE i \in 1 .. Len(s) /\ IsFrame(s[i])
  BY <1>1 DEF Steady, Num
<1>2. CASE ~(i \in 1 .. Len(s) /\ IsFrame(s[i]))
  BY <1>2 DEF Num
<1>. QED  BY <1>1, <1>2

(* A line on which a piece waits that is not past e holds all from e on.   *)
LEMMA SteadyLength ==
  ASSUME NEW s \in Seq(Parcels), NEW n \in Nat, Steady(s, n), NEW e \in Nat,
         Num(s, n, 1) <= e, e <= n + 1
  PROVE  n - e + 1 <= Len(s)
<1>. DEFINE place(m) == CHOOSE i \in 1 .. Len(s) : IsFrame(s[i]) /\ s[i].num = m
            f == [m \in e .. n |-> place(m)]
<1>1. Num(s, n, 1) \in Nat /\ Len(s) \in Nat
  BY NumBound, LenProperties
<1>2. \A m \in e .. n : \E i \in 1 .. Len(s) : IsFrame(s[i]) /\ s[i].num = m
  <2>1. \A m \in e .. n : m \in Num(s, n, 1) .. n
    BY <1>1
  <2>. QED  BY <2>1 DEF Steady
<1>3. \A m \in e .. n : place(m) \in 1 .. Len(s) /\ s[place(m)].num = m
  BY <1>2
<1>. HIDE DEF place
<1>4. f \in Injection(e .. n, 1 .. Len(s))
  BY <1>3 DEF Injection, IsInjective
<1>5. /\ IsFiniteSet(1 .. Len(s))
      /\ Cardinality(1 .. Len(s)) = IF 1 > Len(s) THEN 0 ELSE Len(s) - 1 + 1
  <2>1. 1 \in Int /\ Len(s) \in Int
    BY <1>1
  <2>. QED  BY <2>1, FS_Interval, Zenon
<1>6. Cardinality(e .. n) = IF e > n THEN 0 ELSE n - e + 1
  <2>1. e \in Int /\ n \in Int
    OBVIOUS
  <2>. QED  BY <2>1, FS_Interval, Zenon
<1>7. Cardinality(e .. n) <= Cardinality(1 .. Len(s))
  BY <1>4, <1>5, FS_Injection
<1>. QED  BY <1>1, <1>5, <1>6, <1>7

-----------------------------------------------------------------------------
(* What a step leaves as it was.                                           *)
LEMMA KLineKept ==
  ASSUME KTyped, KLineInv, UNCHANGED <<k, noise, toRecv>>,
         should_stop => should_stop',
         pc' \in KEarly => pc \in KEarly,
         pc' \in {"kdata", "kwait"} /\ ~failed' =>
           toRecv = <<>> \/ (pc \in {"kdata", "kwait"} /\ ~failed)
  PROVE  KLineInv'
<1>1. Steady(toRecv', k')
  BY DEF KLineInv
<1>2. ASSUME NEW i \in 1 .. Len(toRecv')
      PROVE  /\ pc' \in {"kdata", "kwait"} /\ ~failed' => IsFrame(toRecv'[i])
             /\ k' > 0 => toRecv'[i].kind \notin {"S", "F"}
             /\ toRecv'[i].kind = "Z" => /\ toRecv'[i].num = k' + 1
                                         /\ k' = NFrames \/ should_stop'
                                         /\ pc' \notin KEarly
             /\ noise' = 0 => toRecv'[i].ok
  <2>1. i \in 1 .. Len(toRecv) /\ toRecv' = toRecv /\ k' = k /\ noise' = noise
    BY <1>2
  <2>2. toRecv # <<>>
    BY <2>1, EmptyLine, Zenon
  <2>. QED  BY <2>1, <2>2 DEF KLineInv
<1>. QED  BY <1>1, <1>2 DEF KLineInv

(* A packet that is no piece of the file is added.                         *)
LEMMA KControlLine ==
  ASSUME KTyped, KLineInv, NEW p \in Parcels, ~IsFrame(p), p.ok,
         p.kind = "Z" => p.num = k + 1 /\ (k = NFrames \/ should_stop'),
         p.kind \notin {"S", "F"}, pc' \notin KEarly,
         toRecv' = Append(toRecv, p),
         UNCHANGED <<k, noise>>, should_stop => should_stop'
  PROVE  KLineInv' /\ Num(toRecv', k, 1) = Num(toRecv, k, 1)
<1>0. k \in Nat /\ toRecv \in Seq(Parcels)
  BY KTypes
<1>1. Steady(toRecv', k') /\ Num(toRecv', k, 1) = Num(toRecv, k, 1)
  BY <1>0, ControlSteady DEF KLineInv
<1>2. \A i \in 1 .. Len(toRecv') :
        toRecv'[i] = p \/ (i \in 1 .. Len(toRecv) /\ toRecv'[i] = toRecv[i])
  <2>1. /\ Len(toRecv) \in Nat /\ Len(toRecv') = Len(toRecv) + 1
        /\ \A i \in 1 .. Len(toRecv) : toRecv'[i] = toRecv[i]
        /\ toRecv'[Len(toRecv) + 1] = p
    BY <1>0, AppendAt
  <2>2. \A i \in 1 .. Len(toRecv) + 1 : i \in 1 .. Len(toRecv) \/ i = Len(toRecv) + 1
    BY <2>1
  <2>. QED  BY <2>1, <2>2
<1>3. ASSUME NEW i \in 1 .. Len(toRecv')
      PROVE  /\ pc' \in {"kdata", "kwait"} /\ ~failed' => IsFrame(toRecv'[i])
             /\ k' > 0 => toRecv'[i].kind \notin {"S", "F"}
             /\ toRecv'[i].kind = "Z" => /\ toRecv'[i].num = k' + 1
                                         /\ k' = NFrames \/ should_stop'
                                         /\ pc' \notin KEarly
             /\ noise' = 0 => toRecv'[i].ok
  <2>1. pc' \notin {"kdata", "kwait"} /\ k' = k /\ noise' = noise
    BY DEF KEarly
  <2>2. CASE toRecv'[i] = p
    BY <2>1, <2>2
  <2>3. CASE i \in 1 .. Len(toRecv) /\ toRecv'[i] = toRecv[i]
    BY <2>1, <2>3 DEF KLineInv
  <2>. QED  BY <1>2, <2>2, <2>3
<1>4. KLineInv'
  BY <1>1, <1>3 DEF KLineInv
<1>. QED  BY <1>1, <1>4

(* What the receiver has is not disturbed by the job.                      *)
LEMMA KReceiverKept ==
  ASSUME KTyped, KReceiverInv, UNCHANGED <<k, noise, rstate, rfile>>,
         Num(toRecv', k, 1) = Num(toRecv, k, 1),
         should_stop => should_stop',
         pc' \in KEarly => pc \in KEarly
  PROVE  KReceiverInv'
<1>1. Num(toRecv', k', 1) = Num(toRecv, k, 1) /\ Expected' = Expected
  BY DEF Expected
<1>. QED  BY <1>1 DEF KReceiverInv

(* The job has sent its last piece, or given up.                           *)
LEMMA KLater ==
  ASSUME KTyped, KCore, pc # "off" \/ ntransfers # 0, pc' \notin KEarly,
         UNCHANGED <<k, ntransfers, noise, nsync, rstate, rfile>>,
         should_stop => should_stop',
         Num(toRecv', k, 1) = Num(toRecv, k, 1)
  PROVE  KBeginInv' /\ KCountInv' /\ KReceiverInv'
<1>1. KBeginInv'
  BY DEF KCore, KBeginInv, KEarly
<1>2. KCountInv'
  BY DEF KCore, KCountInv, KActive
<1>3. KReceiverInv'
  BY KReceiverKept DEF KCore
<1>. QED  BY <1>1, <1>2, <1>3

-----------------------------------------------------------------------------
(* One action at a time: the sender.                                       *)
LEMMA KBeginSteps ==
  ASSUME KTyped, KCore, ntransfers' <= 1, KTransferBegin \/ KNextFile
  PROVE  KCore'
<1>0. /\ k \in Nat /\ ntransfers \in Nat /\ nsync \in Nat /\ Len(toSend) \in Nat
      /\ Len(<<>>) = 0
  BY KTypes
<1>1. ntransfers = 0 /\ pc = "off"
  <2>1. ntransfers' = ntransfers + 1
    BY DEF KTransferBegin, KNextFile
  <2>. QED  BY <1>0, <2>1 DEF KCore, KBeginInv
<1>2. KTransferBegin
  BY <1>1 DEF KNextFile
<1>3. /\ rstate \in {"off", "sync"} /\ k = 0 /\ rfile = <<>> /\ toRecv = <<>>
      /\ rstate = "off" => toSend = <<>>
      /\ Len(toSend) <= nsync /\ Places(toSend, {"Y"}) = {}
  BY <1>1 DEF KCore, KBeginInv
<1>4. /\ pc' = "kflush" /\ k' = 0 /\ failed' = FALSE /\ ntransfers' = 1
      /\ UNCHANGED <<toRecv, toSend, noise, nsync, rstate, rfile>>
  BY <1>1, <1>2 DEF KTransferBegin
<1>5. KBeginInv'
  BY <1>3, <1>4 DEF KBeginInv
<1>6. KLineInv'
  <2>1. Steady(toRecv', k') /\ 1 .. Len(toRecv') = {}
    BY <1>3, <1>4, EmptySteady, EmptyLine
  <2>. QED  BY <2>1 DEF KLineInv
<1>7. KCountInv'
  <2>1. Yes(toSend') = 0
    BY <1>3, <1>4, FS_EmptySet DEF Yes
  <2>2. Len(toRecv') = 0 /\ Len(rfile') = 0 /\ Len(toSend') <= nsync' /\ nsync' \in Nat
        /\ Len(toSend') \in Nat
    BY <1>0, <1>3, <1>4
  <2>3. KHeld' = 1
    BY <1>4 DEF KHeld
  <2>. QED  BY <1>4, <2>1, <2>2, <2>3 DEF KCountInv
<1>8. KSenderInv'
  BY <1>4 DEF KSenderInv
<1>9. KReceiverInv'
  <2>1. Num(toRecv', k', 1) = 1
    BY <1>3, <1>4, EmptySteady
  <2>2. Expected' = 1 /\ Len(rfile') = 0 /\ 1 .. Len(rfile') = {}
    BY <1>0, <1>3, <1>4, EmptyLine DEF Expected
  <2>. QED  BY <1>3, <1>4, <2>1, <2>2 DEF KReceiverInv
<1>. QED  BY <1>5, <1>6, <1>7, <1>8, <1>9 DEF KCore

(* S goes out on an empty line, and no answer is left that could be taken  *)
(* for one to it.                                                          *)
LEMMA KInitFrameStep ==
  ASSUME KTyped, KTyped', KCore, KInitFrame
  PROVE  KCore'
<1>. DEFINE p == KPacket("S", 0)
<1>0. /\ nsync \in Nat /\ Len(toSend) \in Nat /\ Len(<<>>) = 0
      /\ Len(toSend') \in Nat
  BY KTypes DEF KTyped
<1>1. /\ rstate \in {"off", "sync"} /\ k = 0 /\ rfile = <<>> /\ toRecv = <<>>
      /\ rstate = "off" => toSend = <<>>
      /\ Len(toSend) <= nsync /\ Places(toSend, {"Y"}) = {}
      /\ ~failed /\ pc = "kflush" /\ ntransfers # 0
  BY DEF KInitFrame, KCore, KBeginInv
<1>2. /\ pc' = "kS" /\ toRecv' = Append(toRecv, p)
      /\ UNCHANGED <<k, failed, should_stop, ntransfers, noise, nsync, rstate, rfile>>
      /\ \E n \in 0 .. Len(toSend) : toSend' = SubSeq(toSend, n + 1, Len(toSend))
  BY DEF KInitFrame
<1>3. Len(toSend') <= Len(toSend) /\ Places(toSend', {"Y"}) = {}
  BY <1>1, <1>2, KAnswersLeft DEF KTyped
<1>4. /\ p \in Parcels /\ p.kind = "S" /\ p.ok /\ ~IsFrame(p)
  BY KPacketType, KermitParcel
<1>. HIDE DEF p
<1>5. Len(toRecv') = 1 /\ toRecv'[1] = p
  <2>1. <<>> \in Seq(Parcels)
    BY EmptySeq
  <2>. QED  BY <1>0, <1>1, <1>2, <1>4, <2>1, AppendAt
<1>6. Yes(toSend') = 0
  BY <1>3, FS_EmptySet DEF Yes
<1>7. \A i \in 1 .. Len(toRecv') : toRecv'[i] = p
  BY <1>5
<1>8. Steady(toRecv', k') /\ Num(toRecv', k, 1) = Num(toRecv, k, 1)
  BY <1>2, <1>4, KTypes, ControlSteady DEF KCore, KLineInv
<1>9. KBeginInv'
  BY <1>1, <1>2, <1>4, <1>5, <1>6, <1>7 DEF KBeginInv
<1>10. KLineInv'
  BY <1>1, <1>2, <1>4, <1>7, <1>8 DEF KLineInv
<1>11. KCountInv'
  <2>1. KHeld' = 0 /\ k' = 0 /\ Len(rfile') = 0 /\ nsync' = nsync
    BY <1>0, <1>1, <1>2 DEF KHeld
  <2>. QED  BY <1>0, <1>1, <1>3, <1>5, <1>6, <2>1 DEF KCountInv
<1>12. KSenderInv'
  BY <1>2 DEF KSenderInv
<1>13. KReceiverInv'
  BY <1>1, <1>2, <1>8, KReceiverKept DEF KCore, KEarly
<1>. QED  BY <1>9, <1>10, <1>11, <1>12, <1>13 DEF KCore

(* The step that ends the transfer for a wrong answer or none.             *)
LEMMA KGivesUp ==
  ASSUME KTyped, KCore, pc \in {"kS", "kF", "kZ", "kB"}, pc' = "kend", failed',
         UNCHANGED <<k, should_stop, ntransfers, toRecv, noise, nsync, rstate, rfile>>
  PROVE  KCore'
<1>1. KLineInv'
  BY KLineKept DEF KCore, KEarly
<1>2. KSenderInv'
  BY DEF KSenderInv
<1>3. KBeginInv' /\ KCountInv' /\ KReceiverInv'
  BY KLater DEF KEarly
<1>. QED  BY <1>1, <1>2, <1>3 DEF KCore

(* The answers to S and F: F, or the data, may follow.                     *)
LEMMA KAnsweredSteps ==
  ASSUME KTyped, KTyped', KCore, KInitAnswered \/ KFileAnswered
  PROVE  KCore'
<1>. DEFINE p == KPacket("F", 0)
<1>0. /\ nsync \in Nat /\ k \in Nat /\ Len(toSend) \in Nat /\ Len(toRecv) \in Nat
      /\ Len(rfile) \in Nat /\ toRecv \in Seq(Parcels) /\ Yes(toSend) \in Nat
      /\ Len(<<>>) = 0
  BY KTypes
<1>1. /\ pc \in {"kS", "kF"}
      /\ UNCHANGED <<k, should_stop, ntransfers, noise, nsync, rstate, rfile>>
  BY DEF KInitAnswered, KFileAnswered, Once
<1>2. /\ ntransfers # 0 /\ k = 0 /\ ~failed
      /\ Len(toRecv) + Yes(toSend) <= 1
      /\ \A i \in 1 .. Len(toRecv) : toRecv[i].kind \in {"S", "F"}
  BY <1>1 DEF KCore, KBeginInv
<1>3. CASE pc' = "kend"
  <2>1. failed' /\ UNCHANGED toRecv
    BY <1>3 DEF KInitAnswered, KFileAnswered, Once
  <2>. QED  BY <1>1, <1>3, <2>1, KGivesUp
<1>4. CASE pc' # "kend"
  <2>1. /\ Marked("Y") /\ failed' = failed
        /\ \/ pc = "kS" /\ pc' = "kF" /\ toRecv' = toRecv \o <<p>>
           \/ pc = "kF" /\ pc' = "kdata" /\ toRecv' = toRecv \o <<>>
    BY <1>4 DEF KInitAnswered, KFileAnswered, Once
  <2>2. /\ toSend # <<>> /\ toSend' = Tail(toSend) /\ Head(toSend) = "Y"
    BY <2>1 DEF Marked, Got
  <2>3. /\ Len(toSend') = Len(toSend) - 1 /\ Len(toSend) >= 1
        /\ Yes(toSend') \in Nat /\ Yes(toSend') <= Yes(toSend) - 1
    BY <2>2, KAnswerTaken
  <2>4. Len(toRecv) = 0 /\ toRecv = <<>> /\ Yes(toSend') = 0
    <3>1. Len(toRecv) = 0 /\ Yes(toSend') = 0
      BY <1>0, <1>2, <2>3
    <3>. QED  BY <1>0, <3>1, EmptySeq
  <2>5. /\ KActive /\ k - Len(rfile) + Yes(toSend) <= 1 + nsync
        /\ Len(toSend) <= 1 + nsync
    <3>1. KActive /\ KHeld = 0
      BY <1>1, <1>2 DEF KActive, KEarly, KHeld
    <3>. QED  BY <1>0, <2>4, <3>1 DEF KCore, KCountInv
  <2>6. KSenderInv'
    BY <2>1 DEF KSenderInv
  <2>7. CASE pc = "kS"
    <3>1. /\ p \in Parcels /\ p.kind = "F" /\ p.ok /\ ~IsFrame(p)
      BY KPacketType, KermitParcel
    <3>2. pc' = "kF" /\ toRecv' = Append(toRecv, p)
      <4>1. toRecv' = toRecv \o <<p>> /\ pc' = "kF"
        BY <2>1, <2>7
      <4>. QED  BY <1>0, <3>1, <4>1, AppendIsConcat
    <3>. HIDE DEF p
    <3>3. Len(toRecv') = 1 /\ \A i \in 1 .. Len(toRecv') : toRecv'[i] = p
      <4>1. Len(toRecv') = 1 /\ toRecv'[1] = p
        BY <1>0, <2>4, <3>1, <3>2, AppendAt
      <4>. QED  BY <4>1
    <3>4. Steady(toRecv', k') /\ Num(toRecv', k, 1) = Num(toRecv, k, 1)
      BY <1>0, <1>1, <3>1, <3>2, ControlSteady DEF KCore, KLineInv
    <3>5. KBeginInv'
      BY <1>1, <1>2, <2>1, <2>4, <3>1, <3>2, <3>3 DEF KBeginInv
    <3>6. KLineInv'
      BY <1>1, <1>2, <3>1, <3>2, <3>3, <3>4 DEF KLineInv
    <3>7. KCountInv'
      <4>1. KHeld' = 0 /\ k' = k /\ rfile' = rfile /\ nsync' = nsync
        BY <1>1, <3>2 DEF KHeld
      <4>. QED  BY <1>0, <2>3, <2>4, <2>5, <3>3, <4>1 DEF KCountInv
    <3>8. KReceiverInv'
      BY <1>1, <2>7, <3>4, KReceiverKept DEF KCore, KEarly
    <3>. QED  BY <2>6, <3>5, <3>6, <3>7, <3>8 DEF KCore
  <2>8. CASE pc = "kF"
    <3>1. pc' = "kdata" /\ toRecv' = toRecv
      <4>1. pc' = "kdata" /\ toRecv' = toRecv \o <<>>
        BY <2>1, <2>8
      <4>. QED  BY <1>0, <4>1, ConcatEmptySeq
    <3>2. KBeginInv'
      BY <1>1, <1>2, <3>1 DEF KBeginInv
    <3>3. KLineInv'
      BY <1>1, <2>4, <2>8, <3>1, KLineKept DEF KCore, KEarly
    <3>4. KCountInv'
      <4>1. /\ KHeld' = 1 /\ k' = k /\ rfile' = rfile /\ nsync' = nsync
            /\ Len(toRecv') = 0
        BY <1>1, <2>4, <3>1 DEF KHeld
      <4>. QED  BY <1>0, <2>3, <2>4, <2>5, <4>1 DEF KCountInv
    <3>5. KReceiverInv'
      BY <1>1, <2>8, <3>1, KReceiverKept DEF KCore, KEarly
    <3>. QED  BY <2>6, <3>2, <3>3, <3>4, <3>5 DEF KCore
  <2>. QED  BY <1>1, <2>7, <2>8
<1>. QED  BY <1>3, <1>4

(* Z and B are answered.                                                   *)
LEMMA KEndAnsweredSteps ==
  ASSUME KTyped, KCore, KEOFAnswered \/ KBreakAnswered
  PROVE  KCore'
<1>. DEFINE p == KPacket("B", k + 2)
<1>0. k \in Nat /\ toRecv \in Seq(Parcels)
  BY KTypes
<1>1. /\ pc \in {"kZ", "kB"}
      /\ UNCHANGED <<k, should_stop, ntransfers, noise, nsync, rstate, rfile>>
      /\ pc' \in {"kB", "kend"}
  BY DEF KEOFAnswered, KBreakAnswered, Once
<1>2. CASE failed' /\ UNCHANGED toRecv /\ pc' = "kend"
  BY <1>1, <1>2, KGivesUp
<1>3. CASE /\ Marked("Y") /\ failed' = failed
           /\ toRecv' = toRecv \o <<>> \/ toRecv' = toRecv \o <<p>>
  <2>1. ~should_stop
    BY <1>3 DEF Marked, Got
  <2>2. KSenderInv'
    BY <1>1, <2>1 DEF KCore, KSenderInv
  <2>3. KLineInv' /\ Num(toRecv', k, 1) = Num(toRecv, k, 1)
    <3>1. CASE toRecv' = toRecv \o <<>>
      <4>1. toRecv' = toRecv
        BY <1>0, <3>1, ConcatEmptySeq
      <4>. QED  BY <1>1, <4>1, KLineKept DEF KCore, KEarly
    <3>2. CASE toRecv' = toRecv \o <<p>>
      <4>1. /\ p \in Parcels /\ p.kind = "B" /\ p.ok /\ ~IsFrame(p)
        BY <1>0, KPacketType, KermitParcel
      <4>2. toRecv' = Append(toRecv, p)
        BY <1>0, <3>2, <4>1, AppendIsConcat
      <4>. HIDE DEF p
      <4>. QED  BY <1>1, <4>1, <4>2, KControlLine DEF KCore, KEarly
    <3>. QED  BY <1>3, <3>1, <3>2
  <2>. QED  BY <1>1, <2>2, <2>3, KLater DEF KCore, KEarly
<1>4. \/ failed' /\ UNCHANGED toRecv /\ pc' = "kend"
      \/ /\ Marked("Y") /\ failed' = failed
         /\ toRecv' = toRecv \o <<>> \/ toRecv' = toRecv \o <<p>>
  BY DEF KEOFAnswered, KBreakAnswered, Once
<1>. QED  BY <1>2, <1>3, <1>4

(* The next piece.                                                         *)
LEMMA KNextDataStep ==
  ASSUME KTyped, KTyped', KCore, KNextData
  PROVE  KCore'
<1>. DEFINE p == KPacket("D", k + 1)
<1>0. /\ nsync \in Nat /\ k \in Nat /\ Len(toSend) \in Nat /\ Len(toRecv) \in Nat
      /\ Len(rfile) \in Nat /\ toRecv \in Seq(Parcels) /\ Yes(toSend) \in Nat
      /\ Num(toRecv, k, 1) \in Nat
  BY KTypes
<1>1. /\ pc = "kdata" /\ ~failed /\ pc' = "kwait" /\ k' = k + 1
      /\ toRecv' = Append(toRecv, p)
      /\ UNCHANGED <<failed, should_stop, ntransfers, noise, nsync, toSend, rstate, rfile>>
  BY DEF KNextData, Take
<1>2. ntransfers # 0 /\ rstate \notin {"complete", "closed"}
  BY <1>1 DEF KCore, KBeginInv, KReceiverInv, KEarly
<1>3. p \in Parcels /\ p.kind = "D" /\ p.ok /\ IsFrame(p) /\ p.num = k + 1
  <2>1. k + 1 \in 1 .. NFrames /\ k + 1 \in Nat
    BY <1>0, <1>1 DEF KTyped
  <2>. QED  BY <2>1, KPacketType, KermitParcel
<1>. HIDE DEF p
<1>4. /\ Len(toRecv') = Len(toRecv) + 1
      /\ \A i \in 1 .. Len(toRecv) : toRecv'[i] = toRecv[i]
      /\ toRecv'[Len(toRecv) + 1] = p
  BY <1>0, <1>1, <1>3, AppendAt
<1>5. \A i \in 1 .. Len(toRecv) : IsFrame(toRecv[i]) /\ (noise = 0 => toRecv[i].ok)
  BY <1>1 DEF KCore, KLineInv
<1>6. Steady(toRecv', k') /\ Num(toRecv', k', 1) = Num(toRecv, k, 1)
  BY <1>0, <1>1, <1>3, <1>5, NextSteady DEF KCore, KLineInv
<1>7. KBeginInv'
  BY <1>1, <1>2 DEF KBeginInv
<1>8. KLineInv'
  <2>1. \A i \in 1 .. Len(toRecv') : i \in 1 .. Len(toRecv) \/ i = Len(toRecv) + 1
    BY <1>0, <1>4
  <2>2. \A i \in 1 .. Len(toRecv') :
          IsFrame(toRecv'[i]) /\ (noise = 0 => toRecv'[i].ok)
    BY <1>3, <1>4, <1>5, <2>1
  <2>. QED  BY <1>1, <1>6, <2>2 DEF KLineInv, IsFrame
<1>9. KCountInv'
  <2>1. /\ Len(toRecv) + Len(toSend) + 1 <= 1 + nsync
        /\ k - Len(rfile) + Yes(toSend) + 1 <= 1 + nsync
    <3>1. KActive /\ KHeld = 1
      BY <1>1 DEF KActive, KEarly, KHeld
    <3>. QED  BY <3>1 DEF KCore, KCountInv
  <2>2. KHeld' = 0 /\ rfile' = rfile /\ nsync' = nsync /\ toSend' = toSend
    BY <1>1 DEF KHeld
  <2>3. Yes(toSend') = Yes(toSend)
    BY <2>2
  <2>4. /\ Len(toRecv') + Len(toSend') + KHeld' <= 1 + nsync'
        /\ k' - Len(rfile') + Yes(toSend') + KHeld' <= 1 + nsync'
        /\ k' - Len(rfile') <= 1 + nsync'
    BY <1>0, <1>1, <1>4, <2>1, <2>2, <2>3, SMTT(30)
  <2>. QED  BY <2>4, Zenon DEF KCountInv
<1>10. KSenderInv'
  BY <1>1 DEF KSenderInv
<1>11. KReceiverInv'
  <2>1. Expected' = Expected /\ Len(rfile) <= k /\ Len(rfile') <= k'
    BY <1>0, <1>1 DEF Expected, KCore, KReceiverInv
  <2>. QED  BY <1>0, <1>1, <1>2, <1>6, <2>1 DEF KCore, KReceiverInv
<1>. QED  BY <1>7, <1>8, <1>9, <1>10, <1>11 DEF KCore

(* The job has its answer to a piece: it may go on, which needs a Y, send   *)
(* the piece once more, which uses up an answer, or give up.               *)
LEMMA KDataSteps ==
  ASSUME KTyped, KTyped', KCore, KDataAcked \/ KDataNaked \/ KDataFailed
  PROVE  KCore'
<1>1. /\ nsync \in Nat /\ k \in Nat /\ Len(toSend) \in Nat /\ Len(toRecv) \in Nat
      /\ Len(rfile) \in Nat /\ toRecv \in Seq(Parcels)
      /\ Num(toRecv, k, 1) \in Nat /\ Expected = Len(rfile) + 1
  BY KTypes
<1>2. /\ nsync \in Nat /\ k \in Nat /\ Len(toSend) \in Nat /\ Len(toRecv) \in Nat
      /\ Len(rfile) \in Nat /\ Yes(toSend) \in Nat
      /\ Len(toSend') \in Nat /\ Yes(toSend') \in Nat
  BY KTypes, KTypedNext
<1>3. /\ pc = "kwait" /\ ~failed /\ k > 0
      /\ UNCHANGED <<k, should_stop, ntransfers, noise, nsync, rstate, rfile>>
  BY DEF KDataAcked, KDataNaked, KDataFailed, KCore, KSenderInv, KTyped
<1>4. ntransfers # 0 /\ rstate \notin {"complete", "closed"}
  BY <1>3 DEF KCore, KBeginInv, KReceiverInv, KEarly
<1>5. /\ Len(toRecv) + Len(toSend) <= 1 + nsync
      /\ k - Len(rfile) + Yes(toSend) <= 1 + nsync
      /\ k - Len(rfile) <= 1 + nsync
  <2>1. KActive /\ KHeld = 0
    BY <1>3 DEF KActive, KEarly, KHeld
  <2>. QED  BY <1>2, <2>1 DEF KCore, KCountInv
<1>6. CASE UNCHANGED toRecv /\ pc' = "kdata" /\ failed'
  <2>1. KBeginInv' /\ KSenderInv'
    BY <1>3, <1>4, <1>6 DEF KBeginInv, KSenderInv
  <2>2. KLineInv'
    BY <1>3, <1>6, KLineKept DEF KCore, KEarly
  <2>3. KCountInv'
    BY <1>3, <1>5, <1>6 DEF KCountInv, KActive
  <2>4. KReceiverInv'
    BY <1>3, <1>6, KReceiverKept DEF KCore, KEarly
  <2>. QED  BY <2>1, <2>2, <2>3, <2>4 DEF KCore
<1>7. CASE Marked("Y") /\ UNCHANGED toRecv /\ pc' = "kdata"
  <2>1. KBeginInv' /\ KSenderInv'
    BY <1>3, <1>4, <1>7 DEF KBeginInv, KSenderInv
  <2>2. KLineInv'
    BY <1>3, <1>7, KLineKept DEF KCore, KEarly
  <2>3. KCountInv'
    <3>1. /\ Len(toSend') = Len(toSend) - 1 /\ Yes(toSend') <= Yes(toSend) - 1
      <4>1. toSend # <<>> /\ toSend' = Tail(toSend) /\ Head(toSend) = "Y"
        BY <1>7 DEF Marked, Got
      <4>. QED  BY <4>1, KAnswerTaken
    <3>2. KHeld' = 1 /\ k' = k /\ rfile' = rfile /\ nsync' = nsync
      BY <1>3, <1>7 DEF KHeld
    <3>3. Len(toRecv') = Len(toRecv) /\ Len(rfile') = Len(rfile)
      BY <1>7, <3>2
    <3>4. Len(toRecv') + Len(toSend') + KHeld' <= 1 + nsync'
      <4>1. Len(toSend') + KHeld' = Len(toSend)
        BY <1>2, <3>1, <3>2
      <4>. QED  BY <1>2, <1>5, <3>2, <3>3, <4>1
    <3>5. k' - Len(rfile') + Yes(toSend') + KHeld' <= 1 + nsync'
      <4>1. Yes(toSend') + KHeld' <= Yes(toSend) /\ KHeld' \in Nat
        BY <1>2, <3>1, <3>2
      <4>. QED  BY <1>2, <1>5, <3>2, <3>3, <4>1, SMTT(30)
    <3>6. k' - Len(rfile') <= 1 + nsync'
      BY <1>2, <1>5, <3>2, <3>3
    <3>. QED  BY <3>4, <3>5, <3>6, Zenon DEF KCountInv
  <2>4. KReceiverInv'
    BY <1>3, <1>7, KReceiverKept DEF KCore, KEarly
  <2>. QED  BY <2>1, <2>2, <2>3, <2>4 DEF KCore
<1>8. CASE Marked("N") /\ toRecv' = Append(toRecv, KData) /\ pc' = pc /\ failed' = failed
  <2>. DEFINE p == KPacket("D", k)
  <2>1. p \in Parcels /\ p.kind = "D" /\ p.ok /\ IsFrame(p) /\ p.num = k
    <3>1. k \in 1 .. NFrames
      BY <1>1, <1>3 DEF KTyped
    <3>2. k \in Nat
      BY <1>1, <3>1
    <3>3. /\ KPacket("D", k) \in KermitPackets /\ IsFrame(KPacket("D", k))
          /\ KPacket("D", k).num = k /\ KPacket("D", k).ok
      BY <3>1, <3>2, KPacketType
    <3>. QED  BY <3>3, KermitParcel
  <2>2. toRecv' = Append(toRecv, p)
    BY <1>8 DEF KData
  <2>. HIDE DEF p
  <2>3. /\ Len(toRecv') = Len(toRecv) + 1
        /\ \A i \in 1 .. Len(toRecv) : toRecv'[i] = toRecv[i]
        /\ toRecv'[Len(toRecv) + 1] = p
    BY <1>1, <2>1, <2>2, AppendAt
  <2>4. \A i \in 1 .. Len(toRecv) : IsFrame(toRecv[i]) /\ (noise = 0 => toRecv[i].ok)
    BY <1>3 DEF KCore, KLineInv
  <2>5. /\ Steady(toRecv', k)
        /\ \/ Num(toRecv', k, 1) = Num(toRecv, k, 1)
           \/ Num(toRecv', k, 1) = k /\ Num(toRecv, k, 1) = k + 1
    BY <1>1, <1>3, <2>1, <2>2, <2>4, AgainSteady DEF KCore, KLineInv
  <2>6. KBeginInv' /\ KSenderInv'
    BY <1>3, <1>4, <1>8 DEF KBeginInv, KSenderInv
  <2>7. KLineInv'
    <3>1. \A i \in 1 .. Len(toRecv') : i \in 1 .. Len(toRecv) \/ i = Len(toRecv) + 1
      BY <1>1, <2>3
    <3>2. \A i \in 1 .. Len(toRecv') :
            IsFrame(toRecv'[i]) /\ (noise = 0 => toRecv'[i].ok)
      BY <2>1, <2>3, <2>4, <3>1
    <3>. QED  BY <1>3, <2>5, <3>2 DEF KLineInv, IsFrame
  <2>8. KCountInv'
    <3>1. Len(toSend') = Len(toSend) - 1 /\ Yes(toSend') <= Yes(toSend)
      <4>1. toSend # <<>> /\ toSend' = Tail(toSend)
        BY <1>8 DEF Marked, Got
      <4>. QED  BY <4>1, KAnswerTaken
    <3>2. KHeld' = 0 /\ k' = k /\ rfile' = rfile /\ nsync' = nsync
      BY <1>3, <1>8 DEF KHeld
    <3>3. Len(rfile') = Len(rfile)
      BY <3>2
    <3>4. Len(toRecv') + Len(toSend') + KHeld' <= 1 + nsync'
      BY <1>2, <1>5, <2>3, <3>1, <3>2, SMTT(30)
    <3>5. k' - Len(rfile') + Yes(toSend') + KHeld' <= 1 + nsync'
      BY <1>2, <1>5, <3>1, <3>2, <3>3, SMTT(30)
    <3>6. k' - Len(rfile') <= 1 + nsync'
      BY <1>2, <1>5, <3>2, <3>3
    <3>. QED  BY <3>4, <3>5, <3>6, Zenon DEF KCountInv
  <2>9. KReceiverInv'
    <3>1. Expected' = Expected /\ Len(rfile) <= k
      BY <1>3 DEF Expected, KCore, KReceiverInv
    <3>2. rstate \in {"sync", "file", "receiving"} =>
            /\ Num(toRecv', k', 1) >= Len(rfile')
            /\ noise' = 0 => Num(toRecv', k', 1) <= Expected'
      BY <1>1, <1>3, <2>5, <3>1 DEF KCore, KReceiverInv
    <3>. QED  BY <1>3, <1>4, <3>1, <3>2 DEF KCore, KReceiverInv
  <2>. QED  BY <2>6, <2>7, <2>8, <2>9 DEF KCore
<1>9. \/ UNCHANGED toRecv /\ pc' = "kdata" /\ failed'
      \/ Marked("Y") /\ UNCHANGED toRecv /\ pc' = "kdata"
      \/ Marked("N") /\ toRecv' = Append(toRecv, KData) /\ pc' = pc /\ failed' = failed
  BY DEF KDataAcked, KDataNaked, KDataFailed
<1>. QED  BY <1>6, <1>7, <1>8, <1>9

(* Z, and what ends the transfer.                                          *)
LEMMA KEndSteps ==
  ASSUME KTyped, KCore, KSendEOF \/ KFinish \/ KTransferEnd
  PROVE  KCore'
<1>0. k \in Nat /\ toRecv \in Seq(Parcels)
  BY KTypes
<1>1. /\ pc \in {"kdata", "kend", "done"} /\ pc' \in {"kend", "kZ", "done", "off"}
      /\ UNCHANGED <<k, failed, should_stop, ntransfers, noise, nsync, rstate, rfile>>
  BY DEF KSendEOF, KFinish, KTransferEnd, TransferEnd
<1>2. KSenderInv'
  BY DEF KSendEOF, KFinish, KTransferEnd, TransferEnd, IsEnd, KCore, KSenderInv
<1>3. KLineInv' /\ Num(toRecv', k, 1) = Num(toRecv, k, 1)
  <2>1. CASE UNCHANGED toRecv
    BY <1>1, <2>1, KLineKept DEF KCore, KEarly
  <2>2. CASE KSendEOF /\ toRecv' = Append(toRecv, KPacket("Z", k + 1))
                      /\ (should_stop \/ k = NFrames)
    <3>. DEFINE p == KPacket("Z", k + 1)
    <3>1. /\ p \in Parcels /\ p.kind = "Z" /\ p.num = k + 1 /\ p.ok /\ ~IsFrame(p)
      BY <1>0, KPacketType, KermitParcel
    <3>. HIDE DEF p
    <3>2. toRecv' = Append(toRecv, p) /\ (k = NFrames \/ should_stop')
      BY <1>1, <2>2 DEF p
    <3>. QED  BY <1>1, <3>1, <3>2, KControlLine DEF KCore, KEarly
  <2>3. CASE KFinish /\ toRecv' = Append(toRecv, KPacket("E", 0))
    <3>. DEFINE p == KPacket("E", 0)
    <3>1. /\ p \in Parcels /\ p.kind = "E" /\ p.ok /\ ~IsFrame(p)
      BY KPacketType, KermitParcel
    <3>2. toRecv' = Append(toRecv, p)
      BY <2>3
    <3>. HIDE DEF p
    <3>. QED  BY <1>1, <3>1, <3>2, KControlLine DEF KCore, KEarly
  <2>4. \/ UNCHANGED toRecv
        \/ KSendEOF /\ toRecv' = Append(toRecv, KPacket("Z", k + 1))
                    /\ (should_stop \/ k = NFrames)
        \/ KFinish /\ toRecv' = Append(toRecv, KPacket("E", 0))
    BY DEF KSendEOF, KFinish, KTransferEnd, TransferEnd, IsEnd
  <2>. QED  BY <2>1, <2>2, <2>3, <2>4
<1>. QED  BY <1>1, <1>2, <1>3, KLater DEF KCore, KEarly

(* A damaged answer is passed over, and the user closes the dialog.        *)
LEMMA KSkipSteps ==
  ASSUME KTyped, KTyped', KCore, KSkip \/ UserCancel
  PROVE  KCore'
<1>0. /\ nsync \in Nat /\ k \in Nat /\ Len(toSend) \in Nat /\ Len(toRecv) \in Nat
      /\ Len(rfile) \in Nat /\ Yes(toSend) \in Nat
      /\ Len(toSend') \in Nat /\ Yes(toSend') \in Nat
  BY KTypes, KTypedNext
<1>1. /\ pc \notin {"off", "kflush"} \/ UNCHANGED toSend
      /\ pc # "off" /\ ntransfers # 0
      /\ should_stop => should_stop'
      /\ UNCHANGED <<pc, k, failed, toRecv, ntransfers, noise, nsync, rstate, rfile>>
  BY DEF KSkip, UserCancel, KCore, KBeginInv
<1>2. Len(toSend') <= Len(toSend) /\ Yes(toSend') <= Yes(toSend)
  <2>1. CASE UNCHANGED toSend
    BY <1>0, <2>1
  <2>2. CASE toSend # <<>> /\ toSend' = Tail(toSend)
    BY <1>0, <2>2, KAnswerTaken
  <2>. QED  BY <2>1, <2>2 DEF KSkip, UserCancel
<1>3. KBeginInv'
  <2>1. pc \in {"kS", "kF"} => Len(toRecv') + Yes(toSend') <= 1
    BY <1>0, <1>1, <1>2 DEF KCore, KBeginInv
  <2>2. pc = "kflush" => UNCHANGED toSend
    BY <1>1
  <2>. QED  BY <1>1, <2>1, <2>2 DEF KCore, KBeginInv
<1>4. KLineInv'
  BY <1>1, KLineKept DEF KCore
<1>5. KCountInv'
  <2>1. KActive' = KActive /\ KHeld' = KHeld /\ KHeld \in {0, 1}
    BY <1>1 DEF KActive, KHeld
  <2>2. UNCHANGED <<k, toRecv, rfile, nsync>>
    BY <1>1
  <2>3. Len(toRecv') = Len(toRecv) /\ Len(rfile') = Len(rfile)
    BY <2>2
  <2>4. /\ KActive => /\ Len(toRecv) + Len(toSend) + KHeld <= 1 + nsync
                      /\ k - Len(rfile) + Yes(toSend) + KHeld <= 1 + nsync
        /\ k - Len(rfile) <= 1 + nsync
    BY DEF KCore, KCountInv
  <2>5. ASSUME KActive
        PROVE  /\ Len(toRecv') + Len(toSend') + KHeld' <= 1 + nsync'
               /\ k' - Len(rfile') + Yes(toSend') + KHeld' <= 1 + nsync'
    <3>1. /\ Len(toRecv) + Len(toSend) + KHeld <= 1 + nsync
          /\ k - Len(rfile) + Yes(toSend) + KHeld <= 1 + nsync
          /\ KHeld' = KHeld /\ KHeld \in Nat /\ k' = k /\ nsync' = nsync
      BY <2>1, <2>2, <2>4, <2>5
    <3>2. Len(toRecv') + Len(toSend') + KHeld' <= 1 + nsync'
      BY <1>0, <1>2, <2>3, <3>1
    <3>3. k' - Len(rfile') + Yes(toSend') + KHeld' <= 1 + nsync'
      BY <1>0, <1>2, <2>3, <3>1, SMTT(30)
    <3>. QED  BY <3>2, <3>3
  <2>6. k' - Len(rfile') <= 1 + nsync'
    BY <2>2, <2>4
  <2>. QED  BY <2>1, <2>5, <2>6, Zenon DEF KCountInv
<1>6. KSenderInv'
  BY <1>1 DEF KCore, KSenderInv
<1>7. KReceiverInv'
  BY <1>1, KReceiverKept DEF KCore
<1>. QED  BY <1>3, <1>4, <1>5, <1>6, <1>7 DEF KCore

-----------------------------------------------------------------------------
(* The receiver.  What it finds at the head of the line, and what is left.  *)
LEMMA KTaken ==
  ASSUME KTyped, KLineInv, toRecv # <<>>, toRecv' = Tail(toRecv)
  PROVE  LET p == Head(toRecv)
         IN  /\ Steady(toRecv', k)
             /\ Len(toRecv') = Len(toRecv) - 1
             /\ Num(toRecv, k, 1) \in Nat /\ Num(toRecv', k, 1) \in Nat
             /\ Num(toRecv', k, 1) \in {Num(toRecv, k, 1), Num(toRecv, k, 1) + 1}
             /\ Num(toRecv, k, 1) <= k + 1 /\ Num(toRecv', k, 1) <= k + 1
             /\ p.num \in Nat
             /\ p.kind = "D" => Num(toRecv, k, 1) = p.num /\ p.num <= k
             /\ p.kind # "D" => Num(toRecv, k, 1) = k + 1
             /\ p.kind \in {"S", "F"} => k = 0
             /\ p.kind = "Z" => /\ p.num = k + 1 /\ (k = NFrames \/ should_stop)
                                /\ pc \notin KEarly
             /\ noise = 0 => p.ok
<1>. DEFINE p == Head(toRecv)
            t == Tail(toRecv)
<1>1. /\ k \in Nat /\ toRecv \in Seq(Parcels) /\ Steady(toRecv, k)
      /\ toRecv \in Seq(KermitPackets)
  BY KTypes DEF KLineInv, KTyped
<1>2. /\ t \in Seq(Parcels) /\ Len(t) = Len(toRecv) - 1
      /\ 1 \in 1 .. Len(toRecv) /\ p = toRecv[1]
  BY <1>1, TailEach, FirstOf
<1>3. Steady(t, k) /\ Num(t, k, 1) \in {Num(toRecv, k, 1), Num(toRecv, k, 1) + 1}
  BY <1>1, TailSteady
<1>4. p \in KermitPackets /\ (IsFrame(p) <=> p.kind = "D") /\ p.num \in Nat
  <2>1. p \in KermitPackets
    BY <1>1, <1>2, ElementOfSeq
  <2>. QED  BY <2>1, KermitParcel, PacketFields
<1>. HIDE DEF p, t
<1>5. /\ Num(toRecv, k, 1) \in Nat /\ Num(toRecv, k, 1) <= k + 1
      /\ Num(t, k, 1) \in Nat /\ Num(t, k, 1) <= k + 1
  BY <1>1, <1>2, <1>3, NumBound
<1>6. /\ p.kind = "D" => Num(toRecv, k, 1) = p.num /\ p.num <= k
      /\ p.kind # "D" => Num(toRecv, k, 1) = k + 1
  BY <1>1, <1>2, <1>4 DEF Num, Steady
<1>7. /\ p.kind \in {"S", "F"} => k = 0
      /\ p.kind = "Z" => /\ p.num = k + 1 /\ (k = NFrames \/ should_stop)
                         /\ pc \notin KEarly
      /\ noise = 0 => p.ok
  BY <1>1, <1>2 DEF KLineInv
<1>8. toRecv' = t
  BY DEF t
<1>9. /\ Steady(toRecv', k)
      /\ Len(toRecv') = Len(toRecv) - 1
      /\ Num(toRecv, k, 1) \in Nat /\ Num(toRecv', k, 1) \in Nat
      /\ Num(toRecv', k, 1) \in {Num(toRecv, k, 1), Num(toRecv, k, 1) + 1}
      /\ Num(toRecv, k, 1) <= k + 1 /\ Num(toRecv', k, 1) <= k + 1
  BY <1>2, <1>3, <1>5, <1>8
<1>. QED  BY <1>4, <1>6, <1>7, <1>9, Zenon DEF p

(* A packet taken and answered leaves as many on their way.  A Y is paid    *)
(* for by the piece it stored, or by the pieces still on the line, each of  *)
(* which waits for its own answer.                                         *)
LEMMA KTakenCount ==
  ASSUME KTyped, KTyped', KCountInv, Len(toRecv') = Len(toRecv) - 1,
         Len(toSend') <= Len(toSend) + 1, Len(rfile') >= Len(rfile),
         UNCHANGED <<pc, k, failed, nsync>>,
         \/ Yes(toSend') + Len(rfile) <= Yes(toSend) + Len(rfile')
         \/ k - Len(rfile') <= Len(toRecv')
  PROVE  KCountInv'
<1>1. /\ nsync \in Nat /\ k \in Nat /\ Len(toSend) \in Nat /\ Len(toRecv) \in Nat
      /\ Len(rfile) \in Nat /\ Yes(toSend) \in Nat
      /\ Len(toSend') \in Nat /\ Yes(toSend') \in Nat /\ Yes(toSend') <= Len(toSend')
  BY KTypes, KTypedNext
<1>2. Len(rfile') \in Nat /\ k' = k /\ nsync' = nsync
  BY LenProperties DEF KTyped
<1>3. KActive' = KActive /\ KHeld' = KHeld /\ KHeld \in Nat
  BY DEF KActive, KHeld
<1>4. k' - Len(rfile') <= 1 + nsync'
  <2>1. k - Len(rfile) <= 1 + nsync
    BY DEF KCountInv
  <2>. QED  BY <1>1, <1>2, <2>1
<1>. DEFINE r == Len(toRecv)
            s == Len(toSend)
            y == Yes(toSend)
            f == Len(rfile)
            rr == Len(toRecv')
            ss == Len(toSend')
            yy == Yes(toSend')
            ff == Len(rfile')
            h == KHeld
<1>5. /\ r \in Nat /\ s \in Nat /\ y \in Nat /\ f \in Nat /\ h \in Nat
      /\ ss \in Nat /\ yy \in Nat /\ ff \in Nat
      /\ yy <= ss /\ rr = r - 1 /\ ss <= s + 1
      /\ yy + f <= y + ff \/ k - ff <= rr
  BY <1>1, <1>2, <1>3
<1>6. ASSUME KActive
      PROVE  /\ rr + ss + h <= 1 + nsync
             /\ k - ff + yy + h <= 1 + nsync
  <2>1. r + s + h <= 1 + nsync /\ k - f + y + h <= 1 + nsync
    BY <1>6 DEF KCountInv
  <2>2. k \in Nat /\ nsync \in Nat
    BY <1>1
  <2>. HIDE DEF r, s, y, f, rr, ss, yy, ff, h
  <2>3. rr + ss + h <= 1 + nsync
    BY <1>5, <2>1, <2>2
  <2>4. k - ff + yy + h <= 1 + nsync
    BY <1>5, <2>1, <2>2, <2>3
  <2>. QED  BY <2>3, <2>4
<1>7. KActive' => /\ Len(toRecv') + Len(toSend') + KHeld' <= 1 + nsync'
                  /\ k' - Len(rfile') + Yes(toSend') + KHeld' <= 1 + nsync'
  BY <1>2, <1>3, <1>6, Zenon
<1>. QED  BY <1>4, <1>7, Zenon DEF KCountInv

(* The line without its first packet.                                      *)
LEMMA KLineTail ==
  ASSUME KLineInv, UNCHANGED <<pc, k, failed, should_stop, noise>>,
         Steady(toRecv', k),
         \A i \in 1 .. Len(toRecv') :
           i + 1 \in 1 .. Len(toRecv) /\ toRecv'[i] = toRecv[i + 1]
  PROVE  KLineInv'
<1>1. ASSUME NEW i \in 1 .. Len(toRecv')
      PROVE  /\ pc' \in {"kdata", "kwait"} /\ ~failed' => IsFrame(toRecv'[i])
             /\ k' > 0 => toRecv'[i].kind \notin {"S", "F"}
             /\ toRecv'[i].kind = "Z" => /\ toRecv'[i].num = k' + 1
                                         /\ k' = NFrames \/ should_stop'
                                         /\ pc' \notin KEarly
             /\ noise' = 0 => toRecv'[i].ok
  BY DEF KLineInv
<1>2. Steady(toRecv', k')
  OBVIOUS
<1>. QED  BY <1>1, <1>2 DEF KLineInv

(* A packet is taken and at most one answer given.                         *)
LEMMA KTakenSteps ==
  ASSUME KTyped, KTyped', KCore, toRecv # <<>>, toRecv' = Tail(toRecv),
         UNCHANGED <<pc, k, failed, should_stop, ntransfers, noise, nsync>>,
         Len(toSend') <= Len(toSend) + 1, Yes(toSend') <= Yes(toSend) + 1,
         Len(rfile') >= Len(rfile),
         \/ Yes(toSend') + Len(rfile) <= Yes(toSend) + Len(rfile')
         \/ k - Len(rfile') <= Len(toRecv'),
         KReceiverInv'
  PROVE  KCore'
<1>0. /\ k \in Nat /\ toRecv \in Seq(Parcels) /\ Len(toRecv) \in Nat
      /\ Yes(toSend) \in Nat /\ Yes(toSend') \in Nat
  BY KTypes, KTypedNext
<1>1. Steady(toRecv', k) /\ Len(toRecv') = Len(toRecv) - 1
  BY KTaken DEF KCore
<1>2. \A i \in 1 .. Len(toRecv') :
        i + 1 \in 1 .. Len(toRecv) /\ toRecv'[i] = toRecv[i + 1]
  <2>. DEFINE t == Tail(toRecv)
  <2>1. \A i \in 1 .. Len(t) : i + 1 \in 1 .. Len(toRecv) /\ t[i] = toRecv[i + 1]
    BY <1>0, TailEach
  <2>2. toRecv' = t
    OBVIOUS
  <2>. HIDE DEF t
  <2>. QED  BY <2>1, <2>2
<1>3. KBeginInv'
  <2>1. pc # "kflush" /\ ntransfers # 0
    BY DEF KCore, KBeginInv
  <2>2. pc \in {"kS", "kF"} =>
          /\ k = 0 /\ Len(toRecv') + Yes(toSend') <= 1
          /\ \A i \in 1 .. Len(toRecv') : toRecv'[i].kind \in {"S", "F"}
    BY <1>0, <1>1, <1>2 DEF KCore, KBeginInv
  <2>. QED  BY <2>1, <2>2 DEF KCore, KBeginInv
<1>4. KLineInv'
  BY <1>1, <1>2, KLineTail, Zenon DEF KCore
<1>5. KCountInv'
  BY <1>1, KTakenCount DEF KCore
<1>6. KSenderInv'
  BY DEF KCore, KSenderInv
<1>. QED  BY <1>3, <1>4, <1>5, <1>6 DEF KCore

(* A Y is paid for by the piece that is stored, or by those on the line.   *)
LEMMA KReceivesSteps ==
  ASSUME KTyped, KTyped', KCore, toRecv # <<>>,
         NEW answer \in {"Y", "N"}, NEW state, NEW file,
         Receives(answer, state, file), Len(file) >= Len(rfile),
         \/ answer = "N"
         \/ Len(file) = Len(rfile) + 1
         \/ k - Len(file) <= Len(toRecv'),
         KReceiverInv'
  PROVE  KCore'
<1>1. /\ toRecv' = Tail(toRecv) /\ toSend' = Append(toSend, answer) /\ rfile' = file
      /\ UNCHANGED <<pc, k, failed, should_stop, ntransfers, noise, nsync>>
  BY DEF Receives
<1>2. /\ Len(toSend') = Len(toSend) + 1 /\ Len(toSend) \in Nat
      /\ Yes(toSend) \in Nat /\ Yes(toSend') \in Nat
      /\ Yes(toSend') <= Yes(toSend) + 1
      /\ answer # "Y" => Yes(toSend') = Yes(toSend)
  BY <1>1, KAnswerAdded DEF KAnswers
<1>3. Len(rfile) \in Nat /\ Len(rfile') \in Nat /\ Len(rfile') = Len(file)
  BY <1>1, LenProperties DEF KTyped
<1>4. /\ Len(toSend') <= Len(toSend) + 1 /\ Yes(toSend') <= Yes(toSend) + 1
      /\ Len(rfile') >= Len(rfile)
  BY <1>2, <1>3
<1>5. \/ Yes(toSend') + Len(rfile) <= Yes(toSend) + Len(rfile')
      \/ k - Len(rfile') <= Len(toRecv')
  <2>1. CASE answer = "N"
    BY <1>2, <1>3, <2>1
  <2>2. CASE Len(file) = Len(rfile) + 1
    BY <1>2, <1>3, <2>2
  <2>3. CASE k - Len(file) <= Len(toRecv')
    BY <1>3, <2>3
  <2>. QED  BY <2>1, <2>2, <2>3
<1>. QED  BY <1>1, <1>4, <1>5, KTakenSteps

(* The index of a packet is not taken for another's: what the job has read *)
(* and the receiver has not stored is less than an index needs to wrap.    *)
LEMMA KSameIndex ==
  ASSUME KTyped, KCountInv, NEW n \in Nat,
         NEW m \in {Len(rfile), Len(rfile) + 1},
         n >= Len(rfile), n - m <= k - Len(rfile),
         n <= Len(rfile) + 1 \/ MaxSync < IdxMod - 1,
         n % IdxMod = m % IdxMod
  PROVE  n = m
<1>1. /\ k \in Nat /\ Len(rfile) \in Nat /\ nsync \in Nat /\ nsync <= MaxSync
      /\ MaxSync \in Nat /\ k - Len(rfile) <= 1 + nsync
  BY KTypes DEF KCountInv
<1>2. IdxMod \in Nat /\ IdxMod >= 3 /\ IdxMod \in Int /\ IdxMod > 0
  OBVIOUS
<1>. DEFINE L == Len(rfile)
<1>3. /\ L \in Nat /\ m \in {L, L + 1} /\ n >= L /\ n - m <= k - L
      /\ n <= L + 1 \/ MaxSync < IdxMod - 1
      /\ k - L <= 1 + nsync
  BY <1>1
<1>. HIDE DEF L
<1>4. m \in Int /\ n \in Int /\ n - m < IdxMod /\ m - n < IdxMod
  BY <1>1, <1>2, <1>3
<1>. QED  BY <1>2, <1>4, SameIndex, Zenon

(* The receiver takes a packet: the next piece is the one it waits for.    *)
LEMMA KTakesSteps ==
  ASSUME KTyped, KTyped', KCore, noise = 0 \/ MaxSync < IdxMod - 1, KReceiverTakes
  PROVE  KCore'
<1>. DEFINE p == Head(toRecv)
            L == Len(rfile)
            N == Num(toRecv, k, 1)
            M == Num(toRecv', k, 1)
<1>1. toRecv # <<>> /\ toRecv' = Tail(toRecv)
  BY KTakes DEF Receives
<1>2. /\ Steady(toRecv', k)
      /\ N \in Nat /\ M \in Nat /\ M \in {N, N + 1} /\ N <= k + 1 /\ M <= k + 1
      /\ p.num \in Nat
      /\ p.kind = "D" => N = p.num /\ p.num <= k
      /\ p.kind # "D" => N = k + 1
      /\ p.kind \in {"S", "F"} => k = 0
      /\ p.kind = "Z" => /\ p.num = k + 1 /\ (k = NFrames \/ should_stop)
                         /\ pc \notin KEarly
      /\ noise = 0 => p.ok
  BY <1>1, KTaken DEF KCore
<1>3. /\ k \in Nat /\ L \in Nat /\ Expected = L + 1 /\ L <= k
      /\ \A i \in 1 .. L : rfile[i] = i
      /\ rstate \in {"sync", "file", "receiving"} => N >= L /\ (noise = 0 => N <= L + 1)
      /\ rstate \in {"complete", "closed"} =>
           pc \notin KEarly /\ (k = NFrames \/ should_stop) /\ L = k
  BY KTypes DEF KCore, KReceiverInv
<1>4. ASSUME NEW answer, NEW state, NEW file, Receives(answer, state, file)
      PROVE  /\ UNCHANGED <<pc, k, failed, should_stop, ntransfers, noise, nsync>>
             /\ rstate' = state /\ rfile' = file
  BY <1>4 DEF Receives
<1>5. /\ rstate \in {"sync", "file", "receiving", "complete"}
      /\ \/ ~p.ok /\ Receives("N", rstate, rfile)
         \/ /\ p.ok /\ p.kind \in {"S", "F"}
            /\ rstate \in {"sync", "file", "receiving"}
            /\ \/ Receives("Y", "file", rfile)
               \/ Receives("Y", "receiving", rfile)
         \/ /\ p.ok /\ p.kind = "D" /\ rstate = "receiving"
            /\ \/ /\ HasIdx(p, Expected)
                  /\ Receives("Y", rstate, Append(rfile, p.num))
               \/ HasIdx(p, Expected - 1) /\ Receives("Y", rstate, rfile)
               \/ /\ ~HasIdx(p, Expected) /\ ~HasIdx(p, Expected - 1)
                  /\ Receives("N", rstate, rfile)
         \/ /\ p.ok /\ p.kind = "Z" /\ rstate \in {"receiving", "complete"}
            /\ \/ HasIdx(p, Expected) /\ Receives("Y", "complete", rfile)
               \/ Receives("N", rstate, rfile)
         \/ /\ p.ok /\ p.kind = "B" /\ rstate = "complete"
            /\ Receives("Y", "closed", rfile)
  BY KTakes
<1>. HIDE DEF p, L, N, M
(* What the receiver does not store.                                       *)
<1>6. ASSUME NEW answer \in {"Y", "N"}, Receives(answer, rstate, rfile),
             answer = "N" \/ M <= L + 1,
             noise = 0 /\ rstate \in {"sync", "file", "receiving"} => M <= L + 1
      PROVE  KCore'
  <2>1. /\ UNCHANGED <<pc, k, failed, should_stop, ntransfers, noise, nsync>>
        /\ rstate' = rstate /\ rfile' = rfile
    BY <1>4, <1>6
  <2>2. M >= N
    BY <1>2
  <2>3. KReceiverInv'
    <3>1. Expected' = L + 1 /\ Num(toRecv', k', 1) = M /\ Len(rfile') = L
      BY <1>3, <2>1 DEF Expected, M, L
    <3>2. rstate \in {"sync", "file", "receiving"} =>
            M >= L /\ (noise = 0 => M <= L + 1)
      BY <1>2, <1>3, <1>6, <2>2
    <3>. QED  BY <1>3, <2>1, <3>1, <3>2 DEF KReceiverInv
  <2>4. answer = "N" \/ k - L <= Len(toRecv')
    <3>1. CASE M <= L + 1
      <4>1. toRecv' \in Seq(Parcels)
        <5>1. toRecv' \in Seq(KermitPackets)
          BY DEF KTyped
        <5>. QED  BY <5>1, SeqMonotonic DEF Parcels
      <4>2. k - (L + 1) + 1 <= Len(toRecv')
        <5>1. L + 1 \in Nat /\ L + 1 <= k + 1 /\ Num(toRecv', k, 1) <= L + 1
          BY <1>3, <3>1 DEF M
        <5>. QED  BY <1>2, <1>3, <4>1, <5>1, SteadyLength
      <4>3. k - (L + 1) + 1 = k - L
        BY <1>3
      <4>. QED  BY <4>2, <4>3
    <3>. QED  BY <1>6, <3>1
  <2>5. Len(rfile) >= Len(rfile)
    BY <1>3 DEF L
  <2>. QED  BY <1>1, <1>6, <2>3, <2>4, <2>5, KReceivesSteps DEF L
<1>7. CASE ~p.ok /\ Receives("N", rstate, rfile)
  BY <1>2, <1>6, <1>7
<1>8. CASE /\ p.ok /\ p.kind \in {"S", "F"}
           /\ rstate \in {"sync", "file", "receiving"}
           /\ \E state \in {"file", "receiving"} : Receives("Y", state, rfile)
  <2>1. k = 0 /\ L = 0 /\ N = 1 /\ M = 1
    BY <1>2, <1>3, <1>8
  <2>2. PICK state \in {"file", "receiving"} : Receives("Y", state, rfile)
    BY <1>8
  <2>3. /\ UNCHANGED <<pc, k, failed, should_stop, ntransfers, noise, nsync>>
        /\ rstate' \in {"file", "receiving"} /\ rfile' = rfile
    BY <1>4, <2>2
  <2>4. KReceiverInv'
    <3>1. Expected' = 1 /\ Num(toRecv', k', 1) = 1 /\ Len(rfile') = 0
      BY <2>1, <2>3 DEF Expected, M, L
    <3>. QED  BY <1>3, <2>1, <2>3, <3>1 DEF KReceiverInv
  <2>5. k - L <= Len(toRecv') /\ Len(rfile) >= Len(rfile)
    <3>1. Len(toRecv') \in Nat
      BY LenProperties DEF KTyped
    <3>. QED  BY <1>3, <2>1, <3>1 DEF L
  <2>. QED  BY <1>1, <2>2, <2>4, <2>5, KReceivesSteps DEF L
<1>9. CASE /\ p.ok /\ p.kind = "D" /\ rstate = "receiving" /\ HasIdx(p, Expected)
           /\ Receives("Y", rstate, Append(rfile, p.num))
  <2>1. p.num = L + 1 /\ N = L + 1
    <3>1. p.num % IdxMod = (L + 1) % IdxMod
      BY <1>3, <1>9 DEF HasIdx
    <3>2. /\ p.num >= L /\ p.num - (L + 1) <= k - L
          /\ p.num <= L + 1 \/ MaxSync < IdxMod - 1
      BY <1>2, <1>3, <1>9
    <3>3. p.num = L + 1
      BY <1>2, <3>1, <3>2, KSameIndex DEF KCore, L
    <3>. QED  BY <1>2, <1>9, <3>3
  <2>2. /\ UNCHANGED <<pc, k, failed, should_stop, ntransfers, noise, nsync>>
        /\ rstate' = "receiving" /\ rfile' = Append(rfile, L + 1)
    <3>1. /\ UNCHANGED <<pc, k, failed, should_stop, ntransfers, noise, nsync>>
          /\ rstate' = rstate /\ rfile' = Append(rfile, p.num)
      BY <1>4, <1>9, Zenon
    <3>. QED  BY <1>9, <2>1, <3>1
  <2>3. L + 1 <= k /\ L + 1 \in 1 .. NFrames
    BY <1>2, <1>3, <1>9, <2>1 DEF KTyped
  <2>4. /\ Len(rfile') = L + 1 /\ \A i \in 1 .. L + 1 : rfile'[i] = i
    <3>1. /\ Len(rfile') = L + 1 /\ rfile'[L + 1] = L + 1
          /\ \A i \in 1 .. L : rfile'[i] = rfile[i]
      BY <2>2, <2>3, AppendProperties DEF KTyped, L
    <3>2. \A i \in 1 .. L + 1 : i \in 1 .. L \/ i = L + 1
      BY <1>3
    <3>. QED  BY <1>3, <3>1, <3>2
  <2>5. KReceiverInv'
    <3>1. Expected' = L + 2
      <4>1. Expected' = Len(rfile') + 1
        BY DEF Expected
      <4>. QED  BY <1>3, <2>4, <4>1
    <3>2. Num(toRecv', k', 1) = M /\ M >= L + 1 /\ M <= L + 2
      BY <1>2, <1>3, <2>1, <2>2 DEF M
    <3>. QED  BY <2>2, <2>3, <2>4, <3>1, <3>2 DEF KReceiverInv
  <2>6. Len(Append(rfile, p.num)) = Len(rfile) + 1 /\ Len(rfile) + 1 >= Len(rfile)
    BY <1>3, <2>1, <2>2, <2>4 DEF L
  <2>. QED  BY <1>1, <1>9, <2>5, <2>6, KReceivesSteps
<1>10. CASE /\ p.ok /\ p.kind = "D" /\ rstate = "receiving" /\ HasIdx(p, Expected - 1)
            /\ Receives("Y", rstate, rfile)
  <2>1. p.num = L
    <3>1. p.num % IdxMod = L % IdxMod
      <4>1. Expected - 1 = L
        BY <1>3
      <4>. QED  BY <1>10, <4>1 DEF HasIdx
    <3>2. /\ p.num >= L /\ p.num - L <= k - L
          /\ p.num <= L + 1 \/ MaxSync < IdxMod - 1
      BY <1>2, <1>3, <1>10
    <3>. QED  BY <1>2, <3>1, <3>2, KSameIndex DEF KCore, L
  <2>2. M <= L + 1
    BY <1>2, <1>3, <1>10, <2>1
  <2>. QED  BY <1>6, <1>10, <2>2
<1>11. CASE /\ p.ok /\ p.kind = "D" /\ rstate = "receiving"
            /\ ~HasIdx(p, Expected) /\ ~HasIdx(p, Expected - 1)
            /\ Receives("N", rstate, rfile)
  <2>1. noise # 0
    <3>1. ASSUME noise = 0  PROVE FALSE
      <4>1. p.num = L \/ p.num = L + 1
        BY <1>2, <1>3, <1>11, <3>1
      <4>2. Expected - 1 = L /\ Expected = L + 1
        BY <1>3
      <4>. QED  BY <1>11, <4>1, <4>2 DEF HasIdx
    <3>. QED  BY <3>1
  <2>. QED  BY <1>6, <1>11, <2>1
<1>12. CASE /\ p.kind = "Z" /\ rstate \in {"receiving", "complete"}
            /\ Receives("N", rstate, rfile)
  <2>1. noise = 0 /\ rstate \in {"sync", "file", "receiving"} => M <= L + 1
    BY <1>2, <1>3, <1>12
  <2>. QED  BY <1>6, <1>12, <2>1
<1>13. CASE \/ /\ p.kind = "Z" /\ rstate \in {"receiving", "complete"}
               /\ HasIdx(p, Expected) /\ Receives("Y", "complete", rfile)
            \/ rstate = "complete" /\ Receives("Y", "closed", rfile)
  <2>1. L = k /\ pc \notin KEarly /\ (k = NFrames \/ should_stop)
    <3>1. CASE rstate = "complete"
      BY <1>3, <3>1
    <3>2. CASE p.kind = "Z" /\ rstate = "receiving" /\ HasIdx(p, Expected)
      <4>1. (k + 1) % IdxMod = (L + 1) % IdxMod
        BY <1>2, <1>3, <3>2 DEF HasIdx
      <4>2. /\ k + 1 >= L /\ (k + 1) - (L + 1) <= k - L /\ k + 1 \in Nat
            /\ k + 1 <= L + 1 \/ MaxSync < IdxMod - 1
        BY <1>2, <1>3, <3>2
      <4>3. k + 1 = L + 1
        BY <4>1, <4>2, KSameIndex DEF KCore, L
      <4>. QED  BY <1>2, <1>3, <3>2, <4>3
    <3>. QED  BY <1>13, <3>1, <3>2
  <2>2. PICK state \in {"complete", "closed"} : Receives("Y", state, rfile)
    BY <1>13
  <2>3. /\ UNCHANGED <<pc, k, failed, should_stop, ntransfers, noise, nsync>>
        /\ rstate' \in {"complete", "closed"} /\ rfile' = rfile
    BY <1>4, <2>2
  <2>4. KReceiverInv'
    BY <1>3, <2>1, <2>3 DEF KReceiverInv, L
  <2>5. k - L <= Len(toRecv') /\ Len(rfile) >= Len(rfile)
    <3>1. Len(toRecv') \in Nat
      BY LenProperties DEF KTyped
    <3>. QED  BY <1>3, <2>1, <3>1 DEF L
  <2>. QED  BY <1>1, <2>2, <2>4, <2>5, KReceivesSteps DEF L
<1>. QED  BY <1>5, <1>7, <1>8, <1>9, <1>10, <1>11, <1>12, <1>13

(* The receiver drops a packet, and may end.                               *)
LEMMA KDropsSteps ==
  ASSUME KTyped, KTyped', KCore, KReceiverDrops
  PROVE  KCore'
<1>0. /\ Len(toSend) \in Nat /\ Yes(toSend) \in Nat /\ Len(rfile) \in Nat
  BY KTypes
<1>1. /\ toRecv # <<>> /\ toRecv' = Tail(toRecv)
      /\ UNCHANGED <<pc, k, failed, should_stop, ntransfers, noise, nsync, rfile>>
      /\ rstate' \in {"off", "closed", "aborted"}
      /\ rstate' = "closed" => rstate = "closed"
      /\ toSend' = toSend \/ toSend' = Append(toSend, "E")
  BY DEF KReceiverDrops
<1>2. Len(toSend') <= Len(toSend) + 1 /\ Yes(toSend') = Yes(toSend)
  <2>1. CASE toSend' = toSend
    BY <1>0, <2>1
  <2>2. CASE toSend' = Append(toSend, "E")
    BY <1>0, <2>2, KAnswerAdded DEF KAnswers
  <2>. QED  BY <1>1, <2>1, <2>2
<1>3. KReceiverInv'
  BY <1>1 DEF KCore, KReceiverInv
<1>4. Len(rfile') = Len(rfile)
  BY <1>1
<1>5. /\ Yes(toSend') <= Yes(toSend) + 1 /\ Len(rfile') >= Len(rfile)
      /\ Yes(toSend') + Len(rfile) <= Yes(toSend) + Len(rfile')
  BY <1>0, <1>2, <1>4
<1>. QED  BY <1>1, <1>2, <1>3, <1>5, KTakenSteps

(* Asking again adds an answer and raises the count of the asking.         *)
LEMMA KAsksSteps ==
  ASSUME KTyped, KTyped', KCore, KReceiverAsks
  PROVE  KCore'
<1>0. /\ nsync \in Nat /\ k \in Nat /\ Len(toSend) \in Nat /\ Len(toRecv) \in Nat
      /\ Len(rfile) \in Nat /\ Yes(toSend) \in Nat
  BY KTypes
<1>1. /\ rstate \in {"sync", "file", "receiving"} /\ nsync' = nsync + 1
      /\ toSend' = Append(toSend, "N")
      /\ UNCHANGED <<pc, k, failed, should_stop, ntransfers, toRecv, noise, rstate, rfile>>
  BY DEF KReceiverAsks
<1>2. /\ Len(toSend') = Len(toSend) + 1 /\ Yes(toSend') = Yes(toSend)
      /\ Places(toSend', {"Y"}) = Places(toSend, {"Y"})
  BY <1>1, KAnswerAdded DEF KAnswers
<1>3. KBeginInv'
  <2>1. Len(toRecv') + Yes(toSend') = Len(toRecv) + Yes(toSend)
    BY <1>1, <1>2
  <2>2. Len(toSend) <= nsync => Len(toSend') <= nsync'
    BY <1>0, <1>1, <1>2
  <2>3. pc' = "kflush" \/ ntransfers' = 0 => Len(toSend') <= nsync'
    BY <1>1, <2>2 DEF KCore, KBeginInv
  <2>4. pc' \in {"kS", "kF"} => Len(toRecv') + Yes(toSend') <= 1
    BY <1>1, <2>1 DEF KCore, KBeginInv
  <2>5. UNCHANGED <<pc, k, failed, ntransfers, toRecv, rstate, rfile>>
    BY <1>1
  <2>6. Places(toSend', {"Y"}) = Places(toSend, {"Y"}) /\ rstate # "off"
    BY <1>1, <1>2
  <2>. QED  BY <2>3, <2>4, <2>5, <2>6 DEF KCore, KBeginInv
<1>4. KLineInv'
  BY <1>1, KLineKept DEF KCore
<1>5. KCountInv'
  <2>. DEFINE r == Len(toRecv)
              s == Len(toSend)
              y == Yes(toSend)
              f == Len(rfile)
              h == KHeld
  <2>1. /\ r \in Nat /\ s \in Nat /\ y \in Nat /\ f \in Nat /\ h \in Nat
        /\ KActive => r + s + h <= 1 + nsync /\ (k - f) + y + h <= 1 + nsync
        /\ k - f <= 1 + nsync
    BY <1>0 DEF KCore, KCountInv, KHeld
  <2>2. /\ Len(toRecv') = r /\ Len(toSend') = s + 1 /\ Yes(toSend') = y
        /\ Len(rfile') = f /\ KHeld' = h /\ KActive' = KActive /\ k' = k
        /\ nsync' = nsync + 1
    BY <1>1, <1>2 DEF KHeld, KActive
  <2>. HIDE DEF r, s, y, f, h
  <2>3. k - f <= 1 + (nsync + 1)
    BY <1>0, <2>1
  <2>4. ASSUME KActive
        PROVE  r + (s + 1) + h <= 1 + (nsync + 1) /\ (k - f) + y + h <= 1 + (nsync + 1)
    BY <1>0, <2>1, <2>4
  <2>. QED  BY <2>2, <2>3, <2>4, Zenon DEF KCountInv
<1>6. KSenderInv'
  BY <1>1 DEF KCore, KSenderInv
<1>7. KReceiverInv'
  BY <1>1, KReceiverKept DEF KCore
<1>. QED  BY <1>3, <1>4, <1>5, <1>6, <1>7 DEF KCore

(* A receiver that starts finds a line on which nothing was sent.          *)
LEMMA KStartSteps ==
  ASSUME KTyped, KCore, ntransfers <= 1, KReceiverStart
  PROVE  Restarted' \/ KCore'
<1>0. /\ ntransfers \in Nat /\ Len(<<>>) = 0 /\ MaxSync \in Nat
  BY KTypes
<1>1. /\ pc \in {"off", "kflush"} /\ rstate \in {"off", "complete", "closed", "aborted"}
      /\ rstate' = "sync" /\ nsync' = 0 /\ rfile' = <<>> /\ toRecv' = <<>>
      /\ UNCHANGED <<pc, k, failed, should_stop, ntransfers, toSend, noise>>
  BY DEF KReceiverStart
<1>2. CASE pc = "off" /\ ntransfers = 1
  BY <1>1, <1>2 DEF Restarted
<1>3. CASE pc = "kflush" \/ ntransfers = 0
  <2>1. k = 0 /\ toSend = <<>> /\ rstate = "off"
    BY <1>1, <1>3 DEF KCore, KBeginInv
  <2>2. Places(toSend', {"Y"}) = {} /\ Yes(toSend') = 0 /\ Len(toSend') = 0
    <3>1. toSend' = <<>> /\ 1 .. Len(<<>>) = {}
      BY <1>0, <1>1, <2>1, EmptyLine, Zenon
    <3>2. Places(toSend', {"Y"}) = {}
      BY <3>1 DEF Places
    <3>. QED  BY <1>0, <3>1, <3>2, FS_EmptySet DEF Yes
  <2>3. Steady(toRecv', k') /\ Num(toRecv', k', 1) = 1
    BY <1>1, <2>1, EmptySteady
  <2>4. 1 .. Len(toRecv') = {} /\ 1 .. Len(rfile') = {}
    BY <1>1, EmptyLine, Zenon
  <2>5. Len(toRecv') = 0 /\ Len(rfile') = 0 /\ k' = 0 /\ Expected' = 1
    BY <1>0, <1>1, <2>1 DEF Expected
  <2>6. KBeginInv'
    <3>1. pc' \notin {"kS", "kF"} /\ (pc' = "kflush" => ~failed')
      BY <1>1 DEF KCore, KBeginInv
    <3>. QED  BY <1>1, <2>1, <2>2, <2>5, <3>1 DEF KCore, KBeginInv
  <2>7. KLineInv'
    BY <2>3, <2>4 DEF KLineInv
  <2>8. KCountInv'
    <3>1. KHeld' \in {0, 1}
      BY DEF KHeld
    <3>2. /\ Len(toRecv') + Len(toSend') + KHeld' <= 1 + nsync'
          /\ k' - Len(rfile') + Yes(toSend') + KHeld' <= 1 + nsync'
          /\ k' - Len(rfile') <= 1 + nsync'
      <4>1. nsync' = 0
        BY <1>1
      <4>2. KHeld' \in Nat /\ KHeld' <= 1
        BY <3>1
      <4>3. /\ Len(toRecv') = 0 /\ Len(toSend') = 0 /\ Len(rfile') = 0
            /\ Yes(toSend') = 0 /\ k' = 0
        BY <2>2, <2>5
      <4>4. \A h \in Nat : h <= 1 => /\ 0 + 0 + h <= 1 + 0
                                  /\ 0 - 0 + 0 + h <= 1 + 0
                                  /\ 0 - 0 <= 1 + 0
        OBVIOUS
      <4>. QED  BY <4>1, <4>2, <4>3, <4>4, Zenon
    <3>. QED  BY <3>2, Zenon DEF KCountInv
  <2>9. KSenderInv'
    BY <1>1 DEF KCore, KSenderInv
  <2>10. KReceiverInv'
    BY <1>1, <2>3, <2>4, <2>5 DEF KReceiverInv
  <2>. QED  BY <2>6, <2>7, <2>8, <2>9, <2>10 DEF KCore
<1>4. pc = "kflush" \/ ntransfers = 0 \/ (pc = "off" /\ ntransfers = 1)
  BY <1>0, <1>1
<1>. QED  BY <1>2, <1>3, <1>4

-----------------------------------------------------------------------------
(* The line.  Noise makes no answer a Y, adds none and moves no packet.     *)
LEMMA KDamaged ==
  ASSUME KTyped, KTyped', Noise \/ KNoise
  PROVE  /\ Len(toSend') <= Len(toSend) /\ Yes(toSend') <= Yes(toSend)
         /\ Places(toSend, {"Y"}) = {} => Places(toSend', {"Y"}) = {}
         /\ toSend = <<>> => toSend' = <<>>
         /\ Len(toRecv') = Len(toRecv)
         /\ \A j \in 1 .. Len(toRecv) :
              toRecv'[j].kind = toRecv[j].kind /\ toRecv'[j].num = toRecv[j].num
<1>0. /\ Len(toSend) \in Nat /\ Yes(toSend) \in Nat /\ toSend \in Seq(KAnswers)
      /\ toSend' \in Seq(KAnswers) /\ toRecv \in Seq(Parcels)
      /\ Yes(toSend') \in Nat /\ Len(toSend') \in Nat
  BY KTypes, KTypedNext DEF KTyped
<1>1. ASSUME NEW i \in 1 .. Len(toSend), toSend' = [toSend EXCEPT ![i] = "bad"],
             UNCHANGED toRecv
      PROVE  /\ Len(toSend') = Len(toSend) /\ Yes(toSend') <= Yes(toSend)
             /\ UNCHANGED toRecv
  <2>1. /\ Len(toSend') = Len(toSend)
        /\ \A j \in 1 .. Len(toSend) : toSend'[j] = IF j = i THEN "bad" ELSE toSend[j]
    <3>1. "bad" \in KAnswers
      BY DEF KAnswers
    <3>. QED  BY <1>0, <1>1, <3>1, ExceptSeq
  <2>2. Places(toSend', {"Y"}) \in SUBSET Places(toSend, {"Y"})
    BY <2>1 DEF Places
  <2>3. IsFiniteSet(Places(toSend, {"Y"}))
    BY <1>0, PlacesType
  <2>. QED  BY <1>1, <2>1, <2>2, <2>3, FS_Subset DEF Yes
<1>2. ASSUME NEW i \in 1 .. Len(toSend),
             toSend' = SubSeq(toSend, 1, i - 1) \o SubSeq(toSend, i + 1, Len(toSend)),
             UNCHANGED toRecv
      PROVE  /\ Len(toSend') <= Len(toSend) /\ Yes(toSend') <= Yes(toSend)
             /\ UNCHANGED toRecv
  <2>. DEFINE q == SubSeq(toSend, 1, i - 1) \o SubSeq(toSend, i + 1, Len(toSend))
  <2>1. Len(q) = Len(toSend) - 1
        /\ Cardinality(Places(q, {"Y"})) <= Cardinality(Places(toSend, {"Y"}))
    BY <1>0, RemovePlaces
  <2>2. toSend' = q
    BY <1>2
  <2>. HIDE DEF q
  <2>3. /\ Len(toSend') = Len(toSend) - 1
        /\ Cardinality(Places(toSend', {"Y"})) <= Cardinality(Places(toSend, {"Y"}))
    BY <2>1, <2>2, Zenon
  <2>4. Len(toSend') <= Len(toSend)
    BY <1>0, <2>3
  <2>. QED  BY <1>2, <2>3, <2>4, Zenon DEF Yes
<1>3. ASSUME NEW i \in 1 .. Len(toRecv), toRecv[i].kind \in Checked,
             toRecv' = [toRecv EXCEPT ![i].ok = FALSE], UNCHANGED toSend
      PROVE  /\ Len(toRecv') = Len(toRecv) /\ UNCHANGED toSend
             /\ \A j \in 1 .. Len(toRecv) :
                  toRecv'[j].kind = toRecv[j].kind /\ toRecv'[j].num = toRecv[j].num
  <2>. DEFINE d == [toRecv EXCEPT ![i].ok = FALSE]
  <2>1. /\ Len(d) = Len(toRecv)
        /\ \A j \in 1 .. Len(toRecv) :
             d[j].kind = toRecv[j].kind /\ d[j].num = toRecv[j].num
    BY <1>0, <1>3, DamageType
  <2>2. toRecv' = d
    BY <1>3
  <2>. HIDE DEF d
  <2>. QED  BY <1>3, <2>1, <2>2
<1>4. DOMAIN toSend = 1 .. Len(toSend)
  BY <1>0
<1>5. /\ Len(toSend') <= Len(toSend) /\ Yes(toSend') <= Yes(toSend)
      /\ Len(toRecv') = Len(toRecv)
      /\ \A j \in 1 .. Len(toRecv) :
           toRecv'[j].kind = toRecv[j].kind /\ toRecv'[j].num = toRecv[j].num
  <2>1. CASE KNoise
    <3>1. PICK i \in 1 .. Len(toSend) : toSend' = [toSend EXCEPT ![i] = "bad"]
      BY <1>4, <2>1, Zenon DEF KNoise
    <3>2. UNCHANGED toRecv
      BY <2>1 DEF KNoise
    <3>3. Len(toSend') = Len(toSend) /\ Yes(toSend') <= Yes(toSend)
      BY <1>1, <3>1, <3>2
    <3>. QED  BY <1>0, <3>2, <3>3
  <2>2. CASE \E i \in 1 .. Len(toRecv) :
               /\ toRecv[i].kind \in Checked
               /\ toRecv' = [toRecv EXCEPT ![i].ok = FALSE]
               /\ UNCHANGED toSend
    <3>1. PICK i \in 1 .. Len(toRecv) :
               /\ toRecv[i].kind \in Checked
               /\ toRecv' = [toRecv EXCEPT ![i].ok = FALSE]
               /\ UNCHANGED toSend
      BY <2>2
    <3>2. /\ Len(toRecv') = Len(toRecv) /\ UNCHANGED toSend
          /\ \A j \in 1 .. Len(toRecv) :
               toRecv'[j].kind = toRecv[j].kind /\ toRecv'[j].num = toRecv[j].num
      BY <1>3, <3>1, Zenon
    <3>. QED  BY <1>0, <3>2
  <2>3. CASE /\ \E i \in 1 .. Len(toSend) :
                  toSend' = SubSeq(toSend, 1, i - 1)
                              \o SubSeq(toSend, i + 1, Len(toSend))
             /\ UNCHANGED toRecv
    <3>1. PICK i \in 1 .. Len(toSend) :
                  toSend' = SubSeq(toSend, 1, i - 1)
                              \o SubSeq(toSend, i + 1, Len(toSend))
      BY <2>3
    <3>2. Len(toSend') <= Len(toSend) /\ Yes(toSend') <= Yes(toSend)
      BY <1>2, <2>3, <3>1, Zenon
    <3>. QED  BY <2>3, <3>2
  <2>4. \/ KNoise
        \/ \E i \in 1 .. Len(toRecv) :
               /\ toRecv[i].kind \in Checked
               /\ toRecv' = [toRecv EXCEPT ![i].ok = FALSE]
               /\ UNCHANGED toSend
        \/ /\ \E i \in 1 .. Len(toSend) :
                  toSend' = SubSeq(toSend, 1, i - 1)
                              \o SubSeq(toSend, i + 1, Len(toSend))
           /\ UNCHANGED toRecv
    BY Zenon DEF Noise
  <2>. QED  BY <2>1, <2>2, <2>3, <2>4
<1>6. Places(toSend, {"Y"}) = {} => Places(toSend', {"Y"}) = {}
  <2>1. ASSUME Places(toSend, {"Y"}) = {}  PROVE Places(toSend', {"Y"}) = {}
    <3>1. Yes(toSend) = 0
      BY <2>1, FS_EmptySet DEF Yes
    <3>2. Cardinality(Places(toSend', {"Y"})) = 0
      BY <1>0, <1>5, <3>1 DEF Yes
    <3>3. IsFiniteSet(Places(toSend', {"Y"}))
      BY <1>0, PlacesType
    <3>. QED  BY <3>2, <3>3, FS_EmptySet
  <2>. QED  BY <2>1
<1>7. toSend = <<>> => toSend' = <<>>
  <2>1. ASSUME toSend = <<>>  PROVE toSend' = <<>>
    <3>1. Len(toSend) = 0
      BY <2>1, EmptySeq
    <3>2. Len(toSend') = 0
      BY <1>0, <1>5, <3>1
    <3>. QED  BY <1>0, <3>2, EmptySeq
  <2>. QED  BY <2>1
<1>. QED  BY <1>5, <1>6, <1>7

(* Damage keeps the order of the packets and the counts.                   *)
LEMMA KNoiseSteps ==
  ASSUME KTyped, KTyped', KCore, Noise \/ KNoise
  PROVE  KCore'
<1>0. /\ noise \in Nat /\ nsync \in Nat /\ k \in Nat /\ toRecv \in Seq(Parcels)
      /\ Len(toSend) \in Nat /\ Len(toRecv) \in Nat /\ Len(rfile) \in Nat
      /\ Yes(toSend) \in Nat /\ Len(toSend') \in Nat /\ Yes(toSend') \in Nat
  BY KTypes, KTypedNext
<1>1. /\ UNCHANGED <<pc, k, failed, should_stop, ntransfers, nsync, rstate, rfile>>
      /\ noise' = noise + 1
  BY DEF Noise, KNoise
<1>2. /\ Len(toSend') <= Len(toSend) /\ Yes(toSend') <= Yes(toSend)
      /\ Places(toSend, {"Y"}) = {} => Places(toSend', {"Y"}) = {}
      /\ toSend = <<>> => toSend' = <<>>
      /\ Len(toRecv') = Len(toRecv)
      /\ \A j \in 1 .. Len(toRecv) :
           toRecv'[j].kind = toRecv[j].kind /\ toRecv'[j].num = toRecv[j].num
  BY KDamaged
<1>3. toRecv' \in Seq(Parcels)
  BY SeqMonotonic DEF KTyped, Parcels
<1>4. noise' # 0
  BY <1>0, <1>1
<1>5. KBeginInv'
  <2>1. toRecv = <<>> => toRecv' = <<>>
    BY <1>0, <1>2, <1>3, EmptySeq
  <2>2. Len(toSend) <= nsync => Len(toSend') <= nsync'
    BY <1>0, <1>1, <1>2
  <2>3. Len(toRecv) + Yes(toSend) <= 1 => Len(toRecv') + Yes(toSend') <= 1
    BY <1>0, <1>2
  <2>4. ASSUME pc \in {"kS", "kF"}, NEW i \in 1 .. Len(toRecv')
        PROVE  toRecv'[i].kind \in {"S", "F"}
    BY <1>2, <2>4 DEF KCore, KBeginInv
  <2>5. \/ /\ Len(toSend') <= nsync'
           /\ Places(toSend', {"Y"}) = {}
        \/ ~(pc' = "kflush" \/ ntransfers' = 0)
    BY <1>1, <1>2, <2>2 DEF KCore, KBeginInv
  <2>6. Len(toRecv') + Yes(toSend') <= 1 \/ pc' \notin {"kS", "kF"}
    BY <1>1, <2>3 DEF KCore, KBeginInv
  <2>7. \/ /\ rstate' = "off" => toSend' = <<>>
           /\ toRecv' = <<>>
        \/ ~(pc' = "kflush" \/ ntransfers' = 0)
    BY <1>1, <1>2, <2>1 DEF KCore, KBeginInv
  <2>. QED  BY <1>1, <2>4, <2>5, <2>6, <2>7 DEF KCore, KBeginInv
<1>6. Steady(toRecv', k') /\ Num(toRecv', k', 1) = Num(toRecv, k, 1)
  <2>1. Steady(toRecv, k)
    BY DEF KCore, KLineInv
  <2>2. Steady(toRecv', k) /\ Num(toRecv', k, 1) = Num(toRecv, k, 1)
    BY <1>0, <1>2, <1>3, <2>1, DamageSteady
  <2>. QED  BY <1>1, <2>2
<1>7. KLineInv'
  BY <1>1, <1>2, <1>4, <1>6 DEF KCore, KLineInv, IsFrame
<1>8. KCountInv'
  <2>. DEFINE r == Len(toRecv)
              s == Len(toSend)
              y == Yes(toSend)
              f == Len(rfile)
              h == KHeld
              t == Len(toSend')
              z == Yes(toSend')
  <2>1. /\ r \in Nat /\ s \in Nat /\ y \in Nat /\ f \in Nat /\ h \in Nat
        /\ t \in Nat /\ z \in Nat
        /\ KActive => r + s + h <= 1 + nsync /\ (k - f) + y + h <= 1 + nsync
        /\ k - f <= 1 + nsync
    BY <1>0 DEF KCore, KCountInv, KHeld
  <2>2. t <= s /\ z <= y
    BY <1>2
  <2>3. /\ Len(toRecv') = r /\ Len(toSend') = t /\ Yes(toSend') = z
        /\ Len(rfile') = f /\ KHeld' = h /\ KActive' = KActive /\ k' = k
        /\ nsync' = nsync
    BY <1>1, <1>2 DEF KHeld, KActive
  <2>. HIDE DEF r, s, y, f, h, t, z
  <2>4. ASSUME KActive
        PROVE  r + t + h <= 1 + nsync /\ (k - f) + z + h <= 1 + nsync
    BY <1>0, <2>1, <2>2, <2>4
  <2>. QED  BY <2>1, <2>3, <2>4, Zenon DEF KCountInv
<1>9. KSenderInv'
  BY <1>1 DEF KCore, KSenderInv
<1>10. KReceiverInv'
  BY <1>1, <1>4, <1>6 DEF KCore, KReceiverInv
<1>. QED  BY <1>5, <1>7, <1>8, <1>9, <1>10 DEF KCore

(* Nothing happens.                                                        *)
LEMMA KStutter ==
  ASSUME KCore, UNCHANGED vars  PROVE KCore'
<1>1. UNCHANGED <<pc, k, failed, should_stop, ntransfers, toRecv, toSend,
                  noise, nsync, rstate, rfile>>
  BY DEF vars
<1>2. KBeginInv' /\ KLineInv'
  BY <1>1 DEF KCore, KBeginInv, KLineInv
<1>3. KCountInv' /\ KSenderInv' /\ KReceiverInv'
  BY <1>1 DEF KCore, KCountInv, KActive, KHeld, KSenderInv, KReceiverInv, Expected
<1>. QED  BY <1>2, <1>3 DEF KCore

(* A receiver that was started anew waits, and nothing is sent to it.       *)
LEMMA KRestartedStep ==
  ASSUME Restarted, ntransfers' <= 1, [KNext]_<<vars, kVars>>  PROVE Restarted'
<1>0. /\ pc = "off" /\ ntransfers = 1 /\ rstate = "sync" /\ toRecv = <<>>
      /\ rfile = <<>> /\ Len(<<>>) = 0
  BY EmptySeq DEF Restarted
<1>1. ~KTransferBegin /\ ~KNextFile
  BY <1>0 DEF KTransferBegin, KNextFile
<1>2. ~KSender /\ ~KTransferEnd /\ ~UserCancel
  BY <1>0 DEF KSender, KInitFrame, KInitAnswered, KFileAnswered, KNextData,
     KDataAcked, KDataNaked, KDataFailed, KSendEOF, KEOFAnswered,
     KBreakAnswered, KFinish, KSkip, Once, KTransferEnd, TransferEnd, UserCancel
<1>3. ~KReceiverStart /\ ~KReceiverTakes /\ ~KReceiverDrops
  BY <1>0 DEF KReceiverStart, KReceiverTakes, KReceiverDrops
<1>4. CASE KReceiverAsks \/ KNoise \/ UNCHANGED vars
  BY <1>0, <1>4 DEF KReceiverAsks, KNoise, vars, Restarted
<1>5. CASE Noise
  <2>1. UNCHANGED toRecv
    BY <1>0, <1>5 DEF Noise
  <2>. QED  BY <1>5, <2>1 DEF Noise, Restarted
<1>. QED  BY <1>1, <1>2, <1>3, <1>4, <1>5 DEF KNext, KReceiver

(* The number of transfers and the damage only grow.                       *)
LEMMA KFirstTransferKept ==
  ASSUME KTyped, [KNext]_<<vars, kVars>>
  PROVE  /\ ntransfers \in Nat /\ noise \in Nat
         /\ ntransfers' >= ntransfers /\ noise' >= noise
<1>0. ntransfers \in Nat /\ noise \in Nat
  BY DEF KTyped
<1>1. CASE KTransferBegin \/ KNextFile
  BY <1>0, <1>1 DEF KTransferBegin, KNextFile
<1>2. CASE Noise \/ KNoise
  <2>1. noise' = noise + 1 /\ UNCHANGED ntransfers
    BY <1>2, Zenon DEF Noise, KNoise, staticVars
  <2>. QED  BY <1>0, <2>1
<1>3. CASE KSender
  <2>1. UNCHANGED <<ntransfers, noise>>
    BY <1>3 DEF KSender, KInitFrame, KInitAnswered, KFileAnswered, KNextData,
       KDataAcked, KDataNaked, KDataFailed, KSendEOF, KEOFAnswered,
       KBreakAnswered, KFinish, KSkip, Once
  <2>. QED  BY <1>0, <2>1
<1>4. CASE UserCancel \/ KTransferEnd \/ KReceiverStart \/ UNCHANGED vars
  <2>1. UNCHANGED <<ntransfers, noise>>
    BY <1>4 DEF UserCancel, KTransferEnd, TransferEnd, KReceiverStart, vars
  <2>. QED  BY <1>0, <2>1
<1>5. CASE KReceiver
  <2>1. KReceiverTakes => UNCHANGED <<ntransfers, noise>>
    BY KTakes, Zenon DEF Receives, senderVars, staticVars
  <2>2. UNCHANGED <<ntransfers, noise>>
    BY <1>5, <2>1 DEF KReceiver, KReceiverAsks, KReceiverDrops
  <2>. QED  BY <1>0, <2>2
<1>. QED  BY <1>1, <1>2, <1>3, <1>4, <1>5 DEF KNext

(* Every step of a first transfer keeps its invariant.                     *)
LEMMA KCoreStep ==
  ASSUME KTyped, KTyped', KCore, KFirstTransfer, ntransfers' <= 1,
         [KNext]_<<vars, kVars>>
  PROVE  Restarted' \/ KCore'
<1>1. ntransfers <= 1 /\ (noise = 0 \/ MaxSync < IdxMod - 1)
  BY DEF KFirstTransfer
<1>2. CASE KTransferBegin \/ KNextFile
  BY <1>2, KBeginSteps
<1>3. CASE KSender
  <2>1. CASE KInitFrame
    BY <2>1, KInitFrameStep
  <2>2. CASE KInitAnswered \/ KFileAnswered
    BY <2>2, KAnsweredSteps
  <2>3. CASE KEOFAnswered \/ KBreakAnswered
    BY <2>3, KEndAnsweredSteps
  <2>4. CASE KNextData
    BY <2>4, KNextDataStep
  <2>5. CASE KDataAcked \/ KDataNaked \/ KDataFailed
    BY <2>5, KDataSteps
  <2>6. CASE KSendEOF \/ KFinish
    BY <2>6, KEndSteps
  <2>7. CASE KSkip
    BY <2>7, KSkipSteps
  <2>. QED  BY <1>3, <2>1, <2>2, <2>3, <2>4, <2>5, <2>6, <2>7 DEF KSender
<1>4. CASE KTransferEnd
  BY <1>4, KEndSteps
<1>5. CASE KReceiverStart
  BY <1>1, <1>5, KStartSteps
<1>6. CASE KReceiver
  <2>1. CASE KReceiverAsks
    BY <2>1, KAsksSteps
  <2>2. CASE KReceiverTakes
    BY <1>1, <2>2, KTakesSteps
  <2>3. CASE KReceiverDrops
    BY <2>3, KDropsSteps
  <2>. QED  BY <1>6, <2>1, <2>2, <2>3 DEF KReceiver
<1>7. CASE Noise \/ KNoise
  BY <1>7, KNoiseSteps
<1>8. CASE UserCancel
  BY <1>8, KSkipSteps
<1>9. CASE UNCHANGED vars
  BY <1>9, KStutter
<1>. QED  BY <1>2, <1>3, <1>4, <1>5, <1>6, <1>7, <1>8, <1>9 DEF KNext

(* The inductive step.                                                     *)
LEMMA KTransferStep ==
  KTyped /\ KTransferInv /\ [KNext]_<<vars, kVars>> => KTransferInv'
<1>. SUFFICES ASSUME KTyped, KTransferInv, [KNext]_<<vars, kVars>>, KFirstTransfer'
              PROVE  Restarted' \/ KCore'
  BY DEF KTransferInv
<1>1. /\ ntransfers \in Nat /\ noise \in Nat
      /\ ntransfers' >= ntransfers /\ noise' >= noise
  BY KFirstTransferKept
<1>2. KTyped'
  BY KTypedStep
<1>3. ntransfers' <= 1 /\ (noise' = 0 \/ MaxSync < IdxMod - 1)
      /\ ntransfers' \in Nat /\ noise' \in Nat
  BY <1>2 DEF KFirstTransfer, KTyped
<1>4. ntransfers <= 1 /\ (noise' = 0 => noise = 0)
  BY <1>1, <1>3
<1>5. KFirstTransfer
  BY <1>3, <1>4 DEF KFirstTransfer
<1>6. CASE Restarted
  BY <1>3, <1>6, KRestartedStep
<1>7. CASE KCore
  BY <1>2, <1>3, <1>5, <1>7, KCoreStep
<1>. QED  BY <1>5, <1>6, <1>7 DEF KTransferInv

USE XModemAssumption
    DEF senderVars, staticVars, receiverVars, SyncChars, Answers, yVars

-----------------------------------------------------------------------------
(* Types.                                                                  *)
YTyped == /\ Typed /\ seen \in Seq(Answers)
          /\ rmode = "C" /\ cs_type = "C"
          /\ pc = "wait" => k > 0
          /\ pc \notin {"yheader", "eot", "ytail"} => seen = <<>>

(* The headers the job makes are parcels and no frames.                    *)
LEMMA HeaderType ==
  ASSUME NEW kind \in {"header", "empty"}
  PROVE  /\ Header(kind) \in Parcels /\ Header(kind).kind = kind
         /\ ~IsFrame(Header(kind))
         /\ Header(kind).ok
<1>1. Header(kind).ok
  BY DEF Header
<1>2. Header(kind) \in Headers
  BY DEF Header, Headers
<1>3. Header(kind).kind = kind /\ ~IsFrame(Header(kind))
  BY DEF Header, IsFrame
<1>. QED  BY <1>1, <1>2, <1>3 DEF Parcels

(* The answers that are left when the job has read some.                   *)
LEMMA AnswersLeft ==
  ASSUME toSend \in Seq(Answers),
         \/ UNCHANGED toSend
         \/ NoAnswer
         \/ \E c : Got(c)
         \/ \E n : ReadsChunk(n)
         \/ \E n \in 0 .. Len(toSend) : toSend' = SubSeq(toSend, n + 1, Len(toSend))
  PROVE  toSend' \in Seq(Answers)
<1>1. CASE UNCHANGED toSend \/ NoAnswer
  BY <1>1 DEF NoAnswer
<1>2. CASE \E c : Got(c)
  BY <1>2, HeadTailProperties DEF Got
<1>3. CASE \E n \in 0 .. Len(toSend) : toSend' = SubSeq(toSend, n + 1, Len(toSend))
  BY <1>3, CutAt
<1>4. CASE \E n : ReadsChunk(n)
  <2>1. PICK n \in 1 .. Len(toSend) : toSend' = SubSeq(toSend, n + 1, Len(toSend))
    BY <1>4 DEF ReadsChunk
  <2>2. n \in 0 .. Len(toSend)
    OBVIOUS
  <2>. QED  BY <1>3, <2>1, <2>2
<1>. QED  BY <1>1, <1>2, <1>3, <1>4

(* The pieces expect_seqs takes are answers.                               *)
LEMMA ChunkType ==
  ASSUME toSend \in Seq(Answers), seen \in Seq(Answers), NEW n \in 1 .. Len(toSend)
  PROVE  Chunk(n) \in Seq(Answers)
<1>1. n \in 0 .. Len(toSend)
  OBVIOUS
<1>2. SubSeq(toSend, 1, n) \in Seq(Answers)
  BY <1>1, CutAt
<1>. QED  BY <1>2, ConcatProperties DEF Chunk

(* The actions YMODEM shares with XMODEM.                                  *)
LEMMA SharedType ==
  ASSUME YTyped, YShared, UNCHANGED yVars
  PROVE  YTyped'
<1>0. /\ k \in 0 .. NFrames /\ toRecv \in Seq(Parcels) /\ toSend \in Seq(Answers)
      /\ cs_type \in {"C", "NAK"} /\ rmode \in SyncChars
  BY DEF YTyped, Typed
<1>1. /\ UNCHANGED <<cs_type, noise, ntransfers, rmode, rfile, seen>>
      /\ k' \in 0 .. NFrames /\ (pc' = "wait" => k' > 0)
      /\ pc \in {"next", "wait", "finish"}
      /\ pc' # "yheader"
  <2>1. CASE NextFrame
    BY <1>0, <2>1 DEF NextFrame
  <2>2. CASE FrameNaked \/ FrameAcked \/ FrameFailed \/ FrameSkip
    BY <1>0, <2>2 DEF YTyped, FrameNaked, FrameAcked, FrameFailed, FrameSkip, SkipAnswer
  <2>3. CASE SendEOT \/ Cancelled \/ Finish
    BY <1>0, <2>3 DEF SendEOT, Cancelled, Finish
  <2>. QED  BY <2>1, <2>2, <2>3 DEF YShared
<1>2. seen = <<>>
  BY <1>1 DEF YTyped
<1>3. toSend' \in Seq(Answers)
  BY <1>0, AnswersLeft DEF YShared, NextFrame, FrameAcked, FrameNaked, FrameFailed,
     FrameSkip, SendEOT, Cancelled, Finish, SkipAnswer
<1>4. toRecv' \in Seq(Parcels)
  <2>1. \A c \in {"EOT", "CAN"} : Control(c) \in Parcels
    BY ControlType DEF Parcels
  <2>2. CASE NextFrame
    <3>1. Frame(k + 1, cs_type, TRUE) \in Parcels
      <4>1. k + 1 \in 1 .. NFrames
        BY <1>0, <2>2 DEF NextFrame
      <4>. QED  BY <1>0, <4>1, FrameType DEF Parcels
    <3>. QED  BY <1>0, <2>2, <3>1, AppendProperties DEF NextFrame
  <2>3. CASE FrameNaked
    <3>1. Packet \in Parcels
      <4>1. k \in 1 .. NFrames
        BY <1>0, <2>3 DEF YTyped, FrameNaked
      <4>. QED  BY <1>0, <4>1, FrameType DEF Packet, Parcels
    <3>2. /\ Append(toRecv, Packet) \in Seq(Parcels)
          /\ Append(Append(toRecv, Packet), Packet) \in Seq(Parcels)
      BY <1>0, <3>1, AppendProperties
    <3>3. toRecv \o <<Packet, Packet>> = Append(Append(toRecv, Packet), Packet)
      BY <1>0, <3>1, AppendTwo
    <3>. QED  BY <2>3, <3>2, <3>3 DEF FrameNaked
  <2>4. CASE SendEOT
    BY <1>0, <2>1, <2>4, AppendProperties DEF SendEOT
  <2>5. CASE Finish
    <3>1. Append(toRecv, Control("CAN")) \in Seq(Parcels)
      BY <1>0, <2>1, AppendProperties
    <3>. QED  BY <1>0, <2>5, <3>1 DEF Finish
  <2>6. CASE FrameAcked \/ FrameFailed \/ FrameSkip \/ Cancelled
    BY <1>0, <2>6 DEF FrameAcked, FrameFailed, FrameSkip, Cancelled, SkipAnswer
  <2>. QED  BY <2>2, <2>3, <2>4, <2>5, <2>6 DEF YShared
<1>. QED  BY <1>1, <1>2, <1>3, <1>4 DEF YTyped, Typed

(* Every step keeps the types.                                             *)
LEMMA YTypedStep == YTyped /\ [YNext]_<<vars, yVars>> => YTyped'
<1>. SUFFICES ASSUME YTyped, [YNext]_<<vars, yVars>>  PROVE YTyped'
  OBVIOUS
<1>0. /\ k \in 0 .. NFrames /\ noise \in Nat /\ ntransfers \in Nat
      /\ toRecv \in Seq(Parcels) /\ toSend \in Seq(Answers)
      /\ rmode = "C" /\ cs_type = "C" /\ seen \in Seq(Answers)
      /\ rfile \in Seq(1 .. NFrames)
      /\ \A S : <<>> \in Seq(S)
  BY EmptySeq DEF YTyped, Typed
<1>1. CASE YTransferBegin
  <2>1. k' \in 0 .. NFrames /\ ntransfers' \in Nat /\ seen = <<>>
    BY <1>0, <1>1 DEF YTransferBegin, YTyped
  <2>. QED  BY <1>0, <1>1, <2>1 DEF YTransferBegin, YTyped, Typed
<1>2. CASE UserCancel /\ UNCHANGED yVars
  BY <1>2 DEF UserCancel, YTyped, Typed
<1>3. CASE YSync
  <2>1. toSend' \in Seq(Answers)
    BY <1>0, <1>3, AnswersLeft DEF YSync
  <2>2. toRecv' \in Seq(Parcels)
    BY <1>0, <1>3, HeaderType, AppendProperties DEF YSync
  <2>. QED  BY <1>3, <2>1, <2>2 DEF YSync, YTyped, Typed
<1>4. CASE YSyncSkip
  <2>1. toSend' \in Seq(Answers)
    BY <1>0, <1>4, AnswersLeft DEF YSyncSkip, SkipAnswer
  <2>. QED  BY <1>4, <2>1 DEF YSyncSkip, SkipAnswer, YTyped, Typed
<1>5. CASE YHeaderAnswered
  <2>1. toSend' \in Seq(Answers) /\ seen' = <<>>
    BY <1>0, <1>5, AnswersLeft DEF YHeaderAnswered, SeqFound, SeqMissing
  <2>. QED  BY <1>0, <1>5, <2>1 DEF YHeaderAnswered, YTyped, Typed
<1>6. CASE YHeaderGoesOn \/ YEOTGoesOn \/ YTailGoesOn
  <2>1. PICK n \in 1 .. Len(toSend) : ReadsChunk(n) /\ seen' = Chunk(n)
    BY <1>6 DEF YHeaderGoesOn, YEOTGoesOn, YTailGoesOn, SeqGoesOn
  <2>2. toSend' \in Seq(Answers) /\ seen' \in Seq(Answers)
    BY <1>0, <2>1, AnswersLeft, ChunkType
  <2>3. UNCHANGED <<pc, k, cs_type, noise, ntransfers, toRecv, rmode, rfile>>
    BY <1>6 DEF YHeaderGoesOn, YEOTGoesOn, YTailGoesOn, SeqGoesOn
  <2>4. pc \in {"yheader", "eot", "ytail"}
    BY <1>6 DEF YHeaderGoesOn, YEOTGoesOn, YTailGoesOn
  <2>. QED  BY <2>2, <2>3, <2>4 DEF YTyped, Typed
<1>7. CASE YShared /\ UNCHANGED yVars
  BY <1>7, SharedType
<1>8. CASE YEOTAnswered
  <2>1. toSend' \in Seq(Answers) /\ seen' = <<>>
    BY <1>0, <1>8, AnswersLeft DEF YEOTAnswered, SeqFound, SeqMissing
  <2>2. toRecv' \in Seq(Parcels)
    <3>1. Append(toRecv, Header("empty")) \in Seq(Parcels)
      BY <1>0, HeaderType, AppendProperties
    <3>. QED  BY <1>0, <1>8, <3>1 DEF YEOTAnswered
  <2>. QED  BY <1>0, <1>8, <2>1, <2>2 DEF YEOTAnswered, YTyped, Typed
<1>9. CASE YTailAnswered
  <2>1. toSend' \in Seq(Answers) /\ seen' = <<>>
    BY <1>0, <1>9, AnswersLeft DEF YTailAnswered, SeqFound, SeqMissing
  <2>. QED  BY <1>0, <1>9, <2>1 DEF YTailAnswered, YTyped, Typed
<1>10. CASE YTransferEnd
  <2>1. toSend' \in Seq(Answers)
    BY <1>0, <1>10, AnswersLeft DEF YTransferEnd, TransferEnd
  <2>2. seen' = <<>>
    BY <1>10 DEF YTransferEnd, YTyped
  <2>. QED  BY <1>0, <1>10, <2>1, <2>2 DEF YTransferEnd, TransferEnd, YTyped, Typed
<1>11. CASE YReceiverStart /\ UNCHANGED yVars
  BY <1>0, <1>11 DEF YReceiverStart, YTyped, Typed
<1>12. CASE YReceiverAsks /\ UNCHANGED yVars
  <2>1. toSend' \in Seq(Answers)
    BY <1>0, <1>12, AppendProperties DEF YReceiverAsks
  <2>. QED  BY <1>0, <1>12, <2>1 DEF YReceiverAsks, YTyped, Typed
<1>13. CASE (YReceiverHeader \/ YReceiverEOT) /\ UNCHANGED yVars
  <2>1. toRecv # <<>> /\ toRecv' = Tail(toRecv)
    BY <1>13 DEF YReceiverHeader, YReceiverEOT, Answers2
  <2>2. toSend' \in Seq(Answers)
    <3>1. /\ <<"NAK">> \in Seq(Answers) /\ <<"ACK", "C">> \in Seq(Answers)
          /\ <<"ACK">> \in Seq(Answers)
      OBVIOUS
    <3>2. PICK a \in Seq(Answers) : toSend' = toSend \o a
      BY <1>13, <3>1 DEF YReceiverHeader, YReceiverEOT, Answers2
    <3>. QED  BY <1>0, <3>2, ConcatProperties
  <2>3. toRecv' \in Seq(Parcels)
    BY <1>0, <2>1, HeadTailProperties
  <2>4. UNCHANGED <<pc, k, cs_type, noise, ntransfers, rmode, rfile, seen>>
    BY <1>13 DEF YReceiverHeader, YReceiverEOT, Answers2
  <2>. QED  BY <2>2, <2>3, <2>4 DEF YTyped, Typed
<1>14. CASE YReceiverFrame /\ UNCHANGED yVars
  <2>1. /\ toRecv # <<>> /\ toRecv' = Tail(toRecv)
        /\ UNCHANGED <<pc, k, cs_type, noise, ntransfers, rmode, seen>>
    BY <1>14 DEF YReceiverFrame, ReceiverFrame, Receives
  <2>2. toRecv' \in Seq(Parcels) /\ Head(toRecv) \in Parcels
    BY <1>0, <2>1, HeadTailProperties
  <2>3. toSend' \in Seq(Answers)
    <3>1. PICK a \in Answers : toSend' = Append(toSend, a)
      <4>1. \E a \in {"ACK", "NAK", "CAN"} : toSend' = Append(toSend, a)
        BY <1>14 DEF YReceiverFrame, ReceiverFrame, Receives
      <4>. QED  BY <4>1
    <3>. QED  BY <1>0, <3>1, AppendProperties
  <2>4. rfile' \in Seq(1 .. NFrames)
    <3>1. Head(toRecv).num \in 1 .. NFrames
      BY <1>14, <2>2, PacketFields DEF YReceiverFrame, ReceiverFrame, IsFrame
    <3>2. rfile' = rfile \/ rfile' = Append(rfile, Head(toRecv).num)
      BY <1>14 DEF YReceiverFrame, ReceiverFrame, Receives
    <3>3. Append(rfile, Head(toRecv).num) \in Seq(1 .. NFrames)
      BY <1>0, <3>1, AppendProperties
    <3>. QED  BY <1>0, <3>2, <3>3
  <2>. QED  BY <2>1, <2>2, <2>3, <2>4 DEF YTyped, Typed
<1>15. CASE YReceiverDrops /\ UNCHANGED yVars
  <2>1. toRecv' \in Seq(Parcels)
    BY <1>0, <1>15, HeadTailProperties DEF YReceiverDrops
  <2>. QED  BY <1>15, <2>1 DEF YReceiverDrops, YTyped, Typed
<1>16. CASE Noise /\ UNCHANGED yVars
  <2>1. noise' \in Nat
    <3>1. noise' = noise + 1
      BY <1>16 DEF Noise
    <3>. QED  BY <1>0, <3>1
  <2>2. toRecv' \in Seq(Parcels) /\ toSend' \in Seq(Answers)
    BY <1>0, <1>16, NoiseTypes
  <2>. QED  BY <1>16, <2>1, <2>2 DEF Noise, YTyped, Typed
<1>17. CASE UNCHANGED <<vars, yVars>>
  BY <1>17 DEF vars, YTyped, Typed
<1>. QED
  BY <1>1, <1>2, <1>3, <1>4, <1>5, <1>6, <1>7, <1>8, <1>9, <1>10, <1>11, <1>12,
     <1>13, <1>14, <1>15, <1>16, <1>17
  DEF YNext, YSender, YReceiver

-----------------------------------------------------------------------------
(* The inductive invariant's part about the header.                        *)
Occurs(c, s) == \E i \in 1 .. Len(s) : s[i] = c

(* The header alone is on the line until ACK answers it, and no frame is   *)
(* sent to a receiver that has not taken it.                               *)
HeaderInv ==
  /\ pc = "yheader" =>
       /\ k = 0
       /\ Len(toRecv) <= 1
       /\ \A i \in 1 .. Len(toRecv) : toRecv[i].kind = "header"
       /\ Occurs("ACK", seen) \/ Occurs("ACK", toSend) =>
            toRecv = <<>> /\ rstate \notin {"off", "sync"}
  /\ (pc \in {"next", "wait"} /\ ~failed) \/ k > 0 => rstate \notin {"off", "sync"}

YTransferInv == FirstTransfer => Restarted \/ (Core /\ HeaderInv)

(* Once the header is answered, it matters no more.                        *)
LEMMA HeaderElsewhere ==
  ASSUME HeaderInv, pc' # "yheader",
         (pc' \in {"next", "wait"} /\ ~failed') \/ k' > 0 =>
            (pc \in {"next", "wait"} /\ ~failed) \/ k > 0,
         rstate' \in {"off", "sync"} => rstate' = rstate
  PROVE  HeaderInv'
BY DEF HeaderInv

(* The pieces expect_seqs takes.                                           *)
LEMMA ChunkEach ==
  ASSUME YTyped, NEW n \in 1 .. Len(toSend), NEW c, Occurs(c, Chunk(n))
  PROVE  Occurs(c, seen) \/ Occurs(c, toSend)
<1>. DEFINE a == SubSeq(toSend, 1, n)
<1>1. n \in 0 .. Len(toSend) /\ seen \in Seq(Answers) /\ toSend \in Seq(Answers)
  BY DEF YTyped, Typed
<1>2. /\ a \in Seq(Answers) /\ Len(a) = n /\ Len(seen) \in Nat
      /\ \A i \in 1 .. n : a[i] = toSend[i]
  BY <1>1, CutAt, LenProperties
<1>. HIDE DEF a
<1>3. /\ Len(seen \o a) = Len(seen) + Len(a)
      /\ \A i \in 1 .. Len(seen) + Len(a) :
           (seen \o a)[i] = IF i <= Len(seen) THEN seen[i] ELSE a[i - Len(seen)]
  <2>1. seen \in Seq(Answers) /\ a \in Seq(Answers)
    BY <1>1, <1>2
  <2>. QED  BY <2>1, ConcatProperties
<1>4. PICK i \in 1 .. Len(seen) + n : (seen \o a)[i] = c
  BY <1>2, <1>3 DEF Occurs, Chunk, a
<1>5. CASE i <= Len(seen)
  <2>1. i \in 1 .. Len(seen) /\ seen[i] = c
    BY <1>2, <1>3, <1>4, <1>5
  <2>. QED  BY <2>1 DEF Occurs
<1>6. CASE i > Len(seen)
  <2>1. i - Len(seen) \in 1 .. n
    BY <1>2, <1>6
  <2>2. a[i - Len(seen)] = c
    BY <1>2, <1>3, <1>4, <1>6
  <2>3. toSend[i - Len(seen)] = c /\ i - Len(seen) \in 1 .. Len(toSend)
    <3>1. n <= Len(toSend) /\ Len(toSend) \in Nat
      BY <1>1, LenProperties
    <3>. QED  BY <1>2, <2>1, <2>2, <3>1
  <2>. QED  BY <2>3 DEF Occurs
<1>. QED  BY <1>2, <1>5, <1>6

(* What expect_seqs leaves was there before.                               *)
LEMMA RestEach ==
  ASSUME YTyped, NEW n, ReadsChunk(n), NEW c, Occurs(c, toSend')
  PROVE  Occurs(c, toSend)
<1>1. /\ n \in 0 .. Len(toSend) /\ toSend \in Seq(Answers)
      /\ toSend' = SubSeq(toSend, n + 1, Len(toSend))
  BY DEF ReadsChunk, YTyped, Typed
<1>2. /\ Len(SubSeq(toSend, n + 1, Len(toSend))) = Len(toSend) - n
      /\ Len(toSend) \in Nat
  BY <1>1, CutAt, LenProperties
<1>3. \A i \in 1 .. Len(toSend) - n :
         SubSeq(toSend, n + 1, Len(toSend))[i] = toSend[i + n]
  BY <1>1, <1>2
<1>4. PICK i \in 1 .. Len(toSend) - n : toSend'[i] = c
  BY <1>1, <1>2 DEF Occurs
<1>5. i + n \in 1 .. Len(toSend) /\ toSend[i + n] = c
  BY <1>1, <1>2, <1>3, <1>4
<1>. QED  BY <1>5 DEF Occurs

-----------------------------------------------------------------------------
(* One action at a time, inside the first transfer.                        *)
LEMMA YBeginSteps ==
  ASSUME YTyped, Core, HeaderInv, ntransfers' <= 1, YTransferBegin
  PROVE  Core' /\ HeaderInv'
<1>1. Core'
  BY BeginStep DEF YTransferBegin, Begins, YTyped
<1>2. HeaderInv'
  BY DEF YTransferBegin, HeaderInv
<1>. QED  BY <1>1, <1>2

(* The header goes on an empty line, and nothing but sync characters came. *)
LEMMA YSyncSteps ==
  ASSUME YTyped, Core, HeaderInv, YSync \/ YSyncSkip
  PROVE  Core' /\ HeaderInv'
<1>0. /\ pc = "ysync" /\ ntransfers # 0 /\ k = 0 /\ toRecv = <<>> /\ seen = <<>>
      /\ rstate \in {"off", "sync"} /\ rmode = "C" /\ toSend \in Seq(Answers)
      /\ \A i \in 1 .. Len(toSend) : toSend[i] = "C"
      /\ Len(<<>>) = 0
  BY EmptySeq DEF YSync, YSyncSkip, Core, BeginInv, Begins, YTyped, Typed
<1>1. CASE YSyncSkip
  <2>1. PICK c \in Answers \ {"C", "CAN"} : toSend # <<>> /\ Head(toSend) = c
    BY <1>1 DEF YSyncSkip, SkipAnswer, Got
  <2>. QED  BY <1>0, <2>1, FirstOf
<1>2. CASE YSync
  <2>1. /\ pc' = "yheader" /\ toRecv' = Append(toRecv, Header("header"))
        /\ UNCHANGED <<k, cs_type, should_stop, ntransfers, noise, rstate, rmode,
                       rfile, seen>>
    BY <1>2 DEF YSync
  <2>2. /\ LineInv' /\ Num(toRecv', k', 1) = Num(toRecv, k, 1)
        /\ Damaged(toRecv') = Damaged(toRecv)
    BY <1>0, <2>1, HeaderType, ControlLine DEF YTyped, Core, Early
  <2>3. BeginInv' /\ SenderInv'
    BY <1>0, <2>1 DEF BeginInv, SenderInv, Begins
  <2>4. ReceiverInv'
    BY <1>0, <2>1, <2>2 DEF Core, ReceiverInv, Expected
  <2>5. HeaderInv'
    <3>1. toRecv \in Seq(Parcels) /\ Header("header") \in Parcels
      BY HeaderType DEF YTyped, Typed
    <3>2. /\ Len(toRecv') = 1
          /\ \A i \in 1 .. Len(toRecv') : toRecv'[i].kind = "header"
      BY <1>0, <2>1, <3>1, HeaderType, AppendAt
    <3>3. \A i \in 1 .. Len(toSend') : toSend'[i] # "ACK"
      <4>1. CASE UNCHANGED toSend
        BY <1>0, <4>1
      <4>2. CASE toSend # <<>> /\ toSend' = Tail(toSend)
        BY <1>0, <4>2, TailEach
      <4>. QED  BY <1>2, <4>1, <4>2 DEF YSync, Got, NoAnswer
    <3>. QED  BY <1>0, <2>1, <3>2, <3>3 DEF HeaderInv, Occurs
  <2>. QED  BY <2>2, <2>3, <2>4, <2>5 DEF Core
<1>. QED  BY <1>1, <1>2

(* The answer to the header.                                               *)
LEMMA YHeaderSteps ==
  ASSUME YTyped, Core, HeaderInv, YHeaderAnswered \/ YHeaderGoesOn
  PROVE  Core' /\ HeaderInv'
<1>0. /\ pc = "yheader" /\ ntransfers # 0 /\ pc \notin Begins /\ pc \in Early
      /\ k = 0 /\ rstate \notin {"complete", "closed"}
      /\ UNCHANGED <<k, cs_type, should_stop, ntransfers, toRecv, noise, rstate,
                     rmode, rfile>>
  BY DEF YHeaderAnswered, YHeaderGoesOn, SeqGoesOn, Core, BeginInv, ReceiverInv,
     HeaderInv, Begins, Early
<1>1. CASE YHeaderAnswered
  <2>1. /\ pc' = "next"
        /\ ~failed' => toRecv = <<>> /\ rstate \notin {"off", "sync"}
    <3>1. CASE SeqFound(<<"ACK", "C">>)
      <4>1. PICK n \in 1 .. Len(toSend) :
                   ReadsChunk(n) /\ Matches(Chunk(n), <<"ACK", "C">>)
        BY <3>1 DEF SeqFound
      <4>2. Occurs("ACK", Chunk(n))
        <5>1. Chunk(n) \in Seq(Answers)
          BY <4>1, ChunkType DEF YTyped, Typed
        <5>2. PICK i \in DOMAIN Chunk(n) : Chunk(n)[i] = "ACK"
          BY <4>1 DEF Matches
        <5>3. DOMAIN Chunk(n) = 1 .. Len(Chunk(n))
          BY <5>1, LenProperties
        <5>. QED  BY <5>2, <5>3 DEF Occurs
      <4>3. Occurs("ACK", seen) \/ Occurs("ACK", toSend)
        BY <4>2, ChunkEach
      <4>. QED  BY <1>0, <1>1, <4>3 DEF HeaderInv, YHeaderAnswered
    <3>2. CASE SeqMissing /\ failed' = TRUE
      BY <1>1, <3>2 DEF YHeaderAnswered
    <3>. QED  BY <1>1, <3>1, <3>2 DEF YHeaderAnswered
  <2>2. LineInv'
    <3>1. ~failed' => 1 .. Len(toRecv') = {}
      BY <1>0, <2>1, EmptySeq
    <3>. QED  BY <1>0, <2>1, <3>1 DEF Core, LineInv
  <2>3. BeginInv' /\ SenderInv'
    BY <1>0, <2>1 DEF BeginInv, SenderInv, Begins, YTyped
  <2>4. ReceiverInv'
    BY <1>0 DEF Core, ReceiverInv, Expected
  <2>5. HeaderInv'
    BY <1>0, <2>1 DEF HeaderInv
  <2>. QED  BY <2>2, <2>3, <2>4, <2>5 DEF Core
<1>2. CASE YHeaderGoesOn
  <2>1. Core'
    <3>1. UNCHANGED <<pc, failed>>
      BY <1>2 DEF YHeaderGoesOn, SeqGoesOn
    <3>. QED  BY <1>0, <3>1, AnswersDoNotMatter
  <2>2. PICK n \in 1 .. Len(toSend) : ReadsChunk(n) /\ seen' = Chunk(n)
    BY <1>2 DEF YHeaderGoesOn, SeqGoesOn
  <2>3. Occurs("ACK", seen') \/ Occurs("ACK", toSend') =>
          Occurs("ACK", seen) \/ Occurs("ACK", toSend)
    BY <2>2, ChunkEach, RestEach
  <2>4. HeaderInv'
    BY <1>0, <1>2, <2>3 DEF HeaderInv, YHeaderGoesOn, SeqGoesOn, Occurs
  <2>. QED  BY <2>1, <2>4
<1>. QED  BY <1>1, <1>2

(* The steps XMODEM has as well.                                           *)
LEMMA YSharedSteps ==
  ASSUME YTyped, Core, HeaderInv, YShared, UNCHANGED yVars
  PROVE  Core' /\ HeaderInv'
<1>1. Core'
  BY NextFrameStep, AckStep, NakStep, SkipStep, EndStep DEF YShared, YTyped
<1>2. CASE NextFrame
  BY <1>1, <1>2, HeaderElsewhere DEF NextFrame
<1>3. CASE FrameAcked \/ FrameNaked \/ FrameFailed \/ FrameSkip
  <2>1. /\ pc = "wait" /\ ~failed /\ pc' \in {"wait", "next"} /\ UNCHANGED rstate
    BY <1>3 DEF Core, SenderInv, FrameAcked, FrameNaked, FrameFailed, FrameSkip,
       SkipAnswer
  <2>. QED  BY <1>1, <2>1, HeaderElsewhere
<1>4. CASE SendEOT \/ Cancelled \/ Finish
  <2>1. pc' \in {"eot", "finish", "done"} /\ UNCHANGED <<k, rstate>>
    BY <1>4 DEF SendEOT, Cancelled, Finish
  <2>. QED  BY <1>1, <2>1, HeaderElsewhere
<1>. QED  BY <1>1, <1>2, <1>3, <1>4 DEF YShared

(* The end of the file, and of the session.                                *)
LEMMA YEndSteps ==
  ASSUME YTyped, Core, HeaderInv,
         YEOTAnswered \/ YEOTGoesOn \/ YTailAnswered \/ YTailGoesOn \/ YTransferEnd
  PROVE  Core' /\ HeaderInv'
<1>0. /\ pc \in {"eot", "ytail", "done"} /\ ntransfers # 0
      /\ pc' \in {"eot", "ytail", "finish", "off"} /\ pc' \notin Early
      /\ UNCHANGED <<k, cs_type, should_stop, ntransfers, noise, rstate, rmode, rfile>>
  BY DEF YEOTAnswered, YEOTGoesOn, YTailAnswered, YTailGoesOn, YTransferEnd,
     TransferEnd, SeqGoesOn, Core, BeginInv, Early
<1>1. HeaderInv'
  BY <1>0, HeaderElsewhere
<1>2. CASE YEOTGoesOn \/ YTailGoesOn
  <2>1. UNCHANGED <<pc, failed, toRecv>> /\ pc \notin Begins
    BY <1>0, <1>2 DEF YEOTGoesOn, YTailGoesOn, SeqGoesOn, Begins
  <2>. QED  BY <1>0, <1>1, <2>1, AnswersDoNotMatter
<1>3. CASE YTransferEnd
  BY <1>1, <1>3, TransferEndStep DEF YTransferEnd, YTyped
<1>4. CASE YEOTAnswered \/ YTailAnswered
  <2>1. SenderInv'
    <3>1. \A tks : SeqFound(tks) => ~should_stop
      BY DEF SeqFound, ReadsChunk
    <3>. QED  BY <1>0, <1>4, <3>1 DEF Core, SenderInv, YEOTAnswered, YTailAnswered
  <2>2. /\ LineInv' /\ Num(toRecv', k', 1) = Num(toRecv, k, 1)
        /\ Damaged(toRecv') = Damaged(toRecv)
    <3>1. CASE UNCHANGED toRecv
      BY <1>0, <3>1, SameLine
    <3>2. CASE toRecv' = Append(toRecv, Header("empty"))
      <4>1. pc' \notin {"next", "wait"}
        BY <1>0
      <4>. QED  BY <1>0, <3>2, <4>1, HeaderType, ControlLine DEF YTyped, Core
    <3>. QED  BY <1>4, <3>1, <3>2 DEF YEOTAnswered, YTailAnswered
  <2>. QED  BY <1>0, <1>1, <2>1, <2>2, LaterStep
<1>. QED  BY <1>2, <1>3, <1>4

(* A receiver that starts finds a line on which nothing was sent.          *)
LEMMA YReceiverStartSteps ==
  ASSUME YTyped, Core, ntransfers <= 1, YReceiverStart
  PROVE  Restarted' \/ (Core' /\ HeaderInv')
<1>1. Restarted' \/ Core'
  BY ReceiverStartStep DEF YReceiverStart, Begins, YTyped
<1>2. CASE pc = "off" /\ ntransfers = 1
  BY <1>2 DEF YReceiverStart, Restarted
<1>3. CASE pc = "ysync" \/ ntransfers = 0
  <2>1. k = 0 /\ pc \in {"off", "ysync"} /\ UNCHANGED <<pc, k>>
    BY <1>3 DEF Core, BeginInv, Begins, YReceiverStart
  <2>. QED  BY <1>1, <2>1 DEF HeaderInv
<1>4. ntransfers = 0 \/ ntransfers = 1
  <2>1. ntransfers \in Nat
    BY CoreTypes DEF YTyped
  <2>. QED  BY <2>1
<1>5. pc = "off" \/ pc = "ysync"
  BY DEF YReceiverStart
<1>. QED  BY <1>2, <1>3, <1>4, <1>5

LEMMA YReceiverAsksSteps ==
  ASSUME YTyped, Core, HeaderInv, YReceiverAsks, UNCHANGED yVars
  PROVE  Core' /\ HeaderInv'
<1>0. /\ toSend' = Append(toSend, "C") /\ rmode = "C" /\ rstate # "off"
      /\ UNCHANGED <<pc, k, cs_type, failed, should_stop, ntransfers, toRecv,
                     noise, rstate, rmode, rfile, seen>>
  BY DEF YReceiverAsks, YTyped
<1>1. Core'
  BY <1>0, ReceiverSyncStep DEF YTyped
<1>2. Occurs("ACK", toSend') => Occurs("ACK", toSend)
  <2>1. toSend \in Seq(Answers) /\ "C" \in Answers
    BY DEF YTyped, Typed
  <2>2. \A i \in 1 .. Len(toSend') :
          \/ i \in 1 .. Len(toSend) /\ toSend'[i] = toSend[i]
          \/ toSend'[i] = "C"
    BY <1>0, <2>1, AppendEach
  <2>. QED  BY <2>2 DEF Occurs
<1>3. HeaderInv'
  BY <1>0, <1>2 DEF HeaderInv, Occurs
<1>. QED  BY <1>1, <1>3

(* A head of the line that is no frame: nothing moves.                     *)
LEMMA NoFrameTaken ==
  ASSUME Typed, Core, toRecv # <<>>, ~IsFrame(Head(toRecv)),
         toRecv' = Tail(toRecv),
         rstate' \in {"sync", "receiving"} => rstate \in {"sync", "receiving"},
         rstate' \in {"complete", "closed"} => rstate \in {"complete", "closed"},
         UNCHANGED <<pc, k, cs_type, failed, should_stop, ntransfers, noise, rmode,
                     rfile>>
  PROVE  Core'
<1>0. /\ k \in Nat /\ noise \in Nat /\ Len(rfile) \in Nat
      /\ Cardinality(Damaged(toRecv)) \in Nat
      /\ Expected = Len(rfile) + 1
  BY CoreTypes
<1>1. /\ BeginInv' /\ LineInv' /\ SenderInv'
      /\ Num(toRecv, k, 1) = k + 1
      /\ Num(toRecv', k, 1) \in {k + 1, (k + 1) + 1}
      /\ Cardinality(Damaged(toRecv')) \in Nat
      /\ Cardinality(Damaged(toRecv')) <= Cardinality(Damaged(toRecv))
  BY HeadTaken
<1>2. Num(toRecv', k, 1) <= k + 1
  <2>1. Steady(toRecv', k)
    BY <1>1 DEF LineInv
  <2>2. CASE 1 \in 1 .. Len(toRecv') /\ IsFrame(toRecv'[1])
    <3>1. toRecv'[1].num \in 1 .. k
      BY <2>1, <2>2 DEF Steady
    <3>. QED  BY <1>0, <2>2, <3>1 DEF Num
  <2>3. CASE ~(1 \in 1 .. Len(toRecv') /\ IsFrame(toRecv'[1]))
    BY <1>0, <2>3 DEF Num
  <2>. QED  BY <2>2, <2>3
<1>3. Num(toRecv', k', 1) = k + 1 /\ Expected' = Len(rfile) + 1
  BY <1>0, <1>1, <1>2 DEF Expected
<1>4. ReceiverInv'
  <2>1. ASSUME rstate' \in {"sync", "receiving"}
        PROVE  /\ Num(toRecv', k', 1) >= Len(rfile')
               /\ Num(toRecv', k', 1) - Expected' + Cardinality(Damaged(toRecv'))
                    <= noise'
    <3>1. /\ k + 1 >= Len(rfile)
          /\ (k + 1) - (Len(rfile) + 1) + Cardinality(Damaged(toRecv)) <= noise
      BY <1>0, <1>1, <2>1 DEF Core, ReceiverInv
    <3>. DEFINE C == Cardinality(Damaged(toRecv))
                D == Cardinality(Damaged(toRecv'))
                L == Len(rfile)
    <3>2. /\ C \in Nat /\ D \in Nat /\ D <= C /\ L \in Nat
          /\ (k + 1) - (L + 1) + C <= noise
      BY <1>0, <1>1, <3>1
    <3>. HIDE DEF C, D, L
    <3>3. (k + 1) - (L + 1) + D <= noise
      BY <1>0, <3>2
    <3>. QED  BY <1>3, <3>1, <3>3 DEF D, L
  <2>. QED  BY <2>1 DEF Core, ReceiverInv
<1>. QED  BY <1>1, <1>4 DEF Core

(* Taking the header or any other head keeps the header's part.            *)
LEMMA HeaderTaken ==
  ASSUME YTyped, HeaderInv, toRecv # <<>>, toRecv' = Tail(toRecv),
         UNCHANGED <<pc, k, failed, seen>>,
         rstate' \in {"off", "sync"} => rstate' = rstate,
         \/ UNCHANGED toSend
         \/ toSend' = Append(toSend, "NAK")
         \/ rstate' \notin {"off", "sync"}
  PROVE  HeaderInv'
<1>1. /\ toRecv \in Seq(Parcels) /\ toSend \in Seq(Answers) /\ Len(toRecv) \in Nat
      /\ Len(toRecv') = Len(toRecv) - 1
      /\ \A i \in 1 .. Len(toRecv') :
           i + 1 \in 1 .. Len(toRecv) /\ toRecv'[i] = toRecv[i + 1]
  BY TailEach, HeadTailProperties, LenProperties DEF YTyped, Typed
<1>2. CASE pc = "yheader"
  <2>1. toRecv' = <<>>
    <3>1. Len(toRecv) <= 1 /\ toRecv' \in Seq(Parcels)
      BY <1>1, <1>2, HeadTailProperties DEF HeaderInv
    <3>2. Len(toRecv') = 0
      <4>1. Len(toRecv') \in Nat
        BY <3>1, LenProperties
      <4>. QED  BY <1>1, <3>1, <4>1
    <3>. QED  BY <3>1, <3>2, EmptySeq
  <2>2. rstate' \in {"off", "sync"} => ~Occurs("ACK", seen') /\ ~Occurs("ACK", toSend')
    <3>. SUFFICES ASSUME rstate' \in {"off", "sync"}
                  PROVE  ~Occurs("ACK", seen') /\ ~Occurs("ACK", toSend')
      OBVIOUS
    <3>1. ~Occurs("ACK", seen) /\ ~Occurs("ACK", toSend)
      BY <1>2 DEF HeaderInv
    <3>2. CASE UNCHANGED toSend
      BY <3>1, <3>2 DEF Occurs
    <3>3. CASE toSend' = Append(toSend, "NAK")
      <4>1. "NAK" \in Answers
        OBVIOUS
      <4>2. \A i \in 1 .. Len(toSend') :
              \/ i \in 1 .. Len(toSend) /\ toSend'[i] = toSend[i]
              \/ toSend'[i] = "NAK"
        BY <1>1, <3>3, <4>1, AppendEach
      <4>. QED  BY <3>1, <4>2 DEF Occurs
    <3>. QED  BY <3>2, <3>3
  <2>3. 1 .. Len(toRecv') = {} /\ Len(toRecv') <= 1
    BY <2>1, EmptyLine, Zenon
  <2>4. k' = 0 /\ pc' = "yheader" /\ ~(k' > 0)
    BY <1>2 DEF HeaderInv
  <2>. QED  BY <2>1, <2>2, <2>3, <2>4 DEF HeaderInv
<1>3. CASE pc # "yheader"
  BY <1>3 DEF HeaderInv
<1>. QED  BY <1>2, <1>3

(* The receiver takes a header, a frame or the end.                        *)
LEMMA YReceiverSteps ==
  ASSUME YTyped, Core, HeaderInv, noise < IdxMod - 1, UNCHANGED yVars,
         YReceiverHeader \/ YReceiverFrame \/ YReceiverEOT \/ YReceiverDrops
  PROVE  Core' /\ HeaderInv'
<1>0. Typed /\ toSend \in Seq(Answers)
  BY DEF YTyped, Typed
<1>1. CASE YReceiverHeader
  <2>1. /\ toRecv # <<>> /\ toRecv' = Tail(toRecv)
        /\ Head(toRecv).kind \in {"header", "empty"}
        /\ UNCHANGED <<pc, k, cs_type, failed, should_stop, ntransfers, noise,
                       rmode, rfile, seen>>
        /\ rstate' \in {"sync", "receiving"} => rstate \in {"sync", "receiving"}
        /\ rstate' \in {"complete", "closed"} => rstate \in {"complete", "closed"}
        /\ rstate' \in {"off", "sync"} => rstate' = rstate
    BY <1>1 DEF YReceiverHeader, Answers2
  <2>2. toSend' = toSend \o <<"NAK">> \/ rstate' \notin {"off", "sync"}
    BY <1>1 DEF YReceiverHeader, Answers2
  <2>3. toSend \o <<"NAK">> = Append(toSend, "NAK")
    BY <1>0, AppendIsConcat
  <2>4. ~IsFrame(Head(toRecv))
    BY <2>1 DEF IsFrame
  <2>5. Core'
    BY <1>0, <2>1, <2>4, NoFrameTaken
  <2>6. HeaderInv'
    BY <2>1, <2>2, <2>3, HeaderTaken
  <2>. QED  BY <2>5, <2>6
<1>2. CASE YReceiverFrame
  <2>1. Core'
    BY <1>0, <1>2, ReceiverFrameStep DEF YReceiverFrame
  <2>2. HeaderInv'
    <3>1. /\ toRecv # <<>> /\ toRecv' = Tail(toRecv)
          /\ UNCHANGED <<pc, k, failed, seen>>
          /\ rstate' \notin {"off", "sync"}
      BY <1>2 DEF YReceiverFrame, ReceiverFrame, Receives
    <3>. QED  BY <3>1, HeaderTaken
  <2>. QED  BY <2>1, <2>2
<1>3. CASE YReceiverEOT
  <2>1. /\ rstate = "receiving" /\ rstate' = "complete"
        /\ toRecv # <<>> /\ toRecv' = Tail(toRecv) /\ Head(toRecv).kind = "EOT"
        /\ UNCHANGED <<pc, k, cs_type, failed, should_stop, ntransfers, noise,
                       rmode, rfile, seen>>
    BY <1>3 DEF YReceiverEOT, Answers2
  <2>2. Core'
    BY <1>0, <2>1, ReceiverEOTStep
  <2>3. HeaderInv'
    BY <2>1, HeaderTaken
  <2>. QED  BY <2>2, <2>3
<1>4. CASE YReceiverDrops
  <2>1. /\ toRecv # <<>> /\ toRecv' = Tail(toRecv)
        /\ UNCHANGED <<pc, k, cs_type, failed, should_stop, ntransfers, noise,
                       toSend, rmode, rfile, seen>>
        /\ rstate' = rstate \/ rstate' = "aborted"
    BY <1>4 DEF YReceiverDrops
  <2>2. HeaderInv'
    BY <2>1, HeaderTaken
  <2>3. CASE rstate' \notin {"sync", "receiving"}
    BY <1>0, <2>1, <2>2, <2>3, ReceiverDropsStep
  <2>4. CASE rstate' \in {"sync", "receiving"}
    <3>1. rstate = "sync" /\ rstate' = "sync" /\ Head(toRecv).kind \in {"frame", "EOT"}
      BY <1>4, <2>1, <2>4 DEF YReceiverDrops
    <3>2. k = 0
      <4>1. k \in Nat
        BY <1>0, CoreTypes
      <4>. QED  BY <3>1, <4>1 DEF HeaderInv
    <3>3. ~IsFrame(Head(toRecv))
      <4>1. IsFrame(toRecv[1]) => toRecv[1].num \in 1 .. 0
        <5>1. 1 \in 1 .. Len(toRecv)
          BY <1>0, <2>1, FirstOf DEF Typed
        <5>. QED  BY <3>2, <5>1 DEF Core, LineInv, Steady
      <4>2. Head(toRecv) = toRecv[1]
        BY <1>0, <2>1, FirstOf DEF Typed
      <4>. QED  BY <4>1, <4>2
    <3>. QED  BY <1>0, <2>1, <2>2, <3>1, <3>3, NoFrameTaken
  <2>. QED  BY <2>2, <2>3, <2>4
<1>. QED  BY <1>1, <1>2, <1>3, <1>4

(* The user, the line, and nothing.                                        *)
LEMMA YOtherSteps ==
  ASSUME YTyped, Core, HeaderInv, UNCHANGED yVars,
         UserCancel \/ Noise \/ UNCHANGED vars
  PROVE  Core' /\ HeaderInv'
<1>1. CASE UserCancel
  BY <1>1, CancelStep DEF UserCancel, HeaderInv, Occurs
<1>2. CASE UNCHANGED vars
  BY <1>2, StutterStep DEF vars, HeaderInv, Occurs
<1>3. CASE Noise
  <2>1. Core'
    BY <1>3, NoiseStep DEF YTyped
  <2>2. UNCHANGED <<pc, k, failed, rstate, seen>>
    BY <1>3 DEF Noise
  <2>3. toRecv \in Seq(Parcels) /\ toSend \in Seq(Answers)
    BY DEF YTyped, Typed
  <2>4. /\ Occurs("ACK", toSend') => Occurs("ACK", toSend)
        /\ toRecv = <<>> => toRecv' = <<>>
        /\ Len(toRecv') = Len(toRecv)
        /\ \A i \in 1 .. Len(toRecv) : toRecv'[i].kind = toRecv[i].kind
    <3>1. CASE \E i \in 1 .. Len(toRecv) :
                 /\ toRecv[i].kind \in Checked
                 /\ toRecv' = [toRecv EXCEPT ![i].ok = FALSE]
                 /\ UNCHANGED toSend
      <4>1. PICK i \in 1 .. Len(toRecv) :
                   /\ toRecv[i].kind \in Checked
                   /\ toRecv' = [toRecv EXCEPT ![i].ok = FALSE]
                   /\ UNCHANGED toSend
        BY <3>1
      <4>. DEFINE d == [toRecv EXCEPT ![i].ok = FALSE]
      <4>2. /\ d \in Seq(Parcels) /\ Len(d) = Len(toRecv)
            /\ \A j \in 1 .. Len(toRecv) :
                 /\ j # i => d[j] = toRecv[j]
                 /\ d[j].kind = toRecv[j].kind /\ d[j].num = toRecv[j].num
                 /\ d[j].cs = toRecv[j].cs
        BY <2>3, <4>1, DamageType, Zenon
      <4>3. toRecv' = d
        BY <4>1
      <4>. HIDE DEF d
      <4>4. toRecv # <<>>
        BY <4>1, EmptySeq
      <4>. QED  BY <4>1, <4>2, <4>3, <4>4 DEF Occurs
    <3>2. CASE /\ \E i \in 1 .. Len(toSend) :
                    toSend' = SubSeq(toSend, 1, i - 1)
                                \o SubSeq(toSend, i + 1, Len(toSend))
               /\ UNCHANGED toRecv
      <4>1. PICK i \in 1 .. Len(toSend) :
                   toSend' = SubSeq(toSend, 1, i - 1)
                               \o SubSeq(toSend, i + 1, Len(toSend))
        BY <3>2
      <4>. DEFINE q == SubSeq(toSend, 1, i - 1) \o SubSeq(toSend, i + 1, Len(toSend))
      <4>2. \A j \in 1 .. Len(q) : \E m \in 1 .. Len(toSend) : q[j] = toSend[m]
        BY <2>3, RemoveEach, ZenonT(40)
      <4>3. toSend' = q
        BY <4>1
      <4>. HIDE DEF q
      <4>. QED  BY <3>2, <4>2, <4>3 DEF Occurs
    <3>. QED  BY <1>3, <3>1, <3>2 DEF Noise
  <2>5. HeaderInv'
    BY <2>2, <2>4 DEF HeaderInv, Occurs
  <2>. QED  BY <2>1, <2>5
<1>. QED  BY <1>1, <1>2, <1>3

(* A receiver that was started anew waits.                                 *)
LEMMA YRestartedStep ==
  ASSUME YTyped, Restarted, ntransfers' <= 1, [YNext]_<<vars, yVars>>
  PROVE  Restarted'
<1>0. /\ pc = "off" /\ ntransfers = 1 /\ rstate = "sync" /\ toRecv = <<>>
      /\ Len(<<>>) = 0
  BY EmptySeq DEF Restarted
<1>1. ~YTransferBegin /\ ~YSender /\ ~YTransferEnd /\ ~UserCancel
  BY <1>0 DEF YTransferBegin, YSender, YSync, YSyncSkip, YHeaderAnswered,
     YHeaderGoesOn, YShared, NextFrame, FrameAcked, FrameNaked, FrameFailed,
     FrameSkip, SendEOT, Cancelled, Finish, YEOTAnswered, YEOTGoesOn,
     YTailAnswered, YTailGoesOn, YTransferEnd, UserCancel
<1>2. ~YReceiverStart /\ ~YReceiverHeader /\ ~YReceiverFrame /\ ~YReceiverEOT
        /\ ~YReceiverDrops
  BY <1>0 DEF YReceiverStart, YReceiverHeader, YReceiverFrame, YReceiverEOT,
     YReceiverDrops
<1>3. CASE YReceiverAsks \/ UNCHANGED <<vars, yVars>>
  BY <1>3 DEF YReceiverAsks, vars, Restarted
<1>4. CASE Noise
  <2>1. UNCHANGED toRecv
    BY <1>0, <1>4 DEF Noise
  <2>. QED  BY <1>4, <2>1 DEF Noise, Restarted
<1>. QED  BY <1>1, <1>2, <1>3, <1>4 DEF YNext, YReceiver

(* The number of transfers and the damage only grow.                       *)
LEMMA YFirstTransferKept ==
  ASSUME YTyped, [YNext]_<<vars, yVars>>
  PROVE  ntransfers \in Nat /\ noise \in Nat /\ ntransfers' >= ntransfers /\ noise' >= noise
<1>0. ntransfers \in Nat /\ noise \in Nat
  BY DEF YTyped, Typed
<1>1. CASE YTransferBegin
  BY <1>0, <1>1 DEF YTransferBegin
<1>2. CASE Noise
  BY <1>0, <1>2 DEF Noise
<1>3. CASE YSender
  <2>1. UNCHANGED <<ntransfers, noise>>
    BY <1>3 DEF YSender, YSync, YSyncSkip, YHeaderAnswered, YHeaderGoesOn, YShared,
       NextFrame, FrameAcked, FrameNaked, FrameFailed, FrameSkip, SendEOT,
       Cancelled, Finish, YEOTAnswered, YEOTGoesOn, YTailAnswered, YTailGoesOn,
       SkipAnswer, SeqGoesOn
  <2>. QED  BY <1>0, <2>1
<1>4. CASE UserCancel \/ YTransferEnd \/ YReceiverStart \/ YReceiver
             \/ UNCHANGED <<vars, yVars>>
  <2>1. UNCHANGED <<ntransfers, noise>>
    BY <1>4 DEF UserCancel, YTransferEnd, TransferEnd, YReceiverStart, YReceiver,
       YReceiverAsks, YReceiverHeader, Answers2, YReceiverFrame, ReceiverFrame,
       Receives, YReceiverEOT, YReceiverDrops, vars
  <2>. QED  BY <1>0, <2>1
<1>. QED  BY <1>1, <1>2, <1>3, <1>4 DEF YNext

(* The inductive step.                                                     *)
LEMMA YTransferStep == YTyped /\ YTransferInv /\ [YNext]_<<vars, yVars>> => YTransferInv'
<1>. SUFFICES ASSUME YTyped, YTransferInv, [YNext]_<<vars, yVars>>,
                     ntransfers' <= 1, noise' < IdxMod - 1
              PROVE  Restarted' \/ (Core' /\ HeaderInv')
  BY DEF YTransferInv, FirstTransfer
<1>1. /\ ntransfers \in Nat /\ noise \in Nat
      /\ ntransfers' >= ntransfers /\ noise' >= noise
  BY YFirstTransferKept
<1>2. ntransfers' \in Int /\ noise' \in Int
  <2>1. YTyped'
    BY YTypedStep
  <2>. QED  BY <2>1 DEF YTyped, Typed
<1>3. ntransfers <= 1 /\ noise < IdxMod - 1
  BY <1>1, <1>2
<1>4. CASE Restarted
  BY <1>4, YRestartedStep
<1>5. CASE Core /\ HeaderInv
  <2>1. CASE YTransferBegin
    BY <1>5, <2>1, YBeginSteps
  <2>2. CASE YSender
    BY <1>5, <2>2, YSyncSteps, YHeaderSteps, YSharedSteps, YEndSteps DEF YSender
  <2>3. CASE YTransferEnd
    BY <1>5, <2>3, YEndSteps
  <2>4. CASE YReceiver
    BY <1>3, <1>5, <2>4, YReceiverAsksSteps, YReceiverSteps DEF YReceiver
  <2>5. CASE YReceiverStart
    BY <1>3, <1>5, <2>5, YReceiverStartSteps
  <2>6. CASE (UserCancel \/ Noise \/ UNCHANGED vars) /\ UNCHANGED yVars
    BY <1>5, <2>6, YOtherSteps
  <2>. QED  BY <2>1, <2>2, <2>3, <2>4, <2>5, <2>6 DEF YNext
<1>6. Restarted \/ (Core /\ HeaderInv)
  BY <1>3 DEF YTransferInv, FirstTransfer
<1>. QED  BY <1>4, <1>5, <1>6

-----------------------------------------------------------------------------
(* What the invariant of a Kermit transfer says of the file.               *)
LEMMA KStores ==
  ASSUME KTyped, Restarted \/ KCore
  PROVE  IsPrefix(rfile, FullFile)
<1>1. rfile \in Seq(1 .. NFrames) /\ k \in Nat /\ k <= NFrames /\ Len(rfile) \in Nat
  BY KTypes DEF KTyped
<1>2. CASE Restarted
  <2>1. Len(rfile) = 0
    BY <1>2, EmptySeq DEF Restarted
  <2>. QED  BY <1>1, <2>1, FilePrefix
<1>3. CASE KCore
  <2>1. Len(rfile) <= k /\ \A i \in 1 .. Len(rfile) : rfile[i] = i
    BY <1>3 DEF KCore, KReceiverInv
  <2>2. Len(rfile) <= NFrames
    BY <1>1, <2>1
  <2>. QED  BY <1>1, <2>1, <2>2, FilePrefix
<1>. QED  BY <1>2, <1>3

(* A complete file.                                                        *)
LEMMA KCompletes ==
  ASSUME KTyped, Restarted \/ KCore,
         rstate \in {"complete", "closed"}, ~should_stop
  PROVE  rfile = FullFile
<1>1. KCore
  BY DEF Restarted
<1>2. /\ rfile \in Seq(1 .. NFrames) /\ Len(rfile) = NFrames
      /\ \A i \in 1 .. Len(rfile) : rfile[i] = i
  BY <1>1 DEF KCore, KReceiverInv, KTyped
<1>. QED  BY <1>2, FileWhole

(* A transfer that did not fail.                                           *)
LEMMA KDelivers ==
  ASSUME KTyped, Restarted \/ KCore, noise = 0, pc = "done", ~failed,
         rstate \in {"receiving", "complete", "closed"}
  PROVE  1 .. NFrames \subseteq Stored \cup InFlight
<1>1. KCore
  BY DEF Restarted
<1>2. /\ k = NFrames /\ Len(rfile) \in Nat /\ Expected = Len(rfile) + 1
      /\ Num(toRecv, k, 1) \in Nat /\ Steady(toRecv, k)
      /\ \A i \in 1 .. Len(rfile) : rfile[i] = i
  BY <1>1, KTypes DEF KCore, KSenderInv, KReceiverInv, KLineInv
<1>3. Len(rfile) < NFrames => Num(toRecv, k, 1) <= Len(rfile) + 1
  BY <1>1, <1>2 DEF KCore, KReceiverInv
<1>. QED  BY <1>2, <1>3, RestOnLine

-----------------------------------------------------------------------------
(* Each protocol keeps its own invariant; which one is chosen before.      *)
FTInv ==
  /\ proto \in {"XMODEM", "YMODEM", "KERMIT"}
  /\ proto = "XMODEM" => TypeInv /\ TransferInv
  /\ proto = "YMODEM" => YTyped /\ YTransferInv
  /\ proto = "KERMIT" => KTyped /\ KTransferInv

(* Nothing was sent at the beginning.                                      *)
LEMMA FTInitInv == FTInit => FTInv
<1>. SUFFICES ASSUME FTInit  PROVE FTInv
  OBVIOUS
<1>0. /\ pc = "off" /\ k = 0 /\ cs_type = "C" /\ ntransfers = 0 /\ noise = 0
      /\ failed = FALSE /\ toRecv = <<>> /\ toSend = <<>> /\ rstate = "off"
      /\ rmode = "C" /\ nsync = 0 /\ rfile = <<>> /\ seen = <<>>
      /\ NFrames \in Nat /\ MaxSync \in Nat
  BY DEF FTInit, Init, YInit
<1>1. TypeInv /\ TransferInv
  BY TypeInit, TransferInit DEF FTInit
<1>2. YTyped
  BY <1>0, <1>1, TypedHere DEF YTyped
<1>3. HeaderInv
  BY <1>0 DEF HeaderInv
<1>4. YTransferInv
  BY <1>1, <1>3 DEF TransferInv, YTransferInv
<1>5. KTyped
  BY <1>0 DEF KTyped
<1>6. KCore
  <2>1. Len(<<>>) = 0 /\ 1 .. Len(<<>>) = {}
    BY EmptySeq, EmptyLine
  <2>2. Places(toSend, {"Y"}) = {}
    BY <1>0, <2>1 DEF Places
  <2>3. Steady(toRecv, k) /\ Num(toRecv, k, 1) = 1
    BY <1>0, EmptySteady
  <2>4. KBeginInv /\ KSenderInv
    BY <1>0, <2>1, <2>2 DEF KBeginInv, KSenderInv
  <2>5. KLineInv
    BY <1>0, <2>1, <2>3 DEF KLineInv
  <2>6. KCountInv
    <3>1. ~KActive
      BY <1>0 DEF KActive, KEarly
    <3>. QED  BY <1>0, <2>1, <3>1 DEF KCountInv
  <2>7. KReceiverInv
    BY <1>0, <2>1 DEF KReceiverInv
  <2>. QED  BY <2>4, <2>5, <2>6, <2>7 DEF KCore
<1>7. KTransferInv
  BY <1>6 DEF KTransferInv
<1>. QED  BY <1>1, <1>2, <1>4, <1>5, <1>7 DEF FTInv, FTInit

(* A step of the job, the receiver or the line is one of the protocol in use.*)
LEMMA FTStep == FTInv /\ [FTNext]_transferVars => FTInv'
<1>. SUFFICES ASSUME FTInv, [FTNext]_transferVars  PROVE FTInv'
  OBVIOUS
<1>1. /\ proto' = proto
      /\ proto = "XMODEM" => [Next]_vars
      /\ proto = "YMODEM" => [YNext]_<<vars, yVars>>
      /\ proto = "KERMIT" => [KNext]_<<vars, kVars>>
  <2>1. CASE UNCHANGED transferVars
    BY <2>1 DEF transferVars
  <2>2. CASE X(Next)
    BY <2>2 DEF X
  <2>3. CASE Y(YNext)
    BY <2>3 DEF Y
  <2>4. CASE K(KNext)
    BY <2>4 DEF K
  <2>. QED  BY <2>1, <2>2, <2>3, <2>4 DEF FTNext
<1>2. CASE proto = "XMODEM"
  BY <1>1, <1>2, TypeStep, TransferStep DEF FTInv
<1>3. CASE proto = "YMODEM"
  BY <1>1, <1>3, YTypedStep, YTransferStep DEF FTInv
<1>4. CASE proto = "KERMIT"
  BY <1>1, <1>4, KTypedStep, KTransferStep DEF FTInv
<1>. QED  BY <1>2, <1>3, <1>4 DEF FTInv

(* The invariant holds.                                                    *)
LEMMA FTSafe == FTSpec => []FTInv
BY FTInitInv, FTStep, PTL DEF FTSpec

(* The damage beyond which a receiver may take a frame for another one of  *)
(* the same index.  XMODEM and YMODEM: IdxMod - 1 damaged frames and       *)
(* answers, 255 in the code.  Kermit: any, unless the receiver asks again  *)
(* fewer than IdxMod - 1 times, 63 in the code.                            *)
IndexHolds == IF proto = "KERMIT" THEN noise = 0 \/ MaxSync < IdxMod - 1
                                  ELSE noise < IdxMod - 1

(* Whichever of the protocols sends it, what the receiver stored is the    *)
(* beginning of the file as long as an index tells the frames on the line  *)
(* apart (ProtoXmodem.cpp 94-226, ProtoYmodem.cpp 138-246, ProtoKermit.cpp  *)
(* 258-391).                                                               *)
THEOREM TransferStored == FTSpec => [](IndexHolds => StoredIsPrefix)
<1>1. FTInv => (IndexHolds => StoredIsPrefix)
  <2>. SUFFICES ASSUME FTInv, IndexHolds, ntransfers = 1
                PROVE  IsPrefix(rfile, FullFile)
    BY DEF StoredIsPrefix
  <2>1. CASE proto = "XMODEM"
    BY <2>1, TypedHere, CoreStores DEF FTInv, TransferInv, FirstTransfer, IndexHolds
  <2>2. CASE proto = "YMODEM"
    BY <2>2, CoreStores DEF FTInv, YTyped, YTransferInv, FirstTransfer, IndexHolds
  <2>3. CASE proto = "KERMIT"
    BY <2>3, KStores DEF FTInv, KTransferInv, KFirstTransfer, IndexHolds
  <2>. QED  BY <2>1, <2>2, <2>3 DEF FTInv
<1>. QED  BY <1>1, FTSafe, PTL

(* On a line without damage a receiver that took the file for complete has *)
(* all of it, unless the user cancelled, with each of the protocols.       *)
THEOREM TransferComplete == FTSpec => []CompleteIsWhole
<1>1. FTInv => CompleteIsWhole
  <2>. SUFFICES ASSUME FTInv, noise = 0, ntransfers = 1,
                       rstate \in {"complete", "closed"}, ~should_stop
                PROVE  rfile = FullFile
    BY DEF CompleteIsWhole
  <2>1. CASE proto = "XMODEM"
    BY <2>1, TypedHere, CoreCompletes DEF FTInv, TransferInv, FirstTransfer
  <2>2. CASE proto = "YMODEM"
    BY <2>2, CoreCompletes DEF FTInv, YTyped, YTransferInv, FirstTransfer
  <2>3. CASE proto = "KERMIT"
    BY <2>3, KCompletes DEF FTInv, KTransferInv, KFirstTransfer
  <2>. QED  BY <2>1, <2>2, <2>3 DEF FTInv
<1>. QED  BY <1>1, FTSafe, PTL

(* On a line without damage a transfer that did not fail has delivered     *)
(* every frame or has it on the way, with each of the protocols.           *)
THEOREM TransferDelivered == FTSpec => []SuccessIsDelivered
<1>1. FTInv => SuccessIsDelivered
  <2>. SUFFICES ASSUME FTInv, noise = 0, ntransfers = 1, pc = "done", ~failed,
                       rstate \in {"receiving", "complete", "closed"}
                PROVE  1 .. NFrames \subseteq Stored \cup InFlight
    BY DEF SuccessIsDelivered
  <2>1. CASE proto = "XMODEM"
    BY <2>1, TypedHere, CoreDelivers DEF FTInv, TransferInv, FirstTransfer
  <2>2. CASE proto = "YMODEM"
    BY <2>2, CoreDelivers DEF FTInv, YTyped, YTransferInv, FirstTransfer
  <2>3. CASE proto = "KERMIT"
    BY <2>3, KDelivers DEF FTInv, KTransferInv, KFirstTransfer
  <2>. QED  BY <2>1, <2>2, <2>3 DEF FTInv
<1>. QED  BY <1>1, FTSafe, PTL
=============================================================================
