---------------------------- MODULE XModem_proofs ----------------------------
(***************************************************************************)
(* Theorems about XModem: one transfer, over a line that damages less than *)
(* IdxMod - 1 frames and answers, for every length of the file, every      *)
(* number of retries and every modulus of the index.                       *)
(***************************************************************************)
EXTENDS XModem, SequenceLemmas, FiniteSetTheorems

USE XModemAssumption
    DEF senderVars, staticVars, receiverVars, SyncChars, Answers

-----------------------------------------------------------------------------
(* Frames and control characters are packets, and a frame stays one when   *)
(* the line damages it.                                                    *)
LEMMA FrameType ==
  ASSUME NEW n \in 1 .. NFrames, NEW cs \in {"C", "NAK"}
  PROVE  Frame(n, cs, TRUE) \in Packets
BY DEF Frame, Packets

LEMMA ControlType == Control("EOT") \in Packets /\ Control("CAN") \in Packets
BY DEF Packets

(* What travels towards the receiver with XMODEM, with YMODEM, which has    *)
(* two frames of its own, and with Kermit.                                 *)
Headers == [kind : {"header", "empty"}, num : {0}, cs : {"C"}, ok : BOOLEAN]
KermitPackets ==
  [kind : {"D"}, num : 1 .. NFrames, cs : {"C"}, ok : BOOLEAN]
    \cup [kind : {"S", "F", "Z", "B", "E"}, num : Nat, cs : {"C"}, ok : BOOLEAN]
Parcels == Packets \cup Headers \cup KermitPackets

(* What carries a piece of the file.                                       *)
IsFrame(p) == p.kind \in {"frame", "D"}

LEMMA PacketFields ==
  ASSUME NEW p \in Parcels
  PROVE  /\ p.ok \in BOOLEAN
         /\ p.num \in Nat
         /\ p.kind = "frame" => p \in Packets
         /\ IsFrame(p) => p.num \in 1 .. NFrames
<1>1. CASE p \in [kind : {"frame"}, num : 1 .. NFrames, cs : {"C", "NAK"},
                  ok : BOOLEAN]
  BY <1>1 DEF Packets
<1>2. CASE p \in {Control("EOT"), Control("CAN")}
  <2>1. p.kind \in {"EOT", "CAN"} /\ p.ok = TRUE /\ p.num = 0
    BY <1>2 DEF Control
  <2>2. p.ok \in BOOLEAN
    BY <2>1, Zenon
  <2>3. p.num \in Nat /\ ~IsFrame(p) /\ p.kind # "frame"
    BY <2>1 DEF IsFrame
  <2>. QED  BY <2>2, <2>3, Zenon
<1>3. CASE p \in Headers
  BY <1>3 DEF Headers, IsFrame
<1>4. CASE p \in KermitPackets
  BY <1>4 DEF KermitPackets, IsFrame
<1>. QED  BY <1>1, <1>2, <1>3, <1>4 DEF Packets, Parcels

LEMMA DamagedFrame ==
  ASSUME NEW p \in Parcels, p.kind \in Checked
  PROVE  /\ [p EXCEPT !.ok = FALSE] \in Parcels
         /\ p \in Packets => [p EXCEPT !.ok = FALSE] \in Packets
         /\ p \in KermitPackets => [p EXCEPT !.ok = FALSE] \in KermitPackets
         /\ [p EXCEPT !.ok = FALSE].kind = p.kind
         /\ [p EXCEPT !.ok = FALSE].num = p.num
         /\ [p EXCEPT !.ok = FALSE].cs = p.cs
<1>1. p \notin {Control("EOT"), Control("CAN")}
  BY DEF Control, Checked
<1>2. CASE p \in [kind : {"frame"}, num : 1 .. NFrames, cs : {"C", "NAK"},
                  ok : BOOLEAN]
  <2>1. [p EXCEPT !.ok = FALSE] \in
          [kind : {"frame"}, num : 1 .. NFrames, cs : {"C", "NAK"}, ok : BOOLEAN]
    BY <1>2
  <2>2. p \notin KermitPackets
    BY <1>2 DEF KermitPackets
  <2>. QED  BY <1>2, <2>1, <2>2 DEF Packets, Parcels
<1>3. CASE p \in Headers
  <2>1. [p EXCEPT !.ok = FALSE] \in Headers
    BY <1>3 DEF Headers
  <2>2. p \notin Packets /\ p \notin KermitPackets
    BY <1>1, <1>3 DEF Packets, Headers, KermitPackets
  <2>3. /\ [p EXCEPT !.ok = FALSE].kind = p.kind
        /\ [p EXCEPT !.ok = FALSE].num = p.num
        /\ [p EXCEPT !.ok = FALSE].cs = p.cs
    BY <1>3 DEF Headers
  <2>. QED  BY <2>1, <2>2, <2>3 DEF Parcels
<1>4. CASE p \in KermitPackets
  <2>1. [p EXCEPT !.ok = FALSE] \in KermitPackets
    BY <1>4 DEF KermitPackets
  <2>2. p \notin Packets
    BY <1>1, <1>4 DEF Packets, KermitPackets
  <2>3. /\ [p EXCEPT !.ok = FALSE].kind = p.kind
        /\ [p EXCEPT !.ok = FALSE].num = p.num
        /\ [p EXCEPT !.ok = FALSE].cs = p.cs
    BY <1>4 DEF KermitPackets
  <2>. QED  BY <2>1, <2>2, <2>3 DEF Parcels
<1>. QED  BY <1>1, <1>2, <1>3, <1>4 DEF Packets, Parcels

(* What Noise does to the line towards the receiver: one frame is no       *)
(* longer sound.                                                           *)
LEMMA DamageType ==
  ASSUME NEW s \in Seq(Parcels), NEW i \in 1 .. Len(s), s[i].kind \in Checked
  PROVE  LET d == [s EXCEPT ![i].ok = FALSE]
         IN  /\ d \in Seq(Parcels) /\ Len(d) = Len(s)
             /\ s \in Seq(Packets) => d \in Seq(Packets)
             /\ s \in Seq(KermitPackets) => d \in Seq(KermitPackets)
             /\ \A j \in 1 .. Len(s) :
                  /\ j # i => d[j] = s[j]
                  /\ d[j].kind = s[j].kind /\ d[j].num = s[j].num
                  /\ d[j].cs = s[j].cs
<1>1. /\ s[i] \in Parcels /\ (s \in Seq(Packets) => s[i] \in Packets)
      /\ s \in Seq(KermitPackets) => s[i] \in KermitPackets
  BY ElementOfSeq
<1>. DEFINE q == [s[i] EXCEPT !.ok = FALSE]
            d == [s EXCEPT ![i] = q]
<1>2. /\ q \in Parcels /\ (s \in Seq(Packets) => q \in Packets)
      /\ s \in Seq(KermitPackets) => q \in KermitPackets
      /\ q.kind = s[i].kind /\ q.num = s[i].num /\ q.cs = s[i].cs
  BY <1>1, DamagedFrame
<1>3. d = [s EXCEPT ![i].ok = FALSE]
  OBVIOUS
<1>. HIDE DEF q
<1>4. /\ d \in Seq(Parcels) /\ Len(d) = Len(s)
      /\ \A j \in 1 .. Len(s) : d[j] = IF j = i THEN q ELSE s[j]
  BY <1>2, ExceptSeq
<1>5. /\ s \in Seq(Packets) => d \in Seq(Packets)
      /\ s \in Seq(KermitPackets) => d \in Seq(KermitPackets)
  BY <1>2, ExceptSeq
<1>. HIDE DEF d
<1>. QED  BY <1>1, <1>2, <1>3, <1>4, <1>5

LEMMA NoiseTypes ==
  ASSUME Noise, toRecv \in Seq(Parcels), NEW S, toSend \in Seq(S)
  PROVE  /\ toRecv' \in Seq(Parcels) /\ toSend' \in Seq(S)
         /\ toRecv \in Seq(Packets) => toRecv' \in Seq(Packets)
         /\ toRecv \in Seq(KermitPackets) => toRecv' \in Seq(KermitPackets)
<1>1. CASE \E i \in 1 .. Len(toRecv) :
             /\ toRecv[i].kind \in Checked
             /\ toRecv' = [toRecv EXCEPT ![i].ok = FALSE]
             /\ UNCHANGED toSend
  <2>1. PICK i \in 1 .. Len(toRecv) :
               /\ toRecv[i].kind \in Checked
               /\ toRecv' = [toRecv EXCEPT ![i].ok = FALSE]
               /\ UNCHANGED toSend
    BY <1>1
  <2>. DEFINE d == [toRecv EXCEPT ![i].ok = FALSE]
  <2>2. /\ d \in Seq(Parcels)
        /\ toRecv \in Seq(Packets) => d \in Seq(Packets)
        /\ toRecv \in Seq(KermitPackets) => d \in Seq(KermitPackets)
    BY <2>1, DamageType
  <2>3. toRecv' = d
    BY <2>1
  <2>. HIDE DEF d
  <2>. QED  BY <2>1, <2>2, <2>3
<1>2. CASE /\ \E i \in 1 .. Len(toSend) :
                toSend' = SubSeq(toSend, 1, i - 1)
                            \o SubSeq(toSend, i + 1, Len(toSend))
           /\ UNCHANGED toRecv
  <2>1. PICK i \in 1 .. Len(toSend) :
               toSend' = SubSeq(toSend, 1, i - 1)
                           \o SubSeq(toSend, i + 1, Len(toSend))
    BY <1>2
  <2>2. Len(toSend) \in Nat /\ i - 1 \in 0 .. Len(toSend) /\ i \in 0 .. Len(toSend)
    BY LenProperties
  <2>3. /\ SubSeq(toSend, 1, i - 1) \in Seq(S)
        /\ SubSeq(toSend, i + 1, Len(toSend)) \in Seq(S)
    BY <2>2, CutAt
  <2>. QED  BY <1>2, <2>1, <2>3, ConcatProperties
<1>. QED  BY <1>1, <1>2 DEF Noise

LEMMA GotType ==
  ASSUME TypeOK, NEW c, Got(c)
  PROVE  toSend' \in Seq(Answers)
BY HeadTailProperties DEF TypeOK, Got

LEMMA NoAnswerType ==
  ASSUME TypeOK, NoAnswer
  PROVE  toSend' \in Seq(Answers)
BY DEF TypeOK, NoAnswer

(* A step that takes the head of the line and answers it.                  *)
LEMMA ReceivesType ==
  ASSUME TypeOK, toRecv # <<>>,
         NEW a \in Answers, NEW st \in {"sync", "receiving", "complete", "aborted"},
         NEW f \in Seq(1 .. NFrames), Receives(a, st, f)
  PROVE  TypeOK'
<1>1. toRecv' \in Seq(Packets)
  BY HeadTailProperties DEF TypeOK, Receives
<1>2. toSend' \in Seq(Answers)
  BY AppendProperties DEF TypeOK, Receives
<1>. QED  BY <1>1, <1>2 DEF TypeOK, Receives

(* Every variable keeps its type, the retry counter and the number of the  *)
(* frame included.                                                         *)
TypeInv == TypeOK /\ (pc = "wait" => k > 0)

LEMMA TypeInit == Init => TypeInv
<1>. SUFFICES ASSUME Init  PROVE TypeInv
  OBVIOUS
<1>1. \A S : <<>> \in Seq(S)
  BY EmptySeq
<1>2. failed \in BOOLEAN /\ should_stop \in BOOLEAN
  BY DEF Init
<1>3. /\ k \in 0 .. NFrames /\ retry \in 0 .. MaxRetry - 1 /\ ret \in Int
      /\ ntransfers \in 0 .. MaxTransfers /\ noise \in 0 .. MaxNoise
      /\ nsync \in 0 .. MaxSync
  BY DEF Init
<1>. QED  BY <1>1, <1>2, <1>3 DEF Init, TypeInv, TypeOK

LEMMA TypeStep == TypeInv /\ [Next]_vars => TypeInv'
<1>. SUFFICES ASSUME TypeOK, pc = "wait" => k > 0, [Next]_vars
              PROVE  TypeOK' /\ (pc' = "wait" => k' > 0)
  BY DEF TypeInv
<1>0. /\ k \in Nat /\ toRecv \in Seq(Packets) /\ toSend \in Seq(Answers)
      /\ rfile \in Seq(1 .. NFrames)
      /\ \A S : <<>> \in Seq(S)
  BY EmptySeq DEF TypeOK
<1>1. CASE TransferBegin
  <2>1. ntransfers' \in 0 .. MaxTransfers
    BY <1>1 DEF TransferBegin, TypeOK
  <2>2. k' \in 0 .. NFrames /\ retry' \in 0 .. MaxRetry - 1
    BY <1>1 DEF TransferBegin
  <2>. QED  BY <1>1, <2>1, <2>2 DEF TransferBegin, TypeOK
<1>2. CASE UserCancel
  BY <1>2 DEF UserCancel, TypeOK
<1>3. CASE Sync
  <2>1. toSend' \in Seq(Answers)
    BY <1>3, GotType, NoAnswerType DEF Sync
  <2>2. cs_type' \in {"C", "NAK"} /\ failed' \in BOOLEAN
    BY <1>3 DEF Sync, TypeOK
  <2>. QED  BY <1>3, <2>1, <2>2 DEF Sync, TypeOK
<1>4. CASE SyncSkip \/ FrameSkip \/ EOTSkip
  <2>1. toSend' \in Seq(Answers)
    BY <1>4, GotType DEF SyncSkip, FrameSkip, EOTSkip, SkipAnswer
  <2>. QED  BY <1>4, <2>1 DEF SyncSkip, FrameSkip, EOTSkip, SkipAnswer, TypeOK
<1>5. CASE NextFrame
  <2>1. k + 1 \in 1 .. NFrames /\ MaxRetry - 1 \in 0 .. MaxRetry - 1
    BY <1>5 DEF NextFrame, TypeOK
  <2>2. toRecv' \in Seq(Packets)
    BY <1>0, <1>5, <2>1, FrameType, AppendProperties DEF NextFrame, TypeOK
  <2>3. k' \in 0 .. NFrames /\ k' > 0
    BY <1>5, <2>1 DEF NextFrame
  <2>. QED  BY <1>5, <2>1, <2>2, <2>3 DEF NextFrame, TypeOK
<1>6. CASE FrameAcked
  BY <1>6, GotType DEF FrameAcked, TypeOK
<1>7. CASE FrameNaked
  <2>1. Packet \in Packets
    <3>1. k \in 1 .. NFrames /\ cs_type \in {"C", "NAK"}
      BY <1>7 DEF TypeOK, FrameNaked
    <3>. QED  BY <3>1, FrameType DEF Packet
  <2>2. toRecv' \in Seq(Packets)
    <3>1. <<Packet, Packet>> \in Seq(Packets)
      BY <2>1
    <3>2. /\ toRecv \o <<Packet, Packet>> \in Seq(Packets)
          /\ Append(toRecv, Packet) \in Seq(Packets)
      BY <1>0, <2>1, <3>1, AppendProperties, ConcatProperties
    <3>. QED  BY <1>7, <3>2 DEF FrameNaked
  <2>3. retry' \in 0 .. MaxRetry - 1 /\ pc' \in {"wait", "next"}
    BY <1>7 DEF FrameNaked, TypeOK
  <2>4. toSend' \in Seq(Answers)
    BY <1>7, GotType DEF FrameNaked
  <2>. QED  BY <1>7, <2>2, <2>3, <2>4 DEF FrameNaked, TypeOK
<1>8. CASE FrameFailed
  <2>1. toSend' \in Seq(Answers)
    BY <1>8, GotType, NoAnswerType DEF FrameFailed
  <2>. QED  BY <1>8, <2>1 DEF FrameFailed, TypeOK
<1>9. CASE SendEOT
  <2>1. toRecv' \in Seq(Packets)
    BY <1>0, <1>9, ControlType, AppendProperties DEF SendEOT
  <2>. QED  BY <1>9, <2>1 DEF SendEOT, TypeOK
<1>10. CASE EOTAnswered
  <2>1. toSend' \in Seq(Answers)
    BY <1>10, GotType, NoAnswerType DEF EOTAnswered
  <2>2. failed' \in BOOLEAN
    BY <1>10 DEF EOTAnswered, TypeOK
  <2>. QED  BY <1>10, <2>1, <2>2 DEF EOTAnswered, TypeOK
<1>11. CASE Cancelled
  BY <1>11 DEF Cancelled, TypeOK
<1>12. CASE Finish
  <2>1. Append(toRecv, Control("CAN")) \in Seq(Packets)
    BY <1>0, ControlType, AppendProperties
  <2>2. toRecv' \in Seq(Packets)
    BY <1>0, <1>12, <2>1, Zenon DEF Finish
  <2>. QED  BY <1>12, <2>2 DEF Finish, TypeOK
<1>13. CASE TransferEnd
  <2>1. PICK n \in 0 .. Len(toSend) : toSend' = SubSeq(toSend, n + 1, Len(toSend))
    BY <1>13 DEF TransferEnd
  <2>2. toSend' \in Seq(Answers)
    BY <1>0, <2>1, CutAt
  <2>. QED  BY <1>13, <2>2 DEF TransferEnd, TypeOK
<1>14. CASE ReceiverStart
  <2>1. nsync' \in 0 .. MaxSync /\ toRecv' \in Seq(Packets) /\ rfile' \in Seq(1 .. NFrames)
    BY <1>0, <1>14 DEF ReceiverStart
  <2>. QED  BY <1>14, <2>1 DEF ReceiverStart, TypeOK
<1>15. CASE ReceiverSync
  <2>1. toSend' \in Seq(Answers)
    BY <1>0, <1>15, AppendProperties DEF ReceiverSync, TypeOK
  <2>2. nsync' \in 0 .. MaxSync
    BY <1>15 DEF ReceiverSync, TypeOK
  <2>. QED  BY <1>15, <2>1, <2>2 DEF ReceiverSync, TypeOK
<1>16. CASE ReceiverFrame
  <2>1. toRecv # <<>> /\ rstate \in {"sync", "receiving"} /\ Head(toRecv) \in Packets
    BY <1>0, <1>16, HeadTailProperties DEF ReceiverFrame
  <2>2. ASSUME Receives("NAK", rstate, rfile)  PROVE TypeOK'
    BY <1>0, <2>1, <2>2, ReceivesType
  <2>3. ASSUME Receives("ACK", "receiving", rfile) \/ Receives("CAN", "aborted", rfile)
        PROVE  TypeOK'
    BY <1>0, <2>1, <2>3, ReceivesType
  <2>4. ASSUME Receives("ACK", "receiving", Append(rfile, Head(toRecv).num))
        PROVE  TypeOK'
    <3>1. Head(toRecv).num \in 1 .. NFrames
      BY <1>16, <2>1, PacketFields DEF ReceiverFrame, Parcels, IsFrame
    <3>2. Append(rfile, Head(toRecv).num) \in Seq(1 .. NFrames)
      BY <1>0, <3>1, AppendProperties
    <3>. QED  BY <1>0, <2>1, <2>4, <3>2, ReceivesType
  <2>5. UNCHANGED <<pc, k>>
    BY <1>16 DEF ReceiverFrame, Receives
  <2>. QED  BY <1>16, <2>2, <2>3, <2>4, <2>5 DEF ReceiverFrame
<1>17. CASE ReceiverEOT
  <2>1. UNCHANGED <<pc, k>>
    BY <1>17 DEF ReceiverEOT, Receives
  <2>. QED  BY <1>0, <1>17, <2>1, ReceivesType DEF ReceiverEOT
<1>18. CASE ReceiverDrops
  <2>1. toRecv' \in Seq(Packets)
    BY <1>0, <1>18, HeadTailProperties DEF ReceiverDrops
  <2>. QED  BY <1>18, <2>1 DEF ReceiverDrops, TypeOK
<1>19. CASE Noise
  <2>1. noise' \in 0 .. MaxNoise
    <3>1. noise < MaxNoise /\ noise' = noise + 1
      BY <1>19 DEF Noise
    <3>. QED  BY <3>1 DEF TypeOK
  <2>2. toRecv' \in Seq(Packets) /\ toSend' \in Seq(Answers)
    <3>1. toRecv \in Seq(Parcels)
      BY <1>0, SeqMonotonic DEF Parcels
    <3>. QED  BY <1>0, <1>19, <3>1, NoiseTypes
  <2>. QED  BY <1>19, <2>1, <2>2 DEF Noise, TypeOK
<1>20. CASE UNCHANGED vars
  BY <1>20 DEF vars, TypeOK
<1>. QED
  BY <1>1, <1>2, <1>3, <1>4, <1>5, <1>6, <1>7, <1>8, <1>9, <1>10, <1>11,
     <1>12, <1>13, <1>14, <1>15, <1>16, <1>17, <1>18, <1>19, <1>20
  DEF Next, Sender, Receiver

-----------------------------------------------------------------------------
(* The line towards the receiver, after n frames of the file were sent.    *)
(* Num is the number of the frame in place i, or, where there is none, of  *)
(* the frame that will be sent next.                                       *)
Num(s, n, i) ==
  IF i \in 1 .. Len(s) /\ IsFrame(s[i]) THEN s[i].num ELSE n + 1

(* The frames come without a gap and in order, repetitions included, up to *)
(* the last one sent, and before EOT and CAN.                              *)
Steady(s, n) ==
  /\ \A i \in 1 .. Len(s) : IsFrame(s[i]) => s[i].num \in 1 .. n
  /\ \A i \in 1 .. Len(s) : Num(s, n, i + 1) \in {Num(s, n, i), Num(s, n, i) + 1}
  /\ \A m \in Num(s, n, 1) .. n :
       \E i \in 1 .. Len(s) : IsFrame(s[i]) /\ s[i].num = m

Damaged(s) == {i \in 1 .. Len(s) : ~s[i].ok}

LEMMA NumType ==
  ASSUME NEW s \in Seq(Parcels), NEW n \in Nat, NEW i \in Nat
  PROVE  Num(s, n, i) \in Nat
BY ElementOfSeq, PacketFields DEF Num

LEMMA EmptySteady ==
  ASSUME NEW n \in Nat
  PROVE  Steady(<<>>, n) /\ Num(<<>>, n, 1) = n + 1 /\ Damaged(<<>>) = {}
<1>. Len(<<>>) = 0
  BY EmptySeq
<1>. QED  BY DEF Steady, Num, Damaged

(* Taking the head off leaves the line steady, and the next number is the  *)
(* head's, or one more.                                                    *)
LEMMA TailSteady ==
  ASSUME NEW s \in Seq(Parcels), s # <<>>, NEW n \in Nat, Steady(s, n)
  PROVE  /\ Steady(Tail(s), n)
         /\ Num(Tail(s), n, 1) \in {Num(s, n, 1), Num(s, n, 1) + 1}
<1>. DEFINE t == Tail(s)
<1>1. /\ Len(s) \in Nat /\ 1 \in 1 .. Len(s) /\ Len(t) = Len(s) - 1
      /\ \A i \in 1 .. Len(t) : t[i] = s[i + 1]
  BY FirstOf, HeadTailProperties
<1>2. \A i \in Nat \ {0} : Num(t, n, i) = Num(s, n, i + 1)
  BY <1>1 DEF Num
<1>3. \A i \in 1 .. Len(t) : IsFrame(t[i]) => t[i].num \in 1 .. n
  BY <1>1 DEF Steady
<1>4. ASSUME NEW i \in 1 .. Len(t)
      PROVE  Num(t, n, i + 1) \in {Num(t, n, i), Num(t, n, i) + 1}
  <2>1. i + 1 \in 1 .. Len(s) /\ i \in Nat \ {0} /\ i + 1 \in Nat \ {0}
    BY <1>1
  <2>2. Num(s, n, (i + 1) + 1) \in {Num(s, n, i + 1), Num(s, n, i + 1) + 1}
    BY <2>1 DEF Steady
  <2>. QED  BY <1>2, <2>1, <2>2
<1>5. Num(t, n, 1) = Num(s, n, 2) /\ Num(t, n, 1) \in {Num(s, n, 1), Num(s, n, 1) + 1}
  <2>1. Num(s, n, 1 + 1) \in {Num(s, n, 1), Num(s, n, 1) + 1}
    BY <1>1 DEF Steady
  <2>. QED  BY <1>2, <2>1
<1>6. ASSUME NEW m \in Num(t, n, 1) .. n
      PROVE  \E i \in 1 .. Len(t) : IsFrame(t[i]) /\ t[i].num = m
  <2>1. Num(s, n, 1) \in Nat /\ Num(t, n, 1) \in Nat
    BY <1>1, NumType, HeadTailProperties
  <2>2. m \in Num(s, n, 1) .. n
    BY <1>5, <2>1
  <2>3. PICK i \in 1 .. Len(s) : IsFrame(s[i]) /\ s[i].num = m
    BY <2>2 DEF Steady
  <2>4. CASE i > 1
    <3>1. i - 1 \in 1 .. Len(t) /\ t[i - 1] = s[(i - 1) + 1]
      BY <1>1, <2>4
    <3>2. t[i - 1] = s[i]
      BY <1>1, <3>1
    <3>. QED  BY <2>3, <3>1, <3>2
  <2>5. CASE i = 1
    <3>1. Num(s, n, 1) = m
      BY <2>3, <2>5 DEF Num
    <3>2. Num(s, n, 2) = m /\ m <= n
      BY <1>5, <2>1, <3>1
    <3>3. 2 \in 1 .. Len(s) /\ IsFrame(s[2]) /\ s[2].num = m
      BY <3>2 DEF Num
    <3>4. 1 \in 1 .. Len(t) /\ t[1] = s[2]
      BY <1>1, <3>3
    <3>. QED  BY <3>3, <3>4
  <2>. QED  BY <1>1, <2>4, <2>5
<1>. HIDE DEF t
<1>7. Steady(t, n)
  BY <1>3, <1>4, <1>6 DEF Steady
<1>. QED  BY <1>5, <1>7 DEF t

(* What the sender appends: the next frame, the last one again, or the     *)
(* control characters.                                                     *)
LEMMA AppendAt ==
  ASSUME NEW s \in Seq(Parcels), NEW p \in Parcels
  PROVE  /\ Len(s) \in Nat /\ Append(s, p) \in Seq(Parcels)
         /\ Len(Append(s, p)) = Len(s) + 1
         /\ \A i \in 1 .. Len(s) : Append(s, p)[i] = s[i]
         /\ Append(s, p)[Len(s) + 1] = p
BY AppendProperties, LenProperties

LEMMA NextSteady ==
  ASSUME NEW s \in Seq(Parcels), NEW p \in Parcels, NEW n \in Nat, Steady(s, n),
         \A i \in 1 .. Len(s) : IsFrame(s[i]),
         IsFrame(p), p.num = n + 1
  PROVE  /\ Steady(Append(s, p), n + 1)
         /\ Num(Append(s, p), n + 1, 1) = Num(s, n, 1)
<1>. DEFINE q == Append(s, p)
<1>1. /\ Len(s) \in Nat /\ Len(q) = Len(s) + 1
      /\ \A i \in 1 .. Len(s) : q[i] = s[i]
      /\ q[Len(s) + 1] = p
  BY AppendAt
<1>. HIDE DEF q
<1>2. \A i \in 1 .. Len(s) + 1 : Num(q, n + 1, i) = Num(s, n, i)
  BY <1>1 DEF Num
<1>3. Num(q, n + 1, Len(s) + 2) = n + 2 /\ Num(q, n + 1, Len(s) + 1) = n + 1
  BY <1>1 DEF Num
<1>4. \A i \in 1 .. Len(q) : IsFrame(q[i]) => q[i].num \in 1 .. n + 1
  <2>. SUFFICES ASSUME NEW i \in 1 .. Len(q), IsFrame(q[i])
                PROVE  q[i].num \in 1 .. n + 1
    OBVIOUS
  <2>1. CASE i \in 1 .. Len(s)
    <3>1. s[i].num \in 1 .. n
      BY <1>1, <2>1 DEF Steady
    <3>. QED  BY <1>1, <2>1, <3>1
  <2>2. CASE i = Len(s) + 1
    BY <1>1, <2>2
  <2>. QED  BY <1>1, <2>1, <2>2
<1>5. ASSUME NEW i \in 1 .. Len(q)
      PROVE  Num(q, n + 1, i + 1) \in {Num(q, n + 1, i), Num(q, n + 1, i) + 1}
  <2>1. CASE i \in 1 .. Len(s)
    <3>1. i + 1 \in 1 .. Len(s) + 1 /\ i \in 1 .. Len(s) + 1
      BY <1>1, <2>1
    <3>2. Num(s, n, i + 1) \in {Num(s, n, i), Num(s, n, i) + 1}
      BY <2>1 DEF Steady
    <3>. QED  BY <1>2, <3>1, <3>2
  <2>2. CASE i = Len(s) + 1
    <3>1. i + 1 = Len(s) + 2 /\ (n + 1) + 1 = n + 2
      BY <1>1, <2>2
    <3>. QED  BY <1>3, <2>2, <3>1
  <2>. QED  BY <1>1, <2>1, <2>2
<1>6. ASSUME NEW m \in Num(q, n + 1, 1) .. n + 1
      PROVE  \E i \in 1 .. Len(q) : IsFrame(q[i]) /\ q[i].num = m
  <2>0. Num(q, n + 1, 1) = Num(s, n, 1) /\ Num(s, n, 1) \in Nat
    BY <1>1, <1>2, NumType
  <2>1. CASE m = n + 1
    BY <1>1, <2>1
  <2>2. CASE m \in Num(s, n, 1) .. n
    <3>1. PICK i \in 1 .. Len(s) : IsFrame(s[i]) /\ s[i].num = m
      BY <2>2 DEF Steady
    <3>. QED  BY <1>1, <3>1
  <2>. QED  BY <2>0, <2>1, <2>2
<1>7. Steady(q, n + 1)
  BY <1>4, <1>5, <1>6 DEF Steady
<1>8. Num(q, n + 1, 1) = Num(s, n, 1)
  BY <1>1, <1>2
<1>. QED  BY <1>7, <1>8 DEF q

LEMMA AgainSteady ==
  ASSUME NEW s \in Seq(Parcels), NEW p \in Parcels, NEW n \in Nat, Steady(s, n),
         \A i \in 1 .. Len(s) : IsFrame(s[i]),
         IsFrame(p), p.num = n, n > 0
  PROVE  /\ Steady(Append(s, p), n)
         /\ \/ Num(Append(s, p), n, 1) = Num(s, n, 1)
            \/ Num(Append(s, p), n, 1) = n /\ Num(s, n, 1) = n + 1
<1>. DEFINE q == Append(s, p)
<1>1. /\ Len(s) \in Nat /\ Len(q) = Len(s) + 1
      /\ \A i \in 1 .. Len(s) : q[i] = s[i]
      /\ q[Len(s) + 1] = p
  BY AppendAt
<1>. HIDE DEF q
<1>2. \A i \in 1 .. Len(s) : Num(q, n, i) = Num(s, n, i)
  BY <1>1 DEF Num
<1>3. Num(q, n, Len(s) + 2) = n + 1 /\ Num(q, n, Len(s) + 1) = n
  BY <1>1 DEF Num
<1>4. \A i \in 1 .. Len(q) : IsFrame(q[i]) => q[i].num \in 1 .. n
  <2>. SUFFICES ASSUME NEW i \in 1 .. Len(q), IsFrame(q[i])
                PROVE  q[i].num \in 1 .. n
    OBVIOUS
  <2>1. CASE i \in 1 .. Len(s)
    <3>1. s[i].num \in 1 .. n
      BY <1>1, <2>1 DEF Steady
    <3>. QED  BY <1>1, <2>1, <3>1
  <2>2. CASE i = Len(s) + 1
    BY <1>1, <2>2
  <2>. QED  BY <1>1, <2>1, <2>2
<1>5. ASSUME NEW i \in 1 .. Len(q)
      PROVE  Num(q, n, i + 1) \in {Num(q, n, i), Num(q, n, i) + 1}
  <2>1. CASE i \in 1 .. Len(s) - 1
    <3>1. i + 1 \in 1 .. Len(s) /\ i \in 1 .. Len(s)
      BY <1>1, <2>1
    <3>2. Num(s, n, i + 1) \in {Num(s, n, i), Num(s, n, i) + 1}
      BY <3>1 DEF Steady
    <3>. QED  BY <1>2, <3>1, <3>2
  <2>2. CASE i = Len(s)
    <3>1. i \in 1 .. Len(s)
      BY <1>1, <2>2
    <3>2. /\ Num(s, n, i) = s[i].num /\ s[i].num \in 1 .. n
          /\ Num(s, n, i + 1) \in {Num(s, n, i), Num(s, n, i) + 1}
      BY <3>1 DEF Steady, Num
    <3>3. Num(s, n, i + 1) = n + 1
      BY <1>1, <2>2 DEF Num
    <3>4. Num(q, n, i) = n /\ Num(q, n, i + 1) = n
      BY <1>2, <1>3, <2>2, <3>1, <3>2, <3>3
    <3>. QED  BY <3>4
  <2>3. CASE i = Len(s) + 1
    <3>1. i + 1 = Len(s) + 2
      BY <1>1, <2>3
    <3>. QED  BY <1>3, <2>3, <3>1
  <2>. QED  BY <1>1, <2>1, <2>2, <2>3
<1>6. \/ Num(q, n, 1) = Num(s, n, 1)
      \/ Num(q, n, 1) = n /\ Num(s, n, 1) = n + 1
  <2>1. CASE 1 \in 1 .. Len(s)
    BY <1>2, <2>1
  <2>2. CASE 1 \notin 1 .. Len(s)
    <3>1. Len(s) = 0
      BY <1>1, <2>2
    <3>. QED  BY <1>3, <2>2, <3>1 DEF Num
  <2>. QED  BY <2>1, <2>2
<1>7. ASSUME NEW m \in Num(q, n, 1) .. n
      PROVE  \E i \in 1 .. Len(q) : IsFrame(q[i]) /\ q[i].num = m
  <2>1. CASE m = n
    BY <1>1, <2>1
  <2>2. CASE m # n
    <3>0. Num(s, n, 1) \in Nat /\ m <= n /\ m \in Int
      BY <1>1, <1>6, NumType
    <3>1. m \in Num(s, n, 1) .. n
      BY <1>6, <2>2, <3>0
    <3>2. PICK i \in 1 .. Len(s) : IsFrame(s[i]) /\ s[i].num = m
      BY <3>1 DEF Steady
    <3>. QED  BY <1>1, <3>2
  <2>. QED  BY <2>1, <2>2
<1>8. Steady(q, n)
  BY <1>4, <1>5, <1>7 DEF Steady
<1>. QED  BY <1>6, <1>8 DEF q

LEMMA ControlSteady ==
  ASSUME NEW s \in Seq(Parcels), NEW p \in Parcels, NEW n \in Nat, Steady(s, n),
         ~IsFrame(p)
  PROVE  /\ Steady(Append(s, p), n)
         /\ Num(Append(s, p), n, 1) = Num(s, n, 1)
<1>. DEFINE q == Append(s, p)
<1>1. /\ Len(s) \in Nat /\ Len(q) = Len(s) + 1
      /\ \A i \in 1 .. Len(s) : q[i] = s[i]
      /\ q[Len(s) + 1] = p
  BY AppendAt
<1>. HIDE DEF q
<1>2. \A i \in Nat : Num(q, n, i) = Num(s, n, i)
  <2>. SUFFICES ASSUME NEW i \in Nat  PROVE Num(q, n, i) = Num(s, n, i)
    OBVIOUS
  <2>1. CASE i \in 1 .. Len(s)
    <3>1. i \in 1 .. Len(q) /\ q[i] = s[i]
      BY <1>1, <2>1
    <3>. QED  BY <2>1, <3>1 DEF Num
  <2>2. CASE i = Len(s) + 1
    BY <1>1, <2>2 DEF Num
  <2>3. CASE i \notin 1 .. Len(s) + 1
    BY <1>1, <2>3 DEF Num
  <2>. QED  BY <1>1, <2>1, <2>2, <2>3
<1>3. ASSUME NEW i \in 1 .. Len(q), IsFrame(q[i])  PROVE i \in 1 .. Len(s) /\ q[i] = s[i]
  BY <1>1, <1>3
<1>4. ASSUME NEW i \in 1 .. Len(q)
      PROVE  Num(q, n, i + 1) \in {Num(q, n, i), Num(q, n, i) + 1}
  <2>1. i \in Nat /\ i + 1 \in Nat
    OBVIOUS
  <2>2. CASE i \in 1 .. Len(s)
    BY <1>2, <2>1, <2>2 DEF Steady
  <2>3. CASE i = Len(s) + 1
    <3>1. i \notin 1 .. Len(s) /\ i + 1 \notin 1 .. Len(s)
      BY <1>1, <2>3
    <3>2. Num(s, n, i + 1) = n + 1 /\ Num(s, n, i) = n + 1
      BY <3>1 DEF Num
    <3>. QED  BY <1>2, <2>1, <3>2
  <2>. QED  BY <1>1, <2>2, <2>3
<1>5. \A m \in Num(q, n, 1) .. n :
        \E i \in 1 .. Len(q) : IsFrame(q[i]) /\ q[i].num = m
  <2>1. Num(q, n, 1) = Num(s, n, 1)
    BY <1>2
  <2>2. ASSUME NEW m \in Num(s, n, 1) .. n
        PROVE  \E i \in 1 .. Len(q) : IsFrame(q[i]) /\ q[i].num = m
    <3>1. PICK i \in 1 .. Len(s) : IsFrame(s[i]) /\ s[i].num = m
      BY DEF Steady
    <3>. QED  BY <1>1, <3>1
  <2>. QED  BY <2>1, <2>2
<1>6. Steady(q, n)
  BY <1>3, <1>4, <1>5 DEF Steady
<1>. QED  BY <1>2, <1>6 DEF q

(* Damage moves no frame.                                                  *)
LEMMA DamageSteady ==
  ASSUME NEW s \in Seq(Parcels), NEW d \in Seq(Parcels), NEW n \in Nat,
         Steady(s, n), Len(d) = Len(s),
         \A j \in 1 .. Len(s) : d[j].kind = s[j].kind /\ d[j].num = s[j].num
  PROVE  Steady(d, n) /\ Num(d, n, 1) = Num(s, n, 1)
<1>1. \A j \in 1 .. Len(s) : (IsFrame(d[j]) <=> IsFrame(s[j])) /\ d[j].num = s[j].num
  BY DEF IsFrame
<1>2. \A i : Num(d, n, i) = Num(s, n, i)
  BY <1>1 DEF Num
<1>. QED  BY <1>1, <1>2 DEF Steady

-----------------------------------------------------------------------------
(* How many frames on the line are damaged.                                *)
LEMMA DamagedType ==
  ASSUME NEW s \in Seq(Parcels)
  PROVE  IsFiniteSet(Damaged(s)) /\ Cardinality(Damaged(s)) \in Nat
<1>1. Len(s) \in Nat /\ IsFiniteSet(1 .. Len(s))
  BY LenProperties, FS_Interval
<1>2. Damaged(s) \in SUBSET (1 .. Len(s))
  BY DEF Damaged
<1>3. IsFiniteSet(Damaged(s))
  BY <1>1, <1>2, FS_Subset
<1>. QED  BY <1>3, FS_CardinalityType

LEMMA TailDamaged ==
  ASSUME NEW s \in Seq(Parcels), s # <<>>
  PROVE  /\ Cardinality(Damaged(Tail(s))) <= Cardinality(Damaged(s))
         /\ ~s[1].ok => Cardinality(Damaged(Tail(s))) <= Cardinality(Damaged(s)) - 1
<1>. DEFINE t == Tail(s)
            D == Damaged(s) \ {1}
            f == [i \in Damaged(t) |-> i + 1]
<1>1. /\ Len(s) \in Nat /\ t \in Seq(Parcels) /\ Len(t) = Len(s) - 1
      /\ \A i \in 1 .. Len(t) : t[i] = s[i + 1]
      /\ 1 \in 1 .. Len(s)
  BY FirstOf, HeadTailProperties
<1>. HIDE DEF t
<1>2. \A i \in Damaged(t) : i \in Nat /\ i + 1 \in D
  BY <1>1 DEF Damaged
<1>3. f \in Injection(Damaged(t), D)
  BY <1>2 DEF Injection, IsInjective
<1>4. /\ IsFiniteSet(D)
      /\ Cardinality(D) = IF 1 \in Damaged(s) THEN Cardinality(Damaged(s)) - 1
                                             ELSE Cardinality(Damaged(s))
  BY DamagedType, FS_RemoveElement
<1>5. Cardinality(Damaged(t)) <= Cardinality(D)
  BY <1>3, <1>4, FS_Injection
<1>6. ~s[1].ok => 1 \in Damaged(s)
  BY <1>1 DEF Damaged
<1>7. Cardinality(Damaged(s)) \in Nat /\ Cardinality(Damaged(t)) \in Nat
  BY <1>1, DamagedType
<1>. QED  BY <1>4, <1>5, <1>6, <1>7 DEF t

LEMMA AppendDamaged ==
  ASSUME NEW s \in Seq(Parcels), NEW p \in Parcels, p.ok
  PROVE  Damaged(Append(s, p)) = Damaged(s)
<1>. DEFINE q == Append(s, p)
<1>1. /\ Len(s) \in Nat /\ Len(q) = Len(s) + 1
      /\ \A i \in 1 .. Len(s) : q[i] = s[i]
      /\ q[Len(s) + 1] = p
  BY AppendAt
<1>. HIDE DEF q
<1>2. ASSUME NEW i \in Damaged(q)  PROVE i \in Damaged(s)
  <2>1. i \in 1 .. Len(q) /\ ~q[i].ok
    BY <1>2 DEF Damaged
  <2>2. i # Len(s) + 1
    BY <1>1, <2>1
  <2>3. i \in 1 .. Len(s)
    BY <1>1, <2>1, <2>2
  <2>. QED  BY <1>1, <2>1, <2>3 DEF Damaged
<1>3. ASSUME NEW i \in Damaged(s)  PROVE i \in Damaged(q)
  <2>1. i \in 1 .. Len(s) /\ ~s[i].ok
    BY <1>3 DEF Damaged
  <2>2. i \in 1 .. Len(q)
    BY <1>1, <2>1
  <2>. QED  BY <1>1, <2>1, <2>2 DEF Damaged
<1>. QED  BY <1>2, <1>3 DEF q

LEMMA MoreDamaged ==
  ASSUME NEW s \in Seq(Parcels), NEW d \in Seq(Parcels), Len(d) = Len(s),
         NEW i \in 1 .. Len(s), \A j \in 1 .. Len(s) : j # i => d[j] = s[j]
  PROVE  Cardinality(Damaged(d)) <= Cardinality(Damaged(s)) + 1
<1>1. Damaged(d) \in SUBSET (Damaged(s) \cup {i})
  BY DEF Damaged
<1>2. /\ IsFiniteSet(Damaged(s)) /\ Cardinality(Damaged(s)) \in Nat
      /\ Cardinality(Damaged(d)) \in Nat
  BY DamagedType
<1>3. /\ IsFiniteSet(Damaged(s) \cup {i})
      /\ Cardinality(Damaged(s) \cup {i}) =
           IF i \in Damaged(s) THEN Cardinality(Damaged(s))
                              ELSE Cardinality(Damaged(s)) + 1
  BY <1>2, FS_AddElement
<1>4. Cardinality(Damaged(d)) <= Cardinality(Damaged(s) \cup {i})
  BY <1>1, <1>3, FS_Subset
<1>. QED  BY <1>2, <1>3, <1>4

-----------------------------------------------------------------------------
(* The index a frame carries tells apart numbers that are closer than      *)
(* IdxMod.                                                                 *)
LEMMA Quotient ==
  ASSUME NEW m \in Int, m > 0, NEW a \in Int
  PROVE  \E q \in Int : a = q * m + (a % m)
<1>1. a = (a \div m) * m + (a % m)
  OBVIOUS
<1>2. a \div m \in Int
  OBVIOUS
<1>. QED  BY <1>1, <1>2

LEMMA SameIndex ==
  ASSUME NEW m \in Int, m > 0, NEW a \in Int, NEW b \in Int,
         a - b < m, b - a < m, a % m = b % m
  PROVE  a = b
<1>1. a % m \in Int
  OBVIOUS
<1>2. PICK p \in Int : a = p * m + (a % m)
  BY Quotient
<1>3. PICK q \in Int : b = q * m + (b % m)
  BY Quotient
<1>. DEFINE r == a % m
<1>4. r \in Int /\ a = p * m + r /\ b = q * m + r
  BY <1>1, <1>2, <1>3
<1>. HIDE DEF r
<1>5. p * m \in Int /\ q * m \in Int
  OBVIOUS
<1>6. (p - q) * m = p * m - q * m
  OBVIOUS
<1>7. (p - q) * m > -m /\ (p - q) * m < m
  BY <1>4, <1>5, <1>6
<1>8. p - q = 0
  <2>1. p - q \in Int /\ (p - q >= 1 \/ p - q <= -1 \/ p - q = 0)
    OBVIOUS
  <2>2. \A d \in Int : d >= 1 => d * m >= m
    OBVIOUS
  <2>3. \A d \in Int : d <= -1 => d * m <= -m
    OBVIOUS
  <2>. QED  BY <1>7, <2>1, <2>2, <2>3
<1>. QED  BY <1>4, <1>8

-----------------------------------------------------------------------------
(* The inductive invariant, for XMODEM and for YMODEM, whose job has states *)
(* of its own before the first frame and after EOT.                        *)
Begins == {"sync", "ysync"}
Early == {"sync", "ysync", "yheader", "next", "wait"}

(* Until the sender has synchronised nothing was sent, and the receiver    *)
(* was started once at most: every sync character is its present one.      *)
BeginInv ==
  /\ ntransfers = 0 => pc = "off"
  /\ pc \in Begins \/ ntransfers = 0 =>
       /\ rstate \in {"off", "sync"}
       /\ k = 0 /\ rfile = <<>> /\ toRecv = <<>>
       /\ rstate = "off" => toSend = <<>>
       /\ \A i \in 1 .. Len(toSend) : toSend[i] = rmode

LineInv ==
  /\ Steady(toRecv, k)
  /\ \A i \in 1 .. Len(toRecv) :
       /\ IsFrame(toRecv[i]) => toRecv[i].cs = rmode
       /\ toRecv[i].kind = "EOT" => /\ k = NFrames \/ should_stop
                                    /\ pc \notin Early
       /\ pc \in {"next", "wait"} /\ ~failed => IsFrame(toRecv[i])
  /\ Cardinality(Damaged(toRecv)) <= noise

SenderInv ==
  /\ pc = "wait" => ~failed /\ k > 0
  /\ pc \in {"next", "wait"} /\ ~failed => cs_type = rmode
  /\ pc = "eot" => failed /\ (k = NFrames \/ should_stop)
  /\ pc = "ytail" => k = NFrames
  /\ pc \in {"finish", "done"} /\ ~failed => k = NFrames

(* A frame the receiver will never get was damaged, and so were all its    *)
(* repetitions: those it misses already and those damaged on the line are  *)
(* together no more than the damages so far.                               *)
ReceiverInv ==
  /\ \A i \in 1 .. Len(rfile) : rfile[i] = i
  /\ Len(rfile) <= k
  /\ rstate \in {"sync", "receiving"} =>
       /\ Num(toRecv, k, 1) >= Len(rfile)
       /\ Num(toRecv, k, 1) - Expected + Cardinality(Damaged(toRecv)) <= noise
  /\ rstate \in {"complete", "closed"} =>
       /\ pc \notin Early
       /\ k = NFrames \/ should_stop
       /\ noise = 0 => Len(rfile) = k

(* After the transfer the receiver may have been started anew.             *)
Restarted == /\ pc = "off" /\ ntransfers = 1
             /\ rstate = "sync" /\ rfile = <<>> /\ toRecv = <<>>

FirstTransfer == ntransfers <= 1 /\ noise < IdxMod - 1

Core == BeginInv /\ LineInv /\ SenderInv /\ ReceiverInv

TransferInv == FirstTransfer => Restarted \/ Core

-----------------------------------------------------------------------------
(* One action at a time, inside the first transfer.                        *)

Typed == /\ k \in 0 .. NFrames /\ cs_type \in {"C", "NAK"}
         /\ noise \in Nat /\ ntransfers \in Nat
         /\ toRecv \in Seq(Parcels) /\ toSend \in Seq(Answers)
         /\ rmode \in SyncChars /\ rfile \in Seq(1 .. NFrames)

LEMMA TypedHere ==
  ASSUME TypeInv  PROVE Typed
<1>1. toRecv \in Seq(Parcels)
  BY SeqMonotonic DEF TypeInv, TypeOK, Parcels
<1>. QED  BY <1>1 DEF TypeInv, TypeOK, Typed

LEMMA CoreTypes ==
  ASSUME Typed
  PROVE  /\ k \in Nat /\ noise \in Nat /\ ntransfers \in Nat /\ Len(rfile) \in Nat
         /\ Expected = Len(rfile) + 1
         /\ toRecv \in Seq(Parcels) /\ toSend \in Seq(Answers)
         /\ rfile \in Seq(1 .. NFrames)
         /\ Num(toRecv, k, 1) \in Nat /\ Cardinality(Damaged(toRecv)) \in Nat
<1>1. /\ k \in Nat /\ noise \in Nat /\ ntransfers \in Nat
      /\ toRecv \in Seq(Parcels) /\ toSend \in Seq(Answers)
      /\ rfile \in Seq(1 .. NFrames)
  BY DEF Typed
<1>2. Num(toRecv, k, 1) \in Nat
  BY <1>1, NumType
<1>. QED  BY <1>1, <1>2, DamagedType, LenProperties DEF Expected

(* Answers matter only until the sender has synchronised.                  *)
LEMMA AnswersDoNotMatter ==
  ASSUME Core, ntransfers # 0, pc \notin Begins,
         UNCHANGED <<pc, k, cs_type, failed, should_stop, ntransfers, toRecv,
                     noise, rstate, rmode, rfile>>
  PROVE  Core'
BY DEF Core, BeginInv, LineInv, SenderInv, ReceiverInv, Expected

LEMMA BeginStep ==
  ASSUME Typed, Core, ntransfers' <= 1, ntransfers' = ntransfers + 1,
         pc' \in Begins, k' = 0,
         UNCHANGED <<should_stop, toRecv, toSend, noise, rstate, rmode, rfile>>
  PROVE  Core'
<1>1. ntransfers = 0 /\ ntransfers' = 1
  BY CoreTypes
<1>2. k = 0 /\ k' = 0 /\ rstate \in {"off", "sync"} /\ toRecv = <<>> /\ Len(<<>>) = 0
  BY <1>1, EmptySeq DEF Core, BeginInv
<1>3. BeginInv'
  BY <1>1, <1>2 DEF Core, BeginInv
<1>4. LineInv'
  <2>1. 1 .. Len(toRecv') = {}
    BY <1>2
  <2>. QED  BY <1>2, <2>1 DEF Core, LineInv
<1>5. SenderInv'
  BY DEF Begins, SenderInv
<1>6. ReceiverInv'
  BY <1>2 DEF Core, ReceiverInv, Expected
<1>. QED  BY <1>3, <1>4, <1>5, <1>6 DEF Core

LEMMA CancelStep ==
  ASSUME Core, UserCancel  PROVE Core'
<1>1. BeginInv' /\ LineInv'
  BY DEF UserCancel, Core, BeginInv, LineInv
<1>2. SenderInv' /\ ReceiverInv'
  BY DEF UserCancel, Core, SenderInv, ReceiverInv, Expected
<1>. QED  BY <1>1, <1>2 DEF Core

(* The sync character read is the receiver's present one.                  *)
LEMMA SyncStep ==
  ASSUME Typed, Core, Sync  PROVE Core'
<1>1. /\ ntransfers # 0 /\ pc = "sync" /\ pc' = "next" /\ rstate \in {"off", "sync"}
      /\ k = 0 /\ toRecv = <<>> /\ Len(<<>>) = 0
      /\ UNCHANGED <<k, should_stop, ntransfers, toRecv, noise, rstate, rmode, rfile>>
  BY EmptySeq DEF Sync, Core, BeginInv, Begins
<1>2. ASSUME NEW c, Got(c)  PROVE c = rmode
  <2>1. toSend # <<>> /\ Head(toSend) = c
    BY <1>2 DEF Got
  <2>2. 1 \in 1 .. Len(toSend) /\ Head(toSend) = toSend[1]
    BY <2>1, CoreTypes, FirstOf
  <2>. QED  BY <1>1, <2>1, <2>2 DEF Core, BeginInv, Begins
<1>3. ~failed' => cs_type' = rmode
  BY <1>2 DEF Sync
<1>4. BeginInv'
  BY <1>1 DEF BeginInv, Begins
<1>5. SenderInv'
  BY <1>1, <1>3 DEF SenderInv
<1>6. LineInv'
  <2>1. 1 .. Len(toRecv') = {}
    BY <1>1
  <2>. QED  BY <1>1, <2>1 DEF Core, LineInv
<1>7. ReceiverInv'
  BY <1>1 DEF Core, ReceiverInv, Expected
<1>. QED  BY <1>4, <1>5, <1>6, <1>7 DEF Core

LEMMA SkipStep ==
  ASSUME Typed, Core, SyncSkip \/ FrameSkip \/ EOTSkip  PROVE Core'
<1>1. CASE SyncSkip
  <2>1. PICK c \in Answers \ SyncChars : Got(c)
    BY <1>1 DEF SyncSkip, SkipAnswer
  <2>2. toSend # <<>> /\ Head(toSend) = c /\ rmode \in SyncChars /\ pc = "sync"
    BY <1>1, <2>1 DEF Got, Typed, SyncSkip
  <2>3. 1 \in 1 .. Len(toSend) /\ Head(toSend) = toSend[1]
    BY <2>2, CoreTypes, FirstOf
  <2>4. toSend[1] = rmode
    BY <2>2, <2>3 DEF Core, BeginInv, Begins
  <2>. QED  BY <2>1, <2>2, <2>3, <2>4
<1>2. CASE FrameSkip \/ EOTSkip
  <2>1. ntransfers # 0 /\ pc \notin Begins
    BY <1>2 DEF FrameSkip, EOTSkip, Core, BeginInv, Begins
  <2>2. UNCHANGED <<pc, k, cs_type, failed, should_stop, ntransfers, toRecv,
                    noise, rstate, rmode, rfile>>
    BY <1>2 DEF FrameSkip, EOTSkip, SkipAnswer
  <2>. QED  BY <2>1, <2>2, AnswersDoNotMatter
<1>. QED  BY <1>1, <1>2

LEMMA NextFrameStep ==
  ASSUME Typed, Core, NextFrame  PROVE Core'
<1>. DEFINE p == Frame(k + 1, cs_type, TRUE)
<1>0. /\ pc = "next" /\ ~failed /\ ntransfers # 0
      /\ rstate \notin {"complete", "closed"} /\ cs_type = rmode
      /\ k \in Nat /\ noise \in Nat /\ Len(rfile) \in Nat
      /\ toRecv \in Seq(Parcels) /\ Cardinality(Damaged(toRecv)) \in Nat
  BY CoreTypes DEF NextFrame, Core, BeginInv, SenderInv, ReceiverInv, Early
<1>1. p \in Parcels
  <2>1. k + 1 \in 1 .. NFrames /\ cs_type \in {"C", "NAK"}
    BY DEF NextFrame, Typed
  <2>. QED  BY <2>1, FrameType DEF Parcels
<1>2. /\ IsFrame(p) /\ p.num = k + 1 /\ p.cs = rmode /\ p.kind = "frame"
  BY <1>0 DEF Frame, IsFrame
<1>3. p.ok
  BY DEF Frame
<1>4. toRecv' = Append(toRecv, p) /\ k' = k + 1
  BY DEF NextFrame
<1>. HIDE DEF p
<1>5. \A i \in 1 .. Len(toRecv) : IsFrame(toRecv[i])
  BY <1>0 DEF Core, LineInv
<1>6. Steady(toRecv', k') /\ Num(toRecv', k', 1) = Num(toRecv, k, 1)
  BY <1>0, <1>1, <1>2, <1>4, <1>5, NextSteady DEF Core, LineInv
<1>7. Damaged(toRecv') = Damaged(toRecv)
  BY <1>0, <1>1, <1>3, <1>4, AppendDamaged
<1>8. \A i \in 1 .. Len(toRecv') :
        toRecv'[i] = p \/ (i \in 1 .. Len(toRecv) /\ toRecv'[i] = toRecv[i])
  BY <1>0, <1>1, <1>4, AppendEach
<1>9. LineInv'
  <2>1. \A i \in 1 .. Len(toRecv') :
          /\ IsFrame(toRecv'[i]) /\ toRecv'[i].kind # "EOT"
          /\ toRecv'[i].cs = rmode
    BY <1>2, <1>5, <1>8 DEF Core, LineInv, IsFrame
  <2>. QED  BY <1>6, <1>7, <2>1 DEF Core, LineInv, NextFrame
<1>10. /\ pc' = "wait" /\ ~failed' /\ k' > 0 /\ k' >= k /\ ntransfers' # 0
       /\ cs_type' = rmode' /\ rstate' \notin {"complete", "closed"}
       /\ UNCHANGED <<rstate, rmode, rfile, noise>>
  BY <1>0, <1>4 DEF NextFrame
<1>11. BeginInv'
  BY <1>10 DEF BeginInv, Begins
<1>12. SenderInv'
  BY <1>10 DEF SenderInv
<1>13. ReceiverInv'
  <2>1. Len(rfile') <= k'
    BY <1>0, <1>10, <1>4 DEF Core, ReceiverInv
  <2>. QED  BY <1>6, <1>7, <1>10, <2>1 DEF Core, ReceiverInv, Expected
<1>. QED  BY <1>9, <1>11, <1>12, <1>13 DEF Core

LEMMA AckStep ==
  ASSUME Typed, Core, FrameAcked \/ FrameFailed  PROVE Core'
<1>1. /\ ntransfers # 0 /\ pc = "wait" /\ ~failed /\ pc' = "next"
      /\ rstate \notin {"complete", "closed"}
  BY DEF FrameAcked, FrameFailed, Core, BeginInv, SenderInv, ReceiverInv, Early
<1>2. /\ UNCHANGED <<k, cs_type, should_stop, ntransfers, toRecv, noise, rstate,
                     rmode, rfile>>
      /\ failed' = failed \/ failed'
  BY DEF FrameAcked, FrameFailed
<1>3. BeginInv' /\ SenderInv'
  BY <1>1, <1>2 DEF Core, BeginInv, SenderInv, Begins
<1>4. LineInv'
  BY <1>1, <1>2 DEF Core, LineInv, IsFrame
<1>5. ReceiverInv'
  BY <1>1, <1>2 DEF Core, ReceiverInv, Expected
<1>. QED  BY <1>3, <1>4, <1>5 DEF Core

(* The last frame once more behind an unfinished file.                     *)
LEMMA AgainLine ==
  ASSUME NEW s \in Seq(Parcels), NEW p \in Parcels, NEW n \in Nat, Steady(s, n),
         NEW c, \A i \in 1 .. Len(s) : IsFrame(s[i]) /\ s[i].cs = c,
         IsFrame(p), p.num = n, p.ok, p.cs = c, n > 0
  PROVE  LET q == Append(s, p)
         IN  /\ q \in Seq(Parcels) /\ Steady(q, n)
             /\ \A i \in 1 .. Len(q) : IsFrame(q[i]) /\ q[i].cs = c
             /\ Damaged(q) = Damaged(s)
             /\ \/ Num(q, n, 1) = Num(s, n, 1)
                \/ Num(q, n, 1) = n /\ Num(s, n, 1) = n + 1
<1>. DEFINE q == Append(s, p)
<1>1. /\ Steady(q, n)
      /\ \/ Num(q, n, 1) = Num(s, n, 1)
         \/ Num(q, n, 1) = n /\ Num(s, n, 1) = n + 1
  <2>1. \A i \in 1 .. Len(s) : IsFrame(s[i])
    OBVIOUS
  <2>. QED  BY <2>1, AgainSteady
<1>2. Damaged(q) = Damaged(s)
  BY AppendDamaged
<1>3. /\ q \in Seq(Parcels)
      /\ \A i \in 1 .. Len(q) : q[i] = p \/ (i \in 1 .. Len(s) /\ q[i] = s[i])
  BY AppendEach
<1>. HIDE DEF q
<1>. QED  BY <1>1, <1>2, <1>3 DEF q

LEMMA NakStep ==
  ASSUME Typed, Core, FrameNaked  PROVE Core'
<1>0. /\ pc = "wait" /\ ntransfers # 0 /\ cs_type = rmode
      /\ rstate \notin {"complete", "closed"}
      /\ k > 0 /\ ~failed
      /\ k \in Nat /\ noise \in Nat /\ Len(rfile) \in Nat
      /\ toRecv \in Seq(Parcels) /\ Cardinality(Damaged(toRecv)) \in Nat
      /\ Num(toRecv, k, 1) \in Nat
  BY CoreTypes DEF FrameNaked, Core, BeginInv, SenderInv, ReceiverInv, Early
<1>1. Packet \in Parcels /\ IsFrame(Packet) /\ Packet.num = k /\ Packet.cs = rmode
  <2>1. k \in 1 .. NFrames /\ cs_type \in {"C", "NAK"}
    BY <1>0 DEF Typed
  <2>2. Packet \in Parcels
    BY <2>1, FrameType DEF Packet, Parcels
  <2>. QED  BY <1>0, <2>2 DEF Packet, Frame, IsFrame
<1>2. Packet.ok
  BY DEF Packet, Frame
<1>3. \A i \in 1 .. Len(toRecv) : IsFrame(toRecv[i]) /\ toRecv[i].cs = rmode
  BY <1>0 DEF Core, LineInv
<1>. DEFINE q == Append(toRecv, Packet)
            t == Append(q, Packet)
<1>4. Steady(toRecv, k)
  BY DEF Core, LineInv
<1>5. /\ q \in Seq(Parcels) /\ Steady(q, k)
      /\ \A i \in 1 .. Len(q) : IsFrame(q[i]) /\ q[i].cs = rmode
      /\ Damaged(q) = Damaged(toRecv)
      /\ \/ Num(q, k, 1) = Num(toRecv, k, 1)
         \/ Num(q, k, 1) = k /\ Num(toRecv, k, 1) = k + 1
  BY <1>0, <1>1, <1>2, <1>3, <1>4, AgainLine, SMTT(30)
<1>. HIDE DEF q
<1>6. /\ t \in Seq(Parcels) /\ Steady(t, k)
      /\ \A i \in 1 .. Len(t) : IsFrame(t[i]) /\ t[i].cs = rmode
      /\ Damaged(t) = Damaged(q)
      /\ \/ Num(t, k, 1) = Num(q, k, 1)
         \/ Num(t, k, 1) = k /\ Num(q, k, 1) = k + 1
  <2>1. k \in Nat /\ k > 0
    BY <1>0
  <2>. QED  BY <1>1, <1>2, <1>5, <2>1, AgainLine
<1>. HIDE DEF t
<1>7. toRecv' = q \/ toRecv' = t
  <2>1. toRecv \o <<Packet, Packet>> = Append(Append(toRecv, Packet), Packet)
    BY <1>0, <1>1, AppendTwo
  <2>. QED  BY <2>1 DEF FrameNaked, q, t
<1>8. /\ Steady(toRecv', k)
      /\ \A i \in 1 .. Len(toRecv') : IsFrame(toRecv'[i]) /\ toRecv'[i].cs = rmode
      /\ Damaged(toRecv') = Damaged(toRecv)
      /\ \/ Num(toRecv', k, 1) = Num(toRecv, k, 1)
         \/ Num(toRecv', k, 1) = k /\ Num(toRecv, k, 1) = k + 1
  BY <1>0, <1>5, <1>6, <1>7
<1>9. /\ pc' \in {"wait", "next"}
      /\ UNCHANGED <<k, cs_type, failed, should_stop, ntransfers, noise, rstate,
                     rmode, rfile>>
  BY <1>0 DEF FrameNaked
<1>10. BeginInv'
  BY <1>0, <1>9 DEF BeginInv, Begins
<1>11. SenderInv'
  BY <1>0, <1>9 DEF SenderInv
<1>12. LineInv'
  <2>1. \A i \in 1 .. Len(toRecv') : toRecv'[i].kind # "EOT"
    BY <1>8 DEF IsFrame
  <2>. QED  BY <1>8, <1>9, <2>1 DEF Core, LineInv
<1>13. ReceiverInv'
  <2>1. Num(toRecv', k, 1) <= Num(toRecv, k, 1) /\ Len(rfile) <= k
    BY <1>0, <1>8 DEF Core, ReceiverInv
  <2>2. ASSUME rstate \in {"sync", "receiving"}
        PROVE  /\ Num(toRecv', k, 1) >= Len(rfile)
               /\ Num(toRecv', k, 1) - Expected + Cardinality(Damaged(toRecv)) <= noise
    <3>1. /\ Num(toRecv, k, 1) >= Len(rfile)
          /\ Num(toRecv, k, 1) - Expected + Cardinality(Damaged(toRecv)) <= noise
      BY <2>2 DEF Core, ReceiverInv
    <3>2. Num(toRecv', k, 1) \in Nat
      BY <1>0, <1>8
    <3>. QED  BY <1>0, <1>8, <2>1, <3>1, <3>2, SMTT(30) DEF Expected
  <2>. QED  BY <1>0, <1>8, <1>9, <2>2 DEF Core, ReceiverInv, Expected
<1>. QED  BY <1>10, <1>11, <1>12, <1>13 DEF Core

(* EOT, CAN and the frames around a YMODEM file.                           *)
LEMMA ControlLine ==
  ASSUME Typed, LineInv, NEW p \in Parcels, ~IsFrame(p), p.ok,
         toRecv' = Append(toRecv, p),
         p.kind = "EOT" => pc' \notin Early /\ (k = NFrames \/ should_stop),
         pc' \in Early => pc \in Early, pc' \notin {"next", "wait"},
         UNCHANGED <<k, should_stop, noise, rmode>>
  PROVE  /\ LineInv' /\ Num(toRecv', k', 1) = Num(toRecv, k, 1)
         /\ Damaged(toRecv') = Damaged(toRecv)
<1>0. toRecv \in Seq(Parcels) /\ k \in Nat
  BY CoreTypes
<1>1. Steady(toRecv', k') /\ Num(toRecv', k', 1) = Num(toRecv, k, 1)
  BY <1>0, ControlSteady DEF LineInv
<1>2. Damaged(toRecv') = Damaged(toRecv)
  BY <1>0, AppendDamaged
<1>3. \A i \in 1 .. Len(toRecv') :
        toRecv'[i] = p \/ (i \in 1 .. Len(toRecv) /\ toRecv'[i] = toRecv[i])
  BY <1>0, AppendEach
<1>4. LineInv'
  <2>1. \A i \in 1 .. Len(toRecv') :
          /\ IsFrame(toRecv'[i]) => toRecv'[i].cs = rmode
          /\ toRecv'[i].kind = "EOT" => /\ k = NFrames \/ should_stop
                                        /\ pc' \notin Early
    BY <1>3 DEF LineInv
  <2>. QED  BY <1>1, <1>2, <2>1 DEF LineInv
<1>. QED  BY <1>1, <1>2, <1>4

(* What the steps from a frame's answer to the end have in common.         *)
LEMMA LaterStep ==
  ASSUME Core, ntransfers # 0, pc' \notin Early, SenderInv', LineInv',
         Num(toRecv', k', 1) = Num(toRecv, k, 1),
         Damaged(toRecv') = Damaged(toRecv),
         UNCHANGED <<k, should_stop, ntransfers, noise, rstate, rmode, rfile>>
  PROVE  Core'
<1>1. BeginInv'
  BY DEF BeginInv, Begins, Early
<1>2. ReceiverInv'
  BY DEF Core, ReceiverInv, Expected
<1>. QED  BY <1>1, <1>2 DEF Core

LEMMA SameLine ==
  ASSUME Core, pc' \notin Early,
         UNCHANGED <<k, should_stop, noise, toRecv, rmode>>
  PROVE  /\ LineInv' /\ Num(toRecv', k', 1) = Num(toRecv, k, 1)
         /\ Damaged(toRecv') = Damaged(toRecv)
BY DEF Core, LineInv, Early

LEMMA EndStep ==
  ASSUME Typed, Core, SendEOT \/ Cancelled \/ Finish  PROVE Core'
<1>0. /\ ntransfers # 0 /\ pc \in {"next", "finish"}
      /\ pc' \in {"eot", "finish", "done"} /\ pc' \notin Early
      /\ UNCHANGED <<k, should_stop, ntransfers, noise, rstate, rmode, rfile>>
  BY DEF SendEOT, Cancelled, Finish, Core, BeginInv, Early
<1>1. SenderInv'
  BY DEF SendEOT, Cancelled, Finish, Core, SenderInv
<1>2. /\ LineInv' /\ Num(toRecv', k', 1) = Num(toRecv, k, 1)
      /\ Damaged(toRecv') = Damaged(toRecv)
  <2>1. \A c \in {"EOT", "CAN"} :
          /\ Control(c) \in Parcels /\ ~IsFrame(Control(c)) /\ Control(c).kind = c
          /\ Control(c).ok
    <3>1. \A c \in {"EOT", "CAN"} : Control(c) \in Parcels
      BY ControlType DEF Parcels
    <3>2. \A c : Control(c).ok
      BY DEF Control
    <3>3. \A c \in {"EOT", "CAN"} : Control(c).kind = c /\ ~IsFrame(Control(c))
      BY DEF Control, IsFrame
    <3>. QED  BY <3>1, <3>2, <3>3
  <2>2. CASE SendEOT
    <3>1. /\ toRecv' = Append(toRecv, Control("EOT"))
          /\ k = NFrames \/ should_stop
      BY <2>2 DEF SendEOT
    <3>. QED  BY <1>0, <2>1, <3>1, ControlLine DEF Core
  <2>3. CASE Cancelled
    <3>1. UNCHANGED toRecv
      BY <2>3 DEF Cancelled
    <3>. QED  BY <1>0, <3>1, SameLine
  <2>4. CASE Finish
    <3>1. CASE should_stop
      <4>1. toRecv' = Append(toRecv, Control("CAN"))
        BY <2>4, <3>1 DEF Finish
      <4>. QED  BY <1>0, <2>1, <4>1, ControlLine DEF Core
    <3>2. CASE ~should_stop
      <4>1. UNCHANGED toRecv
        BY <2>4, <3>2 DEF Finish
      <4>. QED  BY <1>0, <4>1, SameLine
    <3>. QED  BY <3>1, <3>2
  <2>. QED  BY <2>2, <2>3, <2>4
<1>. QED  BY <1>0, <1>1, <1>2, LaterStep

LEMMA EOTAnsweredStep ==
  ASSUME Typed, Core, EOTAnswered  PROVE Core'
<1>0. /\ ntransfers # 0 /\ pc = "eot" /\ pc' = "finish" /\ failed
      /\ k = NFrames \/ should_stop
      /\ UNCHANGED <<k, should_stop, ntransfers, toRecv, noise, rstate, rmode, rfile>>
  BY DEF EOTAnswered, Core, BeginInv, SenderInv
<1>1. ~failed' => k = NFrames
  BY <1>0 DEF EOTAnswered, Got
<1>2. SenderInv' /\ pc' \notin Early
  BY <1>0, <1>1 DEF SenderInv, Early
<1>. QED  BY <1>0, <1>2, SameLine, LaterStep

LEMMA TransferEndStep ==
  ASSUME Typed, Core, TransferEnd  PROVE Core'
<1>0. /\ ntransfers # 0 /\ pc = "done" /\ pc' = "off"
      /\ UNCHANGED <<k, should_stop, ntransfers, toRecv, noise, rstate, rmode, rfile>>
  BY DEF TransferEnd, Core, BeginInv
<1>1. SenderInv' /\ pc' \notin Early
  BY <1>0 DEF SenderInv, Early
<1>. QED  BY <1>0, <1>1, SameLine, LaterStep

(* A receiver that starts finds an empty line; after the transfer it       *)
(* leaves what Core describes.                                             *)
LEMMA ReceiverStartStep ==
  ASSUME Typed, Core, ntransfers <= 1,
         pc \in Begins \cup {"off"}, rstate # "sync", rmode' \in SyncChars,
         rstate' = "sync", rfile' = <<>>, toRecv' = <<>>,
         UNCHANGED <<pc, k, cs_type, failed, should_stop, ntransfers, toSend, noise>>
  PROVE  Restarted' \/ Core'
<1>0. /\ Len(<<>>) = 0
      /\ k \in Nat /\ noise \in Nat /\ ntransfers \in Nat
  BY CoreTypes, EmptySeq
<1>1. CASE pc = "off" /\ ntransfers = 1
  BY <1>0, <1>1 DEF Restarted
<1>2. CASE pc \in Begins \/ ntransfers = 0
  <2>1. k = 0 /\ toSend = <<>> /\ (ntransfers = 0 => pc = "off")
    BY <1>0, <1>2 DEF Core, BeginInv
  <2>2. BeginInv'
    BY <1>0, <2>1 DEF BeginInv
  <2>3. /\ Steady(toRecv', k') /\ Num(toRecv', k', 1) = k' + 1
        /\ Cardinality(Damaged(toRecv')) = 0
    BY <1>0, EmptySteady, FS_EmptySet
  <2>4. LineInv'
    <3>1. 1 .. Len(toRecv') = {}
      BY <1>0
    <3>2. noise' \in Nat
      BY <1>0
    <3>. QED  BY <2>3, <3>1, <3>2 DEF LineInv
  <2>5. SenderInv'
    BY DEF SenderInv, Begins
  <2>6. ReceiverInv'
    <3>1. Len(rfile') = 0 /\ Expected' = 1 /\ k' = 0 /\ noise' \in Nat /\ rstate' = "sync"
      BY <1>0, <2>1 DEF Expected
    <3>. QED  BY <2>3, <3>1 DEF ReceiverInv
  <2>. QED  BY <2>2, <2>4, <2>5, <2>6 DEF Core
<1>3. ntransfers = 0 \/ ntransfers = 1
  BY <1>0
<1>. QED  BY <1>0, <1>1, <1>2, <1>3

LEMMA ReceiverSyncStep ==
  ASSUME Typed, Core, rstate # "off", toSend' = Append(toSend, rmode),
         UNCHANGED <<pc, k, cs_type, failed, should_stop, ntransfers, toRecv,
                     noise, rstate, rmode, rfile>>
  PROVE  Core'
<1>1. CASE ntransfers # 0 /\ pc \notin Begins
  BY <1>1, AnswersDoNotMatter
<1>2. CASE pc \in Begins \/ ntransfers = 0
  <2>1. toSend \in Seq(Answers) /\ rmode \in Answers
    BY CoreTypes DEF Typed
  <2>2. \A i \in 1 .. Len(toSend') :
          toSend'[i] = rmode \/ (i \in 1 .. Len(toSend) /\ toSend'[i] = toSend[i])
    BY <2>1, AppendEach
  <2>3. BeginInv'
    BY <1>2, <2>2 DEF Core, BeginInv
  <2>4. LineInv' /\ SenderInv'
    BY DEF Core, LineInv, SenderInv
  <2>5. ReceiverInv'
    BY DEF Core, ReceiverInv, Expected
  <2>. QED  BY <2>3, <2>4, <2>5 DEF Core
<1>. QED  BY <1>1, <1>2

(* The receiver takes the head off the line, and answers it or not.        *)
LEMMA HeadTaken ==
  ASSUME Typed, Core, toRecv # <<>>, toRecv' = Tail(toRecv),
         UNCHANGED <<pc, k, cs_type, failed, should_stop, ntransfers, noise, rmode>>
  PROVE  /\ BeginInv' /\ LineInv' /\ SenderInv'
         /\ Head(toRecv) = toRecv[1] /\ toRecv[1] \in Parcels
         /\ 1 \in 1 .. Len(toRecv)
         /\ Num(toRecv', k, 1) \in {Num(toRecv, k, 1), Num(toRecv, k, 1) + 1}
         /\ Cardinality(Damaged(toRecv')) \in Nat
         /\ Cardinality(Damaged(toRecv')) <= Cardinality(Damaged(toRecv))
         /\ ~toRecv[1].ok =>
              Cardinality(Damaged(toRecv')) <= Cardinality(Damaged(toRecv)) - 1
         /\ Num(toRecv, k, 1) =
              IF IsFrame(toRecv[1]) THEN toRecv[1].num ELSE k + 1
         /\ IsFrame(toRecv[1]) => /\ toRecv[1].num <= k
                                  /\ toRecv[1].cs = rmode
<1>0. /\ k \in Nat /\ noise \in Nat /\ toRecv \in Seq(Parcels)
      /\ Cardinality(Damaged(toRecv)) \in Nat
      /\ Num(toRecv, k, 1) \in Nat
  BY CoreTypes
<1>1. /\ Head(toRecv) = toRecv[1] /\ toRecv[1] \in Parcels
      /\ 1 \in 1 .. Len(toRecv)
  BY <1>0, FirstOf
<1>2. /\ Steady(toRecv', k)
      /\ Num(toRecv', k, 1) \in {Num(toRecv, k, 1), Num(toRecv, k, 1) + 1}
  BY <1>0, TailSteady DEF Core, LineInv
<1>3. /\ Cardinality(Damaged(toRecv')) <= Cardinality(Damaged(toRecv))
      /\ ~toRecv[1].ok =>
           Cardinality(Damaged(toRecv')) <= Cardinality(Damaged(toRecv)) - 1
  BY <1>0, TailDamaged
<1>4. /\ toRecv' \in Seq(Parcels)
      /\ \A i \in 1 .. Len(toRecv') :
           i + 1 \in 1 .. Len(toRecv) /\ toRecv'[i] = toRecv[i + 1]
  BY <1>0, TailEach
<1>5. Cardinality(Damaged(toRecv')) \in Nat
  BY <1>4, DamagedType
<1>6. Num(toRecv, k, 1) = IF IsFrame(toRecv[1]) THEN toRecv[1].num ELSE k + 1
  BY <1>1 DEF Num
<1>7. IsFrame(toRecv[1]) => toRecv[1].num <= k /\ toRecv[1].cs = rmode
  <2>1. IsFrame(toRecv[1]) => toRecv[1].num \in 1 .. k
    BY <1>1 DEF Core, LineInv, Steady
  <2>. QED  BY <1>0, <1>1, <2>1 DEF Core, LineInv
<1>8. pc \notin Begins /\ ntransfers # 0
  BY DEF Core, BeginInv
<1>9. BeginInv'
  BY <1>8 DEF BeginInv
<1>10. SenderInv'
  BY DEF Core, SenderInv
<1>11. LineInv'
  <2>1. Cardinality(Damaged(toRecv')) <= noise
    BY <1>0, <1>3, <1>5 DEF Core, LineInv
  <2>. QED  BY <1>2, <1>4, <2>1 DEF Core, LineInv
<1>. QED  BY <1>1, <1>2, <1>3, <1>5, <1>6, <1>7, <1>9, <1>10, <1>11

LEMMA ReceiverFrameStep ==
  ASSUME Typed, Core, noise < IdxMod - 1, ReceiverFrame  PROVE Core'
<1>. DEFINE p == toRecv[1]
            N == Num(toRecv, k, 1)
            M == Num(toRecv', k, 1)
            D == Cardinality(Damaged(toRecv))
            E == Cardinality(Damaged(toRecv'))
            L == Len(rfile)
<1>0. /\ k \in Nat /\ noise \in Nat /\ L \in Nat /\ N \in Nat /\ D \in Nat
      /\ Expected = L + 1 /\ rfile \in Seq(1 .. NFrames)
  BY CoreTypes
<1>1. /\ toRecv # <<>> /\ toRecv' = Tail(toRecv) /\ rstate \in {"sync", "receiving"}
      /\ UNCHANGED <<pc, k, cs_type, failed, should_stop, ntransfers, noise, rmode>>
  BY DEF ReceiverFrame, Receives
<1>2. /\ BeginInv' /\ LineInv' /\ SenderInv'
      /\ Head(toRecv) = p /\ p \in Parcels
      /\ M \in {N, N + 1} /\ E \in Nat /\ E <= D /\ (~p.ok => E <= D - 1)
  BY <1>1, HeadTaken
<1>3. IsFrame(p) /\ p.num = N /\ N <= k /\ p.cs = rmode
  <2>1. IsFrame(p)
    BY <1>2 DEF ReceiverFrame, IsFrame
  <2>. QED  BY <1>1, <2>1, HeadTaken
<1>4. /\ N >= L /\ N - (L + 1) + D <= noise /\ D <= noise /\ L <= k
      /\ \A i \in 1 .. L : rfile[i] = i
  BY <1>0, <1>1 DEF Core, ReceiverInv, LineInv
<1>. SUFFICES ReceiverInv'
  BY <1>2 DEF Core
<1>5. \/ ~p.ok /\ rfile' = rfile /\ rstate' = rstate
      \/ HasIdx(p, Expected) /\ rfile' = Append(rfile, p.num) /\ rstate' = "receiving"
      \/ HasIdx(p, Expected - 1) /\ rfile' = rfile /\ rstate' = "receiving"
      \/ rfile' = rfile /\ rstate' = "aborted"
  BY <1>2, <1>3 DEF ReceiverFrame, Receives
<1>6. M = Num(toRecv', k', 1)
  BY <1>1
<1>. HIDE DEF p, N, M, D, E
<1>7. ASSUME rfile' = rfile, rstate' \in {"sync", "receiving"},
             M >= L, M - (L + 1) + E <= noise
      PROVE  ReceiverInv'
  <2>1. L = Len(rfile') /\ Expected' = L + 1 /\ L <= k' /\ rstate' # "complete"
    BY <1>0, <1>1, <1>4, <1>7 DEF Expected
  <2>. QED  BY <1>1, <1>4, <1>6, <1>7, <2>1 DEF ReceiverInv, E
<1>8. CASE ~p.ok /\ rfile' = rfile /\ rstate' = rstate
  <2>1. M >= L /\ M - (L + 1) + E <= noise
    BY <1>0, <1>2, <1>4, <1>8
  <2>. QED  BY <1>1, <1>7, <1>8, <2>1
<1>9. CASE HasIdx(p, Expected) /\ rfile' = Append(rfile, p.num) /\ rstate' = "receiving"
  <2>1. N = L + 1
    <3>1. N % IdxMod = (L + 1) % IdxMod
      BY <1>0, <1>3, <1>9 DEF HasIdx
    <3>2. /\ N - (L + 1) < IdxMod /\ (L + 1) - N < IdxMod
          /\ IdxMod \in Int /\ IdxMod > 0 /\ N \in Int /\ L + 1 \in Int
      BY <1>0, <1>4
    <3>. QED  BY <3>1, <3>2, SameIndex, Zenon
  <2>2. N \in 1 .. NFrames
    BY <1>2, <1>3, PacketFields DEF IsFrame
  <2>3. /\ Len(rfile') = L + 1 /\ rfile'[L + 1] = L + 1
        /\ \A i \in 1 .. L : rfile'[i] = i
    <3>1. rfile' = Append(rfile, L + 1) /\ L + 1 \in 1 .. NFrames
      BY <1>3, <1>9, <2>1, <2>2
    <3>. QED  BY <1>0, <1>4, <3>1, AppendProperties
  <2>4. Expected' = L + 2 /\ Len(rfile') <= k'
    <3>1. Expected' = Len(rfile') + 1
      BY DEF Expected
    <3>. QED  BY <1>0, <1>1, <1>3, <2>1, <2>3, <3>1
  <2>5. M >= L + 1 /\ M - (L + 2) + E <= noise
    BY <1>0, <1>2, <1>4, <2>1
  <2>6. \A i \in 1 .. Len(rfile') : rfile'[i] = i
    <3>1. \A i \in 1 .. L + 1 : i \in 1 .. L \/ i = L + 1
      BY <1>0
    <3>. QED  BY <2>3, <3>1
  <2>. QED  BY <1>1, <1>6, <1>9, <2>3, <2>4, <2>5, <2>6 DEF ReceiverInv, E
<1>10. CASE HasIdx(p, Expected - 1) /\ rfile' = rfile /\ rstate' = "receiving"
  <2>1. N = L
    <3>1. N % IdxMod = L % IdxMod
      <4>1. Expected - 1 = L
        BY <1>0
      <4>. QED  BY <1>3, <1>10, <4>1 DEF HasIdx
    <3>2. /\ N - L < IdxMod /\ L - N < IdxMod
          /\ IdxMod \in Int /\ IdxMod > 0 /\ N \in Int /\ L \in Int
      BY <1>0, <1>4
    <3>. QED  BY <3>1, <3>2, SameIndex, Zenon
  <2>2. M >= L /\ M - (L + 1) + E <= noise
    BY <1>0, <1>2, <1>4, <2>1
  <2>. QED  BY <1>7, <1>10, <2>2
<1>11. CASE rfile' = rfile /\ rstate' = "aborted"
  BY <1>0, <1>1, <1>4, <1>11 DEF ReceiverInv
<1>. QED  BY <1>5, <1>8, <1>9, <1>10, <1>11

(* EOT reaches a receiver that misses nothing unless a frame was damaged.  *)
LEMMA ReceiverEOTStep ==
  ASSUME Typed, Core, rstate \in {"sync", "receiving"}, rstate' = "complete",
         toRecv # <<>>, toRecv' = Tail(toRecv), Head(toRecv).kind = "EOT",
         UNCHANGED <<pc, k, cs_type, failed, should_stop, ntransfers, noise, rmode,
                     rfile>>
  PROVE  Core'
<1>0. /\ k \in Nat /\ noise \in Nat /\ Len(rfile) \in Nat
      /\ Cardinality(Damaged(toRecv)) \in Nat
      /\ Expected = Len(rfile) + 1
  BY CoreTypes
<1>1. /\ BeginInv' /\ LineInv' /\ SenderInv'
      /\ toRecv[1].kind = "EOT" /\ 1 \in 1 .. Len(toRecv)
      /\ Num(toRecv, k, 1) = IF IsFrame(toRecv[1]) THEN toRecv[1].num ELSE k + 1
  BY HeadTaken
<1>2. ~IsFrame(toRecv[1]) /\ Num(toRecv, k, 1) = k + 1
  BY <1>1 DEF IsFrame
<1>3. pc \notin Early /\ (k = NFrames \/ should_stop)
  BY <1>1, <1>2 DEF Core, LineInv
<1>4. noise = 0 => Len(rfile) = k
  <2>1. /\ Num(toRecv, k, 1) - Expected + Cardinality(Damaged(toRecv)) <= noise
        /\ Len(rfile) <= k
    BY DEF Core, ReceiverInv
  <2>. QED  BY <1>0, <1>2, <2>1
<1>5. ReceiverInv'
  BY <1>3, <1>4 DEF Core, ReceiverInv
<1>. QED  BY <1>1, <1>5 DEF Core

LEMMA ReceiverDropsStep ==
  ASSUME Typed, Core, toRecv # <<>>, toRecv' = Tail(toRecv),
         rstate' \notin {"sync", "receiving"},
         rstate' \in {"complete", "closed"} => rstate \in {"complete", "closed"},
         UNCHANGED <<pc, k, cs_type, failed, should_stop, ntransfers, noise, rmode,
                     rfile>>
  PROVE  Core'
<1>1. BeginInv' /\ LineInv' /\ SenderInv'
  BY HeadTaken
<1>2. ReceiverInv'
  BY DEF Core, ReceiverInv
<1>. QED  BY <1>1, <1>2 DEF Core

LEMMA NoiseStep ==
  ASSUME Typed, Core, Noise  PROVE Core'
<1>0. /\ k \in Nat /\ noise \in Nat /\ Len(rfile) \in Nat
      /\ toRecv \in Seq(Parcels) /\ toSend \in Seq(Answers)
      /\ Num(toRecv, k, 1) \in Nat /\ Cardinality(Damaged(toRecv)) \in Nat
      /\ Expected = Len(rfile) + 1
  BY CoreTypes
<1>1. /\ noise' = noise + 1
      /\ UNCHANGED <<pc, k, cs_type, failed, should_stop, ntransfers, rstate,
                     rmode, rfile>>
  BY DEF Noise
<1>2. SenderInv'
  BY <1>1 DEF Core, SenderInv
<1>3. ASSUME Num(toRecv', k, 1) = Num(toRecv, k, 1),
             Cardinality(Damaged(toRecv')) \in Nat,
             Cardinality(Damaged(toRecv')) <= Cardinality(Damaged(toRecv)) + 1
      PROVE  ReceiverInv'
  <2>1. ASSUME rstate \in {"sync", "receiving"}
        PROVE  /\ Num(toRecv', k', 1) >= Len(rfile')
               /\ Num(toRecv', k', 1) - Expected' + Cardinality(Damaged(toRecv')) <= noise'
    <3>1. /\ Num(toRecv, k, 1) >= Len(rfile)
          /\ Num(toRecv, k, 1) - Expected + Cardinality(Damaged(toRecv)) <= noise
      BY <2>1 DEF Core, ReceiverInv
    <3>2. /\ Expected' = Expected /\ noise' = noise + 1
          /\ Len(rfile') = Len(rfile) /\ Num(toRecv', k', 1) = Num(toRecv, k, 1)
      BY <1>1, <1>3 DEF Expected
    <3>3. Expected \in Nat
      BY <1>0
    <3>4. Num(toRecv', k', 1) >= Len(rfile')
      BY <3>1, <3>2
    <3>5. Num(toRecv', k', 1) - Expected' + Cardinality(Damaged(toRecv')) <= noise'
      <4>. DEFINE N == Num(toRecv, k, 1)
                  C == Cardinality(Damaged(toRecv))
                  D == Cardinality(Damaged(toRecv'))
                  X == Expected
      <4>1. N \in Nat /\ C \in Nat /\ D \in Nat /\ X \in Nat
            /\ N - X + C <= noise /\ D <= C + 1
        BY <1>0, <1>3, <3>1, <3>3
      <4>. HIDE DEF N, C, D, X
      <4>2. N - X + D <= noise + 1
        BY <1>0, <4>1
      <4>. QED  BY <3>2, <4>2 DEF N, D, X
    <3>. QED  BY <3>4, <3>5
  <2>2. noise' # 0
    BY <1>0, <1>1
  <2>. QED  BY <1>1, <2>1, <2>2 DEF Core, ReceiverInv
<1>4. CASE \E i \in 1 .. Len(toRecv) :
              /\ toRecv[i].kind \in Checked
              /\ toRecv' = [toRecv EXCEPT ![i].ok = FALSE]
              /\ UNCHANGED toSend
  <2>1. PICK i \in 1 .. Len(toRecv) :
               /\ toRecv[i].kind \in Checked
               /\ toRecv' = [toRecv EXCEPT ![i].ok = FALSE]
               /\ UNCHANGED toSend
    BY <1>4
  <2>2. /\ toRecv' \in Seq(Parcels) /\ Len(toRecv') = Len(toRecv)
        /\ \A j \in 1 .. Len(toRecv) :
             /\ j # i => toRecv'[j] = toRecv[j]
             /\ toRecv'[j].kind = toRecv[j].kind /\ toRecv'[j].num = toRecv[j].num
             /\ toRecv'[j].cs = toRecv[j].cs
    <3>. DEFINE d == [toRecv EXCEPT ![i].ok = FALSE]
    <3>1. /\ d \in Seq(Parcels) /\ Len(d) = Len(toRecv)
          /\ \A j \in 1 .. Len(toRecv) :
               /\ j # i => d[j] = toRecv[j]
               /\ d[j].kind = toRecv[j].kind /\ d[j].num = toRecv[j].num
               /\ d[j].cs = toRecv[j].cs
      BY <1>0, <2>1, DamageType, Zenon
    <3>2. toRecv' = d
      BY <2>1
    <3>. HIDE DEF d
    <3>. QED  BY <3>1, <3>2
  <2>3. Steady(toRecv', k) /\ Num(toRecv', k, 1) = Num(toRecv, k, 1)
    BY <1>0, <2>2, DamageSteady, SMTT(30) DEF Core, LineInv
  <2>4. /\ Cardinality(Damaged(toRecv')) <= Cardinality(Damaged(toRecv)) + 1
        /\ Cardinality(Damaged(toRecv')) \in Nat
    BY <1>0, <2>1, <2>2, MoreDamaged, DamagedType
  <2>5. LineInv'
    <3>1. Cardinality(Damaged(toRecv')) <= noise'
      BY <1>0, <1>1, <2>4 DEF Core, LineInv
    <3>. QED  BY <1>1, <2>2, <2>3, <3>1 DEF Core, LineInv, IsFrame
  <2>6. BeginInv'
    <3>1. toRecv # <<>>
      BY <2>1, EmptySeq
    <3>2. pc \notin Begins /\ ntransfers # 0
      BY <3>1 DEF Core, BeginInv
    <3>. QED  BY <1>1, <3>2 DEF BeginInv
  <2>. QED  BY <1>2, <1>3, <2>3, <2>4, <2>5, <2>6 DEF Core
<1>5. CASE /\ \E i \in 1 .. Len(toSend) :
                toSend' = SubSeq(toSend, 1, i - 1)
                            \o SubSeq(toSend, i + 1, Len(toSend))
           /\ UNCHANGED toRecv
  <2>1. PICK i \in 1 .. Len(toSend) :
               toSend' = SubSeq(toSend, 1, i - 1)
                           \o SubSeq(toSend, i + 1, Len(toSend))
    BY <1>5
  <2>2. \A j \in 1 .. Len(toSend') : \E m \in 1 .. Len(toSend) : toSend'[j] = toSend[m]
    <3>. DEFINE q == SubSeq(toSend, 1, i - 1) \o SubSeq(toSend, i + 1, Len(toSend))
    <3>1. \A j \in 1 .. Len(q) : \E m \in 1 .. Len(toSend) : q[j] = toSend[m]
      BY <1>0, RemoveEach, ZenonT(40)
    <3>2. toSend' = q
      BY <2>1
    <3>. HIDE DEF q
    <3>. QED  BY <3>1, <3>2
  <2>3. toSend # <<>>
    BY <2>1, EmptySeq
  <2>4. BeginInv'
    <3>1. /\ ntransfers = 0 => pc = "off"
          /\ pc \in Begins \/ ntransfers = 0 =>
               /\ rstate = "sync" /\ k = 0 /\ rfile = <<>> /\ toRecv = <<>>
               /\ \A m \in 1 .. Len(toSend) : toSend[m] = rmode
      BY <2>3 DEF Core, BeginInv
    <3>2. (pc \in Begins \/ ntransfers = 0) => \A j \in 1 .. Len(toSend') : toSend'[j] = rmode
      BY <2>2, <3>1
    <3>. QED  BY <1>1, <1>5, <3>1, <3>2 DEF BeginInv
  <2>5. LineInv'
    <3>1. Cardinality(Damaged(toRecv')) <= noise'
      BY <1>0, <1>1, <1>5 DEF Core, LineInv
    <3>2. toRecv' = toRecv
      BY <1>5
    <3>. QED  BY <1>1, <3>1, <3>2 DEF Core, LineInv
  <2>6. ReceiverInv'
    BY <1>0, <1>3, <1>5
  <2>. QED  BY <1>2, <2>4, <2>5, <2>6 DEF Core
<1>. QED  BY <1>4, <1>5 DEF Noise

LEMMA StutterStep ==
  ASSUME Core, UNCHANGED vars  PROVE Core'
<1>1. UNCHANGED <<pc, k, cs_type, failed, should_stop, ntransfers, toRecv, toSend,
                  noise, rstate, rmode, rfile>>
  BY DEF vars
<1>2. BeginInv' /\ LineInv'
  BY <1>1 DEF Core, BeginInv, LineInv
<1>3. SenderInv' /\ ReceiverInv'
  BY <1>1 DEF Core, SenderInv, ReceiverInv, Expected
<1>. QED  BY <1>2, <1>3 DEF Core

(* A receiver that was started anew waits: nothing but another transfer    *)
(* sends it anything.                                                      *)
LEMMA RestartedStep ==
  ASSUME TypeInv, Restarted, ntransfers' <= 1, [Next]_vars  PROVE Restarted'
<1>0. /\ pc = "off" /\ ntransfers = 1 /\ rstate = "sync" /\ toRecv = <<>>
      /\ Len(<<>>) = 0
  BY EmptySeq DEF Restarted
<1>1. ~TransferBegin /\ ~Sender /\ ~TransferEnd /\ ~UserCancel
  BY <1>0 DEF TransferBegin, Sender, Sync, SyncSkip, NextFrame, FrameAcked,
     FrameNaked, FrameFailed, FrameSkip, SendEOT, EOTAnswered, EOTSkip,
     Cancelled, Finish, TransferEnd, UserCancel
<1>2. ~ReceiverStart /\ ~ReceiverFrame /\ ~ReceiverEOT /\ ~ReceiverDrops
  BY <1>0 DEF ReceiverStart, ReceiverFrame, ReceiverEOT, ReceiverDrops
<1>3. CASE ReceiverSync \/ UNCHANGED vars
  BY <1>3 DEF ReceiverSync, vars, Restarted
<1>4. CASE Noise
  <2>1. UNCHANGED toRecv
    BY <1>0, <1>4 DEF Noise
  <2>. QED  BY <1>4, <2>1 DEF Noise, Restarted
<1>. QED  BY <1>1, <1>2, <1>3, <1>4 DEF Next, Receiver

LEMMA CoreStep ==
  ASSUME TypeInv, Core, ntransfers <= 1, noise < IdxMod - 1, ntransfers' <= 1,
         [Next]_vars
  PROVE  Restarted' \/ Core'
<1>0. Typed
  BY TypedHere
<1>1. CASE TransferBegin
  BY <1>0, <1>1, BeginStep DEF TransferBegin, Begins
<1>2. CASE UserCancel
  BY <1>2, CancelStep
<1>3. CASE Sender
  BY <1>0, <1>3, SyncStep, SkipStep, NextFrameStep, AckStep, NakStep, EndStep,
     EOTAnsweredStep
  DEF Sender
<1>4. CASE TransferEnd
  BY <1>0, <1>4, TransferEndStep
<1>5. CASE ReceiverStart
  BY <1>0, <1>5, ReceiverStartStep DEF ReceiverStart, Begins
<1>6. CASE ReceiverSync
  BY <1>0, <1>6, ReceiverSyncStep DEF ReceiverSync
<1>7. CASE ReceiverFrame
  BY <1>0, <1>7, ReceiverFrameStep
<1>8. CASE ReceiverEOT
  BY <1>0, <1>8, ReceiverEOTStep DEF ReceiverEOT, Receives
<1>9. CASE ReceiverDrops
  BY <1>0, <1>9, ReceiverDropsStep DEF ReceiverDrops, TypeInv, TypeOK
<1>10. CASE Noise
  BY <1>0, <1>10, NoiseStep
<1>11. CASE UNCHANGED vars
  BY <1>11, StutterStep
<1>. QED
  BY <1>1, <1>2, <1>3, <1>4, <1>5, <1>6, <1>7, <1>8, <1>9, <1>10, <1>11
  DEF Next, Receiver

(* The first transfer stays behind once a second one began or the line     *)
(* damaged too much.                                                       *)
LEMMA FirstTransferKept ==
  ASSUME TypeInv, [Next]_vars
  PROVE  ntransfers \in Nat /\ noise \in Nat /\ ntransfers' >= ntransfers /\ noise' >= noise
<1>0. ntransfers \in Nat /\ noise \in Nat
  BY TypedHere, CoreTypes
<1>1. CASE TransferBegin
  BY <1>0, <1>1 DEF TransferBegin
<1>2. CASE Noise
  BY <1>0, <1>2 DEF Noise
<1>3. CASE Sender
  <2>1. UNCHANGED <<ntransfers, noise>>
    BY <1>3 DEF Sender, Sync, SyncSkip, NextFrame, FrameAcked, FrameNaked,
       FrameFailed, FrameSkip, SendEOT, EOTAnswered, EOTSkip, Cancelled, Finish,
       SkipAnswer
  <2>. QED  BY <1>0, <2>1
<1>4. CASE UserCancel \/ TransferEnd \/ ReceiverStart \/ Receiver \/ UNCHANGED vars
  <2>1. UNCHANGED <<ntransfers, noise>>
    BY <1>4 DEF UserCancel, TransferEnd, ReceiverStart, Receiver, ReceiverSync,
       ReceiverFrame, ReceiverEOT, ReceiverDrops, Receives, vars
  <2>. QED  BY <1>0, <2>1
<1>. QED  BY <1>1, <1>2, <1>3, <1>4 DEF Next

LEMMA TransferInit == Init => TransferInv
<1>. SUFFICES ASSUME Init  PROVE Core
  BY DEF TransferInv
<1>0. /\ pc = "off" /\ k = 0 /\ ntransfers = 0 /\ noise = 0 /\ rstate = "off"
      /\ toRecv = <<>> /\ toSend = <<>> /\ rfile = <<>> /\ Len(<<>>) = 0
  BY EmptySeq DEF Init
<1>1. Steady(toRecv, k) /\ Cardinality(Damaged(toRecv)) = 0
  BY <1>0, EmptySteady, FS_EmptySet
<1>2. BeginInv /\ SenderInv
  BY <1>0 DEF BeginInv, SenderInv
<1>3. LineInv
  <2>1. 1 .. Len(toRecv) = {}
    BY <1>0
  <2>. QED  BY <1>0, <1>1, <2>1 DEF LineInv
<1>4. ReceiverInv
  BY <1>0 DEF ReceiverInv
<1>. QED  BY <1>2, <1>3, <1>4 DEF Core

LEMMA TransferStep == TypeInv /\ TransferInv /\ [Next]_vars => TransferInv'
<1>. SUFFICES ASSUME TypeInv, TransferInv, [Next]_vars,
                     ntransfers' <= 1, noise' < IdxMod - 1
              PROVE  Restarted' \/ Core'
  BY DEF TransferInv, FirstTransfer
<1>1. /\ ntransfers \in Nat /\ noise \in Nat
      /\ ntransfers' >= ntransfers /\ noise' >= noise
  BY FirstTransferKept
<1>2. ntransfers' \in Int /\ noise' \in Int
  <2>1. TypeInv'
    BY TypeStep
  <2>. QED  BY <2>1 DEF TypeInv, TypeOK
<1>3. ntransfers <= 1 /\ noise < IdxMod - 1
  BY <1>1, <1>2
<1>4. Restarted \/ Core
  BY <1>3 DEF TransferInv, FirstTransfer
<1>. QED  BY <1>3, <1>4, RestartedStep, CoreStep

-----------------------------------------------------------------------------
(* What the invariants say of the file the receiver has.                   *)
LEMMA FileHere ==
  /\ FullFile \in Seq(1 .. NFrames) /\ Len(FullFile) = NFrames
  /\ \A i \in 1 .. NFrames : FullFile[i] = i
BY DEF FullFile

LEMMA FilePrefix ==
  ASSUME rfile \in Seq(1 .. NFrames), Len(rfile) <= NFrames,
         \A i \in 1 .. Len(rfile) : rfile[i] = i
  PROVE  IsPrefix(rfile, FullFile)
<1>1. Len(rfile) \in Nat
  BY LenProperties
<1>2. SubSeq(rfile, 1, Len(rfile)) = rfile
  BY SubSeqFull
<1>3. SubSeq(FullFile, 1, Len(rfile)) = rfile
  <2>1. Len(rfile) \in 0 .. Len(FullFile)
    BY <1>1, FileHere
  <2>2. /\ SubSeq(FullFile, 1, Len(rfile)) \in Seq(1 .. NFrames)
        /\ Len(SubSeq(FullFile, 1, Len(rfile))) = Len(rfile)
        /\ \A i \in 1 .. Len(rfile) : SubSeq(FullFile, 1, Len(rfile))[i] = FullFile[i]
    BY <2>1, FileHere, CutAt
  <2>3. \A i \in 1 .. Len(rfile) : SubSeq(FullFile, 1, Len(rfile))[i] = rfile[i]
    BY <1>1, <2>2, FileHere
  <2>. QED  BY <2>2, <2>3, SeqEqual
<1>. QED  BY <1>1, <1>2, <1>3, FileHere DEF IsPrefix

LEMMA FileWhole ==
  ASSUME rfile \in Seq(1 .. NFrames), Len(rfile) = NFrames,
         \A i \in 1 .. Len(rfile) : rfile[i] = i
  PROVE  rfile = FullFile
<1>1. \A i \in 1 .. Len(rfile) : rfile[i] = FullFile[i]
  BY FileHere
<1>. QED  BY <1>1, FileHere, SeqEqual

(* The frames the receiver waits for are on the line.                      *)
LEMMA RestOnLine ==
  ASSUME Steady(toRecv, NFrames), Len(rfile) \in Nat,
         Num(toRecv, NFrames, 1) \in Nat,
         Len(rfile) < NFrames => Num(toRecv, NFrames, 1) <= Len(rfile) + 1,
         \A i \in 1 .. Len(rfile) : rfile[i] = i
  PROVE  1 .. NFrames \subseteq Stored \cup InFlight
<1>. SUFFICES ASSUME NEW m \in 1 .. NFrames  PROVE m \in Stored \cup InFlight
  OBVIOUS
<1>1. CASE m \in 1 .. Len(rfile)
  BY <1>1 DEF Stored
<1>2. CASE m > Len(rfile)
  <2>1. m \in Num(toRecv, NFrames, 1) .. NFrames
    BY <1>2
  <2>2. PICK i \in 1 .. Len(toRecv) : IsFrame(toRecv[i]) /\ toRecv[i].num = m
    BY <2>1 DEF Steady
  <2>. QED  BY <2>2 DEF InFlight, IsFrame
<1>. QED  BY <1>1, <1>2

LEMMA CoreStores ==
  ASSUME Typed, Restarted \/ Core
  PROVE  IsPrefix(rfile, FullFile)
<1>1. rfile \in Seq(1 .. NFrames) /\ k \in 0 .. NFrames /\ Len(rfile) \in Nat
  BY CoreTypes DEF Typed
<1>2. CASE Restarted
  <2>1. Len(rfile) = 0
    BY <1>2, EmptySeq DEF Restarted
  <2>. QED  BY <1>1, <2>1, FilePrefix
<1>3. CASE Core
  <2>1. Len(rfile) <= NFrames /\ \A i \in 1 .. Len(rfile) : rfile[i] = i
    BY <1>1, <1>3 DEF Core, ReceiverInv
  <2>. QED  BY <1>1, <2>1, FilePrefix
<1>. QED  BY <1>2, <1>3

LEMMA CoreCompletes ==
  ASSUME Typed, Restarted \/ Core, noise = 0,
         rstate \in {"complete", "closed"}, ~should_stop
  PROVE  rfile = FullFile
<1>1. Core
  BY DEF Restarted
<1>2. /\ rfile \in Seq(1 .. NFrames) /\ Len(rfile) = NFrames
      /\ \A i \in 1 .. Len(rfile) : rfile[i] = i
  BY <1>1 DEF Core, ReceiverInv, Typed
<1>. QED  BY <1>2, FileWhole

LEMMA CoreDelivers ==
  ASSUME Typed, Restarted \/ Core, noise = 0, pc = "done", ~failed,
         rstate \in {"receiving", "complete", "closed"}
  PROVE  1 .. NFrames \subseteq Stored \cup InFlight
<1>1. Core
  BY DEF Restarted
<1>2. /\ k = NFrames /\ Len(rfile) \in Nat /\ Expected = Len(rfile) + 1
      /\ Num(toRecv, k, 1) \in Nat /\ Cardinality(Damaged(toRecv)) \in Nat
      /\ \A i \in 1 .. Len(rfile) : rfile[i] = i
      /\ Steady(toRecv, k)
  BY <1>1, CoreTypes DEF Core, SenderInv, ReceiverInv, LineInv
<1>3. Len(rfile) < NFrames => Num(toRecv, k, 1) <= Len(rfile) + 1
  <2>1. CASE rstate = "receiving"
    <3>1. Num(toRecv, k, 1) - Expected + Cardinality(Damaged(toRecv)) <= 0
      BY <1>1, <2>1 DEF Core, ReceiverInv
    <3>. QED  BY <1>2, <3>1
  <2>2. CASE rstate \in {"complete", "closed"}
    BY <1>1, <1>2, <2>2 DEF Core, ReceiverInv
  <2>. QED  BY <2>1, <2>2
<1>. QED  BY <1>2, <1>3, RestOnLine

-----------------------------------------------------------------------------
(* Every variable keeps its type: the retries stay in their range, and the *)
(* frame that is awaited is one of the file (ProtoXmodem.cpp 94-226).      *)
THEOREM TypeCorrect == Spec => []TypeOK
<1>1. TypeInv => TypeOK
  BY DEF TypeInv
<1>. QED  BY <1>1, TypeInit, TypeStep, PTL DEF Spec

LEMMA TransferSafe == Spec => [](TypeInv /\ TransferInv)
BY TypeInit, TypeStep, TransferInit, TransferStep, PTL DEF Spec

(* What the receiver stored is the beginning of the file as long as the    *)
(* line damaged less than IdxMod - 1 frames and answers, 255 in the code:  *)
(* each damaged frame puts the receiver one frame further behind, and only *)
(* IdxMod - 1 frames behind it would take a later frame of the same index  *)
(* for the one it waits for (ProtoXmodem.cpp 94-147, 193-209).             *)
THEOREM StoredSafe == Spec => [](noise < IdxMod - 1 => StoredIsPrefix)
<1>1. TypeInv /\ TransferInv => (noise < IdxMod - 1 => StoredIsPrefix)
  BY TypedHere, CoreStores DEF TransferInv, FirstTransfer, StoredIsPrefix
<1>. QED  BY <1>1, TransferSafe, PTL

(* On a line without damage a receiver that took the file for complete has *)
(* all of it, unless the user cancelled: the repeated answers that let the *)
(* sender run ahead leave no frame out.                                    *)
THEOREM CompleteWhole == Spec => []CompleteIsWhole
<1>1. TypeInv /\ TransferInv => CompleteIsWhole
  BY TypedHere, CoreCompletes DEF TransferInv, FirstTransfer, CompleteIsWhole
<1>. QED  BY <1>1, TransferSafe, PTL

(* On a line without damage a transfer that did not fail has delivered     *)
(* every frame or has it on the way to the receiver.                       *)
THEOREM SuccessDelivered == Spec => []SuccessIsDelivered
<1>1. TypeInv /\ TransferInv => SuccessIsDelivered
  BY TypedHere, CoreDelivers DEF TransferInv, FirstTransfer, SuccessIsDelivered
<1>. QED  BY <1>1, TransferSafe, PTL
=============================================================================
