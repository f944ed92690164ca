--------------------------- MODULE VtConn_proofs ---------------------------
(***************************************************************************)
(* Theorems about VtConn, for every number of connections and of bytes and *)
(* every length of an unfinished tail.                                     *)
(***************************************************************************)
EXTENDS VtConn, SequenceLemmas, FiniteSetTheorems

USE TabAssumption
    DEF ioVars, rxVars, guiVars, history, Handlers, RxAlive

-----------------------------------------------------------------------------
(* A sequence of bytes holds bytes, and two of them together hold those of *)
(* both.                                                                   *)
LEMMA BytesOfType == \A s \in Seq(Byte) : BytesOf(s) \subseteq Byte
BY ElementOfSeq DEF BytesOf

LEMMA BytesOfConcat ==
  ASSUME NEW s \in Seq(Byte), NEW t \in Seq(Byte)
  PROVE  BytesOf(s \o t) = BytesOf(s) \cup BytesOf(t)
<1>1. Len(s) \in Nat /\ Len(t) \in Nat
  BY LenProperties
<1>2. /\ Len(s \o t) = Len(s) + Len(t)
      /\ \A i \in 1 .. Len(s) + Len(t) :
           (s \o t)[i] = IF i <= Len(s) THEN s[i] ELSE t[i - Len(s)]
  BY ConcatProperties
<1>3. ASSUME NEW b \in BytesOf(s \o t)  PROVE b \in BytesOf(s) \cup BytesOf(t)
  <2>1. PICK i \in 1 .. Len(s) + Len(t) : b = (s \o t)[i]
    BY <1>2, <1>3 DEF BytesOf
  <2>2. CASE i <= Len(s)
    BY <1>1, <1>2, <2>1, <2>2 DEF BytesOf
  <2>3. CASE i > Len(s)
    <3>1. i - Len(s) \in 1 .. Len(t) /\ b = t[i - Len(s)]
      BY <1>1, <1>2, <2>1, <2>3
    <3>. QED  BY <3>1 DEF BytesOf
  <2>. QED  BY <1>1, <2>1, <2>2, <2>3
<1>4. ASSUME NEW b \in BytesOf(s)  PROVE b \in BytesOf(s \o t)
  <2>1. PICK i \in 1 .. Len(s) : b = s[i]
    BY <1>4 DEF BytesOf
  <2>2. i \in 1 .. Len(s \o t) /\ b = (s \o t)[i]
    BY <1>1, <1>2, <2>1
  <2>. QED  BY <2>2 DEF BytesOf
<1>5. ASSUME NEW b \in BytesOf(t)  PROVE b \in BytesOf(s \o t)
  <2>1. PICK i \in 1 .. Len(t) : b = t[i]
    BY <1>5 DEF BytesOf
  <2>2. Len(s) + i \in 1 .. Len(s \o t) /\ b = (s \o t)[Len(s) + i]
    BY <1>1, <1>2, <2>1
  <2>. QED  BY <2>2 DEF BytesOf
<1>. QED  BY <1>3, <1>4, <1>5

LEMMA BytesOfFew ==
  /\ BytesOf(<<>>) = {}
  /\ \A b : BytesOf(<<b>>) = {b}
BY DEF BytesOf

-----------------------------------------------------------------------------
(* Reading n of the bytes that are ready keeps the device's types.         *)
LEMMA DeliverType ==
  ASSUME TypeOK, NEW n \in 0 .. ready, Deliver(n)
  PROVE  /\ got' \in Seq(Byte) /\ line' \in Seq(Byte)
         /\ SubSeq(line, 1, n) \in Seq(Byte)
         /\ Len(line') = Len(line) - n /\ ready' = ready - n
         /\ ready' \in 0 .. Len(line')
<1>. DEFINE front == SubSeq(line, 1, n)
<1>1. line \in Seq(Byte) /\ got \in Seq(Byte) /\ ready \in 0 .. Len(line)
  BY DEF TypeOK
<1>2. Len(line) \in Nat /\ n \in 0 .. Len(line)
  BY <1>1, LenProperties
<1>3. front \in Seq(Byte) /\ line' \in Seq(Byte) /\ Len(line') = Len(line) - n
  BY <1>1, <1>2, CutAt DEF Deliver
<1>4. got' \in Seq(Byte)
  BY <1>1, <1>3, ConcatProperties DEF Deliver
<1>. QED  BY <1>1, <1>2, <1>3, <1>4 DEF Deliver

(* So does a connection that ends.                                         *)
LEMMA BreakType ==
  ASSUME TypeOK, NEW n \in ready .. Len(line), Break(n)
  PROVE  line' \in Seq(Byte) /\ ready' = ready /\ ready' \in 0 .. Len(line')
<1>1. line \in Seq(Byte) /\ ready \in 0 .. Len(line)
  BY DEF TypeOK
<1>2. Len(line) \in Nat /\ n \in 0 .. Len(line)
  BY <1>1, LenProperties
<1>3. line' \in Seq(Byte) /\ Len(line') = n
  BY <1>1, <1>2, CutAt DEF Break
<1>. QED  BY <1>1, <1>2, <1>3 DEF Break

-----------------------------------------------------------------------------
(* The size RxProc carries from Available to ReadRaw is there only in      *)
(* between.  It stays below what the device holds because nothing but a    *)
(* reader takes bytes out, and that is why types need SingleReader: a file *)
(* transfer that read beside RxProc would take the bytes RxProc announced. *)
SizeInv == rxThr # "read" => sz = 0

TypeInv == TypeOK /\ SingleReader /\ SizeInv

LEMMA TypeInit == Init => TypeInv
<1>. SUFFICES ASSUME Init  PROVE TypeInv
  OBVIOUS
<1>1. <<>> \in Seq(Byte) /\ Len(<<>>) = 0
  BY EmptySeq
<1>2. nsent \in Nat /\ up \in BOOLEAN /\ mRxShouldStop \in BOOLEAN
  BY DEF Init, BSInit
<1>5. conn = 1
  BY DEF Init, BSInit
<1>6. /\ conn \in Nat \ {0} /\ icon \in 0 .. conn
      /\ posted \subseteq {Render} \cup {Exception(c) : c \in 1 .. conn}
  BY <1>5 DEF Init
<1>3. ready = 0 /\ sz = 0 /\ line = <<>> /\ got = <<>>
  BY DEF Init, BSInit
<1>4. ready \in 0 .. Len(line) /\ sz \in 0 .. ready
  BY <1>1, <1>3
<1>. QED  BY <1>1, <1>2, <1>3, <1>4, <1>6 DEF Init, TypeInv, TypeOK, SingleReader, SizeInv

LEMMA TypeStep == TypeInv /\ [Next]_vars => TypeInv'
<1>. SUFFICES ASSUME TypeInv, [Next]_vars  PROVE TypeInv'
  OBVIOUS
<1>. USE DEF TypeInv, SingleReader, SizeInv
<1>0. TypeOK
  OBVIOUS
<1>seq. /\ line \in Seq(Byte) /\ got \in Seq(Byte) /\ raw \in Seq(Byte)
        /\ mSeqs \in Seq(Byte) /\ rendered \in Seq(Byte) /\ jobGot \in Seq(Byte)
        /\ ready \in 0 .. Len(line) /\ sz \in 0 .. ready
        /\ Len(line) \in Nat /\ <<>> \in Seq(Byte)
  BY <1>0, LenProperties, EmptySeq DEF TypeOK
<1>1. CASE PeerSend
  <2>1. [conn |-> conn, seq |-> nsent + 1] \in Byte /\ nsent' \in Nat
    BY <1>0, <1>1 DEF PeerSend, Send, TypeOK, Byte
  <2>2. line' \in Seq(Byte) /\ Len(line') = Len(line) + 1
    BY <1>1, <2>1, <1>seq, AppendProperties DEF PeerSend, Send
  <2>3. ready' \in 0 .. Len(line') /\ sz' \in 0 .. ready'
    BY <1>1, <2>2, <1>seq DEF PeerSend, Send
  <2>. QED  BY <1>0, <1>1, <2>1, <2>2, <2>3 DEF PeerSend, Send, TypeOK
<1>2. CASE DeviceReceive
  <2>1. ready' \in 0 .. Len(line') /\ sz' \in 0 .. ready'
    BY <1>2, <1>seq DEF DeviceReceive, Receive
  <2>. QED  BY <1>0, <1>2, <2>1 DEF DeviceReceive, Receive, TypeOK
<1>3. CASE LinkBreak
  <2>1. PICK n \in ready .. Len(line) : Break(n)
    BY <1>3 DEF LinkBreak
  <2>2. line' \in Seq(Byte) /\ ready' = ready /\ ready' \in 0 .. Len(line')
    BY <1>0, <2>1, BreakType
  <2>. QED  BY <1>0, <1>3, <2>1, <2>2 DEF LinkBreak, Break, TypeOK
<1>4. CASE RxTest
  <2>1. raw' \in Seq(Byte) /\ lost' \subseteq Byte /\ rxThr' \in {"ended", "poll"}
    <3>1. CASE mRxShouldStop
      BY <1>0, <1>4, <1>seq, <3>1, BytesOfType DEF RxTest, RxEnds, TypeOK
    <3>2. CASE ~mRxShouldStop
      BY <1>0, <1>4, <1>seq, <3>2 DEF RxTest, TypeOK
    <3>. QED  BY <3>1, <3>2
  <2>. QED  BY <1>0, <1>4, <2>1 DEF RxTest, TypeOK
<1>5. CASE RxDead
  <2>1. raw' \in Seq(Byte) /\ lost' \subseteq Byte /\ rxThr' = "ended"
    BY <1>0, <1>5, <1>seq, BytesOfType DEF RxDead, RxEnds, TypeOK
  <2>2. posted' = posted \cup {Exception(conn)} /\ conn \in 1 .. conn
    BY <1>0, <1>5 DEF RxDead, TypeOK
  <2>3. posted' \subseteq {Render} \cup {Exception(c) : c \in 1 .. conn}
    BY <1>0, <2>2, Zenon DEF TypeOK
  <2>. QED  BY <1>0, <1>5, <2>1, <2>3 DEF RxDead, TypeOK
<1>6. CASE RxIdle
  <2>1. posted' \in {posted, posted \cup {Render}}
    BY <1>6 DEF RxIdle
  <2>. QED  BY <1>0, <1>6, <2>1 DEF RxIdle, TypeOK
<1>7. CASE RxAvailable
  BY <1>0, <1>7 DEF RxAvailable, TypeOK
<1>8. CASE RxRead
  <2>1. sz \in 0 .. ready /\ Deliver(sz)
    BY <1>8, <1>seq DEF RxRead
  <2>2. /\ got' \in Seq(Byte) /\ line' \in Seq(Byte)
        /\ SubSeq(line, 1, sz) \in Seq(Byte) /\ ready' \in 0 .. Len(line')
    BY <1>0, <2>1, DeliverType
  <2>3. raw' \in Seq(Byte)
    BY <1>8, <2>2, <1>seq, ConcatProperties DEF RxRead
  <2>4. sz' = 0 /\ sz' \in 0 .. ready'
    BY <1>8, <2>2 DEF RxRead
  <2>. QED  BY <1>0, <1>8, <2>1, <2>2, <2>3, <2>4 DEF RxRead, Deliver, TypeOK
<1>9. CASE RxParse
  <2>1. PICK m \in 0 .. Len(raw) :
                /\ mSeqs' = mSeqs \o SubSeq(raw, 1, Len(raw) - m)
                /\ raw' = SubSeq(raw, Len(raw) - m + 1, Len(raw))
    BY <1>9 DEF RxParse
  <2>2. Len(raw) \in Nat /\ Len(raw) - m \in 0 .. Len(raw)
    BY <1>seq, LenProperties
  <2>3. SubSeq(raw, 1, Len(raw) - m) \in Seq(Byte) /\ raw' \in Seq(Byte)
    BY <2>1, <2>2, <1>seq, CutAt
  <2>4. mSeqs' \in Seq(Byte)
    BY <2>1, <2>3, <1>seq, ConcatProperties
  <2>. QED  BY <1>0, <1>9, <2>3, <2>4 DEF RxParse, TypeOK
<1>10. CASE GuiRender
  <2>1. rendered' \in Seq(Byte) /\ mSeqs' \in Seq(Byte)
    BY <1>10, <1>seq, ConcatProperties DEF GuiRender
  <2>. QED  BY <1>0, <1>10, <2>1 DEF GuiRender, TypeOK
<1>11. CASE GuiException
  BY <1>0, <1>11 DEF GuiException, TypeOK
<1>12. ASSUME NEW h \in Handlers, StopBegin(h)  PROVE TypeInv'
  BY <1>0, <1>12 DEF StopBegin, TypeOK
<1>13. CASE Disconnect
  <2>1. PICK n \in ready .. Len(line) : Break(n)
    BY <1>13 DEF Disconnect
  <2>3. icon' \in 0 .. conn'
    BY <1>0, <1>13, <2>1 DEF Disconnect, Break, TypeOK
  <2>2. line' \in Seq(Byte) /\ ready' = ready /\ ready' \in 0 .. Len(line')
    BY <1>0, <2>1, BreakType
  <2>. QED  BY <1>0, <1>13, <2>1, <2>2, <2>3 DEF Disconnect, CanJoin, Break, TypeOK
<1>14. CASE CloseTab
  <2>1. PICK n \in ready .. Len(line) : Break(n)
    BY <1>14 DEF CloseTab
  <2>2. line' \in Seq(Byte) /\ ready' = ready /\ ready' \in 0 .. Len(line')
    BY <1>0, <2>1, BreakType
  <2>. QED  BY <1>0, <1>14, <2>1, <2>2 DEF CloseTab, CanJoin, Break, TypeOK
<1>15. CASE ReconnectDialog
  BY <1>0, <1>15 DEF ReconnectDialog, CanJoin, TypeOK
<1>16. CASE TransferBegin
  BY <1>0, <1>16 DEF TransferBegin, CanJoin, TypeOK
<1>17. CASE ReconnectCancel
  BY <1>0, <1>17 DEF ReconnectCancel, StartTerminal, TypeOK
<1>25. CASE ReconnectAtOnce
  <2>1. PICK n \in ready .. Len(line) : Break(n)
    BY <1>25 DEF ReconnectAtOnce
  <2>2. line' \in Seq(Byte) /\ ready' = ready /\ ready' \in 0 .. Len(line')
    BY <1>0, <2>1, BreakType
  <2>. QED  BY <1>0, <1>25, <2>1, <2>2 DEF ReconnectAtOnce, CanJoin, Break, TypeOK
<1>18. CASE ReconnectAccept
  <2>1. PICK n \in ready .. Len(line) : Break(n)
    BY <1>18 DEF ReconnectAccept
  <2>2. line' \in Seq(Byte) /\ ready' = ready /\ ready' \in 0 .. Len(line')
    BY <1>0, <2>1, BreakType
  <2>. QED  BY <1>0, <1>18, <2>1, <2>2 DEF ReconnectAccept, Break, TypeOK
<1>19. CASE ReconnectOk
  <2>1. conn' \in Nat \ {0} /\ nsent' \in Nat /\ up' \in BOOLEAN
    BY <1>0, <1>19 DEF ReconnectOk, Connect, TypeOK
  <2>2. posted' = posted /\ 1 .. conn \subseteq 1 .. conn' /\ icon' \in 0 .. conn'
    BY <1>0, <1>19 DEF ReconnectOk, Connect, TypeOK
  <2>3. posted' \subseteq {Render} \cup {Exception(c) : c \in 1 .. conn'}
    BY <1>0, <2>2, Zenon DEF TypeOK
  <2>. QED  BY <1>0, <1>19, <2>1, <2>2, <2>3 DEF ReconnectOk, Connect, StartTerminal, TypeOK
<1>20. CASE ReconnectFailed
  BY <1>0, <1>20 DEF ReconnectFailed, StartTerminal, TypeOK
<1>21. CASE TransferEnd
  BY <1>0, <1>21 DEF TransferEnd, StartTerminal, TypeOK
<1>22. CASE JobRead
  <2>1. 1 \in 0 .. ready /\ Deliver(1) /\ sz = 0
    BY <1>22, <1>seq DEF JobRead
  <2>2. /\ got' \in Seq(Byte) /\ line' \in Seq(Byte) /\ ready' \in 0 .. Len(line')
    BY <1>0, <2>1, DeliverType
  <2>3. line # <<>>
    BY <1>22, <1>seq, EmptySeq DEF JobRead
  <2>4. Head(line) \in Byte
    BY <2>3, <1>seq, HeadTailProperties
  <2>5. jobGot' \in Seq(Byte)
    BY <1>22, <2>4, <1>seq, AppendProperties DEF JobRead
  <2>6. sz' \in 0 .. ready'
    BY <1>22, <2>1, <2>2 DEF JobRead
  <2>. QED  BY <1>0, <1>22, <2>1, <2>2, <2>5, <2>6 DEF JobRead, Deliver, TypeOK
<1>23. CASE JobEnd
  BY <1>0, <1>23 DEF JobEnd, TypeOK
<1>24. CASE UNCHANGED vars
  BY <1>0, <1>24 DEF vars, TypeOK
<1>. QED
  BY <1>1, <1>2, <1>3, <1>4, <1>5, <1>6, <1>7, <1>8, <1>9, <1>10, <1>11,
     <1>12, <1>13, <1>14, <1>15, <1>16, <1>17, <1>18, <1>19, <1>20, <1>21,
     <1>22, <1>23, <1>24, <1>25
  DEF Next, RxProc, GuiEvents, GuiNext, GuiJoined

(* Every variable keeps its type: a Read never asks for more bytes than    *)
(* the device holds, although Available was called a step earlier.         *)
THEOREM TypeCorrect == Spec => []TypeOK
<1>1. TypeInv => TypeOK
  BY DEF TypeInv
<1>. QED  BY <1>1, TypeInit, TypeStep, PTL DEF Spec

(* mRxThr is never assigned while it is joinable, and the device is torn   *)
(* down, reconnected or lent to a file transfer only after the receiver    *)
(* was joined (SerialConnVT.cpp 114-128).                                  *)
THEOREM OneReader == Spec => []SingleReader
<1>1. TypeInv => SingleReader
  BY DEF TypeInv
<1>. QED  BY <1>1, TypeInit, TypeStep, PTL DEF Spec

-----------------------------------------------------------------------------
(* What a step does to the bytes the terminal has, as one sequence: the    *)
(* border between rendered, parsed and unparsed moves, but Shown itself    *)
(* changes only when RxProc reads, or drops raw.                           *)
Regroup == \A s, t, u \in Seq(Byte) : (s \o t) \o u = s \o (t \o u)

LineStep ==
  \/ UNCHANGED <<conn, nsent, line>>
  \/ Send
  \/ \E n \in ready .. Len(line) : Break(n)
  \/ Connect

ShownKept == UNCHANGED <<got, jobGot, lost, raw>> /\ Shown' = Shown /\ LineStep

ShownParsed == /\ UNCHANGED <<got, jobGot, lost, conn, nsent, line>>
               /\ Shown' = Shown

ShownRead == \E s \in Seq(Byte) :
               /\ line = s \o line'
               /\ got' = got \o s
               /\ Shown' = Shown \o s
               /\ UNCHANGED <<jobGot, lost, conn, nsent>>

ShownByJob == \E b \in Byte :
               /\ line = <<b>> \o line'
               /\ got' = got \o <<b>>
               /\ jobGot' = jobGot \o <<b>>
               /\ Shown' = Shown
               /\ UNCHANGED <<lost, conn, nsent>>

ShownDropped == \E s \in Seq(Byte) :
               /\ Shown = s \o raw
               /\ Shown' = s
               /\ lost' = lost \cup BytesOf(raw)
               /\ rxThr \in {"test", "poll"}
               /\ UNCHANGED <<got, jobGot, conn, nsent, line>>

LEMMA Regrouping == Regroup
BY ConcatAssociative DEF Regroup

LEMMA Grouping ==
  ASSUME NEW s \in Seq(Byte), NEW t \in Seq(Byte), NEW u \in Seq(Byte)
  PROVE  (s \o t) \o u = s \o (t \o u)
BY Regrouping DEF Regroup

LEMMA ShownType ==
  ASSUME TypeOK
  PROVE  /\ Shown \in Seq(Byte)
         /\ rendered \o mSeqs \in Seq(Byte)
         /\ Shown = (rendered \o mSeqs) \o raw
         /\ Len(Shown) \in Nat
<1>1. rendered \o mSeqs \in Seq(Byte)
  BY ConcatProperties DEF TypeOK
<1>2. Shown \in Seq(Byte)
  BY <1>1, ConcatProperties DEF TypeOK, Shown
<1>. QED  BY <1>1, <1>2, LenProperties DEF Shown

(* A loop that is left drops raw.                                          *)
LEMMA EndsDrop ==
  ASSUME TypeOK, RxEnds, rxThr \in {"test", "poll"},
         UNCHANGED <<ioVars, mSeqs, rendered, jobGot>>
  PROVE  ShownDropped
<1>. DEFINE s == rendered \o mSeqs
<1>1. s \in Seq(Byte) /\ Shown = s \o raw
  BY ShownType
<1>2. Shown' = s \o <<>>
  BY DEF Shown, RxEnds
<1>3. Shown' = s
  BY <1>1, <1>2, ConcatEmptySeq
<1>. QED  BY <1>1, <1>3 DEF ShownDropped, RxEnds

LEMMA ReadTakes == TypeOK /\ RxRead => ShownRead
<1>. SUFFICES ASSUME TypeOK, RxRead  PROVE ShownRead
  OBVIOUS
<1>. DEFINE s == rendered \o mSeqs
            front == SubSeq(line, 1, sz)
<1>1. s \in Seq(Byte) /\ Shown = s \o raw /\ raw \in Seq(Byte)
  BY ShownType DEF TypeOK
<1>2. line \in Seq(Byte) /\ Len(line) \in Nat /\ sz \in 0 .. Len(line)
  BY LenProperties DEF TypeOK
<1>3. front \in Seq(Byte) /\ line = front \o line'
  BY <1>2, CutAt DEF RxRead, Deliver
<1>4. Shown' = s \o (raw \o front)
  BY DEF Shown, RxRead
<1>5. Shown' = Shown \o front
  BY <1>1, <1>3, <1>4, Regrouping, Zenon DEF Regroup
<1>6. got' = got \o front /\ UNCHANGED <<jobGot, lost, conn, nsent>>
  BY DEF RxRead, Deliver
<1>. QED  BY <1>3, <1>5, <1>6 DEF ShownRead

LEMMA ParseMoves == TypeOK /\ RxParse => ShownParsed
<1>. SUFFICES ASSUME TypeOK, RxParse  PROVE ShownParsed
  OBVIOUS
<1>1. PICK m \in 0 .. Len(raw) :
              /\ mSeqs' = mSeqs \o SubSeq(raw, 1, Len(raw) - m)
              /\ raw' = SubSeq(raw, Len(raw) - m + 1, Len(raw))
  BY DEF RxParse
<1>2. /\ rendered \in Seq(Byte) /\ mSeqs \in Seq(Byte) /\ raw \in Seq(Byte)
      /\ Len(raw) \in Nat /\ Len(raw) - m \in 0 .. Len(raw)
  BY LenProperties DEF TypeOK
<1>3. PICK p \in Seq(Byte), q \in Seq(Byte) :
              p \o q = raw /\ mSeqs' = mSeqs \o p /\ raw' = q
  <2>. DEFINE p == SubSeq(raw, 1, Len(raw) - m)
              q == SubSeq(raw, Len(raw) - m + 1, Len(raw))
  <2>1. p \in Seq(Byte) /\ q \in Seq(Byte) /\ p \o q = raw
    BY <1>2, CutAt
  <2>2. mSeqs' = mSeqs \o p /\ raw' = q
    BY <1>1
  <2>. HIDE DEF p, q
  <2>. QED  BY <2>1, <2>2
<1>4. rendered \o mSeqs \in Seq(Byte) /\ Shown = (rendered \o mSeqs) \o raw
  BY ShownType
<1>5. Shown' = (rendered \o (mSeqs \o p)) \o q
  BY <1>3 DEF Shown, RxParse
<1>6. (rendered \o mSeqs) \o p = rendered \o (mSeqs \o p)
  <2>1. rendered \in Seq(Byte) /\ mSeqs \in Seq(Byte) /\ p \in Seq(Byte)
    BY <1>2
  <2>. QED  BY <2>1, Grouping, Zenon
<1>7. ((rendered \o mSeqs) \o p) \o q = (rendered \o mSeqs) \o (p \o q)
  BY <1>4, Grouping, Zenon
<1>8. Shown' = Shown
  BY <1>3, <1>4, <1>5, <1>6, <1>7
<1>. QED  BY <1>8 DEF ShownParsed, RxParse

LEMMA RenderMoves == TypeOK /\ GuiRender => ShownParsed
<1>. SUFFICES ASSUME TypeOK, GuiRender  PROVE ShownParsed
  OBVIOUS
<1>1. rendered \o mSeqs \in Seq(Byte) /\ Shown = (rendered \o mSeqs) \o raw
  BY ShownType
<1>2. Shown' = ((rendered \o mSeqs) \o <<>>) \o raw
  BY DEF Shown, GuiRender
<1>3. (rendered \o mSeqs) \o <<>> = rendered \o mSeqs
  BY <1>1, ConcatEmptySeq
<1>. QED  BY <1>1, <1>2, <1>3 DEF ShownParsed, GuiRender

LEMMA JobTakes == TypeOK /\ JobRead => ShownByJob
<1>. SUFFICES ASSUME TypeOK, JobRead  PROVE ShownByJob
  OBVIOUS
<1>1. /\ line \in Seq(Byte) /\ Len(line) \in Nat /\ 1 \in 0 .. Len(line)
      /\ line # <<>> /\ jobGot \in Seq(Byte)
  BY LenProperties, EmptySeq DEF TypeOK, JobRead
<1>2. /\ Head(line) \in Byte
      /\ SubSeq(line, 1, 1) = <<Head(line)>>
  BY <1>1, FirstOf
<1>3. line = SubSeq(line, 1, 1) \o line'
  BY <1>1, CutAt DEF JobRead, Deliver
<1>5. jobGot' = jobGot \o <<Head(line)>>
  BY <1>1, <1>2, AppendIsConcat DEF JobRead
<1>6. got' = got \o SubSeq(line, 1, 1) /\ UNCHANGED <<lost, conn, nsent>>
  BY DEF JobRead, Deliver
<1>7. Shown' = Shown
  BY DEF Shown, JobRead
<1>. QED  BY <1>2, <1>3, <1>5, <1>6, <1>7 DEF ShownByJob

(* Every step is one of the five.                                          *)
LEMMA ShownStep ==
  ASSUME TypeInv, [Next]_vars
  PROVE  ShownKept \/ ShownParsed \/ ShownRead \/ ShownByJob \/ ShownDropped
<1>0. TypeOK
  BY DEF TypeInv
<1>. USE DEF Shown, ShownKept, LineStep
<1>1. CASE PeerSend
  BY <1>1 DEF PeerSend, Send
<1>2. CASE DeviceReceive
  BY <1>2 DEF DeviceReceive, Receive
<1>3. CASE LinkBreak
  BY <1>3 DEF LinkBreak, Break
<1>4. CASE RxTest
  <2>1. CASE mRxShouldStop
    BY <1>0, <1>4, <2>1, EndsDrop DEF RxTest
  <2>2. CASE ~mRxShouldStop
    BY <1>4, <2>2 DEF RxTest
  <2>. QED  BY <2>1, <2>2
<1>5. CASE RxDead
  BY <1>0, <1>5, EndsDrop DEF RxDead
<1>6. CASE RxIdle \/ RxAvailable
  BY <1>6 DEF RxIdle, RxAvailable
<1>7. CASE RxRead
  BY <1>0, <1>7, ReadTakes
<1>8. CASE RxParse
  BY <1>0, <1>8, ParseMoves
<1>9. CASE GuiRender
  BY <1>0, <1>9, RenderMoves
<1>10. CASE GuiException
  BY <1>10 DEF GuiException
<1>11. CASE \E h \in Handlers : StopBegin(h)
  BY <1>11 DEF StopBegin
<1>12. CASE Disconnect
  BY <1>12 DEF Disconnect, Break
<1>13. CASE CloseTab
  BY <1>13 DEF CloseTab, Break
<1>14. CASE ReconnectDialog \/ TransferBegin
  BY <1>14 DEF ReconnectDialog, TransferBegin
<1>15. CASE ReconnectCancel \/ ReconnectFailed
  BY <1>15 DEF ReconnectCancel, ReconnectFailed
<1>16. CASE ReconnectAccept \/ ReconnectAtOnce
  BY <1>16 DEF ReconnectAccept, ReconnectAtOnce, Break
<1>17. CASE ReconnectOk
  BY <1>17 DEF ReconnectOk, Connect
<1>18. CASE TransferEnd \/ JobEnd
  BY <1>18 DEF TransferEnd, JobEnd
<1>19. CASE JobRead
  BY <1>0, <1>19, JobTakes
<1>20. CASE UNCHANGED vars
  BY <1>20 DEF vars
<1>. QED
  BY <1>1, <1>2, <1>3, <1>4, <1>5, <1>6, <1>7, <1>8, <1>9, <1>10, <1>11,
     <1>12, <1>13, <1>14, <1>15, <1>16, <1>17, <1>18, <1>19, <1>20
  DEF Next, RxProc, GuiEvents, GuiNext, GuiJoined

-----------------------------------------------------------------------------
(* The bytes on the screen and those on their way to it are in the order   *)
(* in which they were sent.  ShownInOrder speaks of neighbours; every pair *)
(* is what a cut in the middle preserves.  A byte to come is newer than    *)
(* all of them because each one is Known: sent already.                    *)
Ordered(s) == \A i, j \in 1 .. Len(s) : i < j => Before(s[i], s[j])

Known(b) == b.conn < conn \/ (b.conn = conn /\ b.seq <= nsent)

OrderInv == /\ Ordered(Shown \o line)
            /\ \A b \in BytesOf(Shown \o line) : Known(b)

AllBefore(s, t) == \A a \in BytesOf(s), b \in BytesOf(t) : Before(a, b)

LEMMA OrderedConcat ==
  ASSUME NEW s \in Seq(Byte), NEW t \in Seq(Byte)
  PROVE  Ordered(s \o t) <=> Ordered(s) /\ Ordered(t) /\ AllBefore(s, t)
<1>. DEFINE st == s \o t
<1>1. Len(s) \in Nat /\ Len(t) \in Nat
  BY LenProperties
<1>2. /\ Len(st) = Len(s) + Len(t)
      /\ \A i \in 1 .. Len(s) + Len(t) :
           st[i] = IF i <= Len(s) THEN s[i] ELSE t[i - Len(s)]
  BY ConcatProperties
<1>. HIDE DEF st
<1>3. \A i \in 1 .. Len(s) : i \in 1 .. Len(st) /\ st[i] = s[i]
  BY <1>1, <1>2
<1>4. ASSUME NEW i \in 1 .. Len(t)
      PROVE  Len(s) + i \in 1 .. Len(st) /\ st[Len(s) + i] = t[i]
  <2>1. Len(s) + i \in 1 .. Len(s) + Len(t) /\ ~(Len(s) + i <= Len(s))
    BY <1>1
  <2>2. Len(s) + i - Len(s) = i
    BY <1>1
  <2>. QED  BY <1>2, <2>1, <2>2
<1>5. ASSUME Ordered(st)  PROVE Ordered(s) /\ Ordered(t) /\ AllBefore(s, t)
  <2>1. Ordered(s)
    BY <1>3, <1>5 DEF Ordered
  <2>2. ASSUME NEW i \in 1 .. Len(t), NEW j \in 1 .. Len(t), i < j
        PROVE  Before(t[i], t[j])
    <3>1. Len(s) + i < Len(s) + j
      BY <1>1, <2>2
    <3>. QED  BY <1>4, <1>5, <3>1 DEF Ordered
  <2>3. ASSUME NEW i \in 1 .. Len(s), NEW j \in 1 .. Len(t)
        PROVE  Before(s[i], t[j])
    <3>1. i < Len(s) + j
      BY <1>1
    <3>. QED  BY <1>3, <1>4, <1>5, <3>1 DEF Ordered
  <2>. QED  BY <2>1, <2>2, <2>3 DEF Ordered, AllBefore, BytesOf
<1>6. ASSUME Ordered(s), Ordered(t), AllBefore(s, t),
             NEW i \in 1 .. Len(st), NEW j \in 1 .. Len(st), i < j
      PROVE  Before(st[i], st[j])
  <2>1. CASE j <= Len(s)
    BY <1>1, <1>2, <1>6, <2>1 DEF Ordered
  <2>2. CASE i > Len(s)
    <3>1. /\ i - Len(s) \in 1 .. Len(t) /\ j - Len(s) \in 1 .. Len(t)
          /\ i - Len(s) < j - Len(s)
          /\ st[i] = t[i - Len(s)] /\ st[j] = t[j - Len(s)]
      BY <1>1, <1>2, <1>6, <2>2
    <3>. QED  BY <1>6, <3>1 DEF Ordered
  <2>3. CASE i <= Len(s) /\ j > Len(s)
    <3>1. /\ i \in 1 .. Len(s) /\ st[i] = s[i]
          /\ j - Len(s) \in 1 .. Len(t) /\ st[j] = t[j - Len(s)]
      BY <1>1, <1>2, <1>6, <2>3
    <3>. QED  BY <1>6, <3>1 DEF AllBefore, BytesOf
  <2>. QED  BY <1>1, <1>2, <2>1, <2>2, <2>3
<1>. QED  BY <1>5, <1>6 DEF Ordered, st

(* Taking a middle part out leaves the rest ordered.                       *)
LEMMA DropMiddle ==
  ASSUME NEW s \in Seq(Byte), NEW t \in Seq(Byte), NEW u \in Seq(Byte)
  PROVE  /\ Ordered((s \o t) \o u) => Ordered(s \o u)
         /\ BytesOf(s \o u) \subseteq BytesOf((s \o t) \o u)
<1>1. s \o t \in Seq(Byte)
  BY ConcatProperties
<1>2. /\ BytesOf(s \o t) = BytesOf(s) \cup BytesOf(t)
      /\ BytesOf((s \o t) \o u) = BytesOf(s \o t) \cup BytesOf(u)
      /\ BytesOf(s \o u) = BytesOf(s) \cup BytesOf(u)
  BY <1>1, BytesOfConcat
<1>3. ASSUME Ordered((s \o t) \o u)  PROVE Ordered(s \o u)
  <2>1. Ordered(s \o t) /\ Ordered(u) /\ AllBefore(s \o t, u)
    BY <1>1, <1>3, OrderedConcat
  <2>2. Ordered(s)
    BY <2>1, OrderedConcat
  <2>3. AllBefore(s, u)
    BY <1>2, <2>1 DEF AllBefore
  <2>. QED  BY <2>1, <2>2, <2>3, OrderedConcat
<1>. QED  BY <1>2, <1>3

LEMMA SendKeepsOrder ==
  ASSUME TypeOK, OrderInv, Send, Shown' = Shown  PROVE OrderInv'
<1>. DEFINE q == Shown \o line
            b == [conn |-> conn, seq |-> nsent + 1]
<1>1. Shown \in Seq(Byte) /\ line \in Seq(Byte) /\ q \in Seq(Byte)
  BY ShownType, ConcatProperties DEF TypeOK
<1>2. b \in Byte /\ <<b>> \in Seq(Byte) /\ conn \in Nat /\ nsent \in Nat
  BY DEF TypeOK, Byte
<1>3. Shown' \o line' = q \o <<b>>
  <2>1. line' = line \o <<b>>
    BY <1>1, <1>2, AppendIsConcat DEF Send
  <2>. HIDE DEF b
  <2>2. (Shown \o line) \o <<b>> = Shown \o (line \o <<b>>)
    BY <1>1, <1>2, Grouping
  <2>. QED  BY <2>1, <2>2
<1>4. BytesOf(Shown' \o line') = BytesOf(q) \cup {b}
  BY <1>1, <1>2, <1>3, BytesOfConcat, BytesOfFew
<1>5. \A a \in BytesOf(q) : a \in Byte /\ Known(a)
  BY <1>1, BytesOfType DEF OrderInv
<1>6. \A a \in BytesOf(q) : Before(a, b)
  BY <1>2, <1>5 DEF Known, Before, Byte
<1>7. Ordered(<<b>>)
  BY DEF Ordered
<1>8. Ordered(Shown' \o line')
  <2>1. AllBefore(q, <<b>>)
    BY <1>6, BytesOfFew DEF AllBefore
  <2>2. Ordered(q)
    BY DEF OrderInv
  <2>. HIDE DEF b, q
  <2>3. Ordered(q \o <<b>>)
    BY <1>1, <1>2, <1>7, <2>1, <2>2, OrderedConcat
  <2>. QED  BY <1>3, <2>3
<1>9. \A a \in BytesOf(q) \cup {b} : Known(a)'
  BY <1>2, <1>5 DEF Known, Send, Byte
<1>. QED  BY <1>4, <1>8, <1>9 DEF OrderInv

LEMMA BreakKeepsOrder ==
  ASSUME TypeOK, OrderInv, Shown' = Shown,
         NEW n \in ready .. Len(line), Break(n)
  PROVE  OrderInv'
<1>1. Shown \in Seq(Byte) /\ line \in Seq(Byte) /\ Len(line) \in Nat
  BY ShownType, LenProperties DEF TypeOK
<1>2. n \in 0 .. Len(line)
  BY <1>1 DEF TypeOK
<1>3. PICK rest \in Seq(Byte) : line' \in Seq(Byte) /\ line = line' \o rest
  BY <1>1, <1>2, CutAt DEF Break
<1>. DEFINE q == Shown \o line'
<1>4. q \in Seq(Byte) /\ Shown \o line = q \o rest
  <2>1. q \in Seq(Byte)
    BY <1>1, <1>3, ConcatProperties
  <2>2. (Shown \o line') \o rest = Shown \o (line' \o rest)
    <3>1. Shown \in Seq(Byte) /\ line' \in Seq(Byte) /\ rest \in Seq(Byte)
      BY <1>1, <1>3
    <3>. QED  BY <3>1, Grouping, Zenon
  <2>. QED  BY <1>3, <2>1, <2>2
<1>5. Ordered(q) /\ BytesOf(q) \subseteq BytesOf(Shown \o line)
  BY <1>3, <1>4, OrderedConcat, BytesOfConcat DEF OrderInv
<1>6. (Shown \o line)' = q
  OBVIOUS
<1>7. \A b \in BytesOf(Shown \o line) : Known(b)'
  BY DEF OrderInv, Known, Break
<1>. HIDE DEF q
<1>. QED  BY <1>5, <1>6, <1>7 DEF OrderInv

LEMMA OrderStep == TypeInv /\ OrderInv /\ [Next]_vars => OrderInv'
<1>. SUFFICES ASSUME TypeInv, OrderInv, [Next]_vars  PROVE OrderInv'
  OBVIOUS
<1>0. TypeOK /\ TypeOK'
  BY TypeStep DEF TypeInv
<1>1. /\ Shown \in Seq(Byte) /\ line \in Seq(Byte) /\ line' \in Seq(Byte)
      /\ Shown \o line \in Seq(Byte) /\ raw \in Seq(Byte)
      /\ conn \in Nat /\ nsent \in Nat
  BY <1>0, ShownType, ConcatProperties DEF TypeOK
<1>2. CASE ShownKept
  <2>1. CASE UNCHANGED <<conn, nsent, line>>
    BY <1>2, <2>1 DEF ShownKept, OrderInv, Known
  <2>2. CASE Send
    BY <1>0, <1>2, <2>2, SendKeepsOrder DEF ShownKept
  <2>3. CASE \E n \in ready .. Len(line) : Break(n)
    BY <1>0, <1>2, <2>3, BreakKeepsOrder DEF ShownKept
  <2>4. CASE Connect
    <3>1. \A b \in BytesOf(Shown \o line) : b \in Byte /\ Known(b)
      BY <1>1, BytesOfType DEF OrderInv
    <3>2. ASSUME NEW b \in BytesOf(Shown \o line)  PROVE Known(b)'
      <4>1. b.conn \in Nat /\ b.conn <= conn /\ conn' = conn + 1
        BY <1>1, <2>4, <3>1 DEF Known, Connect, Byte
      <4>. QED  BY <1>1, <4>1 DEF Known
    <3>. QED  BY <1>2, <2>4, <3>2 DEF ShownKept, Connect, OrderInv
  <2>. QED  BY <1>2, <2>1, <2>2, <2>3, <2>4 DEF ShownKept, LineStep
<1>3. CASE ShownParsed
  BY <1>3 DEF ShownParsed, OrderInv, Known
<1>4. CASE ShownRead
  <2>1. PICK s \in Seq(Byte) : /\ line = s \o line' /\ Shown' = Shown \o s
                               /\ UNCHANGED <<conn, nsent>>
    BY <1>4 DEF ShownRead
  <2>2. Shown' \o line' = Shown \o line
    BY <1>1, <2>1, Regrouping DEF Regroup
  <2>. QED  BY <2>1, <2>2 DEF OrderInv, Known
<1>5. CASE ShownByJob
  <2>1. PICK b \in Byte : /\ line = <<b>> \o line' /\ Shown' = Shown
                          /\ UNCHANGED <<conn, nsent>>
    BY <1>5 DEF ShownByJob
  <2>2. <<b>> \in Seq(Byte)
    OBVIOUS
  <2>3. Shown \o line = (Shown \o <<b>>) \o line'
    <3>1. line' \in Seq(Byte) /\ Shown \in Seq(Byte)
      BY <1>1
    <3>2. (Shown \o <<b>>) \o line' = Shown \o (<<b>> \o line')
      BY <2>2, <3>1, Grouping
    <3>. QED  BY <2>1, <3>2, Zenon
  <2>4. /\ Ordered(Shown \o line')
        /\ BytesOf(Shown \o line') \subseteq BytesOf(Shown \o line)
    BY <1>1, <2>2, <2>3, DropMiddle DEF OrderInv
  <2>. QED  BY <2>1, <2>4 DEF OrderInv, Known
<1>6. CASE ShownDropped
  <2>1. PICK s \in Seq(Byte) : /\ Shown = s \o raw /\ Shown' = s
                               /\ UNCHANGED <<conn, nsent, line>>
    BY <1>6 DEF ShownDropped
  <2>2. /\ Ordered(s \o line)
        /\ BytesOf(s \o line) \subseteq BytesOf(Shown \o line)
    BY <1>1, <2>1, DropMiddle DEF OrderInv
  <2>. QED  BY <2>1, <2>2 DEF OrderInv, Known
<1>. QED  BY ShownStep, <1>2, <1>3, <1>4, <1>5, <1>6

(* The screen shows the bytes in the order in which they were sent, across *)
(* posted renders, restarts of the receiver and reconnections.             *)
THEOREM ScreenInOrder == Spec => []ShownInOrder
<1>1. Init => OrderInv
  BY ConcatEmptySeq, EmptySeq DEF Init, BSInit, OrderInv, Shown, Ordered, BytesOf
<1>2. TypeInv /\ OrderInv => ShownInOrder
  <2>. SUFFICES ASSUME TypeOK, OrderInv  PROVE ShownInOrder
    BY DEF TypeInv
  <2>1. Shown \in Seq(Byte) /\ line \in Seq(Byte) /\ Len(Shown) \in Nat
    BY ShownType DEF TypeOK
  <2>2. Ordered(Shown)
    BY <2>1, OrderedConcat DEF OrderInv
  <2>. QED  BY <2>1, <2>2 DEF Ordered, ShownInOrder
<1>. QED  BY <1>1, <1>2, TypeInit, TypeStep, OrderStep, PTL DEF Spec

-----------------------------------------------------------------------------
LEMMA AccountStep == TypeInv /\ BytesAccounted /\ [Next]_vars => BytesAccounted'
<1>. SUFFICES ASSUME TypeInv, BytesAccounted, [Next]_vars  PROVE BytesAccounted'
  OBVIOUS
<1>1. /\ Shown \in Seq(Byte) /\ got \in Seq(Byte) /\ jobGot \in Seq(Byte)
      /\ raw \in Seq(Byte)
      /\ Len(Shown) \in Nat /\ Len(got) \in Nat /\ Len(jobGot) \in Nat
  BY ShownType, LenProperties DEF TypeInv, TypeOK
<1>2. CASE ShownKept \/ ShownParsed
  BY <1>2 DEF ShownKept, ShownParsed, BytesAccounted
<1>3. CASE ShownRead
  <2>1. PICK s \in Seq(Byte) : /\ got' = got \o s /\ Shown' = Shown \o s
                               /\ UNCHANGED <<jobGot, lost>>
    BY <1>3 DEF ShownRead
  <2>2. /\ BytesOf(got') = BytesOf(got) \cup BytesOf(s)
        /\ BytesOf(Shown') = BytesOf(Shown) \cup BytesOf(s)
    BY <1>1, <2>1, BytesOfConcat
  <2>3. /\ Len(got') = Len(got) + Len(s) /\ Len(Shown') = Len(Shown) + Len(s)
        /\ Len(s) \in Nat
    BY <1>1, <2>1, ConcatProperties, LenProperties
  <2>4. BytesOf(got') = BytesOf(Shown') \cup BytesOf(jobGot') \cup lost'
    BY <2>1, <2>2 DEF BytesAccounted
  <2>5. Len(got') >= Len(Shown') + Len(jobGot')
    BY <1>1, <2>1, <2>3 DEF BytesAccounted
  <2>. QED  BY <2>4, <2>5 DEF BytesAccounted
<1>4. CASE ShownByJob
  <2>1. PICK b \in Byte : /\ got' = got \o <<b>> /\ jobGot' = jobGot \o <<b>>
                          /\ Shown' = Shown /\ UNCHANGED lost
    BY <1>4 DEF ShownByJob
  <2>2. <<b>> \in Seq(Byte) /\ Len(<<b>>) = 1
    OBVIOUS
  <2>3. /\ BytesOf(got') = BytesOf(got) \cup {b}
        /\ BytesOf(jobGot') = BytesOf(jobGot) \cup {b}
    <3>1. /\ BytesOf(got \o <<b>>) = BytesOf(got) \cup BytesOf(<<b>>)
          /\ BytesOf(jobGot \o <<b>>) = BytesOf(jobGot) \cup BytesOf(<<b>>)
      BY <1>1, <2>2, BytesOfConcat
    <3>. QED  BY <2>1, <3>1, BytesOfFew
  <2>4. Len(got') = Len(got) + 1 /\ Len(jobGot') = Len(jobGot) + 1
    BY <1>1, <2>1, <2>2, ConcatProperties
  <2>5. BytesOf(got') = BytesOf(Shown') \cup BytesOf(jobGot') \cup lost'
    BY <2>1, <2>3 DEF BytesAccounted
  <2>6. Len(got') >= Len(Shown') + Len(jobGot')
    BY <1>1, <2>1, <2>4 DEF BytesAccounted
  <2>. QED  BY <2>5, <2>6 DEF BytesAccounted
<1>5. CASE ShownDropped
  <2>1. PICK s \in Seq(Byte) : /\ Shown = s \o raw /\ Shown' = s
                               /\ lost' = lost \cup BytesOf(raw)
                               /\ UNCHANGED <<got, jobGot>>
    BY <1>5 DEF ShownDropped
  <2>2. BytesOf(Shown) = BytesOf(s) \cup BytesOf(raw)
    BY <1>1, <2>1, BytesOfConcat
  <2>3. Len(Shown) = Len(s) + Len(raw) /\ Len(s) \in Nat /\ Len(raw) \in Nat
    BY <1>1, <2>1, ConcatProperties, LenProperties
  <2>4. BytesOf(got') = BytesOf(Shown') \cup BytesOf(jobGot') \cup lost'
    BY <2>1, <2>2 DEF BytesAccounted
  <2>5. Len(got') >= Len(Shown') + Len(jobGot')
    BY <1>1, <2>1, <2>3 DEF BytesAccounted
  <2>. QED  BY <2>4, <2>5 DEF BytesAccounted
<1>. QED  BY ShownStep, <1>2, <1>3, <1>4, <1>5

(* Every byte the device delivered is on the screen, parsed, in raw, with  *)
(* a file transfer, or dropped by a receiver that ended; none is shown     *)
(* twice, although RxProc and the GUI thread share mSeqs.                  *)
THEOREM NoByteUnaccounted == Spec => []BytesAccounted
<1>1. Init => BytesAccounted
  <2>1. <<>> \in Seq(Byte) /\ Len(<<>>) = 0
    BY EmptySeq
  <2>. SUFFICES ASSUME Init  PROVE BytesAccounted
    OBVIOUS
  <2>2. got = <<>> /\ jobGot = <<>> /\ lost = {}
    BY DEF Init, BSInit
  <2>3. Shown = <<>>
    BY <2>1, ConcatEmptySeq DEF Init, Shown
  <2>4. BytesOf(got) = BytesOf(Shown) \cup BytesOf(jobGot) \cup lost
    BY <2>2, <2>3, BytesOfFew
  <2>5. Len(got) >= Len(Shown) + Len(jobGot)
    BY <2>1, <2>2, <2>3
  <2>. QED  BY <2>4, <2>5 DEF BytesAccounted
<1>. QED  BY <1>1, TypeInit, TypeStep, AccountStep, PTL DEF Spec

-----------------------------------------------------------------------------
(* ImageIsTruthful is not inductive: the exception image, or the callback  *)
(* that will set it, is there for the present connection only while that   *)
(* is down.  With a device that asks it is there for no other: a new       *)
(* connection finds no such callback, because the dialog that made it ran  *)
(* the queue empty and no receiver was there to post again.                *)
IconInv == /\ up => icon # conn /\ Exception(conn) \notin posted
           /\ asks /\ up => /\ icon = 0
                           /\ \A c \in 1 .. conn : Exception(c) \notin posted
           /\ asks /\ gui = "redial" => posted = {}

LEMMA IconStep == TypeInv /\ IconInv /\ [Next]_vars => IconInv'
<1>. SUFFICES ASSUME TypeInv, IconInv, [Next]_vars  PROVE IconInv'
  OBVIOUS
<1>. USE DEF IconInv, TypeInv, SingleReader
<1>0. /\ \A c : Render # Exception(c)
      /\ \A b, c : Exception(b) = Exception(c) => b = c
      /\ conn \in Nat /\ icon \in 0 .. conn
      /\ posted \subseteq {Render} \cup {Exception(c) : c \in 1 .. conn}
  BY DEF Render, Exception, TypeOK
<1>1. CASE PeerSend \/ DeviceReceive \/ LinkBreak
  BY <1>1 DEF PeerSend, DeviceReceive, LinkBreak, Send, Receive, Break
<1>2. CASE RxTest \/ RxAvailable \/ RxRead
  BY <1>2 DEF RxTest, RxAvailable, RxRead, Deliver
<1>3. CASE RxDead
  BY <1>3 DEF RxDead
<1>4. CASE RxIdle \/ RxParse
  <2>1. /\ posted' \subseteq posted \cup {Render} /\ gui' # "redial"
        /\ UNCHANGED <<up, conn, icon, asks>>
    BY <1>4 DEF RxIdle, RxParse
  <2>. QED  BY <1>0, <2>1
<1>6. CASE GuiRender
  BY <1>6 DEF GuiRender, InEventLoop
<1>6a. CASE GuiException
  <2>1. PICK c \in 1 .. conn : /\ Exception(c) \in posted
                               /\ posted' = posted \ {Exception(c)}
                               /\ icon' = c
    BY <1>6a DEF GuiException
  <2>2. up => c # conn /\ ~asks
    BY <2>1
  <2>3. gui' # "redial" /\ UNCHANGED <<up, conn, asks>>
    BY <1>6a DEF GuiException, InEventLoop
  <2>. QED  BY <2>1, <2>2, <2>3
<1>7. CASE \E h \in Handlers : StopBegin(h)
  BY <1>7 DEF StopBegin
<1>8. CASE Disconnect \/ CloseTab
  BY <1>8 DEF Disconnect, CloseTab, Break
<1>9. CASE ReconnectDialog \/ TransferBegin
  BY <1>9 DEF ReconnectDialog, TransferBegin
<1>10. CASE ReconnectCancel \/ ReconnectFailed \/ TransferEnd
  BY <1>10 DEF ReconnectCancel, ReconnectFailed, TransferEnd
<1>11. CASE ReconnectAccept \/ ReconnectAtOnce
  BY <1>11 DEF ReconnectAccept, ReconnectAtOnce, Break
<1>12. CASE ReconnectOk
  <2>1. /\ gui = "redial" /\ conn' = conn + 1 /\ icon' = 0 /\ gui' = "idle"
        /\ UNCHANGED <<posted, asks>>
    BY <1>12 DEF ReconnectOk, Connect
  <2>2. conn + 1 \notin 1 .. conn /\ conn + 1 # 0
    BY <1>0
  <2>3. Exception(conn + 1) \notin posted
    BY <1>0, <2>2
  <2>4. asks => \A c : Exception(c) \notin posted
    BY <2>1
  <2>. QED  BY <2>1, <2>2, <2>3, <2>4
<1>13. CASE JobRead \/ JobEnd
  BY <1>13 DEF JobRead, JobEnd, Deliver
<1>14. CASE UNCHANGED vars
  BY <1>14 DEF vars
<1>. QED
  BY <1>1, <1>2, <1>3, <1>4, <1>6, <1>6a, <1>7, <1>8, <1>9, <1>10, <1>11,
     <1>12, <1>13, <1>14
  DEF Next, RxProc, GuiEvents, GuiNext, GuiJoined

(* A tab never shows the exception image over a receiver on a sound        *)
(* connection if its device asks before it reconnects, that is, if the     *)
(* callbacks posted before have run when the user answers: those of the    *)
(* connection that died never mark the one that replaced it.  Over a       *)
(* device that reconnects at once (a pipe) they can, and the image is      *)
(* then never that of the present connection.                              *)
THEOREM ImageTruthful == Spec => []ImageIsTruthful
<1>1. Init => IconInv
  BY DEF Init, BSInit, IconInv
<1>2. TypeInv /\ IconInv => ImageIsTruthful
  BY DEF IconInv, ImageIsTruthful
<1>. QED  BY <1>1, <1>2, TypeInit, TypeStep, IconStep, PTL DEF Spec

-----------------------------------------------------------------------------
(* How much raw holds outside a parse, by where the receiver is: nothing   *)
(* without a receiver, which is why one that is started begins with an     *)
(* empty raw, and an unfinished tail before the next read.                 *)
RawInv == /\ rxThr \in {"none", "ended"} => raw = <<>>
          /\ ~mRxShouldStop /\ rxThr # "parse" => Len(raw) <= MaxTail

LEMMA RawStep == TypeInv /\ RawInv /\ [Next]_vars => RawInv'
<1>. SUFFICES ASSUME TypeInv, RawInv, [Next]_vars  PROVE RawInv'
  OBVIOUS
<1>. USE DEF RawInv, TypeInv, SingleReader
<1>1. Len(<<>>) = 0
  BY EmptySeq
<1>2. CASE PeerSend \/ DeviceReceive \/ LinkBreak
  BY <1>2 DEF PeerSend, DeviceReceive, LinkBreak
<1>3. CASE RxTest
  BY <1>1, <1>3 DEF RxTest, RxEnds
<1>4. CASE RxDead
  BY <1>1, <1>4 DEF RxDead, RxEnds
<1>5. CASE RxIdle \/ RxAvailable \/ RxRead
  BY <1>5 DEF RxIdle, RxAvailable, RxRead
<1>6. CASE RxParse
  <2>1. PICK m \in 0 .. Len(raw) :
                /\ m <= MaxTail \/ mRxShouldStop
                /\ raw' = SubSeq(raw, Len(raw) - m + 1, Len(raw))
    BY <1>6 DEF RxParse
  <2>2. raw \in Seq(Byte) /\ Len(raw) \in Nat /\ Len(raw) - m \in 0 .. Len(raw)
    BY LenProperties DEF TypeOK
  <2>3. Len(raw') = Len(raw) - (Len(raw) - m)
    BY <2>1, <2>2, CutAt
  <2>4. Len(raw') = m
    BY <2>2, <2>3
  <2>. QED  BY <1>6, <2>1, <2>4 DEF RxParse
<1>7. CASE GuiRender \/ GuiException
  BY <1>7 DEF GuiRender, GuiException
<1>8. CASE \E h \in Handlers : StopBegin(h)
  BY <1>8 DEF StopBegin
<1>9. CASE GuiJoined
  BY <1>1, <1>9 DEF GuiJoined, Disconnect, CloseTab, ReconnectDialog,
                    ReconnectAtOnce, TransferBegin, CanJoin
<1>10. CASE ReconnectCancel \/ ReconnectOk \/ ReconnectFailed \/ TransferEnd
  BY <1>1, <1>10 DEF ReconnectCancel, ReconnectOk, ReconnectFailed, TransferEnd,
                     StartTerminal
<1>11. CASE ReconnectAccept \/ JobRead \/ JobEnd
  BY <1>11 DEF ReconnectAccept, JobRead, JobEnd
<1>12. CASE UNCHANGED vars
  BY <1>12 DEF vars
<1>. QED
  BY <1>2, <1>3, <1>4, <1>5, <1>6, <1>7, <1>8, <1>9, <1>10, <1>11, <1>12
  DEF Next, RxProc, GuiEvents, GuiNext

(* A sequence holds no more bytes than it is long.                         *)
LEMMA BytesOfFinite ==
  ASSUME NEW s \in Seq(Byte)
  PROVE  IsFiniteSet(BytesOf(s)) /\ Cardinality(BytesOf(s)) <= Len(s)
<1>1. Len(s) \in Nat
  BY LenProperties
<1>2. IsFiniteSet(1 .. Len(s)) /\ Cardinality(1 .. Len(s)) = Len(s)
  BY <1>1, FS_Interval
<1>3. [i \in 1 .. Len(s) |-> s[i]] \in Surjection(1 .. Len(s), BytesOf(s))
  BY DEF Surjection, BytesOf
<1>. QED  BY <1>2, <1>3, FS_Surjection

(* A receiver that was not stopped drops an unfinished sequence at most,   *)
(* when its device dies.                                                   *)
THEOREM DeathIsCheap == Spec => DeathDropsOnlyTail
<1>. DEFINE A == lost' # lost /\ ~mRxShouldStop
                   => Cardinality(lost' \ lost) <= MaxTail
<1>1. TypeInv /\ RawInv /\ [Next]_vars => [A]_vars
  <2>. SUFFICES ASSUME TypeInv, RawInv, [Next]_vars,
                       lost' # lost, ~mRxShouldStop
                PROVE  Cardinality(lost' \ lost) <= MaxTail
    OBVIOUS
  <2>1. ShownDropped
    BY ShownStep DEF ShownKept, ShownParsed, ShownRead, ShownByJob
  <2>2. raw \in Seq(Byte) /\ Len(raw) \in Nat /\ Len(raw) <= MaxTail
    BY <2>1, LenProperties DEF TypeInv, TypeOK, RawInv, ShownDropped
  <2>3. lost' \ lost \in SUBSET BytesOf(raw)
    BY <2>1 DEF ShownDropped
  <2>4. /\ IsFiniteSet(BytesOf(raw)) /\ Cardinality(BytesOf(raw)) <= Len(raw)
        /\ Cardinality(BytesOf(raw)) \in Nat
    BY <2>2, BytesOfFinite, FS_CardinalityType
  <2>5. /\ IsFiniteSet(lost' \ lost)
        /\ Cardinality(lost' \ lost) <= Cardinality(BytesOf(raw))
    BY <2>3, <2>4, FS_Subset
  <2>6. Cardinality(lost' \ lost) \in Nat
    BY <2>5, FS_CardinalityType
  <2>. QED  BY <2>2, <2>4, <2>5, <2>6
<1>2. Init => RawInv
  BY EmptySeq DEF Init, RawInv
<1>. QED  BY <1>1, <1>2, TypeInit, TypeStep, RawStep, PTL
          DEF Spec, DeathDropsOnlyTail

-----------------------------------------------------------------------------
(* To the device underneath, the tab with its three threads is one reader  *)
(* that asks for no more than is ready and one user who connects only what *)
(* is down: what a device promises under that contract (DeviceIsByteStream *)
(* for the TCP device) it promises to the tab.                             *)
THEOREM TabIsByteStream == Spec => BSSpec
<1>1. Init => BSInit
  BY DEF Init
<1>2. TypeInv /\ [Next]_vars => [BSNext]_bsVars
  <2>. SUFFICES ASSUME TypeOK, [Next]_vars  PROVE BSNext \/ UNCHANGED bsVars
    BY DEF TypeInv
  <2>0. /\ ready \in 0 .. Len(line) /\ sz \in 0 .. ready /\ Len(line) \in Nat
    BY LenProperties DEF TypeOK
  <2>. USE DEF BSNext, bsVars
  <2>1. CASE PeerSend
    BY <2>1 DEF PeerSend
  <2>2. CASE DeviceReceive
    <3>1. PICK n \in ready + 1 .. Len(line) : Receive(n)
      BY <2>2 DEF DeviceReceive
    <3>2. n \in ready .. Len(line)
      BY <2>0
    <3>. QED  BY <3>1, <3>2
  <2>3. CASE LinkBreak
    BY <2>3 DEF LinkBreak
  <2>4. CASE RxTest \/ RxDead \/ RxIdle \/ RxAvailable \/ RxParse
    BY <2>4 DEF RxTest, RxDead, RxIdle, RxAvailable, RxParse
  <2>5. CASE RxRead
    BY <2>0, <2>5 DEF RxRead
  <2>6. CASE GuiEvents
    BY <2>6 DEF GuiEvents, GuiRender, GuiException
  <2>7. CASE \E h \in Handlers : StopBegin(h)
    BY <2>7 DEF StopBegin
  <2>8. CASE Disconnect \/ CloseTab \/ ReconnectAccept \/ ReconnectAtOnce
    BY <2>8 DEF Disconnect, CloseTab, ReconnectAccept, ReconnectAtOnce
  <2>9. CASE ReconnectDialog \/ TransferBegin
    BY <2>9 DEF ReconnectDialog, TransferBegin
  <2>10. CASE ReconnectCancel \/ ReconnectFailed \/ TransferEnd \/ JobEnd
    BY <2>10 DEF ReconnectCancel, ReconnectFailed, TransferEnd, JobEnd
  <2>11. CASE ReconnectOk
    BY <2>11 DEF ReconnectOk
  <2>12. CASE JobRead
    <3>1. 1 \in 0 .. ready /\ Deliver(1)
      BY <2>0, <2>12 DEF JobRead
    <3>. QED  BY <3>1
  <2>13. CASE UNCHANGED vars
    BY <2>13 DEF vars
  <2>. QED
    BY <2>1, <2>2, <2>3, <2>4, <2>5, <2>6, <2>7, <2>8, <2>9, <2>10, <2>11,
       <2>12, <2>13
    DEF Next, RxProc, GuiNext, GuiJoined
<1>. QED  BY <1>1, <1>2, TypeInit, TypeStep, PTL DEF Spec, BSSpec
=============================================================================
