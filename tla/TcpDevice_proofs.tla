--------------------------- MODULE TcpDevice_proofs ---------------------------
(***************************************************************************)
(* Theorems about TcpDevice, for every number of connections, of bytes and *)
(* every buffer size.                                                      *)
(***************************************************************************)
EXTENDS TcpDevice, SequenceLemmas, TLAPS

USE DEF linkVars, rxVars, readerVars

-----------------------------------------------------------------------------
(* The library's ConcatAssociative, for bytes. *)
LEMMA Regroup == \A s, t, u \in Seq(Byte) : (s \o t) \o u = s \o (t \o u)
BY ConcatAssociative

(* Available is -1 or the length of mRxBuffer. *)
LEMMA AvailableType ==
  ASSUME TypeOK
  PROVE  Available \in Int /\ (Available > 0 => Available = Len(mRxBuffer))
BY LenProperties DEF Available, TypeOK

-----------------------------------------------------------------------------
(* Every variable keeps its type in every behaviour; the size a terminal   *)
(* carries from Available to Read is never the -1 of a dead device.        *)
THEOREM TypeCorrect == Spec => []TypeOK
<1>1. Init => TypeOK
  <2>. SUFFICES ASSUME Init  PROVE TypeOK
    OBVIOUS
  <2>1. /\ net \in Seq(Byte) /\ buffer \in Seq(Byte)
        /\ mRxBuffer \in Seq(Byte) /\ delivered \in Seq(Byte)
    BY EmptySeq, Zenon DEF Init
  <2>. QED  BY <2>1 DEF Init, TypeOK, RxAlive
<1>2. TypeOK /\ [Next]_vars => TypeOK'
  <2>. SUFFICES ASSUME TypeOK, [Next]_vars  PROVE TypeOK'
    OBVIOUS
  <2>. USE DEF TypeOK, RxAlive
  <2>1. CASE PeerSend
    <3>. [conn |-> conn, seq |-> nsent + 1] \in Byte
      BY DEF Byte
    <3>. QED  BY <2>1, AppendProperties DEF PeerSend
  <2>2. CASE PeerClose
    BY <2>2 DEF PeerClose
  <2>3. CASE LinkFail
    BY <2>3, CutAt DEF LinkFail
  <2>4. CASE RxTest
    BY <2>4 DEF RxTest
  <2>5. CASE RxGet
    <3>1. PICK n \in 0 .. Len(net) : /\ buffer' = SubSeq(net, 1, n)
                                     /\ net' = SubSeq(net, n + 1, Len(net))
      BY <2>5 DEF RxGet
    <3>2. buffer' \in Seq(Byte) /\ net' \in Seq(Byte)
      BY <3>1, CutAt
    <3>. QED  BY <2>5, <3>2 DEF RxGet
  <2>6. CASE RxSleep
    BY <2>6 DEF RxSleep
  <2>7. CASE RxError
    BY <2>7 DEF RxError
  <2>8. CASE RxAppend
    BY <2>8, ConcatProperties, EmptySeq DEF RxAppend
  <2>9. CASE RxExit
    BY <2>9 DEF RxExit
  <2>10. CASE Start
    BY <2>10 DEF Start, StartThread
  <2>11. CASE StopBegin
    BY <2>11 DEF StopBegin
  <2>12. CASE StopJoin
    BY <2>12, EmptySeq DEF StopJoin
  <2>13. CASE Reconnected
    <3>1. /\ rx' \in {rx, "loop"}
          /\ mShouldStop' \in BOOLEAN /\ mRunning' \in BOOLEAN
      BY <2>13 DEF Reconnected, StartThread
    <3>. QED  BY <2>13, <3>1 DEF Reconnected
  <2>14. CASE ReconnectFailed
    BY <2>14 DEF ReconnectFailed
  <2>15. CASE ReaderStart
    BY <2>15 DEF ReaderStart
  <2>16. CASE ReaderStop
    BY <2>16 DEF ReaderStop
  <2>17. CASE Poll
    BY <2>17, AvailableType DEF Poll
  <2>18. CASE Read
    <3>. DEFINE k == ReadCount(want)
    <3>1. k \in 0 .. Len(mRxBuffer)
      BY LenProperties DEF ReadCount
    <3>2. /\ delivered' = delivered \o SubSeq(mRxBuffer, 1, k)
          /\ mRxBuffer' = SubSeq(mRxBuffer, k + 1, Len(mRxBuffer))
      BY <2>18 DEF Read
    <3>3. /\ SubSeq(mRxBuffer, 1, k) \in Seq(Byte)
          /\ SubSeq(mRxBuffer, k + 1, Len(mRxBuffer)) \in Seq(Byte)
      BY <3>1, CutAt
    <3>4. delivered' \in Seq(Byte) /\ mRxBuffer' \in Seq(Byte)
      BY <3>2, <3>3, ConcatProperties
    <3>. QED  BY <2>18, <3>4 DEF Read
  <2>19. CASE UNCHANGED vars
    BY <2>19 DEF vars
  <2>. QED
    BY <2>1, <2>2, <2>3, <2>4, <2>5, <2>6, <2>7, <2>8, <2>9, <2>10, <2>11,
       <2>12, <2>13, <2>14, <2>15, <2>16, <2>17, <2>18, <2>19
    DEF Next, RxProc
<1>. QED  BY <1>1, <1>2, PTL DEF Spec

-----------------------------------------------------------------------------
(* mRunning says exactly that the receiver thread is alive, Stop only      *)
(* waits for a thread that was told to end, and the socket is closed only  *)
(* when no thread can be using it.                                         *)
THEOREM ThreadsSafe == Spec => []ThreadInv
<1>1. Init => ThreadInv
  BY DEF Init, ThreadInv, RxAlive
<1>2. ThreadInv /\ [Next]_vars => ThreadInv'
  <2>. SUFFICES ASSUME ThreadInv, [Next]_vars  PROVE ThreadInv'
    OBVIOUS
  <2>. USE DEF ThreadInv, RxAlive
  <2>1. CASE PeerSend \/ PeerClose \/ LinkFail
    BY <2>1 DEF PeerSend, PeerClose, LinkFail
  <2>2. CASE RxProc
    BY <2>2 DEF RxProc, RxTest, RxGet, RxSleep, RxError, RxAppend, RxExit
  <2>3. CASE Start
    BY <2>3 DEF Start, CanStart, StartThread
  <2>4. CASE StopBegin
    BY <2>4 DEF StopBegin
  <2>5. CASE StopJoin
    BY <2>5 DEF StopJoin
  <2>6. CASE Reconnected
    BY <2>6 DEF Reconnected, CanStart, StartThread
  <2>7. CASE ReconnectFailed
    BY <2>7 DEF ReconnectFailed
  <2>8. CASE ReaderStart \/ ReaderStop \/ Poll \/ Read
    BY <2>8 DEF ReaderStart, ReaderStop, Poll, Read
  <2>9. CASE UNCHANGED vars
    BY <2>9 DEF vars
  <2>. QED
    BY <2>1, <2>2, <2>3, <2>4, <2>5, <2>6, <2>7, <2>8, <2>9 DEF Next
<1>. QED  BY <1>1, <1>2, PTL DEF Spec

-----------------------------------------------------------------------------
(* StreamInv is not inductive: that the next byte sent follows the last    *)
(* one known needs nsent, and cutting the stream anywhere needs a bound on *)
(* every byte's connection.  Good says it of any sequence and connection.  *)
Good(s, c) ==
  \A i \in 1 .. Len(s) : /\ s[i].conn <= c
                         /\ IF i = 1 THEN s[i].seq = 1
                                     ELSE Follows(s[i - 1], s[i])

(* nsent is the position of the last byte of the current connection. *)
LastIs(s, c, n) ==
  /\ s = <<>> => n = 0
  /\ s # <<>> => LET b == s[Len(s)]
                 IN  IF b.conn < c THEN n = 0 ELSE b.seq = n

LEMMA GoodBeginning ==
  ASSUME NEW s \in Seq(Byte), NEW t \in Seq(Byte), NEW c \in Nat,
         Good(s \o t, c)
  PROVE  Good(s, c)
<1>1. Len(s) \in Nat /\ Len(t) \in Nat
  BY LenProperties
<1>2. Len(s \o t) = Len(s) + Len(t) /\ \A i \in 1 .. Len(s) : (s \o t)[i] = s[i]
  BY <1>1, ConcatProperties
<1>3. SUFFICES ASSUME NEW i \in 1 .. Len(s)
               PROVE  /\ s[i].conn <= c
                      /\ IF i = 1 THEN s[i].seq = 1
                                  ELSE Follows(s[i - 1], s[i])
  BY DEF Good
<1>4. i \in 1 .. Len(s \o t) /\ (s \o t)[i] = s[i]
  BY <1>1, <1>2
<1>5. CASE i = 1
  BY <1>4, <1>5 DEF Good
<1>6. CASE i # 1
  <2>1. (s \o t)[i - 1] = s[i - 1]
    BY <1>1, <1>2, <1>6
  <2>. QED  BY <1>4, <1>6, <2>1 DEF Good
<1>. QED  BY <1>5, <1>6

LEMMA GoodExtension ==
  ASSUME NEW s \in Seq(Byte), NEW c \in Nat, NEW n \in Nat,
         Good(s, c), LastIs(s, c, n)
  PROVE  LET b == [conn |-> c, seq |-> n + 1]
         IN  /\ Good(Append(s, b), c)
             /\ LastIs(Append(s, b), c, n + 1)
<1>. DEFINE b == [conn |-> c, seq |-> n + 1]
            t == Append(s, b)
<1>1. Len(s) \in Nat /\ b \in Byte
  BY LenProperties DEF Byte
<1>2. /\ t # <<>>
      /\ Len(t) = Len(s) + 1
      /\ \A i \in 1 .. Len(s) : t[i] = s[i]
      /\ t[Len(s) + 1] = b
  BY <1>1, AppendProperties
<1>. HIDE DEF t
<1>3. ASSUME NEW i \in 1 .. Len(t)
      PROVE  /\ t[i].conn <= c
             /\ IF i = 1 THEN t[i].seq = 1 ELSE Follows(t[i - 1], t[i])
  <2>1. CASE i \in 1 .. Len(s)
    <3>1. t[i] = s[i] /\ (i # 1 => t[i - 1] = s[i - 1])
      BY <1>1, <1>2, <2>1
    <3>. QED  BY <2>1, <3>1 DEF Good
  <2>2. CASE i = Len(s) + 1 /\ s = <<>>
    <3>1. i = 1 /\ t[i] = b /\ n = 0
      BY <1>2, <2>2 DEF LastIs
    <3>. QED  BY <3>1
  <2>3. CASE i = Len(s) + 1 /\ s # <<>>
    <3>1. Len(s) \in 1 .. Len(s) /\ i # 1 /\ i - 1 = Len(s)
      BY <1>1, <2>3, EmptySeq
    <3>2. t[i] = b /\ t[i - 1] = s[Len(s)]
      BY <1>2, <2>3, <3>1
    <3>3. s[Len(s)] \in Byte /\ s[Len(s)].conn <= c
      BY <3>1, ElementOfSeq DEF Good
    <3>4. Follows(s[Len(s)], b)
      BY <2>3, <3>3 DEF Follows, LastIs, Byte
    <3>. QED  BY <3>1, <3>2, <3>4
  <2>. QED  BY <1>1, <1>2, <2>1, <2>2, <2>3
<1>4. Good(t, c)
  BY <1>3 DEF Good
<1>5. LastIs(t, c, n + 1)
  BY <1>1, <1>2 DEF LastIs
<1>. QED  BY <1>4, <1>5 DEF t

(* Moving bytes between the net, RxProc's buffer, mRxBuffer and the        *)
(* terminal leaves the stream as it was.                                   *)
LEMMA StreamType == TypeOK => Stream \in Seq(Byte)
<1>. SUFFICES ASSUME TypeOK  PROVE Stream \in Seq(Byte)
  OBVIOUS
<1>1. delivered \o mRxBuffer \in Seq(Byte)
  BY ConcatProperties DEF TypeOK
<1>2. (delivered \o mRxBuffer) \o buffer \in Seq(Byte)
  BY <1>1, ConcatProperties DEF TypeOK
<1>. QED  BY <1>2, ConcatProperties DEF TypeOK, Stream

LEMMA GetKeepsStream == TypeOK /\ ThreadInv /\ RxGet => Stream' = Stream
<1>. SUFFICES ASSUME TypeOK, ThreadInv, RxGet  PROVE Stream' = Stream
  OBVIOUS
<1>. DEFINE h == delivered \o mRxBuffer
<1>1. PICK n \in 0 .. Len(net) : /\ buffer' = SubSeq(net, 1, n)
                                 /\ net' = SubSeq(net, n + 1, Len(net))
  BY DEF RxGet
<1>2. /\ buffer' \in Seq(Byte) /\ net' \in Seq(Byte)
      /\ buffer' \o net' = net
  BY <1>1, CutAt DEF TypeOK
<1>3. h \in Seq(Byte)
  BY ConcatProperties DEF TypeOK
<1>4. (h \o buffer') \o net' = h \o (buffer' \o net')
  BY <1>2, <1>3, Regroup, Zenon
<1>5. buffer = <<>> /\ h \o buffer = h
  BY <1>3, ConcatEmptySeq DEF RxGet, ThreadInv
<1>6. Stream' = (h \o buffer') \o net'
  BY DEF RxGet, Stream
<1>7. Stream = (h \o buffer) \o net
  BY DEF Stream
<1>. QED  BY <1>2, <1>4, <1>5, <1>6, <1>7

LEMMA AppendKeepsStream == TypeOK /\ RxAppend => Stream' = Stream
<1>. SUFFICES ASSUME TypeOK, RxAppend  PROVE Stream' = Stream
  OBVIOUS
<1>1. /\ delivered \o mRxBuffer \in Seq(Byte)
      /\ mRxBuffer \o buffer \in Seq(Byte)
      /\ delivered \o (mRxBuffer \o buffer) \in Seq(Byte)
  BY ConcatProperties DEF TypeOK
<1>2. (delivered \o (mRxBuffer \o buffer)) \o <<>>
        = (delivered \o mRxBuffer) \o buffer
  <2>1. (delivered \o (mRxBuffer \o buffer)) \o <<>>
          = delivered \o (mRxBuffer \o buffer)
    BY <1>1, ConcatEmptySeq, Zenon
  <2>2. (delivered \o mRxBuffer) \o buffer
          = delivered \o (mRxBuffer \o buffer)
    BY Regroup, Zenon DEF TypeOK
  <2>. QED  BY <2>1, <2>2
<1>3. Stream' = ((delivered \o (mRxBuffer \o buffer)) \o <<>>) \o net
  BY DEF RxAppend, Stream
<1>. QED  BY <1>2, <1>3 DEF Stream

LEMMA ReadKeepsStream == TypeOK /\ Read => Stream' = Stream
<1>. SUFFICES ASSUME TypeOK, Read  PROVE Stream' = Stream
  OBVIOUS
<1>. DEFINE k == ReadCount(want)
            a == SubSeq(mRxBuffer, 1, k)
            b == SubSeq(mRxBuffer, k + 1, Len(mRxBuffer))
<1>1. k \in 0 .. Len(mRxBuffer)
  BY LenProperties DEF ReadCount, TypeOK
<1>2. a \in Seq(Byte) /\ b \in Seq(Byte) /\ a \o b = mRxBuffer
  BY <1>1, CutAt DEF TypeOK
<1>3. (delivered \o a) \o b = delivered \o (a \o b)
  <2>1. delivered \in Seq(Byte)
    BY DEF TypeOK
  <2>. QED  BY <1>2, <2>1, Regroup, Zenon
<1>4. Stream' = (((delivered \o a) \o b) \o buffer) \o net
  BY DEF Read, Stream
<1>. QED  BY <1>2, <1>3, <1>4 DEF Stream

(* A byte sent is the last of the stream. *)
LEMMA SendExtendsStream ==
  TypeOK /\ PeerSend
    => Stream' = Append(Stream, [conn |-> conn, seq |-> nsent + 1])
<1>. DEFINE b == [conn |-> conn, seq |-> nsent + 1]
            h == (delivered \o mRxBuffer) \o buffer
<1>. SUFFICES ASSUME TypeOK, PeerSend  PROVE Stream' = Append(Stream, b)
  OBVIOUS
<1>1. b \in Byte /\ <<b>> \in Seq(Byte)
  BY DEF TypeOK, Byte
<1>2. h \in Seq(Byte)
  <2>1. delivered \o mRxBuffer \in Seq(Byte)
    BY ConcatProperties DEF TypeOK
  <2>. QED  BY <2>1, ConcatProperties DEF TypeOK
<1>3. Stream' = h \o Append(net, b)
  BY DEF PeerSend, Stream
<1>4. Append(net, b) = net \o <<b>>
  BY <1>1, AppendIsConcat DEF TypeOK
<1>5. h \o (net \o <<b>>) = (h \o net) \o <<b>>
  BY <1>1, <1>2, Regroup DEF TypeOK
<1>6. Stream = h \o net /\ Stream \in Seq(Byte)
  BY StreamType DEF Stream
<1>. QED  BY <1>1, <1>3, <1>4, <1>5, <1>6, AppendIsConcat

(* A link that fails, or a socket that is closed, cuts the stream. *)
LEMMA LossCutsStream ==
  ASSUME TypeOK, LinkFail \/ StopJoin
  PROVE  \E t \in Seq(Byte) : Stream' \in Seq(Byte) /\ Stream = Stream' \o t
<1>. DEFINE h == (delivered \o mRxBuffer) \o buffer
<1>1. h \in Seq(Byte)
  <2>1. delivered \o mRxBuffer \in Seq(Byte)
    BY ConcatProperties DEF TypeOK
  <2>. QED  BY <2>1, ConcatProperties DEF TypeOK
<1>2. PICK n \in 0 .. Len(net) : net' = SubSeq(net, 1, n)
  <2>1. CASE LinkFail
    BY <2>1 DEF LinkFail
  <2>2. CASE StopJoin
    <3>1. 0 \in 0 .. Len(net) /\ SubSeq(net, 1, 0) = <<>>
      BY LenProperties, SubSeqEmpty DEF TypeOK
    <3>. QED  BY <2>2, <3>1 DEF StopJoin
  <2>. QED  BY <2>1, <2>2
<1>. DEFINE t == SubSeq(net, n + 1, Len(net))
<1>3. net' \in Seq(Byte) /\ t \in Seq(Byte) /\ net' \o t = net
  BY <1>2, CutAt DEF TypeOK
<1>4. Stream' = h \o net' /\ Stream = h \o net
  BY DEF LinkFail, StopJoin, Stream
<1>5. h \o net' \in Seq(Byte)
  BY <1>1, <1>3, ConcatProperties
<1>6. (h \o net') \o t = h \o (net' \o t)
  BY <1>1, <1>3, Regroup, Zenon
<1>. QED  BY <1>3, <1>4, <1>5, <1>6

(* The steps between states with the types and the thread states in order. *)
LEMMA StreamStep ==
  ASSUME TypeOK, TypeOK', ThreadInv, Good(Stream, conn),
         link = "open" => LastIs(Stream, conn, nsent), [Next]_vars
  PROVE  /\ Good(Stream, conn)'
         /\ (link = "open" => LastIs(Stream, conn, nsent))'
<1>. DEFINE Kept == Stream' = Stream /\ conn' = conn /\ nsent' = nsent
<1>1. ASSUME Kept, link' = link \/ link' # "open"
      PROVE  /\ Good(Stream, conn)'
             /\ (link = "open" => LastIs(Stream, conn, nsent))'
  BY <1>1 DEF Good, LastIs
<1>2. CASE PeerSend
  <2>1. /\ link = "open" /\ conn' = conn /\ nsent' = nsent + 1
        /\ conn \in Nat /\ nsent \in Nat
    BY <1>2 DEF PeerSend, TypeOK
  <2>2. Stream' = Append(Stream, [conn |-> conn, seq |-> nsent + 1])
    BY <1>2, SendExtendsStream
  <2>3. Good(Stream', conn) /\ LastIs(Stream', conn, nsent + 1)
    BY <2>1, <2>2, GoodExtension, StreamType
  <2>. QED  BY <2>1, <2>3 DEF Good, LastIs
<1>3. CASE LinkFail \/ StopJoin
  <2>1. link' # "open" /\ conn' = conn /\ conn \in Nat
    BY <1>3 DEF LinkFail, StopJoin, TypeOK
  <2>2. PICK t \in Seq(Byte) : Stream' \in Seq(Byte) /\ Stream = Stream' \o t
    BY <1>3, LossCutsStream
  <2>3. Good(Stream', conn)
    BY <2>1, <2>2, GoodBeginning
  <2>. QED  BY <2>1, <2>3 DEF Good
<1>4. CASE RxGet
  BY <1>1, <1>4, GetKeepsStream DEF RxGet
<1>5. CASE RxAppend
  BY <1>1, <1>5, AppendKeepsStream DEF RxAppend
<1>6. CASE Read
  BY <1>1, <1>6, ReadKeepsStream DEF Read
<1>7. CASE Reconnected
  <2>1. /\ Stream' = Stream /\ conn' = conn + 1 /\ nsent' = 0
        /\ conn \in Nat /\ Stream \in Seq(Byte)
    BY <1>7, StreamType DEF Reconnected, Stream, TypeOK
  <2>2. \A i \in 1 .. Len(Stream) : Stream[i] \in Byte
    BY <2>1, ElementOfSeq
  <2>3. Good(Stream, conn')
    BY <2>1, <2>2 DEF Good, Byte
  <2>4. LastIs(Stream, conn', 0)
    <3>1. SUFFICES ASSUME Stream # <<>>
                   PROVE  Stream[Len(Stream)].conn < conn'
      BY DEF LastIs
    <3>2. Len(Stream) \in 1 .. Len(Stream)
      BY <2>1, <3>1, EmptySeq
    <3>3. Stream[Len(Stream)].conn <= conn /\ Stream[Len(Stream)] \in Byte
      BY <2>2, <3>2 DEF Good
    <3>. QED  BY <2>1, <3>3 DEF Byte
  <2>. QED  BY <2>1, <2>3, <2>4 DEF Good, LastIs
<1>8. CASE \/ PeerClose \/ RxTest \/ RxSleep \/ RxError \/ RxExit
           \/ Start \/ StopBegin \/ ReconnectFailed
           \/ ReaderStart \/ ReaderStop \/ Poll
  <2>1. Kept /\ (link' = link \/ link' # "open")
    BY <1>8 DEF PeerClose, RxTest, RxSleep, RxError, RxExit, Start, StopBegin,
                ReconnectFailed, ReaderStart, ReaderStop, Poll, StartThread,
                Stream
  <2>. QED  BY <1>1, <2>1
<1>9. CASE UNCHANGED vars
  BY <1>1, <1>9 DEF vars, Stream
<1>. QED
  BY <1>2, <1>3, <1>4, <1>5, <1>6, <1>7, <1>8, <1>9 DEF Next, RxProc

(* No byte is lost in the middle, duplicated or reordered between the      *)
(* socket and the terminal, whatever the threads do.                       *)
THEOREM StreamSafe == Spec => []StreamInv
<1>. DEFINE SInv == /\ Good(Stream, conn)
                    /\ link = "open" => LastIs(Stream, conn, nsent)
<1>1. Init => SInv
  <2>. SUFFICES ASSUME Init  PROVE SInv
    OBVIOUS
  <2>1. Stream = <<>>
    BY ConcatEmptySeq, EmptySeq DEF Init, Stream
  <2>. QED  BY <2>1 DEF Init, Good, LastIs
<1>2. TypeOK /\ TypeOK' /\ ThreadInv /\ SInv /\ [Next]_vars => SInv'
  BY StreamStep
<1>3. TypeOK /\ SInv => StreamInv
  <2>. SUFFICES ASSUME TypeOK, SInv  PROVE StreamInv
    OBVIOUS
  <2>1. Stream # <<>> => Len(Stream) \in 1 .. Len(Stream)
    BY StreamType, EmptySeq
  <2>. QED  BY <2>1 DEF Good, StreamInv
<1>. QED  BY <1>1, <1>2, <1>3, TypeCorrect, ThreadsSafe, PTL DEF Spec

-----------------------------------------------------------------------------
(* Only the terminal takes bytes out of mRxBuffer, so what Available said  *)
(* is still there when it reads.                                           *)
WantInv == reader = "read" => want <= Len(mRxBuffer)

(* Read returns exactly the number of bytes Available reported, although   *)
(* the receiver thread and the GUI run between the two.                    *)
THEOREM ReadsComplete == Spec => ReadIsNeverShort
<1>1. Init => WantInv
  BY DEF Init, WantInv
<1>2. TypeOK /\ ThreadInv /\ WantInv /\ [Next]_vars => WantInv'
  <2>. SUFFICES ASSUME TypeOK, ThreadInv, WantInv, [Next]_vars,
                       reader' = "read"
                PROVE  want' <= Len(mRxBuffer')
    BY DEF WantInv
  <2>1. Len(mRxBuffer) \in Nat /\ Len(buffer) \in Nat
    BY LenProperties DEF TypeOK
  <2>2. CASE RxAppend
    <3>1. Len(mRxBuffer') = Len(mRxBuffer) + Len(buffer)
      BY <2>2, ConcatProperties DEF RxAppend, TypeOK
    <3>. QED  BY <2>1, <2>2, <3>1 DEF RxAppend, WantInv, TypeOK
  <2>3. CASE Poll
    BY <2>1, <2>3, AvailableType DEF Poll
  <2>4. CASE Read
    BY <2>4 DEF Read
  <2>5. CASE ReaderStart \/ ReaderStop
    BY <2>5 DEF ReaderStart, ReaderStop
  <2>6. CASE \/ PeerSend \/ PeerClose \/ LinkFail
             \/ RxTest \/ RxGet \/ RxSleep \/ RxError \/ RxExit
             \/ Start \/ StopBegin \/ StopJoin
             \/ Reconnected \/ ReconnectFailed
    BY <2>6 DEF PeerSend, PeerClose, LinkFail, RxTest, RxGet, RxSleep,
                RxError, RxExit, Start, StopBegin, StopJoin, Reconnected,
                ReconnectFailed, WantInv
  <2>7. CASE UNCHANGED vars
    BY <2>7 DEF vars, WantInv
  <2>. QED
    BY <2>2, <2>3, <2>4, <2>5, <2>6, <2>7 DEF Next, RxProc
<1>3. TypeOK /\ WantInv /\ [Next]_vars
        => [Read => Len(delivered') = Len(delivered) + want]_vars
  <2>. SUFFICES ASSUME TypeOK, WantInv, Read
                PROVE  Len(delivered') = Len(delivered) + want
    OBVIOUS
  <2>1. Len(mRxBuffer) \in Nat /\ want \in Nat /\ want <= Len(mRxBuffer)
    BY LenProperties DEF TypeOK, WantInv, Read
  <2>2. delivered' = delivered \o SubSeq(mRxBuffer, 1, want)
    BY <2>1 DEF Read, ReadCount
  <2>3. /\ SubSeq(mRxBuffer, 1, want) \in Seq(Byte)
        /\ Len(SubSeq(mRxBuffer, 1, want)) = want
    BY <2>1, CutAt DEF TypeOK
  <2>. QED  BY <2>2, <2>3, ConcatProperties DEF TypeOK
<1>. QED
  BY <1>1, <1>2, <1>3, TypeCorrect, ThreadsSafe, PTL DEF Spec, ReadIsNeverShort

-----------------------------------------------------------------------------
(* Cutting s \o t inside s, and inside t. *)
LEMMA CutInFirst ==
  ASSUME NEW s \in Seq(Byte), NEW t \in Seq(Byte), NEW k \in 0 .. Len(s)
  PROVE  /\ SubSeq(s \o t, 1, k) = SubSeq(s, 1, k)
         /\ SubSeq(s \o t, k + 1, Len(s \o t)) = SubSeq(s, k + 1, Len(s)) \o t
<1>. DEFINE a == SubSeq(s, 1, k)
            b == SubSeq(s, k + 1, Len(s))
            st == s \o t
            c == SubSeq(st, k + 1, Len(st))
<1>1. Len(s) \in Nat /\ Len(t) \in Nat
  BY LenProperties
<1>2. /\ a \in Seq(Byte) /\ Len(a) = k /\ \A i \in 1 .. k : a[i] = s[i]
      /\ b \in Seq(Byte) /\ Len(b) = Len(s) - k
  BY CutAt
<1>3. \A i \in 1 .. Len(s) - k : b[i] = s[k + i]
  <2>1. \A i \in k + 1 .. Len(s) : s[i] \in Byte
    BY <1>1, ElementOfSeq
  <2>2. \A i \in 1 .. Len(s) - (k + 1) + 1 : b[i] = s[(k + 1) + i - 1]
    BY <1>1, <2>1, SubSeqProperties
  <2>. QED  BY <1>1, <2>2
<1>4. /\ st \in Seq(Byte) /\ Len(st) = Len(s) + Len(t)
      /\ \A i \in 1 .. Len(s) + Len(t) :
           st[i] = IF i <= Len(s) THEN s[i] ELSE t[i - Len(s)]
  BY ConcatProperties
<1>. HIDE DEF st
<1>5. k \in 0 .. Len(st)
  BY <1>1, <1>4
<1>6. SubSeq(st, 1, k) = a
  <2>1. /\ SubSeq(st, 1, k) \in Seq(Byte) /\ Len(SubSeq(st, 1, k)) = k
        /\ \A i \in 1 .. k : SubSeq(st, 1, k)[i] = st[i]
    BY <1>4, <1>5, CutAt
  <2>2. \A i \in 1 .. k : st[i] = s[i]
    BY <1>1, <1>4
  <2>. HIDE DEF a
  <2>. QED  BY <1>2, <2>1, <2>2, SeqEqual
<1>7. c = b \o t
  <2>1. c \in Seq(Byte) /\ Len(c) = Len(st) - k
    BY <1>4, <1>5, CutAt
  <2>2. \A i \in 1 .. Len(st) - k : c[i] = st[k + i]
    <3>1. \A i \in k + 1 .. Len(st) : st[i] \in Byte
      BY <1>1, <1>4, ElementOfSeq
    <3>2. \A i \in 1 .. Len(st) - (k + 1) + 1 : c[i] = st[(k + 1) + i - 1]
      BY <1>1, <1>4, <3>1, SubSeqProperties
    <3>. QED  BY <1>1, <1>4, <3>2
  <2>3. /\ b \o t \in Seq(Byte) /\ Len(b \o t) = Len(b) + Len(t)
        /\ \A i \in 1 .. Len(b) + Len(t) :
             (b \o t)[i] = IF i <= Len(b) THEN b[i] ELSE t[i - Len(b)]
    BY <1>2, ConcatProperties
  <2>. HIDE DEF b, c
  <2>4. Len(c) = Len(b \o t)
    BY <1>1, <1>2, <1>4, <2>1, <2>3
  <2>5. ASSUME NEW i \in 1 .. Len(c)  PROVE c[i] = (b \o t)[i]
    <3>1. i \in 1 .. Len(b) + Len(t) /\ i \in 1 .. Len(st) - k
      BY <1>1, <1>2, <1>4, <2>1
    <3>2. c[i] = st[k + i] /\ k + i \in 1 .. Len(s) + Len(t)
      BY <1>1, <1>4, <2>2, <3>1
    <3>3. CASE i <= Len(b)
      <4>1. i \in 1 .. Len(s) - k /\ k + i <= Len(s)
        BY <1>1, <1>2, <3>1, <3>3
      <4>2. (b \o t)[i] = b[i]
        BY <2>3, <3>1, <3>3
      <4>3. b[i] = s[k + i]
        BY <1>3, <4>1
      <4>4. st[k + i] = s[k + i]
        BY <1>4, <3>2, <4>1
      <4>. QED  BY <3>2, <4>2, <4>3, <4>4
    <3>4. CASE ~(i <= Len(b))
      <4>1. (b \o t)[i] = t[i - Len(b)] /\ ~(k + i <= Len(s))
        BY <1>1, <1>2, <2>3, <3>1, <3>4
      <4>2. st[k + i] = t[k + i - Len(s)]
        BY <1>4, <3>2, <4>1
      <4>3. k + i - Len(s) = i - Len(b)
        BY <1>1, <1>2
      <4>. QED  BY <3>2, <4>1, <4>2, <4>3
    <3>. QED  BY <3>3, <3>4
  <2>. QED  BY <2>1, <2>3, <2>4, <2>5, SeqEqual
<1>. QED  BY <1>6, <1>7 DEF st

LEMMA CutInSecond ==
  ASSUME NEW s \in Seq(Byte), NEW t \in Seq(Byte), NEW n \in 0 .. Len(t)
  PROVE  /\ Len(s) + n \in Len(s) .. Len(s \o t)
         /\ SubSeq(s \o t, 1, Len(s) + n) = s \o SubSeq(t, 1, n)
<1>. DEFINE a == SubSeq(t, 1, n)
            st == s \o t
            c == SubSeq(st, 1, Len(s) + n)
<1>1. Len(s) \in Nat /\ Len(t) \in Nat
  BY LenProperties
<1>2. a \in Seq(Byte) /\ Len(a) = n /\ \A i \in 1 .. n : a[i] = t[i]
  BY CutAt
<1>3. /\ st \in Seq(Byte) /\ Len(st) = Len(s) + Len(t)
      /\ \A i \in 1 .. Len(s) + Len(t) :
           st[i] = IF i <= Len(s) THEN s[i] ELSE t[i - Len(s)]
  BY ConcatProperties
<1>4. /\ s \o a \in Seq(Byte) /\ Len(s \o a) = Len(s) + n
      /\ \A i \in 1 .. Len(s) + n :
           (s \o a)[i] = IF i <= Len(s) THEN s[i] ELSE a[i - Len(s)]
  BY <1>2, ConcatProperties
<1>. HIDE DEF st, a
<1>5. Len(s) + n \in 0 .. Len(st) /\ Len(s) + n \in Len(s) .. Len(st)
  BY <1>1, <1>3
<1>6. /\ c \in Seq(Byte) /\ Len(c) = Len(s) + n
      /\ \A i \in 1 .. Len(s) + n : c[i] = st[i]
  BY <1>3, <1>5, CutAt
<1>7. ASSUME NEW i \in 1 .. Len(s) + n  PROVE st[i] = (s \o a)[i]
  <2>1. i \in 1 .. Len(s) + Len(t)
    BY <1>1
  <2>2. CASE i <= Len(s)
    BY <1>3, <1>4, <2>1, <2>2
  <2>3. CASE ~(i <= Len(s))
    <3>1. i - Len(s) \in 1 .. n
      BY <1>1, <2>3
    <3>2. st[i] = t[i - Len(s)]
      BY <1>3, <2>1, <2>3
    <3>3. (s \o a)[i] = a[i - Len(s)]
      BY <1>4, <2>3
    <3>. QED  BY <1>2, <3>1, <3>2, <3>3
  <2>. QED  BY <2>2, <2>3
<1>. HIDE DEF c
<1>8. c = s \o a
  BY <1>4, <1>6, <1>7, SeqEqual
<1>. QED  BY <1>5, <1>8 DEF c, st, a

(* What the terminal has not read yet, split after mRxBuffer. *)
Line == (mRxBuffer \o buffer) \o net

LEMMA LineType ==
  ASSUME TypeOK
  PROVE  /\ mRxBuffer \o buffer \in Seq(Byte) /\ buffer \o net \in Seq(Byte)
         /\ Line \in Seq(Byte)
         /\ Line = mRxBuffer \o (buffer \o net)
         /\ Len(mRxBuffer) \in Nat
         /\ Len(Line) \in Nat
         /\ Len(mRxBuffer) <= Len(mRxBuffer \o buffer)
         /\ Len(mRxBuffer \o buffer) <= Len(Line)
<1>1. mRxBuffer \o buffer \in Seq(Byte) /\ buffer \o net \in Seq(Byte)
  BY ConcatProperties DEF TypeOK
<1>2. Line \in Seq(Byte)
  BY <1>1, ConcatProperties DEF TypeOK, Line
<1>3. Line = mRxBuffer \o (buffer \o net)
  BY Regroup DEF TypeOK, Line
<1>4. /\ Len(mRxBuffer) \in Nat /\ Len(buffer) \in Nat /\ Len(net) \in Nat
      /\ Len(mRxBuffer \o buffer) = Len(mRxBuffer) + Len(buffer)
  BY LenProperties, ConcatProperties DEF TypeOK
<1>5. Len(Line) = Len(mRxBuffer \o buffer) + Len(net)
  BY <1>1, ConcatProperties DEF TypeOK, Line
<1>. QED  BY <1>1, <1>2, <1>3, <1>4, <1>5

(* What a step does to Line. *)
LEMMA SendExtendsLine ==
  TypeOK /\ PeerSend
    => Line' = Append(Line, [conn |-> conn, seq |-> nsent + 1])
<1>. DEFINE b == [conn |-> conn, seq |-> nsent + 1]
            h == mRxBuffer \o buffer
<1>. SUFFICES ASSUME TypeOK, PeerSend  PROVE Line' = Append(Line, b)
  OBVIOUS
<1>1. b \in Byte /\ <<b>> \in Seq(Byte)
  BY DEF TypeOK, Byte
<1>2. h \in Seq(Byte) /\ Line \in Seq(Byte) /\ net \in Seq(Byte)
  BY LineType DEF TypeOK
<1>3. Line' = h \o Append(net, b) /\ Line = h \o net
  BY DEF PeerSend, Line
<1>4. Append(net, b) = net \o <<b>>
  BY <1>1, AppendIsConcat DEF TypeOK
<1>. HIDE DEF h, b
<1>5. h \o (net \o <<b>>) = (h \o net) \o <<b>>
  BY <1>1, <1>2, Regroup
<1>. QED  BY <1>1, <1>2, <1>3, <1>4, <1>5, AppendIsConcat

LEMMA LossCutsLine ==
  ASSUME TypeOK, LinkFail \/ StopJoin \/ PeerClose
  PROVE  \E n \in Len(mRxBuffer) .. Len(Line) : Line' = SubSeq(Line, 1, n)
<1>. DEFINE h == mRxBuffer \o buffer
<1>1. PICK m \in 0 .. Len(net) : net' = SubSeq(net, 1, m)
  <2>1. CASE LinkFail
    BY <2>1 DEF LinkFail
  <2>2. CASE StopJoin
    <3>1. 0 \in 0 .. Len(net) /\ SubSeq(net, 1, 0) = <<>>
      BY LenProperties, SubSeqEmpty DEF TypeOK
    <3>. QED  BY <2>2, <3>1 DEF StopJoin
  <2>3. CASE PeerClose
    <3>1. Len(net) \in 0 .. Len(net) /\ SubSeq(net, 1, Len(net)) = net
      BY LenProperties, SubSeqFull DEF TypeOK
    <3>. QED  BY <2>3, <3>1 DEF PeerClose
  <2>. QED  BY <2>1, <2>2, <2>3
<1>2. h \in Seq(Byte) /\ net \in Seq(Byte) /\ Line = h \o net
  BY LineType DEF TypeOK, Line
<1>3. Line' = h \o net'
  BY DEF LinkFail, StopJoin, PeerClose, Line
<1>4. Len(mRxBuffer) \in Nat /\ Len(mRxBuffer) <= Len(h) /\ Len(h) \in Nat
  BY LineType, LenProperties
<1>. HIDE DEF h
<1>5. /\ Len(h) + m \in Len(h) .. Len(Line)
      /\ SubSeq(Line, 1, Len(h) + m) = h \o SubSeq(net, 1, m)
  BY <1>2, CutInSecond
<1>6. Len(h) + m \in Len(mRxBuffer) .. Len(Line)
  BY <1>4, <1>5
<1>. QED  BY <1>1, <1>3, <1>5, <1>6

LEMMA GetKeepsLine == TypeOK /\ ThreadInv /\ RxGet => Line' = Line
<1>. SUFFICES ASSUME TypeOK, ThreadInv, RxGet  PROVE Line' = Line
  OBVIOUS
<1>1. PICK n \in 0 .. Len(net) : /\ buffer' = SubSeq(net, 1, n)
                                 /\ net' = SubSeq(net, n + 1, Len(net))
  BY DEF RxGet
<1>2. /\ buffer' \in Seq(Byte) /\ net' \in Seq(Byte)
      /\ buffer' \o net' = net
  BY <1>1, CutAt DEF TypeOK
<1>3. (mRxBuffer \o buffer') \o net' = mRxBuffer \o (buffer' \o net')
  <2>1. mRxBuffer \in Seq(Byte) /\ buffer' \in Seq(Byte) /\ net' \in Seq(Byte)
    BY <1>2 DEF TypeOK
  <2>. QED  BY <2>1, Regroup
<1>4. buffer = <<>> /\ mRxBuffer \o buffer = mRxBuffer
  BY ConcatEmptySeq DEF RxGet, ThreadInv, TypeOK
<1>. QED  BY <1>2, <1>3, <1>4 DEF RxGet, Line

LEMMA AppendKeepsLine ==
  TypeOK /\ RxAppend
    => Line' = Line /\ Len(mRxBuffer') \in Len(mRxBuffer) .. Len(Line)
<1>. SUFFICES ASSUME TypeOK, RxAppend
              PROVE  /\ Line' = Line
                     /\ Len(mRxBuffer') \in Len(mRxBuffer) .. Len(Line)
  OBVIOUS
<1>1. (mRxBuffer \o buffer) \o <<>> = mRxBuffer \o buffer
  BY LineType, ConcatEmptySeq
<1>2. Line' = Line
  BY <1>1 DEF RxAppend, Line
<1>3. mRxBuffer' = mRxBuffer \o buffer /\ Len(mRxBuffer') \in Nat
  BY LineType, LenProperties DEF RxAppend
<1>. QED  BY <1>2, <1>3, LineType

LEMMA ReadCutsLine ==
  TypeOK /\ Read
    => \E k \in 0 .. Len(mRxBuffer) :
         /\ Len(mRxBuffer') = Len(mRxBuffer) - k
         /\ delivered' = delivered \o SubSeq(Line, 1, k)
         /\ Line' = SubSeq(Line, k + 1, Len(Line))
<1>. DEFINE k == ReadCount(want)
            t == buffer \o net
<1>. SUFFICES ASSUME TypeOK, Read
              PROVE  /\ k \in 0 .. Len(mRxBuffer)
                     /\ Len(mRxBuffer') = Len(mRxBuffer) - k
                     /\ delivered' = delivered \o SubSeq(Line, 1, k)
                     /\ Line' = SubSeq(Line, k + 1, Len(Line))
  OBVIOUS
<1>1. k \in 0 .. Len(mRxBuffer)
  BY LenProperties DEF ReadCount, TypeOK
<1>2. /\ delivered' = delivered \o SubSeq(mRxBuffer, 1, k)
      /\ mRxBuffer' = SubSeq(mRxBuffer, k + 1, Len(mRxBuffer))
  BY DEF Read
<1>3. /\ mRxBuffer \in Seq(Byte) /\ buffer \in Seq(Byte) /\ net \in Seq(Byte)
      /\ t \in Seq(Byte) /\ Line = mRxBuffer \o t
  BY LineType DEF TypeOK
<1>4. mRxBuffer' \in Seq(Byte) /\ Len(mRxBuffer') = Len(mRxBuffer) - k
  BY <1>1, <1>2, <1>3, CutAt
<1>5. Line' = (mRxBuffer' \o buffer) \o net
  BY DEF Read, Line
<1>6. Line' = mRxBuffer' \o t
  BY <1>3, <1>4, <1>5, Regroup
<1>. HIDE DEF k, t
<1>7. /\ SubSeq(Line, 1, k) = SubSeq(mRxBuffer, 1, k)
      /\ SubSeq(Line, k + 1, Len(Line))
           = SubSeq(mRxBuffer, k + 1, Len(mRxBuffer)) \o t
  BY <1>1, <1>3, CutInFirst
<1>. QED  BY <1>1, <1>2, <1>4, <1>6, <1>7

(* Every step of the device is a step of the byte stream, or none. *)
THEOREM DeviceIsByteStream == Spec => ImplementsByteStream
<1>. USE DEF Stream_!bsVars, Stream_!BSNext
<1>1. Init => Stream_!BSInit
  <2>. SUFFICES ASSUME Init  PROVE Stream_!BSInit
    OBVIOUS
  <2>1. Line = <<>> /\ Len(mRxBuffer) = 0
    BY ConcatEmptySeq, EmptySeq DEF Init, Line
  <2>. QED  BY <2>1 DEF Init, Line, Stream_!BSInit
<1>2. TypeOK /\ ThreadInv /\ [Next]_vars => [Stream_!BSNext]_Stream_!bsVars
  <2>. SUFFICES ASSUME TypeOK, ThreadInv, [Next]_vars
                PROVE  [Stream_!BSNext]_Stream_!bsVars
    OBVIOUS
  <2>1. CASE PeerSend
    <3>1. Stream_!Send
      BY <2>1, SendExtendsLine DEF PeerSend, Line, Stream_!Send
    <3>. QED  BY <3>1
  <2>2. CASE LinkFail \/ StopJoin \/ PeerClose
    <3>1. PICK n \in Len(mRxBuffer) .. Len(Line) : Line' = SubSeq(Line, 1, n)
      BY <2>2, LossCutsLine
    <3>2. Stream_!Break(n)
      BY <2>2, <3>1 DEF LinkFail, StopJoin, PeerClose, Line, Stream_!Break
    <3>. QED  BY <3>1, <3>2 DEF Line
  <2>3. CASE RxAppend
    <3>1. Stream_!Receive(Len(mRxBuffer'))
      BY <2>3, AppendKeepsLine DEF RxAppend, Line, Stream_!Receive
    <3>. QED  BY <2>3, <3>1, AppendKeepsLine DEF Line
  <2>4. CASE Read
    <3>1. PICK k \in 0 .. Len(mRxBuffer) :
            /\ Len(mRxBuffer') = Len(mRxBuffer) - k
            /\ delivered' = delivered \o SubSeq(Line, 1, k)
            /\ Line' = SubSeq(Line, k + 1, Len(Line))
      BY <2>4, ReadCutsLine
    <3>2. Stream_!Deliver(k)
      BY <2>4, <3>1 DEF Read, Line, Stream_!Deliver
    <3>. QED  BY <3>2
  <2>5. CASE Reconnected
    <3>1. Stream_!Connect
      BY <2>5 DEF Reconnected, ThreadInv, Stream_!Connect
    <3>. QED  BY <3>1
  <2>6. CASE RxGet
    BY <2>6, GetKeepsLine DEF RxGet, Line
  <2>7. CASE \/ RxTest \/ RxSleep \/ RxError \/ RxExit
             \/ Start \/ StopBegin \/ ReconnectFailed
             \/ ReaderStart \/ ReaderStop \/ Poll
    BY <2>7 DEF RxTest, RxSleep, RxError, RxExit, Start, StopBegin,
                ReconnectFailed, ReaderStart, ReaderStop, Poll, StartThread
  <2>8. CASE UNCHANGED vars
    BY <2>8 DEF vars
  <2>. QED
    BY <2>1, <2>2, <2>3, <2>4, <2>5, <2>6, <2>7, <2>8 DEF Next, RxProc
<1>. QED
  BY <1>1, <1>2, TypeCorrect, ThreadsSafe, PTL
  DEF Spec, ImplementsByteStream, Stream_!BSSpec

=============================================================================
