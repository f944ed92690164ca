------------------------------ MODULE TcpDevice ------------------------------
(***************************************************************************)
(* comxd/ioimpls/TcpClient.cpp: the TCP device.  Three threads meet here.  *)
(*   - the GUI thread calls Start, Stop and Reconnect (comxd/main.cpp,     *)
(*     TcpClientDialog.cpp);                                               *)
(*   - the receiver thread mRx runs RxProc and fills mRxBuffer;            *)
(*   - the reader, the terminal's own thread, polls Available and reads    *)
(*     what it reported (SerialIo::ReadRaw).                               *)
(* The socket and the peer are external and are modelled by what RxProc    *)
(* can observe of them.  Every section under mLock is one action.          *)
(***************************************************************************)
EXTENDS Integers, Sequences

CONSTANTS MaxConns,    (* connections made during a behaviour (a bound)     *)
          MaxBytes,    (* bytes the peer sends on one connection (a bound)  *)
          kBufferSize  (* bytes RxProc takes from the socket at once        *)

ASSUME BoundsAssumption == /\ MaxConns \in Nat
                           /\ MaxBytes \in Nat
                           /\ kBufferSize \in Nat \ {0}

VARIABLES
  conn,         (* number of the current connection                        *)
  nsent,        (* bytes the peer sent on it                               *)
  link,         (* the socket: "open", "eof", "failed" or "closed"         *)
  net,          (* bytes sent by the peer and not yet taken by Get         *)
  mShouldStop,
  mRunning,
  rx,           (* thread mRx: "none" is not joinable, "ended" is joinable *)
  buffer,       (* RxProc's local buffer, not yet in mRxBuffer             *)
  mRxBuffer,
  gui,          (* GUI thread: "idle", or inside Stop or Reconnect         *)
  reader,       (* terminal thread                                         *)
  want,         (* the size Available reported to the reader               *)
  delivered     (* history: every byte Read returned, in order             *)

linkVars == <<conn, nsent, link, net>>
rxVars == <<rx, buffer>>
readerVars == <<reader, want, delivered>>
vars == <<conn, nsent, link, net, mShouldStop, mRunning, rx, buffer,
          mRxBuffer, gui, reader, want, delivered>>

Byte == [conn : Nat, seq : Nat]

RxAlive == {"loop", "get", "append", "exit"}

(* The dialog connects the socket and constructs the device around it; *)
(* nothing is started yet.                                             *)
Init == /\ conn = 1 /\ nsent = 0 /\ link = "open" /\ net = <<>>
        /\ mShouldStop = FALSE /\ mRunning = FALSE
        /\ rx = "none" /\ buffer = <<>> /\ mRxBuffer = <<>>
        /\ gui = "idle"
        /\ reader = "off" /\ want = 0 /\ delivered = <<>>

-----------------------------------------------------------------------------
(* The peer and the network. *)

PeerSend == /\ link = "open"
            /\ nsent < MaxBytes
            /\ nsent' = nsent + 1
            /\ net' = Append(net, [conn |-> conn, seq |-> nsent + 1])
            /\ UNCHANGED <<conn, link, mShouldStop, mRunning, rxVars,
                           mRxBuffer, gui, readerVars>>

(* The peer closes its side: what it sent stays readable. *)
PeerClose == /\ link = "open"
             /\ link' = "eof"
             /\ UNCHANGED <<conn, nsent, net, mShouldStop, mRunning, rxVars,
                            mRxBuffer, gui, readerVars>>

(* The connection is reset: the socket keeps a prefix of what was sent. *)
LinkFail == /\ link = "open"
            /\ link' = "failed"
            /\ \E n \in 0 .. Len(net) : net' = SubSeq(net, 1, n)
            /\ UNCHANGED <<conn, nsent, mShouldStop, mRunning, rxVars,
                           mRxBuffer, gui, readerVars>>

-----------------------------------------------------------------------------
(* RxProc. *)

(* while (!mShouldStop) *)
RxTest == /\ rx = "loop"
          /\ rx' = IF mShouldStop THEN "exit" ELSE "get"
          /\ UNCHANGED <<linkVars, mShouldStop, mRunning, buffer, mRxBuffer,
                         gui, readerVars>>

(* WaitRead succeeds and Get takes at most kBufferSize bytes; at the end *)
(* of the stream the socket stays readable and Get takes none.           *)
RxGet == /\ rx = "get"
         /\ net # <<>> \/ link = "eof"
         /\ \E n \in 0 .. Len(net) :
              /\ n <= kBufferSize
              /\ n = 0 => net = <<>>
              /\ buffer' = SubSeq(net, 1, n)
              /\ net' = SubSeq(net, n + 1, Len(net))
         /\ rx' = "append"
         /\ UNCHANGED <<conn, nsent, link, mShouldStop, mRunning, mRxBuffer,
                        gui, readerVars>>

(* WaitRead finds nothing and the socket is sound: sleep, test again. *)
RxSleep == /\ rx = "get"
           /\ net = <<>> /\ link = "open"
           /\ rx' = "loop"
           /\ UNCHANGED <<linkVars, mShouldStop, mRunning, buffer, mRxBuffer,
                          gui, readerVars>>

(* WaitRead or Get reports an error: leave the loop. *)
RxError == /\ rx = "get"
           /\ net = <<>> /\ link = "failed"
           /\ rx' = "exit"
           /\ UNCHANGED <<linkVars, mShouldStop, mRunning, buffer, mRxBuffer,
                          gui, readerVars>>

RxAppend_Overwrites ==
          /\ rx = "append"
          /\ mRxBuffer' = buffer
          /\ buffer' = <<>>
          /\ rx' = "loop"
          /\ UNCHANGED <<linkVars, mShouldStop, mRunning, gui, readerVars>>

RxAppend == /\ rx = "append"
            /\ mRxBuffer' = mRxBuffer \o buffer
            /\ buffer' = <<>>
            /\ rx' = "loop"
            /\ UNCHANGED <<linkVars, mShouldStop, mRunning, gui, readerVars>>

RxExit_LeavesRunning ==
          /\ rx = "exit"
          /\ rx' = "ended"
          /\ UNCHANGED <<linkVars, mShouldStop, mRunning, buffer, mRxBuffer,
                         gui, readerVars>>

(* mRunning = false; the thread ends and stays joinable. *)
RxExit == /\ rx = "exit"
          /\ mRunning' = FALSE
          /\ rx' = "ended"
          /\ UNCHANGED <<linkVars, mShouldStop, buffer, mRxBuffer, gui,
                         readerVars>>

RxProc == RxTest \/ RxGet \/ RxSleep \/ RxError \/ RxAppend \/ RxExit

-----------------------------------------------------------------------------
(* The GUI thread. *)

(* Start does nothing, and says true, while a thread runs or was not joined. *)
(* Its callers have just connected the socket: CreateConn and Reconnect.     *)
CanStart == ~mRunning /\ rx = "none"

StartThread == /\ mShouldStop' = FALSE
               /\ mRunning' = TRUE
               /\ rx' = "loop"

Start == /\ gui = "idle"
         /\ link # "closed"
         /\ CanStart
         /\ StartThread
         /\ UNCHANGED <<linkVars, buffer, mRxBuffer, gui, readerVars>>

StopBegin_NoFlag ==
             /\ gui = "idle"
             /\ reader = "off"
             /\ gui' \in {"stop", "reconnect"}
             /\ UNCHANGED <<linkVars, rxVars, mShouldStop, mRunning,
                            mRxBuffer, readerVars>>

(* Stop, called alone or first thing by Reconnect.  Every caller has    *)
(* stopped the terminal before: main.cpp 63-64, 105-107, 192-193, 199.  *)
StopBegin == /\ gui = "idle"
             /\ reader = "off"
             /\ mShouldStop' = TRUE
             /\ gui' \in {"stop", "reconnect"}
             /\ UNCHANGED <<linkVars, rxVars, mRunning, mRxBuffer, readerVars>>

StopJoin_NoJoin ==
            /\ gui \in {"stop", "reconnect"}
            /\ rx' = "none"
            /\ link' = "closed"
            /\ net' = <<>>
            /\ gui' = IF gui = "stop" THEN "idle" ELSE "connect"
            /\ UNCHANGED <<conn, nsent, mShouldStop, mRunning, buffer,
                           mRxBuffer, readerVars>>

(* mRx.join() when joinable, then mTcp->Close(). *)
StopJoin == /\ gui \in {"stop", "reconnect"}
            /\ rx \in {"none", "ended"}
            /\ rx' = "none"
            /\ link' = "closed"
            /\ net' = <<>>
            /\ gui' = IF gui = "stop" THEN "idle" ELSE "connect"
            /\ UNCHANGED <<conn, nsent, mShouldStop, mRunning, buffer,
                           mRxBuffer, readerVars>>

(* The dialog connected the socket again, and Start runs. *)
Reconnected == /\ gui = "connect"
               /\ conn < MaxConns
               /\ conn' = conn + 1
               /\ nsent' = 0
               /\ link' = "open"
               /\ IF CanStart THEN StartThread
                              ELSE UNCHANGED <<mShouldStop, mRunning, rx>>
               /\ gui' = "idle"
               /\ UNCHANGED <<net, buffer, mRxBuffer, readerVars>>

(* The dialog could not connect: Reconnect returns false. *)
ReconnectFailed == /\ gui = "connect"
                   /\ gui' = "idle"
                   /\ UNCHANGED <<linkVars, mShouldStop, mRunning, rxVars,
                                  mRxBuffer, readerVars>>

-----------------------------------------------------------------------------
(* The terminal's thread. *)

Available_WholeStream ==
             IF rx = "none" \/ ~mRunning THEN -1
             ELSE Len(mRxBuffer) + Len(buffer)

Available == IF rx = "none" \/ ~mRunning THEN -1 ELSE Len(mRxBuffer)

(* The terminal is started by the GUI thread after the device, also when a *)
(* reconnect failed, and stopped at the end of a round of its loop.        *)
ReaderStart == /\ gui = "idle"
               /\ rx # "none" \/ link = "closed"
               /\ reader = "off"
               /\ reader' = "poll"
               /\ UNCHANGED <<linkVars, mShouldStop, mRunning, rxVars,
                              mRxBuffer, gui, want, delivered>>

ReaderStop == /\ gui = "idle"
              /\ reader \in {"poll", "dead"}
              /\ reader' = "off"
              /\ UNCHANGED <<linkVars, mShouldStop, mRunning, rxVars,
                             mRxBuffer, gui, want, delivered>>

Poll_NonZero ==
        /\ reader = "poll"
        /\ Available # 0
        /\ want' = Available
        /\ reader' = "read"
        /\ UNCHANGED <<linkVars, mShouldStop, mRunning, rxVars, mRxBuffer,
                       gui, delivered>>

(* Available < 0 ends the terminal's thread, 0 lets it sleep, a positive *)
(* size is read next.                                                    *)
Poll == /\ reader = "poll"
        /\ \/ /\ Available < 0
              /\ reader' = "dead"
              /\ UNCHANGED want
           \/ /\ Available > 0
              /\ want' = Available
              /\ reader' = "read"
        /\ UNCHANGED <<linkVars, mShouldStop, mRunning, rxVars, mRxBuffer,
                       gui, delivered>>

(* Read(buf, sz) pops at most sz bytes of mRxBuffer. *)
ReadCount(sz) == IF sz <= Len(mRxBuffer) THEN sz ELSE Len(mRxBuffer)

Read_KeepsBuffer ==
        /\ reader = "read"
        /\ delivered' = delivered \o SubSeq(mRxBuffer, 1, ReadCount(want))
        /\ want' = 0
        /\ reader' = "poll"
        /\ UNCHANGED <<linkVars, mShouldStop, mRunning, rxVars, mRxBuffer, gui>>

Read == /\ reader = "read"
        /\ LET k == ReadCount(want)
           IN  /\ delivered' = delivered \o SubSeq(mRxBuffer, 1, k)
               /\ mRxBuffer' = SubSeq(mRxBuffer, k + 1, Len(mRxBuffer))
        /\ want' = 0
        /\ reader' = "poll"
        /\ UNCHANGED <<linkVars, mShouldStop, mRunning, rxVars, gui>>

-----------------------------------------------------------------------------
Next == \/ PeerSend \/ PeerClose \/ LinkFail
        \/ RxProc
        \/ Start \/ StopBegin \/ StopJoin \/ Reconnected \/ ReconnectFailed
        \/ ReaderStart \/ ReaderStop \/ Poll \/ Read

Spec == Init /\ [][Next]_vars

(* Threads are scheduled: RxProc's loop, a join whose thread has ended, *)
(* and the terminal's loop go on.  The user and the peer need not act.  *)
Fairness == /\ WF_vars(RxProc)
            /\ WF_vars(StopJoin)
            /\ WF_vars(Poll)
            /\ WF_vars(Read)

FairSpec == Spec /\ Fairness

-----------------------------------------------------------------------------
(* Every variable keeps its type; want is a size, never the -1 of a dead *)
(* device (TcpClient.cpp 65-70).                                         *)
TypeOK == /\ conn \in Nat /\ nsent \in Nat
          /\ link \in {"open", "eof", "failed", "closed"}
          /\ net \in Seq(Byte) /\ buffer \in Seq(Byte)
          /\ mRxBuffer \in Seq(Byte) /\ delivered \in Seq(Byte)
          /\ mShouldStop \in BOOLEAN /\ mRunning \in BOOLEAN
          /\ rx \in {"none", "ended"} \cup RxAlive
          /\ gui \in {"idle", "stop", "reconnect", "connect"}
          /\ reader \in {"off", "poll", "read", "dead"}
          /\ want \in Nat

(* mRunning says exactly that the receiver thread is alive, so that Start *)
(* never spawns over a joinable thread and Stop never waits for a thread  *)
(* that was not told to end; the socket is closed only when no thread can *)
(* still be using it (TcpClient.cpp 32-63, 93-106).                       *)
ThreadInv == /\ mRunning <=> rx \in RxAlive
             /\ gui # "idle" => mShouldStop
             /\ link = "closed" => rx = "none"
             /\ gui = "connect" => link = "closed"
             /\ rx # "append" => buffer = <<>>

(* All the bytes the device knows of, oldest first. *)
Stream == delivered \o mRxBuffer \o buffer \o net

(* b follows a on the same connection with no gap, or b is the first of *)
(* a later one.                                                         *)
Follows(a, b) == \/ b.conn = a.conn /\ b.seq = a.seq + 1
                 \/ b.conn > a.conn /\ b.seq = 1

(* Through the socket, RxProc's local buffer, mRxBuffer and Read no byte *)
(* is lost, duplicated or reordered: of each connection the terminal     *)
(* reads a prefix, and connections do not mix, although Stop, Start and  *)
(* Reconnect run at any moment and mRxBuffer is never cleared.           *)
StreamInv == /\ \A i \in 1 .. Len(Stream) :
                  IF i = 1 THEN Stream[i].seq = 1
                           ELSE Follows(Stream[i - 1], Stream[i])
             /\ Stream # <<>> => Stream[Len(Stream)].conn <= conn

(* ReadRaw(n) returns n bytes whatever Read delivered, zeros for the rest *)
(* (SerialIo.cpp 14-19): it must never be called for more than there is,  *)
(* although the size was sampled in an earlier critical section.          *)
ReadIsNeverShort == [][Read => Len(delivered') = Len(delivered) + want]_vars

(* Stop returns: the receiver thread always sees mShouldStop, whatever the *)
(* socket does (TcpClient.cpp 32-39).                                      *)
StopReturns == gui \in {"stop", "reconnect"} ~> gui \in {"idle", "connect"}

(* A terminal that polls a reset connection is told so (SerialIo.h 20-22). *)
FailureIsReported ==
  (link = "failed" /\ reader \in {"poll", "read"}) ~> reader \in {"dead", "off"}

(* A byte on a sound connection reaches a terminal that keeps polling. *)
Delivered(b) == \E i \in 1 .. Len(delivered) : delivered[i] = b

BytesArrive ==
  \A c \in 1 .. MaxConns, s \in 1 .. MaxBytes :
    (conn = c /\ nsent >= s) ~> \/ Delivered([conn |-> c, seq |-> s])
                                \/ link # "open"
                                \/ reader \in {"off", "dead"}

(* The device implements the byte stream a terminal may rely on. *)
Stream_ == INSTANCE ByteStream
             WITH up <- link = "open",
                  line <- mRxBuffer \o buffer \o net,
                  ready <- Len(mRxBuffer),
                  got <- delivered

ImplementsByteStream == Stream_!BSSpec
=============================================================================
