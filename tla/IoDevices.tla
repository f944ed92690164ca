------------------------------ MODULE IoDevices ------------------------------
(***************************************************************************)
(* The devices a raw terminal is used with besides TCP (comxd/ioimpls):    *)
(* UdpClient, the two ends of a named pipe, SerialPort.  All but the       *)
(* serial port run a receiver thread that moves what arrives to a buffer;  *)
(* the threads differ in when they end and in how they wait.               *)
(*                                                                         *)
(* Sockets, pipes, the operating system's part of overlapped calls and the *)
(* serial library are external.  A byte is its number in the order the     *)
(* peer sent it.  Reads and writes by the terminal are in RawTerminal.     *)
(***************************************************************************)
EXTENDS Integers, Sequences, SequencesExt

CONSTANTS MaxBytes,    (* bytes the peer sends in a behaviour (a bound)     *)
          MaxMessage,  (* the longest message of the peer (a bound)         *)
          RxSize,      (* size of the receiver's local buffer               *)
          MaxClients   (* connections of a pipe in a behaviour (a bound)    *)

ASSUME DevicesAssumption == /\ {MaxBytes, MaxMessage, MaxClients} \subseteq Nat
                            /\ RxSize \in Nat \ {0}

VARIABLES
  device,      (* which of the classes it is: no action changes it          *)
  opened,      (* mUdp, mPipe or mSerial can be used                        *)
  mShouldStop,
  mRx,         (* the receiver: "none", "loop", "reading" (its overlapped   *)
               (* read has not completed), "ended" (returned, not joined)   *)
  mPending,    (* pipe server: it waits for mEventConnected                 *)
  connected,   (* mEventConnected                                           *)
  ioBuffer,    (* the device's mRxBuffer                                    *)
  peer,        (* the other end: "away", "here" or "gone" (it closed)       *)
  unannounced, (* history: the client came before ConnectNamedPipe          *)
  nclients,    (* history: clients so far                                   *)
  wire,        (* messages sent and not received                            *)
  nsent        (* history: bytes sent                                       *)

threadVars == <<mShouldStop, mRx>>
pipeVars == <<mPending, connected, peer, unannounced, nclients>>
lineVars == <<wire, nsent>>
deviceVars == <<device, opened, mShouldStop, mRx, mPending, connected, ioBuffer,
                peer, unannounced, nclients, wire, nsent>>

Devices == {"UdpClient", "PipeServer", "PipeClient", "Serial"}
Piped == device \in {"PipeServer", "PipeClient"}

(* mRunning is the life of the thread: RxProc ends by clearing it.          *)
mRunning == mRx \in {"loop", "reading"}

Bytes == FlattenSeq(wire)

(* What Start leaves, called by the dialog that creates the device. *)
DeviceInit == /\ device \in Devices
              /\ opened = TRUE
              /\ mShouldStop = FALSE
              /\ mRx = IF device = "Serial" THEN "none" ELSE "loop"
              /\ mPending = TRUE
              /\ connected = FALSE
              /\ ioBuffer = <<>>
              /\ peer = IF device = "PipeServer" THEN "away" ELSE "here"
              /\ unannounced = FALSE
              /\ nclients = IF device = "PipeServer" THEN 0 ELSE 1
              /\ wire = <<>>
              /\ nsent = 0

-----------------------------------------------------------------------------
(* The peer. *)

(* A client opens the pipe: the pending ConnectNamedPipe completes.         *)
ClientComes == /\ device = "PipeServer" /\ opened
               /\ peer = "away" /\ nclients < MaxClients
               /\ nclients' = nclients + 1
               /\ peer' = "here"
               /\ connected' = TRUE
               /\ UNCHANGED <<device, opened, threadVars, mPending, ioBuffer,
                              unannounced, lineVars>>

(* The pipe's other end closes; the serial port is unplugged.               *)
PeerLeaves == /\ device # "UdpClient" /\ peer = "here"
              /\ peer' = "gone"
              /\ UNCHANGED <<device, opened, threadVars, mPending, connected,
                             unannounced, nclients, ioBuffer, lineVars>>

(* Nothing arrives at a closed device, and UDP and a serial line may lose   *)
(* what was sent.                                                           *)
PeerSends == /\ peer = "here"
             /\ \E n \in 1 .. MaxMessage :
                  /\ nsent + n <= MaxBytes
                  /\ nsent' = nsent + n
                  /\ \/ /\ opened
                        /\ wire' = Append(wire, [i \in 1 .. n |-> nsent + i])
                     \/ /\ device \in {"UdpClient", "Serial"}
                        /\ UNCHANGED wire
             /\ UNCHANGED <<device, opened, threadVars, pipeVars, ioBuffer>>

-----------------------------------------------------------------------------
(* RxProc. *)

ReceiverEnds == /\ mRx' = "ended"
                /\ UNCHANGED <<device, opened, mShouldStop, pipeVars, ioBuffer,
                               lineVars>>

LoopEnds == mRx = "loop" /\ mShouldStop /\ ReceiverEnds

Stores(bytes, rest) ==
  /\ ioBuffer' = ioBuffer \o bytes
  /\ wire' = rest
  /\ mRx' = "loop"
  /\ UNCHANGED <<device, opened, mShouldStop, pipeVars, nsent>>

(* UdpClient: select and recvfrom with a timeout; an error is a timeout.    *)
UdpReceive == /\ device = "UdpClient" /\ mRx = "loop" /\ ~mShouldStop
              /\ wire # <<>>
              /\ Stores(Head(wire), Tail(wire))

ServerConnects == /\ device = "PipeServer" /\ mRx = "loop" /\ ~mShouldStop
                  /\ mPending /\ connected
                  /\ mPending' = FALSE
                  /\ UNCHANGED <<device, opened, threadVars, connected, peer,
                                 unannounced, nclients, ioBuffer, lineVars>>

Reads == /\ Piped /\ mRx = "loop" /\ ~mShouldStop
         /\ device = "PipeServer" => ~mPending

(* The server reads whole messages, the client as many bytes as fit. *)
Fits == device = "PipeServer" => Len(Head(wire)) <= RxSize

TakesMessage ==
  LET n == IF Len(Head(wire)) < RxSize THEN Len(Head(wire)) ELSE RxSize
      left == SubSeq(Head(wire), n + 1, Len(Head(wire)))
  IN  Stores(SubSeq(Head(wire), 1, n),
             IF left = <<>> THEN Tail(wire) ELSE <<left>> \o Tail(wire))

(* A read that can complete at once.  A message that does not fit is an     *)
(* error, which ends the thread, as does a pipe without a peer.             *)
ReadCompletes == /\ Reads
                 /\ \/ wire # <<>> /\ Fits /\ TakesMessage
                    \/ wire # <<>> /\ ~Fits /\ ReceiverEnds
                    \/ wire = <<>> /\ peer # "here" /\ ReceiverEnds

ReadPends == /\ Reads
             /\ wire = <<>> /\ peer = "here"
             /\ mRx' = "reading"
             /\ UNCHANGED <<device, opened, mShouldStop, pipeVars, ioBuffer,
                            lineVars>>

(* DisconnectNamedPipe and Connect: what the client wrote is discarded and  *)
(* the next one is waited for.                                              *)
ServerWaitsAgain_StaysBound ==
                    /\ mRx' = "loop"
                    /\ peer' = "away"
                    /\ wire' = <<>>
                    /\ connected' = FALSE
                    /\ UNCHANGED <<device, opened, mShouldStop, mPending,
                                   unannounced, nclients, ioBuffer, nsent>>

ServerWaitsAgain == /\ mRx' = "loop"
                    /\ peer' = "away"
                    /\ wire' = <<>>
                    /\ mPending' = TRUE
                    /\ connected' = FALSE
                    /\ UNCHANGED <<device, opened, mShouldStop, unannounced,
                                   nclients, ioBuffer, nsent>>

(* The pending read has a result, or Stop ends the wait for one: then, or   *)
(* on an error, the server disconnects and the client ends its thread.      *)
ReadReturns ==
  /\ mRx = "reading"
  /\ \/ wire # <<>> /\ Fits /\ TakesMessage
     \/ /\ \/ wire = <<>> /\ (peer # "here" \/ mShouldStop)
           \/ wire # <<>> /\ ~Fits
        /\ IF device = "PipeServer" THEN ServerWaitsAgain ELSE ReceiverEnds

RxThread == \/ LoopEnds \/ UdpReceive
            \/ ServerConnects \/ ReadCompletes \/ ReadPends \/ ReadReturns

-----------------------------------------------------------------------------
(* Called by the threads of the terminal. *)

(* -1 of a pipe whose thread ended, of a serial port closed or unplugged.   *)
(* A UDP device never says so.                                              *)
Available == CASE device = "Serial"    -> IF opened /\ peer = "here" THEN Len(Bytes)
                                                              ELSE -1
               [] device = "UdpClient" -> Len(ioBuffer)
               [] Piped -> IF mRunning THEN Len(ioBuffer) ELSE -1

(* ReadRaw: the n oldest bytes, padded with 0 when there are fewer.         *)
Unread == IF device = "Serial" THEN Bytes ELSE ioBuffer
ReadRaw(n) == [i \in 1 .. n |-> IF i <= Len(Unread) THEN Unread[i] ELSE 0]

Read(n) ==
  LET rest == SubSeq(Unread, n + 1, Len(Unread))
  IN  /\ IF device = "Serial"
         THEN /\ wire' = IF rest = <<>> THEN <<>> ELSE <<rest>>
              /\ UNCHANGED ioBuffer
         ELSE ioBuffer' = rest /\ UNCHANGED wire
      /\ UNCHANGED <<device, opened, threadVars, pipeVars, nsent>>

(* How much a Write of n bytes may report.  A datagram goes out or does     *)
(* not; the others write block by block and stop at the first that fails,   *)
(* which a pipe's block does too when another thread's write sets the event *)
(* both wait for.                                                           *)
DatagramWritten(n) == {0, n}
BlocksWritten(n) == 0 .. n

Written(n) == IF ~opened \/ peer # "here" THEN {0}
              ELSE IF device = "UdpClient" THEN DatagramWritten(n)
              ELSE BlocksWritten(n)

(* Stop tells the thread to end; it is joined before the handles close.     *)
StopBegins == /\ mShouldStop' = TRUE
              /\ UNCHANGED <<device, opened, mRx, pipeVars, ioBuffer, lineVars>>

Stopped == mRx \in {"none", "ended"}

StopEnds == /\ Stopped
            /\ mRx' = "none"
            /\ opened' = FALSE
            /\ wire' = <<>>
            /\ peer' = IF Piped THEN "away" ELSE peer
            /\ UNCHANGED <<device, mShouldStop, mPending, connected, unannounced,
                           nclients, ioBuffer, nsent>>

(* Start, after a Stop: the socket, the pipe or the port.  mPending keeps   *)
(* the value the last run left.                                             *)
StartOpens == /\ ~opened
              /\ device = "PipeClient" => nclients < MaxClients
              /\ device = "Serial" => peer = "here"
              /\ opened' = TRUE
              /\ peer' = IF device = "PipeClient" THEN "here" ELSE peer
              /\ nclients' = IF device = "PipeClient" THEN nclients + 1
                                                      ELSE nclients
              /\ connected' = TRUE
              /\ unannounced' = FALSE
              /\ UNCHANGED <<device, threadVars, mPending, ioBuffer, lineVars>>

(* Connect and the thread.  A client that came between CreateNamedPipe and  *)
(* ConnectNamedPipe leaves mPending alone and the event reset.              *)
StartRuns == /\ opened /\ mRx = "none" /\ device # "Serial"
             /\ mShouldStop' = FALSE
             /\ mRx' = "loop"
             /\ unannounced' = (device = "PipeServer" /\ peer # "away")
             /\ mPending' = IF unannounced' THEN mPending ELSE TRUE
             /\ connected' = FALSE
             /\ UNCHANGED <<device, opened, peer, nclients, ioBuffer, lineVars>>
=============================================================================
