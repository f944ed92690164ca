------------------------------- MODULE VtConn -------------------------------
(***************************************************************************)
(* A terminal tab: the receiver thread of SerialConnVT, the GUI thread     *)
(* that renders what it parsed and that stops, restarts, reconnects and    *)
(* closes it (comxd/main.cpp), and the file transfer that borrows its      *)
(* device (proto/Proto*.cpp TransmitFile).                                 *)
(*                                                                         *)
(* The device is the byte stream every SerialIo promises (ByteStream), and *)
(* Available is its ready, or -1 some time after it went down.  Bytes are  *)
(* parsed here without their values: a parse turns all of raw but an       *)
(* unfinished tail into sequences, each standing for the bytes it was made *)
(* of.  A section under mLockVt is one action.                             *)
(***************************************************************************)
EXTENDS ByteStream, FiniteSets

CONSTANTS MaxTail,  (* longest unfinished tail a parse leaves in raw (a bound) *)
          MaxTotal  (* bytes that reach the device on all connections (a bound) *)

ASSUME TabAssumption == /\ MaxConns \in Nat /\ MaxBytes \in Nat
                        /\ MaxTail \in Nat /\ MaxTotal \in Nat

VARIABLES
  asks,      (* the device asks in a dialog before it reconnects           *)
  mRxShouldStop,
  rxThr,     (* mRxThr: "none" is not joinable; "ended" returned, joinable *)
  sz,        (* what Available returned to RxProc                          *)
  raw,       (* RxProc's local: bytes read and not parsed                  *)
  mSeqs,     (* parsed, not rendered                                       *)
  posted,    (* callbacks in the GUI queue; an exception with the number   *)
             (* of the connection whose receiver posted it                 *)
  gui,       (* GUI thread: in the event loop, or inside a handler; named  *)
             (* after the button while it waits in conn->Stop() for it     *)
  job,       (* thread of a file transfer                                  *)
  icon,      (* image of the tab: 0 is the active one, c the exception     *)
             (* image, put up for the end of connection c                  *)
  rendered,  (* history: bytes on the screen, in order                     *)
  jobGot,    (* history: bytes the file transfers read, in order           *)
  lost       (* history: bytes read by RxProc and dropped with raw         *)

ioVars == <<conn, nsent, up, line, ready, got, asks>>
rxVars == <<mRxShouldStop, rxThr, sz, raw>>
guiVars == <<gui, icon>>
history == <<rendered, jobGot, lost>>
vars == <<conn, nsent, up, line, ready, got, asks, mRxShouldStop, rxThr, sz,
          raw, mSeqs, posted, gui, job, icon, rendered, jobGot, lost>>

Handlers == {"disconnect", "reconnect", "send", "close"}
RxAlive == {"test", "poll", "read", "parse"}

Render == <<"render", 0>>
Exception(c) == <<"exception", c>>

BytesOf(s) == {s[i] : i \in 1 .. Len(s)}

(* The dialog that made the tab has started the device and the terminal. *)
Init == /\ BSInit
        /\ asks \in BOOLEAN
        /\ mRxShouldStop = FALSE /\ rxThr = "test" /\ sz = 0 /\ raw = <<>>
        /\ mSeqs = <<>> /\ posted = {}
        /\ gui = "idle" /\ job = "none" /\ icon = 0
        /\ rendered = <<>> /\ jobGot = <<>> /\ lost = {}

-----------------------------------------------------------------------------
(* The peer and the device. *)

PeerSend == /\ Len(got) + Len(line) < MaxTotal
            /\ Send
            /\ UNCHANGED <<asks, rxVars, mSeqs, posted, guiVars, job, history>>

DeviceReceive == /\ \E n \in ready + 1 .. Len(line) : Receive(n)
                 /\ UNCHANGED <<asks, rxVars, mSeqs, posted, guiVars, job,
                                history>>

LinkBreak == /\ up
             /\ \E n \in ready .. Len(line) : Break(n)
             /\ UNCHANGED <<asks, rxVars, mSeqs, posted, guiVars, job,
                                history>>

-----------------------------------------------------------------------------
(* RxProc.  Leaving the loop drops the local raw. *)

RxEnds == /\ rxThr' = "ended"
          /\ lost' = lost \cup BytesOf(raw)
          /\ raw' = <<>>

(* while (!mRxShouldStop) *)
RxTest == /\ rxThr = "test"
          /\ IF mRxShouldStop THEN RxEnds
                              ELSE rxThr' = "poll" /\ UNCHANGED <<raw, lost>>
          /\ UNCHANGED <<ioVars, mRxShouldStop, sz, mSeqs, posted, guiVars, job,
                         rendered, jobGot>>

RxDead_Silent ==
          /\ rxThr = "poll"
          /\ ~up
          /\ RxEnds
          /\ UNCHANGED <<ioVars, mRxShouldStop, sz, mSeqs, posted, guiVars,
                         job, rendered, jobGot>>

(* Available < 0: post WhenException and leave. *)
RxDead == /\ rxThr = "poll"
          /\ ~up
          /\ posted' = posted \cup {Exception(conn)}
          /\ RxEnds
          /\ UNCHANGED <<ioVars, mRxShouldStop, sz, mSeqs, guiVars, job,
                         rendered, jobGot>>

RxIdle_PostsNothing ==
          /\ rxThr = "poll"
          /\ ready = 0
          /\ rxThr' = "test"
          /\ UNCHANGED <<ioVars, mRxShouldStop, sz, raw, mSeqs, posted,
                         guiVars, job, history>>

(* Available = 0: post RenderSeqs if anything was parsed, and sleep. *)
RxIdle == /\ rxThr = "poll"
          /\ ready = 0
          /\ posted' = IF mSeqs # <<>> THEN posted \cup {Render} ELSE posted
          /\ rxThr' = "test"
          /\ UNCHANGED <<ioVars, mRxShouldStop, sz, raw, mSeqs, guiVars, job,
                         history>>

(* Available > 0. *)
RxAvailable == /\ rxThr = "poll"
               /\ ready > 0
               /\ sz' = ready
               /\ rxThr' = "read"
               /\ UNCHANGED <<ioVars, mRxShouldStop, raw, mSeqs, posted,
                              guiVars, job, history>>

(* ReadRaw(sz). *)
RxRead == /\ rxThr = "read"
          /\ Deliver(sz)
          /\ raw' = raw \o SubSeq(line, 1, sz)
          /\ sz' = 0
          /\ rxThr' = "parse"
          /\ UNCHANGED <<asks, mRxShouldStop, mSeqs, posted, guiVars, job,
                         history>>

RxParse_ForgetsTail ==
           /\ rxThr = "parse"
           /\ \E k \in 0 .. Len(raw) :
                /\ k <= MaxTail \/ mRxShouldStop
                /\ mSeqs' = mSeqs \o SubSeq(raw, 1, Len(raw) - k)
                /\ raw' = <<>>
           /\ posted' \in {posted, posted \cup {Render}}
           /\ rxThr' = "test"
           /\ UNCHANGED <<ioVars, mRxShouldStop, sz, guiVars, job, history>>

RxParse_KeepsRaw ==
           /\ rxThr = "parse"
           /\ mSeqs' = mSeqs \o raw
           /\ UNCHANGED raw
           /\ posted' \in {posted, posted \cup {Render}}
           /\ rxThr' = "test"
           /\ UNCHANGED <<ioVars, mRxShouldStop, sz, guiVars, job, history>>

(* Under mLockVt: parse raw up to an unfinished tail, or up to anywhere if *)
(* mRxShouldStop was seen; when a second has passed, post RenderSeqs.      *)
RxParse == /\ rxThr = "parse"
           /\ \E k \in 0 .. Len(raw) :
                /\ k <= MaxTail \/ mRxShouldStop
                /\ mSeqs' = mSeqs \o SubSeq(raw, 1, Len(raw) - k)
                /\ raw' = SubSeq(raw, Len(raw) - k + 1, Len(raw))
           /\ posted' \in {posted, posted \cup {Render}}
           /\ rxThr' = "test"
           /\ UNCHANGED <<ioVars, mRxShouldStop, sz, guiVars, job, history>>

RxProc == RxTest \/ RxDead \/ RxIdle \/ RxAvailable \/ RxRead \/ RxParse

-----------------------------------------------------------------------------
(* The GUI event loop, also inside a modal dialog.  RenderSeqs may have    *)
(* been posted several times: running it once need not empty the queue.    *)

InEventLoop == gui \in {"idle", "dialog", "transfer"}

GuiRender_KeepsSeqs ==
             /\ InEventLoop
             /\ Render \in posted
             /\ posted' \in {posted, posted \ {Render}}
             /\ rendered' = rendered \o mSeqs
             /\ UNCHANGED <<mSeqs, ioVars, rxVars, guiVars, job, jobGot, lost>>

GuiRender == /\ InEventLoop
             /\ Render \in posted
             /\ posted' \in {posted, posted \ {Render}}
             /\ rendered' = rendered \o mSeqs
             /\ mSeqs' = <<>>
             /\ UNCHANGED <<ioVars, rxVars, guiVars, job, jobGot, lost>>

(* WhenException, the oldest first: the tab gets the exception image       *)
(* (main.cpp 143-145).                                                     *)
GuiException == /\ InEventLoop
                /\ \E c \in 1 .. conn :
                     /\ Exception(c) \in posted
                     /\ \A b \in 1 .. c - 1 : Exception(b) \notin posted
                     /\ posted' = posted \ {Exception(c)}
                     /\ icon' = c
                /\ UNCHANGED <<ioVars, rxVars, mSeqs, gui, job, history>>

GuiEvents == GuiRender \/ GuiException

-----------------------------------------------------------------------------
(* The GUI handlers.  All four stop the terminal first. *)

StopBegin_ForgetsFlag(h) ==
                /\ gui = "idle"
                /\ gui' = h
                /\ UNCHANGED <<mRxShouldStop, ioVars, rxThr, sz, raw, mSeqs,
                               posted, job, icon, history>>

StopBegin(h) == /\ gui = "idle"
                /\ mRxShouldStop' = TRUE
                /\ gui' = h
                /\ UNCHANGED <<ioVars, rxThr, sz, raw, mSeqs, posted, job,
                               icon, history>>

CanJoin(h) == gui = h /\ rxThr \in {"none", "ended"}

StartTerminal == /\ mRxShouldStop' = FALSE
                 /\ rxThr' = "test"

(* Disconnect: conn->Stop(), GetIo()->Stop(), exception image. *)
Disconnect == /\ CanJoin("disconnect")
              /\ rxThr' = "none"
              /\ \E n \in ready .. Len(line) : Break(n)
              /\ icon' = conn
              /\ gui' = "idle"
              /\ UNCHANGED <<asks, mRxShouldStop, sz, raw, mSeqs, posted,
                             job, history>>

(* Close button: both are stopped and the tab is deleted, which also takes *)
(* the callbacks it posted out of the queue.                               *)
CloseTab == /\ CanJoin("close")
            /\ rxThr' = "none"
            /\ \E n \in ready .. Len(line) : Break(n)
            /\ posted' = {}
            /\ gui' = "closed"
            /\ UNCHANGED <<asks, mRxShouldStop, sz, raw, mSeqs, job, icon,
                           history>>

(* Reconnect: once the terminal is stopped the device opens its dialog. *)
ReconnectDialog == /\ CanJoin("reconnect")
                   /\ asks
                   /\ rxThr' = "none"
                   /\ gui' = "dialog"
                   /\ UNCHANGED <<ioVars, mRxShouldStop, sz, raw, mSeqs,
                                  posted, job, icon, history>>

(* The dialog is dismissed: the device was not touched. *)
ReconnectCancel == /\ gui = "dialog"
                   /\ StartTerminal
                   /\ gui' = "idle"
                   /\ UNCHANGED <<ioVars, sz, raw, mSeqs, posted, job,
                                  icon, history>>

(* A pipe asks nothing: it stops at once, in the same handler, and what    *)
(* was posted waits until the handler has returned.                        *)
ReconnectAtOnce == /\ CanJoin("reconnect")
                   /\ ~asks
                   /\ rxThr' = "none"
                   /\ \E n \in ready .. Len(line) : Break(n)
                   /\ gui' = "redial"
                   /\ UNCHANGED <<asks, mRxShouldStop, sz, raw, mSeqs, posted,
                                  job, icon, history>>

(* The dialog is accepted: the device is stopped.  The user answers after  *)
(* the dialog's own event loop has run the callbacks posted before.        *)
ReconnectAccept == /\ gui = "dialog"
                   /\ posted = {}
                   /\ \E n \in ready .. Len(line) : Break(n)
                   /\ gui' = "redial"
                   /\ UNCHANGED <<asks, rxVars, mSeqs, posted, job, icon,
                                  history>>

ReconnectOk_NoImage ==
               /\ gui = "redial"
               /\ Connect
               /\ StartTerminal
               /\ gui' = "idle"
               /\ UNCHANGED <<asks, icon, sz, raw, mSeqs, posted, job,
                              history>>

(* Connected again: active image; main.cpp starts the terminal anyway. *)
ReconnectOk == /\ gui = "redial"
               /\ Connect
               /\ icon' = 0
               /\ StartTerminal
               /\ gui' = "idle"
               /\ UNCHANGED <<asks, sz, raw, mSeqs, posted, job, history>>

ReconnectFailed == /\ gui = "redial"
                   /\ StartTerminal
                   /\ gui' = "idle"
                   /\ UNCHANGED <<ioVars, sz, raw, mSeqs, posted, job,
                                  icon, history>>

TransferBegin_NoJoin ==
                 /\ gui = "send"
                 /\ job' = "run"
                 /\ gui' = "transfer"
                 /\ UNCHANGED <<rxThr, ioVars, mRxShouldStop, sz, raw, mSeqs,
                                posted, icon, history>>

(* TransmitFile: the job runs while a modal dialog shows its progress. *)
TransferBegin == /\ CanJoin("send")
                 /\ rxThr' = "none"
                 /\ job' = "run"
                 /\ gui' = "transfer"
                 /\ UNCHANGED <<ioVars, mRxShouldStop, sz, raw, mSeqs, posted,
                                icon, history>>

(* The job reads a response byte from the device. *)
JobRead == /\ job = "run"
           /\ ready > 0
           /\ Deliver(1)
           /\ jobGot' = Append(jobGot, Head(line))
           /\ UNCHANGED <<asks, rxVars, mSeqs, posted, guiVars, job, rendered,
                          lost>>

JobEnd == /\ job = "run"
          /\ job' = "ended"
          /\ UNCHANGED <<ioVars, rxVars, mSeqs, posted, guiVars, history>>

(* The job closed the dialog and is joined: mConn->Start(). *)
TransferEnd == /\ gui = "transfer"
               /\ job = "ended"
               /\ job' = "none"
               /\ StartTerminal
               /\ gui' = "idle"
               /\ UNCHANGED <<ioVars, sz, raw, mSeqs, posted, icon,
                              history>>

GuiJoined == \/ Disconnect \/ CloseTab
             \/ ReconnectDialog \/ ReconnectAtOnce
             \/ TransferBegin

GuiNext == \/ \E h \in Handlers : StopBegin(h)
           \/ GuiJoined
           \/ ReconnectCancel \/ ReconnectAccept
           \/ ReconnectOk \/ ReconnectFailed
           \/ TransferEnd

Next == \/ PeerSend \/ DeviceReceive \/ LinkBreak
        \/ RxProc
        \/ GuiEvents \/ GuiNext
        \/ JobRead \/ JobEnd

Spec == Init /\ [][Next]_vars

(* The receiver's loop, a join that can return, and the event loop go on.  *)
(* A device that is down says so in the end.  Users, peers and file        *)
(* transfers may do nothing.                                               *)
Fairness == /\ WF_vars(RxProc)
            /\ SF_vars(RxDead)
            /\ WF_vars(GuiJoined)
            /\ WF_vars(GuiRender)
            /\ SF_vars(GuiRender /\ Render \notin posted')
            /\ WF_vars(GuiException)

FairSpec == Spec /\ Fairness

-----------------------------------------------------------------------------
(* Every variable keeps its type, and a Read never asks for more bytes     *)
(* than the device holds, although Available was called a step earlier.    *)
TypeOK == /\ conn \in Nat \ {0} /\ nsent \in Nat /\ up \in BOOLEAN
          /\ line \in Seq(Byte) /\ got \in Seq(Byte) /\ raw \in Seq(Byte)
          /\ mSeqs \in Seq(Byte) /\ rendered \in Seq(Byte) /\ jobGot \in Seq(Byte)
          /\ lost \subseteq Byte
          /\ mRxShouldStop \in BOOLEAN
          /\ rxThr \in {"none", "ended"} \cup RxAlive
          /\ ready \in 0 .. Len(line) /\ sz \in 0 .. ready
          /\ asks \in BOOLEAN
          /\ posted \subseteq {Render} \cup {Exception(c) : c \in 1 .. conn}
          /\ gui \in {"idle", "dialog", "redial", "transfer", "closed"}
                    \cup Handlers
          /\ job \in {"none", "run", "ended"}
          /\ icon \in 0 .. conn

(* mRxThr is never assigned while joinable (that would terminate the       *)
(* program), the device and the tab are torn down and the file transfer    *)
(* runs only after the receiver was joined (SerialConnVT.cpp 114-128): at  *)
(* any moment one thread at most reads the device.                         *)
SingleReader == /\ gui \in {"dialog", "redial", "transfer", "closed"}
                     => rxThr = "none"
                /\ job # "none" => gui = "transfer"

(* Every byte the device delivered is in one place: on the screen, parsed, *)
(* waiting in raw, read by a file transfer, or dropped by a receiver that  *)
(* ended; nothing is rendered twice, although both threads use mSeqs.      *)
Shown == rendered \o mSeqs \o raw

BytesAccounted ==
  /\ BytesOf(got) = BytesOf(Shown) \cup BytesOf(jobGot) \cup lost
  /\ Len(got) >= Len(Shown) + Len(jobGot)

(* a was sent before b. *)
Before(a, b) == \/ a.conn < b.conn
                \/ a.conn = b.conn /\ a.seq < b.seq

(* The screen shows the bytes in the order in which they were sent, across *)
(* posted renders, restarts and reconnections.                             *)
ShownInOrder == \A i \in 2 .. Len(Shown) : Before(Shown[i - 1], Shown[i])

(* A receiver that was not stopped drops an unfinished sequence at most,   *)
(* when its device dies: raw is a local of RxProc, and a parse breaks off  *)
(* early only for a stop (SerialConnVT.cpp 535, 541-543, 562-613).         *)
DeathDropsOnlyTail ==
  [][lost' # lost /\ ~mRxShouldStop => Cardinality(lost' \ lost) <= MaxTail]_vars

(* A tab never shows the exception image over a receiver on a sound        *)
(* connection, when its device asks before it reconnects: an exception     *)
(* that the receiver of a dead connection posted is never applied to the   *)
(* one that replaced it (main.cpp 143-145, 197-208).  A device that does   *)
(* not ask (PipeServer.cpp 225-229, PipeClient.cpp 184-188) can show it    *)
(* for a connection that was replaced, and never for the one it has.       *)
ImageIsTruthful ==
  rxThr \in RxAlive /\ up => icon = 0 \/ (~asks /\ icon # conn)

(* conn->Stop() returns: the GUI thread never waits forever in a join. *)
StopReturns == gui \in Handlers ~> gui \notin Handlers

(* What was parsed gets rendered, as long as the receiver runs and the     *)
(* peer pauses: RxProc posts RenderSeqs in its idle rounds.                *)
ScreenCatchesUp ==
  mSeqs # <<>> ~> mSeqs = <<>> \/ rxThr \notin RxAlive \/ gui \in Handlers

(* A tab whose device died gets the exception image. *)
DeathIsShown ==
  (rxThr \in RxAlive /\ ~up) ~> icon # 0 \/ gui # "idle"
=============================================================================
