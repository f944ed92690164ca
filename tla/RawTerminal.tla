----------------------------- MODULE RawTerminal -----------------------------
(***************************************************************************)
(* The raw terminal (xterminal/connimpls/SerialConnRaw.cpp) on one of the  *)
(* devices of IoDevices.  Its receiver thread takes what the device has,   *)
(* writes it back when loopback is on, keeps the last mRxBufferSz bytes    *)
(* and posts an Update; the GUI thread shows them as text or hexadecimal,  *)
(* sends what is typed, and starts and stops the receiver.                 *)
(*                                                                         *)
(* A view is which form it has and the bytes it shows.  The event loop     *)
(* runs posted callbacks while the GUI thread is idle or shows a dialog.   *)
(***************************************************************************)
EXTENDS IoDevices, RawText, SimpleStupid

CONSTANTS RxLimits,   (* the values of mRxBufferSz                          *)
          Typing,     (* what the user types into the Tx box: see Type      *)
          Requests,   (* and for Simple Stupid: what its JSON text means    *)
          MaxPosts,   (* Updates posted and not run (a bound)               *)
          MaxUser,    (* actions of the user (a bound)                      *)
          MaxTyping,  (* the same when they are about the Tx box (a bound)  *)
          Both        (* FALSE: a behaviour in which the Tx box is used is  *)
                      (* one in which nothing is received (a bound)         *)

ASSUME RawAssumption == /\ RxLimits \subseteq Nat \ {0} /\ RxLimits # {}
                        /\ {MaxPosts, MaxUser, MaxTyping} \subseteq Nat
                        /\ Both \in BOOLEAN

VARIABLES
  rx,          (* the receiver: "none", "loop", "read", "echo", "insert",   *)
               (* "post", "ended" (returned, not joined)                    *)
  mRxShouldStop,
  sz, max_buffer_sz, buf,  (* its locals                                    *)
  mRxBuffer, mNumBytesRx, mNumBytesTx,
  posts,       (* Updates posted and not run                                *)
  shown,       (* the view in the box mRx, or Torn                          *)
  shownRx, shownTx,        (* mRxBytes and mTxBytes                         *)
  mRxHex, mLineSz, codec, mLoopback, mRxBufferSz, mTxPeriod,
  gui,         (* the GUI thread: "idle", or where it is in a handler       *)
  why,         (* the handler that stops                                    *)
  raced,       (* an insertion since a view began without the lock          *)
  taken,       (* history: bytes inserted since the last clear              *)
  user, ntyped,  (* history: actions of the user, those on the Tx box       *)
  mTx, mTxHex, (* the Tx box                                                *)
  mEnableEscape, mLineBreaks, mTxProto,
  typed,       (* history: what the user typed last                         *)
  json,        (* what the Tx box means as JSON: its text is left out then  *)
  back,        (* history: the box went to hexadecimal and back             *)
  sent         (* history: what OnSend wrote last for it                    *)

rxVars == <<rx, mRxShouldStop, sz, max_buffer_sz, buf>>
bufferVars == <<mRxBuffer, mNumBytesRx, mNumBytesTx, posts>>
viewVars == <<shown, shownRx, shownTx>>
optionVars == <<mRxHex, mLineSz, codec, mLoopback, mRxBufferSz, mTxPeriod>>
guiVars == <<gui, why, raced>>
txVars == <<mTx, mTxHex, mEnableEscape, mLineBreaks, mTxProto, typed, json,
            back, sent>>
vars == <<deviceVars, rxVars, bufferVars, viewVars, optionVars, guiVars, taken,
          user, ntyped, txVars>>

Smallest == CHOOSE n \in RxLimits : \A m \in RxLimits : n <= m
Largest == CHOOSE n \in RxLimits : \A m \in RxLimits : n >= m

None == <<-1>>
NoRequest == Json("error", <<>>)
Torn == [form |-> <<"torn">>, bytes |-> <<>>]

(* UpdateAsHex and UpdateAsTxt.  An empty box looks alike in every form. *)
Form == IF mRxHex THEN <<"hex", mLineSz>> ELSE <<"text", codec>>
View(form, bytes) == [form |-> IF bytes = <<>> THEN <<>> ELSE form,
                      bytes |-> bytes]

Init == /\ DeviceInit
        /\ rx = "loop" /\ mRxShouldStop = FALSE
        /\ sz = 0 /\ max_buffer_sz = 0 /\ buf = <<>>
        /\ mRxBuffer = <<>> /\ mNumBytesRx = 0 /\ mNumBytesTx = 0 /\ posts = 0
        /\ shown = View(<<>>, <<>>) /\ shownRx = 0 /\ shownTx = 0
        /\ mRxHex = FALSE /\ mLineSz = 16 /\ codec = "UTF-8"
        /\ mLoopback = FALSE /\ mRxBufferSz = Largest
        /\ mTxPeriod = FALSE
        /\ gui = "idle" /\ why = "none" /\ raced = FALSE
        /\ taken = <<>> /\ user = 0 /\ ntyped = 0
        /\ mTx = <<>> /\ mTxHex = FALSE /\ mEnableEscape = FALSE
        /\ mLineBreaks = <<LF>> /\ mTxProto = "None"
        /\ typed = <<>> /\ json = NoRequest /\ back = FALSE /\ sent = None

-----------------------------------------------------------------------------
(* RxProc. *)

RxEnds == /\ rx = "loop" /\ mRxShouldStop
          /\ rx' = "ended"
          /\ UNCHANGED <<deviceVars, mRxShouldStop, sz, max_buffer_sz, buf,
                         bufferVars, viewVars, optionVars, guiVars, taken, user,
                         ntyped, txVars>>

(* The device is dead: WhenException is posted and the thread ends.         *)
RxDead == /\ rx = "loop" /\ ~mRxShouldStop
          /\ Available < 0
          /\ rx' = "ended"
          /\ UNCHANGED <<deviceVars, mRxShouldStop, sz, max_buffer_sz, buf,
                         bufferVars, viewVars, optionVars, guiVars, taken, user,
                         ntyped, txVars>>

RxAvailable == /\ rx = "loop" /\ ~mRxShouldStop
               /\ Available > 0
               /\ sz' = Available
               /\ max_buffer_sz' = mRxBufferSz
               /\ rx' = "read"
               /\ UNCHANGED <<deviceVars, mRxShouldStop, buf, bufferVars,
                              viewVars, optionVars, guiVars, taken, user, ntyped, txVars>>

RxRead == /\ rx = "read"
          /\ buf' = ReadRaw(sz)
          /\ Read(sz)
          /\ rx' = IF mLoopback THEN "echo" ELSE "insert"
          /\ UNCHANGED <<mRxShouldStop, sz, max_buffer_sz, bufferVars, viewVars,
                         optionVars, guiVars, taken, user, ntyped, txVars>>

(* Loopback: mNumBytesTx is atomic. *)
RxEcho == /\ rx = "echo"
          /\ \E n \in Written(Len(buf)) : mNumBytesTx' = mNumBytesTx + n
          /\ rx' = "insert"
          /\ UNCHANGED <<deviceVars, mRxShouldStop, sz, max_buffer_sz, buf,
                         mRxBuffer, mNumBytesRx, posts, viewVars, optionVars,
                         guiVars, taken, user, ntyped, txVars>>

Newest_Oldest(n, s) == SubSeq(s, 1, IF Len(s) > n THEN n ELSE Len(s))

(* The last n elements of s, all of them if there are fewer. *)
Newest(n, s) == SubSeq(s, IF Len(s) > n THEN Len(s) - n + 1 ELSE 1, Len(s))

(* Under mRxBufferLock. *)
RxInsert == /\ rx = "insert"
            /\ mRxBuffer' = Newest(max_buffer_sz, mRxBuffer \o buf)
            /\ mNumBytesRx' = mNumBytesRx + Len(buf)
            /\ taken' = taken \o buf
            /\ raced' = (raced \/ gui = "view")
            /\ buf' = <<>> /\ sz' = 0 /\ max_buffer_sz' = 0
            /\ rx' = "post"
            /\ UNCHANGED <<deviceVars, mRxShouldStop, mNumBytesTx, posts,
                           viewVars, optionVars, gui, why, user, ntyped, txVars>>

RxPost == /\ rx = "post"
          /\ posts < MaxPosts
          /\ posts' = posts + 1
          /\ rx' = "loop"
          /\ UNCHANGED <<deviceVars, mRxShouldStop, sz, max_buffer_sz, buf,
                         mRxBuffer, mNumBytesRx, mNumBytesTx, viewVars,
                         optionVars, guiVars, taken, user, ntyped, txVars>>

RxProc == \/ RxEnds \/ RxDead \/ RxAvailable \/ RxRead
          \/ RxEcho \/ RxInsert \/ RxPost

-----------------------------------------------------------------------------
(* The GUI thread: what is received. *)

(* A posted Update, under the lock. *)
Update == /\ gui \in {"idle", "dialog"} /\ posts > 0
          /\ posts' = posts - 1
          /\ shown' = View(Form, mRxBuffer)
          /\ shownRx' = mNumBytesRx
          /\ shownTx' = mNumBytesTx
          /\ UNCHANGED <<deviceVars, rxVars, mRxBuffer, mNumBytesRx, mNumBytesTx,
                         optionVars, guiVars, taken, user, ntyped, txVars>>

(* A handler begins: the user has some patience. *)
UserActs == /\ gui = "idle"
            /\ Both \/ ntyped = 0
            /\ user < MaxUser
            /\ user' = user + 1
            /\ UNCHANGED ntyped

UserTypes == /\ Both \/ (nsent = 0 /\ (user = 0 \/ gui = "dialog"))
             /\ ntyped < MaxTyping
             /\ ntyped' = ntyped + 1
             /\ UNCHANGED user

(* The Hex switch, the line size and the codec view the buffer without the  *)
(* lock; the line size can be edited in hexadecimal only, and the codec     *)
(* matters to text only.                                                    *)
ChangeForm ==
  /\ UserActs
  /\ \/ /\ mRxHex' = ~mRxHex
        /\ gui' = "view"
        /\ UNCHANGED <<mLineSz, codec>>
     \/ /\ mRxHex
        /\ mLineSz' = IF mLineSz = 16 THEN 8 ELSE 16
        /\ gui' = "view"
        /\ UNCHANGED <<mRxHex, codec>>
     \/ /\ codec' = IF codec = "UTF-8" THEN "GB18030" ELSE "UTF-8"
        /\ gui' = IF mRxHex THEN "idle" ELSE "view"
        /\ UNCHANGED <<mRxHex, mLineSz>>
  /\ raced' = FALSE
  /\ UNCHANGED <<deviceVars, rxVars, bufferVars, viewVars, mLoopback,
                 mRxBufferSz, mTxPeriod, why, taken, txVars>>

(* A vector walked while the receiver changes it can give anything.         *)
ViewEnds == /\ gui = "view"
            /\ shown' = IF raced THEN Torn ELSE View(Form, mRxBuffer)
            /\ raced' = FALSE
            /\ gui' = "idle"
            /\ UNCHANGED <<deviceVars, rxVars, bufferVars, shownRx, shownTx,
                           optionVars, why, taken, user, ntyped, txVars>>

(* The buffer size and the loopback switch are read by the receiver; a      *)
(* period makes a timer call OnSend.                                        *)
ChangeOption == /\ UserActs
                /\ \/ /\ mRxBufferSz' \in RxLimits \ {mRxBufferSz}
                      /\ UNCHANGED <<mLoopback, mTxPeriod>>
                   \/ /\ mLoopback' = ~mLoopback
                      /\ UNCHANGED <<mRxBufferSz, mTxPeriod>>
                   \/ /\ mTxPeriod' = ~mTxPeriod
                      /\ UNCHANGED <<mLoopback, mRxBufferSz>>
                /\ UNCHANGED <<deviceVars, rxVars, bufferVars, viewVars, mRxHex,
                               mLineSz, codec, guiVars, taken, txVars>>

(* The button that clears the box: the buffer and the count, under the lock. *)
ClearRx == /\ UserActs
           /\ mRxBuffer' = <<>> /\ mNumBytesRx' = 0 /\ taken' = <<>>
           /\ shown' = View(<<>>, <<>>) /\ shownRx' = 0
           /\ UNCHANGED <<deviceVars, rxVars, mNumBytesTx, posts, shownTx,
                          optionVars, guiVars, txVars>>

ClearCounters ==
  /\ UserActs
  /\ \/ /\ mNumBytesRx' = 0 /\ shownRx' = 0
        /\ UNCHANGED <<mNumBytesTx, shownTx>>
     \/ /\ mNumBytesTx' = 0 /\ shownTx' = 0
        /\ UNCHANGED <<mNumBytesRx, shownRx>>
  /\ UNCHANGED <<deviceVars, rxVars, mRxBuffer, posts, shown, optionVars,
                 guiVars, taken, txVars>>

-----------------------------------------------------------------------------
(* The GUI thread: what is sent.  Typing is a set of texts, each given as   *)
(* its pieces: how a piece is typed (src) and the byte it means (val).      *)

Source(t) == FlattenSeq([i \in DOMAIN t |-> t[i].src])

(* Options of the Tx box, set before something is typed (a bound).          *)
ChangeTxOption ==
  /\ UserTypes /\ gui = "idle"
  /\ typed = <<>> /\ json = NoRequest
  /\ sent' = None
  /\ \/ /\ mEnableEscape' = ~mEnableEscape
        /\ UNCHANGED <<mLineBreaks, mTxProto>>
     \/ /\ mLineBreaks' \in LineBreaks \ {mLineBreaks}
        /\ UNCHANGED <<mEnableEscape, mTxProto>>
     \/ /\ mTxProto' \in {"None", "XMODEM", "Simple Stupid"} \ {mTxProto}
        /\ UNCHANGED <<mEnableEscape, mLineBreaks>>
  /\ UNCHANGED <<deviceVars, rxVars, bufferVars, viewVars, optionVars, guiVars,
                 taken, mTx, mTxHex, typed, json, back>>

Type == /\ UserTypes /\ gui = "idle"
        /\ ~mTxHex
        /\ IF mTxProto = "Simple Stupid"
           THEN /\ json' \in Requests
                /\ UNCHANGED <<typed, mTx>>
           ELSE /\ typed' \in Typing
                /\ mTx' = Source(typed')
                /\ UNCHANGED json
        /\ back' = FALSE
        /\ sent' = None
        /\ UNCHANGED <<deviceVars, rxVars, bufferVars, viewVars, optionVars,
                       guiVars, taken, mTxHex, mEnableEscape, mLineBreaks,
                       mTxProto>>

Escaped(text) == IF mEnableEscape THEN TranslateEscapeChars(text) ELSE text

(* Set_TxInHex and Set_TxInTxt: the codec keeps ASCII as it is.  A JSON     *)
(* text has no backslash here, and means the same after both.               *)
ToggleTxHex == /\ UserTypes /\ gui = "idle"
               /\ mTxHex' = ~mTxHex
               /\ mTx' = IF mTxHex THEN ToHex_(mTx)
                                   ELSE ToHexString_(Escaped(mTx))
               /\ back' = (back \/ mTxHex)
               /\ sent' = None
               /\ UNCHANGED <<deviceVars, rxVars, bufferVars, viewVars,
                              optionVars, guiVars, taken, mEnableEscape,
                              mLineBreaks, mTxProto, typed, json>>

(* What OnSend hands to Write.  XMODEM, which has no TransmitData, stands   *)
(* for the file protocols: nothing is written, nor for a JSON text that     *)
(* Simple Stupid makes no frame of.                                         *)
Payload == CASE mTxProto = "None" ->
                  IF mTxHex THEN ToHex_(mTx)
                            ELSE ReplaceLineBreak_(Escaped(mTx), mLineBreaks)
             [] mTxProto = "Simple Stupid" -> _Pack(json)

(* The button, or the timer, which goes on while a dialog is open and while *)
(* the device is stopped.                                                   *)
OnSend == /\ UserTypes
          /\ gui = "idle" \/ (mTxPeriod /\ gui = "dialog")
          /\ IF \/ mTxProto = "None"
                \/ mTxProto = "Simple Stupid" /\ Payload # <<>>
             THEN /\ sent' = Payload
                  /\ \E n \in Written(Len(Payload)) :
                       mNumBytesTx' = mNumBytesTx + n
             ELSE UNCHANGED <<sent, mNumBytesTx>>
          /\ shownTx' = mNumBytesTx'
          /\ UNCHANGED <<deviceVars, rxVars, mRxBuffer, mNumBytesRx, posts, shown,
                         shownRx, optionVars, guiVars, taken, mTx, mTxHex,
                         mEnableEscape, mLineBreaks, mTxProto, typed, json, back>>

-----------------------------------------------------------------------------
(* The GUI thread: starting and stopping. *)

Unseen == <<bufferVars, viewVars, optionVars, raced, taken, txVars>>

(* Start *)
StartReceiver == /\ mRxShouldStop' = FALSE
                 /\ rx' = "loop"
                 /\ UNCHANGED <<sz, max_buffer_sz, buf>>

(* Pause, Disconnect and Reconnect begin with the receiver; there is none   *)
(* to stop while it is paused.                                              *)
StopReceiver(handler) == /\ UserActs
                         /\ handler = "pause" => rx # "none"
                         /\ mRxShouldStop' = TRUE
                         /\ gui' = "join"
                         /\ why' = handler
                         /\ UNCHANGED <<deviceVars, rx, sz, max_buffer_sz, buf,
                                        Unseen>>

Resume == /\ UserActs
          /\ rx = "none"
          /\ StartReceiver
          /\ UNCHANGED <<deviceVars, gui, why, Unseen>>

(* After the join a pause is done.  A pipe reconnects without a dialog.     *)
Joined == /\ gui = "join" /\ rx \in {"none", "ended"}
          /\ rx' = "none"
          /\ \/ /\ why = "pause"
                /\ gui' = "idle" /\ why' = "none"
                /\ UNCHANGED deviceVars
             \/ /\ why = "reconnect" /\ ~Piped
                /\ gui' = "dialog" /\ UNCHANGED why
                /\ UNCHANGED deviceVars
             \/ /\ why = "disconnect" \/ (why = "reconnect" /\ Piped)
                /\ gui' = "close" /\ UNCHANGED why
                /\ StopBegins
          /\ UNCHANGED <<mRxShouldStop, sz, max_buffer_sz, buf, user, ntyped, Unseen>>

DialogAccepted == /\ gui = "dialog"
                  /\ StopBegins
                  /\ gui' = "close"
                  /\ UNCHANGED <<rxVars, why, user, ntyped, Unseen>>

DialogCancelled == /\ gui = "dialog"
                   /\ StartReceiver
                   /\ gui' = "idle" /\ why' = "none"
                   /\ UNCHANGED <<deviceVars, user, ntyped, Unseen>>

Closed == /\ gui = "close"
          /\ StopEnds
          /\ IF why = "disconnect" THEN gui' = "idle" /\ why' = "none"
                                   ELSE gui' = "open" /\ UNCHANGED why
          /\ UNCHANGED <<rxVars, user, ntyped, Unseen>>

Opened == /\ gui = "open"
          /\ StartOpens
          /\ gui' = "run"
          /\ UNCHANGED <<rxVars, why, user, ntyped, Unseen>>

(* The terminal is started whether the device is or not. *)
OpenFailed == /\ gui = "open"
              /\ StartReceiver
              /\ gui' = "idle" /\ why' = "none"
              /\ UNCHANGED <<deviceVars, user, ntyped, Unseen>>

Reconnected == /\ gui = "run"
               /\ IF device = "Serial" THEN UNCHANGED deviceVars ELSE StartRuns
               /\ StartReceiver
               /\ gui' = "idle" /\ why' = "none"
               /\ UNCHANGED <<user, ntyped, Unseen>>

GuiThread == \/ Update \/ ViewEnds
             \/ ChangeForm \/ ChangeOption \/ ClearRx \/ ClearCounters
             \/ ChangeTxOption \/ Type \/ ToggleTxHex \/ OnSend
             \/ \E h \in {"pause", "disconnect", "reconnect"} : StopReceiver(h)
             \/ Resume \/ Joined
             \/ DialogAccepted \/ DialogCancelled
             \/ Closed \/ Opened \/ OpenFailed \/ Reconnected

RawVars == <<rxVars, bufferVars, viewVars, optionVars, guiVars, taken, user,
             ntyped, txVars>>

Peer == /\ \/ ClientComes \/ PeerLeaves
           \/ (Both \/ ntyped = 0) /\ PeerSends
        /\ UNCHANGED RawVars
DeviceThread == RxThread /\ UNCHANGED RawVars

Next == Peer \/ DeviceThread \/ RxProc \/ GuiThread

(* The device's thread goes on; peers and users owe nothing. *)
Spec == Init /\ [][Next]_vars /\ WF_vars(DeviceThread)

-----------------------------------------------------------------------------
(* When no Update is on its way, the box shows the buffer in the form that  *)
(* is switched on, the counters are those of the receiver, and the buffer   *)
(* is the newest part of what was received since the last clear: although   *)
(* views without the lock can be torn, the limit changes between Available  *)
(* and the cut, and clears fall between an insertion and its Update         *)
(* (SerialConnRaw.cpp 116-160, 453-533).                                    *)
ViewIsTruthful ==
  (posts = 0 /\ gui # "view" /\ rx \notin {"insert", "post"})
    => /\ shown = View(Form, mRxBuffer)
       /\ shownRx = mNumBytesRx
       /\ shownTx = mNumBytesTx
       /\ IsSuffix(mRxBuffer, taken)
       /\ Len(taken) <= Smallest => mRxBuffer = taken
       /\ Len(taken) > Smallest => Len(mRxBuffer) >= Smallest

(* What a piece of the text means, line breaks replaced one by one. *)
Meaning == FlattenSeq([i \in DOMAIN typed |-> IF mEnableEscape
                                              THEN <<typed[i].val>>
                                              ELSE typed[i].src])
Broken(bytes) ==
  FlattenSeq([i \in DOMAIN bytes |->
     CASE bytes[i] \notin {CR, LF} -> <<bytes[i]>>
       [] bytes[i] = LF /\ i > 1 /\ bytes[IF i > 1 THEN i - 1 ELSE 1] = CR -> <<>>
       [] OTHER -> mLineBreaks])

(* What goes out is what was typed: escapes translated, line breaks         *)
(* replaced, also when the box was switched to hexadecimal (which keeps the *)
(* line breaks) and, unless what it shows holds a backslash again, back     *)
(* (SerialConnRaw.cpp 196-451).                                             *)
SentIsTyped ==
  (/\ sent # None /\ mTxProto = "None"
   /\ ~(back /\ mEnableEscape /\ Backslash \in ToSet(Meaning)))
     => sent = IF mTxHex THEN Meaning ELSE Broken(Meaning)

(* What ss_parse reads from a frame is what the JSON text said, command by  *)
(* command, up to the first item that is no map: for a command, a group,    *)
(* and after a switch to hexadecimal.  An empty parameter at the end cannot *)
(* be told from none; a checksum that is no ASCII character is always taken *)
(* for a wrong one.  The texts go out as they are, although JSON can write  *)
(* the frame's control characters: one with a separator (\u001f) is read as *)
(* two, a command with an ETX is refused as ill-formed, and an EOT, which a *)
(* single command may have, cuts a command of a group into pieces that say  *)
(* something else: groups with one are left out (ss.cpp 81-197, ProtoSs.cpp *)
(* 35-101).                                                                 *)
Texts(item) == <<item.part, item.action>> \o item.params
Parted(text) ==
  LET cuts == <<0>> \o Places(text, fUS) \o <<Len(text) + 1>>
  IN  [i \in 1 .. Len(cuts) - 1 |-> Between(text, cuts[i], cuts[i + 1])]
Said(item) ==
  LET texts == Texts(item)
      read == FlattenSeq([i \in DOMAIN texts |-> Parted(texts[i])])
      params == SubSeq(read, 3, Len(read))
  IN  [item EXCEPT !.part = read[1], !.action = read[2],
                   !.params = IF params # <<>> /\ Last(params) = <<>>
                              THEN Front(params) ELSE params]
Holds(item, c) == \E i \in DOMAIN Texts(item) : c \in ToSet(Texts(item)[i])
ReadBack(item) ==
  CASE Holds(item, fETX) -> ErrorFormat
    [] ~Holds(item, fETX)
         /\ ss_chksum(item.part \o <<fUS>> \o item.action
                        \o Separated(item.params)) >= 128 -> ErrorChecksum
    [] OTHER -> Said(item)

FramesAreReadBack ==
  (sent # None /\ mTxProto = "Simple Stupid")
    => LET items == Maps(json.items)
       IN  (json.type = "map" \/ \A i \in DOMAIN items : ~Holds(items[i], fEOT))
             => ss_parse(sent) = [i \in DOMAIN items |-> ReadBack(items[i])]

(* What a connected client sent is taken, unless it leaves or the device is *)
(* stopped: whatever earlier clients did, and for messages that fit.  Not   *)
(* so for a client that comes before the pipe waits for one                 *)
(* (PipeServer.cpp 63-109, 154-172).                                        *)
ClientIsServed ==
  (/\ opened /\ peer = "here" /\ wire # <<>> /\ ~unannounced
   /\ device # "Serial" /\ \A i \in DOMAIN wire : Len(wire[i]) <= RxSize)
    ~> \/ wire = <<>> \/ peer # "here" \/ mShouldStop
       \/ \E i \in DOMAIN wire : Len(wire[i]) > RxSize
=============================================================================
