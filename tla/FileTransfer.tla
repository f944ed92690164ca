----------------------------- MODULE FileTransfer -----------------------------
(***************************************************************************)
(* A terminal sends files with one of its protocols (xterminal/proto):     *)
(* XMODEM, YMODEM or Kermit, to a receiver that speaks it, over one line.  *)
(***************************************************************************)
EXTENDS YModem, Kermit

VARIABLE proto (* which one: no step changes it *)

transferVars == <<vars, yVars, kVars, proto>>

FTInit == /\ Init /\ YInit /\ KInit
          /\ proto \in {"XMODEM", "YMODEM", "KERMIT"}

X(action) == proto = "XMODEM" /\ action /\ UNCHANGED <<yVars, kVars, proto>>
Y(action) == proto = "YMODEM" /\ action /\ UNCHANGED <<kVars, proto>>
K(action) == proto = "KERMIT" /\ action /\ UNCHANGED <<yVars, proto>>

YNext == \/ YTransferBegin \/ YSender \/ YTransferEnd \/ YReceiver
         \/ (UserCancel \/ YReceiverStart \/ Noise) /\ UNCHANGED yVars

KNext == \/ KTransferBegin \/ KSender \/ KNextFile \/ KTransferEnd
         \/ KReceiver \/ KNoise
         \/ (UserCancel \/ KReceiverStart \/ Noise) /\ UNCHANGED kVars

FTNext == X(Next) \/ Y(YNext) \/ K(KNext)

Senders == X(Sender) \/ Y(YSender) \/ K(KSender)

(* The job thread goes on; receivers, the user and the line owe nothing. *)
FTSpec == FTInit /\ [][FTNext]_transferVars /\ WF_transferVars(Senders)
=============================================================================
