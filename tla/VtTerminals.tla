---------------------------- MODULE VtTerminals ----------------------------
(***************************************************************************)
(* The terminals a tab can be: vt100, ansi and xterm, each with functions   *)
(* of its own installed before those of SerialConnEcma48.  The classes vt220 *)
(* to vt520 are not registered as terminals; xterm inherits their functions. *)
(***************************************************************************)
EXTENDS Ecma48Screen

Terminals == {"vt100", "ansi", "xterm"}
IsXterm(v) == v.term = "xterm"

DECCKM == 1
DECANM == 2
DECSCNM == 5
DECOM == 6
DECAWM == 7
SendXyOnPress == 9
DECTCEM == 25
DECBKM == 67
SendXyOnPressAndRelease == 1000
SendFocusInAndOut == 1004
EnableSGRMouseMode == 1006
SetBracketedPasteMode == 2004
AlternateModes == {47, 1047, 1049}
InitialModes(t) ==
  (DECCKM :> 0) @@ (DECANM :> 1) @@ (DECOM :> 0) @@ (DECAWM :> 1)
  @@ (IF t = "xterm" THEN (DECTCEM :> 1) @@ (SendXyOnPress :> 0) @@ (SendXyOnPressAndRelease :> 0) ELSE <<>>)

Mode(v, m, default) == GetMode(v.decp, m, default)
WithMode(v, m, val) == [v EXCEPT !.decp = SetMode(@, m, val)]

----------------------------------------------------------------------------
(* Character sets: which of four is in use, and what it makes of a          *)
(* character.  q, #, $ and the multiplication sign stand for those a set    *)
(* replaces.  A layer knows some names and leaves the rest to those below.  *)

VT100Sets ==
  ("A" :> "UK") @@ ("B" :> "US") @@ ("0" :> "LineDrawing") @@ ("1" :> "ROM") @@ ("2" :> "ROMSpecial")
VT220Sets ==
  ("<" :> "Supplemental") @@ ("A" :> "British") @@ ("4" :> "Dutch") @@ ("5" :> "Finnish") @@ ("C" :> "Finnish")
  @@ ("R" :> "French") @@ ("Q" :> "FrenchCanadian") @@ ("K" :> "German") @@ ("Y" :> "Italian") @@ ("E" :> "Danish")
  @@ ("6" :> "Danish") @@ ("Z" :> "Spanish") @@ ("H" :> "Swedish") @@ ("7" :> "Swedish") @@ ("=" :> "Swiss")
  @@ ("B" :> "ASCII") @@ ("0" :> "LineDrawing")
VT320Sets ==
  ("%5" :> "Supplemental320") @@ ("GRAVE" :> "Danish320") @@ ("E" :> "Danish320") @@ ("6" :> "Danish320")
  @@ ("%6" :> "Portuguese") @@ ("<" :> "UserPreferred")
VT420Sets96 == "A" :> "Latin1"
VT520Sets ==
  ("\">" :> "Greek") @@ ("%=" :> "Hebrew") @@ ("%2" :> "Turkish") @@ ("%3" :> "SCS") @@ ("&5" :> "Russian")
VT520Sets96 ==
  ("B" :> "Latin2") @@ ("F" :> "LatinGreek") @@ ("H" :> "LatinHebrew") @@ ("L" :> "LatinCyrillic") @@ ("M" :> "Latin5")

\* The lower layers put the set in use at once, the upper ones when it is invoked.
Used(v, g, set) == [v EXCEPT !.charsets[g + 1] = set, !.charset = set]
UsedFrom(v, g, sets, p) == Used(v, g, IF p \in DOMAIN sets THEN sets[p] ELSE "Default")
Kept(v, g, set) == [v EXCEPT !.charsets[g + 1] = set]

VT100CS(v, g, p) == UsedFrom(v, g, VT100Sets, p)
VT220CS(v, g, p) == UsedFrom(v, g, VT220Sets, p)
VT320CS(v, g, p) == IF p \in DOMAIN VT320Sets THEN Kept(v, g, VT320Sets[p]) ELSE VT220CS(v, g, p)
VT520CS(v, g, p) == IF p \in DOMAIN VT520Sets THEN Kept(v, g, VT520Sets[p]) ELSE VT320CS(v, g, p)
VT420CS96(v, g, p) == IF p \in DOMAIN VT420Sets96 THEN Kept(v, g, VT420Sets96[p]) ELSE v
VT520CS96(v, g, p) == IF p \in DOMAIN VT520Sets96 THEN Kept(v, g, VT520Sets96[p]) ELSE VT420CS96(v, g, p)

Designated(v, g, p) == IF IsXterm(v) THEN VT520CS(v, g, p) ELSE VT100CS(v, g, p)
Invoked(v, g) == [v EXCEPT !.charset = v.charsets[g + 1]]
ProcessLS1R(v) == [v EXCEPT !.extended = v.charsets[2]]

RemapVT100(v, c) ==
  CASE v.charset = "LineDrawing" /\ c = "q" -> "-" [] v.charset = "UK" /\ c = "#" -> "pound" [] OTHER -> c
RemapAnsi(v, c) == IF c = "times" THEN "cross" ELSE RemapVT100(v, c)
NationalHash ==
  ("Dutch" :> "pound") @@ ("French" :> "pound") @@ ("Italian" :> "pound") @@ ("Spanish" :> "pound") @@ ("Swiss" :> "u-grave")
VT220RemapL(v, c) ==
  CASE v.charset = "LineDrawing" -> RemapVT100(v, c)
    [] v.charset = "British" /\ c = "$" -> "pound"
    [] v.charset \in DOMAIN NationalHash /\ c = "#" -> NationalHash[v.charset]
    [] OTHER -> c
\* The supplemental set replaces Unicode characters that are not its own bytes.
VT220RemapR(v, c) == IF v.extended = "Supplemental" THEN "OE" ELSE c
RemapXterm(v, c) == IF c = "times" THEN VT220RemapR(v, c) ELSE VT220RemapL(v, c)
RemapCharacter(v, c) ==
  CASE IsXterm(v) -> RemapXterm(v, c) [] v.term = "ansi" -> RemapAnsi(v, c) [] OTHER -> RemapVT100(v, c)

----------------------------------------------------------------------------
(* vt100 *)

\* DECOM set is the absolute mode here.
SetCursorToHome(v) == [v EXCEPT !.vx = 0, !.vy = IF Mode(v, DECOM, -1) = 1 THEN 0 ELSE v.top]
VT100CUP(v, p) ==
  IF Mode(v, DECOM, -1) = 1 THEN [v EXCEPT !.px = Pn(p, 2) - 1, !.vy = Pn(p, 1) - 1]
  ELSE [v EXCEPT !.px = Min({Pn(p, 2), v.cx}) - 1,
                 !.vy = Max({v.top, Min({Pn(p, 1) - 1, Bottom(v)})})]

\* The text's colour and the paper's change places in the colour table.
DefaultColors == [Texts |-> "light", Paper |-> "dark"]
Swapped(v) == [v EXCEPT !.colors = [Texts |-> @.Paper, Paper |-> @.Texts]]
VT100DECSM(v, m) ==
  WithMode(CASE m = DECSCNM -> IF Mode(v, DECSCNM, 0) = 0 THEN Swapped(v) ELSE v
             [] m = DECOM -> SetCursorToHome(v)
             [] m = DECAWM -> [v EXCEPT !.wrap = TRUE]
             [] OTHER -> v, m, 1)
VT100DECRM(v, m) ==
  WithMode(CASE m = DECSCNM -> IF Mode(v, DECSCNM, -1) = 1 THEN Swapped(v) ELSE v
             [] m = DECOM -> SetCursorToHome(v)
             [] m = DECAWM -> [v EXCEPT !.wrap = FALSE]
             [] OTHER -> v, m, 0)

SaveCursorData(v) ==
  [v EXCEPT !.saved = [vx |-> v.vx, vy |-> v.vy, px |-> v.px, py |-> v.py,
                       charset |-> v.charset, pen |-> v.pen]]
LoadCursorData(v) ==
  [v EXCEPT !.vx = v.saved.vx, !.vy = v.saved.vy, !.px = v.saved.px, !.py = v.saved.py,
            !.charset = v.saved.charset, !.pen = v.saved.pen]
ProcessDECSTBM(v, p) == ProcessDTA(v, p)
ProcessDECIND(v) == ProcessIND(v)
ProcessDECALN(v) ==
  [SetCursorToHome(v) EXCEPT !.lines = [j \in DOMAIN v.lines |-> [v.lines[j] EXCEPT
     !.cells = WithChars(@, "S")]]]

\* What the cursor and function keys send.
VT100Key(v, key) ==
  LET cursor == [Up |-> "A", Down |-> "B", Left |-> "D", Right |-> "C"]
      pf == [F1 |-> "P", F2 |-> "Q", F3 |-> "R", F4 |-> "S"]
      f == [F5 |-> "t", F6 |-> "u", F7 |-> "v", F8 |-> "l", F9 |-> "w", F10 |-> "x"]
  IN  CASE key \in DOMAIN cursor -> <<IF Mode(v, DECCKM, -1) = 0 THEN "CSI" ELSE "SS3", cursor[key]>>
        [] key \in DOMAIN pf -> <<IF Mode(v, DECANM, -1) = 1 THEN "SS3" ELSE "ESC", pf[key]>>
        [] key \in DOMAIN f -> <<"SS3", f[key]>>
        [] key = "Home" -> <<"CSI", "H">>
        [] OTHER -> <<>>
VT220Keys ==
  [F6 |-> 17, F7 |-> 18, F8 |-> 19, F9 |-> 20, F10 |-> 21, F11 |-> 23, F12 |-> 24,
   Home |-> 1, Insert |-> 2, Delete |-> 3, End |-> 4, PageUp |-> 5, PageDown |-> 6]
VTKeys == [Backspace |-> 8, Escape |-> 27, Delete |-> 127]
VT220Key(v, key) == IF key \in DOMAIN VT220Keys THEN <<"CSI", VT220Keys[key], "~">> ELSE VT100Key(v, key)
XtermKey(v, key) ==
  IF key = "Backspace" THEN <<"key", IF Mode(v, DECBKM, -1) = 1 THEN 8 ELSE 127>> ELSE VT220Key(v, key)
ProcessKeyDown(v, key) ==
  LET own == IF IsXterm(v) THEN XtermKey(v, key) ELSE VT100Key(v, key)
  IN  CASE own # <<>> -> Send(v, own)
        [] own = <<>> /\ key \in DOMAIN VTKeys -> Send(v, <<"key", VTKeys[key]>>)
        [] OTHER -> v

----------------------------------------------------------------------------
(* The layers of xterm: vt220 and vt320.  Selective erase leaves a cell its  *)
(* pen.                                                                     *)

SelectRow(v, y, a, b) ==
  SetCells(v, y, [i \in DOMAIN CellsAt(v, y) |->
     IF i - 1 \in a..b THEN WithChar(CellsAt(v, y)[i], " ") ELSE CellsAt(v, y)[i]])
SelectRows(v, rows) ==
  [v EXCEPT !.lines = [j \in DOMAIN v.lines |->
     IF j - 1 \in rows THEN [v.lines[j] EXCEPT !.cells = WithChars(@, " ")] ELSE v.lines[j]]]

ProcessDECSCA(v, p) ==
  CASE Ps(p) = 0 -> [v EXCEPT !.pen = DefaultPen, !.selective = TRUE]
    [] Ps(p) = 1 -> [v EXCEPT !.selective = FALSE]
    [] Ps(p) = 2 -> [v EXCEPT !.selective = TRUE]
    [] OTHER -> v
\* The flag is tested the other way round here.
ProcessDECSEL(v, p) ==
  CASE v.selective -> v
    [] ~v.selective /\ Ps(p) = 0 -> SelectRow(v, v.vy, v.vx, LastColumn(v))
    [] ~v.selective /\ Ps(p) = 1 -> SelectRow(v, v.vy, 0, v.vx)
    [] ~v.selective /\ Ps(p) = 2 -> SelectRow(v, v.vy, 0, LastColumn(v))
    [] OTHER -> v
ProcessDECSED(v, p) ==
  CASE ~v.selective -> v
    [] v.selective /\ Ps(p) = 0 -> SelectRows(SelectRow(v, v.vy, v.vx, LastColumn(v)), v.vy + 1 .. v.cy - 1)
    [] v.selective /\ Ps(p) = 1 -> SelectRows(SelectRow(v, v.vy, 0, v.vx), 0 .. v.vy - 1)
    [] v.selective /\ Ps(p) = 2 -> SelectRows(v, 0 .. v.cy - 1)
    [] OTHER -> v
\* The region it sets does not outlive the resize in ClearVt.
ProcessDECSTR(v) ==
  ClearVt([WithMode(v, DECAWM, 0) EXCEPT !.showCursor = TRUE, !.wrap = FALSE, !.top = 0, !.bot = 23])

\* The conformance level, and 8-bit controls with it.  The vt520 layer looks at the last
\* parameter only and takes no second one; the layers below look at the first.
SetOperatingLevel(v, second) == [v EXCEPT !.s8c = second \in {0, 2}]
Second(p) == IF Len(p) > 1 THEN p[2] ELSE 0
VT220DECSCL(v, p) == IF p[1] <= 62 THEN SetOperatingLevel(v, Second(p)) ELSE v
VT320DECSCL(v, p) == IF p[1] = 65 THEN SetOperatingLevel(v, Second(p)) ELSE VT220DECSCL(v, p)
VT420DECSCL(v, p) == IF p[1] = 65 THEN SetOperatingLevel(v, Second(p)) ELSE VT320DECSCL(v, p)
ProcessDECSCL(v, p) == IF Last(p) = 65 THEN SetOperatingLevel(v, 0) ELSE VT420DECSCL(v, p)

----------------------------------------------------------------------------
(* vt420, vt520 and xterm itself. *)

\* One column of the region goes, whatever the number of columns asked for.
ProcessDECDC(v, p) ==
  [v EXCEPT !.lines = [j \in DOMAIN v.lines |->
     IF j - 1 \in v.top .. Bottom(v) /\ Pn(p, 1) <= Len(v.lines[j].cells)
     THEN [v.lines[j] EXCEPT !.cells = Append(RemoveAt(@, Pn(p, 1)), PenBlank(v))] ELSE v.lines[j]]]

\* A mode's state; both requests look among the ANSI modes.
PermanentlyReset == {1, 5, 7, 10, 11, 13, 14, 15, 16, 17, 18, 19}
ModeState(v, m) ==
  LET val == GetMode(v.ansi, m, -1) IN IF val = -1 THEN 0 ELSE IF val = 0 THEN 2 ELSE 1
ProcessANSIRQM(v, p) == Send(v, <<"RPM", Ps(p), IF Ps(p) \in PermanentlyReset THEN 4 ELSE ModeState(v, Ps(p))>>)
ProcessDECRQM(v, p) == Send(v, <<"DECRPM", Ps(p), IF Ps(p) = 34 THEN 4 ELSE ModeState(v, Ps(p))>>)

VT100DECDSR(v, p) == IF Ps(p) = 15 THEN Send(v, <<"DSR", 13>>) ELSE v
VT220DECDSR(v, p) == IF Ps(p) = 26 THEN Send(v, <<"DSR", 27>>) ELSE VT100DECDSR(v, p)
VT420DECDSR(v, p) == IF Ps(p) = 6 THEN Send(v, <<"DECXCPR", v.vy, v.vx>>) ELSE VT220DECDSR(v, p)
ProcessDECDSR(v, p) == IF IsXterm(v) THEN VT420DECDSR(v, p) ELSE VT100DECDSR(v, p)
ProcessDA(v, p) == IF Ps(p) = 0 THEN Send(v, <<"DA", v.term>>) ELSE v
ProcessSecondaryDA(v, p) == IF Ps(p) = 0 THEN Send(v, <<"DA2">>) ELSE v
ProcessTertiaryDA(v, p) == IF Ps(p) = 0 THEN Send(v, <<"DA3">>) ELSE v

\* Colours: DECAC takes them from the palette; an operating system command sets, asks for
\* or resets them, setting and asking only once the resource allowColorOps is "1".  The
\* paper gets a colour at random: its handler parses a parameter there is none of.
ProcessDECAC(v, p) ==
  IF Len(p) = 3 /\ p[1] = 1 THEN [v EXCEPT !.colors = [Texts |-> p[2], Paper |-> p[3]]] ELSE v
ProcessXTOSC(v, p) ==
  CASE p[1] = 3 -> [v EXCEPT !.colorOps = p[2] = "allowColorOps=1"]
    [] p[1] \in {10, 11} /\ v.colorOps /\ p[2] = "?" -> Send(v, <<"OSC", 10>>)
    [] p[1] = 10 /\ v.colorOps /\ p[2] # "?" -> [v EXCEPT !.colors.Texts = p[2]]
    [] p[1] = 11 /\ v.colorOps /\ p[2] # "?" -> [v EXCEPT !.colors.Paper = "random"]
    [] p[1] = 110 -> [v EXCEPT !.colors.Texts = DefaultColors.Texts]
    [] p[1] = 111 -> [v EXCEPT !.colors.Paper = DefaultColors.Paper]
    [] OTHER -> v

\* Indexed and direct colours take the parameters after them; the rest is SGR as below.
XtermPen(pen, p) ==
  LET Colored(i) == p[i] \in {38, 48}
      direct == {i \in DOMAIN p : Colored(i) /\ Len(p) - i >= 4 /\ p[i + 1] = 2}
      indexed == {i \in DOMAIN p : Colored(i) /\ Len(p) - i >= 2 /\ p[i + 1] = 5}
      n(i) == CASE i \in direct -> Min({6, Len(p) - i + 1}) [] i \in indexed -> 3 [] OTHER -> 1
      color(i) == SubSeq(p, IF i \in direct THEN i + n(i) - 3 ELSE i + n(i) - 1, i + n(i) - 1)
      Use(old, i) ==
        CASE i \in direct \union indexed -> [old EXCEPT ![IF p[i] = 38 THEN "fg" ELSE "bg"] = color(i)]
          [] Colored(i) /\ i < Len(p) /\ i \notin direct \union indexed -> old
          [] OTHER -> UseSGR(old, p[i])
  IN  FoldLeft(LAMBDA acc, i : IF i < acc.next THEN acc
                               ELSE [pen |-> Use(acc.pen, i), next |-> i + n(i)],
               [pen |-> pen, next |-> 1], [i \in DOMAIN p |-> i]).pen
ProcessXtermSGR(v, p) == [v EXCEPT !.pen = XtermPen(@, p)]

\* With five parameters SD would highlight the mouse, which does nothing.
XtermSD(v, p) == IF Len(p) = 1 THEN ProcessSD(v, p) ELSE v
ProcessXTWINOPS(v, p) ==
  CASE Ps(p) \in {13, 14, 15, 16, 20, 21} -> Send(v, <<"XTWINOPS", Ps(p)>>)
    [] Ps(p) = 18 -> Send(v, <<"size", 8, v.cy, v.cx>>)
    [] Ps(p) = 19 -> Send(v, <<"size", 9, v.cy, v.cx>>)
    [] OTHER -> v

VT220DECSM(v, m) == IF m = DECTCEM THEN WithMode([v EXCEPT !.showCursor = TRUE], m, 1) ELSE VT100DECSM(v, m)
VT220DECRM(v, m) == IF m = DECTCEM THEN WithMode([v EXCEPT !.showCursor = FALSE], m, 0) ELSE VT100DECRM(v, m)
OnAlternate(v) == \E m \in AlternateModes : Mode(v, m, 0) # 0
XtermDECSM(v, m) ==
  CASE m = 1048 -> SaveCursorData(WithMode(v, m, 1))
    [] m \in AlternateModes ->
         WithMode(CASE OnAlternate(v) -> v
                    [] ~OnAlternate(v) /\ m = 1049 -> ClearVt(SwapScr(v))
                    [] OTHER -> SwapScr(v), m, 1)
    [] OTHER -> VT220DECSM(v, m)
\* A return that resets only the mode it was asked to reset.
XtermDECRM_OneMode(v, m) ==
  CASE m = 1048 -> LoadCursorData(WithMode(v, m, 0))
    [] m \in AlternateModes -> IF OnAlternate(v) THEN WithMode(SwapScr(v), m, 0) ELSE v
    [] OTHER -> VT220DECRM(v, m)

XtermDECRM(v, m) ==
  CASE m = 1048 -> LoadCursorData(WithMode(v, m, 0))
    [] m \in AlternateModes ->
         IF OnAlternate(v)
         THEN WithMode(WithMode(WithMode(SwapScr(v), 47, 0), 1047, 0), 1049, 0) ELSE v
    [] OTHER -> VT220DECRM(v, m)
ProcessDECSM(v, p) == IF IsXterm(v) THEN XtermDECSM(v, Ps(p)) ELSE VT100DECSM(v, Ps(p))
ProcessDECRM(v, p) == IF IsXterm(v) THEN XtermDECRM(v, Ps(p)) ELSE VT100DECRM(v, Ps(p))

----------------------------------------------------------------------------
(* The functions each terminal has installed, its own before those of the   *)
(* base terminal.                                                           *)

VT100Function(v, f, p) ==
  CASE f = "DECSTBM" -> ProcessDECSTBM(v, p)    [] f = "DECIND" -> ProcessDECIND(v)
    [] f \in {"CUP", "HVP"} -> VT100CUP(v, p)   [] f = "DECALN" -> ProcessDECALN(v)
    [] f = "DECSC" -> SaveCursorData(v)         [] f = "DECRC" -> LoadCursorData(v)
    [] f = "DECSM" -> ProcessDECSM(v, p)        [] f = "DECRM" -> ProcessDECRM(v, p)
    [] f = "DECDSR" -> ProcessDECDSR(v, p)      [] f = "DA" -> ProcessDA(v, p)
    [] f = "G0_CS" -> Designated(v, 0, Ps(p))   [] f = "G1_CS" -> Designated(v, 1, Ps(p))
    [] f = "SI" -> Invoked(v, 0)                [] f = "SO" -> Invoked(v, 1)
    [] OTHER -> Ecma48Function(v, f, p)
AnsiFunction(v, f, p) ==
  CASE f = "ANSI_SCP" -> SaveCursorData(v)      [] f = "ANSI_RCP" -> LoadCursorData(v)
    [] f = "SS2" -> Invoked(v, 2)               [] f = "SS3" -> Invoked(v, 3)
    [] OTHER -> VT100Function(v, f, p)
VT220Function(v, f, p) ==
  CASE f = "G2_CS" -> Designated(v, 2, Ps(p))   [] f = "G3_CS" -> Designated(v, 3, Ps(p))
    [] f \in {"SS2", "LS2", "LS2R"} -> Invoked(v, 2)
    [] f \in {"SS3", "LS3", "LS3R"} -> Invoked(v, 3)
    [] f = "LS1R" -> ProcessLS1R(v)
    [] f = "DECSCL" -> ProcessDECSCL(v, p)      [] f = "DECSCA" -> ProcessDECSCA(v, p)
    [] f = "S7C1T" -> [v EXCEPT !.s8c = FALSE]  [] f = "S8C1T" -> [v EXCEPT !.s8c = TRUE]
    [] f = "DECSEL" -> ProcessDECSEL(v, p)      [] f = "DECSED" -> ProcessDECSED(v, p)
    [] f = "DECSTR" -> ProcessDECSTR(v)         [] f = "SecondaryDA" -> ProcessSecondaryDA(v, p)
    [] OTHER -> VT100Function(v, f, p)
VT320Function(v, f, p) ==
  CASE f = "DECRQM" -> ProcessDECRQM(v, p)      [] f = "ANSIRQM" -> ProcessANSIRQM(v, p)
    [] f = "G1_CS96" -> VT520CS96(v, 1, Ps(p))  [] f = "G2_CS96" -> VT520CS96(v, 2, Ps(p))
    [] f = "G3_CS96" -> VT520CS96(v, 3, Ps(p))  [] OTHER -> VT220Function(v, f, p)
VT420Function(v, f, p) ==
  CASE f = "DECDC" -> ProcessDECDC(v, p)        [] f = "TertiaryDA" -> ProcessTertiaryDA(v, p)
    [] OTHER -> VT320Function(v, f, p)
VT520Function(v, f, p) ==
  CASE f = "DECST8C" -> [v EXCEPT !.tab = 8]    [] f = "DECAC" -> ProcessDECAC(v, p)
    [] OTHER -> VT420Function(v, f, p)
XtermFunction(v, f, p) ==
  CASE f = "SGR" -> ProcessXtermSGR(v, p)       [] f = "XTWINOPS" -> ProcessXTWINOPS(v, p)
    [] f = "SD" -> XtermSD(v, p)                [] f = "XTVERSION" -> Send(v, <<"XTVERSION">>)
    [] f = "XTOSC" -> ProcessXTOSC(v, p)        [] OTHER -> VT520Function(v, f, p)
ProcessControlSeq(v, f, p) ==
  CASE v.term = "vt100" -> VT100Function(v, f, p) [] v.term = "ansi" -> AnsiFunction(v, f, p)
    [] OTHER -> XtermFunction(v, f, p)

----------------------------------------------------------------------------
(* What the mouse and the focus send: xterm only.                           *)

Reports(v, m) == Mode(v, m, 0) # 0
Reported(v, button, x, y, final, limit) ==
  CASE Reports(v, EnableSGRMouseMode) -> Send(v, <<"SGR", button, x + 1, y + 1, final>>)
    [] ~Reports(v, EnableSGRMouseMode) /\ x < limit /\ y < limit -> Send(v, <<"X10", button, x + 1, y + 1>>)
    [] OTHER -> v
ButtonDown(v, button, x, y) ==
  IF IsXterm(v) /\ (Reports(v, SendXyOnPress) \/ Reports(v, SendXyOnPressAndRelease))
  THEN Reported(v, button, x, y, "M", 223) ELSE v
ButtonUp(v, x, y) ==
  IF IsXterm(v) /\ Reports(v, SendXyOnPressAndRelease) THEN Reported(v, 3, x, y, "m", 223) ELSE v
\* The wheel takes an unset SGR mode, -1, for a set one.
Wheel(v, up, x, y) ==
  LET button == IF up THEN 5 ELSE 4
  IN  CASE ~IsXterm(v) \/ ~(Reports(v, SendXyOnPress) \/ Reports(v, SendXyOnPressAndRelease)) -> v
        [] Mode(v, EnableSGRMouseMode, -1) # 0 -> Send(v, <<"SGR", button, x + 1, y + 1, "M">>)
        [] OTHER -> Reported(v, button, x, y, "M", 191)
\* The clipboard's text, between brackets if the mode asks for them.
Paste(v) ==
  IF IsXterm(v) /\ Reports(v, SetBracketedPasteMode)
  THEN Send(Send(Send(v, <<"CSI", 200, "~">>), <<"pasted">>), <<"CSI", 201, "~">>)
  ELSE Send(v, <<"pasted">>)
Focus(v, got) ==
  IF IsXterm(v) /\ Reports(v, SendFocusInAndOut) THEN Send(v, <<IF got THEN "I" ELSE "O">>) ELSE v

----------------------------------------------------------------------------
\* A terminal as its constructor and its first layout leave it.  Whether erasing is
\* selective is never initialized.
Fresh(t, cx, cy, limit, selective) ==
  [term |-> t, cx |-> cx, cy |-> cy, limit |-> limit, selective |-> selective,
   lines |-> Fill(cy, Line(Fill(cx, Blank))), hist |-> <<>>, alt |-> NoScreen,
   vx |-> 0, vy |-> 0, px |-> 0, py |-> 0, home |-> 0, top |-> 0, bot |-> -1,
   pen |-> DefaultPen, wrap |-> TRUE, tab |-> TabWidth, sel |-> NoSelection, pressed |-> FALSE,
   ansi |-> 6 :> 1, decp |-> InitialModes(t), out |-> <<>>,
   charset |-> "Default", extended |-> IF t = "xterm" THEN "Supplemental" ELSE "Default",
   charsets |-> <<"US", "UK">> \o (CASE t = "ansi" -> <<"US", "US">>
                                     [] OTHER -> <<"Default", "Default">>),
   saved |-> [vx |-> 0, vy |-> 0, px |-> 0, py |-> 0, charset |-> "Default", pen |-> DefaultPen],
   colors |-> DefaultColors, colorOps |-> FALSE, showCursor |-> TRUE, s8c |-> FALSE]
=============================================================================
