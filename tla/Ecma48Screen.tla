---------------------------- MODULE Ecma48Screen ----------------------------
(***************************************************************************)
(* What SerialConnEcma48 does to the screen for each control sequence.  A   *)
(* sequence is a record [f, p]: its function and its parameters, the        *)
(* numbers SplitString and atoi make of them, 0 where one is missing.  The  *)
(* functions whose handlers are empty, and those that have none, leave the  *)
(* screen alone.                                                            *)
(***************************************************************************)
EXTENDS VtScreen

TAB == "HT"             \* the characters HTS and VTS leave in a cell
VTAB == "VT"

\* A missing or zero parameter counts as one.
Pn(p, i) == IF i <= Len(p) /\ p[i] > 0 THEN p[i] ELSE 1
Ps(p) == p[1]

GetMode(modes, m, default) == IF m \in DOMAIN modes THEN modes[m] ELSE default
SetMode(modes, m, val) == [k \in DOMAIN modes \union {m} |-> IF k = m THEN val ELSE modes[k]]
SRM == 12
LNM == 20

Send(v, msg) == [v EXCEPT !.out = Append(@, msg)]

----------------------------------------------------------------------------
(* The cursor. *)

ProcessBS(v) ==
  IF v.px >= 1 THEN [v EXCEPT !.px = @ - 1]
  ELSE IF v.vy >= 1 /\ LineAt(v, v.vy - 1).more
  THEN [v EXCEPT !.px = VirtualToLogic(CellsAt(v, v.vy - 1), v.cx) - 1, !.vy = @ - 1]
  ELSE v

ProcessHT(v) == [v EXCEPT !.px = @ + v.tab - (@ % v.tab)]
ProcessLF(v) == [v EXCEPT !.vy = @ + 1, !.vx = IF GetMode(v.ansi, LNM, 0) = 1 THEN v.home ELSE @]
ProcessCR(v) == [v EXCEPT !.vx = 0, !.px = 0]
ProcessCBT(v, p) ==
  LET rn == v.px % v.tab
  IN  [v EXCEPT !.px = @ - rn - v.tab * (IF rn # 0 THEN Pn(p, 1) - 1 ELSE Pn(p, 1))]
ProcessCHA(v, p) == [v EXCEPT !.px = Pn(p, 1) - 1]
ProcessCHT(v, p) == [v EXCEPT !.px = @ + v.tab - (@ % v.tab) + v.tab * (Pn(p, 1) - 1)]
ProcessCNL(v, p) == [v EXCEPT !.vy = @ + Pn(p, 1), !.vx = 0]
ProcessCPL(v, p) == [v EXCEPT !.vy = @ - Pn(p, 1)]
ProcessCUB(v, p) == [v EXCEPT !.px = @ - Pn(p, 1)]
ProcessCUD(v, p) == [v EXCEPT !.vy = @ + Pn(p, 1)]
ProcessCUF(v, p) == [v EXCEPT !.px = @ + Pn(p, 1)]
ProcessCUP(v, p) == [v EXCEPT !.px = Min({Pn(p, 2), v.cx}) - 1, !.vy = Min({Pn(p, 1), v.cy}) - 1]
ProcessCUU(v, p) == [v EXCEPT !.vy = @ - Pn(p, 1)]
ProcessCVT(v, p) == [v EXCEPT !.vy = @ + Ps(p)]
ProcessHPA(v, p) == [v EXCEPT !.vx = Pn(p, 1) - 1]
ProcessHPB(v, p) == [v EXCEPT !.vx = @ - Pn(p, 1)]
ProcessHPR(v, p) == [v EXCEPT !.vx = @ + Pn(p, 1)]
ProcessVPA(v, p) == [v EXCEPT !.vy = Pn(p, 1) - 1]
ProcessVPB(v, p) == [v EXCEPT !.vy = @ - Pn(p, 1)]
ProcessVPR(v, p) == [v EXCEPT !.vy = @ + Pn(p, 1)]
ProcessSLH(v, p) == [v EXCEPT !.home = Pn(p, 1) - 1]

\* Device status: all is well, or where the cursor is.
ProcessDSR(v, p) ==
  CASE Ps(p) = 5 -> Send(v, <<"DSR", 0>>)
    [] Ps(p) = 6 -> Send(v, <<"CPR", v.py + 1, v.px + 1>>)
    [] OTHER -> v

\* A region that need not be on the screen.
ProcessDTA_Unchecked(v, p) ==
  IF Pn(p, 1) < Pn(p, 2)
  THEN [v EXCEPT !.top = Pn(p, 1) - 1, !.bot = Pn(p, 2) - 1, !.vx = 0, !.vy = Pn(p, 1) - 1]
  ELSE v

\* The scrolling region; a pair that is none is ignored.
ProcessDTA(v, p) ==
  IF Pn(p, 1) < Pn(p, 2) /\ Pn(p, 2) <= v.cy
  THEN [v EXCEPT !.top = Pn(p, 1) - 1, !.bot = Pn(p, 2) - 1, !.vx = 0, !.vy = Pn(p, 1) - 1]
  ELSE v

----------------------------------------------------------------------------
(* Cells. *)

\* The cells of row y from column a to b become cell.
Erased(v, y, a, b, cell) ==
  SetCells(v, y, [i \in DOMAIN CellsAt(v, y) |-> IF i - 1 \in a..b THEN cell ELSE CellsAt(v, y)[i]])
ErasedRows(v, rows, cell) ==
  [v EXCEPT !.lines = [j \in DOMAIN v.lines |->
     IF j - 1 \in rows THEN [v.lines[j] EXCEPT !.cells = Fill(Len(v.lines[j].cells), cell)]
     ELSE v.lines[j]]]
LastColumn(v) == Len(CellsAt(v, v.vy)) - 1
AfterCursor(v, cell) == Erased(v, v.vy, v.vx, LastColumn(v), cell)
UpToCursor(v, cell) == Erased(v, v.vy, 0, v.vx, cell)

ProcessCCH(v) ==
  IF v.vx > 0 THEN [Erased(v, v.vy, v.vx - 1, v.vx - 1, PenBlank(v)) EXCEPT !.vx = @ - 1] ELSE v
ProcessDCH(v, p) ==
  LET cells == CellsAt(v, v.vy)
      n == Min({Pn(p, 1), Len(cells) - v.vx})
  IN  SetCells(v, v.vy, SubSeq(cells, 1, v.vx) \o SubSeq(cells, v.vx + n + 1, Len(cells)) \o Fill(n, PenBlank(v)))
ProcessICH(v, p) ==
  LET cells == CellsAt(v, v.vy)
  IN  SetCells(v, v.vy, SubSeq(cells, 1, v.vx) \o Fill(Pn(p, 1), PenBlank(v)) \o SubSeq(cells, v.vx + 1, Len(cells)))
ProcessECH(v, p) == Erased(v, v.vy, v.vx, v.vx + Pn(p, 1) - 1, PenBlank(v))
ProcessED(v, p) ==
  CASE Ps(p) = 0 -> ErasedRows(AfterCursor(v, PenBlank(v)), v.vy + 1 .. v.cy - 1, PenBlank(v))
    [] Ps(p) = 1 -> ErasedRows(UpToCursor(v, PenBlank(v)), 0 .. v.vy - 1, PenBlank(v))
    [] Ps(p) = 2 -> ErasedRows(v, 0 .. v.cy - 1, PenBlank(v))
    [] OTHER -> v
ProcessEL(v, p) ==
  CASE Ps(p) = 0 -> AfterCursor(v, PenBlank(v))
    [] Ps(p) = 1 -> UpToCursor(v, PenBlank(v))
    [] Ps(p) = 2 -> [v EXCEPT !.lines[v.vy + 1] = NewLine(v)]
    [] OTHER -> v
\* The character before the cursor again; the line grows for what does not fit.
ProcessREP(v, p) ==
  LET cells == CellsAt(v, v.vy)
      cell == IF v.vx > 0 THEN cells[v.vx] ELSE PenBlank(v)
      n == Pn(p, 1)
  IN  [SetCells(v, v.vy, SubSeq(cells, 1, v.vx) \o Fill(n, cell) \o SubSeq(cells, v.vx + n + 1, Len(cells)))
         EXCEPT !.vx = @ + n]
\* Only shifts within a line are meant: the source erases past the end of one that is
\* shorter, which has no defined result (ShiftAssumption of Terminal).
ProcessSL(v, p) ==
  [v EXCEPT !.lines = [j \in DOMAIN v.lines |-> [v.lines[j] EXCEPT
     !.cells = SubSeq(@, Pn(p, 1) + 1, Len(@)) \o Fill(Pn(p, 1), PenBlank(v))]]]
ProcessSR(v, p) ==
  [v EXCEPT !.lines = [j \in DOMAIN v.lines |-> [v.lines[j] EXCEPT
     !.cells = SubSeq(Fill(Pn(p, 1), PenBlank(v)) \o @, 1, Len(@))]]]

\* Tabulation stops are characters in the cells.
ProcessHTS(v) == [v EXCEPT !.lines[v.vy + 1].cells[v.vx + 1] = WithChar(@, TAB), !.vx = @ + 1]
ProcessVTS(v) == [v EXCEPT !.lines[v.vy + 1].cells[v.vx + 1] = WithChar(@, VTAB), !.vy = @ + 1]

\* The line at the cursor and the next become one; of the two rows the first goes.
JoinedBelow(v) ==
  IF v.vy < Len(v.lines) - 1 THEN [v EXCEPT !.lines = RemoveAt(@, v.vy + 1) \o <<NewLine(v)>>]
  ELSE [v EXCEPT !.lines[v.vy + 1].cells[v.vx + 1] = WithChar(@, " ")]
\* Lines that end in a vertical stop take the next into them.  The source never ends if
\* the last line does; see CtcEnds.
EndsInStop(line) == line.cells # <<>> /\ Last(line.cells).c = VTAB
Joining(acc, line) ==
  IF acc.open
  THEN [out |-> [acc.out EXCEPT ![Len(acc.out)].cells = Front(@) \o line.cells], open |-> FALSE]
  ELSE [out |-> Append(acc.out, line), open |-> EndsInStop(line)]
JoinedAtStops(v) ==
  LET joined == FoldLeft(Joining, [out |-> <<>>, open |-> FALSE], v.lines).out
  IN  [v EXCEPT !.lines = joined \o NewLines(v, Len(v.lines) - Len(joined))]
CtcEnds(v) == ~EndsInStop(Last(v.lines))

Untabbed(out, cell) == IF cell.c = TAB THEN out ELSE Append(out, cell)
WithoutTabs(v) ==
  LET kept == FoldLeft(Untabbed, <<>>, CellsAt(v, v.vy))
  IN  SetCells(v, v.vy, Padded(kept, Len(CellsAt(v, v.vy)), PenBlank(v)))
ProcessCTC1(v, ps) ==
  LET here == CellsAt(v, v.vy)[v.vx + 1].c
  IN  CASE ps = 0 -> ProcessHTS(v)
        [] ps = 1 -> ProcessVTS(v)
        [] ps = 2 -> IF here = TAB THEN ProcessDCH(v, <<1>>) ELSE v
        [] ps = 3 -> IF here = VTAB THEN JoinedBelow(v) ELSE v
        [] ps = 4 -> WithoutTabs(v)
        [] ps = 5 -> WithoutTabs(JoinedAtStops(v))
        [] ps = 6 -> JoinedAtStops(v)
        [] OTHER -> v
ProcessCTC(v, p) == FoldLeft(ProcessCTC1, v, p)

----------------------------------------------------------------------------
(* Lines.  n lines go at one place of the screen, and n blank ones come at  *)
(* another; nothing enters the history.                                     *)

\* Lines that come below the region instead of at its bottom.
LinesUp_Below(v, from, last, n) ==
  [v EXCEPT !.lines = SubSeq(@, 1, from) \o SubSeq(@, from + n + 1, Len(@)) \o NewLines(v, n)]

\* n lines from row from go, and the rows after them up to row last move up.
LinesUp(v, from, last, n) ==
  [v EXCEPT !.lines = SubSeq(@, 1, from) \o SubSeq(@, from + n + 1, last + 1)
                      \o NewLines(v, n) \o SubSeq(@, last + 2, Len(@))]
LinesDown(v, from, last, n) ==
  [v EXCEPT !.lines = SubSeq(@, 1, from) \o NewLines(v, n) \o SubSeq(@, from + 1, last + 1 - n)
                      \o SubSeq(@, last + 2, Len(@))]
InRegion(v) == v.vy >= v.top /\ v.vy <= Bottom(v)
ProcessDL(v, p) ==
  IF InRegion(v) THEN LinesUp(v, v.vy, Bottom(v), Min({Pn(p, 1), Bottom(v) - v.vy + 1})) ELSE v
ProcessIL(v, p) ==
  IF InRegion(v) THEN LinesDown(v, v.vy, Bottom(v), Min({Pn(p, 1), Bottom(v) - v.vy + 1})) ELSE v
ProcessSU(v, p) == LinesUp(v, v.top, Bottom(v), Min({Pn(p, 1), Bottom(v) - v.top + 1}))
\* Without a region, SD takes away again what it has put in.
ProcessSD(v, p) ==
  IF v.bot < 0 THEN v ELSE LinesDown(v, v.top, v.bot, Min({Pn(p, 1), v.bot - v.top + 1}))
ProcessIND(v) == IF v.vy < Bottom(v) THEN [v EXCEPT !.vy = @ + 1] ELSE LinesUp(v, v.top, Bottom(v), 1)
ProcessNEL(v) == [ProcessIND(v) EXCEPT !.vx = 0]
ProcessRI(v) == IF v.vy > v.top THEN [v EXCEPT !.vy = @ - 1] ELSE LinesDown(v, v.top, Bottom(v), 1)

----------------------------------------------------------------------------
(* The pen. *)

Colors == <<"Black", "Red", "Green", "Yellow", "Blue", "Magenta", "Cyan", "White">>
FontOn == (1 :> "bold") @@ (3 :> "italic") @@ (4 :> "underline") @@ (5 :> "blink") @@ (6 :> "blink")
          @@ (9 :> "strikeout") @@ (21 :> "underline") @@ (28 :> "visible")
FontOff == (8 :> "visible") @@ (23 :> "italic") @@ (24 :> "underline") @@ (25 :> "blink") @@ (29 :> "strikeout")

UseSGR(pen, sgr) ==
  CASE sgr = 0 -> DefaultPen
    [] sgr \in DOMAIN FontOn -> [pen EXCEPT !.font = @ \union {FontOn[sgr]}]
    [] sgr \in DOMAIN FontOff -> [pen EXCEPT !.font = @ \ {FontOff[sgr]}]
    [] sgr \in {7, 27} -> [pen EXCEPT !.fg = pen.bg, !.bg = pen.fg]
    [] sgr = 22 -> [fg |-> "Texts", bg |-> "Paper", font |-> pen.font \ {"bold"}]
    [] sgr \in 30..37 -> [pen EXCEPT !.fg = Colors[sgr - 29]]
    [] sgr = 39 -> [pen EXCEPT !.fg = "Texts"]
    [] sgr \in {40, 49} -> [pen EXCEPT !.bg = "Paper"]
    [] sgr \in 41..47 -> [pen EXCEPT !.bg = Colors[sgr - 39]]
    [] OTHER -> pen
ProcessSGR(v, p) == [v EXCEPT !.pen = FoldLeft(UseSGR, @, p)]

ModeSet(modes, m) == SetMode(modes, m, 1)
ModeReset(modes, m) == SetMode(modes, m, 0)
ProcessSM(v, p) == [v EXCEPT !.ansi = FoldLeft(ModeSet, @, p)]
ProcessRM(v, p) == [v EXCEPT !.ansi = FoldLeft(ModeReset, @, p)]

\* A character typed: written to the device, and shown at once in the echo mode.
ProcessChar(v, c) == Send(IF GetMode(v.ansi, SRM, 0) = 1 THEN RenderText(v, <<c>>) ELSE v, <<"char", c>>)

----------------------------------------------------------------------------
\* mFunctions of the base terminal.
Ecma48Function(v, f, p) ==
  CASE f = "BS" -> ProcessBS(v)           [] f = "HT" -> ProcessHT(v)
    [] f \in {"LF", "VT", "FF"} -> ProcessLF(v)
    [] f = "CR" -> ProcessCR(v)           [] f = "CBT" -> ProcessCBT(v, p)
    [] f = "CCH" -> ProcessCCH(v)         [] f = "CHA" -> ProcessCHA(v, p)
    [] f = "CHT" -> ProcessCHT(v, p)      [] f = "CNL" -> ProcessCNL(v, p)
    [] f = "CPL" -> ProcessCPL(v, p)      [] f \in {"CTC", "TBC"} -> ProcessCTC(v, p)
    [] f = "CUB" -> ProcessCUB(v, p)      [] f = "CUD" -> ProcessCUD(v, p)
    [] f = "CUF" -> ProcessCUF(v, p)      [] f \in {"CUP", "HVP"} -> ProcessCUP(v, p)
    [] f = "CUU" -> ProcessCUU(v, p)      [] f = "CVT" -> ProcessCVT(v, p)
    [] f = "DCH" -> ProcessDCH(v, p)      [] f = "DL" -> ProcessDL(v, p)
    [] f = "DSR" -> ProcessDSR(v, p)      [] f = "DTA" -> ProcessDTA(v, p)
    [] f = "ECH" -> ProcessECH(v, p)      [] f \in {"ED", "EF"} -> ProcessED(v, p)
    [] f = "EL" -> ProcessEL(v, p)        [] f = "HPA" -> ProcessHPA(v, p)
    [] f = "HPB" -> ProcessHPB(v, p)      [] f = "HPR" -> ProcessHPR(v, p)
    [] f = "HTS" -> ProcessHTS(v)         [] f = "ICH" -> ProcessICH(v, p)
    [] f = "IL" -> ProcessIL(v, p)        [] f = "NEL" -> ProcessNEL(v)
    [] f = "REP" -> ProcessREP(v, p)      [] f = "RI" -> ProcessRI(v)
    [] f = "RIS" -> ClearVt(v)            [] f = "RM" -> ProcessRM(v, p)
    [] f = "SD" -> ProcessSD(v, p)        [] f = "SGR" -> ProcessSGR(v, p)
    [] f = "SL" -> ProcessSL(v, p)        [] f = "SLH" -> ProcessSLH(v, p)
    [] f = "SM" -> ProcessSM(v, p)        [] f = "SR" -> ProcessSR(v, p)
    [] f = "SU" -> ProcessSU(v, p)        [] f = "VPA" -> ProcessVPA(v, p)
    [] f = "VPB" -> ProcessVPB(v, p)      [] f = "VPR" -> ProcessVPR(v, p)
    [] f = "VTS" -> ProcessVTS(v)         [] OTHER -> v

\* Only the line feeds scroll; another sequence leaves its row to ProcessOverflowChars.
Ecma48OverflowLines(v, f) == IF f \in {"LF", "FF", "VT"} THEN ProcessOverflowLines(v) ELSE v
=============================================================================
