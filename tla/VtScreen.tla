------------------------------ MODULE VtScreen ------------------------------
(***************************************************************************)
(* The screen of a terminal tab, SerialConnVT without its threads: lines of *)
(* cells, the history above them, the cursor in cells (vx, vy) and on the   *)
(* page (px, py), the scrolling region and the selection.  A screen is a    *)
(* record v, an operation maps a screen to a screen, and Terminal composes  *)
(* the operations into steps.                                               *)
(*                                                                         *)
(* One cell is one unit wide and high, except that Wide takes two.  Lines   *)
(* and columns count from 0, as in the source; sequences count from 1.      *)
(***************************************************************************)
EXTENDS Integers, SequencesExt, FiniteSetsExt

TabWidth == 8
Wide == "W"             \* stands for the characters of two columns

DefaultPen == [fg |-> "Texts", bg |-> "Paper", font |-> {"visible"}]
Cell(c, pen) == [c |-> c, pen |-> pen]
Blank == Cell(" ", DefaultPen)                \* GetDefaultBlankChar
PenBlank(v) == Cell(" ", v.pen)               \* GetBlankChar
WithChar(cell, c) == [cell EXCEPT !.c = c]         \* a character assigned to a cell: its pen stays
WithChars(cells, c) == [i \in DOMAIN cells |-> WithChar(cells[i], c)]

Fill(n, cell) == [i \in 1..n |-> cell]
Line(cells) == [cells |-> cells, more |-> FALSE]
NewLine(v) == Line(Fill(v.cx, PenBlank(v)))
NewLines(v, n) == Fill(n, NewLine(v))
NoSelection == [x0 |-> 0, y0 |-> 0, x1 |-> 0, y1 |-> 0, valid |-> FALSE]
NoScreen == [lines |-> <<>>, hist |-> <<>>, pen |-> DefaultPen, vx |-> 0, vy |-> 0, sel |-> NoSelection]

\* The last line the region scrolls.
Bottom(v) == IF v.bot < 0 THEN Len(v.lines) - 1 ELSE v.bot
LineAt(v, y) == v.lines[y + 1]
CellsAt(v, y) == LineAt(v, y).cells
SetCells(v, y, cells) == [v EXCEPT !.lines[y + 1].cells = cells]
\* Row of history and screen taken together.
Rows(v) == v.hist \o v.lines

Width(cell) == IF cell.c = Wide THEN 2 ELSE 1
WidthOf(cells) == FoldSeq(LAMBDA c, w : w + Width(c), 0, cells)
\* How many cells at the end of a line pass the test.
RunAtEnd(seq, Test(_)) ==
  CHOOSE n \in 0..Len(seq) :
    /\ \A i \in Len(seq) - n + 1 .. Len(seq) : Test(seq[i])
    /\ n < Len(seq) => ~Test(seq[Len(seq) - n])
IsSpace(cell) == cell.c = " "
BlankChars(cells) == RunAtEnd(cells, IsSpace)
BlankLines(lines) == RunAtEnd(lines, LAMBDA l : \A i \in DOMAIN l.cells : IsSpace(l.cells[i]))
Trimmed(cells) == SubSeq(cells, 1, Len(cells) - BlankChars(cells))
Padded(cells, n, cell) == IF Len(cells) < n THEN cells \o Fill(n - Len(cells), cell) ELSE cells

VirtualToLogic(cells, x) == WidthOf(SubSeq(cells, 1, Min({x, Len(cells)})))
\* The cell that a place on the page falls into, the last one if it is beyond them.
LogicToVirtual(cells, lx) ==
  LET at == {i \in 1..Len(cells) : VirtualToLogic(cells, i) > Max({lx, 0})}
  IN  IF at = {} THEN Max({Len(cells) - 1, 0}) ELSE Min(at) - 1

----------------------------------------------------------------------------
(* Overflow: the history takes the line that leaves the top, and a cursor   *)
(* that left the lines is brought back.                                     *)

\* A line as the history keeps it.
Stored(line) == [line EXCEPT !.cells = Trimmed(@)]

\* A history whose erased line leaves the selection where it was.
PushToLinesBufferAndCheck_Unmoved(v, line) ==
  LET hist == Append(v.hist, Stored(line))
  IN  [v EXCEPT !.hist = IF Len(v.hist) >= v.limit THEN Tail(hist) ELSE hist]

\* A line enters the history; over the limit the oldest line goes, and the selection
\* moves up with its text.
PushToLinesBufferAndCheck(v, line) ==
  LET full == Len(v.hist) >= v.limit
      hist == Append(v.hist, Stored(line))
      s == v.sel
  IN  IF ~full THEN [v EXCEPT !.hist = hist]
      ELSE [v EXCEPT !.hist = Tail(hist),
                     !.sel = [x0 |-> IF s.y0 > 0 THEN s.x0 ELSE 0, y0 |-> Max({s.y0 - 1, 0}),
                              x1 |-> s.x1, y1 |-> Max({s.y1 - 1, 0}),
                              valid |-> s.valid /\ s.y1 > 0]]

\* A cursor left in the column it had in a longer line.
ProcessOverflowChars_Unpadded(v) ==
  [v EXCEPT !.vx = Max({@, 0}), !.vy = Max({0, Min({@, Len(v.lines) - 1})})]

ProcessOverflowChars(v) ==
  LET x == Max({v.vx, 0})
      y == Max({v.vy, 0})
  IN  IF y < Len(v.lines)
      THEN [v EXCEPT !.vx = x, !.vy = y, !.lines[y + 1].cells = Padded(@, x + 1, Blank)]
      ELSE [v EXCEPT !.vx = x, !.vy = Len(v.lines) - 1]

\* The lines top to bot move up by one, and the one that left the top comes back below
\* them as a blank line.
Scrolled(v, top, bot) ==
  LET cells == Fill(Len(CellsAt(v, top)), Blank)
  IN  [v EXCEPT !.lines = SubSeq(@, 1, top) \o SubSeq(@, top + 2, bot + 1)
                          \o <<Line(cells)>> \o SubSeq(@, bot + 2, Len(@))]

\* The cursor one line below the region scrolls it; any other place outside is clamped.
ProcessOverflowLines(v) ==
  IF Max({v.vy, 0}) # Bottom(v) + 1
  THEN [v EXCEPT !.vy = Max({0, Min({@, Len(v.lines) - 1})})]
  ELSE [Scrolled(IF v.top = 0 THEN PushToLinesBufferAndCheck(v, LineAt(v, 0)) ELSE v,
                 v.top, Bottom(v)) EXCEPT !.vy = Bottom(v)]

----------------------------------------------------------------------------
(* Text. *)

\* A wrap that forgets that the line goes on below.
Wrapped_Broken(v) == ProcessOverflowLines([v EXCEPT !.vy = @ + 1, !.vx = 0, !.px = 0])

Wrapped(v) ==
  ProcessOverflowLines([v EXCEPT !.lines[v.vy + 1].more = TRUE, !.vy = @ + 1, !.vx = 0, !.px = 0])

Written(v, c) ==
  LET cells == Padded(CellsAt(v, v.vy), v.vx + 1, Blank)
  IN  [SetCells(v, v.vy, Padded([cells EXCEPT ![v.vx + 1] = Cell(c, v.pen)], v.vx + 2, Blank))
         EXCEPT !.vx = @ + 1, !.px = @ + Width(Cell(c, v.pen))]

RenderChar(v, c) ==
  IF v.wrap /\ (v.vx >= v.cx \/ v.px >= v.cx) THEN Written(Wrapped(v), c) ELSE Written(v, c)

RenderText(v, chars) == FoldLeft(RenderChar, v, chars)

----------------------------------------------------------------------------
(* The two positions of the cursor, brought in step after each sequence.    *)

UpdateDataPosXY(v) ==
  LET y == Min({Max({v.py, 0}), Len(v.lines) - 1})
  IN  [v EXCEPT !.vy = y, !.vx = LogicToVirtual(CellsAt(v, y), v.px)]
UpdateDataPosX(v) == [v EXCEPT !.vx = LogicToVirtual(CellsAt(v, v.vy), v.px)]
UpdateDataPosY(v) == [v EXCEPT !.vy = v.py]

UpdatePresentationPosY(v) == [v EXCEPT !.py = v.vy]
UpdatePresentationPosX(v) ==
  LET x0 == VirtualToLogic(CellsAt(v, v.vy), v.vx)
      x1 == x0 + Width(CellsAt(v, v.vy)[v.vx + 1])
  IN  [v EXCEPT !.px = IF @ <= x0 \/ @ >= x1 THEN x0 ELSE @]
UpdatePresentationPos(v) == UpdatePresentationPosX(UpdatePresentationPosY(v))

\* The page position wins where a sequence has changed it: the tail of RenderSeq.  w is
\* the screen before the sequence.
Followed(w, v) ==
  CASE v.px # w.px /\ v.py # w.py -> UpdateDataPosXY(v)
    [] v.px # w.px /\ v.py = w.py -> UpdateDataPosX(v)
    [] v.px = w.px /\ v.py # w.py -> UpdateDataPosY(v)
    [] OTHER -> v
Synced(w, d) ==
  LET x == d.vx # w.vx /\ d.px = w.px
      y == d.vy # w.vy /\ d.py = w.py
  IN  CASE x /\ y -> UpdatePresentationPos(d)
        [] x /\ ~y -> UpdatePresentationPosX(d)
        [] y /\ ~x -> UpdatePresentationPosY(d)
        [] OTHER -> d

----------------------------------------------------------------------------
(* A new size. *)

Widened(line, cx) == [line EXCEPT !.cells = Padded(@, cx, Blank)]

\* Lines the screen lacks come from the history first, if the region reaches the bottom.
ExtendVirtualScreen(v, cx, cy) ==
  LET lack == cy - Len(v.lines)
      n == IF v.bot < 0 \/ v.bot >= cy THEN Min({lack, Len(v.hist)}) ELSE 0
      pulled == SubSeq(v.hist, Len(v.hist) - n + 1, Len(v.hist))
  IN  [v EXCEPT !.hist = SubSeq(@, 1, Len(@) - n),
                !.lines = [i \in 1..n |-> Widened(pulled[i], cx)]
                          \o @ \o Fill(lack - n, Line(Fill(cx, Blank))),
                !.vy = @ + n]

\* Lines too many go from the blank ones at the bottom, no more of them than from the
\* cursor's line on, then from the top into the history.
ShrinkVirtualScreen(v, cx, cy) ==
  LET size == Len(v.lines)
      popped == Max({0, Min({size - cy, BlankLines(v.lines), size - v.vy})})
      pushed == size - cy - popped
      w == FoldLeft(PushToLinesBufferAndCheck, v, SubSeq(v.lines, 1, pushed))
  IN  [w EXCEPT !.lines = SubSeq(@, pushed + 1, size - popped), !.vy = Max({Min({@, 0}), @ - pushed})]

\* Cells beyond the width go, blank or not.
Fitted_Cut(line, cx) == [line EXCEPT !.cells = SubSeq(Padded(@, cx, Blank), 1, cx)]

\* Cells beyond the width go if they are blank.
Fitted(line, cx) ==
  LET over == Min({Max({Len(line.cells) - cx, 0}), BlankChars(line.cells)})
  IN  [line EXCEPT !.cells = SubSeq(Padded(@, cx, Blank), 1, Max({Len(@), cx}) - over)]

ResizeVt(v, cx, cy) ==
  LET w == [v EXCEPT !.cx = cx, !.cy = cy, !.lines = [i \in DOMAIN @ |-> Fitted(@[i], cx)]]
      sized == IF Len(v.lines) < cy THEN ExtendVirtualScreen(w, cx, cy) ELSE ShrinkVirtualScreen(w, cx, cy)
  IN  [UpdatePresentationPos(ProcessOverflowChars(sized)) EXCEPT !.top = 0, !.bot = -1]

\* Layout: a window too small for one cell is ignored.
Layout(v, cx, cy) == IF cx <= 0 \/ cy <= 0 THEN v ELSE ResizeVt(v, cx, cy)

\* ShowVTOptions: the history is cut only if the font changed, which resizes the screen.
ShowVTOptions(v, limit, fontChanged, cx, cy) ==
  LET cut == Max({0, Len(v.hist) - limit})
  IN  IF ~fontChanged THEN [v EXCEPT !.limit = limit]
      ELSE Layout([v EXCEPT !.limit = limit, !.hist = SubSeq(@, cut + 1, Len(@))], cx, cy)

ClearVt(v) ==
  [ResizeVt([v EXCEPT !.pen = DefaultPen, !.hist = <<>>, !.lines = <<>>], v.cx, v.cy)
     EXCEPT !.vx = 0, !.vy = 0, !.px = 0, !.py = 0]

\* The other screen: its lines, history, cell cursor, pen and selection change places.
SwapScr(v) ==
  LET a == v.alt
  IN  ResizeVt([v EXCEPT !.lines = a.lines, !.hist = a.hist, !.vx = a.vx, !.vy = a.vy,
                         !.pen = a.pen, !.sel = a.sel,
                         !.alt = [lines |-> v.lines, hist |-> v.hist, vx |-> v.vx, vy |-> v.vy,
                                  pen |-> v.pen, sel |-> v.sel]], v.cx, v.cy)

----------------------------------------------------------------------------
(* The mouse selects.  A pointer is the cell below it, and whether it is in *)
(* that cell's right half or beyond the last cell.                          *)

RowCells(v, y) == Rows(v)[y + 1].cells
Edge(v, x, y, right) == IF right THEN x + 1 ELSE x

LeftDown(v, x, y, right) ==
  LET at == IF RowCells(v, y) = <<>> THEN 0 ELSE Edge(v, x, y, right)
  IN  [v EXCEPT !.pressed = TRUE, !.sel = [x0 |-> at, y0 |-> y, x1 |-> at, y1 |-> y, valid |-> FALSE]]

MouseMove(v, x, y, right) ==
  LET s == [v.sel EXCEPT !.x1 = Edge(v, x, y, right), !.y1 = y]
  IN  [v EXCEPT !.sel = [s EXCEPT !.valid = s.x0 # s.x1 \/ s.y0 # s.y1]]

LeftUp(v) == [v EXCEPT !.pressed = FALSE]

\* Double click: the word below the pointer, also where rows that belong together break it.
\* The scan ends at cell fx, the first before the word; that it has moved at all stands for
\* "the pointer is on a word".
WordLeft(cells, x) ==
  CHOOSE a \in 0 .. x + 1 :
    /\ \A i \in a..x : ~IsSpace(cells[i + 1])
    /\ a > 0 => IsSpace(cells[a])
WordRight(cells, x) ==
  CHOOSE b \in x .. Len(cells) :
    /\ \A i \in x .. b - 1 : ~IsSpace(cells[i + 1])
    /\ b < Len(cells) => IsSpace(cells[b + 1])
WordStart(v, x, y) ==
  LET Up(acc, k) ==
        LET row == Rows(v)[y - k + 1]
            e == Min({Len(row.cells), v.cx}) - 1
            a == WordLeft(row.cells, e)
        IN  IF acc.fx >= 0 \/ ~row.more THEN [acc EXCEPT !.open = FALSE]
            ELSE [acc EXCEPT !.fx = a - 1, !.x = IF a <= e THEN a ELSE @, !.y = IF a <= e THEN @ - 1 ELSE @]
      first == WordLeft(RowCells(v, y), x)
  IN  FoldLeft(LAMBDA acc, k : IF acc.open THEN Up(acc, k) ELSE acc,
               [x |-> IF first > x THEN x ELSE first, y |-> y, fx |-> first - 1, open |-> TRUE],
               [k \in 1..y |-> k])
WordEnd(v, x, y) ==
  LET Down(acc, k) ==
        IF acc.x >= v.cx /\ Rows(v)[y + k].more
        THEN [acc EXCEPT !.x = WordRight(RowCells(v, y + k), 0), !.y = @ + 1]
        ELSE [acc EXCEPT !.open = FALSE]
  IN  FoldLeft(LAMBDA acc, k : IF acc.open THEN Down(acc, k) ELSE acc,
               [x |-> WordRight(RowCells(v, y), x + 1), y |-> y, open |-> TRUE],
               [k \in 1 .. Len(Rows(v)) - 1 - y |-> k])
LeftDouble(v, x, y) ==
  LET from == WordStart(v, x, y)
      to == IF from.fx = x THEN [x |-> x + 1, y |-> y] ELSE WordEnd(v, x, y)
  IN  IF x >= Len(RowCells(v, y)) THEN v
      ELSE [v EXCEPT !.sel = [x0 |-> from.x, y0 |-> from.y, x1 |-> to.x, y1 |-> to.y,
                              valid |-> to.x # from.x]]

\* Rows that belong to row y, because each of them goes on in the next.
FirstOf(v, y) ==
  CHOOSE a \in 0..y :
    /\ \A i \in a .. y - 1 : Rows(v)[i + 1].more
    /\ a > 0 => ~Rows(v)[a].more
LastOf(v, y) ==
  CHOOSE b \in y .. Len(Rows(v)) - 1 :
    /\ \A i \in y .. b - 1 : Rows(v)[i + 1].more
    /\ b < Len(Rows(v)) - 1 => ~Rows(v)[b + 1].more
LeftTriple(v, y) ==
  [v EXCEPT !.sel = [x0 |-> 0, y0 |-> FirstOf(v, y), x1 |-> Len(RowCells(v, y)),
                     y1 |-> LastOf(v, y), valid |-> TRUE]]

SelectAll(v) ==
  [v EXCEPT !.sel = [x0 |-> 0, y0 |-> 0, x1 |-> 0, y1 |-> Len(Rows(v)), valid |-> TRUE]]

\* The span with its ends in order.
Ordered(s) ==
  IF s.y0 > s.y1 \/ (s.y0 = s.y1 /\ s.x0 > s.x1)
  THEN [s EXCEPT !.x0 = s.x1, !.y0 = s.y1, !.x1 = s.x0, !.y1 = s.y0] ELSE s

IsCharInSelectionSpan(s, x, y) ==
  /\ s.valid
  /\ y \in s.y0 .. s.y1
  /\ y = s.y0 => x >= s.x0
  /\ y = s.y1 => x < s.x1

\* What Copy takes: the selected part of each row without its blanks at the end, rows that
\* belong together joined.
GetSelection(v) ==
  LET s == Ordered(v.sel)
      nlines == Len(Rows(v)) - BlankLines(v.lines)
      taken(y) == LET cells == Trimmed(RowCells(v, y))
                      whole == y \in s.y0 + 1 .. s.y1 - 1
                      chars == [i \in DOMAIN cells |-> IF whole \/ IsCharInSelectionSpan(s, i - 1, y)
                                                       THEN cells[i].c ELSE ""]
                  IN  SelectSeq(chars, LAMBDA c : c # "")
      Joined(out, y) == IF y > s.y0 /\ Rows(v)[y].more
                        THEN [out EXCEPT ![Len(out)] = @ \o taken(y)] ELSE Append(out, taken(y))
      ys == <<s.y0>> \o [i \in 1 .. Max({0, Min({s.y1, nlines - 1}) - s.y0}) |-> s.y0 + i]
  IN  IF s.x0 = s.x1 /\ s.y0 = s.y1 THEN <<>> ELSE FoldLeft(Joined, <<>>, ys)
=============================================================================
