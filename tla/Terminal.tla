------------------------------ MODULE Terminal ------------------------------
(***************************************************************************)
(* One terminal tab's screen while the device prints on it and the user     *)
(* resizes, selects, types and sets modes.  Every step holds mLockVt in the *)
(* source, but for the mode dialog, which calls the handlers without it and *)
(* is taken here between two batches.                                       *)
(*                                                                         *)
(* A scenario is a terminal of some size with the batches of sequences the  *)
(* receiver hands to RenderSeqs, and the things the user does meanwhile:    *)
(* sizes, places of the pointer, keys, and the bound on how many things     *)
(* happen.  It is fixed for a behaviour.                                    *)
(***************************************************************************)
EXTENDS VtTerminals

CONSTANT Scenarios      \* the records an Init may choose from

\* The functions whose parameters are texts or names; those of the others are numbers.
Worded ==
  {"TEXT", "XTOSC", "G0_CS", "G1_CS", "G2_CS", "G3_CS", "G1_CS96", "G2_CS96", "G3_CS96"}
\* A sequence of anything: s \in Seq(S) for some S.
SomeSeq(s) == Len(s) \in Nat /\ s = [i \in 1 .. Len(s) |-> s[i]]
\* What the parser hands on: a missing parameter is a zero, so that there is always one.
Parsed(s) == IF s.f \in Worded THEN SomeSeq(s.p) ELSE s.p \in Seq(Nat) /\ Len(s.p) > 0

\* A window has at least one cell, and no history is longer than the greatest bound of it.
ASSUME ScenarioAssumption ==
  \A s \in Scenarios :
    /\ s.cx \in Nat /\ s.cx > 0 /\ s.cy \in Nat /\ s.cy > 0 /\ s.limit \in Nat
    /\ \A l \in s.limits : l \in Nat /\ l <= s.limit
    /\ \A z \in s.sizes : z[1] \in Int /\ z[2] \in Int
    /\ \A b \in s.batches \union {s.prologue} : SomeSeq(b) /\ \A i \in DOMAIN b : Parsed(b[i])

\* No line is shifted out of the narrowest window, where ProcessSL of the source would
\* erase past the end of a vector.
ASSUME ShiftAssumption ==
  \A s \in Scenarios : \A b \in s.batches \union {s.prologue} : \A i \in DOMAIN b :
    b[i].f = "SL" => LET n == Pn(b[i].p, 1)
                     IN  n <= s.cx /\ \A z \in s.sizes : n <= z[1]

VARIABLES vt,           \* the screen
          sc,           \* the scenario
          steps,        \* how many things have happened
          printed,      \* what has been printed: lines of characters
          did           \* the last step: <<"render", f>> with the function of a single sequence,
                        \* <<"double", x, y>>, <<"resize">> or <<"other">>
vars == <<vt, sc, steps, printed, did>>

----------------------------------------------------------------------------
\* A sequence of a batch: text, or a function with its parameters.
Handled(v, s) ==
  IF s.f = "TEXT" THEN RenderText(v, [i \in DOMAIN s.p |-> RemapCharacter(v, s.p[i])])
  ELSE ProcessControlSeq(v, s.f, s.p)
Tidied(v, f) == ProcessOverflowChars(Ecma48OverflowLines(v, f))
RenderSeq(v, s) == Synced(v, Followed(v, Tidied(Handled(v, s), s.f)))

\* The lines the text of a batch makes, for the batches whose functions are CR and LF.
PrintedBy(lines, s) ==
  CASE s.f = "TEXT" -> [lines EXCEPT ![Len(lines)] = @ \o s.p]
    [] s.f = "LF" -> Append(lines, <<>>)
    [] OTHER -> lines

----------------------------------------------------------------------------
Init ==
  /\ sc \in Scenarios
  /\ \E selective \in BOOLEAN :
       vt = FoldLeft(RenderSeq, Fresh(sc.term, sc.cx, sc.cy, sc.limit, selective), sc.prologue)
  /\ printed = FoldLeft(PrintedBy, <<<<>>>>, sc.prologue)
  /\ steps = 0 /\ did = <<"other">>

Did(v) == steps < sc.depth /\ steps' = steps + 1 /\ vt' = v /\ UNCHANGED sc
Quiet(v) == Did(v) /\ did' = <<"other">> /\ UNCHANGED printed
Now == [vt EXCEPT !.out = <<>>]

RenderSeqs(b) ==
  /\ Did(FoldLeft(RenderSeq, Now, b))
  /\ printed' = IF sc.prints THEN FoldLeft(PrintedBy, printed, b) ELSE printed
  /\ did' = <<"render", IF Len(b) = 1 THEN b[1].f ELSE "">>

Resize(cx, cy) == Did(Layout(Now, cx, cy)) /\ did' = <<"resize">> /\ UNCHANGED printed
Options(limit, font) == Quiet(ShowVTOptions(Now, limit, font, vt.cx, vt.cy))
Clear == Quiet(ClearVt(Now))
SetMode2(m, on) == Quiet(IF on THEN ProcessDECSM(Now, <<m>>) ELSE ProcessDECRM(Now, <<m>>))

\* The pointer is over a row of screen and history; an xterm, which reports the place
\* within the window, shows the screen.
Over(x, y) ==
  /\ y < Len(Rows(vt))
  /\ x <= Max({Len(RowCells(vt, y)) - 1, 0})
  /\ IsXterm(vt) => y >= Len(vt.hist)
Press(x, y, right) ==
  /\ Over(x, y)
  /\ Quiet(LeftDown(ButtonDown(Now, 0, x, y - Len(vt.hist)), x, y, right))
PressOther(button, x, y) == Over(x, y) /\ Quiet(ButtonDown(Now, button, x, y - Len(vt.hist)))
Drag(x, y, right) == Over(x, y) /\ vt.pressed /\ Quiet(MouseMove(Now, x, y, right))
Release(x, y) == Over(x, y) /\ Quiet(LeftUp(ButtonUp(Now, x, y - Len(vt.hist))))
Double(x, y) ==
  /\ Over(x, y)
  /\ Did(LeftDouble(Now, x, y))
  /\ did' = <<"double", x, y>> /\ UNCHANGED printed
Triple(y) == Over(0, y) /\ Quiet(LeftTriple(Now, y))
All == Quiet(SelectAll(Now))
Wheeled(up, x, y) == Over(x, y) /\ Quiet(Wheel(Now, up, x, y - Len(vt.hist)))
FocusTurned(got) == Quiet(Focus(Now, got))

KeyDown(key) == Quiet(ProcessKeyDown(Now, key))
Char(c) == Quiet(ProcessChar(Now, c))

Selecting ==
  \E x, y \in sc.pointer, right \in BOOLEAN :
    \/ Press(x, y, right) \/ Drag(x, y, right)
    \/ ~right /\ Release(x, y)
Clicking == \E x, y \in sc.pointer : Double(x, y)
Pasting == Quiet(Paste(Now))
Reporting ==
  \/ \E x, y \in sc.pointer : PressOther(1, x, y) \/ Wheeled(TRUE, x, y) \/ Wheeled(FALSE, x, y)
  \/ \E got \in BOOLEAN : FocusTurned(got)
  \/ Pasting
Next ==
  \/ \E b \in sc.batches : RenderSeqs(b)
  \/ \E s \in sc.sizes : Resize(s[1], s[2])
  \/ \E l \in sc.limits, font \in sc.fonts : Options(l, font)
  \/ sc.clears /\ Clear
  \/ \E m \in sc.modes, on \in BOOLEAN : m \in DOMAIN vt.decp /\ SetMode2(m, on)
  \/ sc.selects /\ (Selecting \/ All \/ \E y \in sc.pointer : Triple(y))
  \/ sc.clicks /\ Clicking
  \/ sc.reports /\ Reporting
  \/ \E k \in sc.keys : KeyDown(k)
  \/ \E c \in sc.chars : Char(c)
Spec == Init /\ [][Next]_vars

----------------------------------------------------------------------------
(* The shape. *)

Sized(v) ==
  /\ Len(v.lines) = v.cy
  /\ \A j \in DOMAIN v.lines : Len(v.lines[j].cells) >= v.cx
  /\ Len(v.hist) <= sc.limit
RegionWithin(v) == (v.top = 0 /\ v.bot = -1) \/ (0 <= v.top /\ v.top < v.bot /\ v.bot < v.cy)

\* The screen has as many lines as the window has rows, none of them shorter than the
\* window is wide, a scrolling region on them, and a history within the greatest limit it
\* ever had, after any sequence and any resize: every handler indexes the lines on that
\* assumption.  A history longer than a lowered limit stays as long as it is: every line
\* that comes replaces one, and only a change of the font cuts it.
ScreenShape == Sized(vt) /\ RegionWithin(vt)

\* "fix vx/vy" (SerialConnVT.cpp:381): after each sequence the cursor is on a cell, since
\* the handlers index mLines[mVy] and its cells without a check.
CursorOnCell ==
  /\ vt.vy \in 0 .. Len(vt.lines) - 1
  /\ vt.vx \in 0 .. Len(CellsAt(vt, vt.vy)) - 1

\* The same but for the last line: a cursor moved below it comes back to it in a column it
\* may not have.  On every other line the cursor is on a cell.  It is so as long as no
\* saved cursor is brought back to a screen that has lost its row.
CursorOnLine ==
  /\ vt.vy \in 0 .. Len(vt.lines) - 1
  /\ vt.vx >= 0
  /\ vt.vy < Len(vt.lines) - 1 => vt.vx < Len(CellsAt(vt, vt.vy))

----------------------------------------------------------------------------
(* Text. *)

NewLineMark == "NL"
Flat(lines) == IF lines = <<>> THEN <<>>
               ELSE FoldLeft(LAMBDA out, l : out \o <<NewLineMark>> \o l, Head(lines), Tail(lines))
UpToLastChar(chars) == SubSeq(chars, 1, Len(chars) - RunAtEnd(chars, LAMBDA c : c = NewLineMark))
SelectedText(v) == UpToLastChar(Flat(GetSelection(v)))
TextIn(v, lines) == SelectedText(
  [v EXCEPT !.lines = lines, !.hist = <<>>,
             !.sel = [x0 |-> 0, y0 |-> 0, x1 |-> 0, y1 |-> Len(lines), valid |-> TRUE]])
Text(v) == TextIn(v, Rows(v))

\* The rows "select all" and "copy" take, with a mark before each that begins a line.
RowText(v, y) ==
  LET row == GetSelection([v EXCEPT !.sel = [x0 |-> 0, y0 |-> y, x1 |-> 0, y1 |-> y + 1, valid |-> TRUE]])
  IN  IF row = <<>> THEN <<>> ELSE row[1]
RowTexts(v) ==
  [y \in 1 .. Len(Rows(v)) - BlankLines(v.lines) |->
     (IF y = 1 \/ Rows(v)[y - 1].more THEN <<>> ELSE <<NewLineMark>>) \o RowText(v, y - 1)]
IsBlank(c) == c = Blank.c
\* The places of a text where a row can end that begins in one of the places `from`, the
\* blanks at the end of the row before it left out.
EndsOf(text, from, row) ==
  {q \in 0 .. Len(text) : \E p \in from :
     /\ p + Len(row) <= q
     /\ SubSeq(text, q - Len(row) + 1, q) = row
     /\ \A i \in p + 1 .. q - Len(row) : IsBlank(text[i])}
\* The rows are the text, from one of the places `from` to its last character.
RowsAreText(rows, text, from) ==
  \E q \in FoldLeft(LAMBDA at, row : EndsOf(text, at, row), from, rows) :
    \A i \in q + 1 .. Len(text) : IsBlank(text[i]) \/ text[i] = NewLineMark

\* What "select all" and "copy" take is what the device has printed, line by line, however
\* the lines were wrapped, scrolled into the history and brought back by a larger window;
\* once the history has been full, the last of it.  Only blanks at the end of a row are
\* missing, also of a row that the next one continues: "a b" wrapped after its blank is
\* copied as "ab".
PrintedIsShown ==
  sc.prints =>
    LET text == Flat(printed)
        from == IF Len(text) < sc.limit THEN {0} ELSE 0 .. Len(text)
    IN  /\ RowsAreText(RowTexts(vt), text, from)
        /\ Text(vt) = UpToLastChar(FlattenSeq(RowTexts(vt)))

CursorRow(v) == Len(v.hist) + v.vy
\* A resize of the window keeps all the text, and the cursor stays on its line of text, or
\* on the first line shown if that one has left the screen.
ResizeKeepsText ==
  [][did' = <<"resize">> /\ Len(vt.hist) + vt.cy <= vt.limit =>
       /\ Text(vt') = Text(vt)
       /\ Trimmed(CellsAt(vt, vt.vy)) # <<>> =>
            CursorRow(vt') = Max({CursorRow(vt), Len(vt'.hist)})]_vars

\* A selection covers the same text while the device prints below it: lines leave the
\* top of the history, and so the selection's beginning, but it never slips to others,
\* also when the user has changed the limit of the history.  A change of the font is left
\* out: it cuts the history and leaves the selection's rows where they were.
SelectionFollowsText ==
  [][(sc.follows /\ did'[1] = "render" /\ vt.sel.valid /\ vt'.sel.valid) =>
       IsSuffix(SelectedText(vt'), SelectedText(vt))]_vars

----------------------------------------------------------------------------
(* The scrolling region and the alternate screen. *)

Scrolling == {"LF", "FF", "VT", "NEL", "DECIND", "RI", "IL", "DL", "SU", "SD"}
OutsideRegion(v) == {j \in DOMAIN v.lines : v.bot >= 0 /\ (j - 1 < v.top \/ j - 1 > v.bot)}
\* Whatever scrolls, scrolls the region: the lines outside stay as they are.
OutsideRegionKept ==
  [][(did'[1] = "render" /\ did'[2] \in Scrolling) =>
       \A j \in OutsideRegion(vt) : vt'.lines[j] = vt.lines[j]]_vars

\* A step from the alternate screen to the alternate screen leaves the main one as it is.
MainUntouched == OnAlternate(vt) /\ OnAlternate(vt') => vt'.alt = vt.alt

\* Nothing that happens while the alternate screen is shown touches the main one, and
\* whichever of the three modes leaves it brings the main screen's text back, as much of
\* it as the history holds.
AlternateKept ==
  [][/\ MainUntouched
     /\ /\ OnAlternate(vt) /\ ~OnAlternate(vt')
        /\ Len(vt.alt.hist) + Len(vt.alt.lines) <= vt.limit
        => Text(vt') = TextIn(vt, vt.alt.hist \o vt.alt.lines)]_vars

----------------------------------------------------------------------------
\* The cells a word can be in: those of the rows that belong together.
WordCells(v, y) ==
  {c \in (FirstOf(v, y) .. LastOf(v, y)) \X (0 .. v.cx - 1) : c[2] < Len(RowCells(v, c[1]))}
Beyond(a, b) == a[1] > b[1] \/ (a[1] = b[1] /\ a[2] > b[2])
\* Cell c belongs to the word at the pointer: no cell from one to the other is blank.
InWord(v, at, c) ==
  \A d \in WordCells(v, at[1]) :
    ~(Beyond(d, at) /\ Beyond(d, c)) /\ ~(Beyond(at, d) /\ Beyond(c, d))
      => ~IsSpace(RowCells(v, d[1])[d[2] + 1])
Word(v, at) == {c \in WordCells(v, at[1]) : InWord(v, at, c)}
WordText(v, at) ==
  [i \in 1..Cardinality(Word(v, at)) |->
     LET c == CHOOSE c \in Word(v, at) : Cardinality({d \in Word(v, at) : Beyond(c, d)}) = i - 1
     IN  RowCells(v, c[1])[c[2] + 1].c]

\* "Select the word under the caret" (SerialConnVT.cpp:1109): a double click on a word takes
\* the whole word and nothing else, also where the window's width breaks it.
DoubleClickTakesWord ==
  did[1] = "double" =>
    LET at == <<did[3], did[2]>>
    IN  at \in WordCells(vt, at[1]) /\ at \in Word(vt, at) => SelectedText(vt) = WordText(vt, at)
=============================================================================
