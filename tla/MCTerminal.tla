----------------------------- MODULE MCTerminal -----------------------------
(***************************************************************************)
(* The scenarios: small screens, one per question, each with the sequences  *)
(* and the user's doings that bear on it.                                   *)
(***************************************************************************)
EXTENDS Terminal

T(chars) == [f |-> "TEXT", p |-> chars]
F(f, p) == [f |-> f, p |-> p]
NL == <<F("CR", <<0>>), F("LF", <<0>>)>>
\* Batches of one sequence each: a function with some parameter lists.
Each(fs, ps) == {<<F(f, p)>> : f \in fs, p \in ps}

Scenario(term, cx, cy, depth, batches) ==
  [term |-> term, cx |-> cx, cy |-> cy, depth |-> depth, batches |-> batches,
   limit |-> 3, prologue |-> <<>>, prints |-> FALSE, follows |-> FALSE, clears |-> FALSE,
   selects |-> FALSE, clicks |-> FALSE, reports |-> FALSE, sizes |-> {}, limits |-> {}, fonts |-> BOOLEAN,
   modes |-> {}, pointer |-> {}, keys |-> {}, chars |-> {}]

\* Text and new lines only, the window never losing a row: whatever is printed is shown,
\* but for blanks at the end of a row (the text has one where a row may end).
Printing(limit, sizes) ==
  [Scenario("vt100", 2, 2, 5, {<<T(<<"a">>)>>, <<T(<<"b", " ", "d">>)>>, NL, NL \o <<T(<<"e">>)>>})
     EXCEPT !.prints = TRUE, !.limit = limit, !.sizes = sizes]
Narrower == {<<3, 2>>, <<1, 2>>, <<2, 2>>}
Higher == {<<2, 4>>, <<3, 4>>}

Lines(chars) == NL \o <<T(chars)>>
Page == <<T(<<"a", "b", "c">>)>> \o Lines(<<"d">>) \o Lines(<<"e", "f">>)

\* A screen that is full, a history that overflows or has a new limit, and a selection in them.
Selected ==
  [Scenario("vt100", 2, 2, 6, {NL, Lines(<<"x">>)})
     EXCEPT !.limit = 2, !.prologue = Page, !.follows = TRUE, !.selects = TRUE, !.pointer = {0, 1},
            !.limits = {1, 2}, !.fonts = {FALSE}]

\* Every function that scrolls, with and without a region, wherever the cursor is.
Regions(prologue) ==
  [Scenario("xterm", 2, 4, 3,
            Each({"LF", "NEL", "DECIND", "RI"}, {<<0>>}) \union Each({"IL", "DL", "SU", "SD"}, {<<1>>, <<3>>})
              \union Each({"CUP"}, {<<1, 1>>, <<4, 2>>, <<3, 9>>}) \union Each({"CUD", "CUU"}, {<<1>>, <<9>>})
              \union Each({"DECSTBM"}, {<<2, 3>>, <<1, 3>>, <<3, 9>>}) \union {<<T(<<"x", "y", "z">>)>>})
     EXCEPT !.prologue = Page \o Lines(<<"g">>) \o prologue, !.modes = {DECOM, DECAWM}]

\* The alternate screen, by each of its modes, with a history on either screen.
Alternating ==
  [Scenario("xterm", 2, 2, 4,
            Each({"DECSM", "DECRM"}, {<<47>>, <<1047>>, <<1049>>}) \union {<<T(<<"x">>)>>, Lines(<<"y", "z", "w">>)}
              \union Each({"RIS"}, {<<0>>}))
     EXCEPT !.prologue = Page, !.limit = 6, !.sizes = {<<3, 3>>, <<1, 1>>}, !.clears = TRUE]

\* A window that changes its size below text of any shape: in one direction at a time, for
\* a narrower window that loses rows as well may read past the cursor's line (MCTerminalCursor).
Resizing(sizes) ==
  [Scenario("xterm", 3, 2, 4,
            {<<T(<<"x">>)>>, Lines(<<Wide, "y">>), NL} \union Each({"CUP"}, {<<1, 1>>, <<2, 3>>})
              \union Each({"DECSTBM"}, {<<1, 2>>}) \union Each({"ED"}, {<<0>>}))
     EXCEPT !.prologue = Page, !.limit = 9, !.sizes = sizes, !.limits = {2, 9}, !.clears = TRUE]

\* Every function of a terminal, and one more after it.
Plain == {"BS", "HT", "LF", "FF", "CR", "CCH", "HTS", "VTS", "NEL", "RI", "RIS", "SI", "SO", "SS2", "LS3", "LS1R", "DECIND",
          "DECALN", "DECSC", "DECRC", "S8C1T", "S7C1T", "DECST8C", "DECSTR", "XTVERSION",
          "ANSI_SCP", "ANSI_RCP"}
Counted == {"CBT", "CHA", "CHT", "CNL", "CPL", "CUB", "CUD", "CUF", "CUU", "CVT", "DCH", "DL", "ECH", "HPA", "HPB",
            "HPR", "ICH", "IL", "SD", "SL", "SLH", "SR", "SU", "VPA", "VPB", "VPR", "DECDC", "SGR"}
Selective == {"ED", "EL", "DECSED", "DECSEL", "DECSCA", "DA", "SecondaryDA", "TertiaryDA"}
Functions(term) ==
  [Scenario(term, 3, 2, 2,
            Each(Plain, {<<0>>}) \union Each(Counted, {<<2>>}) \union Each(Selective, {<<0>>, <<1>>, <<2>>})
              \union Each({"SM", "RM"}, {<<LNM>>}) \union Each({"CTC"}, {<<0>>, <<2>>, <<3>>, <<4>>, <<6>>})
              \union Each({"DSR", "DECDSR", "DECRQM", "ANSIRQM"}, {<<5>>, <<6>>}) \union Each({"REP"}, {<<1>>})
              \union Each({"G0_CS", "G1_CS", "G2_CS"}, {<<"0">>, <<"A">>, <<"<">>, <<"4">>, <<"%=">>})
              \union Each({"G1_CS96"}, {<<"A">>, <<"H">>, <<"0">>}) \union {<<T(<<"q", "#", "times">>)>>}
              \union Each({"DTA", "CUP"}, {<<1, 2>>}) \union Each({"DECSCL"}, {<<61>>, <<65, 1>>, <<1, 65>>})
              \union Each({"DECSM", "DECRM"}, {<<DECSCNM>>, <<DECOM>>, <<DECAWM>>, <<DECTCEM>>})
              \union Each({"SGR"}, {<<1, 31>>, <<38, 5, 9>>, <<48, 2, 1, 2, 3>>, <<0>>}) \union Each({"XTWINOPS"}, {<<18>>})
              \union Each({"XTOSC"}, {<<3, "allowColorOps=1">>, <<10, "?">>, <<11, "blue">>, <<110, "">>})
              \union Each({"DECAC"}, {<<1, 3, 4>>}))
     EXCEPT !.prologue = Page]

\* What a user's doings send.
Typing(term) ==
  [Scenario(term, 2, 2, 3,
            Each({"DECSM", "DECRM"}, {<<DECCKM>>, <<SendXyOnPress>>, <<SendXyOnPressAndRelease>>,
                                      <<EnableSGRMouseMode>>, <<SendFocusInAndOut>>, <<SetBracketedPasteMode>>})
              \union Each({"SM"}, {<<SRM>>}))
     EXCEPT !.reports = TRUE, !.selects = TRUE, !.pointer = {0}, !.keys = {"Up", "F6", "Home", "Backspace", "Escape"},
            !.chars = {"k"}]

\* A double click on words that rows break.
Clicked ==
  [Scenario("vt100", 3, 2, 4, {<<T(<<"a">>)>>, <<T(<<"b", "c">>)>>, <<T(<<" ">>)>>, NL})
     EXCEPT !.clicks = TRUE, !.pointer = 0..2]

\* A cursor sent below the last line from the end of a longer one.
Below ==
  [Scenario("vt100", 3, 2, 4, {<<T(<<"a">>)>>, <<F("CUD", <<9>>)>>}) EXCEPT !.sizes = {<<2, 2>>}]

\* A cursor saved in a row that the window then loses.  It takes a step more than Below.
Restored ==
  [Scenario("vt100", 2, 3, 5, {<<F("CUD", <<1>>)>>, <<F("DECSC", <<0>>)>>, <<F("DECRC", <<0>>)>>})
     EXCEPT !.sizes = {<<2, 2>>}]

MCScenarios ==
  {Printing(2, Narrower), Printing(2, Higher), Printing(20, Narrower), Printing(20, Higher), Selected,
   Regions(<<>>), Regions(<<F("DECSTBM", <<2, 3>>)>>), Alternating,
   Resizing({<<3, 1>>, <<3, 3>>, <<3, 4>>}), Resizing({<<1, 2>>, <<5, 2>>, <<0, 2>>}), Clicked}
    \union {Functions(term) : term \in Terminals} \union {Typing(term) : term \in {"vt100", "xterm"}}
CursorScenarios == {Below, Restored}
ClickScenarios == {Clicked}
=============================================================================
