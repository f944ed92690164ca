--------------------------- MODULE MCControlParser ---------------------------
(***************************************************************************)
(* The parser, the dispatch and the codecs for TLC.  Alphabets small enough *)
(* to try every stream of MaxBytes; a behaviour exercises one scenario of   *)
(* SeqDispatch, or CodecStream, whose variables are its own.                *)
(***************************************************************************)
EXTENDS SeqDispatch

CONSTANTS MaxTyped

VARIABLES ends, typed, wire, codecTexts, shown

cvars == <<ends, typed, wire, codecTexts, shown>>

\* Characters of one to four bytes, and one UTF-8 cannot carry.
MixedChars == {97, 233, 8364, 128512, 1114112}

\* Up as a cursor key, an application key and in VT52 mode, and Escape by itself.
Keys == {<<27, 91, 65>>, <<27, 79, 65>>, <<27, 80>>, <<27>>}

\* 8-bit controls break UTF-8's own bytes (SerialConnVT220.cpp:123): there, ASCII only.
MCEnds == {
  [codec |-> "UTF-8", useS8C |-> FALSE, chars |-> MixedChars, keys |-> {}],
  [codec |-> "UTF-8", useS8C |-> TRUE, chars |-> {97}, keys |-> Keys],
  [codec |-> "Latin1", useS8C |-> TRUE, chars |-> {97, 233}, keys |-> Keys]}

Codec == INSTANCE CodecStream WITH Ends <- MCEnds, texts <- codecTexts

Scenario(terminal, useS8C, alphabet, maxBytes) ==
  [terminal |-> terminal, useS8C |-> useS8C, alphabet |-> alphabet, maxBytes |-> maxBytes]

Streams == {
  Scenario("vt100", FALSE, {"ESC", "[", "1", ";", "h", " ", "CR"}, 5),
  Scenario("vt100", FALSE, {"ESC", "(", "[", "CR", "DEL", "h"}, 5),
  Scenario("xterm", FALSE, {"ESC", "]", "(", "NUL", "DEL", "a", "xC3", "xA9"}, 4),
  Scenario("xterm", TRUE, {"x9B", "x80", "1", "m", "xE2", "["}, 4)}

\* Terminals whose types have numbers of their own, all their rows.
WholeTables ==
  {Scenario(t, FALSE, {}, 0) : t \in {"ecma48", "vt100", "ansi", "vt220", "vt320"}}

AllScenarios == Streams \cup WholeTables
XtermTable == {Scenario("xterm", FALSE, {}, 0)}

\* The codecs run beside no stream: one choice of ends is enough there.
MCInit ==
  /\ DispatchInit /\ Codec!Init
  /\ scenario.terminal # "ansi" => ends.codec = "Latin1"

MCNext ==
  \/ DispatchNext /\ typed = <<>> /\ UNCHANGED cvars
  \/ Codec!Next /\ scenario.terminal = "ansi" /\ next = 1 /\ UNCHANGED dvars

MCSpec == MCInit /\ [][MCNext]_<<dvars, cvars>>

ShownIsTyped == Codec!ShownIsTyped
==============================================================================
