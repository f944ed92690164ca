------------------------------- MODULE RawText -------------------------------
(***************************************************************************)
(* The conversions of what is typed into the raw terminal                  *)
(* (xterminal/connimpls/SerialConnRaw.cpp): text to hexadecimal and back,  *)
(* escape sequences, line breaks.  A text is a sequence of character       *)
(* codes, bytes are a sequence of numbers below 256.                       *)
(***************************************************************************)
LOCAL INSTANCE Integers
LOCAL INSTANCE Sequences
LOCAL INSTANCE SequencesExt

CR == 13
LF == 10
Backslash == 92

Digits == 48 .. 57
UpperHex == 65 .. 70
LowerHex == 97 .. 102

IsCharInHex(c) == c \in Digits \cup UpperHex \cup LowerHex

HexValue(c) == CASE c \in Digits   -> c - 48
                 [] c \in UpperHex -> c - 55
                 [] c \in LowerHex -> c - 87

HexDigit(n) == IF n < 10 THEN n + 48 ELSE n + 87

(* What ToHex_ does with one character: acc.sn counts the digits of the    *)
(* byte being read, acc.hex is its value so far.  The -1 a separator       *)
(* leaves in hex reaches the byte when a single digit follows.             *)
HexStep(acc, c) ==
  IF IsCharInHex(c)
  THEN LET hex == (acc.hex * 16 + HexValue(c)) % 256
       IN  IF acc.sn = 1
           THEN [out |-> Append(acc.out, hex), sn |-> 0, hex |-> 0]
           ELSE [acc EXCEPT !.sn = 1, !.hex = hex]
  ELSE [out |-> IF acc.sn = 1 THEN Append(acc.out, acc.hex) ELSE acc.out,
        sn |-> 0, hex |-> 255]

ToHex_(text) ==
  LET end == FoldLeft(HexStep, [out |-> <<>>, sn |-> 0, hex |-> 0], text)
  IN  IF end.sn = 1 THEN Append(end.out, end.hex) ELSE end.out

(* Two digits for each byte, a space between two of them. *)
ToHexString_(b) ==
  [i \in 1 .. (IF b = <<>> THEN 0 ELSE 3 * Len(b) - 1) |->
     LET byte == b[(i + 2) \div 3]
     IN  CASE i % 3 = 1 -> HexDigit(byte \div 16)
           [] i % 3 = 2 -> HexDigit(byte % 16)
           [] i % 3 = 0 -> 32]

(* a b f n r t v e, in either case. *)
EscapeLetters == <<<<97, 7>>, <<98, 8>>, <<102, 12>>, <<110, 10>>, <<114, 13>>,
                   <<116, 9>>, <<118, 11>>, <<101, 27>>>>

(* What follows a backslash at rest[1]: the byte it stands for and how     *)
(* many characters it takes.  Anything else only loses its backslash.      *)
Escape(rest) ==
  LET c == rest[1]
      named == {i \in DOMAIN EscapeLetters :
                  c \in {EscapeLetters[i][1], EscapeLetters[i][1] - 32}}
  IN  CASE named # {} ->
             [byte |-> EscapeLetters[CHOOSE i \in named : TRUE][2], n |-> 1]
        [] /\ c \in Digits /\ Len(rest) >= 3
           /\ rest[2] \in Digits /\ rest[3] \in Digits ->
             [byte |-> ((c - 48) * 64 + (rest[2] - 48) * 8 + rest[3] - 48) % 256,
              n |-> 3]
        [] /\ c = 120 /\ Len(rest) >= 3
           /\ IsCharInHex(rest[2]) /\ IsCharInHex(rest[3]) ->
             [byte |-> ToHex_(<<rest[2], rest[3]>>)[1], n |-> 3]
        [] OTHER -> [byte |-> c, n |-> 1]

TranslateEscapeChars(text) ==
  LET from[k \in 1 .. Len(text) + 1] ==
        IF k > Len(text) THEN <<>>
        ELSE IF text[k] # Backslash \/ k = Len(text)
        THEN <<text[k]>> \o from[k + 1]
        ELSE LET e == Escape(SubSeq(text, k + 1, Len(text)))
             IN  <<e.byte>> \o from[k + 1 + e.n]
  IN  from[1]

LineBreaks == {<<CR>>, <<LF>>, <<CR, LF>>}

ReplaceLineBreak_PerChar(text, lb) ==
  FlattenSeq([i \in DOMAIN text |-> IF text[i] \in {CR, LF} THEN lb
                                                          ELSE <<text[i]>>])

(* CR LF, CR and LF all become the chosen line break. *)
ReplaceLineBreak_(text, lb) ==
  LET from[k \in 1 .. Len(text) + 1] ==
        IF k > Len(text) THEN <<>>
        ELSE IF k < Len(text) /\ text[k] = CR /\ text[k + 1] = LF
        THEN lb \o from[k + 2]
        ELSE (IF text[k] \in {CR, LF} THEN lb ELSE <<text[k]>>) \o from[k + 1]
  IN  from[1]
=============================================================================
