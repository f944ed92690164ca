---------------------------- MODULE CodecStream ----------------------------
(***************************************************************************)
(* Keys typed at one end of a connection and shown at the other: each is    *)
(* encoded and put, with 8-bit controls if the terminal uses them, the bytes *)
(* arrive in the pieces the reads happen to return, and RxProc brings the   *)
(* controls back to 7 bits and decodes each piece, keeping the unfinished   *)
(* character in texts.  Controls count as characters: ControlParser cuts    *)
(* them out.                                                                *)
(***************************************************************************)
EXTENDS Codecs, TLC

CONSTANTS
  Ends,          \* what both ends may be: records [codec, useS8C, chars, keys], the last
                 \* the code points typed and what the function keys put
  MaxTyped       \* bound on keys

VARIABLES
  ends,          \* which they are
  typed,         \* history: the code points typed
  wire,          \* bytes written and not yet read
  texts,         \* RxProc's texts: an unfinished character
  shown          \* history: the code points put in mSeqs

vars == <<ends, typed, wire, texts, shown>>

Init == ends \in Ends /\ typed = <<>> /\ wire = <<>> /\ texts = <<>> /\ shown = <<>>

----------------------------------------------------------------------------
(* 8-bit controls: the byte 64 above the one that follows ESC. *)

ESC == 27
C1Finals == (68..87) \cup (90..95)

\* The ESC before a byte that makes no control is lost.
S7CToS8C(s) ==
  LET Step(acc, b) ==
        CASE acc.esc -> [out |-> Append(acc.out, IF b \in C1Finals THEN b + 64 ELSE b), esc |-> FALSE]
          [] ~acc.esc /\ b = ESC -> [acc EXCEPT !.esc = TRUE]
          [] OTHER -> [acc EXCEPT !.out = Append(@, b)]
      end == FoldLeft(Step, [out |-> <<>>, esc |-> FALSE], s)
  IN  IF end.esc THEN Append(end.out, ESC) ELSE end.out

S8CToS7C(s) ==
  LET Seven(b) == IF b \notin 128..159 THEN <<b>>
                  ELSE IF b - 64 \in C1Finals THEN <<ESC, b - 64>> ELSE <<>>
  IN  FlattenSeq([i \in DOMAIN s |-> Seven(s[i])])

Put(s) == wire' = wire \o (IF ends.useS8C THEN S7CToS8C(s) ELSE s)
RefineTheInput(s) == IF ends.useS8C THEN S8CToS7C(s) ELSE s

Typing(codes) ==
  /\ Len(typed) < MaxTyped
  /\ typed' = typed \o codes
  /\ UNCHANGED <<ends, texts, shown>>

\* The mistake of writing the low byte of every character.
ProcessChar_LowByte(cc) == Typing(<<cc>>) /\ Put(<<cc % 256>>)

ProcessChar(cc) ==
  Typing(<<cc>>) /\ Put(IF cc < 128 THEN <<cc>> ELSE TranscodeFromUTF32(ends.codec, <<cc>>))

\* What a terminal's ProcessKeyDown puts for a function key.
ProcessKeyDown(key) == Typing(key) /\ Put(key)

\* The mistake of starting each round with no text.
RxText_Forgetful(n) ==
  LET d == TranscodeToUTF32(ends.codec, RefineTheInput(SubSeq(wire, 1, n)))
  IN /\ n <= Len(wire)
     /\ wire' = SubSeq(wire, n + 1, Len(wire))
     /\ texts' = <<>>
     /\ shown' = shown \o d.chars
     /\ UNCHANGED <<ends, typed>>

\* A round of RxProc that reads n bytes.
RxText(n) ==
  LET text == texts \o RefineTheInput(SubSeq(wire, 1, n))
      d == TranscodeToUTF32(ends.codec, text)
  IN /\ n <= Len(wire)
     /\ wire' = SubSeq(wire, n + 1, Len(wire))
     /\ texts' = SubSeq(text, d.ep + 1, Len(text))
     /\ shown' = shown \o d.chars
     /\ UNCHANGED <<ends, typed>>

Next ==
  \/ \E cc \in ends.chars : ProcessChar(cc)
  \/ \E key \in ends.keys : ProcessKeyDown(key)
  \/ \E n \in 1..4 : RxText(n)

Spec == Init /\ [][Next]_vars

----------------------------------------------------------------------------
(* Properties. *)

\* What a code point the codec cannot carry becomes.
Carried(cp) == IF UTF32ToUTF8(cp) = <<63>> THEN 63 ELSE cp

\* The other end shows what was typed, function keys and all, in order, wherever the reads cut the characters,
\* and when everything has been read it has shown all of it.
ShownIsTyped ==
  LET expected == [i \in DOMAIN typed |-> Carried(typed[i])]
  IN IsPrefix(shown, expected) /\ (wire = <<>> => shown = expected /\ texts = <<>>)
=============================================================================
