------------------------------- MODULE Codecs -------------------------------
(***************************************************************************)
(* The text codecs (src/xterminal/Codec.h, codec/CodecUTF8.cpp and          *)
(* codec/CodecLatin1.cpp).  Bytes and code points are numbers.  A decoder   *)
(* returns the code points and ep, where it stopped: the bytes from there   *)
(* on are an unfinished character.  GB18030 is ICU's and is not modelled.   *)
(***************************************************************************)
EXTENDS Integers, Sequences, SequencesExt

Continues(b) == b \in 128..191

\* UTF32ToUTF8_: a code point UTF-8 cannot carry is sent as a question mark.
UTF32ToUTF8(cp) ==
  LET Low(shift) == 128 + ((cp \div shift) % 64)
  IN CASE cp \in 0..127 -> <<cp>>
       [] cp \in 128..2047 -> <<192 + (cp \div 64), Low(1)>>
       [] cp \in (2048..55295) \cup (57344..65535) -> <<224 + (cp \div 4096), Low(64), Low(1)>>
       [] cp \in 65536..1114111 -> <<240 + (cp \div 262144), Low(4096), Low(64), Low(1)>>
       [] OTHER -> <<63>>

\* How many bytes the character that begins with b has.
Width(b) == IF b >= 240 THEN 4 ELSE IF b >= 224 THEN 3 ELSE IF b >= 192 THEN 2 ELSE 1

\* The bits the first byte of a character of width n contributes.
LeadBits(b, n) == CASE n = 4 -> b % 8 [] n = 3 -> b % 16 [] n = 2 -> b % 32 [] n = 1 -> b

\* The mistake of not waiting for the rest of a character.
UTF8ToUTF32_Eager(s, p, out) ==
  [chars |-> out \o SubSeq(s, p + 1, Len(s)), ep |-> Len(s)]

\* The mistake of always waiting for four bytes.
UTF8ToUTF32_Late(s, p, out) ==
  IF Len(s) < 4 THEN [chars |-> out, ep |-> p] ELSE UTF8ToUTF32_Eager(s, p, out)

\* UTF8ToUTF32_: stop when a character's bytes are not all there; a byte that does not
\* begin a character becomes a code point of its own.
RECURSIVE UTF8ToUTF32(_, _, _)
UTF8ToUTF32(s, p, out) ==
  LET n == Width(s[p + 1])
      whole == \A i \in 2..n : Continues(s[p + i])
      used == IF whole THEN n ELSE 1
      bits == FoldLeft(LAMBDA acc, b : (acc * 64) + (b % 64), LeadBits(s[p + 1], n),
                       SubSeq(s, p + 2, p + n))
  IN IF p = Len(s) \/ Len(s) - p < n
     THEN [chars |-> out, ep |-> p]
     ELSE UTF8ToUTF32(s, p + used, Append(out, IF whole THEN bits ELSE s[p + 1]))

TranscodeToUTF32(codec, s) ==
  CASE codec = "UTF-8" -> UTF8ToUTF32(s, 0, <<>>)
    [] codec = "Latin1" -> [chars |-> s, ep |-> Len(s)]

TranscodeFromUTF32(codec, cps) ==
  CASE codec = "UTF-8" -> FlattenSeq([i \in DOMAIN cps |-> UTF32ToUTF8(cps[i])])
    [] codec = "Latin1" -> [i \in DOMAIN cps |-> cps[i] % 256]
=============================================================================
