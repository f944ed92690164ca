--------------------------- MODULE ControlParser ---------------------------
(***************************************************************************)
(* The receiver's parser: ControlSeqFactory::IsControlSeq over the table of *)
(* a terminal, and the loop of SerialConnVT::RxProc that cuts the bytes     *)
(* read into texts and control sequences and keeps an unfinished tail for   *)
(* the next read.  Threads and posting are VtConn's subject: here a round   *)
(* of RxProc is one step, whatever the reads return.                        *)
(*                                                                         *)
(* Positions count the bytes before them, as in the source.                 *)
(***************************************************************************)
EXTENDS ControlSeqs, FiniteSets, FiniteSetsExt, Codecs

CONSTANTS
  Scenarios,     \* what is tried: records [terminal, useS8C, alphabet, maxBytes], the
                 \* last being the bytes the host sends and how many
  MaxChunk       \* how many a read returns at most

ASSUME ParserAssumption ==
  /\ \A s \in Scenarios : s.useS8C \in BOOLEAN /\ s.terminal \in Terminals
  /\ \A s \in Scenarios : s.maxBytes \in Nat
  /\ MaxChunk \in Nat \ {0}

VARIABLES
  scenario,      \* the terminal, mUseS8C, and the bytes sent
  heard,         \* history: every byte read, but for NUL and what a DEL dropped
  raw,           \* RxProc's raw: bytes not yet cut
  texts,         \* RxProc's texts: an unfinished character
  seqs           \* history: what was put in mSeqs, a text as its characters

vars == <<scenario, heard, raw, texts, seqs>>

----------------------------------------------------------------------------
(* Bytes. *)

Ascii == <<SP, "!", QT, "#", "$", "%", "&", "'", "(", ")", "*", "+", ",", "-", ".", "/",
  "0", "1", "2", "3", "4", "5", "6", "7", "8", "9", ":", ";", "<", "=", ">", "?",
  "@", "A", "B", "C", "D", "E", "F", "G", "H", "I", "J", "K", "L", "M", "N", "O",
  "P", "Q", "R", "S", "T", "U", "V", "W", "X", "Y", "Z", "[", "\\", "]", "^", "_",
  GR, "a", "b", "c", "d", "e", "f", "g", "h", "i", "j", "k", "l", "m", "n", "o",
  "p", "q", "r", "s", "t", "u", "v", "w", "x", "y", "z", "{", "|", "}", "~", "DEL">>

C0Bytes == SubSeq(Ecma48SeqType, 1, 32)
HighBytes == [x80 |-> 128, x84 |-> 132, x8F |-> 143, x9B |-> 155, xA9 |-> 169, xC3 |-> 195,
              xE2 |-> 226, xF0 |-> 240]

\* The number of a byte.
Ord ==
  [b \in ToSet(C0Bytes) |-> (CHOOSE i \in DOMAIN C0Bytes : C0Bytes[i] = b) - 1]
  @@ [b \in ToSet(Ascii) |-> 31 + CHOOSE i \in DOMAIN Ascii : Ascii[i] = b]
  @@ HighBytes

Digits == {"0", "1", "2", "3", "4", "5", "6", "7", "8", "9"}
C0Set == ToSet(C0Bytes)
IsC0(b) == b \in C0Set

----------------------------------------------------------------------------
(* Parameters: where they end, Wait when the input ends first, Bad.         *)

\* mSeqsFactory of a terminal: its rows in the order of registration, and every head,
\* with the place of its first row.
SeqsFactoryOf(table) ==
  LET With(h) == {i \in DOMAIN table : table[i].head = h}
  IN [rows |-> table,
      heads |-> {[bytes |-> h, rows |-> With(h), first |-> Min(With(h))] :
                 h \in {table[i].head : i \in DOMAIN table}}]

SeqsFactory == [t \in Terminals |-> SeqsFactoryOf(Table(t))]
Rows == SeqsFactory[scenario.terminal].rows
Wait == 0
Bad == -1

\* The end of the longest run of bytes of S from p on.
RunEnd(in, p, S) == Min({q \in p..Len(in) : q = Len(in) \/ in[q + 1] \notin S})
OrWait(in, q) == IF q = Len(in) THEN Wait ELSE q


\* ParsePn: n numbers with ';' between them, or any run of digits and ';' for n = 0.
ParsePn(in, p, n) ==
  LET Number1(q) == OrWait(in, RunEnd(in, q, Digits))
      After[k \in 1..n] ==
        IF k = 1 THEN Number1(p)
        ELSE LET q == After[k - 1]
             IN IF q \in {Wait, Bad} THEN q
                ELSE IF in[q + 1] # ";" THEN Bad
                ELSE IF q + 1 >= Len(in) THEN Wait ELSE Number1(q + 1)
  IN IF n > 0 THEN After[n] ELSE OrWait(in, RunEnd(in, p, Digits \cup {";"}))

\* ParseGs: anything but control characters.
ParseGs(in, p) == OrWait(in, RunEnd(in, p, {b \in ToSet(in) : ~IsC0(b) /\ b # "DEL"}))

\* ParseGn: n bytes.
ParseGn(in, p, n) == IF Len(in) - p < n THEN Wait ELSE p + n

ParamEnd(row, in, p) ==
  CASE row.ptyp \in {"Pn", "Ps"} -> ParsePn(in, p, row.pnum)
    [] row.ptyp = "Gs" -> ParseGs(in, p)
    [] row.ptyp = "Gn" -> ParseGn(in, p, row.pnum)
    [] row.ptyp = "No" -> p

----------------------------------------------------------------------------
(* IsControlSeq: the first row, in order of registration, that fits or that *)
(* may still fit.  A row whose head is shorter than one that matched before *)
(* it is passed over.                                                       *)

Heads == SeqsFactory[scenario.terminal].heads

Agrees_Any(t, in, p) == Min({Len(t), Len(in) - p})

\* How many bytes of the tail agree with the input from p on; '*' agrees with any.
Agrees(t, in, p) ==
  LET n == Min({Len(t), Len(in) - p})
  IN Max({k \in 0..n : \A i \in 1..k : in[p + i] = t[i] \/ t[i] = "*"})

\* What the parameters' end, ret, makes of a row whose head matched: i bytes of the tail
\* agree.
RowVerdict(row, in, ret, i) ==
  LET p == Len(row.head)
  IN CASE ret = Bad -> [is |-> "no", end |-> p]
       [] ret = Wait -> [is |-> "pending", end |-> p]
       [] ret > 0 /\ ret >= Len(in) /\ row.tail # <<>> -> [is |-> "pending", end |-> p]
       [] ret > 0 /\ i = Len(row.tail) ->
            [is |-> "match", end |-> ret + i, params |-> SubSeq(in, p + 1, ret)]
       [] ret > 0 /\ ret < Len(in) /\ i < Len(row.tail) /\ ret + i = Len(in) ->
            [is |-> "pending", end |-> p]
       [] OTHER -> [is |-> "no", end |-> ret + i]


TailVerdict(row, in, ret) == RowVerdict(row, in, ret, Agrees(row.tail, in, ret))

TryRow(row, in) == TailVerdict(row, in, ParamEnd(row, in, Len(row.head)))

\* The rows tried: those of a head that matched, up to the first one whose head needs more.
Tried(matched, firstWaiting) ==
  {i \in UNION {h.rows : h \in matched} :
     /\ i < firstWaiting
     /\ ~\E h \in matched : h.first < i /\ Len(h.bytes) > Len(Rows[i].head)}

\* The row that decides, the first that fits or waits.
Decided(i, r) ==
  IF r.is = "match" THEN [type |-> Rows[i].type, end |-> r.end, params |-> r.params]
  ELSE [type |-> "SEQ_PENDING", end |-> r.end]

\* The verdict of all the rows tried, given the verdict of each.
Verdict(in, result, waits) ==
  LET deciding == {i \in DOMAIN result : result[i].is # "no"}
  IN IF deciding # {} THEN Decided(Min(deciding), result[Min(deciding)])
     ELSE [type |-> IF waits THEN "SEQ_PENDING" ELSE "SEQ_NONE",
           end |-> IF result = <<>> THEN Len(in) ELSE result[Max(DOMAIN result)].end]

MatchAmong(in, matched, waiting) ==
  LET tried == Tried(matched, Min({h.first : h \in waiting} \cup {Len(Rows) + 1}))
  IN Verdict(in, [i \in tried |-> TryRow(Rows[i], in)], waiting # {})

IsControlSeqOf(in) ==
  MatchAmong(in, {h \in Heads : IsPrefix(h.bytes, in)},
             {h \in Heads : Len(in) < Len(h.bytes) /\ IsPrefix(in, h.bytes)})

\* SerialConnEcma48::IsControlSeq: a C0 character is a sequence by itself.  The branch
\* for DEL tests 0x1f again and is never taken.
IsControlSeq(in) ==
  IF IsC0(in[1]) /\ in[1] # E
  THEN [type |-> in[1], end |-> 1, params |-> <<in[1]>>]
  ELSE IsControlSeqOf(in)

IsControlSeqPrefix(b) ==
  IsC0(b) \/ b = "DEL" \/ (scenario.useS8C /\ Ord[b] \in 128..159)

----------------------------------------------------------------------------
(* A round of RxProc. *)

\* S8CToS7C: an 8-bit control becomes its 7-bit form, those without one disappear.
S8CToS7C(s) ==
  LET Seven(b) ==
        IF Ord[b] \notin 128..159 THEN <<b>>
        ELSE IF Ord[b] \in (132..151) \cup (154..159) THEN <<E, Ascii[Ord[b] - 64 - 31]>>
        ELSE <<>>
  IN FlattenSeq([i \in DOMAIN s |-> Seven(s[i])])

RefineTheInput_Never(s) == s

RefineTheInput(s) == IF scenario.useS8C THEN S8CToS7C(s) ELSE s

Decode(s) == TranscodeToUTF32("UTF-8", [i \in DOMAIN s |-> Ord[s[i]]])
TextSeq(s) == LET cs == Decode(s).chars IN [i \in DOMAIN cs |-> [char |-> cs[i]]]

\* From the byte p on, with the text txt and the output out so far.  DEL begins a
\* sequence, no row has it, and one that is none ends with the input: what the reads
\* have brought behind it is dropped with it.
RECURSIVE Scan(_, _, _, _), Cut(_, _, _, _)
Scan(in, p, txt, out) ==
  IF p = Len(in)
  THEN [raw |-> <<>>, texts |-> SubSeq(txt, Decode(txt).ep + 1, Len(txt)),
        seqs |-> out \o TextSeq(txt), dropped |-> 0]
  ELSE IF ~IsControlSeqPrefix(in[p + 1])
  THEN Scan(in, p + 1, Append(txt, in[p + 1]), out)
  ELSE Cut(in, p, out \o TextSeq(txt), IsControlSeq(SubSeq(in, p + 1, Len(in))))

\* What IsControlSeq found at p, m, ends the text before it.
Cut(in, p, out, m) ==
  IF m.type = "SEQ_PENDING" /\ Last(in) # "CR"
  THEN [raw |-> SubSeq(in, p + 1, Len(in)), texts |-> <<>>, seqs |-> out,
        dropped |-> 0]
  ELSE [Scan(in, p + m.end, <<>>,
             IF m.type \in {"SEQ_PENDING", "SEQ_NONE"} THEN out
             ELSE Append(out, [ctrl |-> m.type, params |-> m.params]))
        EXCEPT !.dropped = @ + IF in[p + 1] = "DEL" THEN m.end - 1 ELSE 0]

Round(bytes, r, t) == Scan(RefineTheInput(r \o bytes), 0, t, <<>>)

----------------------------------------------------------------------------
Init ==
  /\ scenario \in Scenarios
  /\ heard = <<>> /\ raw = <<>> /\ texts = <<>> /\ seqs = <<>>

Chunks == UNION {[1..n -> scenario.alphabet] : n \in 1..MaxChunk}

\* What a round has cut, r, out of the bytes.
Absorb(bytes, r) ==
  /\ Len(heard) + Len(bytes) <= scenario.maxBytes
  /\ heard' = SubSeq(heard \o bytes, 1, Len(heard) + Len(bytes) - r.dropped)
  /\ raw' = r.raw
  /\ texts' = r.texts
  /\ seqs' = seqs \o r.seqs
  /\ UNCHANGED scenario

NotNul(chunk) == SelectSeq(chunk, LAMBDA b : b # "NUL")

\* A round of RxProc with the bytes of one ReadRaw; NUL is ignored.
RxRound(chunk) == Absorb(NotNul(chunk), Round(NotNul(chunk), raw, texts))

Next == \E chunk \in Chunks : RxRound(chunk)

Spec == Init /\ [][Next]_vars

----------------------------------------------------------------------------
(* Properties. *)

\* What one read of the bytes would give, if a DEL dropped nothing but itself.
RECURSIVE AtOnce(_, _, _)
AtOnce(bytes, r, t) ==
  LET now == Round(bytes, r, t)
      behind == SubSeq(bytes, Len(bytes) - now.dropped + 1, Len(bytes))
      later == AtOnce(behind, now.raw, now.texts)
  IN IF now.dropped = 0 THEN now ELSE [later EXCEPT !.seqs = now.seqs \o @]



\* The types whose parameters are bytes of any kind, the designations of character sets.
TakesAnyByte == {Rows[i].type : i \in {j \in DOMAIN Rows : Rows[j].ptyp = "Gn"}}

=============================================================================
