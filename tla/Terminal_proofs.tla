--------------------------- MODULE Terminal_proofs ---------------------------
(***************************************************************************)
(* The screen keeps its shape, and the cursor stays on a line.              *)
(*                                                                         *)
(* The invariant is ScreenInv, near the end.  Screen is the shape; Placed   *)
(* says that the column of the page is not left of it and its row not above *)
(* it, without which the handlers that write behind the cursor would lose   *)
(* cells; OnLine is where the cursor is between two events, as long as no   *)
(* saved cursor has been brought back.                                      *)
(*                                                                         *)
(* The proof follows RenderSeq: each handler draws (Drawn), each mode and   *)
(* each resize leaves the screen in shape (Shaped), the end of a sequence   *)
(* brings the cursor back onto a line (TidiedIs) and the two positions in   *)
(* step (SyncedIs); a text, a batch and the lines of a shrinking screen are *)
(* folds, and FoldInduction, instantiated for each, says what they keep.    *)
(***************************************************************************)
EXTENDS Terminal, SequenceTheorems, TLAPS

(* A sequence, whatever it holds: what the cells hold is of no matter here. *)
IsSeq(s) == \E S : s \in Seq(S)

IsLine(l) == "cells" \in DOMAIN l /\ IsSeq(l.cells)
\* Lines, none shorter than w cells.
LinesOf(ls, w) == IsSeq(ls) /\ \A i \in 1 .. Len(ls) : IsLine(ls[i]) /\ Len(ls[i].cells) >= w
Grid(ls, n, w) == LinesOf(ls, w) /\ Len(ls) = n
History(hist, max) == LinesOf(hist, 0) /\ Len(hist) <= max
\* The screen that is not shown: SwapScr fits it to the window.
Other(alt, max) == LinesOf(alt.lines, 0) /\ History(alt.hist, max) /\ alt.vx \in Int /\ alt.vy \in Int
Saved(saved) == saved.vx \in Nat /\ saved.vy \in Nat /\ saved.py \in Nat
Region(top, bot, cy) ==
  /\ top \in Int /\ bot \in Int
  /\ (top = 0 /\ bot = -1) \/ (0 <= top /\ top < bot /\ bot < cy)

Fields(v) ==
  /\ "cx" \in DOMAIN v /\ "cy" \in DOMAIN v /\ "limit" \in DOMAIN v /\ "lines" \in DOMAIN v
  /\ "hist" \in DOMAIN v /\ "alt" \in DOMAIN v /\ "vx" \in DOMAIN v /\ "vy" \in DOMAIN v
  /\ "py" \in DOMAIN v /\ "home" \in DOMAIN v /\ "top" \in DOMAIN v /\ "bot" \in DOMAIN v
  /\ "saved" \in DOMAIN v /\ "decp" \in DOMAIN v
\* What holds of a screen also while it has no shape: in the middle of a resize.
Loose(v, max) ==
  /\ Fields(v)
  /\ v.cx \in Nat /\ v.cx > 0 /\ v.cy \in Nat /\ v.cy > 0
  /\ max \in Nat /\ v.limit \in Nat /\ v.limit <= max
  /\ History(v.hist, max)
  /\ Other(v.alt, max)
  /\ v.vx \in Int /\ v.vy \in Int /\ v.py \in Nat /\ v.home \in Nat
  /\ Saved(v.saved)
Body(v, max) == Loose(v, max) /\ Grid(v.lines, v.cy, v.cx)
Screen(v, max) == Loose(v, max) /\ Grid(v.lines, v.cy, v.cx) /\ Region(v.top, v.bot, v.cy)

-----------------------------------------------------------------------------
\* While lines enter the history only the history and the selection change.
UntouchedByHistory == {"cx", "cy", "lines", "vx", "vy", "py", "top", "bot", "alt", "saved", "home", "limit",
                         "decp"}
Pushing(env, i, v) == Loose(v, env[2]) /\ \A f \in UntouchedByHistory : v[f] = env[1][f]
Push == INSTANCE FoldInduction WITH Op <- PushToLinesBufferAndCheck, P <- Pushing

-----------------------------------------------------------------------------
(* The domain of a sequence.                                                *)
LEMMA SeqLen ==
  ASSUME NEW s, IsSeq(s)
  PROVE  Len(s) \in Nat /\ DOMAIN s = 1 .. Len(s)
BY LenProperties DEF IsSeq

(* A function on 1 .. n is a sequence.                                      *)
LEMMA SeqMade ==
  ASSUME NEW n \in Nat, NEW s, s = [i \in 1 .. n |-> s[i]]
  PROVE  IsSeq(s) /\ Len(s) = n
<1>. DEFINE S == {s[i] : i \in 1 .. n}
<1>1. s \in [1 .. n -> S]
  OBVIOUS
<1>2. s \in Seq(S)
  <2>. HIDE DEF S
  <2>. QED  BY <1>1, SeqDef
<1>3. Len(s) \in Nat /\ DOMAIN s = 1 .. Len(s)
  BY <1>2, LenProperties
<1>4. 1 .. n = 1 .. Len(s)
  BY <1>1, <1>3
<1>5. n = Len(s)
  BY <1>3, <1>4
<1>6. IsSeq(s)
  <2>. HIDE DEF S
  <2>. QED  BY <1>2 DEF IsSeq
<1>. QED  BY <1>5, <1>6

(* Two sequences have their elements in one set.                           *)
LEMMA SeqUnion ==
  ASSUME NEW s, NEW t, IsSeq(s), IsSeq(t)
  PROVE  \E S : s \in Seq(S) /\ t \in Seq(S)
<1>1. PICK A : s \in Seq(A)
  BY DEF IsSeq
<1>2. PICK B : t \in Seq(B)
  BY DEF IsSeq
<1>3. s \in Seq(A \union B) /\ t \in Seq(A \union B)
  BY <1>1, <1>2, SeqMonotonic
<1>. QED  BY <1>3

(* What a concatenation holds, and how long it is.                          *)
LEMMA SeqConcat ==
  ASSUME NEW s, NEW t, IsSeq(s), IsSeq(t)
  PROVE  /\ IsSeq(s \o t)
         /\ Len(s \o t) = Len(s) + Len(t)
         /\ \A i \in 1 .. Len(s) + Len(t) :
              (s \o t)[i] = IF i <= Len(s) THEN s[i] ELSE t[i - Len(s)]
<1>1. PICK S : s \in Seq(S) /\ t \in Seq(S)
  BY SeqUnion
<1>. QED  BY <1>1, ConcatProperties DEF IsSeq

(* What a stretch of a sequence holds, and how long it is.                  *)
LEMMA SeqSubSeq ==
  ASSUME NEW s, NEW m \in Int, NEW n \in Int
  PROVE  /\ IsSeq(SubSeq(s, m, n))
         /\ Len(SubSeq(s, m, n)) = IF m <= n THEN n - m + 1 ELSE 0
         /\ \A i \in 1 .. n - m + 1 : SubSeq(s, m, n)[i] = s[m + i - 1]
<1>. DEFINE S == {s[i] : i \in m .. n}
<1>1. \A i \in m .. n : s[i] \in S
  OBVIOUS
<1>. HIDE DEF S
<1>. QED  BY <1>1, SubSeqProperties DEF IsSeq

(* The first n elements.                                                    *)
LEMMA SeqPrefix ==
  ASSUME NEW s, NEW n \in Int
  PROVE  IsSeq(SubSeq(s, 1, n)) /\ Len(SubSeq(s, 1, n)) = IF 1 <= n THEN n ELSE 0
<1>. DEFINE m == 1
<1>1. /\ IsSeq(SubSeq(s, m, n))
      /\ Len(SubSeq(s, m, n)) = IF m <= n THEN n - m + 1 ELSE 0
  <2>1. m \in Int
    OBVIOUS
  <2>. HIDE DEF m
  <2>. QED  BY <2>1, SeqSubSeq
<1>. QED  BY <1>1

(* One element more at the end.                                             *)
LEMMA SeqAppend ==
  ASSUME NEW s, NEW e, IsSeq(s)
  PROVE  /\ IsSeq(Append(s, e)) /\ Append(s, e) # <<>>
         /\ Len(Append(s, e)) = Len(s) + 1
         /\ \A i \in 1 .. Len(s) : Append(s, e)[i] = s[i]
         /\ Append(s, e)[Len(s) + 1] = e
<1>1. PICK A : s \in Seq(A)
  BY DEF IsSeq
<1>2. s \in Seq(A \union {e}) /\ e \in A \union {e}
  BY <1>1, SeqMonotonic
<1>. QED  BY <1>2, AppendProperties DEF IsSeq

(* All but the first element.                                               *)
LEMMA SeqTail ==
  ASSUME NEW s, IsSeq(s), s # <<>>
  PROVE  /\ IsSeq(Tail(s)) /\ Len(Tail(s)) = Len(s) - 1
         /\ \A i \in 1 .. Len(s) - 1 : Tail(s)[i] = s[i + 1]
<1>1. PICK A : s \in Seq(A)
  BY DEF IsSeq
<1>. QED  BY <1>1, HeadTailProperties DEF IsSeq

(* The empty sequence is one.                                               *)
LEMMA SeqEmpty == IsSeq(<<>>) /\ Len(<<>>) = 0
BY EmptySeq DEF IsSeq

(* One element is a sequence.                                               *)
LEMMA SeqOne ==
  ASSUME NEW e
  PROVE  IsSeq(<<e>>) /\ Len(<<e>>) = 1 /\ <<e>>[1] = e
<1>1. <<e>> \in Seq({e})
  OBVIOUS
<1>. QED  BY <1>1 DEF IsSeq

(* A function with the domain of a sequence is one of the same length.      *)
LEMMA SeqLike ==
  ASSUME NEW s, IsSeq(s), NEW t, t = [i \in DOMAIN s |-> t[i]]
  PROVE  IsSeq(t) /\ Len(t) = Len(s) /\ DOMAIN t = 1 .. Len(s)
<1>1. Len(s) \in Nat /\ DOMAIN s = 1 .. Len(s)
  BY SeqLen
<1>2. t = [i \in 1 .. Len(s) |-> t[i]]
  BY <1>1
<1>. QED  BY <1>1, <1>2, SeqMade, SeqLen

(* n times the same.                                                        *)
LEMMA FillLen ==
  ASSUME NEW n \in Int, NEW c
  PROVE  /\ IsSeq(Fill(n, c)) /\ Len(Fill(n, c)) = IF n < 0 THEN 0 ELSE n
         /\ \A i \in 1 .. n : Fill(n, c)[i] = c
<1>1. CASE n >= 0
  <2>1. Fill(n, c) = [i \in 1 .. n |-> Fill(n, c)[i]]
    BY DEF Fill
  <2>2. IsSeq(Fill(n, c)) /\ Len(Fill(n, c)) = n
    BY <1>1, <2>1, SeqMade
  <2>. QED  BY <1>1, <2>2 DEF Fill
<1>2. CASE n < 0
  <2>1. 1 .. n = 1 .. 0
    BY <1>2
  <2>2. Fill(n, c) = [i \in 1 .. 0 |-> Fill(n, c)[i]]
    BY <2>1 DEF Fill
  <2>3. IsSeq(Fill(n, c)) /\ Len(Fill(n, c)) = 0
    BY <2>2, SeqMade
  <2>. QED  BY <1>2, <2>3
<1>. QED  BY <1>1, <1>2

(* resize() to more: what was there stays, and the rest is added.           *)
LEMMA PaddedLen ==
  ASSUME NEW s, IsSeq(s), NEW n \in Int, NEW c
  PROVE  /\ IsSeq(Padded(s, n, c))
         /\ Len(Padded(s, n, c)) = IF Len(s) < n THEN n ELSE Len(s)
         /\ \A i \in 1 .. Len(s) : Padded(s, n, c)[i] = s[i]
<1>1. Len(s) \in Nat
  BY SeqLen
<1>2. CASE Len(s) < n
  <2>1. IsSeq(Fill(n - Len(s), c)) /\ Len(Fill(n - Len(s), c)) = n - Len(s)
    BY <1>1, <1>2, FillLen
  <2>. QED  BY <1>1, <1>2, <2>1, SeqConcat DEF Padded
<1>3. CASE ~(Len(s) < n)
  BY <1>3, <1>1 DEF Padded
<1>. QED  BY <1>2, <1>3

-----------------------------------------------------------------------------
(* The larger of two numbers.                                               *)
LEMMA MaxOf ==
  ASSUME NEW a \in Int, NEW b \in Int
  PROVE  Max({a, b}) = IF a >= b THEN a ELSE b
<1>1. \E x \in {a, b} : \A y \in {a, b} : x >= y
  OBVIOUS
<1>2. Max({a, b}) \in {a, b} /\ \A y \in {a, b} : Max({a, b}) >= y
  BY <1>1 DEF Max
<1>. QED  BY <1>2

(* The smaller of two numbers.                                              *)
LEMMA MinOf ==
  ASSUME NEW a \in Int, NEW b \in Int
  PROVE  Min({a, b}) = IF a <= b THEN a ELSE b
<1>1. \E x \in {a, b} : \A y \in {a, b} : x <= y
  OBVIOUS
<1>2. Min({a, b}) \in {a, b} /\ \A y \in {a, b} : Min({a, b}) <= y
  BY <1>1 DEF Min
<1>. QED  BY <1>2

(* The smallest of three numbers.                                           *)
LEMMA MinOfThree ==
  ASSUME NEW a \in Int, NEW b \in Int, NEW c \in Int
  PROVE  /\ Min({a, b, c}) \in {a, b, c}
         /\ Min({a, b, c}) <= a /\ Min({a, b, c}) <= b /\ Min({a, b, c}) <= c
<1>1. \E x \in {a, b, c} : \A y \in {a, b, c} : x <= y
  OBVIOUS
<1>2. Min({a, b, c}) \in {a, b, c} /\ \A y \in {a, b, c} : Min({a, b, c}) <= y
  BY <1>1 DEF Min
<1>. QED  BY <1>2

-----------------------------------------------------------------------------
(* Of the places 1 to n, the k at the end are those that are in G.         *)
EndRun(n, G, k) == (\A i \in n - k + 1 .. n : i \in G) /\ (k < n => n - k \notin G)
(* There is a longest run of such places at the end.                        *)
LEMMA LastRun ==
  ASSUME NEW n \in Nat, NEW G
  PROVE  \E k \in 0 .. n : EndRun(n, G, k)
<1>. DEFINE T == {k \in 0 .. n : \A i \in n - k + 1 .. n : i \in G}
<1>1. 0 \in T
  OBVIOUS
<1>2. Max(T) \in T /\ \A y \in T : y <= Max(T)
  <2>1. T \subseteq 0 .. n /\ T # {}
    BY <1>1
  <2>. HIDE DEF T
  <2>2. \E m \in T : \A y \in T : m >= y
    BY <2>1, Push!GreatestOf
  <2>3. Max(T) \in T /\ \A y \in T : Max(T) >= y
    BY <2>2 DEF Max
  <2>4. Max(T) \in 0 .. n
    BY <2>1, <2>3
  <2>. QED  BY <2>3
<1>. DEFINE k == Max(T)
<1>3. k \in 0 .. n /\ \A i \in n - k + 1 .. n : i \in G
  <2>. HIDE DEF k
  <2>. QED  BY <1>2 DEF k
<1>4. ASSUME k < n, n - k \in G  PROVE FALSE
  <2>. HIDE DEF k
  <2>1. k + 1 \in 0 .. n
    BY <1>3, <1>4
  <2>2. \A i \in n - (k + 1) + 1 .. n : i \in G
    <3>1. ASSUME NEW i \in n - (k + 1) + 1 .. n  PROVE i \in G
      <4>1. i = n - k \/ i \in n - k + 1 .. n
        BY <1>3
      <4>. QED  BY <1>3, <1>4, <4>1
    <3>. QED  BY <3>1
  <2>3. k + 1 \in T
    BY <2>1, <2>2
  <2>. QED  BY <1>2, <1>3, <2>3 DEF k
<1>. HIDE DEF T, k
<1>5. EndRun(n, G, k)
  BY <1>3, <1>4 DEF EndRun
<1>. QED  BY <1>3, <1>5

(* No more blank cells at the end of a line than it has cells.              *)
LEMMA BlankCharsIn ==
  ASSUME NEW cells, IsSeq(cells)
  PROVE  BlankChars(cells) \in 0 .. Len(cells)
<1>. DEFINE n == Len(cells)
            G == {i \in 1 .. n : IsSpace(cells[i])}
            R(k) == /\ \A i \in n - k + 1 .. n : IsSpace(cells[i])
                    /\ k < n => ~IsSpace(cells[n - k])
<1>1. n \in Nat
  BY SeqLen
<1>2. PICK k \in 0 .. n : EndRun(n, G, k)
  <2>. HIDE DEF n, G
  <2>. QED  BY <1>1, LastRun
<1>3. R(k)
  <2>1. k < n => n - k \in 1 .. n
    BY <1>1
  <2>. QED  BY <1>2, <2>1 DEF EndRun
<1>4. BlankChars(cells) = CHOOSE i \in 0 .. n : R(i)
  BY DEF BlankChars, RunAtEnd
<1>. HIDE DEF R, n
<1>5. (CHOOSE i \in 0 .. n : R(i)) \in 0 .. n
  BY <1>3
<1>. QED  BY <1>4, <1>5 DEF n

(* No more blank lines at the end of a screen than it has lines.            *)
LEMMA BlankLinesIn ==
  ASSUME NEW ls, IsSeq(ls)
  PROVE  BlankLines(ls) \in 0 .. Len(ls)
<1>. DEFINE n == Len(ls)
            Bare(l) == \A i \in DOMAIN l.cells : IsSpace(l.cells[i])
            G == {i \in 1 .. n : Bare(ls[i])}
            R(k) == /\ \A i \in n - k + 1 .. n : Bare(ls[i])
                    /\ k < n => ~Bare(ls[n - k])
<1>1. n \in Nat
  BY SeqLen
<1>4. BlankLines(ls) = CHOOSE i \in 0 .. n : R(i)
  BY DEF BlankLines, RunAtEnd
<1>. HIDE DEF Bare
<1>2. PICK k \in 0 .. n : EndRun(n, G, k)
  <2>. HIDE DEF n, G
  <2>. QED  BY <1>1, LastRun
<1>3. R(k)
  <2>1. k < n => n - k \in 1 .. n
    BY <1>1
  <2>. QED  BY <1>2, <2>1 DEF EndRun
<1>. HIDE DEF R, n
<1>5. (CHOOSE i \in 0 .. n : R(i)) \in 0 .. n
  BY <1>3
<1>. QED  BY <1>4, <1>5 DEF n

(* The cell a place on the page falls into is one of the line's.           *)
LEMMA LogicToVirtualIn ==
  ASSUME NEW cells, IsSeq(cells), Len(cells) > 0, NEW lx
  PROVE  LogicToVirtual(cells, lx) \in 0 .. Len(cells) - 1
<1>. DEFINE at == {i \in 1 .. Len(cells) : VirtualToLogic(cells, i) > Max({lx, 0})}
<1>1. Len(cells) \in Nat
  BY SeqLen
<1>2. Max({Len(cells) - 1, 0}) = Len(cells) - 1
  BY <1>1, MaxOf
<1>3. ASSUME at # {}  PROVE Min(at) \in at
  <2>1. at \subseteq Nat
    BY <1>1
  <2>. HIDE DEF at
  <2>2. \E x \in at : \A y \in at : x <= y
    BY <1>3, <2>1, Push!LeastOf
  <2>. QED  BY <2>2 DEF Min
<1>4. at \subseteq 1 .. Len(cells)
  OBVIOUS
<1>5. LogicToVirtual(cells, lx) = IF at = {} THEN Max({Len(cells) - 1, 0}) ELSE Min(at) - 1
  BY DEF LogicToVirtual
<1>. HIDE DEF at
<1>6. CASE at = {}
  BY <1>1, <1>2, <1>5, <1>6
<1>7. CASE at # {}
  <2>1. Min(at) \in 1 .. Len(cells)
    BY <1>3, <1>4, <1>7
  <2>. QED  BY <1>1, <1>5, <1>7, <2>1
<1>. QED  BY <1>6, <1>7

-----------------------------------------------------------------------------
(* Lines. *)

LEMMA LinesEach ==
  ASSUME NEW ls, NEW w, LinesOf(ls, w)
  PROVE  /\ IsSeq(ls) /\ Len(ls) \in Nat /\ DOMAIN ls = 1 .. Len(ls)
         /\ \A i \in 1 .. Len(ls) : IsLine(ls[i]) /\ Len(ls[i].cells) >= w
                                    /\ Len(ls[i].cells) \in Nat
BY SeqLen DEF LinesOf, IsLine

(* Lines below lines.                                                       *)
LEMMA LinesConcat ==
  ASSUME NEW w, NEW s, NEW t, LinesOf(s, w), LinesOf(t, w)
  PROVE  LinesOf(s \o t, w) /\ Len(s \o t) = Len(s) + Len(t)
<1>1. IsSeq(s) /\ IsSeq(t) /\ Len(s) \in Nat /\ Len(t) \in Nat
  BY SeqLen DEF LinesOf
<1>2. /\ IsSeq(s \o t) /\ Len(s \o t) = Len(s) + Len(t)
      /\ \A i \in 1 .. Len(s) + Len(t) : (s \o t)[i] = IF i <= Len(s) THEN s[i] ELSE t[i - Len(s)]
  BY <1>1, SeqConcat
<1>3. ASSUME NEW i \in 1 .. Len(s \o t)
      PROVE  IsLine((s \o t)[i]) /\ Len((s \o t)[i].cells) >= w
  <2>1. CASE i <= Len(s)
    <3>1. i \in 1 .. Len(s) /\ (s \o t)[i] = s[i]
      BY <1>1, <1>2, <2>1
    <3>. QED  BY <3>1 DEF LinesOf
  <2>2. CASE i > Len(s)
    <3>1. i - Len(s) \in 1 .. Len(t) /\ (s \o t)[i] = t[i - Len(s)]
      BY <1>1, <1>2, <2>2
    <3>. QED  BY <3>1 DEF LinesOf
  <2>. QED  BY <1>1, <1>2, <2>1, <2>2
<1>. QED  BY <1>2, <1>3 DEF LinesOf

(* Some lines of a screen, one below the other.                             *)
LEMMA LinesSub ==
  ASSUME NEW w, NEW s, LinesOf(s, w), NEW m \in Int, NEW n \in Int,
         m <= n => 1 <= m /\ n <= Len(s)
  PROVE  /\ LinesOf(SubSeq(s, m, n), w)
         /\ Len(SubSeq(s, m, n)) = IF m <= n THEN n - m + 1 ELSE 0
<1>1. Len(s) \in Nat
  BY SeqLen DEF LinesOf
<1>2. /\ IsSeq(SubSeq(s, m, n))
      /\ Len(SubSeq(s, m, n)) = IF m <= n THEN n - m + 1 ELSE 0
      /\ \A i \in 1 .. n - m + 1 : SubSeq(s, m, n)[i] = s[m + i - 1]
  BY SeqSubSeq
<1>3. ASSUME NEW i \in 1 .. Len(SubSeq(s, m, n))
      PROVE  IsLine(SubSeq(s, m, n)[i]) /\ Len(SubSeq(s, m, n)[i].cells) >= w
  <2>1. m <= n /\ i \in 1 .. n - m + 1
    BY <1>2
  <2>2. m + i - 1 \in 1 .. Len(s) /\ SubSeq(s, m, n)[i] = s[m + i - 1]
    BY <1>1, <1>2, <2>1
  <2>. QED  BY <2>2 DEF LinesOf
<1>. QED  BY <1>2, <1>3 DEF LinesOf

(* The same line n times.                                                   *)
LEMMA LinesFill ==
  ASSUME NEW w, NEW n \in Int, NEW l, IsLine(l), Len(l.cells) >= w
  PROVE  LinesOf(Fill(n, l), w) /\ Len(Fill(n, l)) = IF n < 0 THEN 0 ELSE n
<1>1. /\ IsSeq(Fill(n, l)) /\ Len(Fill(n, l)) = IF n < 0 THEN 0 ELSE n
      /\ \A i \in 1 .. n : Fill(n, l)[i] = l
  BY FillLen
<1>2. \A i \in 1 .. Len(Fill(n, l)) : Fill(n, l)[i] = l
  BY <1>1
<1>. QED  BY <1>1, <1>2 DEF LinesOf

(* One line more below.                                                     *)
LEMMA LinesAppend ==
  ASSUME NEW w, NEW s, LinesOf(s, w), NEW l, IsLine(l), Len(l.cells) >= w
  PROVE  LinesOf(Append(s, l), w) /\ Len(Append(s, l)) = Len(s) + 1 /\ Append(s, l) # <<>>
<1>1. IsSeq(s) /\ Len(s) \in Nat
  BY SeqLen DEF LinesOf
<1>2. /\ IsSeq(Append(s, l)) /\ Len(Append(s, l)) = Len(s) + 1 /\ Append(s, l) # <<>>
      /\ \A i \in 1 .. Len(s) : Append(s, l)[i] = s[i]
      /\ Append(s, l)[Len(s) + 1] = l
  BY <1>1, SeqAppend
<1>3. ASSUME NEW i \in 1 .. Len(s) + 1
      PROVE  IsLine(Append(s, l)[i]) /\ Len(Append(s, l)[i].cells) >= w
  <2>1. i \in 1 .. Len(s) \/ i = Len(s) + 1
    BY <1>1
  <2>. QED  BY <1>2, <2>1 DEF LinesOf
<1>. QED  BY <1>2, <1>3 DEF LinesOf

(* The lines without the topmost.                                           *)
LEMMA LinesTail ==
  ASSUME NEW w, NEW s, LinesOf(s, w), s # <<>>
  PROVE  LinesOf(Tail(s), w) /\ Len(Tail(s)) = Len(s) - 1
<1>1. IsSeq(s) /\ Len(s) \in Nat
  BY SeqLen DEF LinesOf
<1>2. /\ IsSeq(Tail(s)) /\ Len(Tail(s)) = Len(s) - 1
      /\ \A i \in 1 .. Len(s) - 1 : Tail(s)[i] = s[i + 1]
  BY <1>1, SeqTail
<1>3. \A i \in 1 .. Len(s) - 1 : i + 1 \in 1 .. Len(s)
  BY <1>1
<1>. QED  BY <1>2, <1>3 DEF LinesOf

(* Every line replaced, by one no shorter than the others have to be.      *)
LEMMA LinesLike ==
  ASSUME NEW ls, NEW w0, LinesOf(ls, w0), NEW w, NEW t, t = [j \in DOMAIN ls |-> t[j]],
         \A j \in 1 .. Len(ls) : IsLine(t[j]) /\ Len(t[j].cells) >= w
  PROVE  LinesOf(t, w) /\ Len(t) = Len(ls)
<1>1. IsSeq(t) /\ Len(t) = Len(ls)
  BY SeqLike DEF LinesOf
<1>. QED  BY <1>1 DEF LinesOf

\* Lines made one by one.
LEMMA LinesMade ==
  ASSUME NEW w, NEW n \in Nat, NEW s, s = [j \in 1 .. n |-> s[j]],
         \A j \in 1 .. n : IsLine(s[j]) /\ Len(s[j].cells) >= w
  PROVE  LinesOf(s, w) /\ Len(s) = n
<1>1. IsSeq(s) /\ Len(s) = n
  BY SeqMade
<1>. QED  BY <1>1 DEF LinesOf

(* A new line is as long as the screen is wide.                             *)
LEMMA NewLineIs ==
  ASSUME NEW v, v.cx \in Nat
  PROVE  IsLine(NewLine(v)) /\ Len(NewLine(v).cells) = v.cx
BY FillLen DEF NewLine, Line, IsLine

(* So are several.                                                          *)
LEMMA NewLinesAre ==
  ASSUME NEW v, v.cx \in Nat, NEW n \in Int
  PROVE  LinesOf(NewLines(v, n), v.cx) /\ Len(NewLines(v, n)) = IF n < 0 THEN 0 ELSE n
<1>1. IsLine(NewLine(v)) /\ Len(NewLine(v).cells) >= v.cx
  BY NewLineIs
<1>. QED  BY <1>1, LinesFill DEF NewLines

-----------------------------------------------------------------------------
(* What a function does to the screen.  Its parameters are numbers.        *)

Numbers(p) == IsSeq(p) /\ Len(p) > 0 /\ \A i \in 1 .. Len(p) : p[i] \in Nat
\* Screen w is a screen again, the cursor's row on the page is the one it was, and so is
\* the screen that is not shown.
Drawn(v, w, max) == Screen(w, max) /\ w.py = v.py /\ w.alt = v.alt

(* A parameter is a number, and one that counts something is not 0.         *)
LEMMA ParameterIs ==
  ASSUME NEW p, Numbers(p)
  PROVE  /\ Ps(p) \in Nat
         /\ \A i \in Nat : i > 0 => Pn(p, i) \in Nat /\ Pn(p, i) > 0
<1>1. Len(p) \in Nat
  BY SeqLen DEF Numbers
<1>. QED  BY <1>1 DEF Numbers, Ps, Pn

(* The functions that move the cursor leave the screen its shape.           *)
LEMMA CursorFunctions ==
  ASSUME NEW max, NEW v, Screen(v, max), NEW p, Numbers(p)
  PROVE  /\ Drawn(v, ProcessBS(v), max)     /\ Drawn(v, ProcessHT(v), max)
         /\ Drawn(v, ProcessLF(v), max)     /\ Drawn(v, ProcessCR(v), max)
         /\ Drawn(v, ProcessCBT(v, p), max) /\ Drawn(v, ProcessCHA(v, p), max)
         /\ Drawn(v, ProcessCHT(v, p), max) /\ Drawn(v, ProcessCNL(v, p), max)
         /\ Drawn(v, ProcessCPL(v, p), max) /\ Drawn(v, ProcessCUB(v, p), max)
         /\ Drawn(v, ProcessCUD(v, p), max) /\ Drawn(v, ProcessCUF(v, p), max)
         /\ Drawn(v, ProcessCUP(v, p), max) /\ Drawn(v, ProcessCUU(v, p), max)
         /\ Drawn(v, ProcessCVT(v, p), max) /\ Drawn(v, ProcessHPA(v, p), max)
         /\ Drawn(v, ProcessHPB(v, p), max) /\ Drawn(v, ProcessHPR(v, p), max)
         /\ Drawn(v, ProcessVPA(v, p), max) /\ Drawn(v, ProcessVPB(v, p), max)
         /\ Drawn(v, ProcessVPR(v, p), max) /\ Drawn(v, ProcessSLH(v, p), max)
         /\ Drawn(v, ProcessDSR(v, p), max) /\ Drawn(v, ProcessDTA(v, p), max)
<1>. /\ Ps(p) \in Nat
     /\ Pn(p, 1) \in Nat /\ Pn(p, 1) > 0 /\ Pn(p, 2) \in Nat /\ Pn(p, 2) > 0
  BY ParameterIs
<1>. USE DEF Drawn, Screen, Loose, Fields
<1>1. Drawn(v, ProcessBS(v), max)
  BY DEF ProcessBS
<1>2. Drawn(v, ProcessHT(v), max)
  BY DEF ProcessHT
<1>3. Drawn(v, ProcessLF(v), max)
  BY DEF ProcessLF
<1>4. Drawn(v, ProcessCR(v), max)
  BY DEF ProcessCR
<1>5. Drawn(v, ProcessCBT(v, p), max)
  BY DEF ProcessCBT
<1>6. Drawn(v, ProcessCHA(v, p), max) /\ Drawn(v, ProcessCHT(v, p), max)
  BY DEF ProcessCHA, ProcessCHT
<1>7. Drawn(v, ProcessCNL(v, p), max) /\ Drawn(v, ProcessCPL(v, p), max)
  BY DEF ProcessCNL, ProcessCPL
<1>8. Drawn(v, ProcessCUB(v, p), max) /\ Drawn(v, ProcessCUD(v, p), max)
  BY DEF ProcessCUB, ProcessCUD
<1>9. Drawn(v, ProcessCUF(v, p), max) /\ Drawn(v, ProcessCUU(v, p), max)
  BY DEF ProcessCUF, ProcessCUU
<1>10. Drawn(v, ProcessCUP(v, p), max)
  <2>1. Min({Pn(p, 1), v.cy}) \in Int
    BY MinOf
  <2>. QED  BY <2>1 DEF ProcessCUP
<1>11. Drawn(v, ProcessCVT(v, p), max)
  BY DEF ProcessCVT
<1>12. Drawn(v, ProcessHPA(v, p), max) /\ Drawn(v, ProcessHPB(v, p), max)
  BY DEF ProcessHPA, ProcessHPB
<1>13. Drawn(v, ProcessHPR(v, p), max) /\ Drawn(v, ProcessVPA(v, p), max)
  BY DEF ProcessHPR, ProcessVPA
<1>14. Drawn(v, ProcessVPB(v, p), max) /\ Drawn(v, ProcessVPR(v, p), max)
  BY DEF ProcessVPB, ProcessVPR
<1>15. Drawn(v, ProcessSLH(v, p), max)
  BY DEF ProcessSLH
<1>16. Drawn(v, ProcessDSR(v, p), max)
  BY DEF ProcessDSR, Send
<1>17. Drawn(v, ProcessDTA(v, p), max)
  BY DEF ProcessDTA, Region
<1>. QED  BY <1>1, <1>2, <1>3, <1>4, <1>5, <1>6, <1>7, <1>8, <1>9, <1>10, <1>11, <1>12, <1>13,
            <1>14, <1>15, <1>16, <1>17

(* The lines replaced by as many.                                          *)
LEMMA GridDrawn ==
  ASSUME NEW max, NEW v, Screen(v, max), NEW ls, Grid(ls, v.cy, v.cx),
         NEW w, w = [v EXCEPT !.lines = ls]
  PROVE  Drawn(v, w, max)
BY DEF Drawn, Screen, Loose, Fields

(* The cells of one row replaced by no fewer.                              *)
LEMMA CellsDrawn ==
  ASSUME NEW max, NEW v, Screen(v, max), NEW y, NEW cells,
         y + 1 \in 1 .. v.cy => IsSeq(cells) /\ Len(cells) >= v.cx
  PROVE  Drawn(v, SetCells(v, y, cells), max)
<1>. DEFINE ls == v.lines
            t == [ls EXCEPT ![y + 1].cells = cells]
<1>1. LinesOf(ls, v.cx) /\ Len(ls) = v.cy /\ DOMAIN ls = 1 .. Len(ls)
  BY SeqLen DEF Screen, Grid, LinesOf
<1>2. t = [j \in DOMAIN ls |-> t[j]]
  OBVIOUS
<1>3. ASSUME NEW j \in 1 .. Len(ls)  PROVE IsLine(t[j]) /\ Len(t[j].cells) >= v.cx
  <2>1. IsLine(ls[j]) /\ Len(ls[j].cells) >= v.cx
    BY <1>1 DEF LinesOf
  <2>2. t[j] = IF j = y + 1 THEN [ls[j] EXCEPT !.cells = cells] ELSE ls[j]
    BY <1>1
  <2>. QED  BY <1>1, <2>1, <2>2 DEF IsLine
<1>4. LinesOf(t, v.cx) /\ Len(t) = Len(ls)
  <2>. HIDE DEF ls, t
  <2>. QED  BY <1>1, <1>2, <1>3, LinesLike
<1>5. Drawn(v, [v EXCEPT !.lines = t], max)
  <2>. HIDE DEF t
  <2>. QED  BY <1>1, <1>4, GridDrawn DEF Grid
<1>6. SetCells(v, y, cells) = [v EXCEPT !.lines = t]
  BY DEF SetCells
<1>. QED  BY <1>5, <1>6

\* A row's cells, where there is such a row.
LEMMA RowIs ==
  ASSUME NEW max, NEW v, Screen(v, max), NEW y \in Int, 0 <= y, y < v.cy
  PROVE  /\ y + 1 \in 1 .. v.cy /\ y + 1 \in 1 .. Len(v.lines) /\ Len(v.lines) = v.cy
         /\ IsSeq(CellsAt(v, y)) /\ Len(CellsAt(v, y)) \in Nat /\ Len(CellsAt(v, y)) >= v.cx
         /\ DOMAIN CellsAt(v, y) = 1 .. Len(CellsAt(v, y))
<1>1. y + 1 \in 1 .. v.cy /\ y + 1 \in 1 .. Len(v.lines) /\ Len(v.lines) = v.cy
  BY DEF Screen, Grid, Loose
<1>2. IsLine(v.lines[y + 1]) /\ Len(v.lines[y + 1].cells) >= v.cx
  BY <1>1 DEF Screen, Grid, LinesOf
<1>. QED  BY <1>1, <1>2, SeqLen DEF IsLine, CellsAt, LineAt

(* Erasing cells of one row.                                                *)
LEMMA ErasedDrawn ==
  ASSUME NEW max, NEW v, Screen(v, max), NEW y \in Int, NEW a, NEW b, NEW cell
  PROVE  Drawn(v, Erased(v, y, a, b, cell), max)
<1>. DEFINE row == CellsAt(v, y)
            cells == [i \in DOMAIN row |-> IF i - 1 \in a..b THEN cell ELSE row[i]]
<1>1. ASSUME y + 1 \in 1 .. v.cy  PROVE IsSeq(cells) /\ Len(cells) >= v.cx
  <2>1. 0 <= y /\ y < v.cy
    BY <1>1 DEF Screen, Loose
  <2>2. IsSeq(row) /\ Len(row) >= v.cx
    BY <2>1, RowIs
  <2>3. cells = [i \in DOMAIN row |-> cells[i]]
    OBVIOUS
  <2>4. IsSeq(cells) /\ Len(cells) = Len(row)
    <3>. HIDE DEF cells, row
    <3>. QED  BY <2>2, <2>3, SeqLike
  <2>. QED  BY <2>2, <2>4
<1>2. Drawn(v, SetCells(v, y, cells), max)
  <2>. HIDE DEF cells
  <2>. QED  BY <1>1, CellsDrawn
<1>. QED  BY <1>2 DEF Erased
(* Every line replaced.                                                    *)
LEMMA EachDrawn ==
  ASSUME NEW max, NEW v, Screen(v, max), NEW f, NEW w, w = [v EXCEPT !.lines = f],
         f = [j \in DOMAIN v.lines |-> f[j]],
         \A j \in DOMAIN v.lines :
           IsLine(v.lines[j]) /\ Len(v.lines[j].cells) \in Nat /\ Len(v.lines[j].cells) >= v.cx
             => IsLine(f[j]) /\ Len(f[j].cells) >= v.cx
  PROVE  Drawn(v, w, max)
<1>. DEFINE ls == v.lines
<1>1. LinesOf(ls, v.cx) /\ Len(ls) = v.cy /\ DOMAIN ls = 1 .. Len(ls)
  BY SeqLen DEF Screen, Grid, LinesOf
<1>2. f = [j \in DOMAIN ls |-> f[j]]
  OBVIOUS
<1>3. ASSUME NEW j \in 1 .. Len(ls)  PROVE IsLine(f[j]) /\ Len(f[j].cells) >= v.cx
  <2>1. IsLine(ls[j]) /\ Len(ls[j].cells) >= v.cx
    BY <1>1 DEF LinesOf
  <2>2. Len(ls[j].cells) \in Nat
    BY <2>1, SeqLen DEF IsLine
  <2>. QED  BY <1>1, <2>1, <2>2
<1>4. LinesOf(f, v.cx) /\ Len(f) = Len(ls)
  <2>. HIDE DEF ls
  <2>. QED  BY <1>1, <1>2, <1>3, LinesLike
<1>. QED  BY <1>1, <1>4, GridDrawn DEF Grid

(* Erasing rows.                                                            *)
LEMMA ErasedRowsDrawn ==
  ASSUME NEW max, NEW v, Screen(v, max), NEW rows, NEW cell
  PROVE  Drawn(v, ErasedRows(v, rows, cell), max)
<1>. DEFINE ls == v.lines
            f == [j \in DOMAIN ls |-> IF j - 1 \in rows
                                      THEN [ls[j] EXCEPT !.cells = Fill(Len(ls[j].cells), cell)]
                                      ELSE ls[j]]
<1>1. f = [j \in DOMAIN ls |-> f[j]]
  OBVIOUS
<1>2. ASSUME NEW j \in DOMAIN ls,
             IsLine(ls[j]), Len(ls[j].cells) \in Nat, Len(ls[j].cells) >= v.cx
      PROVE  IsLine(f[j]) /\ Len(f[j].cells) >= v.cx
  <2>. DEFINE cells == Fill(Len(ls[j].cells), cell)
  <2>1. IsSeq(cells) /\ Len(cells) = Len(ls[j].cells)
    BY <1>2, FillLen
  <2>2. f[j] = ls[j] \/ f[j] = [ls[j] EXCEPT !.cells = cells]
    OBVIOUS
  <2>. HIDE DEF cells, f
  <2>. QED  BY <1>2, <2>1, <2>2 DEF IsLine
<1>3. ErasedRows(v, rows, cell) = [v EXCEPT !.lines = f]
  BY DEF ErasedRows
<1>. HIDE DEF f
<1>. QED  BY <1>1, <1>2, <1>3, EachDrawn

-----------------------------------------------------------------------------
(* The cells a handler puts in a row's place are no fewer.                 *)
LEMMA RowsShifted ==
  ASSUME NEW s, IsSeq(s), NEW n \in Nat, n > 0, NEW c
  PROVE  /\ IsSeq(SubSeq(s, n + 1, Len(s)) \o Fill(n, c))
         /\ Len(SubSeq(s, n + 1, Len(s)) \o Fill(n, c)) >= Len(s)
         /\ IsSeq(SubSeq(Fill(n, c) \o s, 1, Len(s)))
         /\ Len(SubSeq(Fill(n, c) \o s, 1, Len(s))) = Len(s)
<1>1. Len(s) \in Nat
  BY SeqLen
<1>2. IsSeq(Fill(n, c)) /\ Len(Fill(n, c)) = n
  BY FillLen
<1>3. /\ IsSeq(SubSeq(s, n + 1, Len(s)))
      /\ Len(SubSeq(s, n + 1, Len(s))) = IF n + 1 <= Len(s) THEN Len(s) - n ELSE 0
  BY <1>1, SeqSubSeq
<1>4. /\ IsSeq(SubSeq(s, n + 1, Len(s)) \o Fill(n, c))
      /\ Len(SubSeq(s, n + 1, Len(s)) \o Fill(n, c)) = Len(SubSeq(s, n + 1, Len(s))) + n
  BY <1>2, <1>3, SeqConcat
<1>5. /\ IsSeq(SubSeq(Fill(n, c) \o s, 1, Len(s)))
      /\ Len(SubSeq(Fill(n, c) \o s, 1, Len(s))) = Len(s)
  BY <1>1, SeqSubSeq
<1>. QED  BY <1>1, <1>3, <1>4, <1>5

(* The cells up to the cursor, others, and those from a place b on.        *)
LEMMA RowsOfThree ==
  ASSUME NEW s, IsSeq(s), NEW a \in Nat, NEW t, IsSeq(t), NEW b \in Int, b > 0,
         a + Len(t) >= b - 1
  PROVE  /\ IsSeq(SubSeq(s, 1, a) \o SubSeq(s, b, Len(s)) \o t)
         /\ Len(SubSeq(s, 1, a) \o SubSeq(s, b, Len(s)) \o t) >= Len(s)
         /\ IsSeq(SubSeq(s, 1, a) \o t \o SubSeq(s, b, Len(s)))
         /\ Len(SubSeq(s, 1, a) \o t \o SubSeq(s, b, Len(s))) >= Len(s)
<1>. DEFINE x == SubSeq(s, 1, a)
            y == SubSeq(s, b, Len(s))
<1>1. Len(s) \in Nat /\ Len(t) \in Nat
  BY SeqLen
<1>2. IsSeq(x) /\ Len(x) = a
  BY SeqSubSeq
<1>3. IsSeq(y) /\ Len(y) = IF b <= Len(s) THEN Len(s) - b + 1 ELSE 0
  BY <1>1, SeqSubSeq
<1>. HIDE DEF x, y
<1>4. IsSeq(x \o y) /\ Len(x \o y) = a + Len(y) /\ IsSeq(x \o t) /\ Len(x \o t) = a + Len(t)
  BY <1>2, <1>3, SeqConcat
<1>5. /\ IsSeq(x \o y \o t) /\ Len(x \o y \o t) = a + Len(y) + Len(t)
      /\ IsSeq(x \o t \o y) /\ Len(x \o t \o y) = a + Len(t) + Len(y)
  BY <1>3, <1>4, SeqConcat
<1>6. Len(x \o y \o t) >= Len(s) /\ Len(x \o t \o y) >= Len(s)
  <2>1. Len(y) \in Nat /\ Len(y) >= Len(s) - b + 1
    BY <1>1, <1>3
  <2>2. a + Len(y) + Len(t) >= Len(s)
    BY <1>1, <2>1
  <2>. QED  BY <1>1, <1>5, <2>1, <2>2
<1>. QED  BY <1>5, <1>6 DEF x, y

(* SL and SR shift the cells of each row: none gets shorter.                *)
LEMMA Shifting ==
  ASSUME NEW max, NEW v, Screen(v, max), NEW p, Numbers(p)
  PROVE  Drawn(v, ProcessSL(v, p), max) /\ Drawn(v, ProcessSR(v, p), max)
<1>. DEFINE ls == v.lines
            n == Pn(p, 1)
            l == [j \in DOMAIN ls |-> [ls[j] EXCEPT
                    !.cells = SubSeq(@, n + 1, Len(@)) \o Fill(n, PenBlank(v))]]
            r == [j \in DOMAIN ls |-> [ls[j] EXCEPT
                    !.cells = SubSeq(Fill(n, PenBlank(v)) \o @, 1, Len(@))]]
<1>1. n \in Nat /\ n > 0
  BY ParameterIs
<1>2. ProcessSL(v, p) = [v EXCEPT !.lines = l] /\ ProcessSR(v, p) = [v EXCEPT !.lines = r]
  BY DEF ProcessSL, ProcessSR
<1>3. l = [j \in DOMAIN ls |-> l[j]] /\ r = [j \in DOMAIN ls |-> r[j]]
  OBVIOUS
<1>4. ASSUME NEW j \in DOMAIN ls,
             IsLine(ls[j]), Len(ls[j].cells) \in Nat, Len(ls[j].cells) >= v.cx
      PROVE  IsLine(l[j]) /\ Len(l[j].cells) >= v.cx /\ IsLine(r[j]) /\ Len(r[j].cells) >= v.cx
  <2>. DEFINE s == ls[j].cells
              lc == SubSeq(s, n + 1, Len(s)) \o Fill(n, PenBlank(v))
              rc == SubSeq(Fill(n, PenBlank(v)) \o s, 1, Len(s))
  <2>1. IsSeq(s) /\ IsSeq(lc) /\ Len(lc) >= Len(s) /\ IsSeq(rc) /\ Len(rc) = Len(s)
    <3>1. IsSeq(s)
      BY <1>4 DEF IsLine
    <3>. HIDE DEF n, s
    <3>. QED  BY <1>1, <3>1, RowsShifted
  <2>2. l[j] = [ls[j] EXCEPT !.cells = lc] /\ r[j] = [ls[j] EXCEPT !.cells = rc]
    OBVIOUS
  <2>3. Len(lc) \in Nat /\ Len(rc) \in Nat /\ v.cx \in Nat
    BY <2>1, SeqLen DEF Screen, Loose
  <2>. HIDE DEF lc, rc, l, r
  <2>. QED  BY <1>4, <2>1, <2>2, <2>3 DEF IsLine
<1>. HIDE DEF l, r
<1>5. Drawn(v, ProcessSL(v, p), max)
  BY <1>2, <1>3, <1>4, EachDrawn
<1>6. Drawn(v, ProcessSR(v, p), max)
  BY <1>2, <1>3, <1>4, EachDrawn
<1>. QED  BY <1>5, <1>6

(* A cell and what is behind it replaced: t comes in the place of k cells. *)
LEMMA InRow ==
  ASSUME NEW max, NEW v, Screen(v, max), v.vx \in Nat, v.vy \in Nat,
         NEW t, IsSeq(t), NEW b \in Int, b > 0, v.vx + Len(t) >= b - 1
  PROVE  LET s == CellsAt(v, v.vy)
         IN  /\ Drawn(v, SetCells(v, v.vy, SubSeq(s, 1, v.vx) \o SubSeq(s, b, Len(s)) \o t), max)
             /\ Drawn(v, SetCells(v, v.vy, SubSeq(s, 1, v.vx) \o t \o SubSeq(s, b, Len(s))), max)
<1>. DEFINE s == CellsAt(v, v.vy)
            c == SubSeq(s, 1, v.vx) \o SubSeq(s, b, Len(s)) \o t
            d == SubSeq(s, 1, v.vx) \o t \o SubSeq(s, b, Len(s))
<1>1. v.cy \in Nat /\ v.cx \in Nat
  BY DEF Screen, Loose
<1>2. ASSUME v.vy + 1 \in 1 .. v.cy
      PROVE  IsSeq(c) /\ Len(c) >= v.cx /\ IsSeq(d) /\ Len(d) >= v.cx
  <2>1. v.vy \in Int /\ 0 <= v.vy /\ v.vy < v.cy
    BY <1>1, <1>2
  <2>2. IsSeq(s) /\ Len(s) \in Nat /\ Len(s) >= v.cx
    BY <2>1, RowIs
  <2>3. IsSeq(c) /\ Len(c) >= Len(s) /\ IsSeq(d) /\ Len(d) >= Len(s)
    <3>. HIDE DEF s
    <3>. QED  BY <2>2, RowsOfThree
  <2>4. Len(c) \in Nat /\ Len(d) \in Nat
    BY <2>3, SeqLen
  <2>. QED  BY <1>1, <2>2, <2>3, <2>4
<1>. HIDE DEF c, d
<1>3. Drawn(v, SetCells(v, v.vy, c), max) /\ Drawn(v, SetCells(v, v.vy, d), max)
  BY <1>2, CellsDrawn
<1>. QED  BY <1>3 DEF c, d

\* A column that is not left of the screen, and a row that is not above it.
Placed(v) == v.vx \in Nat /\ v.vy \in Nat

(* DCH, ICH and REP put other cells in the place of those at the cursor: no *)
(* fewer.                                                                   *)
LEMMA Inserting ==
  ASSUME NEW max, NEW v, Screen(v, max), Placed(v), NEW p, Numbers(p)
  PROVE  /\ Drawn(v, ProcessDCH(v, p), max) /\ Drawn(v, ProcessICH(v, p), max)
         /\ Drawn(v, ProcessREP(v, p), max)
<1>. DEFINE s == CellsAt(v, v.vy)
            k == Pn(p, 1)
<1>1. k \in Nat /\ k > 0 /\ v.vx \in Nat /\ v.vy \in Nat
  BY ParameterIs DEF Placed
<1>2. Drawn(v, ProcessICH(v, p), max)
  <2>. DEFINE t == Fill(k, PenBlank(v))
              b == v.vx + 1
  <2>1. IsSeq(t) /\ b \in Int /\ b > 0 /\ v.vx + Len(t) >= b - 1
    BY <1>1, FillLen
  <2>2. ProcessICH(v, p) = SetCells(v, v.vy, SubSeq(s, 1, v.vx) \o t \o SubSeq(s, b, Len(s)))
    BY DEF ProcessICH
  <2>. HIDE DEF t, b, k
  <2>. QED  BY <1>1, <2>1, <2>2, InRow
<1>3. Drawn(v, ProcessREP(v, p), max)
  <2>. DEFINE cell == IF v.vx > 0 THEN s[v.vx] ELSE PenBlank(v)
              t == Fill(k, cell)
              b == v.vx + k + 1
              w == SetCells(v, v.vy, SubSeq(s, 1, v.vx) \o t \o SubSeq(s, b, Len(s)))
  <2>1. IsSeq(t) /\ b \in Int /\ b > 0 /\ v.vx + Len(t) >= b - 1
    <3>. HIDE DEF cell, k
    <3>. QED  BY <1>1, FillLen
  <2>2. Drawn(v, w, max) /\ w.vx = v.vx
    <3>1. w.vx = v.vx
      BY DEF SetCells, Screen, Loose, Fields
    <3>. HIDE DEF t, b, k
    <3>. QED  BY <1>1, <2>1, <3>1, InRow
  <2>3. ProcessREP(v, p) = [w EXCEPT !.vx = @ + k]
    BY DEF ProcessREP
  <2>. HIDE DEF w, k
  <2>. QED  BY <1>1, <2>2, <2>3 DEF Drawn, Screen, Loose, Fields
<1>4. Drawn(v, ProcessDCH(v, p), max)
  <2>. DEFINE n == Min({k, Len(s) - v.vx})
              t == Fill(n, PenBlank(v))
              b == v.vx + n + 1
              w == SetCells(v, v.vy, SubSeq(s, 1, v.vx) \o SubSeq(s, b, Len(s)) \o t)
  <2>1. ProcessDCH(v, p) = w
    BY DEF ProcessDCH
  <2>2. CASE v.vy < v.cy
    <3>1. Len(s) \in Nat
      BY <1>1, <2>2, RowIs
    <3>2. n \in Int /\ n = IF k <= Len(s) - v.vx THEN k ELSE Len(s) - v.vx
      <4>. HIDE DEF k, s
      <4>. QED  BY <1>1, <3>1, MinOf
    <3>3. IsSeq(t) /\ Len(t) = IF n < 0 THEN 0 ELSE n
      <4>. HIDE DEF n
      <4>. QED  BY <3>2, FillLen
    <3>4. b \in Int /\ b > 0 /\ v.vx + Len(t) >= b - 1
      <4>1. b \in Int /\ b > 0 /\ Len(t) >= n
        <5>. HIDE DEF k, n, t, s
        <5>. QED  BY <1>1, <3>1, <3>2, <3>3
      <4>2. b = v.vx + n + 1 /\ Len(t) \in Int /\ n \in Int
        <5>. HIDE DEF n, t
        <5>. QED  BY <3>2, <3>3
      <4>. HIDE DEF n, t, b
      <4>. QED  BY <1>1, <4>1, <4>2
    <3>. HIDE DEF t, b
    <3>. QED  BY <1>1, <2>1, <3>3, <3>4, InRow
  <2>3. CASE ~(v.vy < v.cy)
    <3>1. ~(v.vy + 1 \in 1 .. v.cy)
      BY <1>1, <2>3 DEF Screen, Loose
    <3>. DEFINE c == SubSeq(s, 1, v.vx) \o SubSeq(s, b, Len(s)) \o t
    <3>2. Drawn(v, SetCells(v, v.vy, c), max)
      <4>. HIDE DEF c
      <4>. QED  BY <3>1, CellsDrawn
    <3>. QED  BY <2>1, <3>2
  <2>. QED  BY <2>2, <2>3
<1>. QED  BY <1>2, <1>3, <1>4

(* One function after another.                                              *)
LEMMA DrawnTwice ==
  ASSUME NEW max, NEW u, NEW v, NEW w, Drawn(u, v, max), Drawn(v, w, max)
  PROVE  Drawn(u, w, max)
BY DEF Drawn

\* The cursor elsewhere.
LEMMA Moved ==
  ASSUME NEW max, NEW v, Screen(v, max), NEW x \in Int, NEW y \in Int
  PROVE  /\ Drawn(v, [v EXCEPT !.vx = x], max) /\ Drawn(v, [v EXCEPT !.vy = y], max)
         /\ Drawn(v, [v EXCEPT !.vx = x, !.vy = y], max)
<1>. USE DEF Drawn, Screen, Loose, Fields
<1>1. Drawn(v, [v EXCEPT !.vx = x], max)
  OBVIOUS
<1>2. Drawn(v, [v EXCEPT !.vy = y], max)
  OBVIOUS
<1>3. Drawn(v, [v EXCEPT !.vx = x, !.vy = y], max)
  OBVIOUS
<1>. QED  BY <1>1, <1>2, <1>3

(* One cell replaced.                                                       *)
LEMMA CellDrawn ==
  ASSUME NEW max, NEW v, Screen(v, max), NEW y, NEW x, NEW c
  PROVE  Drawn(v, [v EXCEPT !.lines[y].cells[x] = WithChar(@, c)], max)
<1>. DEFINE ls == v.lines
            f == [ls EXCEPT ![y].cells[x] = WithChar(@, c)]
            w == [v EXCEPT !.lines[y].cells[x] = WithChar(@, c)]
<1>1. w = [v EXCEPT !.lines = f]
  OBVIOUS
<1>2. f = [j \in DOMAIN ls |-> f[j]]
  OBVIOUS
<1>3. ASSUME NEW j \in DOMAIN ls, IsLine(ls[j]), Len(ls[j].cells) \in Nat, Len(ls[j].cells) >= v.cx
      PROVE  IsLine(f[j]) /\ Len(f[j].cells) >= v.cx
  <2>. DEFINE s == ls[j].cells
              t == [s EXCEPT ![x] = WithChar(@, c)]
  <2>1. t = [i \in DOMAIN s |-> t[i]]
    OBVIOUS
  <2>2. IsSeq(t) /\ Len(t) = Len(s)
    <3>1. IsSeq(s)
      BY <1>3 DEF IsLine
    <3>. HIDE DEF s, t
    <3>. QED  BY <2>1, <3>1, SeqLike
  <2>3. f[j] = ls[j] \/ f[j] = [ls[j] EXCEPT !.cells = t]
    OBVIOUS
  <2>. HIDE DEF f, t
  <2>. QED  BY <1>3, <2>2, <2>3 DEF IsLine
<1>. HIDE DEF f, w
<1>4. Drawn(v, w, max)
  BY <1>1, <1>2, <1>3, EachDrawn
<1>. QED  BY <1>4 DEF w

(* The functions that erase, and those that set a tabulation stop.          *)
LEMMA Erasing ==
  ASSUME NEW max, NEW v, Screen(v, max), NEW p, Numbers(p)
  PROVE  /\ Drawn(v, ProcessCCH(v), max)   /\ Drawn(v, ProcessECH(v, p), max)
         /\ Drawn(v, ProcessED(v, p), max) /\ Drawn(v, ProcessEL(v, p), max)
         /\ Drawn(v, ProcessHTS(v), max)   /\ Drawn(v, ProcessVTS(v), max)
<1>1. Drawn(v, v, max) /\ v.vx \in Int /\ v.vy \in Int /\ Ps(p) \in Nat
  BY ParameterIs DEF Drawn, Screen, Loose
<1>2. Drawn(v, ProcessCCH(v), max)
  <2>. DEFINE w == Erased(v, v.vy, v.vx - 1, v.vx - 1, PenBlank(v))
  <2>1. Drawn(v, w, max)
    BY <1>1, ErasedDrawn
  <2>2. w.vx - 1 \in Int
    BY <2>1 DEF Drawn, Screen, Loose
  <2>. HIDE DEF w
  <2>3. Drawn(w, [w EXCEPT !.vx = w.vx - 1], max)
    <3>. DEFINE x == w.vx - 1
    <3>1. x \in Int /\ Screen(w, max)
      BY <2>1, <2>2 DEF Drawn
    <3>. HIDE DEF x
    <3>2. Drawn(w, [w EXCEPT !.vx = x], max)
      BY <3>1, <1>1, Moved
    <3>. QED  BY <3>2 DEF x
  <2>4. ProcessCCH(v) = v \/ ProcessCCH(v) = [w EXCEPT !.vx = w.vx - 1]
    BY DEF ProcessCCH, w
  <2>. QED  BY <1>1, <2>1, <2>3, <2>4, DrawnTwice
<1>3. Drawn(v, ProcessECH(v, p), max)
  BY <1>1, ErasedDrawn DEF ProcessECH
<1>4. Drawn(v, AfterCursor(v, PenBlank(v)), max) /\ Drawn(v, UpToCursor(v, PenBlank(v)), max)
  BY <1>1, ErasedDrawn DEF AfterCursor, UpToCursor
<1>5. Drawn(v, ProcessED(v, p), max)
  <2>. DEFINE a == AfterCursor(v, PenBlank(v))
              b == UpToCursor(v, PenBlank(v))
              x == ErasedRows(a, v.vy + 1 .. v.cy - 1, PenBlank(v))
              y == ErasedRows(b, 0 .. v.vy - 1, PenBlank(v))
              z == ErasedRows(v, 0 .. v.cy - 1, PenBlank(v))
  <2>1. Drawn(a, x, max) /\ Drawn(b, y, max) /\ Drawn(v, z, max)
    <3>. HIDE DEF a, b
    <3>. QED  BY <1>4, ErasedRowsDrawn DEF Drawn, a, b
  <2>2. ProcessED(v, p) \in {x, y, z, v}
    BY DEF ProcessED
  <2>. HIDE DEF a, b, x, y, z
  <2>3. Drawn(v, a, max) /\ Drawn(v, b, max)
    BY <1>4 DEF a, b
  <2>4. Drawn(v, x, max) /\ Drawn(v, y, max)
    BY <2>1, <2>3, DrawnTwice
  <2>. QED  BY <1>1, <2>1, <2>2, <2>4
<1>6. Drawn(v, ProcessEL(v, p), max)
  <2>. DEFINE f == [v.lines EXCEPT ![v.vy + 1] = NewLine(v)]
              w == [v EXCEPT !.lines[v.vy + 1] = NewLine(v)]
  <2>1. Drawn(v, w, max)
    <3>1. w = [v EXCEPT !.lines = f]
      OBVIOUS
    <3>2. f = [j \in DOMAIN v.lines |-> f[j]]
      OBVIOUS
    <3>3. \A j \in DOMAIN v.lines : f[j] = NewLine(v) \/ f[j] = v.lines[j]
      OBVIOUS
    <3>4. IsLine(NewLine(v)) /\ Len(NewLine(v).cells) >= v.cx
      BY NewLineIs DEF Screen, Loose
    <3>. HIDE DEF f, w
    <3>5. \A j \in DOMAIN v.lines :
            IsLine(v.lines[j]) /\ Len(v.lines[j].cells) \in Nat /\ Len(v.lines[j].cells) >= v.cx
              => IsLine(f[j]) /\ Len(f[j].cells) >= v.cx
      BY <3>3, <3>4
    <3>. QED  BY <3>1, <3>2, <3>5, EachDrawn
  <2>2. ProcessEL(v, p) \in {AfterCursor(v, PenBlank(v)), UpToCursor(v, PenBlank(v)), w, v}
    BY DEF ProcessEL
  <2>. HIDE DEF w
  <2>. QED  BY <1>1, <1>4, <2>1, <2>2
<1>7. Drawn(v, ProcessHTS(v), max) /\ Drawn(v, ProcessVTS(v), max)
  <2>. DEFINE a == [v EXCEPT !.lines[v.vy + 1].cells[v.vx + 1] = WithChar(@, TAB)]
              b == [v EXCEPT !.lines[v.vy + 1].cells[v.vx + 1] = WithChar(@, VTAB)]
  <2>1. Drawn(v, a, max) /\ Drawn(v, b, max)
    BY CellDrawn
  <2>2. ProcessHTS(v) = [a EXCEPT !.vx = @ + 1] /\ ProcessVTS(v) = [b EXCEPT !.vy = @ + 1]
    BY DEF ProcessHTS, ProcessVTS
  <2>. HIDE DEF a, b
  <2>. QED  BY <2>1, <2>2 DEF Drawn, Screen, Loose, Fields
<1>. QED  BY <1>2, <1>3, <1>5, <1>6, <1>7

(* Other characters in the cells: as many.                                  *)
LEMMA CharsLen ==
  ASSUME NEW s, IsSeq(s), NEW c
  PROVE  IsSeq(WithChars(s, c)) /\ Len(WithChars(s, c)) = Len(s)
<1>. DEFINE t == WithChars(s, c)
<1>1. t = [i \in DOMAIN s |-> t[i]]
  BY DEF WithChars
<1>. HIDE DEF t
<1>2. IsSeq(t) /\ Len(t) = Len(s)
  BY <1>1, SeqLike
<1>. QED  BY <1>2 DEF t

(* Selective erasing in one row.                                            *)
LEMMA SelectRowDrawn ==
  ASSUME NEW max, NEW v, Screen(v, max), NEW y \in Int, NEW a, NEW b
  PROVE  Drawn(v, SelectRow(v, y, a, b), max)
<1>. DEFINE row == CellsAt(v, y)
            cells == [i \in DOMAIN row |-> IF i - 1 \in a..b THEN WithChar(row[i], " ") ELSE row[i]]
<1>1. ASSUME y + 1 \in 1 .. v.cy  PROVE IsSeq(cells) /\ Len(cells) >= v.cx
  <2>1. 0 <= y /\ y < v.cy
    BY <1>1 DEF Screen, Loose
  <2>2. IsSeq(row) /\ Len(row) >= v.cx
    BY <2>1, RowIs
  <2>3. cells = [i \in DOMAIN row |-> cells[i]]
    OBVIOUS
  <2>4. IsSeq(cells) /\ Len(cells) = Len(row)
    <3>. HIDE DEF cells, row
    <3>. QED  BY <2>2, <2>3, SeqLike
  <2>. QED  BY <2>2, <2>4
<1>2. Drawn(v, SetCells(v, y, cells), max)
  <2>. HIDE DEF cells
  <2>. QED  BY <1>1, CellsDrawn
<1>. QED  BY <1>2 DEF SelectRow

(* Selective erasing of rows.                                               *)
LEMMA SelectRowsDrawn ==
  ASSUME NEW max, NEW v, Screen(v, max), NEW rows
  PROVE  Drawn(v, SelectRows(v, rows), max)
<1>. DEFINE ls == v.lines
            f == [j \in DOMAIN ls |-> IF j - 1 \in rows
                                      THEN [ls[j] EXCEPT !.cells = WithChars(@, " ")] ELSE ls[j]]
<1>1. f = [j \in DOMAIN ls |-> f[j]]
  OBVIOUS
<1>2. ASSUME NEW j \in DOMAIN ls,
             IsLine(ls[j]), Len(ls[j].cells) \in Nat, Len(ls[j].cells) >= v.cx
      PROVE  IsLine(f[j]) /\ Len(f[j].cells) >= v.cx
  <2>. DEFINE cells == WithChars(ls[j].cells, " ")
  <2>1. IsSeq(cells) /\ Len(cells) = Len(ls[j].cells)
    BY <1>2, CharsLen DEF IsLine
  <2>2. f[j] = ls[j] \/ f[j] = [ls[j] EXCEPT !.cells = cells]
    OBVIOUS
  <2>. HIDE DEF cells, f
  <2>. QED  BY <1>2, <2>1, <2>2 DEF IsLine
<1>3. SelectRows(v, rows) = [v EXCEPT !.lines = f]
  BY DEF SelectRows
<1>. HIDE DEF f
<1>. QED  BY <1>1, <1>2, <1>3, EachDrawn

(* DECSEL and DECSED.                                                       *)
LEMMA SelectiveErasing ==
  ASSUME NEW max, NEW v, Screen(v, max), NEW p, Numbers(p)
  PROVE  Drawn(v, ProcessDECSEL(v, p), max) /\ Drawn(v, ProcessDECSED(v, p), max)
<1>. DEFINE a == SelectRow(v, v.vy, v.vx, LastColumn(v))
            b == SelectRow(v, v.vy, 0, v.vx)
            c == SelectRow(v, v.vy, 0, LastColumn(v))
            x == SelectRows(a, v.vy + 1 .. v.cy - 1)
            y == SelectRows(b, 0 .. v.vy - 1)
            z == SelectRows(v, 0 .. v.cy - 1)
<1>1. Drawn(v, v, max) /\ v.vx \in Int /\ v.vy \in Int
  BY DEF Drawn, Screen, Loose
<1>2. Drawn(v, a, max) /\ Drawn(v, b, max) /\ Drawn(v, c, max)
  BY <1>1, SelectRowDrawn
<1>3. ProcessDECSEL(v, p) \in {a, b, c, v}
  BY DEF ProcessDECSEL
<1>4. ProcessDECSED(v, p) \in {x, y, z, v}
  BY DEF ProcessDECSED
<1>. HIDE DEF a, b, c
<1>5. Drawn(a, x, max) /\ Drawn(b, y, max) /\ Drawn(v, z, max)
  BY <1>2, SelectRowsDrawn DEF Drawn
<1>. HIDE DEF x, y, z
<1>6. Drawn(v, x, max) /\ Drawn(v, y, max)
  BY <1>2, <1>5, DrawnTwice
<1>. QED  BY <1>1, <1>2, <1>3, <1>4, <1>5, <1>6

(* The cursor to the first row of the page.                                 *)
LEMMA Homed ==
  ASSUME NEW max, NEW v, Screen(v, max)
  PROVE  Drawn(v, SetCursorToHome(v), max)
<1>1. v.top \in Int
  BY DEF Screen, Loose, Region
<1>. QED  BY <1>1 DEF SetCursorToHome, Drawn, Screen, Loose, Fields

(* DECALN fills the lines there are.                                        *)
LEMMA Aligned ==
  ASSUME NEW max, NEW v, Screen(v, max)
  PROVE  Drawn(v, ProcessDECALN(v), max)
<1>. DEFINE w == SetCursorToHome(v)
            ls == v.lines
            f == [j \in DOMAIN ls |-> [ls[j] EXCEPT !.cells = WithChars(@, "S")]]
<1>1. Drawn(v, w, max)
  BY Homed
<1>2. w.lines = ls /\ w.cx = v.cx
  BY DEF SetCursorToHome, Screen, Loose, Fields
<1>3. f = [j \in DOMAIN ls |-> f[j]]
  OBVIOUS
<1>4. ASSUME NEW j \in DOMAIN ls,
             IsLine(ls[j]), Len(ls[j].cells) \in Nat, Len(ls[j].cells) >= v.cx
      PROVE  IsLine(f[j]) /\ Len(f[j].cells) >= v.cx
  <2>. DEFINE cells == WithChars(ls[j].cells, "S")
  <2>1. IsSeq(cells) /\ Len(cells) = Len(ls[j].cells)
    BY <1>4, CharsLen DEF IsLine
  <2>2. f[j] = [ls[j] EXCEPT !.cells = cells]
    OBVIOUS
  <2>. HIDE DEF cells, f
  <2>. QED  BY <1>4, <2>1, <2>2 DEF IsLine
<1>5. ProcessDECALN(v) = [w EXCEPT !.lines = f]
  BY DEF ProcessDECALN
<1>. HIDE DEF f, w
<1>6. Drawn(w, [w EXCEPT !.lines = f], max)
  <2>1. Screen(w, max)
    BY <1>1 DEF Drawn
  <2>. QED  BY <2>1, <1>2, <1>3, <1>4, EachDrawn
<1>. QED  BY <1>1, <1>5, <1>6, DrawnTwice

(* RemoveAt takes one element out.                                         *)
LEMMA RemoveAtLen ==
  ASSUME NEW s, IsSeq(s), NEW i \in 1 .. Len(s)
  PROVE  IsSeq(RemoveAt(s, i)) /\ Len(RemoveAt(s, i)) = Len(s) - 1
<1>1. Len(s) \in Nat
  BY SeqLen
<1>. DEFINE x == SubSeq(s, 1, i - 1)
            y == SubSeq(s, i + 1, Len(s))
<1>2. IsSeq(x) /\ Len(x) = i - 1
  BY <1>1, SeqSubSeq
<1>3. IsSeq(y) /\ Len(y) = Len(s) - i
  BY <1>1, SeqSubSeq
<1>4. RemoveAt(s, i) = x \o y
  BY DEF RemoveAt
<1>. HIDE DEF x, y
<1>5. IsSeq(x \o y) /\ Len(x \o y) = Len(x) + Len(y)
  BY <1>2, <1>3, SeqConcat
<1>6. Len(x \o y) = Len(s) - 1
  BY <1>1, <1>2, <1>3, <1>5
<1>. QED  BY <1>4, <1>5, <1>6

(* DECDC takes cells out and puts as many in at the margin.                 *)
LEMMA ColumnGone ==
  ASSUME NEW max, NEW v, Screen(v, max), NEW p, Numbers(p)
  PROVE  Drawn(v, ProcessDECDC(v, p), max)
<1>. DEFINE ls == v.lines
            n == Pn(p, 1)
            f == [j \in DOMAIN ls |->
                    IF j - 1 \in v.top .. Bottom(v) /\ n <= Len(ls[j].cells)
                    THEN [ls[j] EXCEPT !.cells = Append(RemoveAt(@, n), PenBlank(v))] ELSE ls[j]]
<1>1. f = [j \in DOMAIN ls |-> f[j]]
  OBVIOUS
<1>2. ASSUME NEW j \in DOMAIN ls,
             IsLine(ls[j]), Len(ls[j].cells) \in Nat, Len(ls[j].cells) >= v.cx
      PROVE  IsLine(f[j]) /\ Len(f[j].cells) >= v.cx
  <2>. DEFINE s == ls[j].cells
              cells == Append(RemoveAt(s, n), PenBlank(v))
  <2>1. f[j] = ls[j] \/ (n <= Len(s) /\ f[j] = [ls[j] EXCEPT !.cells = cells])
    OBVIOUS
  <2>2. n \in Nat /\ n > 0
    BY ParameterIs
  <2>3. ASSUME n <= Len(s)  PROVE IsSeq(cells) /\ Len(cells) = Len(s)
    <3>1. n \in 1 .. Len(s) /\ IsSeq(s)
      BY <1>2, <2>2, <2>3 DEF IsLine
    <3>. HIDE DEF n, s
    <3>2. IsSeq(RemoveAt(s, n)) /\ Len(RemoveAt(s, n)) = Len(s) - 1
      BY <3>1, RemoveAtLen
    <3>3. IsSeq(cells) /\ Len(cells) = Len(s) - 1 + 1
      BY <3>2, SeqAppend
    <3>4. Len(s) \in Nat
      BY <1>2 DEF s
    <3>. QED  BY <3>3, <3>4
  <2>. HIDE DEF cells, f
  <2>. QED  BY <1>2, <2>1, <2>3 DEF IsLine
<1>3. ProcessDECDC(v, p) = [v EXCEPT !.lines = f]
  BY DEF ProcessDECDC
<1>. HIDE DEF f
<1>. QED  BY <1>1, <1>2, <1>3, EachDrawn

(* Four runs of lines one below the other.                                 *)
LEMMA LinesOfFour ==
  ASSUME NEW w, NEW a, NEW b, NEW c, NEW d,
         LinesOf(a, w), LinesOf(b, w), LinesOf(c, w), LinesOf(d, w)
  PROVE  LinesOf(a \o b \o c \o d, w) /\ Len(a \o b \o c \o d) = Len(a) + Len(b) + Len(c) + Len(d)
<1>1. LinesOf(a \o b, w) /\ Len(a \o b) = Len(a) + Len(b)
  BY LinesConcat
<1>2. LinesOf(a \o b \o c, w) /\ Len(a \o b \o c) = Len(a) + Len(b) + Len(c)
  BY <1>1, LinesConcat
<1>. QED  BY <1>1, <1>2, LinesConcat

(* Lines that go and come within rows from to last leave the screen its size. *)
LEMMA LinesMoved ==
  ASSUME NEW max, NEW v, Screen(v, max),
         NEW from \in Int, NEW last \in Int, NEW n \in Int,
         0 <= from, last < v.cy, 0 <= n, n <= last - from + 1
  PROVE  Drawn(v, LinesUp(v, from, last, n), max) /\ Drawn(v, LinesDown(v, from, last, n), max)
<1>. DEFINE ls == v.lines
            a == SubSeq(ls, 1, from)
            b == SubSeq(ls, from + n + 1, last + 1)
            c == NewLines(v, n)
            d == SubSeq(ls, last + 2, Len(ls))
            e == SubSeq(ls, from + 1, last + 1 - n)
            w == v.cx
<1>1. LinesOf(ls, w) /\ Len(ls) = v.cy /\ v.cy \in Nat /\ w \in Nat
  BY DEF Screen, Loose, Grid
<1>2. LinesOf(a, w) /\ Len(a) = from
  <2>1. from <= Len(ls)
    BY <1>1
  <2>. HIDE DEF ls, w
  <2>. QED  BY <1>1, <2>1, LinesSub
<1>3. LinesOf(b, w) /\ Len(b) = last + 1 - from - n
  <2>. HIDE DEF ls, w
  <2>. QED  BY <1>1, LinesSub
<1>4. LinesOf(c, w) /\ Len(c) = n
  BY <1>1, NewLinesAre
<1>5. LinesOf(d, w) /\ Len(d) = Len(ls) - last - 1
  <2>. HIDE DEF ls, w
  <2>. QED  BY <1>1, LinesSub
<1>6. LinesOf(e, w) /\ Len(e) = last + 1 - from - n
  <2>. HIDE DEF ls, w
  <2>. QED  BY <1>1, LinesSub
<1>7. LinesUp(v, from, last, n) = [v EXCEPT !.lines = a \o b \o c \o d]
  BY DEF LinesUp
<1>8. LinesDown(v, from, last, n) = [v EXCEPT !.lines = a \o c \o e \o d]
  BY DEF LinesDown
<1>. HIDE DEF ls, a, b, c, d, e
<1>9. Grid(a \o b \o c \o d, v.cy, v.cx)
  <2>1. LinesOf(a \o b \o c \o d, w) /\ Len(a \o b \o c \o d) = Len(a) + Len(b) + Len(c) + Len(d)
    BY <1>2, <1>3, <1>4, <1>5, LinesOfFour
  <2>2. Len(a) + Len(b) + Len(c) + Len(d) = v.cy
    BY <1>1, <1>2, <1>3, <1>4, <1>5
  <2>. QED  BY <2>1, <2>2 DEF Grid
<1>10. Grid(a \o c \o e \o d, v.cy, v.cx)
  <2>1. LinesOf(a \o c \o e \o d, w) /\ Len(a \o c \o e \o d) = Len(a) + Len(c) + Len(e) + Len(d)
    BY <1>2, <1>4, <1>5, <1>6, LinesOfFour
  <2>2. Len(a) + Len(c) + Len(e) + Len(d) = v.cy
    BY <1>1, <1>2, <1>4, <1>5, <1>6
  <2>. QED  BY <2>1, <2>2 DEF Grid
<1>11. Drawn(v, LinesUp(v, from, last, n), max)
  BY <1>7, <1>9, GridDrawn
<1>12. Drawn(v, LinesDown(v, from, last, n), max)
  BY <1>8, <1>10, GridDrawn
<1>. QED  BY <1>11, <1>12

(* The scrolling region lies within the screen, whether or not one is set.  *)
LEMMA RegionIs ==
  ASSUME NEW max, NEW v, Screen(v, max)
  PROVE  /\ v.top \in Int /\ 0 <= v.top /\ Bottom(v) \in Int /\ v.top <= Bottom(v) /\ Bottom(v) < v.cy
         /\ v.bot \in Int /\ (v.bot < 0 \/ v.bot = Bottom(v)) /\ v.cy \in Nat /\ v.vy \in Int
BY DEF Screen, Loose, Grid, Region, Bottom

(* The functions that delete, insert and scroll lines leave the screen as   *)
(* many.                                                                    *)
LEMMA LineFunctions ==
  ASSUME NEW max, NEW v, Screen(v, max), NEW p, Numbers(p)
  PROVE  /\ Drawn(v, ProcessDL(v, p), max) /\ Drawn(v, ProcessIL(v, p), max)
         /\ Drawn(v, ProcessSU(v, p), max) /\ Drawn(v, ProcessSD(v, p), max)
         /\ Drawn(v, ProcessIND(v), max)   /\ Drawn(v, ProcessRI(v), max)
         /\ Drawn(v, ProcessNEL(v), max)
<1>. DEFINE bottom == Bottom(v)
            k == Pn(p, 1)
<1>1. /\ v.top \in Int /\ 0 <= v.top /\ bottom \in Int /\ v.top <= bottom /\ bottom < v.cy
      /\ v.bot \in Int /\ (v.bot < 0 \/ v.bot = bottom) /\ v.cy \in Nat /\ v.vy \in Int
  BY RegionIs
<1>2. k \in Nat /\ k > 0 /\ Drawn(v, v, max)
  BY ParameterIs DEF Drawn
<1>3. Drawn(v, ProcessDL(v, p), max) /\ Drawn(v, ProcessIL(v, p), max)
  <2>. DEFINE n == Min({k, bottom - v.vy + 1})
  <2>1. CASE InRegion(v)
    <3>1. 0 <= v.vy /\ v.vy <= bottom
      BY <1>1, <2>1 DEF InRegion
    <3>2. n \in Int /\ 0 <= n /\ n <= bottom - v.vy + 1
      <4>1. bottom - v.vy + 1 \in Int /\ bottom - v.vy + 1 >= 0
        BY <1>1, <3>1
      <4>. HIDE DEF k, bottom
      <4>. QED  BY <1>2, <4>1, MinOf
    <3>3. ProcessDL(v, p) = LinesUp(v, v.vy, bottom, n) /\ ProcessIL(v, p) = LinesDown(v, v.vy, bottom, n)
      BY <2>1 DEF ProcessDL, ProcessIL
    <3>. HIDE DEF n, bottom
    <3>. QED  BY <1>1, <3>1, <3>2, <3>3, LinesMoved
  <2>2. CASE ~InRegion(v)
    BY <1>2, <2>2 DEF ProcessDL, ProcessIL
  <2>. QED  BY <2>1, <2>2
<1>4. Drawn(v, ProcessSU(v, p), max)
  <2>. DEFINE n == Min({k, bottom - v.top + 1})
  <2>1. n \in Int /\ 0 <= n /\ n <= bottom - v.top + 1
    <3>1. bottom - v.top + 1 \in Int /\ bottom - v.top + 1 >= 0
      BY <1>1
    <3>. HIDE DEF k, bottom
    <3>. QED  BY <1>2, <3>1, MinOf
  <2>2. ProcessSU(v, p) = LinesUp(v, v.top, bottom, n)
    BY DEF ProcessSU
  <2>. HIDE DEF n, bottom
  <2>. QED  BY <1>1, <2>1, <2>2, LinesMoved
<1>5. Drawn(v, ProcessSD(v, p), max)
  <2>. DEFINE n == Min({k, v.bot - v.top + 1})
  <2>1. CASE v.bot < 0
    BY <1>2, <2>1 DEF ProcessSD
  <2>2. CASE ~(v.bot < 0)
    <3>1. n \in Int /\ 0 <= n /\ n <= bottom - v.top + 1
      <4>1. v.bot = bottom /\ v.bot - v.top + 1 \in Int /\ v.bot - v.top + 1 >= 0
        BY <1>1, <2>2
      <4>. HIDE DEF k, bottom
      <4>. QED  BY <1>2, <4>1, MinOf
    <3>2. ProcessSD(v, p) = LinesDown(v, v.top, v.bot, n)
      BY <2>2 DEF ProcessSD
    <3>. HIDE DEF n, bottom
    <3>3. ProcessSD(v, p) = LinesDown(v, v.top, bottom, n)
      BY <1>1, <2>2, <3>2
    <3>. QED  BY <1>1, <3>1, <3>3, LinesMoved
  <2>. QED  BY <2>1, <2>2
<1>6. Drawn(v, LinesUp(v, v.top, bottom, 1), max) /\ Drawn(v, LinesDown(v, v.top, bottom, 1), max)
  <2>1. 0 <= 1 /\ 1 <= bottom - v.top + 1 /\ 1 \in Int
    BY <1>1
  <2>. HIDE DEF bottom
  <2>. QED  BY <1>1, <2>1, LinesMoved
<1>7. Drawn(v, [v EXCEPT !.vy = @ + 1], max) /\ Drawn(v, [v EXCEPT !.vy = @ - 1], max)
  BY DEF Drawn, Screen, Loose, Fields
<1>8. Drawn(v, ProcessIND(v), max)
  BY <1>6, <1>7 DEF ProcessIND
<1>9. Drawn(v, ProcessRI(v), max)
  BY <1>6, <1>7 DEF ProcessRI
<1>10. Drawn(v, ProcessNEL(v), max)
  <2>. DEFINE w == ProcessIND(v)
  <2>1. ProcessNEL(v) = [w EXCEPT !.vx = 0]
    BY DEF ProcessNEL
  <2>. HIDE DEF w
  <2>2. Drawn(v, w, max)
    BY <1>8 DEF w
  <2>. QED  BY <2>1, <2>2 DEF Drawn, Screen, Loose, Fields
<1>. QED  BY <1>3, <1>4, <1>5, <1>8, <1>9, <1>10

(* Joining lines makes no more of them, and none shorter.                  *)
JoinedSoFar(w, i, acc) == LinesOf(acc.out, w) /\ Len(acc.out) <= i
Join == INSTANCE FoldInduction WITH Op <- Joining, P <- JoinedSoFar

\* The module's fold is the one of the model.
LEMMA JoinFold ==
  ASSUME NEW base, NEW s
  PROVE  FoldLeft(Joining, base, s) = Join!FoldLeft(Joining, base, s)
BY DEF FoldLeft, Join!FoldLeft, MapThenFoldSet, Join!MapThenFoldSet, Max, Join!Max

(* One line more, joined to the last or put below it.                       *)
LEMMA JoiningKeeps ==
  ASSUME NEW w \in Nat, NEW n \in Nat, NEW acc, JoinedSoFar(w, n - 1, acc),
         NEW line, IsLine(line), Len(line.cells) >= w
  PROVE  JoinedSoFar(w, n, Joining(acc, line))
<1>1. LinesOf(acc.out, w) /\ Len(acc.out) \in Nat /\ Len(acc.out) <= n - 1
  BY SeqLen DEF JoinedSoFar, LinesOf
<1>2. CASE acc.open
  <2>. DEFINE ls == acc.out
              t == [ls EXCEPT ![Len(ls)].cells = Front(@) \o line.cells]
              r == [out |-> t, open |-> FALSE]
  <2>1. Joining(acc, line) = r
    BY <1>2 DEF Joining
  <2>2. t = [j \in DOMAIN ls |-> t[j]]
    OBVIOUS
  <2>3. ASSUME NEW j \in 1 .. Len(ls)  PROVE IsLine(t[j]) /\ Len(t[j].cells) >= w
    <3>. DEFINE s == ls[j].cells
                f == SubSeq(s, 1, Len(s) - 1)
                c == f \o line.cells
    <3>1. IsLine(ls[j]) /\ Len(s) >= w /\ IsSeq(s) /\ Len(s) \in Nat /\ DOMAIN ls = 1 .. Len(ls)
      BY <1>1, LinesEach DEF IsLine
    <3>2. IsSeq(f) /\ Len(f) \in Nat
      <4>1. IsSeq(f) /\ Len(f) = IF 1 <= Len(s) - 1 THEN Len(s) - 1 ELSE 0
        BY <3>1, SeqSubSeq
      <4>. QED  BY <3>1, <4>1
    <3>3. IsSeq(line.cells) /\ Len(line.cells) \in Nat
      BY SeqLen DEF IsLine
    <3>4. t[j] = ls[j] \/ t[j] = [ls[j] EXCEPT !.cells = c]
      BY <3>1 DEF Front
    <3>. HIDE DEF s, f, t, ls
    <3>5. IsSeq(c) /\ Len(c) = Len(f) + Len(line.cells)
      BY <3>2, <3>3, SeqConcat
    <3>6. IsSeq(c) /\ Len(c) >= w
      BY <3>2, <3>3, <3>5
    <3>. HIDE DEF c
    <3>. QED  BY <3>1, <3>4, <3>6 DEF IsLine, s
  <2>4. LinesOf(t, w) /\ Len(t) = Len(ls)
    <3>. HIDE DEF t, ls
    <3>1. LinesOf(ls, w)
      BY <1>1 DEF ls
    <3>. QED  BY <2>2, <2>3, <3>1, LinesLike
  <2>. HIDE DEF t
  <2>. QED  BY <1>1, <2>1, <2>4 DEF JoinedSoFar
<1>3. CASE ~acc.open
  <2>. DEFINE t == Append(acc.out, line)
  <2>1. LinesOf(t, w) /\ Len(t) = Len(acc.out) + 1
    BY <1>1, LinesAppend
  <2>2. Joining(acc, line) = [out |-> t, open |-> EndsInStop(line)]
    BY <1>3 DEF Joining
  <2>. HIDE DEF t
  <2>. QED  BY <1>1, <2>1, <2>2 DEF JoinedSoFar
<1>. QED  BY <1>2, <1>3

(* CTC 5 joins lines and pads the screen again.                             *)
LEMMA JoinedDrawn ==
  ASSUME NEW max, NEW v, Screen(v, max)
  PROVE  Drawn(v, JoinedAtStops(v), max)
<1>. DEFINE ls == v.lines
            n == Len(ls)
            w == v.cx
            base == [out |-> <<>>, open |-> FALSE]
            joined == FoldLeft(Joining, base, ls).out
            rest == NewLines(v, n - Len(joined))
<1>1. LinesOf(ls, w) /\ n \in Nat /\ DOMAIN ls = 1 .. n /\ n = v.cy /\ w \in Nat
  BY SeqLen DEF Screen, Loose, Grid, LinesOf
<1>2. JoinedSoFar(w, 0, base)
  BY SeqEmpty DEF JoinedSoFar, LinesOf
<1>3. ASSUME NEW x, NEW i \in 1 .. n, JoinedSoFar(w, i - 1, x)
      PROVE  JoinedSoFar(w, i, Joining(x, ls[i]))
  <2>1. IsLine(ls[i]) /\ Len(ls[i].cells) >= w
    BY <1>1 DEF LinesOf
  <2>. HIDE DEF ls, w, n
  <2>. QED  BY <1>1, <1>3, <2>1, JoiningKeeps
<1>4. JoinedSoFar(w, n, FoldLeft(Joining, base, ls))
  <2>. HIDE DEF ls, w, n, base
  <2>. QED  BY <1>1, <1>2, <1>3, JoinFold, Join!FoldLeftKeeps
<1>5. LinesOf(joined, w) /\ Len(joined) \in Nat /\ Len(joined) <= n
  BY <1>4, SeqLen DEF JoinedSoFar, LinesOf
<1>6. LinesOf(rest, w) /\ Len(rest) = n - Len(joined)
  <2>. HIDE DEF joined, n
  <2>. QED  BY <1>1, <1>5, NewLinesAre
<1>7. JoinedAtStops(v) = [v EXCEPT !.lines = joined \o rest]
  BY DEF JoinedAtStops
<1>. HIDE DEF joined, rest, n
<1>8. Grid(joined \o rest, v.cy, v.cx)
  <2>1. LinesOf(joined \o rest, w) /\ Len(joined \o rest) = Len(joined) + Len(rest)
    BY <1>5, <1>6, LinesConcat
  <2>2. Len(joined) + Len(rest) = v.cy
    BY <1>1, <1>5, <1>6
  <2>. QED  BY <2>1, <2>2 DEF Grid
<1>. QED  BY <1>7, <1>8, GridDrawn

(* The cells without the tabulation stops.                                 *)
UntabbedSoFar(env, i, out) == IsSeq(out)
Untab == INSTANCE FoldInduction WITH Op <- Untabbed, P <- UntabbedSoFar

(* The fold over the cells is the one of the module.                        *)
LEMMA UntabFold ==
  ASSUME NEW base, NEW s
  PROVE  FoldLeft(Untabbed, base, s) = Untab!FoldLeft(Untabbed, base, s)
BY DEF FoldLeft, Untab!FoldLeft, MapThenFoldSet, Untab!MapThenFoldSet, Max, Untab!Max

(* What is left of the cells is a sequence.                                 *)
LEMMA UntabbedSeq ==
  ASSUME NEW s, IsSeq(s)
  PROVE  IsSeq(FoldLeft(Untabbed, <<>>, s))
<1>1. Len(s) \in Nat /\ DOMAIN s = 1 .. Len(s)
  BY SeqLen
<1>2. UntabbedSoFar(0, 0, <<>>)
  BY SeqEmpty DEF UntabbedSoFar
<1>3. \A x : \A i \in 1 .. Len(s) : UntabbedSoFar(0, i - 1, x) => UntabbedSoFar(0, i, Untabbed(x, s[i]))
  BY SeqAppend DEF UntabbedSoFar, Untabbed
<1>4. UntabbedSoFar(0, Len(s), FoldLeft(Untabbed, <<>>, s))
  BY <1>1, <1>2, <1>3, UntabFold, Untab!FoldLeftKeeps
<1>. QED  BY <1>4 DEF UntabbedSoFar

(* CTC 2 drops the stops of a row and pads it again.                        *)
LEMMA UntabbedDrawn ==
  ASSUME NEW max, NEW v, Screen(v, max)
  PROVE  Drawn(v, WithoutTabs(v), max)
<1>. DEFINE s == CellsAt(v, v.vy)
            kept == FoldLeft(Untabbed, <<>>, s)
            cells == Padded(kept, Len(s), PenBlank(v))
<1>1. v.vy \in Int /\ v.cy \in Nat /\ v.cx \in Nat
  BY DEF Screen, Loose
<1>2. ASSUME v.vy + 1 \in 1 .. v.cy  PROVE IsSeq(cells) /\ Len(cells) >= v.cx
  <2>1. 0 <= v.vy /\ v.vy < v.cy
    BY <1>1, <1>2
  <2>2. IsSeq(s) /\ Len(s) \in Nat /\ Len(s) >= v.cx
    BY <1>1, <2>1, RowIs
  <2>3. IsSeq(kept) /\ Len(kept) \in Nat
    <3>. HIDE DEF s
    <3>1. IsSeq(FoldLeft(Untabbed, <<>>, s))
      BY <2>2, UntabbedSeq
    <3>. QED  BY <3>1, SeqLen
  <2>4. IsSeq(cells) /\ Len(cells) = IF Len(kept) < Len(s) THEN Len(s) ELSE Len(kept)
    <3>. HIDE DEF s, kept
    <3>. QED  BY <2>2, <2>3, PaddedLen
  <2>. HIDE DEF s, kept, cells
  <2>. QED  BY <1>1, <2>2, <2>3, <2>4
<1>3. WithoutTabs(v) = SetCells(v, v.vy, cells)
  BY DEF WithoutTabs
<1>. HIDE DEF cells
<1>. QED  BY <1>2, <1>3, CellsDrawn

(* One line taken out.                                                      *)
LEMMA RemoveLine ==
  ASSUME NEW w, NEW ls, LinesOf(ls, w), NEW i \in 1 .. Len(ls)
  PROVE  LinesOf(RemoveAt(ls, i), w) /\ Len(RemoveAt(ls, i)) = Len(ls) - 1
<1>. DEFINE a == SubSeq(ls, 1, i - 1)
            b == SubSeq(ls, i + 1, Len(ls))
<1>1. Len(ls) \in Nat
  BY SeqLen DEF LinesOf
<1>2. LinesOf(a, w) /\ Len(a) = i - 1
  BY <1>1, LinesSub
<1>3. LinesOf(b, w) /\ Len(b) = Len(ls) - i
  BY <1>1, LinesSub
<1>4. RemoveAt(ls, i) = a \o b
  BY DEF RemoveAt
<1>. HIDE DEF a, b
<1>5. LinesOf(a \o b, w) /\ Len(a \o b) = Len(a) + Len(b)
  BY <1>2, <1>3, LinesConcat
<1>6. Len(a \o b) = Len(ls) - 1
  BY <1>1, <1>2, <1>3, <1>5
<1>. QED  BY <1>4, <1>5, <1>6

(* CTC 3 joins the line below to the one of the cursor.                     *)
LEMMA JoinedBelowDrawn ==
  ASSUME NEW max, NEW v, Screen(v, max), Placed(v)
  PROVE  Drawn(v, JoinedBelow(v), max)
<1>. DEFINE ls == v.lines
            a == RemoveAt(ls, v.vy + 1)
            c == <<NewLine(v)>>
<1>1. LinesOf(ls, v.cx) /\ Len(ls) = v.cy /\ v.cy \in Nat /\ v.cx \in Nat /\ v.vy \in Nat
  BY DEF Screen, Loose, Grid, Placed
<1>2. CASE v.vy < Len(ls) - 1
  <2>1. LinesOf(a, v.cx) /\ Len(a) = Len(ls) - 1
    <3>1. v.vy + 1 \in 1 .. Len(ls)
      BY <1>1, <1>2
    <3>. HIDE DEF ls
    <3>. QED  BY <1>1, <3>1, RemoveLine
  <2>2. LinesOf(c, v.cx) /\ Len(c) = 1
    <3>1. IsLine(NewLine(v)) /\ Len(NewLine(v).cells) >= v.cx
      BY <1>1, NewLineIs
    <3>. QED  BY <3>1, SeqOne DEF LinesOf
  <2>3. JoinedBelow(v) = [v EXCEPT !.lines = a \o c]
    BY <1>2 DEF JoinedBelow
  <2>. HIDE DEF a, c
  <2>4. LinesOf(a \o c, v.cx) /\ Len(a \o c) = Len(a) + Len(c)
    BY <2>1, <2>2, LinesConcat
  <2>5. Grid(a \o c, v.cy, v.cx)
    <3>1. Len(a) + Len(c) = v.cy
      BY <1>1, <2>1, <2>2
    <3>. QED  BY <2>4, <3>1 DEF Grid
  <2>. QED  BY <2>3, <2>5, GridDrawn
<1>3. CASE ~(v.vy < Len(ls) - 1)
  BY <1>3, CellDrawn DEF JoinedBelow
<1>. QED  BY <1>2, <1>3

(* CTC: each parameter's doing in turn.                                    *)
CtcSoFar(env, i, x) == Drawn(env[1], x, env[2]) /\ Placed(x)
Ctc == INSTANCE FoldInduction WITH Op <- ProcessCTC1, P <- CtcSoFar

(* The fold over the parameters is the one of the module.                   *)
LEMMA CtcFold ==
  ASSUME NEW base, NEW s
  PROVE  FoldLeft(ProcessCTC1, base, s) = Ctc!FoldLeft(ProcessCTC1, base, s)
BY DEF FoldLeft, Ctc!FoldLeft, MapThenFoldSet, Ctc!MapThenFoldSet, Max, Ctc!Max

(* One parameter of CTC.                                                    *)
LEMMA CtcOne ==
  ASSUME NEW max, NEW v, Screen(v, max), Placed(v), NEW ps
  PROVE  Drawn(v, ProcessCTC1(v, ps), max) /\ Placed(ProcessCTC1(v, ps))
<1>. DEFINE h == ProcessHTS(v)
            u == ProcessVTS(v)
            d == ProcessDCH(v, <<1>>)
            b == JoinedBelow(v)
            t == WithoutTabs(v)
            j == JoinedAtStops(v)
            k == WithoutTabs(j)
<1>1. Numbers(<<1>>)
  BY SeqOne DEF Numbers
<1>2. Drawn(v, h, max) /\ Drawn(v, u, max) /\ Drawn(v, d, max)
  BY <1>1, Erasing, Inserting
<1>3. Drawn(v, b, max) /\ Drawn(v, t, max) /\ Drawn(v, j, max)
  BY JoinedBelowDrawn, UntabbedDrawn, JoinedDrawn
<1>4. Drawn(v, k, max)
  <2>. HIDE DEF j
  <2>1. Drawn(j, k, max)
    BY <1>3, UntabbedDrawn DEF Drawn
  <2>. HIDE DEF k
  <2>. QED  BY <1>3, <2>1, DrawnTwice
<1>5. v.vx \in Nat /\ v.vy \in Nat /\ "vx" \in DOMAIN v /\ "vy" \in DOMAIN v /\ "lines" \in DOMAIN v
  BY DEF Placed, Screen, Loose, Fields
<1>6. Placed(h) /\ Placed(u)
  BY <1>5 DEF Placed, ProcessHTS, ProcessVTS
<1>7. Placed(d) /\ Placed(b) /\ Placed(t)
  BY <1>5 DEF Placed, ProcessDCH, JoinedBelow, WithoutTabs, SetCells
<1>8. Placed(j) /\ Placed(k)
  <2>1. \A w : [v EXCEPT !.lines = w].vx = v.vx /\ [v EXCEPT !.lines = w].vy = v.vy
    BY <1>5
  <2>2. j.vx = v.vx /\ j.vy = v.vy
    BY <1>5 DEF JoinedAtStops
  <2>3. "vx" \in DOMAIN j /\ "vy" \in DOMAIN j /\ "lines" \in DOMAIN j
    BY <1>3 DEF Drawn, Screen, Loose, Fields
  <2>. HIDE DEF j
  <2>4. k.vx = j.vx /\ k.vy = j.vy
    BY <2>3 DEF WithoutTabs, SetCells
  <2>. QED  BY <1>5, <2>2, <2>4 DEF Placed
<1>9. Drawn(v, v, max)
  BY DEF Drawn
<1>10. ProcessCTC1(v, ps) \in {h, u, d, b, t, j, k, v}
  BY DEF ProcessCTC1
<1>. HIDE DEF h, u, d, b, t, j, k
<1>. QED  BY <1>2, <1>3, <1>4, <1>6, <1>7, <1>8, <1>9, <1>10

(* CTC keeps the shape for any number of parameters.                        *)
LEMMA CtcDrawn ==
  ASSUME NEW max, NEW v, Screen(v, max), Placed(v), NEW p, Numbers(p)
  PROVE  Drawn(v, ProcessCTC(v, p), max)
<1>. DEFINE env == <<v, max>>
<1>1. Len(p) \in Nat /\ DOMAIN p = 1 .. Len(p)
  BY SeqLen DEF Numbers
<1>2. CtcSoFar(env, 0, v)
  BY DEF CtcSoFar, Drawn
<1>3. \A x : \A i \in 1 .. Len(p) : CtcSoFar(env, i - 1, x) => CtcSoFar(env, i, ProcessCTC1(x, p[i]))
  <2>1. SUFFICES ASSUME NEW x, NEW i \in 1 .. Len(p), Drawn(v, x, max), Placed(x)
                 PROVE  Drawn(v, ProcessCTC1(x, p[i]), max) /\ Placed(ProcessCTC1(x, p[i]))
    BY DEF CtcSoFar
  <2>2. Screen(x, max)
    BY <2>1 DEF Drawn
  <2>3. Drawn(x, ProcessCTC1(x, p[i]), max) /\ Placed(ProcessCTC1(x, p[i]))
    BY <2>1, <2>2, CtcOne
  <2>. QED  BY <2>1, <2>3, DrawnTwice
<1>. HIDE DEF env
<1>4. CtcSoFar(env, Len(p), FoldLeft(ProcessCTC1, v, p))
  BY <1>1, <1>2, <1>3, CtcFold, Ctc!FoldLeftKeeps
<1>. QED  BY <1>4 DEF CtcSoFar, ProcessCTC, env

(* What leaves the screen and the cursor alone: the pen, the modes, the     *)
(* character sets, the colours and what is sent.                            *)
LEMMA PenFunctions ==
  ASSUME NEW max, NEW v, Screen(v, max), NEW p
  PROVE  /\ Drawn(v, ProcessSGR(v, p), max)    /\ Drawn(v, ProcessXtermSGR(v, p), max)
         /\ Drawn(v, ProcessSM(v, p), max)     /\ Drawn(v, ProcessRM(v, p), max)
         /\ Drawn(v, ProcessDECSCA(v, p), max) /\ Drawn(v, ProcessDECSCL(v, p), max)
         /\ Drawn(v, ProcessDECAC(v, p), max)  /\ Drawn(v, ProcessXTOSC(v, p), max)
<1>. USE DEF Drawn, Screen, Loose, Fields
<1>1. Drawn(v, ProcessSGR(v, p), max)
  BY DEF ProcessSGR
<1>2. Drawn(v, ProcessXtermSGR(v, p), max)
  BY DEF ProcessXtermSGR
<1>3. Drawn(v, ProcessSM(v, p), max)
  BY DEF ProcessSM
<1>4. Drawn(v, ProcessRM(v, p), max)
  BY DEF ProcessRM
<1>5. Drawn(v, ProcessDECSCA(v, p), max)
  BY DEF ProcessDECSCA
<1>6. Drawn(v, ProcessDECSCL(v, p), max)
  BY DEF ProcessDECSCL, VT420DECSCL, VT320DECSCL, VT220DECSCL, SetOperatingLevel
<1>7. Drawn(v, ProcessDECAC(v, p), max)
  BY DEF ProcessDECAC
<1>8. Drawn(v, ProcessXTOSC(v, p), max)
  BY DEF ProcessXTOSC, Send
<1>. QED  BY <1>1, <1>2, <1>3, <1>4, <1>5, <1>6, <1>7, <1>8

(* Bytes sent to the host change nothing that is shown.                     *)
LEMMA Sent ==
  ASSUME NEW max, NEW v, Screen(v, max), NEW msg
  PROVE  Drawn(v, Send(v, msg), max)
BY DEF Send, Drawn, Screen, Loose, Fields

(* The answers to requests change nothing that is shown.                    *)
LEMMA Answers ==
  ASSUME NEW max, NEW v, Screen(v, max), NEW p
  PROVE  /\ Drawn(v, ProcessANSIRQM(v, p), max)     /\ Drawn(v, ProcessDECRQM(v, p), max)
         /\ Drawn(v, ProcessDECDSR(v, p), max)      /\ Drawn(v, ProcessDA(v, p), max)
         /\ Drawn(v, ProcessSecondaryDA(v, p), max) /\ Drawn(v, ProcessTertiaryDA(v, p), max)
         /\ Drawn(v, ProcessXTWINOPS(v, p), max)
<1>1. Drawn(v, v, max)
  BY DEF Drawn
<1>. USE <1>1, Sent
<1>2. Drawn(v, ProcessANSIRQM(v, p), max) /\ Drawn(v, ProcessDECRQM(v, p), max)
  BY DEF ProcessANSIRQM, ProcessDECRQM
<1>3. Drawn(v, ProcessDECDSR(v, p), max)
  BY DEF ProcessDECDSR, VT420DECDSR, VT220DECDSR, VT100DECDSR
<1>4. Drawn(v, ProcessDA(v, p), max)
  BY DEF ProcessDA
<1>5. Drawn(v, ProcessSecondaryDA(v, p), max) /\ Drawn(v, ProcessTertiaryDA(v, p), max)
  BY DEF ProcessSecondaryDA, ProcessTertiaryDA
<1>6. Drawn(v, ProcessXTWINOPS(v, p), max)
  BY DEF ProcessXTWINOPS
<1>. QED  BY <1>2, <1>3, <1>4, <1>5, <1>6

(* Designating and invoking character sets changes nothing that is shown.   *)
LEMMA CharacterSets ==
  ASSUME NEW max, NEW v, Screen(v, max), NEW g, NEW p
  PROVE  /\ Drawn(v, Designated(v, g, p), max) /\ Drawn(v, VT520CS96(v, g, p), max)
         /\ Drawn(v, Invoked(v, g), max)       /\ Drawn(v, ProcessLS1R(v), max)
<1>1. \A set : Drawn(v, Used(v, g, set), max) /\ Drawn(v, Kept(v, g, set), max)
  BY DEF Used, Kept, Drawn, Screen, Loose, Fields
<1>2. Drawn(v, v, max)
  BY DEF Drawn
<1>3. Drawn(v, VT100CS(v, g, p), max) /\ Drawn(v, VT220CS(v, g, p), max)
  BY <1>1 DEF VT100CS, VT220CS, UsedFrom
<1>4. Drawn(v, VT320CS(v, g, p), max)
  BY <1>1, <1>3 DEF VT320CS
<1>5. Drawn(v, VT520CS(v, g, p), max)
  BY <1>1, <1>4 DEF VT520CS
<1>6. Drawn(v, Designated(v, g, p), max)
  BY <1>3, <1>5 DEF Designated
<1>7. Drawn(v, VT420CS96(v, g, p), max)
  BY <1>1, <1>2 DEF VT420CS96
<1>8. Drawn(v, VT520CS96(v, g, p), max)
  BY <1>1, <1>7 DEF VT520CS96
<1>9. Drawn(v, Invoked(v, g), max) /\ Drawn(v, ProcessLS1R(v), max)
  BY DEF Invoked, ProcessLS1R, Drawn, Screen, Loose, Fields
<1>. QED  BY <1>6, <1>8, <1>9

(* Modes that are only remembered change nothing that is shown.             *)
LEMMA ModeSets ==
  ASSUME NEW max, NEW v, Screen(v, max), NEW m, NEW val
  PROVE  /\ Drawn(v, WithMode(v, m, val), max)
         /\ Drawn(v, VT220DECSM(v, m), max) /\ Drawn(v, VT220DECRM(v, m), max)
         /\ Drawn(v, VT100DECSM(v, m), max) /\ Drawn(v, VT100DECRM(v, m), max)
<1>1. \A w, n, x : Screen(w, max) => Drawn(w, WithMode(w, n, x), max)
  BY DEF WithMode, Drawn, Screen, Loose, Fields
<1>2. Drawn(v, v, max) /\ Drawn(v, SetCursorToHome(v), max)
  BY Homed DEF Drawn
<1>3. Drawn(v, Swapped(v), max)
  BY DEF Swapped, Drawn, Screen, Loose, Fields
<1>4. \A x : Drawn(v, [v EXCEPT !.wrap = x], max) /\ Drawn(v, [v EXCEPT !.showCursor = x], max)
  BY DEF Drawn, Screen, Loose, Fields
<1>5. Drawn(v, VT100DECSM(v, m), max)
  <2>. DEFINE w == CASE m = DECSCNM -> IF Mode(v, DECSCNM, 0) = 0 THEN Swapped(v) ELSE v
                     [] m = DECOM -> SetCursorToHome(v)
                     [] m = DECAWM -> [v EXCEPT !.wrap = TRUE]
                     [] OTHER -> v
  <2>1. Drawn(v, w, max)
    BY <1>2, <1>3, <1>4
  <2>2. VT100DECSM(v, m) = WithMode(w, m, 1)
    BY DEF VT100DECSM
  <2>. HIDE DEF w
  <2>3. Drawn(w, WithMode(w, m, 1), max)
    BY <1>1, <2>1 DEF Drawn
  <2>. QED  BY <2>1, <2>2, <2>3, DrawnTwice
<1>6. Drawn(v, VT100DECRM(v, m), max)
  <2>. DEFINE w == CASE m = DECSCNM -> IF Mode(v, DECSCNM, -1) = 1 THEN Swapped(v) ELSE v
                     [] m = DECOM -> SetCursorToHome(v)
                     [] m = DECAWM -> [v EXCEPT !.wrap = FALSE]
                     [] OTHER -> v
  <2>1. Drawn(v, w, max)
    BY <1>2, <1>3, <1>4
  <2>2. VT100DECRM(v, m) = WithMode(w, m, 0)
    BY DEF VT100DECRM
  <2>. HIDE DEF w
  <2>3. Drawn(w, WithMode(w, m, 0), max)
    BY <1>1, <2>1 DEF Drawn
  <2>. QED  BY <2>1, <2>2, <2>3, DrawnTwice
<1>7. \A b \in BOOLEAN : \A x :
        Drawn(v, WithMode([v EXCEPT !.showCursor = b], m, x), max)
  <2>1. SUFFICES ASSUME NEW b, NEW x
                 PROVE  Drawn(v, WithMode([v EXCEPT !.showCursor = b], m, x), max)
    OBVIOUS
  <2>. DEFINE w == [v EXCEPT !.showCursor = b]
  <2>2. Drawn(v, w, max)
    BY <1>4
  <2>. HIDE DEF w
  <2>3. Drawn(w, WithMode(w, m, x), max)
    BY <1>1, <2>2 DEF Drawn
  <2>4. Drawn(v, WithMode(w, m, x), max)
    BY <2>2, <2>3, DrawnTwice
  <2>. QED  BY <2>4 DEF w
<1>8. Drawn(v, VT220DECSM(v, m), max) /\ Drawn(v, VT220DECRM(v, m), max)
  BY <1>5, <1>6, <1>7 DEF VT220DECSM, VT220DECRM
<1>. QED  BY <1>1, <1>5, <1>6, <1>8

OnLine(v) ==
  /\ v.vy \in 0 .. Len(v.lines) - 1
  /\ v.vx >= 0
  /\ v.vy < Len(v.lines) - 1 => v.vx < Len(CellsAt(v, v.vy))

(* A line that goes into the history is one.                                *)
LEMMA StoredIs ==
  ASSUME NEW l, IsLine(l)
  PROVE  IsLine(Stored(l)) /\ Len(Stored(l).cells) >= 0
<1>. DEFINE c == l.cells
            n == BlankChars(c)
            t == SubSeq(c, 1, Len(c) - n)
<1>1. IsSeq(c) /\ Len(c) \in Nat
  BY SeqLen DEF IsLine
<1>2. n \in 0 .. Len(c)
  <2>. HIDE DEF c
  <2>. QED  BY <1>1, BlankCharsIn
<1>3. IsSeq(t) /\ Len(t) \in Nat
  <2>. HIDE DEF c, n
  <2>1. IsSeq(t)
    BY <1>1, <1>2, SeqSubSeq
  <2>. HIDE DEF t
  <2>. QED  BY <2>1, SeqLen
<1>4. Stored(l) = [l EXCEPT !.cells = t]
  BY DEF Stored, Trimmed
<1>. HIDE DEF t, c
<1>. QED  BY <1>3, <1>4 DEF IsLine

(* A line that comes back from the history is as long as the screen is      *)
(* wide.                                                                    *)
LEMMA WidenedIs ==
  ASSUME NEW l, IsLine(l), NEW cx \in Nat
  PROVE  IsLine(Widened(l, cx)) /\ Len(Widened(l, cx).cells) >= cx
<1>. DEFINE c == l.cells
            t == Padded(c, cx, Blank)
<1>1. IsSeq(c) /\ Len(c) \in Nat
  BY SeqLen DEF IsLine
<1>2. IsSeq(t) /\ Len(t) = IF Len(c) < cx THEN cx ELSE Len(c)
  <2>. HIDE DEF c
  <2>. QED  BY <1>1, PaddedLen
<1>3. Widened(l, cx) = [l EXCEPT !.cells = t]
  BY DEF Widened
<1>. HIDE DEF t, c
<1>4. Len(t) >= cx
  BY <1>1, <1>2
<1>. QED  BY <1>2, <1>3, <1>4 DEF IsLine

(* A line of the screen that is not shown is as long as the window is wide. *)
LEMMA FittedIs ==
  ASSUME NEW l, IsLine(l), NEW cx \in Nat
  PROVE  IsLine(Fitted(l, cx)) /\ Len(Fitted(l, cx).cells) >= cx
<1>. DEFINE c == l.cells
            n == BlankChars(c)
            m == Max({Len(c) - cx, 0})
            over == Min({m, n})
            p == Padded(c, cx, Blank)
            e == Max({Len(c), cx}) - over
            t == SubSeq(p, 1, e)
<1>1. IsSeq(c) /\ Len(c) \in Nat
  BY SeqLen DEF IsLine
<1>2. n \in 0 .. Len(c)
  <2>. HIDE DEF c
  <2>. QED  BY <1>1, BlankCharsIn
<1>3. m \in Int /\ m = IF Len(c) - cx >= 0 THEN Len(c) - cx ELSE 0
  <2>. HIDE DEF c
  <2>. QED  BY <1>1, MaxOf
<1>4. over \in Int /\ over <= m
  <2>. HIDE DEF m, n, c
  <2>. QED  BY <1>1, <1>2, <1>3, MinOf
<1>5. IsSeq(p) /\ Len(p) = IF Len(c) < cx THEN cx ELSE Len(c)
  <2>. HIDE DEF c
  <2>. QED  BY <1>1, PaddedLen
<1>6. Max({Len(c), cx}) = IF Len(c) >= cx THEN Len(c) ELSE cx
  <2>. HIDE DEF c
  <2>. QED  BY <1>1, MaxOf
<1>7. e \in Int /\ e >= cx
  <2>. HIDE DEF c, p, over, m
  <2>. QED  BY <1>1, <1>3, <1>4, <1>6
<1>8. IsSeq(t) /\ Len(t) = IF 1 <= e THEN e ELSE 0
  <2>1. e \in Int
    BY <1>7
  <2>. HIDE DEF e, p
  <2>. QED  BY <2>1, SeqPrefix
<1>9. Fitted(l, cx) = [l EXCEPT !.cells = t]
  BY DEF Fitted
<1>. HIDE DEF t, c, e
<1>10. Len(t) >= cx
  BY <1>7, <1>8
<1>. QED  BY <1>8, <1>9, <1>10 DEF IsLine

-----------------------------------------------------------------------------
(* A line into the history: the history stays bounded, the screen is not    *)
(* touched.                                                                 *)
LEMMA HistoryPushed ==
  ASSUME NEW max, NEW v, Loose(v, max), NEW line, IsLine(line)
  PROVE  \A w : w = PushToLinesBufferAndCheck(v, line) =>
           /\ Loose(w, max)
           /\ \A f \in UntouchedByHistory : w[f] = v[f]
<1>. DEFINE a == Append(v.hist, Stored(line))
            r == PushToLinesBufferAndCheck(v, line)
<1>1. IsLine(Stored(line)) /\ Len(Stored(line).cells) >= 0
  BY StoredIs
<1>2. LinesOf(v.hist, 0) /\ Len(v.hist) \in Nat /\ Len(v.hist) <= max /\ v.limit <= max /\ v.limit \in Nat
  BY SeqLen DEF Loose, History, LinesOf
<1>3. LinesOf(a, 0) /\ Len(a) = Len(v.hist) + 1 /\ a # <<>>
  BY <1>1, <1>2, LinesAppend
<1>4. LinesOf(Tail(a), 0) /\ Len(Tail(a)) = Len(v.hist)
  <2>. HIDE DEF a
  <2>. QED  BY <1>2, <1>3, LinesTail
<1>5. CASE Len(v.hist) >= v.limit
  <2>1. \E s : r = [v EXCEPT !.hist = Tail(a), !.sel = s]
    BY <1>5 DEF PushToLinesBufferAndCheck
  <2>2. PICK s : r = [v EXCEPT !.hist = Tail(a), !.sel = s]
    BY <2>1
  <2>. HIDE DEF r, a
  <2>3. History(Tail(a), max)
    BY <1>2, <1>4 DEF History
  <2>. QED  BY <2>2, <2>3 DEF Loose, Fields, r, UntouchedByHistory
<1>6. CASE ~(Len(v.hist) >= v.limit)
  <2>1. r = [v EXCEPT !.hist = a]
    BY <1>6 DEF PushToLinesBufferAndCheck
  <2>2. History(a, max)
    <3>. HIDE DEF a
    <3>1. Len(a) <= max
      <4>1. max \in Nat
        BY DEF Loose
      <4>. QED  BY <1>2, <1>3, <1>6, <4>1
    <3>. QED  BY <1>3, <3>1 DEF History
  <2>. HIDE DEF r, a
  <2>. QED  BY <2>1, <2>2 DEF Loose, Fields, r, UntouchedByHistory
<1>. QED  BY <1>5, <1>6

\* The module's fold is the one of the model.
LEMMA PushFold ==
  ASSUME NEW base, NEW s
  PROVE  FoldLeft(PushToLinesBufferAndCheck, base, s) = Push!FoldLeft(PushToLinesBufferAndCheck, base, s)
BY DEF FoldLeft, Push!FoldLeft, MapThenFoldSet, Push!MapThenFoldSet, Max, Push!Max

(* Lines into the history, one after the other.                             *)
LEMMA HistoryPushedAll ==
  ASSUME NEW max, NEW v, Loose(v, max), NEW ls, LinesOf(ls, 0)
  PROVE  /\ Loose(FoldLeft(PushToLinesBufferAndCheck, v, ls), max)
         /\ \A f \in UntouchedByHistory : FoldLeft(PushToLinesBufferAndCheck, v, ls)[f] = v[f]
<1>. DEFINE env == <<v, max>>
<1>1. Len(ls) \in Nat /\ DOMAIN ls = 1 .. Len(ls)
  BY SeqLen DEF LinesOf
<1>2. Pushing(env, 0, v)
  BY DEF Pushing
<1>3. \A x : \A i \in 1 .. Len(ls) :
        Pushing(env, i - 1, x) => Pushing(env, i, PushToLinesBufferAndCheck(x, ls[i]))
  <2>1. SUFFICES ASSUME NEW x, NEW i \in 1 .. Len(ls), Loose(x, max), \A f \in UntouchedByHistory : x[f] = v[f]
                 PROVE  /\ Loose(PushToLinesBufferAndCheck(x, ls[i]), max)
                        /\ \A f \in UntouchedByHistory : PushToLinesBufferAndCheck(x, ls[i])[f] = v[f]
    BY DEF Pushing
  <2>2. IsLine(ls[i])
    BY DEF LinesOf
  <2>. DEFINE w == PushToLinesBufferAndCheck(x, ls[i])
  <2>3. Loose(w, max) /\ \A f \in UntouchedByHistory : w[f] = x[f]
    BY <2>1, <2>2, HistoryPushed
  <2>. HIDE DEF w
  <2>4. Loose(w, max) /\ \A f \in UntouchedByHistory : w[f] = v[f]
    BY <2>1, <2>3
  <2>. QED  BY <2>4 DEF w
<1>. HIDE DEF env
<1>4. Pushing(env, Len(ls), FoldLeft(PushToLinesBufferAndCheck, v, ls))
  BY <1>1, <1>2, <1>3, PushFold, Push!FoldLeftKeeps
<1>. QED  BY <1>4 DEF Pushing, env

(* Lines of some width are lines of any width. *)
LEMMA LinesWeaker ==
  ASSUME NEW ls, NEW w \in Nat, LinesOf(ls, w)
  PROVE  LinesOf(ls, 0)
<1>1. ASSUME NEW i \in 1 .. Len(ls)  PROVE IsLine(ls[i]) /\ Len(ls[i].cells) >= 0
  <2>1. IsLine(ls[i]) /\ Len(ls[i].cells) >= w /\ Len(ls[i].cells) \in Nat
    BY LinesEach
  <2>. QED  BY <2>1
<1>. QED  BY <1>1 DEF LinesOf

(* ExtendVirtualScreen: lines come back from the history, or blank ones     *)
(* come in, until the screen is high enough.                                *)
LEMMA Extended ==
  ASSUME NEW max, NEW v, Loose(v, max), LinesOf(v.lines, v.cx), Len(v.lines) <= v.cy
  PROVE  /\ Body(ExtendVirtualScreen(v, v.cx, v.cy), max)
         /\ ExtendVirtualScreen(v, v.cx, v.cy).alt = v.alt
<1>. DEFINE cx == v.cx
            cy == v.cy
            ls == v.lines
            h == v.hist
            lack == cy - Len(ls)
            n == IF v.bot < 0 \/ v.bot >= cy THEN Min({lack, Len(h)}) ELSE 0
            pulled == SubSeq(h, Len(h) - n + 1, Len(h))
            a == [i \in 1 .. n |-> Widened(pulled[i], cx)]
            b == Fill(lack - n, Line(Fill(cx, Blank)))
            k == SubSeq(h, 1, Len(h) - n)
            w == [v EXCEPT !.hist = k, !.lines = a \o ls \o b, !.vy = @ + n]
<1>1. /\ cx \in Nat /\ cy \in Nat /\ Len(ls) \in Nat /\ Len(ls) <= cy
      /\ LinesOf(h, 0) /\ Len(h) \in Nat /\ Len(h) <= max /\ max \in Nat
  BY SeqLen DEF Loose, History, LinesOf
<1>2. n \in Nat /\ n <= lack /\ n <= Len(h) /\ lack \in Nat
  <2>1. lack \in Nat
    BY <1>1
  <2>. HIDE DEF lack, h, cy
  <2>2. Min({lack, Len(h)}) = IF lack <= Len(h) THEN lack ELSE Len(h)
    BY <1>1, <2>1, MinOf
  <2>. QED  BY <1>1, <2>1, <2>2
<1>3. LinesOf(k, 0) /\ Len(k) <= max
  <2>. HIDE DEF h, n
  <2>1. LinesOf(k, 0) /\ Len(k) = IF 1 <= Len(h) - n THEN Len(h) - n - 1 + 1 ELSE 0
    BY <1>1, <1>2, LinesSub
  <2>. HIDE DEF k
  <2>. QED  BY <1>1, <1>2, <2>1
<1>4. LinesOf(a, cx) /\ Len(a) = n
  <2>1. a = [i \in 1 .. n |-> a[i]]
    OBVIOUS
  <2>2. ASSUME NEW i \in 1 .. n  PROVE IsLine(a[i]) /\ Len(a[i].cells) >= cx
    <3>1. a[i] = Widened(pulled[i], cx)
      OBVIOUS
    <3>2. IsLine(pulled[i])
      <4>. HIDE DEF h, n
      <4>1. LinesOf(pulled, 0) /\ Len(pulled) = n
        BY <1>1, <1>2, LinesSub
      <4>. HIDE DEF pulled
      <4>. QED  BY <4>1 DEF LinesOf
    <3>. HIDE DEF a, pulled, cx
    <3>. QED  BY <1>1, <3>1, <3>2, WidenedIs
  <2>. HIDE DEF a, n
  <2>. QED  BY <1>2, <2>1, <2>2, LinesMade
<1>5. LinesOf(b, cx) /\ Len(b) = lack - n
  <2>. DEFINE l == Line(Fill(cx, Blank))
              d == lack - n
  <2>1. IsLine(l) /\ Len(l.cells) >= cx
    BY <1>1, FillLen DEF Line, IsLine
  <2>2. d \in Nat
    <3>. HIDE DEF n, lack
    <3>. QED  BY <1>2
  <2>3. LinesOf(Fill(d, l), cx) /\ Len(Fill(d, l)) = d
    <3>. HIDE DEF l, d, cx
    <3>. QED  BY <2>1, <2>2, LinesFill
  <2>. QED  BY <2>3
<1>6. ExtendVirtualScreen(v, v.cx, v.cy) = w
  BY DEF ExtendVirtualScreen
<1>. HIDE DEF a, b, k, n
<1>7. LinesOf(a \o ls, cx) /\ Len(a \o ls) = Len(a) + Len(ls)
  BY <1>4, LinesConcat
<1>8. LinesOf(a \o ls \o b, cx) /\ Len(a \o ls \o b) = Len(a \o ls) + Len(b)
  BY <1>5, <1>7, LinesConcat
<1>9. Len(a \o ls \o b) = cy
  <2>1. lack + Len(ls) = cy
    BY <1>1
  <2>. HIDE DEF lack, cy, ls
  <2>2. Len(a \o ls \o b) = n + Len(ls) + (lack - n)
    BY <1>4, <1>5, <1>7, <1>8
  <2>. QED  BY <1>1, <1>2, <2>1, <2>2
<1>10. Grid(a \o ls \o b, v.cy, v.cx) /\ History(k, max)
  BY <1>3, <1>8, <1>9 DEF Grid, History
<1>. QED  BY <1>2, <1>6, <1>10 DEF Body, Loose, Fields

(* ShrinkVirtualScreen: blank lines go, then lines go into the history,     *)
(* until the screen is low enough.                                          *)
LEMMA Shrunk ==
  ASSUME NEW max, NEW v, Loose(v, max), LinesOf(v.lines, v.cx), Len(v.lines) >= v.cy
  PROVE  /\ Body(ShrinkVirtualScreen(v, v.cx, v.cy), max)
         /\ ShrinkVirtualScreen(v, v.cx, v.cy).cx = v.cx
         /\ ShrinkVirtualScreen(v, v.cx, v.cy).cy = v.cy
         /\ ShrinkVirtualScreen(v, v.cx, v.cy).alt = v.alt
<1>. DEFINE cy == v.cy
            ls == v.lines
            size == Len(ls)
            m == Min({size - cy, BlankLines(ls), size - v.vy})
            popped == Max({0, m})
            pushed == size - cy - popped
            gone == SubSeq(ls, 1, pushed)
            w == FoldLeft(PushToLinesBufferAndCheck, v, gone)
            left == SubSeq(ls, pushed + 1, size - popped)
            y == Max({Min({v.vy, 0}), v.vy - pushed})
<1>1. cy \in Nat /\ v.cx \in Nat /\ size \in Nat /\ size >= cy /\ IsSeq(ls) /\ v.vy \in Int
  BY SeqLen DEF Loose, LinesOf
<1>2. BlankLines(ls) \in Int
  <2>1. BlankLines(ls) \in 0 .. size
    <3>. HIDE DEF ls
    <3>. QED  BY <1>1, BlankLinesIn
  <2>. QED  BY <1>1, <2>1
<1>3. m \in Int /\ m <= size - cy
  <2>1. size - cy \in Int /\ size - v.vy \in Int
    BY <1>1
  <2>. DEFINE d == size - cy
              e == size - v.vy
              c == BlankLines(ls)
  <2>2. d \in Int /\ e \in Int /\ c \in Int
    BY <1>2, <2>1
  <2>3. Min({d, c, e}) \in {d, c, e} /\ Min({d, c, e}) <= d
    <3>. HIDE DEF d, e, c
    <3>. QED  BY <2>2, MinOfThree
  <2>. HIDE DEF d, e, c
  <2>4. Min({d, c, e}) \in Int
    BY <2>2, <2>3
  <2>. QED  BY <2>3, <2>4 DEF d, e, c
<1>4. popped \in Nat /\ popped <= size - cy
  <2>. HIDE DEF m, size, cy
  <2>1. popped = IF 0 >= m THEN 0 ELSE m
    BY <1>3, MaxOf
  <2>. QED  BY <1>1, <1>3, <2>1
<1>5. pushed \in Nat /\ pushed + cy + popped = size
  <2>. HIDE DEF popped, size, cy
  <2>. QED  BY <1>1, <1>4
<1>6. LinesOf(gone, 0)
  <2>. DEFINE w0 == v.cx
              one == 1
  <2>1. w0 \in Nat /\ LinesOf(ls, w0) /\ one \in Int /\ pushed \in Int
        /\ (one <= pushed => 1 <= one /\ pushed <= Len(ls))
    <3>1. pushed <= size /\ pushed \in Int
      <4>. HIDE DEF pushed, size, popped, cy
      <4>. QED  BY <1>1, <1>4, <1>5
    <3>. HIDE DEF pushed
    <3>. QED  BY <1>1, <3>1
  <2>. HIDE DEF w0, ls, pushed
  <2>2. LinesOf(SubSeq(ls, one, pushed), w0)
    <3>. HIDE DEF one
    <3>. QED  BY <2>1, LinesSub
  <2>3. LinesOf(SubSeq(ls, one, pushed), 0)
    BY <2>1, <2>2, LinesWeaker
  <2>. QED  BY <2>3
<1>7. LinesOf(left, v.cx) /\ Len(left) = v.cy
  <2>. DEFINE from == pushed + 1
              to == size - popped
  <2>1. from \in Int /\ to \in Int /\ 1 <= from /\ to <= size /\ to - from + 1 = cy /\ (cy > 0 => from <= to)
    <3>. HIDE DEF popped, pushed, size, cy
    <3>. QED  BY <1>1, <1>4, <1>5
  <2>2. /\ LinesOf(SubSeq(ls, from, to), v.cx)
        /\ Len(SubSeq(ls, from, to)) = IF from <= to THEN to - from + 1 ELSE 0
    <3>. HIDE DEF from, to, ls
    <3>. QED  BY <2>1, LinesSub DEF ls
  <2>3. v.cy > 0
    BY DEF Loose
  <2>. QED  BY <2>1, <2>2, <2>3
<1>8. y \in Int
  <2>. HIDE DEF pushed
  <2>1. Min({v.vy, 0}) \in Int /\ v.vy - pushed \in Int
    BY <1>1, <1>5, MinOf
  <2>. QED  BY <2>1, MaxOf
<1>9. Loose(w, max) /\ \A f \in UntouchedByHistory : w[f] = v[f]
  <2>. HIDE DEF gone
  <2>. QED  BY <1>6, HistoryPushedAll
<1>10. w.cx = v.cx /\ w.cy = v.cy /\ w.lines = v.lines /\ w.vy = v.vy /\ w.alt = v.alt
  BY <1>9 DEF UntouchedByHistory
<1>11. ShrinkVirtualScreen(v, v.cx, v.cy)
         = [w EXCEPT !.lines = SubSeq(@, pushed + 1, size - popped), !.vy = Max({Min({@, 0}), @ - pushed})]
  BY DEF ShrinkVirtualScreen
<1>. HIDE DEF w, pushed, popped, size
<1>12. ShrinkVirtualScreen(v, v.cx, v.cy) = [w EXCEPT !.lines = left, !.vy = y]
  BY <1>10, <1>11
<1>. HIDE DEF left, y
<1>13. Grid(left, w.cy, w.cx)
  BY <1>7, <1>10 DEF Grid
<1>. QED  BY <1>8, <1>9, <1>10, <1>12, <1>13 DEF Body, Loose, Fields

-----------------------------------------------------------------------------
(* The cursor brought back, and the two positions brought in step.         *)

\* What of a screen the end of a sequence leaves alone.
Still(v, w) ==
  /\ w.cx = v.cx /\ w.cy = v.cy /\ w.py = v.py /\ w.top = v.top /\ w.bot = v.bot
  /\ w.alt = v.alt /\ w.decp = v.decp

(* ProcessOverflowChars leaves the cursor on a line that reaches it, and   *)
(* in its row if that is one.                                              *)
LEMMA OverflowCharsIs ==
  ASSUME NEW max, NEW v, Body(v, max), NEW w, w = ProcessOverflowChars(v)
  PROVE  /\ Body(w, max) /\ OnLine(w) /\ Placed(w) /\ Still(v, w)
         /\ v.vy \in 0 .. v.cy - 1 => w.vy = v.vy
<1>. DEFINE ls == v.lines
            x == Max({v.vx, 0})
            y == Max({v.vy, 0})
            s == ls[y + 1].cells
            t == Padded(s, x + 1, Blank)
            f == [ls EXCEPT ![y + 1].cells = t]
<1>1. /\ LinesOf(ls, v.cx) /\ Len(ls) = v.cy /\ DOMAIN ls = 1 .. Len(ls)
      /\ v.cy \in Nat /\ v.cy > 0 /\ v.cx \in Nat /\ v.vx \in Int /\ v.vy \in Int
  BY SeqLen DEF Body, Loose, Grid, LinesOf
<1>2. x \in Nat
  <2>1. x = IF v.vx >= 0 THEN v.vx ELSE 0
    BY <1>1, MaxOf
  <2>. QED  BY <1>1, <2>1
<1>3. y \in Nat /\ y = IF v.vy >= 0 THEN v.vy ELSE 0
  <2>1. y = IF v.vy >= 0 THEN v.vy ELSE 0
    BY <1>1, MaxOf
  <2>. QED  BY <1>1, <2>1
<1>4. CASE y < Len(ls)
  <2>1. w = [v EXCEPT !.vx = x, !.vy = y, !.lines = f]
    BY <1>4 DEF ProcessOverflowChars
  <2>2. y + 1 \in 1 .. Len(ls)
    <3>. HIDE DEF y, ls
    <3>. QED  BY <1>1, <1>3, <1>4
  <2>3. IsLine(ls[y + 1]) /\ Len(ls[y + 1].cells) >= v.cx
    <3>. HIDE DEF y, ls
    <3>. QED  BY <1>1, <2>2 DEF LinesOf
  <2>4. IsSeq(s) /\ Len(s) \in Nat
    BY <2>3, SeqLen DEF IsLine
  <2>5. IsSeq(t) /\ Len(t) = IF Len(s) < x + 1 THEN x + 1 ELSE Len(s)
    <3>. HIDE DEF s, x
    <3>. QED  BY <1>2, <2>4, PaddedLen
  <2>. HIDE DEF x, y, t
  <2>6. Len(t) >= v.cx /\ x < Len(t)
    <3>1. Len(s) >= v.cx
      BY <2>3
    <3>. HIDE DEF s
    <3>. QED  BY <1>1, <1>2, <2>4, <2>5, <3>1
  <2>7. f = [j \in DOMAIN ls |-> f[j]] /\ f[y + 1].cells = t
    BY <1>1, <2>2, <2>3 DEF IsLine
  <2>8. ASSUME NEW j \in 1 .. Len(ls)  PROVE IsLine(f[j]) /\ Len(f[j].cells) >= v.cx
    <3>1. IsLine(ls[j]) /\ Len(ls[j].cells) >= v.cx
      BY <1>1 DEF LinesOf
    <3>2. f[j] = IF j = y + 1 THEN [ls[j] EXCEPT !.cells = t] ELSE ls[j]
      BY <1>1
    <3>. HIDE DEF f
    <3>. QED  BY <2>5, <2>6, <3>1, <3>2 DEF IsLine
  <2>. HIDE DEF f
  <2>9. LinesOf(f, v.cx) /\ Len(f) = Len(ls)
    <3>. HIDE DEF ls
    <3>. QED  BY <1>1, <2>7, <2>8, LinesLike
  <2>10. /\ w.vx = x /\ w.vy = y /\ w.lines = f /\ w.cx = v.cx /\ w.cy = v.cy
         /\ Loose(w, max) /\ Still(v, w)
    BY <1>2, <1>3, <2>1 DEF Body, Loose, Fields, Still
  <2>11. Grid(w.lines, w.cy, w.cx)
    BY <1>1, <2>9, <2>10 DEF Grid
  <2>12. OnLine(w) /\ Placed(w)
    <3>1. CellsAt(w, w.vy) = t
      BY <2>7, <2>10 DEF CellsAt, LineAt
    <3>2. w.vy \in 0 .. Len(w.lines) - 1
      <4>. HIDE DEF ls
      <4>. QED  BY <1>1, <1>3, <1>4, <2>9, <2>10
    <3>. QED  BY <1>2, <1>3, <2>6, <2>10, <3>1, <3>2 DEF OnLine, Placed
  <2>. QED  BY <1>1, <1>3, <2>10, <2>11, <2>12 DEF Body
<1>5. CASE ~(y < Len(ls))
  <2>1. w = [v EXCEPT !.vx = x, !.vy = Len(ls) - 1]
    BY <1>5 DEF ProcessOverflowChars
  <2>2. ~(v.vy \in 0 .. v.cy - 1)
    <3>. HIDE DEF y, ls
    <3>. QED  BY <1>1, <1>3, <1>5
  <2>. HIDE DEF x
  <2>3. Loose(w, max) /\ Still(v, w) /\ w.lines = ls /\ w.cx = v.cx /\ w.cy = v.cy
        /\ w.vx = x /\ w.vy = Len(ls) - 1
    BY <1>1, <1>2, <2>1 DEF Body, Loose, Fields, Still
  <2>. HIDE DEF ls
  <2>4. OnLine(w) /\ Placed(w)
    BY <1>1, <1>2, <2>3 DEF OnLine, Placed
  <2>. QED  BY <1>1, <2>2, <2>3, <2>4 DEF Body, Grid
<1>. QED  BY <1>4, <1>5

(* The page's column alone changes.                                        *)
LEMMA PresentationX ==
  ASSUME NEW v
  PROVE  \E e : UpdatePresentationPosX(v) = [v EXCEPT !.px = e]
BY DEF UpdatePresentationPosX

(* The page position follows the cursor.                                    *)
LEMMA PresentationIs ==
  ASSUME NEW max, NEW v, Body(v, max), OnLine(v), Placed(v), NEW w,
         w = UpdatePresentationPos(v) \/ w = UpdatePresentationPosX(v) \/ w = UpdatePresentationPosY(v)
  PROVE  /\ Body(w, max) /\ OnLine(w) /\ Placed(w)
         /\ w.top = v.top /\ w.bot = v.bot /\ w.cx = v.cx /\ w.cy = v.cy /\ w.vy = v.vy
         /\ w.alt = v.alt /\ w.decp = v.decp
         /\ w = UpdatePresentationPos(v) => w.py = w.vy
<1>1. ASSUME NEW u, NEW e, Body(u, max), OnLine(u), Placed(u), NEW r, r = [u EXCEPT !.px = e]
      PROVE  /\ Body(r, max) /\ OnLine(r) /\ Placed(r)
             /\ r.top = u.top /\ r.bot = u.bot /\ r.cx = u.cx /\ r.cy = u.cy /\ r.vy = u.vy /\ r.py = u.py
             /\ r.alt = u.alt /\ r.decp = u.decp
  BY <1>1 DEF Body, Loose, Fields, OnLine, Placed, CellsAt, LineAt
<1>. DEFINE y == UpdatePresentationPosY(v)
<1>2. /\ Body(y, max) /\ OnLine(y) /\ Placed(y)
      /\ y.top = v.top /\ y.bot = v.bot /\ y.cx = v.cx /\ y.cy = v.cy /\ y.vy = v.vy /\ y.py = y.vy
      /\ y.alt = v.alt /\ y.decp = v.decp
  BY DEF Body, Loose, Fields, OnLine, Placed, CellsAt, LineAt, UpdatePresentationPosY
<1>3. CASE w = UpdatePresentationPosX(v)
  <2>1. PICK e : w = [v EXCEPT !.px = e]
    BY <1>3, PresentationX
  <2>2. Body(w, max) /\ OnLine(w) /\ Placed(w)
        /\ w.top = v.top /\ w.bot = v.bot /\ w.cx = v.cx /\ w.cy = v.cy /\ w.vy = v.vy
        /\ w.alt = v.alt /\ w.decp = v.decp
    BY <1>1, <2>1
  <2>3. w = UpdatePresentationPos(v) => w.py = w.vy
    <3>1. PICK d : UpdatePresentationPos(v) = [y EXCEPT !.px = d]
      BY PresentationX DEF UpdatePresentationPos
    <3>. HIDE DEF y
    <3>2. ASSUME w = [y EXCEPT !.px = d]  PROVE w.py = w.vy
      BY <1>1, <1>2, <3>2
    <3>. QED  BY <3>1, <3>2
  <2>. QED  BY <2>2, <2>3
<1>4. CASE w = UpdatePresentationPosY(v)
  BY <1>2, <1>4
<1>5. CASE w = UpdatePresentationPos(v)
  <2>1. PICK d : w = [y EXCEPT !.px = d]
    BY <1>5, PresentationX DEF UpdatePresentationPos
  <2>. HIDE DEF y
  <2>. QED  BY <1>1, <1>2, <2>1
<1>. QED  BY <1>3, <1>4, <1>5

-----------------------------------------------------------------------------
(* A screen in shape whose cursor is on a line and where the page says.    *)
Shaped(w, max) == Screen(w, max) /\ OnLine(w) /\ Placed(w) /\ w.py = w.vy

(* ResizeVt gives a screen of any lines the shape of its new size.         *)
LEMMA ResizedIs ==
  ASSUME NEW max, NEW v, Loose(v, max), LinesOf(v.lines, 0),
         NEW cx \in Nat, cx > 0, NEW cy \in Nat, cy > 0, NEW w, w = ResizeVt(v, cx, cy)
  PROVE  Shaped(w, max) /\ w.cx = cx /\ w.cy = cy /\ w.alt = v.alt
<1>. DEFINE ls == v.lines
            f == [j \in DOMAIN ls |-> Fitted(ls[j], cx)]
            u == [v EXCEPT !.cx = cx, !.cy = cy, !.lines = f]
            sized == IF Len(ls) < cy THEN ExtendVirtualScreen(u, cx, cy) ELSE ShrinkVirtualScreen(u, cx, cy)
            o == ProcessOverflowChars(sized)
            p == UpdatePresentationPos(o)
<1>1. IsSeq(ls) /\ Len(ls) \in Nat /\ DOMAIN ls = 1 .. Len(ls)
  BY SeqLen DEF LinesOf
<1>2. LinesOf(f, cx) /\ Len(f) = Len(ls)
  <2>1. f = [j \in DOMAIN ls |-> f[j]]
    OBVIOUS
  <2>2. ASSUME NEW j \in 1 .. Len(ls)  PROVE IsLine(f[j]) /\ Len(f[j].cells) >= cx
    <3>1. IsLine(ls[j])
      BY DEF LinesOf
    <3>2. f[j] = Fitted(ls[j], cx)
      BY <1>1
    <3>. HIDE DEF f, ls
    <3>. QED  BY <3>1, <3>2, FittedIs
  <2>. HIDE DEF f, ls
  <2>. QED  BY <2>1, <2>2, LinesLike DEF ls
<1>3. u.lines = f /\ u.cx = cx /\ u.cy = cy /\ u.alt = v.alt /\ Loose(u, max)
  <2>. HIDE DEF f
  <2>. QED  BY DEF Loose, Fields
<1>4. w = [p EXCEPT !.top = 0, !.bot = -1]
  BY DEF ResizeVt
<1>. HIDE DEF u, f, ls
<1>5. Body(sized, max) /\ sized.cx = cx /\ sized.cy = cy /\ sized.alt = v.alt
  <2>1. CASE Len(ls) < cy
    <3>1. LinesOf(u.lines, u.cx) /\ Len(u.lines) <= u.cy
      BY <1>1, <1>2, <1>3, <2>1
    <3>2. Body(ExtendVirtualScreen(u, u.cx, u.cy), max) /\ ExtendVirtualScreen(u, u.cx, u.cy).alt = u.alt
      BY <1>3, <3>1, Extended
    <3>3. sized = ExtendVirtualScreen(u, u.cx, u.cy)
      BY <1>3, <2>1
    <3>4. sized.cx = u.cx /\ sized.cy = u.cy
      <4>1. ExtendVirtualScreen(u, u.cx, u.cy).cx = u.cx /\ ExtendVirtualScreen(u, u.cx, u.cy).cy = u.cy
        BY <1>3 DEF ExtendVirtualScreen, Loose, Fields
      <4>. QED  BY <3>3, <4>1
    <3>. QED  BY <1>3, <3>2, <3>3, <3>4
  <2>2. CASE ~(Len(ls) < cy)
    <3>1. LinesOf(u.lines, u.cx) /\ Len(u.lines) >= u.cy
      BY <1>1, <1>2, <1>3, <2>2
    <3>2. /\ Body(ShrinkVirtualScreen(u, u.cx, u.cy), max)
          /\ ShrinkVirtualScreen(u, u.cx, u.cy).cx = u.cx
          /\ ShrinkVirtualScreen(u, u.cx, u.cy).cy = u.cy
          /\ ShrinkVirtualScreen(u, u.cx, u.cy).alt = u.alt
      BY <1>3, <3>1, Shrunk
    <3>3. sized = ShrinkVirtualScreen(u, u.cx, u.cy)
      BY <1>3, <2>2
    <3>. QED  BY <1>3, <3>2, <3>3
  <2>. QED  BY <2>1, <2>2
<1>. HIDE DEF sized
<1>6. Body(o, max) /\ OnLine(o) /\ Placed(o) /\ o.cx = cx /\ o.cy = cy /\ o.alt = v.alt
  BY <1>5, OverflowCharsIs DEF Still
<1>. HIDE DEF o
<1>7. Body(p, max) /\ OnLine(p) /\ Placed(p) /\ p.cx = cx /\ p.cy = cy /\ p.py = p.vy /\ p.alt = v.alt
  BY <1>6, PresentationIs
<1>. HIDE DEF p
<1>. QED  BY <1>4, <1>7 DEF Shaped, Screen, Body, Loose, Fields, Region, OnLine, Placed, CellsAt, LineAt

(* A layout of the window is nothing new to the screen, or leaves it in     *)
(* shape.                                                                   *)
LEMMA LaidOut ==
  ASSUME NEW max, NEW v, Screen(v, max), NEW cx \in Int, NEW cy \in Int
  PROVE  /\ Layout(v, cx, cy) = v \/ Shaped(Layout(v, cx, cy), max)
         /\ Layout(v, cx, cy).alt = v.alt
<1>1. LinesOf(v.lines, 0) /\ Loose(v, max)
  BY LinesWeaker DEF Screen, Grid, Loose
<1>2. CASE cx <= 0 \/ cy <= 0
  BY <1>2 DEF Layout
<1>3. CASE cx > 0 /\ cy > 0
  <2>1. cx \in Nat /\ cy \in Nat
    BY <1>3
  <2>2. Shaped(ResizeVt(v, cx, cy), max) /\ ResizeVt(v, cx, cy).alt = v.alt
    BY <1>1, <1>3, <2>1, ResizedIs
  <2>. QED  BY <1>3, <2>1, <2>2 DEF Layout
<1>. QED  BY <1>2, <1>3

(* No lines at all are lines.                                               *)
LEMMA EmptyLines == LinesOf(<<>>, 0) /\ Len(<<>>) = 0
BY SeqEmpty DEF LinesOf

(* ClearVt leaves a screen in shape, whatever the lines were.               *)
LEMMA Cleared ==
  ASSUME NEW max, NEW v, Loose(v, max)
  PROVE  Shaped(ClearVt(v), max) /\ ClearVt(v).alt = v.alt
<1>. DEFINE u == [v EXCEPT !.pen = DefaultPen, !.hist = <<>>, !.lines = <<>>]
            r == ResizeVt(u, v.cx, v.cy)
            w == ClearVt(v)
<1>1. Loose(u, max) /\ LinesOf(u.lines, 0) /\ u.alt = v.alt
  BY EmptyLines DEF Loose, Fields, History
<1>2. w = [r EXCEPT !.vx = 0, !.vy = 0, !.px = 0, !.py = 0]
  BY DEF ClearVt
<1>. HIDE DEF u
<1>3. Shaped(r, max) /\ r.alt = v.alt
  BY <1>1, ResizedIs DEF Loose
<1>. HIDE DEF r, w
<1>4. /\ w.vx = 0 /\ w.vy = 0 /\ w.py = 0 /\ Screen(w, max) /\ Placed(w) /\ w.alt = v.alt
      /\ Len(w.lines) = r.cy /\ r.cy > 0 /\ r.cy \in Nat
      /\ w.lines = r.lines /\ LinesOf(w.lines, r.cx) /\ r.cx > 0 /\ r.cx \in Nat
  BY <1>2, <1>3 DEF Shaped, Screen, Loose, Fields, Placed, Grid
<1>5. OnLine(w)
  <2>1. Len(w.lines[1].cells) >= r.cx /\ Len(w.lines[1].cells) \in Nat
    BY <1>4, LinesEach
  <2>. QED  BY <1>4, <2>1 DEF OnLine, CellsAt, LineAt
<1>. QED  BY <1>4, <1>5 DEF Shaped, w

(* SwapScr shows the other screen, fitted to the window.                    *)
LEMMA ScreensSwapped ==
  ASSUME NEW max, NEW v, Screen(v, max)
  PROVE  Shaped(SwapScr(v), max)
<1>. DEFINE a == v.alt
            b == [lines |-> v.lines, hist |-> v.hist, vx |-> v.vx, vy |-> v.vy,
                  pen |-> v.pen, sel |-> v.sel]
            u == [v EXCEPT !.lines = a.lines, !.hist = a.hist, !.vx = a.vx, !.vy = a.vy,
                           !.pen = a.pen, !.sel = a.sel, !.alt = b]
<1>1. LinesOf(v.lines, 0)
  BY LinesWeaker DEF Screen, Grid, Loose
<1>2. Other(b, max)
  BY <1>1 DEF Other, Screen, Loose
<1>3. SwapScr(v) = ResizeVt(u, v.cx, v.cy)
  BY DEF SwapScr
<1>. HIDE DEF b
<1>4. Loose(u, max) /\ LinesOf(u.lines, 0)
  BY <1>2 DEF Screen, Loose, Fields, Other
<1>. HIDE DEF u
<1>5. v.cx \in Nat /\ v.cx > 0 /\ v.cy \in Nat /\ v.cy > 0
  BY DEF Screen, Loose
<1>. QED  BY <1>3, <1>4, <1>5, ResizedIs

(* The options dialog: the font lays the window out, the limit bounds the   *)
(* history.                                                                 *)
LEMMA OptionsShown ==
  ASSUME NEW max, NEW v, Screen(v, max), NEW limit \in Nat, limit <= max, NEW font,
         NEW cx \in Int, NEW cy \in Int, NEW w, w = ShowVTOptions(v, limit, font, cx, cy)
  PROVE  /\ w.alt = v.alt
         /\ \/ Shaped(w, max)
            \/ Screen(w, max) /\ w.vx = v.vx /\ w.vy = v.vy /\ w.lines = v.lines
<1>. DEFINE h == v.hist
            cut == Max({0, Len(h) - limit})
            k == SubSeq(h, cut + 1, Len(h))
            u == [v EXCEPT !.limit = limit, !.hist = k]
<1>1. CASE ~font
  BY <1>1 DEF ShowVTOptions, Screen, Loose, Fields
<1>2. CASE font
  <2>1. LinesOf(h, 0) /\ Len(h) \in Nat /\ Len(h) <= max /\ max \in Nat
    BY SeqLen DEF Screen, Loose, History, LinesOf
  <2>2. cut \in Nat
    <3>. DEFINE d == Len(h) - limit
    <3>1. d \in Int
      BY <2>1
    <3>2. Max({0, d}) = IF 0 >= d THEN 0 ELSE d
      <4>. HIDE DEF d
      <4>. QED  BY <3>1, MaxOf
    <3>. QED  BY <3>1, <3>2
  <2>3. LinesOf(k, 0) /\ Len(k) <= max
    <3>. DEFINE from == cut + 1
                to == Len(h)
    <3>1. from \in Int /\ 1 <= from /\ to \in Nat /\ to <= max
      <4>. HIDE DEF cut
      <4>. QED  BY <2>1, <2>2
    <3>. HIDE DEF h, from
    <3>2. LinesOf(SubSeq(h, from, to), 0) /\ Len(SubSeq(h, from, to)) = IF from <= to THEN to - from + 1 ELSE 0
      BY <2>1, <3>1, LinesSub
    <3>. HIDE DEF to
    <3>3. Len(SubSeq(h, from, to)) <= max
      BY <2>1, <3>1, <3>2
    <3>. QED  BY <3>2, <3>3 DEF from, to
  <2>. HIDE DEF k, cut
  <2>4. Screen(u, max) /\ u.vx = v.vx /\ u.vy = v.vy /\ u.lines = v.lines /\ u.alt = v.alt
    BY <2>3 DEF Screen, Loose, Fields, History
  <2>5. w = Layout(u, cx, cy)
    BY <1>2 DEF ShowVTOptions, k, cut
  <2>. HIDE DEF u
  <2>6. (w = u \/ Shaped(w, max)) /\ w.alt = u.alt
    BY <2>4, <2>5, LaidOut
  <2>. QED  BY <2>4, <2>6
<1>. QED  BY <1>1, <1>2

(* DECSTR clears the screen.                                               *)
LEMMA SoftReset ==
  ASSUME NEW max, NEW v, Screen(v, max)
  PROVE  Shaped(ProcessDECSTR(v), max) /\ ProcessDECSTR(v).alt = v.alt
<1>. DEFINE a == WithMode(v, DECAWM, 0)
            u == [a EXCEPT !.showCursor = TRUE, !.wrap = FALSE, !.top = 0, !.bot = 23]
<1>1. Screen(a, max) /\ a.alt = v.alt
  BY ModeSets DEF Drawn
<1>. HIDE DEF a
<1>2. Loose(u, max) /\ u.alt = v.alt
  BY <1>1 DEF Screen, Loose, Fields
<1>3. ProcessDECSTR(v) = ClearVt(u)
  BY DEF ProcessDECSTR, a
<1>. HIDE DEF u
<1>. QED  BY <1>2, <1>3, Cleared

-----------------------------------------------------------------------------
(* The modes, and the functions that take the screen through a new size.    *)

\* A screen again, and the row of the page is what it was or the cursor's.
Settled(v, w, max) ==
  /\ Screen(w, max)
  /\ w.py = v.py \/ (w.py = w.vy /\ w.vy \in 0 .. w.cy - 1)
\* The same, with the cursor where it can be used, and on a line if it was on one.
Steady(v, w, max) == Settled(v, w, max) /\ Placed(w) /\ (OnLine(v) => OnLine(w))

(* A screen in shape is all that a mode has to leave.                       *)
LEMMA ShapedIsSteady ==
  ASSUME NEW max, NEW v, NEW w, Shaped(w, max)
  PROVE  Steady(v, w, max)
BY DEF Shaped, Steady, Settled, Screen, Loose, Grid, OnLine

(* What only draws settles the row of the page.                             *)
LEMMA DrawnIsSettled ==
  ASSUME NEW max, NEW v, NEW w, Drawn(v, w, max)
  PROVE  Settled(v, w, max)
BY DEF Drawn, Settled

\* Neither the cursor nor the lines are touched.
LEMMA UntouchedIsSteady ==
  ASSUME NEW max, NEW v, NEW w, Drawn(v, w, max), Placed(v),
         w.vx = v.vx, w.vy = v.vy, w.lines = v.lines
  PROVE  Steady(v, w, max)
BY DEF Drawn, Steady, Settled, Placed, OnLine, CellsAt, LineAt

(* Remembering a mode.                                                      *)
LEMMA ModeIsSteady ==
  ASSUME NEW max, NEW v, NEW w, Steady(v, w, max), NEW m, NEW val
  PROVE  Steady(v, WithMode(w, m, val), max)
<1>. DEFINE r == WithMode(w, m, val)
<1>1. /\ r.vx = w.vx /\ r.vy = w.vy /\ r.lines = w.lines /\ r.py = w.py /\ r.cy = w.cy
      /\ Screen(r, max)
  BY DEF WithMode, Steady, Settled, Screen, Loose, Fields
<1>. HIDE DEF r
<1>. QED  BY <1>1 DEF Steady, Settled, Placed, OnLine, CellsAt, LineAt, r

(* The cursor home.                                                         *)
LEMMA HomeIsSteady ==
  ASSUME NEW max, NEW v, Screen(v, max)
  PROVE  Steady(v, SetCursorToHome(v), max)
<1>. DEFINE w == SetCursorToHome(v)
            y == IF Mode(v, DECOM, -1) = 1 THEN 0 ELSE v.top
<1>1. y \in Nat /\ y < v.cy
  <2>1. v.top \in Int /\ 0 <= v.top /\ v.top < v.cy /\ v.cy > 0 /\ v.cy \in Nat
    BY RegionIs DEF Screen, Loose
  <2>. QED  BY <2>1
<1>2. w = [v EXCEPT !.vx = 0, !.vy = y]
  BY DEF SetCursorToHome
<1>3. Drawn(v, w, max)
  BY Homed
<1>. HIDE DEF y
<1>4. w.vx = 0 /\ w.vy = y /\ w.lines = v.lines
  BY <1>2 DEF Screen, Loose, Fields
<1>. HIDE DEF w
<1>5. IsSeq(CellsAt(v, y)) /\ Len(CellsAt(v, y)) \in Nat /\ Len(CellsAt(v, y)) >= v.cx
  BY <1>1, RowIs
<1>6. CellsAt(w, y) = CellsAt(v, y) /\ v.cx \in Nat /\ v.cx > 0 /\ Len(v.lines) = v.cy
  BY <1>4 DEF CellsAt, LineAt, Screen, Loose, Grid
<1>7. OnLine(w) /\ Placed(w)
  BY <1>1, <1>4, <1>5, <1>6 DEF OnLine, Placed, Screen, Loose
<1>. QED  BY <1>3, <1>7 DEF Steady, Settled, Drawn, w

(* The modes of the VT100 and the VT220, set and reset: DECCOLM and DECOM   *)
(* move the cursor.                                                         *)
LEMMA OldModes ==
  ASSUME NEW max, NEW v, Screen(v, max), Placed(v), NEW m
  PROVE  /\ Steady(v, VT100DECSM(v, m), max) /\ Steady(v, VT100DECRM(v, m), max)
         /\ Steady(v, VT220DECSM(v, m), max) /\ Steady(v, VT220DECRM(v, m), max)
<1>. DEFINE on == [v EXCEPT !.wrap = TRUE]
            off == [v EXCEPT !.wrap = FALSE]
            show == [v EXCEPT !.showCursor = TRUE]
            hide == [v EXCEPT !.showCursor = FALSE]
<1>1. Steady(v, v, max)
  BY UntouchedIsSteady DEF Drawn
<1>2. Steady(v, Swapped(v), max)
  <2>1. Drawn(v, Swapped(v), max) /\ Swapped(v).vx = v.vx /\ Swapped(v).vy = v.vy /\ Swapped(v).lines = v.lines
    BY DEF Swapped, Drawn, Screen, Loose, Fields
  <2>. QED  BY <2>1, UntouchedIsSteady
<1>3. Steady(v, SetCursorToHome(v), max)
  BY HomeIsSteady
<1>4. Steady(v, on, max) /\ Steady(v, off, max) /\ Steady(v, show, max) /\ Steady(v, hide, max)
  <2>1. /\ Drawn(v, on, max) /\ Drawn(v, off, max) /\ Drawn(v, show, max) /\ Drawn(v, hide, max)
        /\ on.vx = v.vx /\ on.vy = v.vy /\ on.lines = v.lines
        /\ off.vx = v.vx /\ off.vy = v.vy /\ off.lines = v.lines
        /\ show.vx = v.vx /\ show.vy = v.vy /\ show.lines = v.lines
        /\ hide.vx = v.vx /\ hide.vy = v.vy /\ hide.lines = v.lines
    BY DEF Drawn, Screen, Loose, Fields
  <2>. HIDE DEF on, off, show, hide
  <2>. QED  BY <2>1, UntouchedIsSteady
<1>5. Steady(v, VT100DECSM(v, m), max)
  <2>. DEFINE u == CASE m = DECSCNM -> IF Mode(v, DECSCNM, 0) = 0 THEN Swapped(v) ELSE v
                     [] m = DECOM -> SetCursorToHome(v)
                     [] m = DECAWM -> on
                     [] OTHER -> v
  <2>1. u \in {Swapped(v), v, SetCursorToHome(v), on}
    BY DEF DECSCNM, DECOM, DECAWM
  <2>2. VT100DECSM(v, m) = WithMode(u, m, 1)
    BY DEF VT100DECSM
  <2>. HIDE DEF u, on
  <2>. QED  BY <1>1, <1>2, <1>3, <1>4, <2>1, <2>2, ModeIsSteady
<1>6. Steady(v, VT100DECRM(v, m), max)
  <2>. DEFINE u == CASE m = DECSCNM -> IF Mode(v, DECSCNM, -1) = 1 THEN Swapped(v) ELSE v
                     [] m = DECOM -> SetCursorToHome(v)
                     [] m = DECAWM -> off
                     [] OTHER -> v
  <2>1. u \in {Swapped(v), v, SetCursorToHome(v), off}
    BY DEF DECSCNM, DECOM, DECAWM
  <2>2. VT100DECRM(v, m) = WithMode(u, m, 0)
    BY DEF VT100DECRM
  <2>. HIDE DEF u, off
  <2>. QED  BY <1>1, <1>2, <1>3, <1>4, <2>1, <2>2, ModeIsSteady
<1>. HIDE DEF on, off, show, hide
<1>7. Steady(v, WithMode(show, m, 1), max) /\ Steady(v, WithMode(hide, m, 0), max)
  BY <1>4, ModeIsSteady
<1>. QED  BY <1>5, <1>6, <1>7 DEF VT220DECSM, VT220DECRM, show, hide

-----------------------------------------------------------------------------
(* The cursor saved and restored. *)

LEMMA CursorSaved ==
  ASSUME NEW max, NEW v, Screen(v, max), Placed(v)
  PROVE  Steady(v, SaveCursorData(v), max)
<1>. DEFINE w == SaveCursorData(v)
<1>1. v.py \in Nat /\ v.vx \in Nat /\ v.vy \in Nat
  BY DEF Screen, Loose, Placed
<1>2. Drawn(v, w, max) /\ w.vx = v.vx /\ w.vy = v.vy /\ w.lines = v.lines
  BY <1>1 DEF SaveCursorData, Drawn, Screen, Loose, Fields, Saved
<1>. HIDE DEF w
<1>. QED  BY <1>2, UntouchedIsSteady DEF w

\* The restored cursor need not be in a row of the screen.
LEMMA CursorRestored ==
  ASSUME NEW max, NEW v, Screen(v, max)
  PROVE  Screen(LoadCursorData(v), max) /\ Placed(LoadCursorData(v))
BY DEF LoadCursorData, Screen, Loose, Fields, Saved, Placed

(* The modes of the xterm: the alternate screen, and the saved cursor of    *)
(* 1048.                                                                    *)
LEMMA XtermModes ==
  ASSUME NEW max, NEW v, Screen(v, max), Placed(v), NEW m
  PROVE  /\ Steady(v, XtermDECSM(v, m), max)
         /\ Screen(XtermDECRM(v, m), max) /\ Placed(XtermDECRM(v, m))
         /\ m # 1048 => Steady(v, XtermDECRM(v, m), max)
<1>1. Steady(v, v, max)
  BY UntouchedIsSteady DEF Drawn
<1>2. Shaped(SwapScr(v), max) /\ Steady(v, SwapScr(v), max)
  BY ScreensSwapped, ShapedIsSteady
<1>3. Steady(v, ClearVt(SwapScr(v)), max)
  BY <1>2, Cleared, ShapedIsSteady DEF Shaped, Screen
<1>4. \A val : Drawn(v, WithMode(v, m, val), max) /\ Steady(v, WithMode(v, m, val), max)
  BY <1>1, ModeSets, ModeIsSteady
<1>5. Steady(v, XtermDECSM(v, m), max)
  <2>1. CASE m = 1048
    <3>. DEFINE u == WithMode(v, m, 1)
    <3>1. /\ Screen(u, max) /\ Placed(u) /\ u.py = v.py /\ u.vx = v.vx /\ u.vy = v.vy /\ u.lines = v.lines
      <4>1. Drawn(v, u, max) /\ Placed(u)
        BY <1>4 DEF Steady
      <4>2. u.vx = v.vx /\ u.vy = v.vy /\ u.lines = v.lines
        BY DEF WithMode, Screen, Loose, Fields
      <4>. QED  BY <4>1, <4>2 DEF Drawn
    <3>. HIDE DEF u
    <3>2. Steady(u, SaveCursorData(u), max)
      BY <3>1, CursorSaved
    <3>3. Steady(v, SaveCursorData(u), max)
      BY <3>1, <3>2 DEF Steady, Settled, OnLine, CellsAt, LineAt
    <3>4. m \notin AlternateModes
      BY <2>1 DEF AlternateModes
    <3>5. XtermDECSM(v, m) = SaveCursorData(u)
      BY <2>1, <3>4 DEF XtermDECSM, u
    <3>. QED  BY <3>3, <3>5
  <2>2. CASE m # 1048 /\ m \in AlternateModes
    <3>. DEFINE u == CASE OnAlternate(v) -> v
                       [] ~OnAlternate(v) /\ m = 1049 -> ClearVt(SwapScr(v))
                       [] OTHER -> SwapScr(v)
    <3>1. u \in {v, ClearVt(SwapScr(v)), SwapScr(v)}
      OBVIOUS
    <3>2. XtermDECSM(v, m) = WithMode(u, m, 1)
      BY <2>2 DEF XtermDECSM
    <3>. HIDE DEF u
    <3>. QED  BY <1>1, <1>2, <1>3, <3>1, <3>2, ModeIsSteady
  <2>3. CASE m # 1048 /\ m \notin AlternateModes
    BY <2>3, OldModes DEF XtermDECSM
  <2>. QED  BY <2>1, <2>2, <2>3
<1>6. ASSUME m # 1048  PROVE Steady(v, XtermDECRM(v, m), max)
  <2>1. CASE m \in AlternateModes
    <3>1. Steady(v, WithMode(WithMode(WithMode(SwapScr(v), 47, 0), 1047, 0), 1049, 0), max)
      <4>1. Steady(v, WithMode(SwapScr(v), 47, 0), max)
        BY <1>2, ModeIsSteady
      <4>2. Steady(v, WithMode(WithMode(SwapScr(v), 47, 0), 1047, 0), max)
        BY <4>1, ModeIsSteady
      <4>. QED  BY <4>2, ModeIsSteady
    <3>. QED  BY <1>1, <1>6, <2>1, <3>1 DEF XtermDECRM
  <2>2. CASE m \notin AlternateModes
    BY <1>6, <2>2, OldModes DEF XtermDECRM
  <2>. QED  BY <2>1, <2>2
<1>7. ASSUME m = 1048
      PROVE  Screen(XtermDECRM(v, m), max) /\ Placed(XtermDECRM(v, m))
  <2>1. Screen(LoadCursorData(WithMode(v, m, 0)), max) /\ Placed(LoadCursorData(WithMode(v, m, 0)))
    BY <1>4, CursorRestored DEF Drawn
  <2>2. m \notin AlternateModes
    BY <1>7 DEF AlternateModes
  <2>3. XtermDECRM(v, m) = LoadCursorData(WithMode(v, m, 0))
    BY <1>7, <2>2 DEF XtermDECRM
  <2>. QED  BY <2>1, <2>3
<1>. QED  BY <1>5, <1>6, <1>7 DEF Steady, Settled

\* From screen v to screen w the terminal stays on the alternate screen, and keeps the main
\* one as it was put aside.
AltKept(v, w) == OnAlternate(v) /\ OnAlternate(w) => w.alt = v.alt

(* A step that changes neither the screen put aside nor the modes.         *)
LEMMA AltCarried ==
  ASSUME NEW v, NEW u, NEW w, AltKept(v, u), w.alt = u.alt, w.decp = u.decp
  PROVE  AltKept(v, w)
BY DEF AltKept, OnAlternate, Mode

(* Saving and restoring the cursor, and the modes of the VT100 and VT220,   *)
(* leave the screen put aside alone.                                        *)
LEMMA AsideAlone ==
  ASSUME NEW v, Fields(v), NEW m
  PROVE  /\ SaveCursorData(v).alt = v.alt /\ LoadCursorData(v).alt = v.alt
         /\ VT100DECSM(v, m).alt = v.alt  /\ VT100DECRM(v, m).alt = v.alt
         /\ VT220DECSM(v, m).alt = v.alt  /\ VT220DECRM(v, m).alt = v.alt
<1>1. SaveCursorData(v).alt = v.alt /\ LoadCursorData(v).alt = v.alt
  BY DEF SaveCursorData, LoadCursorData, Fields
<1>2. ASSUME NEW u, Fields(u), u.alt = v.alt, NEW val  PROVE WithMode(u, m, val).alt = v.alt
  BY <1>2 DEF WithMode, Fields
<1>3. /\ Fields(Swapped(v)) /\ Swapped(v).alt = v.alt
      /\ Fields(SetCursorToHome(v)) /\ SetCursorToHome(v).alt = v.alt
      /\ \A val : /\ Fields([v EXCEPT !.wrap = val]) /\ [v EXCEPT !.wrap = val].alt = v.alt
                  /\ Fields([v EXCEPT !.showCursor = val]) /\ [v EXCEPT !.showCursor = val].alt = v.alt
  BY DEF Swapped, SetCursorToHome, Fields
<1>4. VT100DECSM(v, m).alt = v.alt
  <2>. DEFINE u == CASE m = DECSCNM -> IF Mode(v, DECSCNM, 0) = 0 THEN Swapped(v) ELSE v
                     [] m = DECOM -> SetCursorToHome(v)
                     [] m = DECAWM -> [v EXCEPT !.wrap = TRUE]
                     [] OTHER -> v
  <2>1. u \in {Swapped(v), v, SetCursorToHome(v), [v EXCEPT !.wrap = TRUE]}
    BY DEF DECSCNM, DECOM, DECAWM
  <2>2. VT100DECSM(v, m) = WithMode(u, m, 1)
    BY DEF VT100DECSM
  <2>. HIDE DEF u
  <2>3. Fields(u) /\ u.alt = v.alt
    BY <1>3, <2>1
  <2>. QED  BY <1>2, <2>2, <2>3
<1>5. VT100DECRM(v, m).alt = v.alt
  <2>. DEFINE u == CASE m = DECSCNM -> IF Mode(v, DECSCNM, -1) = 1 THEN Swapped(v) ELSE v
                     [] m = DECOM -> SetCursorToHome(v)
                     [] m = DECAWM -> [v EXCEPT !.wrap = FALSE]
                     [] OTHER -> v
  <2>1. u \in {Swapped(v), v, SetCursorToHome(v), [v EXCEPT !.wrap = FALSE]}
    BY DEF DECSCNM, DECOM, DECAWM
  <2>2. VT100DECRM(v, m) = WithMode(u, m, 0)
    BY DEF VT100DECRM
  <2>. HIDE DEF u
  <2>3. Fields(u) /\ u.alt = v.alt
    BY <1>3, <2>1
  <2>. QED  BY <1>2, <2>2, <2>3
<1>6. WithMode([v EXCEPT !.showCursor = TRUE], m, 1).alt = v.alt
  BY <1>2, <1>3
<1>7. WithMode([v EXCEPT !.showCursor = FALSE], m, 0).alt = v.alt
  BY <1>2, <1>3
<1>. QED  BY <1>1, <1>4, <1>5, <1>6, <1>7 DEF VT220DECSM, VT220DECRM

(* A mode that is set or reset has its value, the others keep theirs.       *)
LEMMA ModeIs ==
  ASSUME NEW v, Fields(v), NEW m, NEW val
  PROVE  /\ Fields(WithMode(v, m, val))
         /\ Mode(WithMode(v, m, val), m, 0) = val
         /\ \A k : k # m => Mode(WithMode(v, m, val), k, 0) = Mode(v, k, 0)
<1>1. Fields(WithMode(v, m, val)) /\ WithMode(v, m, val).decp = SetMode(v.decp, m, val)
  BY DEF WithMode, Fields
<1>2. GetMode(SetMode(v.decp, m, val), m, 0) = val
  BY DEF GetMode, SetMode
<1>3. ASSUME NEW k, k # m
      PROVE  GetMode(SetMode(v.decp, m, val), k, 0) = GetMode(v.decp, k, 0)
  BY <1>3 DEF GetMode, SetMode
<1>. QED  BY <1>1, <1>2, <1>3 DEF Mode

(* A mode of a terminal that is set keeps the screen put aside: the terminal *)
(* is on the alternate screen already, or was not before.  One that is      *)
(* reset leaves the alternate screen, whichever of the three it was.        *)
LEMMA ModesKeepAside ==
  ASSUME NEW max, NEW v, Screen(v, max), NEW p
  PROVE  AltKept(v, ProcessDECSM(v, p)) /\ AltKept(v, ProcessDECRM(v, p))
<1>. DEFINE m == Ps(p)
            on == XtermDECSM(v, m)
            off == XtermDECRM(v, m)
<1>1. Fields(v) /\ Fields(SwapScr(v))
  BY ScreensSwapped DEF Shaped, Screen, Loose
<1>. HIDE DEF m
<1>2. \A val : Fields(WithMode(v, m, val)) /\ WithMode(v, m, val).alt = v.alt
  BY <1>1, ModeIs DEF WithMode, Fields
<1>3. AltKept(v, on)
  <2>1. CASE m = 1048
    <3>1. on = SaveCursorData(WithMode(v, m, 1))
      BY <2>1 DEF XtermDECSM, AlternateModes
    <3>. QED  BY <1>2, <3>1, AsideAlone DEF AltKept
  <2>2. CASE m # 1048 /\ m \in AlternateModes /\ OnAlternate(v)
    <3>1. on = WithMode(v, m, 1)
      BY <2>2 DEF XtermDECSM
    <3>. QED  BY <1>2, <3>1 DEF AltKept
  <2>3. CASE ~OnAlternate(v)
    BY <2>3 DEF AltKept
  <2>4. CASE m # 1048 /\ m \notin AlternateModes
    <3>1. on = VT220DECSM(v, m)
      BY <2>4 DEF XtermDECSM
    <3>. QED  BY <1>1, <3>1, AsideAlone DEF AltKept
  <2>. QED  BY <2>1, <2>2, <2>3, <2>4
<1>4. AltKept(v, off)
  <2>1. CASE m = 1048
    <3>1. off = LoadCursorData(WithMode(v, m, 0))
      BY <2>1 DEF XtermDECRM, AlternateModes
    <3>. QED  BY <1>2, <3>1, AsideAlone DEF AltKept
  <2>2. CASE m # 1048 /\ m \in AlternateModes /\ OnAlternate(v)
    <3>. DEFINE s == SwapScr(v)
                a == WithMode(s, 47, 0)
                b == WithMode(a, 1047, 0)
                c == WithMode(b, 1049, 0)
    <3>1. off = c
      BY <2>2 DEF XtermDECRM
    <3>. HIDE DEF s
    <3>2. Fields(a) /\ Mode(a, 47, 0) = 0
      BY <1>1, ModeIs DEF s
    <3>. HIDE DEF a
    <3>3. Fields(b) /\ Mode(b, 1047, 0) = 0 /\ Mode(b, 47, 0) = 0
      BY <3>2, ModeIs
    <3>. HIDE DEF b
    <3>4. Mode(c, 1049, 0) = 0 /\ Mode(c, 1047, 0) = 0 /\ Mode(c, 47, 0) = 0
      BY <3>3, ModeIs
    <3>. HIDE DEF c
    <3>5. ~OnAlternate(off)
      BY <3>1, <3>4 DEF OnAlternate, AlternateModes
    <3>. QED  BY <3>5 DEF AltKept
  <2>3. CASE ~OnAlternate(v)
    BY <2>3 DEF AltKept
  <2>4. CASE m # 1048 /\ m \notin AlternateModes
    <3>1. off = VT220DECRM(v, m)
      BY <2>4 DEF XtermDECRM
    <3>. QED  BY <1>1, <3>1, AsideAlone DEF AltKept
  <2>. QED  BY <2>1, <2>2, <2>3, <2>4
<1>5. AltKept(v, VT100DECSM(v, m)) /\ AltKept(v, VT100DECRM(v, m))
  BY <1>1, AsideAlone DEF AltKept
<1>. QED  BY <1>3, <1>4, <1>5 DEF ProcessDECSM, ProcessDECRM, m

\* Resetting mode 1048 restores the cursor; every other mode leaves it on a line.
LEMMA ModesAre ==
  ASSUME NEW max, NEW v, Screen(v, max), Placed(v), NEW p
  PROVE  /\ Steady(v, ProcessDECSM(v, p), max)
         /\ Screen(ProcessDECRM(v, p), max) /\ Placed(ProcessDECRM(v, p))
         /\ Ps(p) # 1048 => Steady(v, ProcessDECRM(v, p), max)
<1>. DEFINE m == Ps(p)
<1>. HIDE DEF m
<1>1. /\ Steady(v, VT100DECSM(v, m), max) /\ Steady(v, VT100DECRM(v, m), max)
      /\ Steady(v, XtermDECSM(v, m), max)
      /\ Screen(XtermDECRM(v, m), max) /\ Placed(XtermDECRM(v, m))
      /\ m # 1048 => Steady(v, XtermDECRM(v, m), max)
  BY OldModes, XtermModes
<1>. QED  BY <1>1 DEF ProcessDECSM, ProcessDECRM, m, Steady, Settled

-----------------------------------------------------------------------------
(* The functions the terminals redefine: DECSTBM, DECIND, CUP and the       *)
(* scrolling of the xterm.                                                  *)
LEMMA OwnFunctions ==
  ASSUME NEW max, NEW v, Screen(v, max), NEW p, Numbers(p)
  PROVE  /\ Drawn(v, ProcessDECSTBM(v, p), max) /\ Drawn(v, ProcessDECIND(v), max)
         /\ Drawn(v, VT100CUP(v, p), max)       /\ Drawn(v, XtermSD(v, p), max)
<1>1. Drawn(v, ProcessDECSTBM(v, p), max)
  BY CursorFunctions DEF ProcessDECSTBM
<1>2. Drawn(v, ProcessDECIND(v), max) /\ Drawn(v, XtermSD(v, p), max)
  BY LineFunctions DEF ProcessDECIND, XtermSD, Drawn
<1>3. Drawn(v, VT100CUP(v, p), max)
  <2>. DEFINE b == Min({Pn(p, 1) - 1, Bottom(v)})
              y == Max({v.top, b})
  <2>1. Pn(p, 1) \in Nat /\ v.top \in Int /\ Bottom(v) \in Int
    BY ParameterIs, RegionIs
  <2>2. b \in Int
    <3>. DEFINE a == Pn(p, 1) - 1
    <3>1. a \in Int
      BY <2>1
    <3>. HIDE DEF a
    <3>2. Min({a, Bottom(v)}) \in Int
      BY <2>1, <3>1, MinOf
    <3>. QED  BY <3>2 DEF a
  <2>3. y \in Int
    <3>. HIDE DEF b
    <3>. QED  BY <2>1, <2>2, MaxOf
  <2>. DEFINE z == Pn(p, 1) - 1
  <2>4. z \in Int
    BY <2>1
  <2>5. \/ VT100CUP(v, p) = [v EXCEPT !.px = Pn(p, 2) - 1, !.vy = z]
        \/ VT100CUP(v, p) = [v EXCEPT !.px = Min({Pn(p, 2), v.cx}) - 1, !.vy = y]
    BY DEF VT100CUP
  <2>. HIDE DEF y, z
  <2>. QED  BY <2>3, <2>4, <2>5 DEF Drawn, Screen, Loose, Fields
<1>. QED  BY <1>1, <1>2, <1>3

-----------------------------------------------------------------------------
(* Lines that scroll, and text.                                            *)

(* A blank line comes in for the one that goes.                            *)
LEMMA ScrolledDrawn ==
  ASSUME NEW max, NEW v, Screen(v, max), NEW top \in Int, NEW bot \in Int,
         0 <= top, top <= bot, bot < v.cy
  PROVE  /\ Drawn(v, Scrolled(v, top, bot), max)
         /\ Scrolled(v, top, bot).vx = v.vx /\ Scrolled(v, top, bot).vy = v.vy
<1>. DEFINE ls == v.lines
            l == Line(Fill(Len(CellsAt(v, top)), Blank))
            a == SubSeq(ls, 1, top)
            b == SubSeq(ls, top + 2, bot + 1)
            c == <<l>>
            d == SubSeq(ls, bot + 2, Len(ls))
            w == v.cx
            r == Scrolled(v, top, bot)
<1>1. LinesOf(ls, w) /\ Len(ls) = v.cy /\ v.cy \in Nat /\ w \in Nat
  BY DEF Screen, Loose, Grid
<1>2. LinesOf(a, w) /\ Len(a) = top
  <2>1. top <= Len(ls)
    BY <1>1
  <2>. HIDE DEF ls, w
  <2>. QED  BY <1>1, <2>1, LinesSub
<1>3. LinesOf(b, w) /\ Len(b) = bot - top
  <2>. HIDE DEF ls, w
  <2>. QED  BY <1>1, LinesSub
<1>4. LinesOf(d, w) /\ Len(d) = Len(ls) - bot - 1
  <2>. HIDE DEF ls, w
  <2>. QED  BY <1>1, LinesSub
<1>5. LinesOf(c, w) /\ Len(c) = 1
  <2>. DEFINE n == Len(CellsAt(v, top))
  <2>1. n \in Nat /\ n >= w
    BY RowIs
  <2>2. IsLine(l) /\ Len(l.cells) >= w
    <3>. HIDE DEF n
    <3>1. IsSeq(Fill(n, Blank)) /\ Len(Fill(n, Blank)) = n
      BY <2>1, FillLen
    <3>2. l = Line(Fill(n, Blank))
      BY DEF n
    <3>. QED  BY <2>1, <3>1, <3>2 DEF Line, IsLine
  <2>. HIDE DEF l, w
  <2>. QED  BY <2>2, SeqOne DEF LinesOf
<1>6. r = [v EXCEPT !.lines = a \o b \o c \o d]
  BY DEF Scrolled
<1>. HIDE DEF ls, a, b, c, d, r
<1>7. Grid(a \o b \o c \o d, v.cy, v.cx)
  <2>1. LinesOf(a \o b \o c \o d, w) /\ Len(a \o b \o c \o d) = Len(a) + Len(b) + Len(c) + Len(d)
    <3>. HIDE DEF w, l
    <3>1. LinesOf(a, w) /\ LinesOf(b, w) /\ LinesOf(c, w) /\ LinesOf(d, w)
      BY <1>2, <1>3, <1>4, <1>5
    <3>. QED  BY <3>1, LinesOfFour
  <2>2. Len(a) + Len(b) + Len(c) + Len(d) = v.cy
    BY <1>1, <1>2, <1>3, <1>4, <1>5
  <2>. QED  BY <2>1, <2>2 DEF Grid
<1>8. Drawn(v, r, max)
  BY <1>6, <1>7, GridDrawn
<1>9. r.vx = v.vx /\ r.vy = v.vy
  BY <1>6 DEF Screen, Loose, Fields
<1>. QED  BY <1>8, <1>9 DEF r

(* ProcessOverflowLines leaves the cursor in a row of the screen, and in   *)
(* its column.                                                             *)
LEMMA OverflowLinesIs ==
  ASSUME NEW max, NEW v, Screen(v, max), NEW w, w = ProcessOverflowLines(v)
  PROVE  Drawn(v, w, max) /\ w.vx = v.vx /\ w.vy \in 0 .. w.cy - 1 /\ w.cy = v.cy /\ w.decp = v.decp
<1>1. /\ v.top \in Int /\ 0 <= v.top /\ Bottom(v) \in Int /\ v.top <= Bottom(v) /\ Bottom(v) < v.cy
      /\ v.cy \in Nat /\ v.cy > 0 /\ v.vy \in Int /\ Len(v.lines) = v.cy /\ v.cx \in Nat
  BY RegionIs DEF Screen, Loose, Grid
<1>2. CASE Max({v.vy, 0}) # Bottom(v) + 1
  <2>. DEFINE n == Len(v.lines) - 1
              m == Min({v.vy, n})
              y == Max({0, m})
  <2>1. n \in Int /\ n >= 0 /\ n = v.cy - 1
    BY <1>1
  <2>2. m \in Int /\ m <= n
    <3>. HIDE DEF n
    <3>. QED  BY <1>1, <2>1, MinOf
  <2>3. y \in Int /\ 0 <= y /\ y <= n
    <3>. HIDE DEF m, n
    <3>1. y = IF 0 >= m THEN 0 ELSE m
      BY <2>2, MaxOf
    <3>. QED  BY <2>1, <2>2, <3>1
  <2>4. w = [v EXCEPT !.vy = y]
    BY <1>2 DEF ProcessOverflowLines
  <2>. HIDE DEF y
  <2>5. Drawn(v, w, max) /\ w.vx = v.vx /\ w.vy = y /\ w.cy = v.cy /\ w.decp = v.decp
    BY <2>3, <2>4 DEF Drawn, Screen, Loose, Fields
  <2>. HIDE DEF n
  <2>. QED  BY <1>1, <2>1, <2>3, <2>5
<1>3. CASE Max({v.vy, 0}) = Bottom(v) + 1
  <2>. DEFINE l == LineAt(v, 0)
              u == IF v.top = 0 THEN PushToLinesBufferAndCheck(v, l) ELSE v
              s == Scrolled(u, v.top, Bottom(v))
  <2>1. IsLine(l)
    <3>1. l = v.lines[1] /\ 1 \in 1 .. Len(v.lines)
      BY <1>1 DEF LineAt
    <3>. QED  BY <3>1 DEF Screen, Grid, LinesOf
  <2>2. Screen(u, max) /\ u.cy = v.cy /\ u.vx = v.vx /\ u.py = v.py /\ u.alt = v.alt /\ u.decp = v.decp
    <3>1. CASE v.top = 0
      <4>. HIDE DEF l
      <4>1. Loose(u, max) /\ \A f \in UntouchedByHistory : u[f] = v[f]
        BY <2>1, <3>1, HistoryPushed DEF Screen
      <4>. HIDE DEF u
      <4>2. /\ u.cx = v.cx /\ u.cy = v.cy /\ u.lines = v.lines /\ u.top = v.top /\ u.bot = v.bot
            /\ u.vx = v.vx /\ u.py = v.py /\ u.alt = v.alt /\ u.decp = v.decp
        BY <4>1 DEF UntouchedByHistory
      <4>. QED  BY <4>1, <4>2 DEF Screen
    <3>2. CASE v.top # 0
      BY <3>2
    <3>. QED  BY <3>1, <3>2
  <2>. HIDE DEF u
  <2>3. Drawn(u, s, max) /\ s.vx = u.vx
    BY <1>1, <2>2, ScrolledDrawn
  <2>4. s.cy = u.cy /\ s.decp = u.decp
    BY <2>2 DEF Scrolled, Screen, Loose, Fields
  <2>5. w = [s EXCEPT !.vy = Bottom(v)]
    BY <1>3 DEF ProcessOverflowLines, u
  <2>. HIDE DEF s
  <2>6. Drawn(v, w, max) /\ w.vx = v.vx /\ w.vy = Bottom(v) /\ w.cy = v.cy /\ w.decp = v.decp
    BY <1>1, <2>2, <2>3, <2>4, <2>5 DEF Drawn, Screen, Loose, Fields
  <2>. QED  BY <1>1, <2>6
<1>. QED  BY <1>2, <1>3

-----------------------------------------------------------------------------
\* What a text keeps of the screen, each character and all of them.
TextSoFar(env, i, x) == Drawn(env[1], x, env[2]) /\ Placed(x) /\ (OnLine(env[1]) => OnLine(x))
Texting == INSTANCE FoldInduction WITH Op <- RenderChar, P <- TextSoFar

(* The fold over the characters is the one of the module.                   *)
LEMMA TextFold ==
  ASSUME NEW base, NEW s
  PROVE  FoldLeft(RenderChar, base, s) = Texting!FoldLeft(RenderChar, base, s)
BY DEF FoldLeft, Texting!FoldLeft, MapThenFoldSet, Texting!MapThenFoldSet, Max, Texting!Max

(* A character written: into the cell of the cursor, in front of it, or as  *)
(* one cell more.                                                           *)
LEMMA WrittenDrawn ==
  ASSUME NEW max, NEW v, Screen(v, max), Placed(v), NEW c, NEW w, w = Written(v, c)
  PROVE  Drawn(v, w, max) /\ Placed(w) /\ (OnLine(v) => OnLine(w))
<1>. DEFINE s == CellsAt(v, v.vy)
            cells == Padded(s, v.vx + 1, Blank)
            k == Cell(c, v.pen)
            q == [cells EXCEPT ![v.vx + 1] = k]
            t == Padded(q, v.vx + 2, Blank)
            u == SetCells(v, v.vy, t)
<1>1. v.vx \in Nat /\ v.vy \in Nat /\ v.cx \in Nat /\ v.cy \in Nat /\ Len(v.lines) = v.cy
  BY DEF Placed, Screen, Loose, Grid
<1>2. ASSUME v.vy < v.cy  PROVE IsSeq(t) /\ Len(t) \in Nat /\ Len(t) >= v.cx /\ Len(t) >= v.vx + 2
  <2>1. IsSeq(s) /\ Len(s) \in Nat /\ Len(s) >= v.cx
    BY <1>1, <1>2, RowIs
  <2>2. IsSeq(cells) /\ Len(cells) = IF Len(s) < v.vx + 1 THEN v.vx + 1 ELSE Len(s)
    <3>. HIDE DEF s
    <3>. QED  BY <1>1, <2>1, PaddedLen
  <2>3. IsSeq(q) /\ Len(q) = Len(cells)
    <3>. HIDE DEF cells, k
    <3>1. q = [i \in DOMAIN cells |-> q[i]]
      OBVIOUS
    <3>. HIDE DEF q
    <3>. QED  BY <2>2, <3>1, SeqLike
  <2>4. IsSeq(t) /\ Len(t) = IF Len(q) < v.vx + 2 THEN v.vx + 2 ELSE Len(q)
    <3>. HIDE DEF q
    <3>. QED  BY <1>1, <2>3, PaddedLen
  <2>. HIDE DEF s, cells, q, t
  <2>. QED  BY <1>1, <2>1, <2>2, <2>3, <2>4
<1>3. w = [u EXCEPT !.vx = @ + 1, !.px = @ + Width(k)]
  BY DEF Written
<1>. HIDE DEF t
<1>4. Drawn(v, u, max)
  <2>1. ASSUME v.vy + 1 \in 1 .. v.cy  PROVE IsSeq(t) /\ Len(t) >= v.cx
    BY <1>1, <1>2, <2>1
  <2>. QED  BY <2>1, CellsDrawn
<1>5. u.vx = v.vx /\ u.vy = v.vy
  BY DEF SetCells, Screen, Loose, Fields
<1>6. ASSUME OnLine(v)  PROVE CellsAt(u, v.vy) = t /\ v.vy < v.cy /\ Len(u.lines) = v.cy
  <2>1. v.vy \in 0 .. v.cy - 1 /\ v.vy < v.cy
    BY <1>1, <1>6 DEF OnLine
  <2>2. v.vy + 1 \in DOMAIN v.lines /\ IsLine(v.lines[v.vy + 1]) /\ "lines" \in DOMAIN v
    BY <1>1, <2>1, LinesEach DEF Screen, Grid, Loose, Fields
  <2>3. CellsAt(u, v.vy) = t
    BY <2>2 DEF CellsAt, LineAt, SetCells, IsLine
  <2>. QED  BY <1>4, <2>1, <2>3 DEF Drawn, Screen, Grid, Loose, SetCells, Fields
<1>. HIDE DEF u, k
<1>7. Drawn(v, w, max) /\ w.vx = v.vx + 1 /\ w.vy = v.vy /\ w.lines = u.lines
  BY <1>1, <1>3, <1>4, <1>5 DEF Drawn, Screen, Loose, Fields
<1>8. ASSUME OnLine(v)  PROVE OnLine(w)
  <2>1. CellsAt(w, w.vy) = t
    BY <1>6, <1>7, <1>8 DEF CellsAt, LineAt
  <2>2. v.vy \in 0 .. v.cy - 1
    BY <1>1, <1>8 DEF OnLine
  <2>. QED  BY <1>1, <1>2, <1>6, <1>7, <1>8, <2>1, <2>2 DEF OnLine
<1>. QED  BY <1>1, <1>7, <1>8 DEF Placed

(* A character beyond the right margin: the cursor goes to the next line,   *)
(* and the screen scrolls if there is none.                                 *)
LEMMA WrappedDrawn ==
  ASSUME NEW max, NEW v, Screen(v, max), Placed(v), NEW w, w = Wrapped(v)
  PROVE  Drawn(v, w, max) /\ Placed(w) /\ OnLine(w)
<1>. DEFINE ls == v.lines
            f == [ls EXCEPT ![v.vy + 1].more = TRUE]
            u == [v EXCEPT !.lines = f, !.vy = v.vy + 1, !.vx = 0, !.px = 0]
<1>1. LinesOf(ls, v.cx) /\ Len(ls) = v.cy /\ DOMAIN ls = 1 .. Len(ls)
  BY SeqLen DEF Screen, Grid, LinesOf
<1>2. LinesOf(f, v.cx) /\ Len(f) = v.cy
  <2>1. f = [j \in DOMAIN ls |-> f[j]]
    OBVIOUS
  <2>2. ASSUME NEW j \in 1 .. Len(ls)  PROVE IsLine(f[j]) /\ Len(f[j].cells) >= v.cx
    <3>1. IsLine(ls[j]) /\ Len(ls[j].cells) >= v.cx
      BY <1>1 DEF LinesOf
    <3>2. f[j] = ls[j] \/ f[j] = [ls[j] EXCEPT !.more = TRUE]
      BY <1>1
    <3>. HIDE DEF f
    <3>. QED  BY <3>1, <3>2 DEF IsLine
  <2>. HIDE DEF f, ls
  <2>. QED  BY <1>1, <2>1, <2>2, LinesLike
<1>3. w = ProcessOverflowLines(u)
  BY DEF Wrapped
<1>. HIDE DEF f
<1>4. Drawn(v, u, max) /\ u.vx = 0
  BY <1>2 DEF Drawn, Screen, Loose, Fields, Grid, Placed
<1>. HIDE DEF u
<1>5. Drawn(u, w, max) /\ w.vx = 0 /\ w.vy \in 0 .. w.cy - 1
  BY <1>3, <1>4, OverflowLinesIs DEF Drawn
<1>6. Screen(w, max)
  BY <1>5 DEF Drawn
<1>7. w.vy \in Nat /\ w.vy < w.cy /\ w.cy \in Nat /\ w.cx \in Nat /\ w.cx > 0 /\ Len(w.lines) = w.cy
  BY <1>5, <1>6 DEF Screen, Loose, Grid
<1>8. Len(CellsAt(w, w.vy)) \in Nat /\ Len(CellsAt(w, w.vy)) >= w.cx
  BY <1>6, <1>7, RowIs
<1>9. OnLine(w) /\ Placed(w)
  BY <1>5, <1>7, <1>8 DEF OnLine, Placed
<1>. QED  BY <1>4, <1>5, <1>9, DrawnTwice

(* One character of a text.                                                 *)
LEMMA CharDrawn ==
  ASSUME NEW max, NEW v, Screen(v, max), Placed(v), NEW c, NEW w, w = RenderChar(v, c)
  PROVE  Drawn(v, w, max) /\ Placed(w) /\ (OnLine(v) => OnLine(w))
<1>. DEFINE u == Wrapped(v)
<1>1. Drawn(v, u, max) /\ Placed(u) /\ OnLine(u)
  BY WrappedDrawn
<1>2. w = Written(u, c) \/ w = Written(v, c)
  BY DEF RenderChar
<1>. HIDE DEF u
<1>3. CASE w = Written(u, c)
  <2>1. Drawn(u, w, max) /\ Placed(w) /\ OnLine(w)
    BY <1>1, <1>3, WrittenDrawn DEF Drawn
  <2>. QED  BY <1>1, <2>1, DrawnTwice
<1>4. CASE w = Written(v, c)
  BY <1>4, WrittenDrawn
<1>. QED  BY <1>2, <1>3, <1>4

(* Text of any length keeps the shape, wraps and scrolls as it may.        *)
LEMMA TextDrawn ==
  ASSUME NEW max, NEW v, Screen(v, max), Placed(v), NEW s, IsSeq(s), NEW w, w = RenderText(v, s)
  PROVE  Drawn(v, w, max) /\ Placed(w) /\ (OnLine(v) => OnLine(w))
<1>. DEFINE env == <<v, max>>
<1>1. Len(s) \in Nat /\ DOMAIN s = 1 .. Len(s)
  BY SeqLen
<1>2. TextSoFar(env, 0, v)
  BY DEF TextSoFar, Drawn
<1>3. \A x : \A i \in 1 .. Len(s) : TextSoFar(env, i - 1, x) => TextSoFar(env, i, RenderChar(x, s[i]))
  <2>1. SUFFICES ASSUME NEW x, NEW i \in 1 .. Len(s), Drawn(v, x, max), Placed(x), OnLine(v) => OnLine(x)
                 PROVE  /\ Drawn(v, RenderChar(x, s[i]), max) /\ Placed(RenderChar(x, s[i]))
                        /\ OnLine(v) => OnLine(RenderChar(x, s[i]))
    BY DEF TextSoFar
  <2>. DEFINE r == RenderChar(x, s[i])
  <2>2. Drawn(x, r, max) /\ Placed(r) /\ (OnLine(x) => OnLine(r))
    <3>1. Screen(x, max)
      BY <2>1 DEF Drawn
    <3>. QED  BY <2>1, <3>1, CharDrawn
  <2>. HIDE DEF r
  <2>3. Drawn(v, r, max)
    BY <2>1, <2>2, DrawnTwice
  <2>. QED  BY <2>1, <2>2, <2>3 DEF r
<1>. HIDE DEF env
<1>4. TextSoFar(env, Len(s), FoldLeft(RenderChar, v, s))
  BY <1>1, <1>2, <1>3, TextFold, Texting!FoldLeftKeeps
<1>. QED  BY <1>4 DEF TextSoFar, RenderText, env

-----------------------------------------------------------------------------
(* The functions of each terminal, by name.                                *)

\* Those that bring a saved cursor back.
Restoring(f, p) == f \in {"DECRC", "ANSI_RCP"} \/ (f = "DECRM" /\ Ps(p) = 1048)
Feeds == {"LF", "FF", "VT"}
\* What a function does to the screen.
Done(v, w, f, p, max) ==
  /\ Screen(w, max)
  /\ ~Restoring(f, p) => Settled(v, w, max)
  /\ f \in Feeds => Drawn(v, w, max)
  /\ AltKept(v, w)

(* What only draws is done.                                                 *)
LEMMA DrawnIsDone ==
  ASSUME NEW max, NEW v, NEW w, Drawn(v, w, max), NEW f, NEW p
  PROVE  Done(v, w, f, p, max)
BY DrawnIsSettled DEF Done, Drawn, AltKept

(* What leaves the screen in shape is done.                                 *)
LEMMA ShapedIsDone ==
  ASSUME NEW max, NEW v, NEW w, Shaped(w, max), w.alt = v.alt, NEW f, NEW p, f \notin Feeds
  PROVE  Done(v, w, f, p, max)
BY ShapedIsSteady DEF Done, Steady, Settled, AltKept

(* The functions of ECMA-48.                                                *)
LEMMA BaseDone ==
  ASSUME NEW max, NEW v, Screen(v, max), Placed(v), NEW f, NEW p, f \notin Worded => Numbers(p)
  PROVE  Done(v, Ecma48Function(v, f, p), f, p, max)
<1>. DEFINE w == Ecma48Function(v, f, p)
<1>1. CASE f = "RIS"
  <2>1. w = ClearVt(v)
    BY <1>1 DEF Ecma48Function
  <2>2. Shaped(ClearVt(v), max) /\ ClearVt(v).alt = v.alt
    BY Cleared DEF Screen
  <2>. QED  BY <1>1, <2>1, <2>2, ShapedIsDone DEF Feeds
<1>2. CASE f # "RIS" /\ f \in Worded
  <2>1. w = v
    BY <1>2 DEF Ecma48Function, Worded
  <2>2. Drawn(v, v, max)
    BY DEF Drawn
  <2>. QED  BY <2>1, <2>2, DrawnIsDone
<1>3. CASE f # "RIS" /\ f \notin Worded
  <2>1. Drawn(v, w, max)
    <3>1. Drawn(v, v, max) /\ Drawn(v, ProcessCTC(v, p), max)
      BY <1>3, CtcDrawn DEF Drawn
    <3>. QED  BY <1>3, <3>1, CursorFunctions, Erasing, Inserting, LineFunctions, Shifting, PenFunctions DEF Ecma48Function
  <2>. QED  BY <2>1, DrawnIsDone
<1>. QED  BY <1>1, <1>2, <1>3

(* The functions of the VT100.                                              *)
LEMMA VT100Done ==
  ASSUME NEW max, NEW v, Screen(v, max), Placed(v), NEW f, NEW p, f \notin Worded => Numbers(p)
  PROVE  Done(v, VT100Function(v, f, p), f, p, max)
<1>. DEFINE w == VT100Function(v, f, p)
            e == Ecma48Function(v, f, p)
<1>1. Done(v, e, f, p, max)
  BY BaseDone
<1>2. CASE f \in {"DECSC", "DECSM"}
  <2>1. w = SaveCursorData(v) \/ w = ProcessDECSM(v, p)
    BY <1>2 DEF VT100Function
  <2>2. Steady(v, w, max)
    BY <2>1, CursorSaved, ModesAre
  <2>3. AltKept(v, w)
    BY <2>1, AsideAlone, ModesKeepAside DEF AltKept, Screen, Loose
  <2>. QED  BY <1>2, <2>2, <2>3 DEF Done, Steady, Settled, Feeds
<1>3. CASE f = "DECRC"
  <2>1. w = LoadCursorData(v)
    BY <1>3 DEF VT100Function
  <2>2. AltKept(v, w)
    BY <2>1, AsideAlone DEF AltKept, Screen, Loose
  <2>. QED  BY <1>3, <2>1, <2>2, CursorRestored DEF Done, Restoring, Feeds
<1>4. CASE f = "DECRM"
  <2>1. w = ProcessDECRM(v, p)
    BY <1>4 DEF VT100Function
  <2>2. AltKept(v, w)
    BY <2>1, ModesKeepAside
  <2>. QED  BY <1>4, <2>1, <2>2, ModesAre DEF Done, Restoring, Feeds, Steady
<1>5. CASE f \in {"DECSTBM", "DECIND", "CUP", "HVP", "DECALN", "DECDSR", "DA", "G0_CS", "G1_CS", "SI", "SO"}
  <2>1. f \in Worded => f \in {"G0_CS", "G1_CS"}
    BY <1>5 DEF Worded
  <2>2. /\ Drawn(v, ProcessDECALN(v), max) /\ Drawn(v, ProcessDECDSR(v, p), max) /\ Drawn(v, ProcessDA(v, p), max)
        /\ \A g, q : Drawn(v, Designated(v, g, q), max)
        /\ \A g : Drawn(v, Invoked(v, g), max)
    BY Aligned, Answers, CharacterSets
  <2>3. f \notin Worded => /\ Drawn(v, ProcessDECSTBM(v, p), max) /\ Drawn(v, ProcessDECIND(v), max)
                            /\ Drawn(v, VT100CUP(v, p), max)
    BY OwnFunctions
  <2>4. Drawn(v, w, max)
    BY <1>5, <2>1, <2>2, <2>3 DEF VT100Function
  <2>. QED  BY <2>4, DrawnIsDone
<1>6. CASE f \notin {"DECSTBM", "DECIND", "CUP", "HVP", "DECALN", "DECDSR", "DA", "G0_CS", "G1_CS", "SI", "SO",
                    "DECSC", "DECSM", "DECRC", "DECRM"}
  <2>1. w = e
    BY <1>6 DEF VT100Function
  <2>. QED  BY <1>1, <2>1
<1>. QED  BY <1>2, <1>3, <1>4, <1>5, <1>6

(* The functions of the ANSI terminal.                                      *)
LEMMA AnsiDone ==
  ASSUME NEW max, NEW v, Screen(v, max), Placed(v), NEW f, NEW p, f \notin Worded => Numbers(p)
  PROVE  Done(v, AnsiFunction(v, f, p), f, p, max)
<1>. DEFINE w == AnsiFunction(v, f, p)
            e == VT100Function(v, f, p)
<1>1. Done(v, e, f, p, max)
  BY VT100Done
<1>2. CASE f = "ANSI_SCP"
  <2>1. w = SaveCursorData(v)
    BY <1>2 DEF AnsiFunction
  <2>2. AltKept(v, w)
    BY <2>1, AsideAlone DEF AltKept, Screen, Loose
  <2>. QED  BY <1>2, <2>1, <2>2, CursorSaved DEF Done, Steady, Settled, Feeds
<1>3. CASE f = "ANSI_RCP"
  <2>1. w = LoadCursorData(v)
    BY <1>3 DEF AnsiFunction
  <2>2. AltKept(v, w)
    BY <2>1, AsideAlone DEF AltKept, Screen, Loose
  <2>. QED  BY <1>3, <2>1, <2>2, CursorRestored DEF Done, Restoring, Feeds
<1>4. CASE f \in {"SS2", "SS3"}
  <2>1. w = Invoked(v, 2) \/ w = Invoked(v, 3)
    BY <1>4 DEF AnsiFunction
  <2>. QED  BY <2>1, CharacterSets, DrawnIsDone
<1>5. CASE f \notin {"ANSI_SCP", "ANSI_RCP", "SS2", "SS3"}
  <2>1. w = e
    BY <1>5 DEF AnsiFunction
  <2>. QED  BY <1>1, <2>1
<1>. QED  BY <1>2, <1>3, <1>4, <1>5

(* The functions of the VT220 and the later ones.                           *)
LEMMA VT220Done ==
  ASSUME NEW max, NEW v, Screen(v, max), Placed(v), NEW f, NEW p, f \notin Worded => Numbers(p)
  PROVE  Done(v, VT220Function(v, f, p), f, p, max)
<1>. DEFINE w == VT220Function(v, f, p)
            e == VT100Function(v, f, p)
            Own == {"G2_CS", "G3_CS", "SS2", "LS2", "LS2R", "SS3", "LS3", "LS3R", "LS1R", "DECSCL", "DECSCA",
                    "S7C1T", "S8C1T", "DECSEL", "DECSED", "SecondaryDA"}
<1>1. Done(v, e, f, p, max)
  BY VT100Done
<1>2. CASE f = "DECSTR"
  <2>1. w = ProcessDECSTR(v)
    BY <1>2 DEF VT220Function
  <2>. QED  BY <1>2, <2>1, SoftReset, ShapedIsDone DEF Feeds
<1>3. CASE f \in Own
  <2>1. f \in Worded => f \in {"G2_CS", "G3_CS"}
    BY <1>3 DEF Worded
  <2>2. /\ \A g, q : Drawn(v, Designated(v, g, q), max)
        /\ \A g : Drawn(v, Invoked(v, g), max)
        /\ Drawn(v, ProcessLS1R(v), max) /\ Drawn(v, ProcessDECSCL(v, p), max)
        /\ Drawn(v, ProcessDECSCA(v, p), max) /\ Drawn(v, ProcessSecondaryDA(v, p), max)
    BY CharacterSets, PenFunctions, Answers
  <2>3. Drawn(v, [v EXCEPT !.s8c = FALSE], max) /\ Drawn(v, [v EXCEPT !.s8c = TRUE], max)
    BY DEF Drawn, Screen, Loose, Fields
  <2>4. f \notin Worded => Drawn(v, ProcessDECSEL(v, p), max) /\ Drawn(v, ProcessDECSED(v, p), max)
    BY SelectiveErasing
  <2>5. Drawn(v, w, max)
    BY <1>3, <2>1, <2>2, <2>3, <2>4 DEF VT220Function
  <2>. QED  BY <2>5, DrawnIsDone
<1>4. CASE f \notin Own \union {"DECSTR"}
  <2>1. w = e
    BY <1>4 DEF VT220Function
  <2>. QED  BY <1>1, <2>1
<1>. QED  BY <1>2, <1>3, <1>4

(* The functions of the xterm.                                              *)
LEMMA XtermDone ==
  ASSUME NEW max, NEW v, Screen(v, max), Placed(v), NEW f, NEW p, f \notin Worded => Numbers(p)
  PROVE  Done(v, XtermFunction(v, f, p), f, p, max)
<1>. DEFINE w == XtermFunction(v, f, p)
            e == VT220Function(v, f, p)
            Own == {"DECRQM", "ANSIRQM", "G1_CS96", "G2_CS96", "G3_CS96", "DECDC", "TertiaryDA",
                    "DECST8C", "DECAC", "SGR", "XTWINOPS", "SD", "XTVERSION", "XTOSC"}
<1>1. Done(v, e, f, p, max)
  BY VT220Done
<1>2. CASE f \in Own
  <2>1. f \in Worded => f \in {"G1_CS96", "G2_CS96", "G3_CS96", "XTOSC"}
    BY <1>2 DEF Worded
  <2>2. /\ Drawn(v, ProcessDECRQM(v, p), max) /\ Drawn(v, ProcessANSIRQM(v, p), max)
        /\ \A g, q : Drawn(v, VT520CS96(v, g, q), max)
        /\ Drawn(v, ProcessTertiaryDA(v, p), max) /\ Drawn(v, ProcessDECAC(v, p), max)
        /\ Drawn(v, ProcessXtermSGR(v, p), max) /\ Drawn(v, ProcessXTWINOPS(v, p), max)
        /\ Drawn(v, ProcessXTOSC(v, p), max) /\ \A msg : Drawn(v, Send(v, msg), max)
    BY CharacterSets, PenFunctions, Answers, Sent
  <2>3. Drawn(v, [v EXCEPT !.tab = 8], max)
    BY DEF Drawn, Screen, Loose, Fields
  <2>4. f \notin Worded => Drawn(v, ProcessDECDC(v, p), max) /\ Drawn(v, XtermSD(v, p), max)
    BY ColumnGone, OwnFunctions
  <2>5. Drawn(v, w, max)
    BY <1>2, <2>1, <2>2, <2>3, <2>4 DEF XtermFunction, VT520Function, VT420Function, VT320Function
  <2>. QED  BY <2>5, DrawnIsDone
<1>3. CASE f \notin Own
  <2>1. w = e
    BY <1>3 DEF XtermFunction, VT520Function, VT420Function, VT320Function
  <2>. QED  BY <1>1, <2>1
<1>. QED  BY <1>2, <1>3

(* Whatever the terminal and whatever the function.                        *)
LEMMA FunctionDone ==
  ASSUME NEW max, NEW v, Screen(v, max), Placed(v), NEW f, NEW p, f \notin Worded => Numbers(p)
  PROVE  Done(v, ProcessControlSeq(v, f, p), f, p, max)
BY VT100Done, AnsiDone, XtermDone DEF ProcessControlSeq

-----------------------------------------------------------------------------
(* A whole sequence: RenderSeq. *)

LEMMA SequenceDone ==
  ASSUME NEW max, NEW v, Screen(v, max), Placed(v), NEW s, Parsed(s)
  PROVE  Done(v, Handled(v, s), s.f, s.p, max)
<1>1. CASE s.f = "TEXT"
  <2>. DEFINE chars == [i \in DOMAIN s.p |-> RemapCharacter(v, s.p[i])]
  <2>1. Handled(v, s) = RenderText(v, chars)
    BY <1>1 DEF Handled
  <2>2. IsSeq(chars)
    <3>1. IsSeq(s.p) /\ chars = [i \in DOMAIN s.p |-> chars[i]]
      BY <1>1, SeqMade DEF Parsed, Worded, SomeSeq
    <3>. HIDE DEF chars
    <3>. QED  BY <3>1, SeqLike
  <2>. HIDE DEF chars
  <2>3. Drawn(v, Handled(v, s), max)
    BY <2>1, <2>2, TextDrawn
  <2>. QED  BY <2>3, DrawnIsDone
<1>2. CASE s.f # "TEXT"
  <2>1. Done(v, ProcessControlSeq(v, s.f, s.p), s.f, s.p, max)
    <3>1. s.f \notin Worded => Numbers(s.p)
      BY DEF Parsed, Numbers, IsSeq
    <3>. QED  BY <3>1, FunctionDone
  <2>. QED  BY <1>2, <2>1 DEF Handled
<1>. QED  BY <1>1, <1>2

(* The cursor is on a line once ProcessOverflowChars has run, in the row   *)
(* of the page if the handler has put it there.                            *)
LEMMA TidiedIs ==
  ASSUME NEW max, NEW v, NEW d, NEW f, NEW p, Done(v, d, f, p, max), NEW w, w = Tidied(d, f)
  PROVE  /\ Screen(w, max) /\ OnLine(w) /\ Placed(w)
         /\ ~Restoring(f, p) => w.py = v.py \/ w.py = w.vy
         /\ AltKept(v, w)
<1>. DEFINE u == Ecma48OverflowLines(d, f)
<1>1. /\ Screen(u, max)
      /\ ~Restoring(f, p) => u.py = v.py \/ (u.py = u.vy /\ u.vy \in 0 .. u.cy - 1)
      /\ u.alt = d.alt /\ u.decp = d.decp
  <2>1. CASE f \in Feeds
    <3>1. u = ProcessOverflowLines(d)
      BY <2>1 DEF Ecma48OverflowLines, Feeds
    <3>2. Drawn(v, d, max) /\ Screen(d, max)
      BY <2>1 DEF Done
    <3>. HIDE DEF u
    <3>3. Drawn(d, u, max) /\ u.decp = d.decp
      BY <3>1, <3>2, OverflowLinesIs
    <3>. QED  BY <3>2, <3>3 DEF Drawn
  <2>2. CASE f \notin Feeds
    <3>1. u = d
      BY <2>2 DEF Ecma48OverflowLines, Feeds
    <3>. QED  BY <3>1 DEF Done, Settled
  <2>. QED  BY <2>1, <2>2
<1>2. w = ProcessOverflowChars(u)
  BY DEF Tidied
<1>. HIDE DEF u
<1>3. Body(u, max)
  BY <1>1 DEF Screen, Body
<1>4. /\ Body(w, max) /\ OnLine(w) /\ Placed(w) /\ Still(u, w)
      /\ u.vy \in 0 .. u.cy - 1 => w.vy = u.vy
  BY <1>2, <1>3, OverflowCharsIs
<1>5. Screen(w, max)
  BY <1>1, <1>4 DEF Body, Screen, Still
<1>6. AltKept(v, w)
  BY <1>1, <1>4, AltCarried DEF Still, Done
<1>. QED  BY <1>1, <1>4, <1>5, <1>6 DEF Still

(* The page position followed leaves the cursor on a line, unless its row  *)
(* is a restored one.                                                      *)
LEMMA FollowedIs ==
  ASSUME NEW max, NEW v, NEW d, Screen(d, max), OnLine(d), Placed(d), NEW w, w = Followed(v, d)
  PROVE  /\ Screen(w, max) /\ Placed(w)
         /\ d.py = v.py \/ d.py = d.vy => OnLine(w)
<1>1. /\ d.vy \in Nat /\ d.vy < d.cy /\ d.cy \in Nat /\ d.cx \in Nat /\ d.cx > 0 /\ d.cy > 0
      /\ Len(d.lines) = d.cy /\ d.py \in Nat
  BY DEF Screen, Loose, Grid, OnLine, Placed
<1>2. ASSUME NEW y \in Nat, y < d.cy, NEW x, x = LogicToVirtual(CellsAt(d, y), d.px),
             NEW r, r = [d EXCEPT !.vy = y, !.vx = x]
      PROVE  Screen(r, max) /\ Placed(r) /\ OnLine(r)
  <2>. DEFINE s == CellsAt(d, y)
  <2>1. IsSeq(s) /\ Len(s) \in Nat /\ Len(s) >= d.cx
    BY <1>2, RowIs
  <2>2. x \in 0 .. Len(s) - 1
    <3>. HIDE DEF s
    <3>1. Len(s) > 0
      BY <1>1, <2>1
    <3>. QED  BY <1>2, <2>1, <3>1, LogicToVirtualIn DEF s
  <2>3. x \in Nat /\ x < Len(s)
    <3>. HIDE DEF s
    <3>. QED  BY <2>1, <2>2
  <2>4. Screen(r, max) /\ Placed(r) /\ r.vx = x /\ r.vy = y /\ r.lines = d.lines
    BY <1>2, <2>3 DEF Screen, Loose, Fields, Placed
  <2>5. CellsAt(r, r.vy) = s
    BY <2>4 DEF CellsAt, LineAt
  <2>6. y \in 0 .. Len(d.lines) - 1
    BY <1>1, <1>2
  <2>. HIDE DEF s
  <2>. QED  BY <2>3, <2>4, <2>5, <2>6 DEF OnLine
<1>3. CASE w = UpdateDataPosXY(d)
  <2>. DEFINE n == Len(d.lines) - 1
              m == Max({d.py, 0})
              y == Min({m, n})
              x == LogicToVirtual(CellsAt(d, y), d.px)
  <2>1. m \in Nat
    BY <1>1, MaxOf
  <2>2. n \in Nat /\ n < d.cy
    BY <1>1
  <2>3. y \in Nat /\ y < d.cy
    <3>. HIDE DEF m, n
    <3>1. Min({m, n}) = IF m <= n THEN m ELSE n
      BY <2>1, <2>2, MinOf
    <3>. QED  BY <1>1, <2>1, <2>2, <3>1
  <2>4. w = [d EXCEPT !.vy = y, !.vx = x]
    BY <1>3 DEF UpdateDataPosXY
  <2>. HIDE DEF y
  <2>. QED  BY <1>2, <2>3, <2>4
<1>4. CASE w = UpdateDataPosX(d)
  <2>. DEFINE x == LogicToVirtual(CellsAt(d, d.vy), d.px)
              r == [d EXCEPT !.vy = d.vy, !.vx = x]
  <2>1. w = [d EXCEPT !.vx = x]
    BY <1>4 DEF UpdateDataPosX
  <2>2. Screen(r, max) /\ Placed(r) /\ OnLine(r)
    BY <1>1, <1>2
  <2>. HIDE DEF x
  <2>3. /\ w.vx = r.vx /\ w.vy = r.vy /\ w.lines = r.lines
        /\ Screen(w, max)
    BY <2>1, <2>2 DEF Screen, Loose, Fields
  <2>. HIDE DEF r
  <2>. QED  BY <2>2, <2>3 DEF Placed, OnLine, CellsAt, LineAt
<1>5. CASE w = UpdateDataPosY(d) /\ d.py # v.py
  <2>1. w = [d EXCEPT !.vy = d.py]
    BY <1>5 DEF UpdateDataPosY
  <2>2. /\ w.vx = d.vx /\ w.vy = d.py /\ w.lines = d.lines
        /\ Screen(w, max)
    BY <1>1, <2>1 DEF Screen, Loose, Fields
  <2>. QED  BY <1>1, <1>5, <2>2 DEF Placed, OnLine, CellsAt, LineAt
<1>6. CASE w = d
  BY <1>6
<1>7. w = UpdateDataPosXY(d) \/ w = UpdateDataPosX(d) \/ (w = UpdateDataPosY(d) /\ d.py # v.py) \/ w = d
  BY DEF Followed
<1>. QED  BY <1>3, <1>4, <1>5, <1>6, <1>7

(* The end of RenderSeq: the two positions are brought in step, the one     *)
(* that has changed leads.                                                  *)
LEMMA SyncedIs ==
  ASSUME NEW max, NEW v, NEW d, Screen(d, max), Placed(d), NEW w, w = Synced(v, d)
  PROVE  Screen(w, max) /\ Placed(w) /\ (OnLine(d) => OnLine(w))
<1>1. ASSUME NEW u, Screen(u, max), Placed(u), NEW r, NEW e, r = [u EXCEPT !.px = e] \/ (e \in Nat /\ r = [u EXCEPT !.py = e])
      PROVE  Screen(r, max) /\ Placed(r) /\ (OnLine(u) => OnLine(r))
  BY <1>1 DEF Screen, Loose, Fields, Placed, OnLine, CellsAt, LineAt
<1>. DEFINE y == UpdatePresentationPosY(d)
<1>2. Screen(y, max) /\ Placed(y) /\ (OnLine(d) => OnLine(y))
  BY <1>1 DEF UpdatePresentationPosY, Placed
<1>. HIDE DEF y
<1>3. PICK a, b : UpdatePresentationPosX(d) = [d EXCEPT !.px = a] /\ UpdatePresentationPosX(y) = [y EXCEPT !.px = b]
  BY PresentationX
<1>4. w \in {UpdatePresentationPosX(y), UpdatePresentationPosX(d), y, d}
  BY DEF Synced, UpdatePresentationPos, y
<1>5. CASE w = UpdatePresentationPosX(y)
  BY <1>1, <1>2, <1>3, <1>5
<1>6. CASE w = UpdatePresentationPosX(d)
  BY <1>1, <1>3, <1>6
<1>. QED  BY <1>2, <1>4, <1>5, <1>6

(* Bringing the positions in step touches neither the screen put aside nor  *)
(* a mode.                                                                  *)
LEMMA StepsApart ==
  ASSUME NEW v, NEW d, Fields(d)
  PROVE  /\ Fields(Followed(v, d)) /\ Followed(v, d).alt = d.alt /\ Followed(v, d).decp = d.decp
         /\ Synced(v, d).alt = d.alt /\ Synced(v, d).decp = d.decp
<1>1. PICK x, y, z : /\ UpdateDataPosXY(d) = [d EXCEPT !.vy = y, !.vx = x]
                     /\ UpdateDataPosX(d) = [d EXCEPT !.vx = z]
  BY DEF UpdateDataPosXY, UpdateDataPosX
<1>2. Followed(v, d) \in {UpdateDataPosXY(d), UpdateDataPosX(d), UpdateDataPosY(d), d}
  BY DEF Followed
<1>3. Fields(Followed(v, d)) /\ Followed(v, d).alt = d.alt /\ Followed(v, d).decp = d.decp
  BY <1>1, <1>2 DEF UpdateDataPosY, Fields
<1>. DEFINE r == UpdatePresentationPosY(d)
<1>4. Fields(r) /\ r.alt = d.alt /\ r.decp = d.decp
  BY DEF UpdatePresentationPosY, Fields
<1>. HIDE DEF r
<1>5. PICK a, b : UpdatePresentationPosX(d) = [d EXCEPT !.px = a] /\ UpdatePresentationPosX(r) = [r EXCEPT !.px = b]
  BY PresentationX
<1>6. Synced(v, d) \in {UpdatePresentationPosX(r), UpdatePresentationPosX(d), r, d}
  BY DEF Synced, UpdatePresentationPos, r
<1>7. Synced(v, d).alt = d.alt /\ Synced(v, d).decp = d.decp
  BY <1>4, <1>5, <1>6 DEF Fields
<1>. QED  BY <1>3, <1>7

(* One sequence of the host: the screen keeps its shape, and the cursor is  *)
(* on a line afterwards unless the sequence restores a saved one.  The      *)
(* screen put aside is kept.                                                *)
LEMMA RenderedOne ==
  ASSUME NEW max, NEW v, Screen(v, max), Placed(v), NEW s, Parsed(s), NEW w, w = RenderSeq(v, s)
  PROVE  Screen(w, max) /\ Placed(w) /\ (~Restoring(s.f, s.p) => OnLine(w)) /\ AltKept(v, w)
<1>. DEFINE d == Handled(v, s)
            t == Tidied(d, s.f)
            g == Followed(v, t)
<1>1. Done(v, d, s.f, s.p, max)
  BY SequenceDone
<1>. HIDE DEF d
<1>2. /\ Screen(t, max) /\ OnLine(t) /\ Placed(t)
      /\ ~Restoring(s.f, s.p) => t.py = v.py \/ t.py = t.vy
      /\ AltKept(v, t)
  BY <1>1, TidiedIs
<1>. HIDE DEF t
<1>3. Screen(g, max) /\ Placed(g) /\ (~Restoring(s.f, s.p) => OnLine(g))
  BY <1>2, FollowedIs
<1>4. Fields(g) /\ AltKept(v, g)
  BY <1>2, StepsApart, AltCarried DEF Screen, Loose
<1>. HIDE DEF g
<1>5. w = Synced(v, g)
  BY DEF RenderSeq, g, t, d
<1>6. AltKept(v, w)
  BY <1>4, <1>5, StepsApart, AltCarried
<1>. QED  BY <1>3, <1>5, <1>6, SyncedIs

-----------------------------------------------------------------------------
(* A batch of sequences: RenderSeqs. *)

\* env is the bound on the history, and whether the cursor is known to be on a line.
BatchSoFar(env, i, x) == Screen(x, env[1]) /\ Placed(x) /\ (env[2] => OnLine(x))
Batch == INSTANCE FoldInduction WITH Op <- RenderSeq, P <- BatchSoFar

(* The fold over the sequences of a batch is the one of the module.         *)
LEMMA BatchFold ==
  ASSUME NEW base, NEW s
  PROVE  FoldLeft(RenderSeq, base, s) = Batch!FoldLeft(RenderSeq, base, s)
BY DEF FoldLeft, Batch!FoldLeft, MapThenFoldSet, Batch!MapThenFoldSet, Max, Batch!Max

(* A batch of any length, whatever it holds.                                *)
LEMMA BatchRendered ==
  ASSUME NEW max, NEW v, Screen(v, max), Placed(v),
         NEW b, SomeSeq(b), \A i \in DOMAIN b : Parsed(b[i]),
         NEW w, w = FoldLeft(RenderSeq, v, b)
  PROVE  /\ Screen(w, max) /\ Placed(w)
         /\ OnLine(v) /\ (\A i \in DOMAIN b : ~Restoring(b[i].f, b[i].p)) => OnLine(w)
<1>. DEFINE never == OnLine(v) /\ \A i \in DOMAIN b : ~Restoring(b[i].f, b[i].p)
            env == <<max, never>>
<1>1. Len(b) \in Nat /\ DOMAIN b = 1 .. Len(b)
  BY SeqMade, SeqLen DEF SomeSeq
<1>2. BatchSoFar(env, 0, v)
  BY DEF BatchSoFar
<1>3. \A x : \A i \in 1 .. Len(b) : BatchSoFar(env, i - 1, x) => BatchSoFar(env, i, RenderSeq(x, b[i]))
  <2>1. SUFFICES ASSUME NEW x, NEW i \in 1 .. Len(b), Screen(x, max), Placed(x)
                 PROVE  /\ Screen(RenderSeq(x, b[i]), max) /\ Placed(RenderSeq(x, b[i]))
                        /\ never => OnLine(RenderSeq(x, b[i]))
    BY DEF BatchSoFar
  <2>. DEFINE r == RenderSeq(x, b[i])
  <2>2. Screen(r, max) /\ Placed(r) /\ (~Restoring(b[i].f, b[i].p) => OnLine(r))
    BY <1>1, <2>1, RenderedOne
  <2>3. never => ~Restoring(b[i].f, b[i].p)
    BY <1>1
  <2>. HIDE DEF r, never
  <2>. QED  BY <2>2, <2>3 DEF r
<1>. HIDE DEF env
<1>4. BatchSoFar(env, Len(b), FoldLeft(RenderSeq, v, b))
  BY <1>1, <1>2, <1>3, BatchFold, Batch!FoldLeftKeeps
<1>. QED  BY <1>4 DEF BatchSoFar, env

\* env is the screen before a batch and the batch: the first sequence is rendered on it.
FirstSoFar(env, i, x) ==
  /\ i = 0 => x = env[1]
  /\ i = 1 => x = RenderSeq(env[1], env[2][1])
First == INSTANCE FoldInduction WITH Op <- RenderSeq, P <- FirstSoFar

(* The fold over the sequences of a batch is the one of the module.         *)
LEMMA FirstFold ==
  ASSUME NEW base, NEW s
  PROVE  FoldLeft(RenderSeq, base, s) = First!FoldLeft(RenderSeq, base, s)
BY DEF FoldLeft, First!FoldLeft, MapThenFoldSet, First!MapThenFoldSet, Max, First!Max

(* A batch of one sequence renders that one.                                *)
LEMMA SingleRendered ==
  ASSUME NEW v, NEW b, SomeSeq(b), Len(b) = 1
  PROVE  FoldLeft(RenderSeq, v, b) = RenderSeq(v, b[1])
<1>. DEFINE env == <<v, b>>
<1>1. Len(b) \in Nat /\ DOMAIN b = 1 .. Len(b)
  BY SeqMade, SeqLen DEF SomeSeq
<1>2. FirstSoFar(env, 0, v)
  BY DEF FirstSoFar
<1>3. \A x : \A i \in 1 .. Len(b) : FirstSoFar(env, i - 1, x) => FirstSoFar(env, i, RenderSeq(x, b[i]))
  <2>1. SUFFICES ASSUME NEW x, FirstSoFar(env, 0, x)  PROVE FirstSoFar(env, 1, RenderSeq(x, b[1]))
    <3>1. \A i \in 1 .. Len(b) : i = 1 /\ i - 1 = 0
      OBVIOUS
    <3>. HIDE DEF env
    <3>. QED  BY <3>1
  <2>. QED  BY <2>1 DEF FirstSoFar
<1>. HIDE DEF env
<1>4. FirstSoFar(env, Len(b), FoldLeft(RenderSeq, v, b))
  BY <1>1, <1>2, <1>3, FirstFold, First!FoldLeftKeeps
<1>. QED  BY <1>4 DEF FirstSoFar, env

-----------------------------------------------------------------------------
(* What the user does. *)

\* The lines, the cursor and the screen put aside are the same.
Alike(v, w, max) ==
  Screen(w, max) /\ w.vx = v.vx /\ w.vy = v.vy /\ w.lines = v.lines /\ w.alt = v.alt

(* One such step after another.                                             *)
LEMMA AlikeTwice ==
  ASSUME NEW max, NEW u, NEW v, NEW w, Alike(u, v, max), Alike(v, w, max)
  PROVE  Alike(u, w, max)
BY DEF Alike

(* Sending.                                                                 *)
LEMMA SentAlike ==
  ASSUME NEW max, NEW v, Screen(v, max), NEW msg
  PROVE  Alike(v, Send(v, msg), max) /\ Alike(v, v, max)
BY DEF Alike, Send, Screen, Loose, Fields

\* What the mouse, the wheel, the focus and the clipboard send.
LEMMA ReportsAlike ==
  ASSUME NEW max, NEW v, Screen(v, max), NEW button, NEW x, NEW y, NEW up
  PROVE  /\ Alike(v, ButtonDown(v, button, x, y), max) /\ Alike(v, ButtonUp(v, x, y), max)
         /\ Alike(v, Wheel(v, up, x, y), max) /\ Alike(v, Focus(v, up), max)
         /\ Alike(v, Paste(v), max)
<1>1. Alike(v, v, max) /\ \A msg : Alike(v, Send(v, msg), max)
  BY SentAlike
<1>2. \A b, f, l : Alike(v, Reported(v, b, x, y, f, l), max)
  BY <1>1 DEF Reported
<1>3. Alike(v, Paste(v), max)
  <2>. DEFINE a == Send(v, <<"CSI", 200, "~">>)
              b == Send(a, <<"pasted">>)
              c == Send(b, <<"CSI", 201, "~">>)
  <2>1. Alike(v, a, max)
    BY <1>1
  <2>. HIDE DEF a
  <2>2. Alike(a, b, max)
    BY <2>1, SentAlike DEF Alike
  <2>. HIDE DEF b
  <2>3. Alike(b, c, max)
    BY <2>2, SentAlike DEF Alike
  <2>. HIDE DEF c
  <2>4. Alike(v, c, max)
    BY <2>1, <2>2, <2>3, AlikeTwice
  <2>5. Paste(v) = c \/ Paste(v) = Send(v, <<"pasted">>)
    BY DEF Paste, a, b, c
  <2>. QED  BY <1>1, <2>4, <2>5
<1>. QED  BY <1>1, <1>2, <1>3 DEF ButtonDown, ButtonUp, Wheel, Focus

\* Selecting changes the selection.
LEMMA SelectionsAlike ==
  ASSUME NEW max, NEW v, Screen(v, max), NEW x, NEW y, NEW right
  PROVE  /\ Alike(v, LeftDown(v, x, y, right), max) /\ Alike(v, MouseMove(v, x, y, right), max)
         /\ Alike(v, LeftUp(v), max) /\ Alike(v, LeftDouble(v, x, y), max)
         /\ Alike(v, LeftTriple(v, y), max) /\ Alike(v, SelectAll(v), max)
<1>1. ASSUME NEW s, NEW b
      PROVE  /\ Alike(v, [v EXCEPT !.sel = s], max) /\ Alike(v, [v EXCEPT !.pressed = b, !.sel = s], max)
             /\ Alike(v, [v EXCEPT !.pressed = b], max) /\ Alike(v, v, max)
  BY DEF Alike, Screen, Loose, Fields
<1>2. Alike(v, LeftDown(v, x, y, right), max)
  BY DEF LeftDown, Alike, Screen, Loose, Fields
<1>3. Alike(v, MouseMove(v, x, y, right), max)
  <2>1. PICK s : MouseMove(v, x, y, right) = [v EXCEPT !.sel = s]
    BY DEF MouseMove
  <2>. QED  BY <1>1, <2>1
<1>4. Alike(v, LeftUp(v), max)
  BY <1>1 DEF LeftUp
<1>5. Alike(v, LeftDouble(v, x, y), max)
  <2>1. PICK s : LeftDouble(v, x, y) = v \/ LeftDouble(v, x, y) = [v EXCEPT !.sel = s]
    BY DEF LeftDouble
  <2>. QED  BY <1>1, <2>1
<1>6. Alike(v, LeftTriple(v, y), max)
  BY <1>1 DEF LeftTriple
<1>7. Alike(v, SelectAll(v), max)
  BY <1>1 DEF SelectAll
<1>. QED  BY <1>2, <1>3, <1>4, <1>5, <1>6, <1>7

(* A key typed sends its sequence.                                          *)
LEMMA KeyAlike ==
  ASSUME NEW max, NEW v, Screen(v, max), NEW key
  PROVE  Alike(v, ProcessKeyDown(v, key), max)
<1>1. Alike(v, v, max) /\ \A msg : Alike(v, Send(v, msg), max)
  BY SentAlike
<1>. QED  BY <1>1 DEF ProcessKeyDown

(* A character typed: it is sent, and rendered where the terminal echoes.   *)
LEMMA CharTyped ==
  ASSUME NEW max, NEW v, Screen(v, max), Placed(v), NEW c, NEW w, w = ProcessChar(v, c)
  PROVE  Screen(w, max) /\ Placed(w) /\ (OnLine(v) => OnLine(w)) /\ w.alt = v.alt
<1>. DEFINE r == RenderText(v, <<c>>)
            u == IF GetMode(v.ansi, SRM, 0) = 1 THEN r ELSE v
<1>1. Drawn(v, r, max) /\ Placed(r) /\ (OnLine(v) => OnLine(r))
  BY SeqOne, TextDrawn
<1>. HIDE DEF r
<1>2. Screen(u, max) /\ Placed(u) /\ (OnLine(v) => OnLine(u)) /\ u.alt = v.alt
  BY <1>1 DEF Drawn
<1>3. w = Send(u, <<"char", c>>)
  BY DEF ProcessChar, r
<1>. HIDE DEF u
<1>4. Alike(u, w, max)
  BY <1>2, <1>3, SentAlike
<1>. QED  BY <1>2, <1>4 DEF Alike, Placed, OnLine, CellsAt, LineAt

-----------------------------------------------------------------------------
(* The screen of every behaviour. *)

\* Nothing the scenario holds brings back a cursor saved on a larger screen.
NeverRestored ==
  /\ \A b \in sc.batches \union {sc.prologue} : \A i \in DOMAIN b : ~Restoring(b[i].f, b[i].p)
  /\ 1048 \notin sc.modes

Standing(w) == Screen(w, sc.limit) /\ Placed(w) /\ (NeverRestored => OnLine(w))
ScreenInv == sc \in Scenarios /\ Standing(vt)

(* The screen a terminal starts with.                                       *)
LEMMA FreshStands ==
  ASSUME NEW t, NEW cx \in Nat, cx > 0, NEW cy \in Nat, cy > 0, NEW limit \in Nat, NEW selective,
         NEW w, w = Fresh(t, cx, cy, limit, selective)
  PROVE  Screen(w, limit) /\ Placed(w) /\ OnLine(w)
<1>. DEFINE l == Line(Fill(cx, Blank))
            ls == Fill(cy, l)
<1>1. IsLine(l) /\ Len(l.cells) = cx
  BY FillLen DEF Line, IsLine
<1>2. LinesOf(ls, cx) /\ Len(ls) = cy
  <2>1. Len(l.cells) >= cx
    BY <1>1
  <2>. HIDE DEF l
  <2>. QED  BY <1>1, <2>1, LinesFill
<1>. HIDE DEF ls
<1>3. /\ w.cx = cx /\ w.cy = cy /\ w.limit = limit /\ w.lines = ls /\ w.hist = <<>> /\ w.alt = NoScreen
      /\ w.vx = 0 /\ w.vy = 0 /\ w.py = 0 /\ w.home = 0 /\ w.top = 0 /\ w.bot = -1
      /\ w.saved.vx = 0 /\ w.saved.vy = 0 /\ w.saved.py = 0 /\ Fields(w)
  BY DEF Fresh, Fields, ls
<1>4. Other(NoScreen, limit) /\ History(<<>>, limit)
  BY EmptyLines DEF Other, NoScreen, History
<1>5. Screen(w, limit) /\ Placed(w)
  BY <1>2, <1>3, <1>4 DEF Screen, Loose, Grid, Region, Saved, Placed
<1>6. OnLine(w)
  <2>1. Len(ls[1].cells) >= cx /\ Len(ls[1].cells) \in Nat
    BY <1>2, LinesEach
  <2>. QED  BY <1>2, <1>3, <2>1 DEF OnLine, CellsAt, LineAt
<1>. QED  BY <1>5, <1>6

(* The first state: every scenario starts with a fresh screen, and its      *)
(* prologue has been rendered.                                              *)
LEMMA InitStands == Init => ScreenInv
<1>. SUFFICES ASSUME Init  PROVE ScreenInv
  OBVIOUS
<1>. DEFINE pro == sc.prologue
<1>1. /\ sc \in Scenarios
      /\ sc.cx \in Nat /\ sc.cx > 0 /\ sc.cy \in Nat /\ sc.cy > 0 /\ sc.limit \in Nat
      /\ SomeSeq(pro) /\ \A i \in DOMAIN pro : Parsed(pro[i])
  BY ScenarioAssumption DEF Init, ScenarioAssumption
<1>2. PICK selective \in BOOLEAN :
        vt = FoldLeft(RenderSeq, Fresh(sc.term, sc.cx, sc.cy, sc.limit, selective), pro)
  BY DEF Init
<1>. DEFINE v == Fresh(sc.term, sc.cx, sc.cy, sc.limit, selective)
<1>3. Screen(v, sc.limit) /\ Placed(v) /\ OnLine(v)
  BY <1>1, FreshStands
<1>. HIDE DEF v
<1>4. /\ Screen(vt, sc.limit) /\ Placed(vt)
      /\ OnLine(v) /\ (\A i \in DOMAIN pro : ~Restoring(pro[i].f, pro[i].p)) => OnLine(vt)
  BY <1>1, <1>2, <1>3, BatchRendered DEF v
<1>5. NeverRestored => \A i \in DOMAIN pro : ~Restoring(pro[i].f, pro[i].p)
  BY DEF NeverRestored
<1>. QED  BY <1>1, <1>3, <1>4, <1>5 DEF ScreenInv, Standing

\* A step to a screen that stands.
LEMMA DidStands ==
  ASSUME ScreenInv, NEW w, Standing(w), Did(w)
  PROVE  ScreenInv'
<1>1. vt' = w /\ sc' = sc
  BY DEF Did
<1>2. NeverRestored' = NeverRestored
  BY <1>1 DEF NeverRestored
<1>3. Standing(vt)'
  BY <1>1, <1>2 DEF Standing
<1>. QED  BY <1>1, <1>3 DEF ScreenInv

(* A step that changes neither the lines nor the cursor.                    *)
LEMMA AlikeStands ==
  ASSUME NEW v, Standing(v), NEW w, Alike(v, w, sc.limit)
  PROVE  Standing(w)
BY DEF Standing, Alike, Placed, OnLine, CellsAt, LineAt

(* A step that leaves the screen in shape.                                  *)
LEMMA ShapedStands ==
  ASSUME NEW w, Shaped(w, sc.limit)
  PROVE  Standing(w)
BY DEF Shaped, Standing

(* A mode set or reset in the dialog.                                       *)
LEMMA SteadyStands ==
  ASSUME NEW v, Standing(v), NEW w, Steady(v, w, sc.limit)
  PROVE  Standing(w)
BY DEF Standing, Steady, Settled

(* Every step of the terminal keeps the invariant.                          *)
LEMMA NextStands == ScreenInv /\ [Next]_vars => ScreenInv'
<1>. SUFFICES ASSUME ScreenInv, [Next]_vars  PROVE ScreenInv'
  OBVIOUS
<1>1. /\ sc \in Scenarios
      /\ \A l \in sc.limits : l \in Nat /\ l <= sc.limit
      /\ \A z \in sc.sizes : z[1] \in Int /\ z[2] \in Int
      /\ \A b \in sc.batches : SomeSeq(b) /\ \A i \in DOMAIN b : Parsed(b[i])
  BY ScenarioAssumption DEF ScreenInv, ScenarioAssumption
<1>2. Standing(vt) /\ Standing(Now) /\ Screen(Now, sc.limit) /\ Placed(Now)
  <2>1. Alike(vt, Now, sc.limit)
    BY DEF ScreenInv, Standing, Alike, Now, Screen, Loose, Fields
  <2>. QED  BY <2>1, AlikeStands DEF ScreenInv, Standing
<1>3. ASSUME NEW b \in sc.batches, RenderSeqs(b)  PROVE ScreenInv'
  <2>. DEFINE w == FoldLeft(RenderSeq, Now, b)
  <2>1. /\ Screen(w, sc.limit) /\ Placed(w)
        /\ OnLine(Now) /\ (\A i \in DOMAIN b : ~Restoring(b[i].f, b[i].p)) => OnLine(w)
    BY <1>1, <1>2, BatchRendered
  <2>2. NeverRestored => OnLine(Now) /\ \A i \in DOMAIN b : ~Restoring(b[i].f, b[i].p)
    BY <1>2 DEF NeverRestored, Standing
  <2>3. Did(w)
    BY <1>3 DEF RenderSeqs
  <2>. HIDE DEF w
  <2>4. Standing(w)
    BY <2>1, <2>2 DEF Standing
  <2>. QED  BY <2>3, <2>4, DidStands
<1>4. ASSUME NEW s \in sc.sizes, Resize(s[1], s[2])  PROVE ScreenInv'
  <2>. DEFINE w == Layout(Now, s[1], s[2])
  <2>1. w = Now \/ Shaped(w, sc.limit)
    BY <1>1, <1>2, LaidOut
  <2>2. Did(w)
    BY <1>4 DEF Resize
  <2>. HIDE DEF w
  <2>. QED  BY <1>2, <2>1, <2>2, ShapedStands, DidStands
<1>5. ASSUME NEW l \in sc.limits, NEW font \in sc.fonts, Options(l, font)  PROVE ScreenInv'
  <2>. DEFINE w == ShowVTOptions(Now, l, font, vt.cx, vt.cy)
  <2>1. vt.cx \in Int /\ vt.cy \in Int
    BY <1>2 DEF Standing, Screen, Loose
  <2>2. /\ w.alt = Now.alt
        /\ \/ Shaped(w, sc.limit)
           \/ Screen(w, sc.limit) /\ w.vx = Now.vx /\ w.vy = Now.vy /\ w.lines = Now.lines
    BY <1>1, <1>2, <2>1, OptionsShown
  <2>3. Did(w)
    BY <1>5 DEF Options, Quiet
  <2>. HIDE DEF w
  <2>4. Shaped(w, sc.limit) \/ Alike(Now, w, sc.limit)
    BY <2>2 DEF Alike
  <2>. QED  BY <1>2, <2>3, <2>4, AlikeStands, ShapedStands, DidStands
<1>6. ASSUME Clear  PROVE ScreenInv'
  <2>1. Shaped(ClearVt(Now), sc.limit)
    BY <1>2, Cleared DEF Screen
  <2>2. Did(ClearVt(Now))
    BY <1>6 DEF Clear, Quiet
  <2>. QED  BY <2>1, <2>2, ShapedStands, DidStands
<1>7. ASSUME NEW m \in sc.modes, NEW on \in BOOLEAN, SetMode2(m, on)  PROVE ScreenInv'
  <2>. DEFINE p == <<m>>
              a == ProcessDECSM(Now, p)
              r == ProcessDECRM(Now, p)
              w == IF on THEN a ELSE r
  <2>1. Ps(p) = m
    BY DEF Ps
  <2>2. /\ Steady(Now, a, sc.limit) /\ Screen(r, sc.limit) /\ Placed(r)
        /\ m # 1048 => Steady(Now, r, sc.limit)
    <3>. HIDE DEF p
    <3>. QED  BY <1>2, <2>1, ModesAre
  <2>3. NeverRestored => m # 1048
    BY DEF NeverRestored
  <2>4. Did(w)
    BY <1>7 DEF SetMode2, Quiet
  <2>. HIDE DEF a, r
  <2>5. Standing(a) /\ Standing(r)
    BY <1>2, <2>2, <2>3, SteadyStands DEF Standing
  <2>6. Standing(w)
    BY <2>5
  <2>. HIDE DEF w
  <2>. QED  BY <2>4, <2>6, DidStands
<1>8. ASSUME NEW w, Alike(Now, w, sc.limit), Quiet(w)  PROVE ScreenInv'
  BY <1>2, <1>8, AlikeStands, DidStands DEF Quiet
<1>9. ASSUME Selecting  PROVE ScreenInv'
  <2>1. PICK x \in sc.pointer, y \in sc.pointer, right \in BOOLEAN :
          Press(x, y, right) \/ Drag(x, y, right) \/ Release(x, y)
    BY <1>9 DEF Selecting
  <2>2. CASE Press(x, y, right)
    <3>. DEFINE u == ButtonDown(Now, 0, x, y - Len(vt.hist))
                w == LeftDown(u, x, y, right)
    <3>1. Quiet(w)
      BY <2>2 DEF Press
    <3>2. Alike(Now, u, sc.limit)
      BY <1>2, ReportsAlike
    <3>. HIDE DEF u
    <3>3. Alike(u, w, sc.limit)
      BY <3>2, SelectionsAlike DEF Alike
    <3>. HIDE DEF w
    <3>. QED  BY <1>8, <3>1, <3>2, <3>3, AlikeTwice
  <2>3. CASE Drag(x, y, right)
    BY <1>2, <1>8, <2>3, SelectionsAlike DEF Drag
  <2>4. CASE Release(x, y)
    <3>. DEFINE u == ButtonUp(Now, x, y - Len(vt.hist))
                w == LeftUp(u)
    <3>1. Quiet(w)
      BY <2>4 DEF Release
    <3>2. Alike(Now, u, sc.limit)
      BY <1>2, ReportsAlike
    <3>. HIDE DEF u
    <3>3. Alike(u, w, sc.limit)
      BY <3>2, SelectionsAlike DEF Alike
    <3>. HIDE DEF w
    <3>. QED  BY <1>8, <3>1, <3>2, <3>3, AlikeTwice
  <2>. QED  BY <2>1, <2>2, <2>3, <2>4
<1>10. ASSUME All  PROVE ScreenInv'
  BY <1>2, <1>8, <1>10, SelectionsAlike DEF All
<1>11. ASSUME NEW y, Triple(y)  PROVE ScreenInv'
  BY <1>2, <1>8, <1>11, SelectionsAlike DEF Triple
<1>12. ASSUME Clicking  PROVE ScreenInv'
  <2>1. PICK x \in sc.pointer, y \in sc.pointer : Double(x, y)
    BY <1>12 DEF Clicking
  <2>2. Did(LeftDouble(Now, x, y))
    BY <2>1 DEF Double
  <2>3. Alike(Now, LeftDouble(Now, x, y), sc.limit)
    BY <1>2, SelectionsAlike
  <2>. QED  BY <1>2, <2>2, <2>3, AlikeStands, DidStands
<1>13. ASSUME Reporting  PROVE ScreenInv'
  <2>1. \A button, x, y, up :
          /\ Alike(Now, ButtonDown(Now, button, x, y), sc.limit)
          /\ Alike(Now, Wheel(Now, up, x, y), sc.limit) /\ Alike(Now, Focus(Now, up), sc.limit)
          /\ Alike(Now, Paste(Now), sc.limit)
    BY <1>2, ReportsAlike
  <2>2. ASSUME NEW x \in sc.pointer, NEW y \in sc.pointer,
               PressOther(1, x, y) \/ Wheeled(TRUE, x, y) \/ Wheeled(FALSE, x, y)
        PROVE  ScreenInv'
    BY <1>8, <2>1, <2>2 DEF PressOther, Wheeled
  <2>3. ASSUME NEW got \in BOOLEAN, FocusTurned(got)  PROVE ScreenInv'
    BY <1>8, <2>1, <2>3 DEF FocusTurned
  <2>4. ASSUME Pasting  PROVE ScreenInv'
    BY <1>8, <2>1, <2>4 DEF Pasting
  <2>. QED  BY <1>13, <2>2, <2>3, <2>4 DEF Reporting
<1>14. ASSUME NEW k, KeyDown(k)  PROVE ScreenInv'
  BY <1>2, <1>8, <1>14, KeyAlike DEF KeyDown
<1>15. ASSUME NEW c, Char(c)  PROVE ScreenInv'
  <2>. DEFINE w == ProcessChar(Now, c)
  <2>1. Screen(w, sc.limit) /\ Placed(w) /\ (OnLine(Now) => OnLine(w))
    BY <1>2, CharTyped
  <2>2. Did(w)
    BY <1>15 DEF Char, Quiet
  <2>. HIDE DEF w
  <2>3. Standing(w)
    BY <1>2, <2>1 DEF Standing
  <2>. QED  BY <2>2, <2>3, DidStands
<1>16. CASE UNCHANGED vars
  BY <1>16 DEF vars, ScreenInv, Standing, NeverRestored
<1>17. CASE Next
  BY <1>3, <1>4, <1>5, <1>6, <1>7, <1>9, <1>10, <1>11, <1>12, <1>13, <1>14, <1>15, <1>17 DEF Next
<1>. QED  BY <1>16, <1>17

\* What did says of a batch that is not of one sequence.
Several == <<"render", "">>

\* A step to a screen that keeps the one put aside.
LEMMA DidKeepsAside ==
  ASSUME NEW w, AltKept(Now, w), Did(w), Fields(vt)
  PROVE  MainUntouched
<1>1. vt' = w
  BY DEF Did
<1>2. Now.alt = vt.alt /\ Now.decp = vt.decp
  BY DEF Now, Fields
<1>. QED  BY <1>1, <1>2 DEF AltKept, MainUntouched, OnAlternate, Mode

(* Every step keeps the screen put aside while the alternate one is shown,  *)
(* if it renders no more than one sequence.                                 *)
LEMMA StepKeepsAside ==
  ASSUME ScreenInv, [Next]_vars, did' # Several
  PROVE  MainUntouched
<1>1. /\ \A l \in sc.limits : l \in Nat /\ l <= sc.limit
      /\ \A z \in sc.sizes : z[1] \in Int /\ z[2] \in Int
      /\ \A b \in sc.batches : SomeSeq(b) /\ \A i \in DOMAIN b : Parsed(b[i])
  BY ScenarioAssumption DEF ScreenInv, ScenarioAssumption
<1>2. Screen(Now, sc.limit) /\ Placed(Now) /\ Fields(vt) /\ vt.cx \in Int /\ vt.cy \in Int
  <2>1. Alike(vt, Now, sc.limit) /\ Fields(vt)
    BY DEF ScreenInv, Standing, Alike, Now, Screen, Loose, Fields
  <2>2. Screen(vt, sc.limit) /\ Placed(vt)
    BY DEF ScreenInv, Standing
  <2>3. vt.cx \in Int /\ vt.cy \in Int
    BY <2>2 DEF Screen, Loose
  <2>. QED  BY <2>1, <2>2, <2>3 DEF Alike, Placed
<1>3. ASSUME NEW b \in sc.batches, RenderSeqs(b)  PROVE MainUntouched
  <2>. DEFINE w == FoldLeft(RenderSeq, Now, b)
  <2>1. Did(w) /\ (Len(b) # 1 => did' = Several)
    BY <1>3 DEF RenderSeqs, Several
  <2>2. Len(b) = 1 /\ SomeSeq(b) /\ DOMAIN b = 1 .. Len(b)
    BY <1>1, <2>1, SeqMade, SeqLen DEF SomeSeq
  <2>3. w = RenderSeq(Now, b[1])
    BY <2>2, SingleRendered
  <2>. HIDE DEF w
  <2>4. Parsed(b[1])
    <3>1. 1 \in DOMAIN b
      BY <2>2
    <3>. QED  BY <1>1, <3>1
  <2>5. AltKept(Now, w)
    BY <1>2, <2>3, <2>4, RenderedOne
  <2>. QED  BY <1>2, <2>1, <2>5, DidKeepsAside
<1>4. ASSUME NEW w, w.alt = Now.alt, Did(w)  PROVE MainUntouched
  BY <1>2, <1>4, DidKeepsAside DEF AltKept
<1>5. ASSUME NEW s \in sc.sizes, Resize(s[1], s[2])  PROVE MainUntouched
  <2>1. Layout(Now, s[1], s[2]).alt = Now.alt
    BY <1>1, <1>2, LaidOut
  <2>. QED  BY <1>4, <1>5, <2>1 DEF Resize
<1>6. ASSUME NEW l \in sc.limits, NEW font \in sc.fonts, Options(l, font)  PROVE MainUntouched
  <2>1. ShowVTOptions(Now, l, font, vt.cx, vt.cy).alt = Now.alt
    BY <1>1, <1>2, OptionsShown
  <2>. QED  BY <1>4, <1>6, <2>1 DEF Options, Quiet
<1>7. ASSUME Clear  PROVE MainUntouched
  BY <1>2, <1>4, <1>7, Cleared DEF Clear, Quiet, Screen
<1>8. ASSUME NEW m, NEW on \in BOOLEAN, SetMode2(m, on)  PROVE MainUntouched
  <2>. DEFINE a == ProcessDECSM(Now, <<m>>)
              r == ProcessDECRM(Now, <<m>>)
              w == IF on THEN a ELSE r
  <2>1. Did(w)
    BY <1>8 DEF SetMode2, Quiet
  <2>2. AltKept(Now, a) /\ AltKept(Now, r)
    BY <1>2, ModesKeepAside
  <2>. HIDE DEF a, r
  <2>3. AltKept(Now, w)
    BY <2>2
  <2>. HIDE DEF w
  <2>. QED  BY <1>2, <2>1, <2>3, DidKeepsAside
<1>9. ASSUME NEW w, Alike(Now, w, sc.limit), Quiet(w)  PROVE MainUntouched
  BY <1>4, <1>9 DEF Quiet, Alike
<1>10. ASSUME Selecting  PROVE MainUntouched
  <2>1. PICK x \in sc.pointer, y \in sc.pointer, right \in BOOLEAN :
          Press(x, y, right) \/ Drag(x, y, right) \/ Release(x, y)
    BY <1>10 DEF Selecting
  <2>2. CASE Press(x, y, right)
    <3>. DEFINE u == ButtonDown(Now, 0, x, y - Len(vt.hist))
                w == LeftDown(u, x, y, right)
    <3>1. Quiet(w)
      BY <2>2 DEF Press
    <3>2. Alike(Now, u, sc.limit)
      BY <1>2, ReportsAlike
    <3>. HIDE DEF u
    <3>3. Screen(u, sc.limit)
      BY <3>2 DEF Alike
    <3>4. Alike(u, w, sc.limit)
      BY <3>3, SelectionsAlike
    <3>. HIDE DEF w
    <3>. QED  BY <1>9, <3>1, <3>2, <3>4, AlikeTwice
  <2>3. CASE Drag(x, y, right)
    BY <1>2, <1>9, <2>3, SelectionsAlike DEF Drag
  <2>4. CASE Release(x, y)
    <3>. DEFINE u == ButtonUp(Now, x, y - Len(vt.hist))
                w == LeftUp(u)
    <3>1. Quiet(w)
      BY <2>4 DEF Release
    <3>2. Alike(Now, u, sc.limit)
      BY <1>2, ReportsAlike
    <3>. HIDE DEF u
    <3>3. Screen(u, sc.limit)
      BY <3>2 DEF Alike
    <3>4. Alike(u, w, sc.limit)
      BY <3>3, SelectionsAlike
    <3>. HIDE DEF w
    <3>. QED  BY <1>9, <3>1, <3>2, <3>4, AlikeTwice
  <2>. QED  BY <2>1, <2>2, <2>3, <2>4
<1>11. ASSUME All  PROVE MainUntouched
  BY <1>2, <1>9, <1>11, SelectionsAlike DEF All
<1>12. ASSUME NEW y, Triple(y)  PROVE MainUntouched
  BY <1>2, <1>9, <1>12, SelectionsAlike DEF Triple
<1>13. ASSUME Clicking  PROVE MainUntouched
  <2>1. PICK x \in sc.pointer, y \in sc.pointer : Double(x, y)
    BY <1>13 DEF Clicking
  <2>2. Did(LeftDouble(Now, x, y))
    BY <2>1 DEF Double
  <2>3. Alike(Now, LeftDouble(Now, x, y), sc.limit)
    BY <1>2, SelectionsAlike
  <2>4. LeftDouble(Now, x, y).alt = Now.alt
    BY <2>3 DEF Alike
  <2>. QED  BY <1>4, <2>2, <2>4
<1>14. ASSUME Reporting  PROVE MainUntouched
  <2>1. \A button, x, y, up :
          /\ Alike(Now, ButtonDown(Now, button, x, y), sc.limit)
          /\ Alike(Now, Wheel(Now, up, x, y), sc.limit) /\ Alike(Now, Focus(Now, up), sc.limit)
          /\ Alike(Now, Paste(Now), sc.limit)
    BY <1>2, ReportsAlike
  <2>2. ASSUME NEW x \in sc.pointer, NEW y \in sc.pointer,
               PressOther(1, x, y) \/ Wheeled(TRUE, x, y) \/ Wheeled(FALSE, x, y)
        PROVE  MainUntouched
    BY <1>9, <2>1, <2>2 DEF PressOther, Wheeled
  <2>3. ASSUME NEW got \in BOOLEAN, FocusTurned(got)  PROVE MainUntouched
    BY <1>9, <2>1, <2>3 DEF FocusTurned
  <2>4. ASSUME Pasting  PROVE MainUntouched
    BY <1>9, <2>1, <2>4 DEF Pasting
  <2>. QED  BY <1>14, <2>2, <2>3, <2>4 DEF Reporting
<1>15. ASSUME NEW k, KeyDown(k)  PROVE MainUntouched
  BY <1>2, <1>9, <1>15, KeyAlike DEF KeyDown
<1>16. ASSUME NEW c, Char(c)  PROVE MainUntouched
  <2>1. ProcessChar(Now, c).alt = Now.alt
    BY <1>2, CharTyped
  <2>. QED  BY <1>4, <1>16, <2>1 DEF Char, Quiet
<1>17. CASE UNCHANGED vars
  BY <1>17 DEF vars, MainUntouched
<1>18. CASE Next
  BY <1>3, <1>5, <1>6, <1>7, <1>8, <1>10, <1>11, <1>12, <1>13, <1>14, <1>15, <1>16, <1>18 DEF Next
<1>. QED  BY <1>17, <1>18

-----------------------------------------------------------------------------
(* The invariant gives the two properties the runs check.                   *)
LEMMA StandingScreen == ScreenInv => ScreenShape /\ (NeverRestored => CursorOnLine)
<1>. SUFFICES ASSUME ScreenInv  PROVE ScreenShape /\ (NeverRestored => CursorOnLine)
  OBVIOUS
<1>1. Screen(vt, sc.limit) /\ (NeverRestored => OnLine(vt))
  BY DEF ScreenInv, Standing
<1>2. Sized(vt)
  <2>1. LinesOf(vt.lines, vt.cx) /\ Len(vt.lines) = vt.cy /\ Len(vt.hist) <= sc.limit
    BY <1>1 DEF Screen, Loose, Grid, History
  <2>. QED  BY <2>1, LinesEach DEF Sized
<1>3. RegionWithin(vt)
  BY <1>1 DEF Screen, Region, RegionWithin
<1>. QED  BY <1>1, <1>2, <1>3 DEF ScreenShape, CursorOnLine, OnLine

(* The shown screen has as many lines as the window has rows, each as long  *)
(* as the window is wide at least; the region lies within it and the        *)
(* history stays within its bound: whatever RenderSeqs renders in whatever  *)
(* order with the resizes, the dialogs, the mouse and the keys (ResizeVt,   *)
(* SwapScr, ClearVt, RenderText).                                           *)
THEOREM ScreenKeepsShape == Spec => []ScreenShape
<1>1. Spec => []ScreenInv
  BY InitStands, NextStands, PTL DEF Spec
<1>2. ScreenInv => ScreenShape
  BY StandingScreen
<1>. QED  BY <1>1, <1>2, PTL

(* As long as nothing brings back a saved cursor (DECRC, ANSI_RCP, mode     *)
(* 1048), the cursor is on a line of the screen between two events, and on  *)
(* a cell of it unless the line is the last: RenderSeq and the mouse index  *)
(* mLines[mVy] with no check.  A cursor saved on a higher screen is         *)
(* restored as it was.                                                      *)
THEOREM CursorStaysOnLine == Spec => [](NeverRestored => CursorOnLine)
<1>1. Spec => []ScreenInv
  BY InitStands, NextStands, PTL DEF Spec
<1>2. ScreenInv => (NeverRestored => CursorOnLine)
  BY StandingScreen
<1>. QED  BY <1>1, <1>2, PTL

(* While the alternate screen is shown nothing touches the main one: no     *)
(* sequence of the host (XtermDECSM, XtermDECRM, RIS, DECSTR, and whatever  *)
(* scrolls, erases or prints), no resize, no dialog and nothing the user    *)
(* does.  Only a batch of several sequences may leave the alternate screen  *)
(* and come back to it within one step.                                     *)
THEOREM MainKeptAside == Spec => [][did' # Several => MainUntouched]_vars
<1>1. Spec => []ScreenInv
  BY InitStands, NextStands, PTL DEF Spec
<1>2. ScreenInv /\ [Next]_vars => [did' # Several => MainUntouched]_vars
  BY StepKeepsAside
<1>. QED  BY <1>1, <1>2, PTL DEF Spec

=============================================================================
