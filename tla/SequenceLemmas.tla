--------------------------- MODULE SequenceLemmas ---------------------------
(***************************************************************************)
(* What the proofs about the devices, the terminal and the transfers need  *)
(* of sequences and the library does not state in this form.               *)
(***************************************************************************)
EXTENDS Integers, Sequences, FiniteSets, SequenceTheorems, FiniteSetTheorems,
        TLAPS

(* Cutting a sequence at n keeps its type on both sides, and gluing the    *)
(* two parts together gives it back.                                       *)
LEMMA CutAt ==
  ASSUME NEW S, NEW s \in Seq(S), NEW n \in 0 .. Len(s)
  PROVE  /\ SubSeq(s, 1, n) \in Seq(S)
         /\ Len(SubSeq(s, 1, n)) = n
         /\ \A i \in 1 .. n : SubSeq(s, 1, n)[i] = s[i]
         /\ SubSeq(s, n + 1, Len(s)) \in Seq(S)
         /\ Len(SubSeq(s, n + 1, Len(s))) = Len(s) - n
         /\ SubSeq(s, 1, n) \o SubSeq(s, n + 1, Len(s)) = s
<1>. Len(s) \in Nat
  BY LenProperties
<1>. \A i \in 1 .. Len(s) : s[i] \in S
  BY ElementOfSeq
<1>1. /\ SubSeq(s, 1, n) \in Seq(S)
      /\ Len(SubSeq(s, 1, n)) = n
      /\ \A i \in 1 .. n : SubSeq(s, 1, n)[i] = s[i]
  <2>. \A i \in 1 .. n : s[i] \in S
    OBVIOUS
  <2>. QED  BY SubSeqProperties
<1>2. /\ SubSeq(s, n + 1, Len(s)) \in Seq(S)
      /\ Len(SubSeq(s, n + 1, Len(s))) = Len(s) - n
  <2>. \A i \in n + 1 .. Len(s) : s[i] \in S
    OBVIOUS
  <2>. QED  BY SubSeqProperties
<1>3. SubSeq(s, 1, n) \o SubSeq(s, n + 1, Len(s)) = s
  <2>1. 1 \in 1 .. Len(s) + 1 /\ n \in 1 - 1 .. Len(s) /\ Len(s) \in n .. Len(s)
    OBVIOUS
  <2>2. SubSeq(s, 1, n) \o SubSeq(s, n + 1, Len(s)) = SubSeq(s, 1, Len(s))
    BY <2>1, ConcatAdjacentSubSeq, Zenon
  <2>. QED  BY <2>2, SubSeqFull
<1>. QED  BY <1>1, <1>2, <1>3

(* The first element, as a cut and as the head.                            *)
LEMMA FirstOf ==
  ASSUME NEW S, NEW s \in Seq(S), s # <<>>
  PROVE  /\ Len(s) \in Nat /\ 1 \in 1 .. Len(s)
         /\ Head(s) = s[1] /\ s[1] \in S
         /\ SubSeq(s, 1, 1) = <<s[1]>>
         /\ Tail(s) = SubSeq(s, 2, Len(s))
         /\ <<s[1]>> \o Tail(s) = s
<1>1. Len(s) \in Nat /\ 1 \in 1 .. Len(s) /\ Len(s) \in 1 .. Len(s)
  BY EmptySeq
<1>2. Head(s) = s[1]
  <2>1. Head(SubSeq(s, 1, Len(s))) = s[1]
    BY <1>1, HeadTailOfSubSeq, Zenon
  <2>. QED  BY <2>1, SubSeqFull
<1>3. s[1] \in S
  BY <1>1, ElementOfSeq
<1>4. SubSeq(s, 1, 1) = <<s[1]>>
  <2>1. SubSeq(s, 1, 1) = <<s[1]>> \o SubSeq(s, 2, 1)
    <3>1. SubSeq(s, 1, 1) = <<s[1]>> \o SubSeq(s, 1 + 1, 1)
      BY <1>1, SubSeqRecursiveFirst, 1 \in 1 .. Len(s), 1 \in 1 .. 1
    <3>. QED  BY <3>1
  <2>2. SubSeq(s, 2, 1) = <<>>
    BY SubSeqEmpty
  <2>3. <<s[1]>> \in Seq(S)
    BY <1>3
  <2>. QED  BY <2>1, <2>2, <2>3, ConcatEmptySeq
<1>5. Tail(s) = SubSeq(s, 2, Len(s))
  BY TailIsSubSeq
<1>6. <<s[1]>> \o Tail(s) = s
  <2>1. SubSeq(s, 1, 1) \o SubSeq(s, 1 + 1, Len(s)) = s
    BY <1>1, CutAt, 1 \in 0 .. Len(s)
  <2>. QED  BY <2>1, <1>4, <1>5
<1>. QED  BY <1>1, <1>2, <1>3, <1>4, <1>5, <1>6

(* Where the elements come from after an Append, a Tail or a removal.      *)
LEMMA AppendEach ==
  ASSUME NEW S, NEW s \in Seq(S), NEW e \in S
  PROVE  /\ Append(s, e) \in Seq(S)
         /\ \A i \in 1 .. Len(Append(s, e)) :
              \/ i \in 1 .. Len(s) /\ Append(s, e)[i] = s[i]
              \/ Append(s, e)[i] = e
<1>1. /\ Append(s, e) \in Seq(S) /\ Len(s) \in Nat
      /\ Len(Append(s, e)) = Len(s) + 1
      /\ \A i \in 1 .. Len(s) : Append(s, e)[i] = s[i]
      /\ Append(s, e)[Len(s) + 1] = e
  BY AppendProperties, LenProperties
<1>2. \A i \in 1 .. Len(s) + 1 : i \in 1 .. Len(s) \/ i = Len(s) + 1
  BY <1>1
<1>. QED  BY <1>1, <1>2

LEMMA TailEach ==
  ASSUME NEW S, NEW s \in Seq(S), s # <<>>
  PROVE  /\ Tail(s) \in Seq(S)
         /\ \A i \in 1 .. Len(Tail(s)) : i + 1 \in 1 .. Len(s) /\ Tail(s)[i] = s[i + 1]
<1>1. /\ Tail(s) \in Seq(S) /\ Len(s) \in Nat /\ Len(Tail(s)) = Len(s) - 1
      /\ \A i \in 1 .. Len(Tail(s)) : Tail(s)[i] = s[i + 1]
  BY HeadTailProperties, LenProperties
<1>. QED  BY <1>1

LEMMA RemoveEach ==
  ASSUME NEW S, NEW s \in Seq(S), NEW i \in 1 .. Len(s)
  PROVE  LET q == SubSeq(s, 1, i - 1) \o SubSeq(s, i + 1, Len(s))
         IN  /\ q \in Seq(S)
             /\ \A j \in 1 .. Len(q) : \E m \in 1 .. Len(s) : q[j] = s[m]
<1>. DEFINE a == SubSeq(s, 1, i - 1)
            b == SubSeq(s, i + 1, Len(s))
            q == a \o b
<1>1. Len(s) \in Nat /\ i - 1 \in 0 .. Len(s) /\ i \in 0 .. Len(s)
  BY LenProperties
<1>2. /\ a \in Seq(S) /\ Len(a) = i - 1 /\ \A j \in 1 .. i - 1 : a[j] = s[j]
      /\ b \in Seq(S) /\ Len(b) = Len(s) - i
  BY <1>1, CutAt
<1>3. \A j \in 1 .. Len(s) - i : b[j] = s[j + i]
  <2>1. \A j \in i + 1 .. Len(s) : s[j] \in S
    BY <1>1, ElementOfSeq
  <2>2. \A j \in 1 .. Len(s) - (i + 1) + 1 : b[j] = s[(i + 1) + j - 1]
    BY <1>1, <2>1, SubSeqProperties
  <2>. HIDE DEF b
  <2>3. \A j \in 1 .. Len(s) - i : j \in 1 .. Len(s) - (i + 1) + 1 /\ (i + 1) + j - 1 = j + i
    BY <1>1
  <2>. QED  BY <2>2, <2>3
<1>. HIDE DEF a, b
<1>4. /\ q \in Seq(S) /\ Len(q) = Len(s) - 1
      /\ \A j \in 1 .. Len(s) - 1 :
           q[j] = IF j <= i - 1 THEN a[j] ELSE b[j - (i - 1)]
  <2>1. /\ q \in Seq(S) /\ Len(q) = Len(a) + Len(b)
        /\ \A j \in 1 .. Len(a) + Len(b) :
             q[j] = IF j <= Len(a) THEN a[j] ELSE b[j - Len(a)]
    BY <1>2, ConcatProperties
  <2>2. Len(a) + Len(b) = Len(s) - 1
    BY <1>1, <1>2
  <2>. QED  BY <1>2, <2>1, <2>2
<1>. HIDE DEF q
<1>5. ASSUME NEW j \in 1 .. Len(q)  PROVE \E m \in 1 .. Len(s) : q[j] = s[m]
  <2>1. CASE j <= i - 1
    <3>1. j \in 1 .. i - 1 /\ j \in 1 .. Len(s) /\ q[j] = a[j]
      BY <1>1, <1>4, <2>1
    <3>. QED  BY <1>2, <3>1
  <2>2. CASE ~(j <= i - 1)
    <3>1. j - (i - 1) \in 1 .. Len(s) - i /\ q[j] = b[j - (i - 1)]
      BY <1>1, <1>4, <2>2
    <3>2. (j - (i - 1)) + i \in 1 .. Len(s)
      BY <1>1, <3>1
    <3>. QED  BY <1>3, <3>1, <3>2
  <2>. QED  BY <2>1, <2>2
<1>. QED  BY <1>4, <1>5 DEF q, a, b

(* Two elements at once.                                                   *)
LEMMA AppendTwo ==
  ASSUME NEW S, NEW s \in Seq(S), NEW e \in S, NEW f \in S
  PROVE  s \o <<e, f>> = Append(Append(s, e), f)
<1>1. <<e>> \in Seq(S) /\ <<f>> \in Seq(S)
  OBVIOUS
<1>2. Append(s, e) \in Seq(S) /\ Append(s, e) = s \o <<e>>
  BY AppendProperties, AppendIsConcat
<1>3. Append(Append(s, e), f) = (s \o <<e>>) \o <<f>>
  BY <1>2, AppendIsConcat
<1>4. (s \o <<e>>) \o <<f>> = s \o (<<e>> \o <<f>>)
  BY <1>1, ConcatAssociative
<1>5. <<e>> \o <<f>> = <<e, f>>
  <2>1. <<e, f>> \in Seq(S) /\ Len(<<e, f>>) = 2 /\ Len(<<e>>) = 1 /\ Len(<<f>>) = 1
    OBVIOUS
  <2>2. /\ <<e>> \o <<f>> \in Seq(S) /\ Len(<<e>> \o <<f>>) = 2
        /\ (<<e>> \o <<f>>)[1] = e /\ (<<e>> \o <<f>>)[2] = f
    <3>. DEFINE g == <<e>>
                h == <<f>>
    <3>1. g \in Seq(S) /\ h \in Seq(S) /\ Len(g) = 1 /\ Len(h) = 1
          /\ g[1] = e /\ h[1] = f
      BY <1>1
    <3>. HIDE DEF g, h
    <3>2. /\ g \o h \in Seq(S) /\ Len(g \o h) = 1 + 1
          /\ \A i \in 1 .. 1 + 1 : (g \o h)[i] = IF i <= 1 THEN g[i] ELSE h[i - 1]
      BY <3>1, ConcatProperties
    <3>3. (g \o h)[1] = g[1] /\ (g \o h)[2] = h[1]
      BY <3>2
    <3>. QED  BY <3>1, <3>2, <3>3 DEF g, h
  <2>3. \A i \in 1 .. 2 : (<<e>> \o <<f>>)[i] = <<e, f>>[i]
    BY <2>2
  <2>. QED  BY <2>1, <2>2, <2>3, SeqEqual
<1>. QED  BY <1>3, <1>4, <1>5

(* An empty sequence has no place.                                          *)
LEMMA EmptyLine ==
  ASSUME NEW s, s = <<>>
  PROVE  1 .. Len(s) = {} /\ Len(s) <= 1
<1>1. Len(s) = 0
  BY EmptySeq
<1>2. 1 .. Len(s) = {}
  BY <1>1
<1>. QED  BY <1>1, <1>2

-----------------------------------------------------------------------------
(* How often elements of T occur in a sequence.                            *)
Places(s, T) == {i \in 1 .. Len(s) : s[i] \in T}

LEMMA PlacesType ==
  ASSUME NEW S, NEW s \in Seq(S), NEW T
  PROVE  /\ IsFiniteSet(Places(s, T)) /\ Cardinality(Places(s, T)) \in Nat
         /\ Cardinality(Places(s, T)) <= Len(s)
<1>1. Len(s) \in Nat /\ IsFiniteSet(1 .. Len(s)) /\ Cardinality(1 .. Len(s)) = Len(s)
  <2>1. Len(s) \in Nat /\ Len(s) \in Int /\ 1 \in Int
    BY LenProperties
  <2>2. IsFiniteSet(1 .. Len(s))
        /\ Cardinality(1 .. Len(s)) = IF 1 > Len(s) THEN 0 ELSE Len(s) - 1 + 1
    BY <2>1, FS_Interval, Zenon
  <2>. QED  BY <2>1, <2>2
<1>2. Places(s, T) \in SUBSET (1 .. Len(s))
  BY DEF Places
<1>3. /\ IsFiniteSet(Places(s, T))
      /\ Cardinality(Places(s, T)) <= Cardinality(1 .. Len(s))
  BY <1>1, <1>2, FS_Subset
<1>. QED  BY <1>1, <1>3, FS_CardinalityType

(* Elements that come from different places of another sequence occur      *)
(* there as often.                                                         *)
LEMMA TakenPlaces ==
  ASSUME NEW S, NEW s \in Seq(S), NEW q \in Seq(S), NEW T, NEW f,
         \A i \in 1 .. Len(q) : f[i] \in 1 .. Len(s) /\ q[i] = s[f[i]],
         \A i, j \in 1 .. Len(q) : f[i] = f[j] => i = j,
         NEW x, \A i \in 1 .. Len(q) : f[i] # x
  PROVE  /\ Cardinality(Places(q, T)) <= Cardinality(Places(s, T))
         /\ x \in Places(s, T) =>
              Cardinality(Places(q, T)) <= Cardinality(Places(s, T)) - 1
<1>. DEFINE P == Places(s, T) \ {x}
            g == [i \in Places(q, T) |-> f[i]]
<1>1. g \in Injection(Places(q, T), P)
  BY DEF Injection, IsInjective, Places
<1>2. /\ IsFiniteSet(P)
      /\ Cardinality(P) = IF x \in Places(s, T) THEN Cardinality(Places(s, T)) - 1
                                               ELSE Cardinality(Places(s, T))
  BY PlacesType, FS_RemoveElement
<1>3. Cardinality(Places(q, T)) <= Cardinality(P)
  BY <1>1, <1>2, FS_Injection
<1>4. Cardinality(Places(q, T)) \in Nat /\ Cardinality(Places(s, T)) \in Nat
  BY PlacesType
<1>. QED  BY <1>2, <1>3, <1>4

LEMMA TailPlaces ==
  ASSUME NEW S, NEW s \in Seq(S), s # <<>>, NEW T
  PROVE  /\ Cardinality(Places(Tail(s), T)) <= Cardinality(Places(s, T))
         /\ s[1] \in T =>
              Cardinality(Places(Tail(s), T)) <= Cardinality(Places(s, T)) - 1
<1>. DEFINE t == Tail(s)
            f == [i \in 1 .. Len(t) |-> i + 1]
<1>1. /\ t \in Seq(S)
      /\ \A i \in 1 .. Len(t) : i + 1 \in 1 .. Len(s) /\ t[i] = s[i + 1]
      /\ 1 \in 1 .. Len(s)
  BY TailEach, FirstOf
<1>. HIDE DEF t
<1>2. /\ \A i \in 1 .. Len(t) : f[i] \in 1 .. Len(s) /\ t[i] = s[f[i]]
      /\ \A i, j \in 1 .. Len(t) : f[i] = f[j] => i = j
      /\ \A i \in 1 .. Len(t) : f[i] # 1
  BY <1>1
<1>. HIDE DEF f
<1>3. /\ Cardinality(Places(t, T)) <= Cardinality(Places(s, T))
      /\ 1 \in Places(s, T) =>
           Cardinality(Places(t, T)) <= Cardinality(Places(s, T)) - 1
  BY <1>1, <1>2, TakenPlaces
<1>4. s[1] \in T => 1 \in Places(s, T)
  BY <1>1 DEF Places
<1>. QED  BY <1>3, <1>4 DEF t

LEMMA RemovePlaces ==
  ASSUME NEW S, NEW s \in Seq(S), NEW i \in 1 .. Len(s), NEW T
  PROVE  LET q == SubSeq(s, 1, i - 1) \o SubSeq(s, i + 1, Len(s))
         IN  /\ q \in Seq(S) /\ Len(q) = Len(s) - 1
             /\ Cardinality(Places(q, T)) <= Cardinality(Places(s, T))
<1>. DEFINE a == SubSeq(s, 1, i - 1)
            b == SubSeq(s, i + 1, Len(s))
            q == a \o b
            f == [j \in 1 .. Len(q) |-> IF j < i THEN j ELSE j + 1]
<1>1. Len(s) \in Nat /\ i - 1 \in 0 .. Len(s) /\ i \in 0 .. Len(s)
  BY LenProperties
<1>2. /\ a \in Seq(S) /\ Len(a) = i - 1
      /\ \A j \in 1 .. i - 1 : a[j] = s[j]
      /\ b \in Seq(S) /\ Len(b) = Len(s) - i
  BY <1>1, CutAt
<1>3. \A j \in 1 .. Len(s) - i : b[j] = s[j + i]
  BY <1>1, <1>2
<1>. HIDE DEF a, b
<1>4. /\ q \in Seq(S) /\ Len(q) = Len(a) + Len(b)
      /\ \A j \in 1 .. Len(a) + Len(b) :
           q[j] = IF j <= Len(a) THEN a[j] ELSE b[j - Len(a)]
  BY <1>2, ConcatProperties
<1>5. Len(q) = Len(s) - 1
  BY <1>1, <1>2, <1>4
<1>6. ASSUME NEW j \in 1 .. Len(q)
      PROVE  f[j] \in 1 .. Len(s) /\ q[j] = s[f[j]]
  <2>. HIDE DEF q
  <2>1. CASE j < i
    <3>1. j \in 1 .. i - 1 /\ f[j] = j
      BY <1>1, <1>5, <2>1
    <3>. QED  BY <1>1, <1>2, <1>4, <3>1
  <2>2. CASE ~(j < i)
    <3>1. /\ f[j] = j + 1 /\ j + 1 \in 1 .. Len(s)
          /\ j - (i - 1) \in 1 .. Len(s) - i /\ (j - (i - 1)) + i = j + 1
      BY <1>1, <1>5, <2>2
    <3>2. b[j - (i - 1)] = s[j + 1]
      BY <1>3, <3>1
    <3>3. q[j] = b[j - (i - 1)]
      BY <1>1, <1>2, <1>4, <1>5, <2>2
    <3>. QED  BY <3>1, <3>2, <3>3
  <2>. QED  BY <2>1, <2>2
<1>7. \A j, m \in 1 .. Len(q) : f[j] = f[m] => j = m
  <2>. HIDE DEF q
  <2>. QED  BY <1>1, <1>5
<1>8. \A j \in 1 .. Len(q) : f[j] # i
  <2>. HIDE DEF q
  <2>. QED  BY <1>1, <1>5
<1>. HIDE DEF f, q
<1>9. Cardinality(Places(q, T)) <= Cardinality(Places(s, T))
  <2>1. q \in Seq(S)
    BY <1>4, Zenon
  <2>2. /\ \A j \in 1 .. Len(q) : f[j] \in 1 .. Len(s) /\ q[j] = s[f[j]]
        /\ \A j, m \in 1 .. Len(q) : f[j] = f[m] => j = m
        /\ \A j \in 1 .. Len(q) : f[j] # i
    BY <1>6, <1>7, <1>8
  <2>3. /\ Cardinality(Places(q, T)) <= Cardinality(Places(s, T))
        /\ i \in Places(s, T) =>
             Cardinality(Places(q, T)) <= Cardinality(Places(s, T)) - 1
    BY <2>1, <2>2, TakenPlaces, ZenonT(30)
  <2>. QED  BY <2>3
<1>10. q \in Seq(S) /\ Len(q) = Len(s) - 1
       /\ Cardinality(Places(q, T)) <= Cardinality(Places(s, T))
  BY <1>4, <1>5, <1>9
<1>. QED  BY <1>10, Zenon DEF q, a, b

LEMMA AppendPlaces ==
  ASSUME NEW S, NEW s \in Seq(S), NEW e \in S, NEW T
  PROVE  /\ e \notin T => Places(Append(s, e), T) = Places(s, T)
         /\ Cardinality(Places(Append(s, e), T)) <= Cardinality(Places(s, T)) + 1
<1>. DEFINE q == Append(s, e)
<1>1. /\ Len(s) \in Nat /\ Len(q) = Len(s) + 1 /\ q \in Seq(S)
      /\ \A i \in 1 .. Len(s) : q[i] = s[i]
      /\ q[Len(s) + 1] = e
  BY AppendProperties, LenProperties
<1>. HIDE DEF q
<1>2. Places(q, T) \subseteq Places(s, T) \cup {Len(s) + 1}
  BY <1>1 DEF Places
<1>3. Places(s, T) \subseteq Places(q, T)
  BY <1>1 DEF Places
<1>4. e \notin T => Len(s) + 1 \notin Places(q, T)
  BY <1>1 DEF Places
<1>5. /\ IsFiniteSet(Places(s, T)) /\ Cardinality(Places(s, T)) \in Nat
      /\ Cardinality(Places(q, T)) \in Nat
  BY <1>1, PlacesType
<1>6. /\ IsFiniteSet(Places(s, T) \cup {Len(s) + 1})
      /\ Cardinality(Places(s, T) \cup {Len(s) + 1}) <= Cardinality(Places(s, T)) + 1
  <2>1. /\ IsFiniteSet(Places(s, T) \cup {Len(s) + 1})
        /\ Cardinality(Places(s, T) \cup {Len(s) + 1})
             = IF Len(s) + 1 \in Places(s, T) THEN Cardinality(Places(s, T))
               ELSE Cardinality(Places(s, T)) + 1
    BY <1>5, FS_AddElement, Zenon
  <2>. QED  BY <1>5, <2>1
<1>7. Cardinality(Places(q, T)) <= Cardinality(Places(s, T) \cup {Len(s) + 1})
  BY <1>2, <1>6, FS_Subset
<1>8. Cardinality(Places(s, T) \cup {Len(s) + 1}) \in Nat
  BY <1>6, FS_CardinalityType
<1>9. Cardinality(Places(q, T)) <= Cardinality(Places(s, T)) + 1
  BY <1>5, <1>6, <1>7, <1>8
<1>10. e \notin T => Places(q, T) = Places(s, T)
  BY <1>2, <1>3, <1>4
<1>. QED  BY <1>9, <1>10 DEF q
=============================================================================
