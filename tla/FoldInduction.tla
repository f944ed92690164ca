--------------------------- MODULE FoldInduction ---------------------------
(***************************************************************************)
(* What a fold over a sequence keeps, for the proofs about the screen: a    *)
(* batch of sequences, a text, the parameters of CTC and the lines that     *)
(* leave a smaller screen are all folded from the left.                     *)
(*                                                                         *)
(* The provers cannot put an operator in the place of a theorem's operator  *)
(* parameter.  Here the step of the fold and what it keeps are constants of *)
(* the module instead, and the module is instantiated for each fold.        *)
(***************************************************************************)
EXTENDS Integers, Sequences, SequencesExt, WellFoundedInduction, TLAPS

CONSTANTS Op(_, _),     \* the step, from a result and an element
          P(_, _, _)    \* what the result after i elements is, given what never changes

(* A nonempty set of natural numbers has a least element.                  *)
LEMMA LeastOf ==
  ASSUME NEW T, T \subseteq Nat, T # {}
  PROVE  \E x \in T : \A y \in T : x <= y
<1>1. PICK x \in T : \A y \in T : <<y, x>> \notin OpToRel(<, Nat)
  BY NatLessThanWellFounded, WFMin, Zenon
<1>2. \A y \in T : ~(y < x)
  BY <1>1 DEF OpToRel
<1>. QED  BY <1>2

(* Induction on the natural numbers, about a set instead of a predicate.   *)
LEMMA NatSetInduction ==
  ASSUME NEW T, 0 \in T, \A n \in Nat : n \in T => n + 1 \in T
  PROVE  Nat \subseteq T
<1>1. SUFFICES ASSUME Nat \ T # {}  PROVE FALSE
  OBVIOUS
<1>2. PICK x \in Nat \ T : \A y \in Nat \ T : x <= y
  BY <1>1, LeastOf
<1>3. x # 0 /\ x - 1 \in Nat
  BY <1>2
<1>4. x - 1 \in T
  BY <1>2, <1>3
<1>5. x - 1 + 1 \in T
  BY <1>3, <1>4
<1>. QED  BY <1>2, <1>5

(* Some numbers up to n have a greatest among them.                        *)
LEMMA GreatestOf ==
  ASSUME NEW n \in Nat, NEW T, T \subseteq 0 .. n, T # {}
  PROVE  \E m \in T : \A y \in T : m >= y
<1>. DEFINE D == {k \in Nat : n - k \in T}
<1>1. D # {}
  <2>1. PICK t \in T : TRUE
    OBVIOUS
  <2>2. n - t \in Nat /\ n - (n - t) = t
    BY <2>1
  <2>. QED  BY <2>1, <2>2
<1>2. PICK d \in D : \A y \in D : d <= y
  <2>1. D \subseteq Nat
    OBVIOUS
  <2>. HIDE DEF D
  <2>. QED  BY <1>1, <2>1, LeastOf
<1>3. n - d \in T
  BY <1>2
<1>4. ASSUME NEW y \in T  PROVE y <= n - d
  <2>1. n - y \in Nat /\ n - (n - y) = y
    OBVIOUS
  <2>2. d <= n - y
    BY <1>2, <2>1
  <2>. QED  BY <1>2, <2>1, <2>2
<1>5. \A y \in T : n - d >= y
  BY <1>2, <1>4
<1>. QED  BY <1>3, <1>5

(* Of some numbers up to n with n among them, the greatest is n.           *)
LEMMA GreatestIs ==
  ASSUME NEW n \in Nat, NEW T, T \subseteq 0 .. n, n \in T
  PROVE  Max(T) = n
<1>1. \A y \in T : n >= y
  OBVIOUS
<1>2. Max(T) \in T /\ \A y \in T : Max(T) >= y
  BY <1>1 DEF Max
<1>3. Max(T) >= n /\ Max(T) \in 0 .. n
  BY <1>2
<1>. QED  BY <1>3

-----------------------------------------------------------------------------
(* A fold from the left applies Op to the elements in their order, so that  *)
(* what holds of the base and is carried over each element holds of the     *)
(* result.                                                                  *)
THEOREM FoldLeftKeeps ==
  ASSUME NEW env, NEW base, NEW seq, NEW n \in Nat, DOMAIN seq = 1 .. n,
         P(env, 0, base),
         \A x : \A i \in 1 .. n : P(env, i - 1, x) => P(env, i, Op(x, seq[i]))
  PROVE  P(env, n, FoldLeft(Op, base, seq))
<1>. DEFINE Body(g, k) ==
              [s \in SUBSET (1 .. k) |->
                 IF s = {} THEN base ELSE Op(g[s \ {Max(s)}], seq[Max(s)])]
            iter == CHOOSE g : g = Body(g, n)
<1>1. FoldLeft(Op, base, seq) = iter[1 .. n]
  BY DEF FoldLeft, MapThenFoldSet
<1>2. \E g : g = Body(g, n)
  <2>. DEFINE Q(k) == k <= n => \E g : g = Body(g, k)
  <2>1. Q(0)
    <3>. DEFINE g == [s \in SUBSET (1 .. 0) |-> base]
    <3>1. \A s \in SUBSET (1 .. 0) : s = {}
      OBVIOUS
    <3>2. g = Body(g, 0)
      BY <3>1
    <3>. QED  BY <3>2
  <2>2. ASSUME NEW k \in Nat, Q(k)
        PROVE  Q(k + 1)
    <3>. SUFFICES ASSUME k + 1 <= n
                  PROVE  \E g : g = Body(g, k + 1)
      OBVIOUS
    <3>1. k <= n
      OBVIOUS
    <3>2. PICK g : g = Body(g, k)
      BY <2>2, <3>1, Zenon
    <3>. DEFINE h == [s \in SUBSET (1 .. k + 1) |->
                        IF k + 1 \in s THEN Op(g[s \ {k + 1}], seq[k + 1]) ELSE g[s]]
    <3>3. ASSUME NEW s \in SUBSET (1 .. k + 1)
          PROVE  h[s] = IF s = {} THEN base ELSE Op(h[s \ {Max(s)}], seq[Max(s)])
      <4>1. CASE k + 1 \in s
        <5>1. Max(s) = k + 1
          <6>1. s \subseteq 0 .. k + 1 /\ k + 1 \in Nat
            OBVIOUS
          <6>. QED  BY <4>1, <6>1, GreatestIs
        <5>2. s \ {k + 1} \in SUBSET (1 .. k + 1) /\ k + 1 \notin s \ {k + 1}
          OBVIOUS
        <5>3. h[s \ {k + 1}] = g[s \ {k + 1}]
          BY <5>2
        <5>. QED  BY <4>1, <5>1, <5>3
      <4>2. CASE k + 1 \notin s
        <5>1. s \in SUBSET (1 .. k)
          <6>1. ASSUME NEW i \in s  PROVE i \in 1 .. k
            BY <4>2
          <6>. QED  BY <6>1
        <5>2. s \ {Max(s)} \in SUBSET (1 .. k) /\ s \ {Max(s)} \in SUBSET (1 .. k + 1)
          BY <5>1
        <5>3. g[s] = IF s = {} THEN base ELSE Op(g[s \ {Max(s)}], seq[Max(s)])
          BY <3>2, <5>1
        <5>4. h[s] = g[s] /\ h[s \ {Max(s)}] = g[s \ {Max(s)}]
          BY <4>2, <5>2
        <5>. QED  BY <5>3, <5>4
      <4>. QED  BY <4>1, <4>2
    <3>4. h = Body(h, k + 1)
      BY <3>3
    <3>. QED  BY <3>4
  <2>. DEFINE T == {k \in Nat : Q(k)}
  <2>. HIDE DEF Q
  <2>3. 0 \in T /\ \A k \in Nat : k \in T => k + 1 \in T
    BY <2>1, <2>2
  <2>4. Nat \subseteq T
    <3>. HIDE DEF T
    <3>. QED  BY <2>3, NatSetInduction
  <2>5. Q(n)
    BY <2>4
  <2>6. n <= n => \E g : g = Body(g, n)
    BY <2>5 DEF Q
  <2>7. n <= n
    OBVIOUS
  <2>. QED  BY <2>6, <2>7, Zenon
<1>3. iter = Body(iter, n)
  BY <1>2
<1>. HIDE DEF iter
<1>. DEFINE T == {k \in Nat : k <= n => P(env, k, iter[1 .. k])}
<1>4. 0 \in T
  <2>1. 1 .. 0 = {} /\ {} \in SUBSET (1 .. n)
    OBVIOUS
  <2>2. iter[1 .. 0] = base
    BY <1>3, <2>1
  <2>. QED  BY <2>2
<1>5. ASSUME NEW k \in Nat, k \in T
      PROVE  k + 1 \in T
  <2>1. SUFFICES ASSUME k + 1 <= n
                 PROVE  P(env, k + 1, iter[1 .. k + 1])
    OBVIOUS
  <2>2. P(env, k, iter[1 .. k])
    BY <1>5, <2>1
  <2>3. 1 .. k + 1 \in SUBSET (1 .. n) /\ 1 .. k + 1 # {}
    BY <2>1
  <2>4. Max(1 .. k + 1) = k + 1
    <3>1. 1 .. k + 1 \subseteq 0 .. k + 1 /\ k + 1 \in 1 .. k + 1 /\ k + 1 \in Nat
      OBVIOUS
    <3>. HIDE DEF T
    <3>. QED  BY <3>1, GreatestIs
  <2>5. (1 .. k + 1) \ {k + 1} = 1 .. k
    OBVIOUS
  <2>6. iter[1 .. k + 1] = Op(iter[1 .. k], seq[k + 1])
    BY <1>3, <2>3, <2>4, <2>5
  <2>7. k + 1 \in 1 .. n /\ k + 1 - 1 = k
    BY <2>1
  <2>. QED  BY <2>2, <2>6, <2>7
<1>. HIDE DEF T
<1>6. n \in T
  BY <1>4, <1>5, NatSetInduction
<1>. QED  BY <1>1, <1>6 DEF T
=============================================================================
