----------------------------- MODULE FoldLemmas ------------------------------
(***************************************************************************)
(* Facts about folds over sequences, for the proofs about modules whose    *)
(* operators are folds.  A fold is stated here through its step function   *)
(* F, where F[k][x] is what the k-th element makes of x, so that every     *)
(* statement is first-order; an operator that is a FoldLeft is linked to   *)
(* it in the proof module that needs it.                                   *)
(***************************************************************************)
EXTENDS Integers, SequencesExt, FiniteSetTheorems, SequenceTheorems, TLAPS

(***************************************************************************)
(* Induction over the natural numbers, for a set of them: if a number n    *)
(* were missing from S, x |-> x + 1 would be an injection of what S has of *)
(* 0..n into the same set without 0, which has one element less.           *)
(***************************************************************************)
LEMMA NatClosed ==
  ASSUME NEW S, 0 \in S, \A n \in Nat : n \in S => n + 1 \in S
  PROVE  \A n \in Nat : n \in S
PROOF
  <1> SUFFICES ASSUME NEW n \in Nat, n \notin S PROVE FALSE
    OBVIOUS
  <1> DEFINE B == (0..n) \cap S
             f == [x \in B |-> x + 1]
             C == B \ {0}
  <1>1. IsFiniteSet(B) /\ Cardinality(B) \in Nat
    <2>1. IsFiniteSet(0..n) /\ B \in SUBSET (0..n)
      BY FS_Interval
    <2>2. IsFiniteSet(B)
      BY <2>1, FS_Subset
    <2> QED BY <2>2, FS_CardinalityType
  <1>2. IsFiniteSet(C) /\ Cardinality(C) = Cardinality(B) - 1
    <2>1. 0 \in B
      OBVIOUS
    <2> QED BY <1>1, <2>1, FS_RemoveElement
  <1>3. f \in Injection(B, C)
    <2>1. ASSUME NEW x \in B PROVE x + 1 \in C
      <3>1. x \in Nat /\ x <= n /\ x \in S /\ x # n
        OBVIOUS
      <3> QED BY <3>1
    <2>2. f \in [B -> C]
      BY <2>1
    <2>3. ASSUME NEW x \in B, NEW y \in B, f[x] = f[y] PROVE x = y
      <3>1. x + 1 = y + 1 /\ x \in Nat /\ y \in Nat
        BY <2>3
      <3> QED BY <3>1
    <2> QED BY <2>2, <2>3 DEF Injection, IsInjective
  <1>4. Cardinality(B) <= Cardinality(C)
    BY <1>2, <1>3, FS_Injection
  <1> QED BY <1>1, <1>2, <1>4

(* The greatest element of a set of positions.                             *)
LEMMA MaxOfPositions ==
  ASSUME NEW n \in Nat, NEW s, s # {}, \A x \in s : x \in Nat /\ 1 <= x /\ x <= n
  PROVE  /\ Max(s) \in s
         /\ \A j \in s : j <= Max(s)
PROOF
  <1> DEFINE Bounded(k) == \E x \in s : k <= x
             Ok == {k \in Nat : ~Bounded(k) => \E x \in s : \A y \in s : x >= y}
  <1>1. Bounded(0)
    OBVIOUS
  <1>2. ASSUME NEW k \in Nat, Bounded(k), ~Bounded(k + 1)
        PROVE  \E x \in s : \A y \in s : x >= y
    <2>1. PICK x \in s : k <= x
      BY <1>2
    <2>2. \A y \in s : y \in Nat /\ ~(k + 1 <= y)
      BY <1>2
    <2>3. \A y \in s : y <= k
      BY <2>2
    <2> QED BY <2>1, <2>3, <2>2
  <1>3. n + 1 \in Ok
    <2>1. 0 \in Ok
      BY <1>1
    <2>2. ASSUME NEW k \in Nat, k \in Ok PROVE k + 1 \in Ok
      <3> HIDE DEF Bounded
      <3> QED BY <1>2, <2>2
    <2> HIDE DEF Ok
    <2> QED BY <2>1, <2>2, NatClosed
  <1>4. ~Bounded(n + 1)
    OBVIOUS
  <1>5. \E x \in s : \A y \in s : x >= y
    BY <1>3, <1>4
  <1> QED BY <1>5 DEF Max

(* What a fold over the positions 1..n is: a function on the sets of       *)
(* positions that satisfies the equation of MapThenFoldSet.                *)
IsFold(n, base, F, g) ==
  \A s \in SUBSET (1..n) :
    g[s] = IF s = {} THEN base ELSE F[Max(s)][g[s \ {Max(s)}]]

(* The sets of positions that a fold visits are smaller sets of positions. *)
LEMMA PositionsBelow ==
  ASSUME NEW n \in Nat, NEW s \in SUBSET (1..n), s # {}
  PROVE  /\ Max(s) \in s /\ Max(s) \in 1..n
         /\ \A j \in s : j <= Max(s)
         /\ s \ {Max(s)} \in SUBSET (1..n)
         /\ \A k \in Nat : s \subseteq 1..(k + 1) => s \ {Max(s)} \in SUBSET (1..k)
PROOF
  <1>1. \A x \in s : x \in Nat /\ 1 <= x /\ x <= n
    OBVIOUS
  <1>2. Max(s) \in s /\ \A j \in s : j <= Max(s)
    BY <1>1, MaxOfPositions
  <1>3. ASSUME NEW k \in Nat, s \subseteq 1..(k + 1), NEW x \in s \ {Max(s)}
        PROVE  x \in 1..k
    <2>0. x \in s /\ x # Max(s) /\ Max(s) \in 1..(k + 1)
      BY <1>2, <1>3
    <2>1. x \in Nat /\ 1 <= x /\ x <= Max(s) /\ Max(s) \in Nat /\ Max(s) <= k + 1
      BY <1>1, <1>2, <2>0
    <2> QED BY <2>0, <2>1
  <1>4. Max(s) \in 1..n
    BY <1>2
  <1>5. \A k \in Nat : s \subseteq 1..(k + 1) => s \ {Max(s)} \in SUBSET (1..k)
    BY <1>3
  <1> QED BY <1>2, <1>4, <1>5

(* There is such a function.                                               *)
LEMMA FoldExists ==
  ASSUME NEW n \in Nat, NEW X, NEW base \in X, NEW F \in [1..n -> [X -> X]]
  PROVE  \E g \in [SUBSET (1..n) -> X] : IsFold(n, base, F, g)
PROOF
  <1> DEFINE P(k) == k <= n => \E g \in [SUBSET (1..k) -> X] : IsFold(k, base, F, g)
             Ok == {k \in Nat : P(k)}
  <1>1. P(0)
    <2> DEFINE g == [s \in SUBSET (1..0) |-> base]
    <2>1. g \in [SUBSET (1..0) -> X]
      OBVIOUS
    <2>2. IsFold(0, base, F, g)
      <3>1. \A s \in SUBSET (1..0) : s = {}
        OBVIOUS
      <3>2. \A s \in SUBSET (1..0) : g[s] = base
        OBVIOUS
      <3> HIDE DEF g
      <3> QED BY <3>1, <3>2 DEF IsFold
    <2> HIDE DEF g
    <2> QED BY <2>1, <2>2
  <1>2. ASSUME NEW k \in Nat, P(k) PROVE P(k + 1)
    <2> SUFFICES ASSUME k + 1 <= n
                 PROVE  \E g \in [SUBSET (1..(k + 1)) -> X] : IsFold(k + 1, base, F, g)
      OBVIOUS
    <2>0. k <= n
      OBVIOUS
    <2>1. PICK h \in [SUBSET (1..k) -> X] : IsFold(k, base, F, h)
      BY <1>2, <2>0
    <2> DEFINE g == [s \in SUBSET (1..(k + 1)) |->
                       IF k + 1 \in s THEN F[k + 1][h[s \ {k + 1}]] ELSE h[s]]
    <2>2. ASSUME NEW s \in SUBSET (1..(k + 1))
          PROVE  /\ s \ {k + 1} \in SUBSET (1..k)
                 /\ k + 1 \notin s => s \in SUBSET (1..k)
      <3>1. \A x \in s : x # k + 1 => x \in 1..k
        OBVIOUS
      <3> QED BY <3>1
    <2>3. g \in [SUBSET (1..(k + 1)) -> X]
      <3>1. ASSUME NEW s \in SUBSET (1..(k + 1))
            PROVE  (IF k + 1 \in s THEN F[k + 1][h[s \ {k + 1}]] ELSE h[s]) \in X
        <4>1. h[s \ {k + 1}] \in X /\ (k + 1 \notin s => h[s] \in X)
          BY <2>1, <2>2
        <4>2. k + 1 \in 1..n
          OBVIOUS
        <4>3. F[k + 1] \in [X -> X]
          BY <4>2
        <4>4. F[k + 1][h[s \ {k + 1}]] \in X
          BY <4>1, <4>3
        <4> QED BY <4>1, <4>4
      <3> QED BY <3>1
    <2>4. ASSUME NEW s \in SUBSET (1..(k + 1))
          PROVE  g[s] = IF s = {} THEN base ELSE F[Max(s)][g[s \ {Max(s)}]]
      <3>1. CASE s = {}
        <4>1. g[s] = h[s] /\ s \in SUBSET (1..k)
          BY <3>1
        <4>2. h[s] = base
          BY <2>1, <3>1, <4>1 DEF IsFold
        <4> QED BY <3>1, <4>1, <4>2
      <3>2. CASE s # {}
        <4>1. Max(s) \in s /\ s \ {Max(s)} \in SUBSET (1..(k + 1)) /\ \A j \in s : j <= Max(s)
          BY <3>2, PositionsBelow, k + 1 \in Nat
        <4>2. CASE k + 1 \in s
          <5>1. Max(s) \in 1..(k + 1) /\ k + 1 <= Max(s)
            BY <4>1, <4>2
          <5>2. Max(s) = k + 1
            BY <5>1
          <5>3. k + 1 \notin s \ {k + 1} /\ s \ {k + 1} \in SUBSET (1..(k + 1))
            BY <4>1, <5>2
          <5>4. g[s \ {k + 1}] = h[s \ {k + 1}]
            BY <5>3
          <5>5. g[s] = F[k + 1][h[s \ {k + 1}]]
            BY <4>2
          <5> QED BY <3>2, <5>2, <5>4, <5>5
        <4>3. CASE k + 1 \notin s
          <5>1. g[s] = h[s] /\ g[s \ {Max(s)}] = h[s \ {Max(s)}]
            BY <4>1, <4>3
          <5>2. s \in SUBSET (1..k)
            BY <2>2, <4>3
          <5>3. h[s] = F[Max(s)][h[s \ {Max(s)}]]
            BY <2>1, <3>2, <5>2 DEF IsFold
          <5> QED BY <3>2, <5>1, <5>3
        <4> QED BY <4>2, <4>3
      <3> QED BY <3>1, <3>2
    <2>5. IsFold(k + 1, base, F, g)
      <3> HIDE DEF g
      <3> QED BY <2>4 DEF IsFold
    <2> HIDE DEF g
    <2> QED BY <2>3, <2>5
  <1>3. n \in Ok
    <2> HIDE DEF P
    <2>1. 0 \in Ok
      BY <1>1
    <2>2. \A k \in Nat : k \in Ok => k + 1 \in Ok
      BY <1>2
    <2> HIDE DEF Ok
    <2> QED BY <2>1, <2>2, NatClosed
  <1>4. P(n)
    <2> HIDE DEF P
    <2> QED BY <1>3
  <1>5. n <= n
    OBVIOUS
  <1> QED BY <1>4, <1>5

(* What an operator that is a fold is: a function that takes the steps of F  *)
(* wherever they are defined.                                               *)
FoldsOn(n, X, base, F, g) ==
  /\ g[{}] = base
  /\ \A s \in SUBSET (1..n) :
       s # {} /\ g[s \ {Max(s)}] \in X => g[s] = F[Max(s)][g[s \ {Max(s)}]]

(* Such a function takes the steps of F from prefix to prefix.              *)
LEMMA FoldSteps ==
  ASSUME NEW n \in Nat, NEW X, NEW base \in X, NEW F \in [1..n -> [X -> X]], NEW g,
         FoldsOn(n, X, base, F, g)
  PROVE  /\ g[1..0] = base
         /\ \A k \in 0..n : g[1..k] \in X
         /\ \A k \in 0..(n - 1) : g[1..(k + 1)] = F[k + 1][g[1..k]]
PROOF
  <1>1. g[1..0] = base
    <2>1. 1..0 = {}
      OBVIOUS
    <2> QED BY <2>1 DEF FoldsOn
  <1>2. ASSUME NEW k \in Nat, k + 1 <= n, g[1..k] \in X
        PROVE  g[1..(k + 1)] = F[k + 1][g[1..k]] /\ g[1..(k + 1)] \in X
    <2> DEFINE s == 1..(k + 1)
    <2>0. k + 1 \in 1..(k + 1)
      OBVIOUS
    <2>1. s # {} /\ k + 1 \in s
      BY <2>0
    <2>2. s \in SUBSET (1..n)
      <3>1. \A x \in 1..(k + 1) : x \in 1..n
        BY <1>2
      <3> QED BY <3>1
    <2>3. Max(s) \in s /\ \A j \in s : j <= Max(s)
      <3> HIDE DEF s
      <3> QED BY <2>1, <2>2, PositionsBelow
    <2>4. Max(s) = k + 1
      BY <2>1, <2>3
    <2>5. s \ {k + 1} = 1..k
      OBVIOUS
    <2>6. g[s \ {Max(s)}] \in X
      <3> HIDE DEF s
      <3> QED BY <1>2, <2>4, <2>5
    <2>7. g[s] = F[Max(s)][g[s \ {Max(s)}]]
      <3> HIDE DEF s
      <3> QED BY <2>1, <2>2, <2>6 DEF FoldsOn
    <2>8. g[1..(k + 1)] = F[k + 1][g[1..k]]
      BY <2>4, <2>5, <2>7
    <2>9. k + 1 \in 1..n
      BY <1>2
    <2> QED BY <1>2, <2>8, <2>9
  <1>3. \A k \in 0..n : g[1..k] \in X
    <2> DEFINE Ok == {k \in Nat : k <= n => g[1..k] \in X}
    <2>1. 0 \in Ok
      BY <1>1
    <2>2. ASSUME NEW k \in Nat, k \in Ok PROVE k + 1 \in Ok
      <3>1. k + 1 <= n => g[1..k] \in X
        BY <2>2
      <3> QED BY <1>2, <3>1
    <2>3. \A k \in Nat : k \in Ok
      <3> HIDE DEF Ok
      <3> QED BY <2>1, <2>2, NatClosed
    <2> QED BY <2>3
  <1>4. ASSUME NEW k \in 0..(n - 1) PROVE g[1..(k + 1)] = F[k + 1][g[1..k]]
    <2>1. k \in 0..n /\ k \in Nat /\ k + 1 <= n
      OBVIOUS
    <2> QED BY <1>2, <1>3, <2>1
  <1> QED BY <1>1, <1>3, <1>4

(* It is the fold of F on every prefix.                                     *)
LEMMA FoldPrefixes ==
  ASSUME NEW n \in Nat, NEW X, NEW base \in X, NEW F \in [1..n -> [X -> X]], NEW g,
         FoldsOn(n, X, base, F, g)
  PROVE  \E h \in [0..n -> X] :
           /\ h[0] = base /\ h[n] = g[1..n]
           /\ \A k \in 0..(n - 1) : h[k + 1] = F[k + 1][h[k]]
PROOF
  <1> DEFINE h == [k \in 0..n |-> g[1..k]]
  <1>1. /\ g[1..0] = base
        /\ \A k \in 0..n : g[1..k] \in X
        /\ \A k \in 0..(n - 1) : g[1..(k + 1)] = F[k + 1][g[1..k]]
    BY FoldSteps
  <1>2. h \in [0..n -> X] /\ h[0] = base /\ h[n] = g[1..n]
    BY <1>1
  <1>3. \A k \in 0..(n - 1) : h[k + 1] = F[k + 1][h[k]]
    BY <1>1
  <1> HIDE DEF h
  <1> QED BY <1>2, <1>3

(* Two functions that start alike and step alike agree.                     *)
LEMMA SameSteps ==
  ASSUME NEW n \in Nat, NEW f, NEW g, f[0] = g[0],
         \A k \in 0..(n - 1) : f[k] = g[k] => f[k + 1] = g[k + 1]
  PROVE  \A k \in 0..n : f[k] = g[k]
PROOF
  <1> DEFINE Ok == {k \in Nat : k <= n => f[k] = g[k]}
  <1>1. 0 \in Ok
    OBVIOUS
  <1>2. ASSUME NEW k \in Nat, k \in Ok PROVE k + 1 \in Ok
    <2>1. k + 1 <= n => k \in 0..(n - 1) /\ f[k] = g[k]
      BY <1>2
    <2> QED BY <2>1
  <1>3. \A k \in Nat : k \in Ok
    <2> HIDE DEF Ok
    <2> QED BY <1>1, <1>2, NatClosed
  <1> QED BY <1>3

(* A set of natural numbers that is not empty has a least element.         *)
LEMMA LeastOf ==
  ASSUME NEW S \in SUBSET Nat, S # {}
  PROVE  Min(S) \in S /\ \A x \in S : Min(S) <= x
PROOF
  <1> DEFINE None(n) == \A x \in S : ~(x <= n)
             Ok == {n \in Nat : None(n)}
  <1>1. PICK m \in S : TRUE
    OBVIOUS
  <1>2. m \in Nat /\ m \notin Ok
    BY <1>1
  <1>3. \E x \in S : \A y \in S : x <= y
    <2>1. CASE 0 \notin Ok
      <3>1. PICK x \in S : x <= 0
        BY <2>1
      <3>2. \A y \in S : x <= y
        BY <3>1
      <3> QED BY <3>2
    <2>2. CASE 0 \in Ok
      <3>1. PICK n \in Nat : n \in Ok /\ n + 1 \notin Ok
        <4> HIDE DEF Ok
        <4> QED BY <1>2, <2>2, NatClosed
      <3>2. n + 1 \in Nat
        BY <3>1
      <3>3. PICK x \in S : x <= n + 1
        BY <3>1, <3>2
      <3>4. \A y \in S : x <= y
        <4>1. \A y \in S : y \in Nat /\ ~(y <= n)
          BY <3>1
        <4> HIDE DEF Ok
        <4> QED BY <3>1, <3>3, <4>1
      <3> QED BY <3>4
    <2> QED BY <2>1, <2>2
  <1> QED BY <1>3 DEF Min

(* Steps G taken one after the other from base, and one step f taken n times. *)
IsStepping(n, X, base, G, h) ==
  /\ h \in [0..n -> X]
  /\ h[0] = base
  /\ \A k \in 0..(n - 1) : h[k + 1] = G[k + 1][h[k]]

IsIteration(n, X, base, f, h) ==
  /\ h \in [0..n -> X]
  /\ h[0] = base
  /\ \A k \in 0..(n - 1) : h[k + 1] = f[h[k]]

(* Steps can be taken one after the other.                                  *)
LEMMA SteppingExists ==
  ASSUME NEW n \in Nat, NEW X, NEW base \in X, NEW G \in [1..n -> [X -> X]]
  PROVE  \E h : IsStepping(n, X, base, G, h)
PROOF
  <1>1. PICK g : IsFold(n, base, G, g)
    BY FoldExists
  <1>2. FoldsOn(n, X, base, G, g)
    <2>1. {} \in SUBSET (1..n)
      OBVIOUS
    <2> QED BY <1>1, <2>1 DEF IsFold, FoldsOn
  <1> DEFINE h == [k \in 0..n |-> g[1..k]]
  <1>3. h \in [0..n -> X] /\ h[0] = base
    <2>1. g[1..0] = base
      BY <1>2, FoldSteps
    <2>2. \A k \in 0..n : g[1..k] \in X
      BY <1>2, FoldSteps
    <2> QED BY <2>1, <2>2
  <1>4. ASSUME NEW k \in 0..(n - 1) PROVE h[k + 1] = G[k + 1][h[k]]
    <2>1. \A m \in 0..(n - 1) : g[1..(m + 1)] = G[m + 1][g[1..m]]
      BY <1>2, FoldSteps
    <2>2. k \in 0..n /\ k + 1 \in 0..n
      OBVIOUS
    <2> QED BY <2>1, <2>2
  <1> HIDE DEF h
  <1> QED BY <1>3, <1>4 DEF IsStepping

(* A step can be taken n times.                                             *)
LEMMA Iterates ==
  ASSUME NEW n \in Nat, NEW X, NEW base \in X, NEW f \in [X -> X]
  PROVE  \E h : IsIteration(n, X, base, f, h)
PROOF
  <1> DEFINE G == [k \in 1..n |-> f]
  <1>1. G \in [1..n -> [X -> X]] /\ \A k \in 0..(n - 1) : G[k + 1] = f
    OBVIOUS
  <1> HIDE DEF G
  <1>2. PICK h : IsStepping(n, X, base, G, h)
    BY <1>1, SteppingExists
  <1>3. IsIteration(n, X, base, f, h)
    BY <1>1, <1>2 DEF IsStepping, IsIteration
  <1> QED BY <1>3
=============================================================================
