----------------------------- MODULE FiniteFolds -----------------------------
(***************************************************************************)
(* Facts about what is computed over a finite set one member at a time:    *)
(* the folds of the community modules, as the models use them.  They are   *)
(* stated with functions and sets, which the provers can instantiate.      *)
(***************************************************************************)
EXTENDS Naturals, SequencesExt, FiniteSetTheorems, SequenceTheorems, WellFoundedInduction, TLAPS

Less == {p \in Nat \X Nat : p[1] < p[2]}

(* The naturals have no infinite descent.                                  *)
LEMMA LessWF == IsWellFoundedOn(Less, Nat)
<1>1. OpToRel(<, Nat) = Less
  BY Zenon DEF OpToRel, Less
<1> QED BY <1>1, NatLessThanWellFounded, Zenon

(* A set of naturals with a member has a least one.                        *)
LEMMA Lowest ==
  ASSUME NEW U, U \subseteq Nat, U # {}
  PROVE  \E m \in U : \A t \in U : m <= t
<1>1. PICK x \in U : \A y \in U : ~(<<y, x>> \in Less)
  BY LessWF, WFMin
<1>2. \A y \in U : ~(y < x)
  BY <1>1 DEF Less
<1> QED BY <1>2

(* What holds of a set whenever it holds of every smaller one holds of     *)
(* every subset of a finite set.                                           *)
LEMMA SubsetInduction ==
  ASSUME NEW T, IsFiniteSet(T), NEW P,
         \A s \in SUBSET T : (\A r \in SUBSET s : r # s => r \in P) => s \in P
  PROVE  \A s \in SUBSET T : s \in P
<1> DEFINE Bad == {s \in SUBSET T : s \notin P}
           Sizes == {Cardinality(s) : s \in Bad}
<1>1. \A s \in SUBSET T : IsFiniteSet(s) /\ Cardinality(s) \in Nat
  BY FS_Subset, FS_CardinalityType
<1>2. SUFFICES ASSUME Bad # {} PROVE FALSE
  OBVIOUS
<1>3. Sizes \subseteq Nat /\ Sizes # {}
  BY <1>1, <1>2
<1>4. PICK n \in Sizes : \A m \in Sizes : n <= m
  <2> HIDE DEF Sizes
  <2> QED BY <1>3, Lowest
<1>5. PICK s \in Bad : Cardinality(s) = n
  OBVIOUS
<1>6. ASSUME NEW r \in SUBSET s, r # s PROVE r \in P
  <2>1. r \in SUBSET T /\ IsFiniteSet(s) /\ IsFiniteSet(r)
    BY <1>1
  <2>2. Cardinality(r) <= Cardinality(s) /\ Cardinality(r) # Cardinality(s)
    BY <1>6, <2>1, FS_Subset
  <2>3. Cardinality(r) < n
    BY <1>1, <1>5, <2>1, <2>2
  <2>4. r \notin Bad
    <3>1. ASSUME r \in Bad PROVE FALSE
      <4>1. Cardinality(r) \in Sizes
        BY <3>1
      <4>2. n <= Cardinality(r)
        BY <1>4, <4>1
      <4>3. n \in Nat /\ Cardinality(r) \in Nat
        BY <1>1, <1>3, <2>1
      <4> QED BY <2>3, <4>2, <4>3
    <3> QED BY <3>1
  <2> QED BY <2>1, <2>4
<1> QED BY <1>5, <1>6
-----------------------------------------------------------------------------
(* One member after the other, as MapThenFoldSet takes them.               *)
Folded(g, T, base, op, pick) ==
  g = [s \in SUBSET T |-> IF s = {} THEN base ELSE op[<<pick[s], g[s \ {pick[s]}]>>]]

Picks(pick, T) == \A s \in SUBSET T : s # {} => pick[s] \in s

(* A fold over a set agrees with the fold over a larger one.               *)
LEMMA FoldsAgree ==
  ASSUME NEW T, IsFiniteSet(T), NEW base, NEW op, NEW pick, Picks(pick, T),
         NEW U \in SUBSET T, NEW W \in SUBSET T,
         NEW g, Folded(g, U, base, op, pick), NEW h, Folded(h, W, base, op, pick)
  PROVE  \A s \in SUBSET (U \cap W) : g[s] = h[s]
<1> DEFINE P == {s \in SUBSET (U \cap W) : g[s] = h[s]}
<1>1. IsFiniteSet(U \cap W)
  BY FS_Subset
<1>2. ASSUME NEW s \in SUBSET (U \cap W), \A r \in SUBSET s : r # s => r \in P
      PROVE  s \in P
  <2>1. g[s] = IF s = {} THEN base ELSE op[<<pick[s], g[s \ {pick[s]}]>>]
    BY DEF Folded
  <2>2. h[s] = IF s = {} THEN base ELSE op[<<pick[s], h[s \ {pick[s]}]>>]
    BY DEF Folded
  <2>3. s # {} => g[s \ {pick[s]}] = h[s \ {pick[s]}]
    BY <1>2 DEF Picks
  <2> QED BY <2>1, <2>2, <2>3
<1> HIDE DEF P
<1>3. \A s \in SUBSET (U \cap W) : s \in P
  BY <1>1, <1>2, SubsetInduction
<1> QED BY <1>3 DEF P

(* Over a finite set there is a fold, and its values are of the type the   *)
(* operation keeps.                                                        *)
LEMMA FoldExists ==
  ASSUME NEW T, IsFiniteSet(T), NEW V, NEW base \in V, NEW op \in [T \X V -> V],
         NEW pick, Picks(pick, T)
  PROVE  \E g \in [SUBSET T -> V] : Folded(g, T, base, op, pick)
<1> DEFINE Fold(s) == CHOOSE g \in [SUBSET s -> V] : Folded(g, s, base, op, pick)
           P == {s \in SUBSET T : \E g \in [SUBSET s -> V] : Folded(g, s, base, op, pick)}
<1>1. \A s \in P : Fold(s) \in [SUBSET s -> V] /\ Folded(Fold(s), s, base, op, pick)
  OBVIOUS
<1>2. ASSUME NEW U \in SUBSET T, \A r \in SUBSET U : r # U => r \in P
      PROVE  U \in P
  <2> DEFINE G == [s \in SUBSET U |-> IF s = {} THEN base
                    ELSE op[<<pick[s], Fold(s \ {pick[s]})[s \ {pick[s]}]>>]]
  <2> HIDE DEF Fold, P
  <2>1. ASSUME NEW s \in SUBSET U, s # {}
        PROVE  pick[s] \in s /\ s \ {pick[s]} \in SUBSET U /\ s \ {pick[s]} # U
    BY <2>1 DEF Picks
  <2>2. ASSUME NEW s \in SUBSET U, s # {}
        PROVE  Fold(s \ {pick[s]})[s \ {pick[s]}] \in V
    <3> DEFINE r == s \ {pick[s]}
    <3>1. r \in SUBSET U /\ r # U
      BY <2>1, <2>2
    <3> HIDE DEF r
    <3>2. Fold(r) \in [SUBSET r -> V]
      BY <1>1, <1>2, <3>1
    <3>3. Fold(r)[r] \in V
      BY <3>2
    <3> QED BY <3>3 DEF r
  <2>3. G \in [SUBSET U -> V]
    <3>1. ASSUME NEW s \in SUBSET U, s # {}
          PROVE  op[<<pick[s], Fold(s \ {pick[s]})[s \ {pick[s]}]>>] \in V
      BY <2>1, <2>2, <3>1
    <3> QED BY <3>1
  <2>4. ASSUME NEW r \in SUBSET U, r # U PROVE G[r] = Fold(r)[r]
    <3>1. r \in P /\ Folded(Fold(r), r, base, op, pick)
      BY <1>1, <1>2, <2>4
    <3>2. Fold(r)[r] = IF r = {} THEN base ELSE op[<<pick[r], Fold(r)[r \ {pick[r]}]>>]
      BY <3>1 DEF Folded
    <3>3. ASSUME r # {} PROVE Fold(r)[r \ {pick[r]}] = Fold(r \ {pick[r]})[r \ {pick[r]}]
      <4> DEFINE q == r \ {pick[r]}
      <4>1. q \in SUBSET r /\ q \in SUBSET U /\ q # U
        BY <2>1, <3>3
      <4>2. Folded(Fold(q), q, base, op, pick)
        BY <1>1, <1>2, <4>1
      <4>3. q \in SUBSET (r \cap q) /\ r \in SUBSET T /\ q \in SUBSET T
        BY <4>1
      <4> HIDE DEF q
      <4>4. Fold(r)[q] = Fold(q)[q]
        BY <3>1, <4>2, <4>3, FoldsAgree
      <4> QED BY <4>4 DEF q
    <3> QED BY <3>2, <3>3
  <2>5. ASSUME NEW s \in SUBSET U
        PROVE  G[s] = IF s = {} THEN base ELSE op[<<pick[s], G[s \ {pick[s]}]>>]
    <3>1. s # {} => G[s \ {pick[s]}] = Fold(s \ {pick[s]})[s \ {pick[s]}]
      <4> HIDE DEF G
      <4> QED BY <2>1, <2>4
    <3> QED BY <3>1
  <2>6. Folded(G, U, base, op, pick)
    <3>1. G = [s \in SUBSET U |-> G[s]]
      OBVIOUS
    <3> HIDE DEF G
    <3> QED BY <2>5, <3>1 DEF Folded
  <2> HIDE DEF G
  <2> QED BY <2>3, <2>6 DEF P
<1> HIDE DEF P
<1>3. \A s \in SUBSET T : s \in P
  BY <1>2, SubsetInduction
<1> QED BY <1>3 DEF P
-----------------------------------------------------------------------------
(* What holds of 0, and of i whenever of i - 1, holds up to any number.    *)
LEMMA UpTo ==
  ASSUME NEW n \in Nat, NEW P, 0 \in P, \A i \in 1..n : i - 1 \in P => i \in P
  PROVE  \A i \in 0..n : i \in P
<1> DEFINE Bad == {i \in 0..n : i \notin P}
<1>1. SUFFICES ASSUME Bad # {} PROVE FALSE
  OBVIOUS
<1>2. PICK m \in Bad : \A t \in Bad : m <= t
  <2>1. Bad \subseteq Nat
    OBVIOUS
  <2> HIDE DEF Bad
  <2> QED BY <1>1, <2>1, Lowest
<1>3. m \in 1..n /\ m - 1 \in 0..n /\ ~(m <= m - 1)
  OBVIOUS
<1> QED BY <1>2, <1>3

(* What holds of the empty sequence, and of every longer one whenever it   *)
(* holds of its beginning, holds of all.                                   *)
LEMMA ByAppend ==
  ASSUME NEW X, NEW P, <<>> \in P,
         \A s \in Seq(X), e \in X : s \in P => Append(s, e) \in P
  PROVE  \A s \in Seq(X) : s \in P
<1> SUFFICES ASSUME NEW s \in Seq(X) PROVE s \in P
  OBVIOUS
<1> DEFINE n == Len(s)
           Ps == {i \in 0..n : SubSeq(s, 1, i) \in P}
<1>1. n \in Nat /\ DOMAIN s = 1..n
  OBVIOUS
<1>2. 0 \in Ps
  <2>1. SubSeq(s, 1, 0) = <<>>
    OBVIOUS
  <2>2. SubSeq(s, 1, 0) \in P
    BY <2>1
  <2>3. 0 \in 0..n
    BY <1>1
  <2> QED BY <2>2, <2>3
<1>3. ASSUME NEW i \in 1..n, i - 1 \in Ps PROVE i \in Ps
  <2>1. SubSeq(s, 1, i) = Append(SubSeq(s, 1, i - 1), s[i])
    BY <1>1
  <2>2. SubSeq(s, 1, i - 1) \in Seq(X) /\ s[i] \in X
    BY <1>1
  <2>3. SubSeq(s, 1, i - 1) \in P
    BY <1>3
  <2>4. SubSeq(s, 1, i) \in P
    BY <2>1, <2>2, <2>3
  <2> QED BY <1>1, <2>4
<1>4. n \in Ps
  <2> HIDE DEF Ps
  <2>1. \A i \in 0..n : i \in Ps
    BY <1>1, <1>2, <1>3, UpTo
  <2> QED BY <1>1, <2>1
<1>5. SubSeq(s, 1, n) = s
  OBVIOUS
<1> QED BY <1>4, <1>5
-----------------------------------------------------------------------------
(* FoldLeft over s, whose steps over sets of positions are h: it begins    *)
(* with base, and takes the last position of the set after the others.     *)
LeftSteps(h, s, V, base, op) ==
  /\ h[{}] = base
  /\ \A S \in SUBSET DOMAIN s :
       S # {} /\ h[S \ {Max(S)}] \in V => h[S] = op[<<h[S \ {Max(S)}], s[Max(S)]>>]

LEMMA LastIsMax == \A n \in Nat \ {0} : Max(1..n) = n /\ (1..n) \ {n} = 1..(n - 1)
<1> SUFFICES ASSUME NEW n \in Nat \ {0} PROVE Max(1..n) = n
  OBVIOUS
<1>1. n \in 1..n /\ \A y \in 1..n : n >= y
  OBVIOUS
<1>2. \A x \in 1..n : (\A y \in 1..n : x >= y) => x = n
  OBVIOUS
<1> QED BY <1>1, <1>2 DEF Max

PrefixSteps(h, s, V, op) ==
  /\ \A i \in 0..Len(s) : h[1..i] \in V
  /\ \A i \in 1..Len(s) : h[1..i] = op[<<h[1..(i - 1)], s[i]>>]

(* The steps of a fold that matter are those over the beginnings of s.     *)
LEMMA StepsOverPrefixes ==
  ASSUME NEW X, NEW s \in Seq(X), NEW V, NEW base \in V, NEW op \in [V \X X -> V],
         NEW h, LeftSteps(h, s, V, base, op)
  PROVE  PrefixSteps(h, s, V, op)
<1> DEFINE n == Len(s)
           P == {i \in 0..n : h[1..i] \in V}
<1>1. n \in Nat /\ DOMAIN s = 1..n /\ \A i \in 1..n : s[i] \in X
  OBVIOUS
<1>2. ASSUME NEW i \in 1..n, i - 1 \in P
      PROVE  i \in P /\ h[1..i] = op[<<h[1..(i - 1)], s[i]>>]
  <2>1. (1..i) \in SUBSET DOMAIN s /\ 1..i # {}
    BY <1>1
  <2>2. Max(1..i) = i /\ (1..i) \ {i} = 1..(i - 1)
    BY <1>1, LastIsMax
  <2>3. h[(1..i) \ {Max(1..i)}] = h[1..(i - 1)]
    BY <2>2
  <2>4. h[1..(i - 1)] \in V
    BY <1>2
  <2>5. h[1..i] = op[<<h[1..(i - 1)], s[i]>>]
    BY <2>1, <2>2, <2>3, <2>4 DEF LeftSteps
  <2>6. s[i] \in X
    BY <1>1
  <2> QED BY <2>4, <2>5, <2>6
<1>3. 0 \in P
  <2>1. 1..0 = {}
    OBVIOUS
  <2> QED BY <1>1, <2>1 DEF LeftSteps
<1>4. \A i \in 0..n : i \in P
  <2> HIDE DEF P
  <2> QED BY <1>1, <1>2, <1>3, UpTo
<1>5. ASSUME NEW i \in 1..n PROVE h[1..i] = op[<<h[1..(i - 1)], s[i]>>]
  <2>1. i - 1 \in P
    <3>1. i - 1 \in 0..n
      BY <1>1
    <3> QED BY <1>4, <3>1
  <2> HIDE DEF P
  <2> QED BY <1>2, <2>1
<1> QED BY <1>4, <1>5 DEF PrefixSteps

(* F folds every sequence over X.                                          *)
LeftFold(F, X, V, base, op) ==
  \A s \in Seq(X) : \E h : LeftSteps(h, s, V, base, op) /\ F[s] = h[DOMAIN s]

Appends(F, X, V, base, op) ==
  /\ F[<<>>] = base
  /\ \A s \in Seq(X) : F[s] \in V
  /\ \A s \in Seq(X), e \in X : F[Append(s, e)] = op[<<F[s], e>>]

(* A left fold, one element at a time.                                     *)
LEMMA LeftFoldAppends ==
  ASSUME NEW X, NEW V, NEW base \in V, NEW op \in [V \X X -> V],
         NEW F, LeftFold(F, X, V, base, op)
  PROVE  Appends(F, X, V, base, op)
<1>1. ASSUME NEW s \in Seq(X) PROVE F[s] \in V
  <2>1. PICK h : LeftSteps(h, s, V, base, op) /\ F[s] = h[DOMAIN s]
    BY DEF LeftFold
  <2>2. Len(s) \in 0..Len(s) /\ DOMAIN s = 1..Len(s)
    OBVIOUS
  <2>3. h[1..Len(s)] \in V
    BY <2>1, <2>2, StepsOverPrefixes DEF PrefixSteps
  <2> QED BY <2>1, <2>2, <2>3
<1>2. F[<<>>] = base
  <2>1. <<>> \in Seq(X) /\ DOMAIN <<>> = {}
    OBVIOUS
  <2>2. PICK h : LeftSteps(h, <<>>, V, base, op) /\ F[<<>>] = h[DOMAIN <<>>]
    BY <2>1 DEF LeftFold
  <2> QED BY <2>1, <2>2 DEF LeftSteps
<1>3. ASSUME NEW s \in Seq(X), NEW e \in X PROVE F[Append(s, e)] = op[<<F[s], e>>]
  <2> DEFINE t == Append(s, e)
             n == Len(s)
  <2>1. n \in Nat /\ DOMAIN s = 1..n /\ t \in Seq(X) /\ Len(t) = n + 1 /\ DOMAIN t = 1..(n + 1)
    OBVIOUS
  <2>2. t[n + 1] = e /\ \A i \in 1..n : t[i] = s[i]
    OBVIOUS
  <2> HIDE DEF t
  <2>3. PICK h : LeftSteps(h, s, V, base, op) /\ F[s] = h[DOMAIN s]
    BY DEF LeftFold
  <2>4. PICK g : LeftSteps(g, t, V, base, op) /\ F[t] = g[DOMAIN t]
    BY <2>1 DEF LeftFold
  <2>5. \A i \in 1..n : h[1..i] = op[<<h[1..(i - 1)], s[i]>>]
    <3>1. LeftSteps(h, s, V, base, op)
      BY <2>3
    <3>2. PrefixSteps(h, s, V, op)
      BY <3>1, StepsOverPrefixes
    <3> QED BY <3>2 DEF PrefixSteps
  <2>6. \A i \in 1..(n + 1) : g[1..i] = op[<<g[1..(i - 1)], t[i]>>]
    <3>1. LeftSteps(g, t, V, base, op)
      BY <2>4
    <3>2. PrefixSteps(g, t, V, op)
      BY <2>1, <3>1, StepsOverPrefixes
    <3> QED BY <2>1, <3>2 DEF PrefixSteps
  <2> DEFINE P == {i \in 0..n : g[1..i] = h[1..i]}
  <2>7. 0 \in P
    <3>1. 1..0 = {}
      OBVIOUS
    <3> QED BY <2>1, <2>3, <2>4, <3>1 DEF LeftSteps
  <2>8. ASSUME NEW i \in 1..n, i - 1 \in P PROVE i \in P
    <3>1. i \in 0..n /\ i \in 1..(n + 1)
      BY <2>1
    <3>2. h[1..i] = op[<<h[1..(i - 1)], s[i]>>]
      BY <2>5, <3>1
    <3>3. g[1..i] = op[<<g[1..(i - 1)], t[i]>>]
      BY <2>6, <3>1
    <3> QED BY <2>2, <2>8, <3>1, <3>2, <3>3
  <2>9. n \in P
    <3> HIDE DEF P
    <3>1. \A i \in 0..n : i \in P
      BY <2>1, <2>7, <2>8, UpTo
    <3> QED BY <2>1, <3>1
  <2>10. g[1..(n + 1)] = op[<<g[1..n], e>>]
    <3>1. n + 1 \in 1..(n + 1) /\ (n + 1) - 1 = n
      BY <2>1
    <3>2. g[1..(n + 1)] = op[<<g[1..((n + 1) - 1)], t[n + 1]>>]
      BY <2>6, <3>1
    <3> QED BY <2>2, <3>1, <3>2
  <2> QED BY <2>1, <2>3, <2>4, <2>9, <2>10 DEF t
<1> QED BY <1>1, <1>2, <1>3 DEF Appends

(* All steps of a left fold, over whatever positions.                      *)
AllSteps(g, s, X, V, base, op) ==
  /\ g = [S \in SUBSET DOMAIN s |-> g[S]]
  /\ g[{}] = base
  /\ \A S \in SUBSET DOMAIN s :
       S # {} => /\ g[S \ {Max(S)}] \in V /\ s[Max(S)] \in X
                 /\ g[S] = op[<<g[S \ {Max(S)}], s[Max(S)]>>]

(* The steps of a left fold exist.                                         *)
LEMMA LeftStepsExist ==
  ASSUME NEW X, NEW s \in Seq(X), NEW V, NEW base \in V, NEW op \in [V \X X -> V]
  PROVE  \E g : AllSteps(g, s, X, V, base, op)
<1> DEFINE D == DOMAIN s
           pick == [S \in SUBSET D |-> Max(S)]
           swap == [p \in D \X V |-> op[<<p[2], s[p[1]]>>]]
<1>1. D = 1..Len(s) /\ Len(s) \in Nat /\ \A i \in D : s[i] \in X
  OBVIOUS
<1>2. ASSUME NEW S \in SUBSET D, S # {} PROVE Max(S) \in S
  <2> DEFINE gaps == {Len(s) - i : i \in S}
  <2>1. gaps \subseteq Nat /\ gaps # {}
    BY <1>1, <1>2
  <2>2. PICK m \in gaps : \A t \in gaps : m <= t
    <3> HIDE DEF gaps
    <3> QED BY <2>1, Lowest
  <2>3. PICK x \in S : m = Len(s) - x
    OBVIOUS
  <2>4. \A y \in S : x >= y
    <3>1. ASSUME NEW y \in S PROVE x >= y
      <4>1. Len(s) - x <= Len(s) - y
        BY <2>2, <2>3
      <4>2. x \in Nat /\ y \in Nat
        BY <1>1
      <4> QED BY <1>1, <4>1, <4>2
    <3> QED BY <3>1
  <2> QED BY <2>4 DEF Max
<1>3. Picks(pick, D)
  BY <1>2 DEF Picks
<1>4. swap \in [D \X V -> V]
  BY <1>1
<1>5. IsFiniteSet(D)
  BY <1>1, FS_Interval
<1>6. PICK g \in [SUBSET D -> V] : Folded(g, D, base, swap, pick)
  <2> HIDE DEF D, swap, pick
  <2> QED BY <1>3, <1>4, <1>5, FoldExists
<1>7. ASSUME NEW S \in SUBSET D
      PROVE  g[S] = IF S = {} THEN base ELSE op[<<g[S \ {Max(S)}], s[Max(S)]>>]
  <2>1. g[S] = IF S = {} THEN base ELSE swap[<<pick[S], g[S \ {pick[S]}]>>]
    <3> HIDE DEF D, swap, pick
    <3> QED BY <1>6 DEF Folded
  <2>2. S # {} => Max(S) \in D /\ g[S \ {Max(S)}] \in V
    BY <1>2
  <2>3. pick[S] = Max(S)
    OBVIOUS
  <2>4. S # {} => swap[<<Max(S), g[S \ {Max(S)}]>>] = op[<<g[S \ {Max(S)}], s[Max(S)]>>]
    BY <2>2
  <2> HIDE DEF swap, pick
  <2> QED BY <2>1, <2>3, <2>4
<1>8. ASSUME NEW S \in SUBSET D, S # {}
      PROVE  /\ g[S \ {Max(S)}] \in V /\ s[Max(S)] \in X
             /\ g[S] = op[<<g[S \ {Max(S)}], s[Max(S)]>>]
  <2>1. Max(S) \in D /\ S \ {Max(S)} \in SUBSET D
    BY <1>2, <1>8
  <2>2. g[S] = op[<<g[S \ {Max(S)}], s[Max(S)]>>]
    BY <1>7, <1>8
  <2> QED BY <1>1, <2>1, <2>2
<1>9. g[{}] = base /\ g = [S \in SUBSET D |-> g[S]]
  BY <1>7
<1> HIDE DEF swap, pick
<1> QED BY <1>8, <1>9 DEF AllSteps
=============================================================================
