----------------------------- MODULE FoldProofs -----------------------------
(***************************************************************************)
(* What the folds over sets that the model uses compute: Sum of module     *)
(* Circuit and MergeAll of module RollingNumber are instances of           *)
(* MapThenFoldSet, a recursive function over the subsets of a set.         *)
(*                                                                         *)
(* The operation is a function op here, so that every statement is first   *)
(* order, and induction is the fact that a set of finite sets has a        *)
(* smallest one.                                                           *)
(***************************************************************************)
EXTENDS Integers, FiniteSetsExt, FiniteSetTheorems, TLAPS

\* A set of subsets of a finite set that has each one of which it has all the strict subsets.
LEMMA SubsetInduction ==
    ASSUME NEW S, IsFiniteSet(S), NEW Good,
           \A T \in SUBSET S : (\A U \in SUBSET T : U # T => U \in Good) => T \in Good
    PROVE  \A T \in SUBSET S : T \in Good
<1> SUFFICES ASSUME (SUBSET S) \ Good # {} PROVE FALSE
  OBVIOUS
<1> DEFINE Bad == (SUBSET S) \ Good
           R == StrictSubsetOrdering(S)
<1>1. IsWellFoundedOn(R, SUBSET S)
  <2>1. IsWellFoundedOn(StrictSubsetOrdering(S), FiniteSubsetsOf(S))
    BY FS_StrictSubsetOrderingWellFounded
  <2>2. FiniteSubsetsOf(S) = SUBSET S
    BY FS_FiniteSubsetsOfFinite
  <2> QED
    BY <2>1, <2>2
<1>2. Bad \subseteq SUBSET S /\ Bad # {}
  OBVIOUS
<1> HIDE DEF R, Bad
<1>3. PICK T \in Bad : \A U \in Bad : ~(<<U, T>> \in R)
  BY <1>1, <1>2, WFMin
<1>4. T \in SUBSET S /\ T \notin Good
  BY <1>3 DEF Bad
<1>5. ASSUME NEW U \in SUBSET T, U # T PROVE U \in Good
  <2>1. U \in SUBSET S /\ <<U, T>> \in R
    BY <1>4, <1>5 DEF R, StrictSubsetOrdering
  <2> QED
    BY <1>3, <2>1 DEF Bad
<1> QED
  BY <1>4, <1>5

\* The largest element of a finite set of integers.
LEMMA MaxOf ==
    ASSUME NEW S \in SUBSET Int, IsFiniteSet(S), S # {} PROVE Max(S) \in S /\ \A y \in S : Max(S) >= y
<1> DEFINE Good == {T \in SUBSET S : T # {} => \E x \in T : \A y \in T : x >= y}
<1>1. ASSUME NEW T \in SUBSET S, \A U \in SUBSET T : U # T => U \in Good PROVE T \in Good
  <2> SUFFICES ASSUME T # {} PROVE \E x \in T : \A y \in T : x >= y
    OBVIOUS
  <2>1. PICK x \in T : TRUE
    OBVIOUS
  <2>2. CASE T = {x}
    BY <2>2
  <2>3. CASE T # {x}
    <3>1. T \ {x} # {} /\ T \ {x} \in Good
      BY <1>1, <2>1, <2>3
    <3>2. PICK z \in T \ {x} : \A y \in T \ {x} : z >= y
      BY <3>1
    <3>3. x >= z \/ z >= x
      OBVIOUS
    <3> QED
      BY <3>2, <3>3
  <2> QED
    BY <2>2, <2>3
<1> HIDE DEF Good
<1>2. \A T \in SUBSET S : T \in Good
  BY <1>1, SubsetInduction
<1>3. \E x \in S : \A y \in S : x >= y
  BY <1>2 DEF Good
<1> QED
  BY <1>3 DEF Max

----------------------------------------------------------------------------
(* A function of the subsets of a set, by recursion on them: the base of   *)
(* the empty set, and a step from what is left without the element picked. *)

IsIter(g, base, step, pick, T) ==
    \A s \in SUBSET T : g[s] = IF s = {} THEN base ELSE step[<<pick[s], g[s \ {pick[s]}]>>]

LEMMA IterUnique ==
    ASSUME NEW S, IsFiniteSet(S), NEW base, NEW step, NEW pick,
           \A T \in SUBSET S : T # {} => pick[T] \in T,
           NEW A \in SUBSET S, NEW B \in SUBSET A,
           NEW g, IsIter(g, base, step, pick, A), NEW h, IsIter(h, base, step, pick, B)
    PROVE  \A s \in SUBSET B : g[s] = h[s]
<1> DEFINE Good == {s \in SUBSET S : s \subseteq B => g[s] = h[s]}
<1>1. ASSUME NEW T \in SUBSET S, \A U \in SUBSET T : U # T => U \in Good PROVE T \in Good
  <2> SUFFICES ASSUME T \subseteq B PROVE g[T] = h[T]
    OBVIOUS
  <2>1. CASE T = {}
    BY <2>1 DEF IsIter
  <2>2. CASE T # {}
    <3>1. PICK x \in T : x = pick[T]
      BY <2>2
    <3>2. T \ {x} \in SUBSET T /\ T \ {x} # T
      BY <3>1
    <3>3. g[T \ {x}] = h[T \ {x}]
      BY <1>1, <3>2
    <3>4. g[T] = step[<<x, g[T \ {x}]>>] /\ h[T] = step[<<x, h[T \ {x}]>>]
      BY <2>2, <3>1 DEF IsIter
    <3> QED
      BY <3>3, <3>4
  <2> QED
    BY <2>1, <2>2
<1> HIDE DEF Good
<1>2. \A T \in SUBSET S : T \in Good
  BY <1>1, SubsetInduction
<1> QED
  BY <1>2 DEF Good

LEMMA IterExists ==
    ASSUME NEW S, IsFiniteSet(S), NEW V, NEW base \in V, NEW step \in [S \X V -> V], NEW pick,
           \A T \in SUBSET S : T # {} => pick[T] \in T
    PROVE  \E g \in [SUBSET S -> V] : IsIter(g, base, step, pick, S)
<1> DEFINE Has(T) == \E g \in [SUBSET T -> V] : IsIter(g, base, step, pick, T)
           G(T) == CHOOSE g \in [SUBSET T -> V] : IsIter(g, base, step, pick, T)
           Good == {T \in SUBSET S : Has(T)}
<1>1. ASSUME NEW T \in SUBSET S, \A U \in SUBSET T : U # T => U \in Good PROVE T \in Good
  <2>1. ASSUME NEW U \in SUBSET T, U # T
        PROVE  G(U) \in [SUBSET U -> V] /\ IsIter(G(U), base, step, pick, U)
    BY <1>1, <2>1
  <2>2. ASSUME NEW U \in SUBSET T, U # T, NEW s \in SUBSET U PROVE G(U)[s] = G(s)[s]
    <3>1. s \in SUBSET T /\ s # T /\ s \in SUBSET s /\ U \in SUBSET S
      BY <2>2
    <3>2. IsIter(G(U), base, step, pick, U) /\ IsIter(G(s), base, step, pick, s)
      BY <2>1, <2>2, <3>1
    <3> HIDE DEF G
    <3> QED
      BY <3>1, <3>2, IterUnique
  <2> HIDE DEF G, Good
  <2>f. ASSUME NEW U \in SUBSET T, U # T PROVE G(U)[U] \in V
    <3>1. PICK g \in [SUBSET U -> V] : g = G(U)
      BY <2>1, <2>f
    <3>2. U \in SUBSET U
      OBVIOUS
    <3> QED
      BY <3>1, <3>2
  <2> DEFINE x == pick[T]
             v(s) == IF s = T THEN IF T = {} THEN base ELSE step[<<x, G(T \ {x})[T \ {x}]>>]
                     ELSE G(s)[s]
             g == [s \in SUBSET T |-> v(s)]
  <2>3. T # {} => x \in T /\ T \ {x} \in SUBSET T /\ T \ {x} # T
    OBVIOUS
  <2> HIDE DEF x
  <2>4. ASSUME NEW s \in SUBSET T PROVE v(s) \in V
    <3>1. CASE s = T /\ T = {}
      BY <3>1
    <3>2. CASE s = T /\ T # {}
      <4>1. G(T \ {x})[T \ {x}] \in V
        <5>1. PICK U \in SUBSET T : U = T \ {x} /\ U # T
          BY <2>3, <3>2
        <5> QED
          BY <2>f, <5>1
      <4> QED
        BY <2>3, <3>2, <4>1
    <3>3. CASE s # T
      BY <2>f, <3>3
    <3> QED
      BY <3>1, <3>2, <3>3
  <2>5. ASSUME NEW s \in SUBSET T
        PROVE  v(s) = IF s = {} THEN base ELSE step[<<pick[s], v(s \ {pick[s]})>>]
    <3>1. CASE s = T
      BY <2>3, <3>1 DEF x
    <3>2. CASE s # T /\ s = {}
      BY <2>1, <3>2 DEF IsIter
    <3>3. CASE s # T /\ s # {}
      <4>1. PICK y \in s : y = pick[s]
        BY <3>3
      <4>2. G(s)[s] = step[<<y, G(s)[s \ {y}]>>]
        BY <2>1, <3>3, <4>1 DEF IsIter
      <4>3. s \ {y} \in SUBSET s /\ s \ {y} # T
        BY <4>1
      <4>4. G(s)[s \ {y}] = G(s \ {y})[s \ {y}]
        BY <2>2, <3>3, <4>3
      <4> QED
        BY <3>3, <4>1, <4>2, <4>3, <4>4
    <3> QED
      BY <3>1, <3>2, <3>3
  <2> HIDE DEF v
  <2>6. g \in [SUBSET T -> V]
    BY <2>4
  <2>7. IsIter(g, base, step, pick, T)
    <3> SUFFICES ASSUME NEW s \in SUBSET T
                 PROVE  g[s] = IF s = {} THEN base ELSE step[<<pick[s], g[s \ {pick[s]}]>>]
      BY DEF IsIter
    <3>1. s \ {pick[s]} \in SUBSET T
      OBVIOUS
    <3> QED
      BY <2>5, <3>1
  <2> QED
    BY <2>6, <2>7 DEF Good
<1> HIDE DEF Good
<1>2. \A T \in SUBSET S : T \in Good
  BY <1>1, SubsetInduction
<1> QED
  BY <1>2 DEF Good

----------------------------------------------------------------------------
(* Folds.                                                                  *)

Pick(s) == CHOOSE x \in s : TRUE

LEMMA Picked == ASSUME NEW s, s # {} PROVE Pick(s) \in s
BY DEF Pick

\* g has the folds of the subsets of T.
IsFold(g, op, f, T) ==
    \A s \in SUBSET T : g[s] = IF s = {} THEN 0 ELSE op[f[Pick(s)]][g[s \ {Pick(s)}]]

Fold(op, f, S) == (CHOOSE g \in [SUBSET S -> Nat] : IsFold(g, op, f, S))[S]

\* An operation on numbers, and a function to fold over the set S.
Folding(op, f, S) ==
    IsFiniteSet(S) /\ op \in [Nat -> [Nat -> Nat]] /\ \A x \in S : f[x] \in Nat

LEMMA FoldUnique ==
    ASSUME NEW S, IsFiniteSet(S), NEW op, NEW f, NEW A \in SUBSET S, NEW B \in SUBSET S,
           NEW g, IsFold(g, op, f, A), NEW h, IsFold(h, op, f, B)
    PROVE  \A s \in SUBSET (A \cap B) : g[s] = h[s]
<1> DEFINE Good == {s \in SUBSET S : s \subseteq A \cap B => g[s] = h[s]}
<1>1. ASSUME NEW T \in SUBSET S, \A U \in SUBSET T : U # T => U \in Good PROVE T \in Good
  <2> SUFFICES ASSUME T \subseteq A \cap B PROVE g[T] = h[T]
    OBVIOUS
  <2>1. CASE T = {}
    BY <2>1 DEF IsFold
  <2>2. CASE T # {}
    <3>1. PICK x \in T : x = Pick(T)
      BY <2>2, Picked
    <3>2. T \ {x} \in SUBSET T /\ T \ {x} # T
      BY <3>1
    <3>3. g[T \ {x}] = h[T \ {x}]
      BY <1>1, <3>2
    <3>4. g[T] = op[f[x]][g[T \ {x}]] /\ h[T] = op[f[x]][h[T \ {x}]]
      BY <2>2, <3>1 DEF IsFold
    <3> QED
      BY <3>3, <3>4
  <2> QED
    BY <2>1, <2>2
<1> HIDE DEF Good
<1>2. \A T \in SUBSET S : T \in Good
  BY <1>1, SubsetInduction
<1> QED
  BY <1>2 DEF Good

LEMMA FoldExists ==
    ASSUME NEW op, NEW f, NEW S, Folding(op, f, S)
    PROVE  \E g \in [SUBSET S -> Nat] : IsFold(g, op, f, S)
<1> DEFINE step == [xv \in S \X Nat |-> op[f[xv[1]]][xv[2]]]
           pick == [T \in SUBSET S |-> Pick(T)]
<1>1. IsFiniteSet(S) /\ op \in [Nat -> [Nat -> Nat]] /\ \A x \in S : f[x] \in Nat
  BY DEF Folding
<1>2. step \in [S \X Nat -> Nat] /\ \A x \in S, v \in Nat : step[<<x, v>>] = op[f[x]][v]
  BY <1>1
<1>3. \A T \in SUBSET S : T # {} => pick[T] \in T /\ pick[T] = Pick(T)
  BY Picked
<1> HIDE DEF step, pick
<1>4. PICK g \in [SUBSET S -> Nat] : IsIter(g, 0, step, pick, S)
  <2>1. \E g \in [SUBSET S -> Nat] : IsIter(g, 0, step, pick, S)
    BY <1>1, <1>2, <1>3, IterExists
  <2> QED
    BY <2>1
<1>5. ASSUME NEW s \in SUBSET S
      PROVE  g[s] = IF s = {} THEN 0 ELSE op[f[Pick(s)]][g[s \ {Pick(s)}]]
  <2>1. CASE s = {}
    BY <1>4, <2>1 DEF IsIter
  <2>2. CASE s # {}
    <3>1. PICK x \in s : x = Pick(s) /\ x = pick[s]
      BY <1>3, <2>2
    <3>2. g[s] = step[<<x, g[s \ {x}]>>] /\ g[s \ {x}] \in Nat
      BY <1>4, <2>2, <3>1 DEF IsIter
    <3> QED
      BY <1>2, <2>2, <3>1, <3>2
  <2> QED
    BY <2>1, <2>2
<1> QED
  BY <1>4, <1>5 DEF IsFold

\* One function has the folds of all the subsets.
LEMMA FoldAt ==
    ASSUME NEW op, NEW f, NEW S, Folding(op, f, S)
    PROVE  \E g \in [SUBSET S -> Nat] :
             IsFold(g, op, f, S) /\ \A T \in SUBSET S : g[T] = Fold(op, f, T)
<1>1. PICK g \in [SUBSET S -> Nat] : IsFold(g, op, f, S)
  BY FoldExists
<1>2. ASSUME NEW T \in SUBSET S PROVE g[T] = Fold(op, f, T)
  <2> DEFINE h == CHOOSE h \in [SUBSET T -> Nat] : IsFold(h, op, f, T)
  <2>1. Folding(op, f, T) /\ IsFiniteSet(S)
    BY FS_Subset DEF Folding
  <2>2. IsFold(h, op, f, T)
    BY <2>1, FoldExists
  <2>3. Fold(op, f, T) = h[T]
    BY DEF Fold
  <2> HIDE DEF h
  <2>4. T \in SUBSET (S \cap T) /\ S \in SUBSET S
    OBVIOUS
  <2> QED
    BY <1>1, <2>1, <2>2, <2>3, <2>4, FoldUnique
<1> QED
  BY <1>1, <1>2

LEMMA FoldType == ASSUME NEW op, NEW f, NEW S, Folding(op, f, S) PROVE Fold(op, f, S) \in Nat
<1>1. PICK g \in [SUBSET S -> Nat] :
         IsFold(g, op, f, S) /\ \A T \in SUBSET S : g[T] = Fold(op, f, T)
  BY FoldAt
<1>2. S \in SUBSET S
  OBVIOUS
<1> QED
  BY <1>1, <1>2

LEMMA FoldEmpty == ASSUME NEW op, NEW f, Folding(op, f, {}) PROVE Fold(op, f, {}) = 0
<1>1. PICK g \in [SUBSET {} -> Nat] : IsFold(g, op, f, {}) /\ g[{}] = Fold(op, f, {})
  BY FoldAt
<1> QED
  BY <1>1 DEF IsFold

\* The order in which the elements are taken does not matter.
Commutes(op) == \A a, b, c \in Nat : op[a][op[b][c]] = op[b][op[a][c]]

LEMMA FoldRemove ==
    ASSUME NEW op, Commutes(op), NEW f, NEW S, Folding(op, f, S), NEW x \in S
    PROVE  Folding(op, f, S \ {x}) /\ Fold(op, f, S) = op[f[x]][Fold(op, f, S \ {x})]
<1>1. PICK g \in [SUBSET S -> Nat] :
         IsFold(g, op, f, S) /\ \A T \in SUBSET S : g[T] = Fold(op, f, T)
  BY FoldAt
<1> DEFINE Good == {T \in SUBSET S : \A y \in T : g[T] = op[f[y]][g[T \ {y}]]}
<1>2. ASSUME NEW T \in SUBSET S, \A U \in SUBSET T : U # T => U \in Good PROVE T \in Good
  <2> SUFFICES ASSUME NEW y \in T PROVE g[T] = op[f[y]][g[T \ {y}]]
    OBVIOUS
  <2>1. PICK z \in T : z = Pick(T)
    BY Picked
  <2>2. g[T] = op[f[z]][g[T \ {z}]]
    BY <1>1, <2>1 DEF IsFold
  <2>3. CASE y = z
    BY <2>2, <2>3
  <2>4. CASE y # z
    <3> DEFINE U == (T \ {y}) \ {z}
    <3>1. U = (T \ {z}) \ {y} /\ U \in SUBSET S
      OBVIOUS
    <3>2. T \ {y} \in Good /\ T \ {z} \in Good /\ z \in T \ {y} /\ y \in T \ {z}
      BY <1>2, <2>4
    <3>3. g[T \ {y}] = op[f[z]][g[U]] /\ g[T \ {z}] = op[f[y]][g[U]]
      BY <3>1, <3>2
    <3>4. f[y] \in Nat /\ f[z] \in Nat /\ g[U] \in Nat
      BY <1>1, <3>1 DEF Folding
    <3> HIDE DEF U
    <3> QED
      BY <2>2, <3>3, <3>4 DEF Commutes
  <2> QED
    BY <2>3, <2>4
<1> HIDE DEF Good
<1>3. S \in Good
  <2>1. \A T \in SUBSET S : T \in Good
    BY <1>2, SubsetInduction DEF Folding
  <2> QED
    BY <2>1
<1>4. g[S] = op[f[x]][g[S \ {x}]]
  BY <1>3 DEF Good
<1>5. Folding(op, f, S \ {x})
  BY FS_Subset DEF Folding
<1> QED
  BY <1>1, <1>4, <1>5

\* More elements, or larger ones, give no less.
Monotone(op) ==
    /\ \A a, b \in Nat : op[a][b] >= b
    /\ \A a, b, c, d \in Nat : a <= c /\ b <= d => op[a][b] <= op[c][d]

LEMMA FoldMonotone ==
    ASSUME NEW op, Commutes(op), Monotone(op), NEW S, NEW f, Folding(op, f, S),
           NEW A \in SUBSET S, NEW e, \A x \in A : e[x] \in Nat /\ e[x] <= f[x]
    PROVE  Fold(op, e, A) <= Fold(op, f, S)
<1> DEFINE Good == {T \in SUBSET S : Fold(op, e, A \cap T) <= Fold(op, f, T)}
<1>f. IsFiniteSet(S) /\ op \in [Nat -> [Nat -> Nat]] /\ \A x \in S : f[x] \in Nat
  BY DEF Folding
<1>1. ASSUME NEW T \in SUBSET S, \A U \in SUBSET T : U # T => U \in Good PROVE T \in Good
  <2>1. Folding(op, f, T) /\ Folding(op, e, A \cap T)
    BY <1>f, FS_Subset DEF Folding
  <2>2. CASE T = {}
    <3>1. A \cap T = {} /\ Folding(op, e, {}) /\ Folding(op, f, {})
      BY <2>1, <2>2
    <3>2. Fold(op, e, A \cap T) = 0 /\ Fold(op, f, T) = 0
      BY <2>2, <3>1, FoldEmpty
    <3> QED
      BY <3>2
  <2>3. CASE T # {}
    <3>1. PICK x \in T : TRUE
      BY <2>3
    <3>2. T \ {x} \in SUBSET T /\ T \ {x} # T
      BY <3>1
    <3> DEFINE n == Fold(op, f, T \ {x})
               m == Fold(op, e, A \cap (T \ {x}))
    <3>3. m <= n
      BY <1>1, <3>2
    <3>4. Fold(op, f, T) = op[f[x]][n] /\ Folding(op, f, T \ {x})
      BY <2>1, <3>1, FoldRemove
    <3>5. Folding(op, e, A \cap (T \ {x}))
      BY <1>f, FS_Subset DEF Folding
    <3>6. m \in Nat /\ n \in Nat /\ f[x] \in Nat
      BY <1>f, <3>1, <3>4, <3>5, FoldType
    <3>7. CASE x \in A
      <4>1. x \in A \cap T /\ (A \cap T) \ {x} = A \cap (T \ {x})
        BY <3>7
      <4>0. PICK B : B = A \cap T
        OBVIOUS
      <4>2. Fold(op, e, A \cap T) = op[e[x]][m]
        <5>1. Fold(op, e, B) = op[e[x]][Fold(op, e, B \ {x})]
          BY <2>1, <4>0, <4>1, FoldRemove
        <5> QED
          BY <4>0, <4>1, <5>1
      <4>3. e[x] \in Nat /\ e[x] <= f[x]
        BY <3>7
      <4> HIDE DEF m, n
      <4> QED
        BY <3>3, <3>4, <3>6, <4>2, <4>3 DEF Monotone
    <3>8. CASE x \notin A
      <4>1. A \cap T = A \cap (T \ {x})
        BY <3>8
      <4>2. Fold(op, e, A \cap T) = m
        BY <4>1
      <4> HIDE DEF m, n
      <4>3. op[f[x]][n] >= n /\ op[f[x]][n] \in Nat
        BY <1>f, <3>6 DEF Monotone
      <4> QED
        BY <3>3, <3>4, <3>6, <4>2, <4>3
    <3> QED
      BY <3>7, <3>8
  <2> QED
    BY <2>2, <2>3
<1> HIDE DEF Good
<1>2. \A T \in SUBSET S : T \in Good
  BY <1>1, <1>f, SubsetInduction
<1>3. A \cap S = A /\ S \in Good
  BY <1>2
<1> QED
  BY <1>3 DEF Good

LEMMA FoldZeros ==
    ASSUME NEW op, Commutes(op), op[0][0] = 0, NEW f, NEW S, Folding(op, f, S), \A x \in S : f[x] = 0
    PROVE  Fold(op, f, S) = 0
<1> DEFINE Good == {T \in SUBSET S : Fold(op, f, T) = 0}
<1>1. ASSUME NEW T \in SUBSET S, \A U \in SUBSET T : U # T => U \in Good PROVE T \in Good
  <2>1. Folding(op, f, T)
    BY FS_Subset DEF Folding
  <2>2. CASE T = {}
    BY <2>1, <2>2, FoldEmpty
  <2>3. CASE T # {}
    <3>1. PICK x \in T : TRUE
      BY <2>3
    <3>2. Fold(op, f, T) = op[f[x]][Fold(op, f, T \ {x})]
      BY <2>1, <3>1, FoldRemove
    <3>3. Fold(op, f, T \ {x}) = 0
      BY <1>1, <3>1
    <3> QED
      BY <3>2, <3>3
  <2> QED
    BY <2>2, <2>3
<1> HIDE DEF Good
<1>2. \A T \in SUBSET S : T \in Good
  BY <1>1, SubsetInduction DEF Folding
<1>3. S \in Good
  BY <1>2
<1> QED
  BY <1>3 DEF Good

----------------------------------------------------------------------------
(* Sums and maxima.                                                        *)

Plus == [a \in Nat |-> [b \in Nat |-> a + b]]
Larger == [a \in Nat |-> [b \in Nat |-> IF a > b THEN a ELSE b]]

LEMMA PlusFolds == Plus \in [Nat -> [Nat -> Nat]] /\ Commutes(Plus) /\ Monotone(Plus)
<1>1. \A a, b \in Nat : Plus[a][b] = a + b /\ a + b \in Nat
  BY DEF Plus
<1>2. Plus \in [Nat -> [Nat -> Nat]]
  BY DEF Plus
<1>3. Commutes(Plus)
  <2> SUFFICES ASSUME NEW a \in Nat, NEW b \in Nat, NEW c \in Nat
               PROVE  Plus[a][Plus[b][c]] = Plus[b][Plus[a][c]]
    BY DEF Commutes
  <2>1. Plus[b][c] = b + c /\ Plus[a][c] = a + c /\ b + c \in Nat /\ a + c \in Nat
    BY <1>1
  <2>2. Plus[a][b + c] = a + (b + c) /\ Plus[b][a + c] = b + (a + c)
    BY <1>1, <2>1
  <2> QED
    BY <2>1, <2>2
<1>4. \A a, b \in Nat : Plus[a][b] >= b
  BY <1>1
<1>5. ASSUME NEW a \in Nat, NEW b \in Nat, NEW c \in Nat, NEW d \in Nat, a <= c, b <= d
      PROVE  Plus[a][b] <= Plus[c][d]
  <2>1. Plus[a][b] = a + b /\ Plus[c][d] = c + d
    BY <1>1
  <2> QED
    BY <1>5, <2>1
<1> QED
  BY <1>2, <1>3, <1>4, <1>5 DEF Monotone

LEMMA LargerFolds == Larger \in [Nat -> [Nat -> Nat]] /\ Commutes(Larger) /\ Monotone(Larger)
<1>1. \A a, b \in Nat : Larger[a][b] = (IF a > b THEN a ELSE b) /\ (IF a > b THEN a ELSE b) \in Nat
  BY DEF Larger
<1>2. Larger \in [Nat -> [Nat -> Nat]]
  BY DEF Larger
<1>3. Commutes(Larger)
  <2> SUFFICES ASSUME NEW a \in Nat, NEW b \in Nat, NEW c \in Nat
               PROVE  Larger[a][Larger[b][c]] = Larger[b][Larger[a][c]]
    BY DEF Commutes
  <2>1. PICK x \in Nat, y \in Nat : x = Larger[b][c] /\ y = Larger[a][c]
    BY <1>1
  <2>2. x = (IF b > c THEN b ELSE c) /\ y = (IF a > c THEN a ELSE c)
    BY <1>1, <2>1
  <2>3. Larger[a][x] = (IF a > x THEN a ELSE x) /\ Larger[b][y] = (IF b > y THEN b ELSE y)
    BY <1>1
  <2> QED
    BY <2>1, <2>2, <2>3
<1>4. \A a, b \in Nat : Larger[a][b] >= b
  BY <1>1
<1>5. ASSUME NEW a \in Nat, NEW b \in Nat, NEW c \in Nat, NEW d \in Nat, a <= c, b <= d
      PROVE  Larger[a][b] <= Larger[c][d]
  BY <1>1, <1>5
<1> QED
  BY <1>2, <1>3, <1>4, <1>5 DEF Monotone

\* MapThenSumSet is the fold of Plus.
LEMMA SumIsFold ==
    ASSUME NEW S, IsFiniteSet(S), NEW f, \A x \in S : f[x] \in Nat
    PROVE  Folding(Plus, f, S) /\ MapThenSumSet(LAMBDA x : f[x], S) = Fold(Plus, f, S)
<1> DEFINE Solves(g) == g = [s \in SUBSET S |-> IF s = {} THEN 0 ELSE f[Pick(s)] + g[s \ {Pick(s)}]]
           iter == CHOOSE g : Solves(g)
<1>1. MapThenSumSet(LAMBDA x : f[x], S) = iter[S]
  BY DEF MapThenSumSet, MapThenFoldSet, Pick
<1>p. \A a, b \in Nat : Plus[a][b] = a + b
  BY DEF Plus
<1>2. Folding(Plus, f, S)
  BY PlusFolds DEF Folding
<1>3. PICK g \in [SUBSET S -> Nat] : IsFold(g, Plus, f, S) /\ \A T \in SUBSET S : g[T] = Fold(Plus, f, T)
  BY <1>2, FoldAt
<1>4. Solves(g)
  <2>1. ASSUME NEW s \in SUBSET S
        PROVE  g[s] = IF s = {} THEN 0 ELSE f[Pick(s)] + g[s \ {Pick(s)}]
    <3>1. s # {} => f[Pick(s)] \in Nat /\ g[s \ {Pick(s)}] \in Nat
      BY <1>3, Picked
    <3>2. g[s] = IF s = {} THEN 0 ELSE Plus[f[Pick(s)]][g[s \ {Pick(s)}]]
      BY <1>3 DEF IsFold
    <3> QED
      BY <1>p, <3>1, <3>2
  <2> QED
    BY <1>3, <2>1
<1>5. Solves(iter)
  BY <1>4
<1> HIDE DEF iter
<1> DEFINE Good == {T \in SUBSET S : iter[T] = g[T]}
<1>6. ASSUME NEW T \in SUBSET S, \A U \in SUBSET T : U # T => U \in Good PROVE T \in Good
  <2>1. iter[T] = IF T = {} THEN 0 ELSE f[Pick(T)] + iter[T \ {Pick(T)}]
    BY <1>5
  <2>2. g[T] = IF T = {} THEN 0 ELSE f[Pick(T)] + g[T \ {Pick(T)}]
    BY <1>4
  <2>3. T # {} => iter[T \ {Pick(T)}] = g[T \ {Pick(T)}]
    BY <1>6, Picked
  <2> QED
    BY <2>1, <2>2, <2>3
<1> HIDE DEF Good
<1>7. \A T \in SUBSET S : T \in Good
  BY <1>6, SubsetInduction
<1>8. S \in SUBSET S /\ S \in Good
  BY <1>7
<1> QED
  BY <1>1, <1>2, <1>3, <1>8 DEF Good
=============================================================================
