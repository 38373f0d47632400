--------------------------- MODULE CapacityProofs ---------------------------
(***************************************************************************)
(* Facts about the operators of Capacity: what the placement simulation    *)
(* computes for every mode and every cluster.                              *)
(***************************************************************************)
EXTENDS Capacity, Functions, FiniteSetTheorems, TLAPS

-----------------------------------------------------------------------------
(* Induction.  The induction theorems of the library take a predicate; a   *)
(* set of the numbers, or of the subsets, that satisfy it does as well.    *)

\* A set of numbers with 0 and every successor is the set of all numbers.
LEMMA Induction ==
    ASSUME NEW S \in SUBSET Nat, 0 \in S, \A n \in S : n + 1 \in S
    PROVE  S = Nat
<1>1. SUFFICES ASSUME Nat \ S # {} PROVE FALSE
  OBVIOUS
<1>2. PICK m \in Nat \ S : \A k \in Nat \ S : <<k, m>> \notin OpToRel(<, Nat)
  BY <1>1, WFMin, NatLessThanWellFounded, Zenon
<1>3. \A k \in Nat \ S : ~(k < m)
  BY <1>2, Zenon DEF OpToRel
<1>4. m # 0 /\ m - 1 \in Nat
  OBVIOUS
<1>5. m - 1 \in S
  BY <1>3, <1>4
<1>6. QED
  BY <1>4, <1>5

\* A set of finite sets that has {} and grows by one element at a time has
\* every subset of D.
LEMMA FiniteInduction ==
    ASSUME NEW D, IsFiniteSet(D), NEW P \in SUBSET SUBSET D, {} \in P,
           \A T \in P : \A x \in D \ T : T \cup {x} \in P
    PROVE  P = SUBSET D
<1> DEFINE Good == {n \in Nat : \A T \in SUBSET D : Cardinality(T) = n => T \in P}
<1>1. \A T \in SUBSET D : IsFiniteSet(T) /\ Cardinality(T) \in Nat
  BY FS_Subset, FS_CardinalityType
<1>2. 0 \in Good
  BY <1>1, FS_EmptySet
<1>3. ASSUME NEW n \in Good PROVE n + 1 \in Good
  <2>1. SUFFICES ASSUME NEW T \in SUBSET D, Cardinality(T) = n + 1
                 PROVE  T \in P
    OBVIOUS
  <2>2. PICK x \in T : TRUE
    BY <1>1, <2>1, FS_EmptySet
  <2>3. Cardinality(T \ {x}) = n
    BY <1>1, <2>1, <2>2, FS_RemoveElement
  <2>4. T \ {x} \in P
    BY <2>3
  <2>5. (T \ {x}) \cup {x} = T /\ x \in D \ (T \ {x})
    BY <2>2
  <2>6. QED
    BY <2>4, <2>5
<1>4. Good = Nat
  <2>1. Good \in SUBSET Nat
    OBVIOUS
  <2> HIDE DEF Good
  <2>2. QED
    BY <1>2, <1>3, <2>1, Induction
<1>5. QED
  BY <1>1, <1>4

-----------------------------------------------------------------------------
(* Sums over finite sets.                                                  *)

Pick(s) == CHOOSE x \in s : TRUE

\* g sums f over every set of the family U.
IsSum(g, f, U) ==
    g = [s \in U |-> IF s = {} THEN 0 ELSE f[Pick(s)] + g[s \ {Pick(s)}]]

Upto(S, n) == {s \in SUBSET S : Cardinality(s) <= n}

LEMMA PickIsIn == ASSUME NEW s, s # {} PROVE Pick(s) \in s
BY DEF Pick

LEMMA PickRemoved ==
    ASSUME NEW s, IsFiniteSet(s), s # {}
    PROVE  /\ Pick(s) \in s /\ IsFiniteSet(s \ {Pick(s)})
           /\ Cardinality(s \ {Pick(s)}) = Cardinality(s) - 1
BY PickIsIn, FS_RemoveElement

LEMMA SumExists ==
    ASSUME NEW f, NEW S, IsFiniteSet(S)
    PROVE  \E g : IsSum(g, f, SUBSET S)
<1> DEFINE Good == {n \in Nat : \E g : IsSum(g, f, Upto(S, n))}
<1>1. \A s \in SUBSET S : IsFiniteSet(s) /\ Cardinality(s) \in Nat
                          /\ (Cardinality(s) = 0 <=> s = {})
  BY FS_Subset, FS_CardinalityType, FS_EmptySet
<1>2. 0 \in Good
  <2> DEFINE g == [s \in Upto(S, 0) |-> 0]
  <2>1. \A s \in Upto(S, 0) : s = {}
    BY <1>1 DEF Upto
  <2>2. IsSum(g, f, Upto(S, 0))
    BY <2>1 DEF IsSum
  <2> HIDE DEF g
  <2>3. QED
    BY <2>2
<1>3. ASSUME NEW n \in Good PROVE n + 1 \in Good
  <2>1. PICK g : IsSum(g, f, Upto(S, n))
    OBVIOUS
  <2> DEFINE h == [s \in Upto(S, n + 1) |->
                      IF Cardinality(s) = n + 1
                      THEN f[Pick(s)] + g[s \ {Pick(s)}] ELSE g[s]]
             Step(s) == IF s = {} THEN 0 ELSE f[Pick(s)] + h[s \ {Pick(s)}]
  <2>2. ASSUME NEW s \in Upto(S, n + 1) PROVE h[s] = Step(s)
    <3>1. /\ s \in SUBSET S /\ IsFiniteSet(s) /\ Cardinality(s) <= n + 1
          /\ Cardinality(s) \in Nat /\ n \in Nat
      BY <1>1 DEF Upto
    <3>2. CASE s = {}
      <4>1. Cardinality(s) = 0 /\ s \in Upto(S, n)
        BY <1>1, <3>1, <3>2 DEF Upto
      <4>2. g[s] = 0
        BY <2>1, <3>2, <4>1 DEF IsSum
      <4>3. QED
        BY <3>1, <3>2, <4>1, <4>2
    <3>3. CASE s # {}
      <4> DEFINE t == s \ {Pick(s)}
      <4>1. Pick(s) \in s
        BY <3>3, PickIsIn
      <4>2. Cardinality(t) = Cardinality(s) - 1
        BY <3>1, <4>1, FS_RemoveElement
      <4>3. t \in Upto(S, n) /\ t \in Upto(S, n + 1) /\ Cardinality(t) # n + 1
        BY <3>1, <4>2 DEF Upto
      <4>4. h[t] = g[t]
        BY <4>3
      <4>5. CASE Cardinality(s) = n + 1
        BY <3>3, <4>4, <4>5
      <4>6. CASE Cardinality(s) # n + 1
        <5>1. s \in Upto(S, n)
          BY <3>1, <4>6 DEF Upto
        <5>2. g[s] = f[Pick(s)] + g[t]
          BY <2>1, <3>3, <5>1 DEF IsSum
        <5>3. QED
          BY <3>3, <4>4, <4>6, <5>2
      <4>7. QED
        BY <4>5, <4>6
    <3>4. QED
      BY <3>2, <3>3
  <2>3. h = [s \in Upto(S, n + 1) |-> Step(s)]
    BY <2>2
  <2>4. IsSum(h, f, Upto(S, n + 1))
    BY <2>3 DEF IsSum
  <2> HIDE DEF h
  <2>5. QED
    BY <2>4
<1>4. Good = Nat
  <2>1. Good \in SUBSET Nat
    OBVIOUS
  <2> HIDE DEF Good
  <2>2. QED
    BY <1>2, <1>3, <2>1, Induction
<1>5. Cardinality(S) \in Nat /\ \A s \in SUBSET S : Cardinality(s) <= Cardinality(S)
  BY FS_Subset, FS_CardinalityType
<1>6. Upto(S, Cardinality(S)) = SUBSET S
  BY <1>5 DEF Upto
<1>7. QED
  BY <1>4, <1>5, <1>6

\* Two sums of functions that agree on s agree at s.
LEMMA SumAgrees ==
    \A f, S, g, e, T, h, s :
        /\ IsSum(g, f, SUBSET S) /\ IsSum(h, e, SUBSET T)
        /\ IsFiniteSet(s) /\ s \subseteq S /\ s \subseteq T
        /\ \A x \in s : f[x] = e[x]
        => g[s] = h[s]
<1> SUFFICES ASSUME NEW f, NEW S, NEW g, NEW e, NEW T, NEW h, NEW s,
                    /\ IsSum(g, f, SUBSET S) /\ IsSum(h, e, SUBSET T)
                    /\ IsFiniteSet(s) /\ s \subseteq S /\ s \subseteq T
                    /\ \A x \in s : f[x] = e[x]
             PROVE  g[s] = h[s]
  BY Zenon
<1> DEFINE Good == {n \in Nat : \A t \in SUBSET s :
                        Cardinality(t) = n => g[t] = h[t]}
<1>1. \A t \in SUBSET s : IsFiniteSet(t) /\ Cardinality(t) \in Nat
                          /\ (Cardinality(t) = 0 <=> t = {})
  BY FS_Subset, FS_CardinalityType, FS_EmptySet
<1>2. \A t \in SUBSET s : t # {} =>
          /\ g[t] = f[Pick(t)] + g[t \ {Pick(t)}]
          /\ h[t] = e[Pick(t)] + h[t \ {Pick(t)}]
  BY DEF IsSum
<1>3. {} \in SUBSET s => g[{}] = 0 /\ h[{}] = 0
  BY DEF IsSum
<1>4. 0 \in Good
  BY <1>1, <1>3
<1>5. ASSUME NEW n \in Good PROVE n + 1 \in Good
  <2>1. SUFFICES ASSUME NEW t \in SUBSET s, Cardinality(t) = n + 1
                 PROVE  g[t] = h[t]
    OBVIOUS
  <2>2. t # {} /\ Pick(t) \in t
    BY <1>1, <2>1, PickIsIn
  <2>3. Cardinality(t \ {Pick(t)}) = n
    <3>1. IsFiniteSet(t)
      BY <1>1
    <3>2. Cardinality(t \ {Pick(t)}) = Cardinality(t) - 1
      BY <2>2, <3>1, FS_RemoveElement
    <3>3. n \in Nat
      OBVIOUS
    <3>. QED BY <2>1, <3>2, <3>3
  <2>4. g[t \ {Pick(t)}] = h[t \ {Pick(t)}]
    BY <2>3
  <2>5. QED
    BY <1>2, <2>2, <2>4
<1>6. Good = Nat
  <2>1. Good \in SUBSET Nat
    OBVIOUS
  <2> HIDE DEF Good
  <2>2. QED
    BY <1>4, <1>5, <2>1, Induction
<1>7. QED
  BY <1>1, <1>6

LEMMA SumIsSum ==
    ASSUME NEW f, NEW S, IsFiniteSet(S)
    PROVE  \E g : IsSum(g, f, SUBSET S) /\ SumFunctionOnSet(f, S) = g[S]
<1>1. SumFunctionOnSet(f, S) = (CHOOSE g : IsSum(g, f, SUBSET S))[S]
  BY DEF SumFunctionOnSet, FoldFunctionOnSet, MapThenFoldSet, IsSum, Pick
<1>2. IsSum((CHOOSE g : IsSum(g, f, SUBSET S)), f, SUBSET S)
  BY SumExists, Zenon
<1>3. QED
  BY <1>1, <1>2, Zenon

\* The empty sum, and how a sum is taken apart.
LEMMA SumUnfolds ==
    ASSUME NEW f, NEW S, IsFiniteSet(S)
    PROVE  /\ S = {} => SumFunctionOnSet(f, S) = 0
           /\ S # {} => /\ Pick(S) \in S
                        /\ SumFunctionOnSet(f, S) =
                               f[Pick(S)] + SumFunctionOnSet(f, S \ {Pick(S)})
<1>1. PICK g : IsSum(g, f, SUBSET S) /\ SumFunctionOnSet(f, S) = g[S]
  BY SumIsSum
<1>2. CASE S = {}
  BY <1>1, <1>2 DEF IsSum
<1>3. CASE S # {}
  <2> DEFINE T == S \ {Pick(S)}
  <2>1. Pick(S) \in S
    BY <1>3, PickIsIn
  <2>2. g[S] = f[Pick(S)] + g[T]
    BY <1>1, <1>3 DEF IsSum
  <2>3. IsFiniteSet(T) /\ T \subseteq S /\ T \subseteq T /\ \A x \in T : f[x] = f[x]
    BY FS_RemoveElement
  <2>4. PICK h : IsSum(h, f, SUBSET T) /\ SumFunctionOnSet(f, T) = h[T]
    BY <2>3, SumIsSum
  <2> HIDE DEF T
  <2>5. g[T] = h[T]
    BY <1>1, <2>3, <2>4, SumAgrees
  <2>6. SumFunctionOnSet(f, S) = f[Pick(S)] + SumFunctionOnSet(f, T)
    BY <1>1, <2>2, <2>4, <2>5
  <2>7. QED
    BY <1>3, <2>1, <2>6 DEF T
<1>4. QED
  BY <1>2, <1>3

\* A sum depends on the values at the summed places only.
LEMMA SumCongruent ==
    ASSUME NEW f, NEW e, NEW S, IsFiniteSet(S), \A x \in S : f[x] = e[x]
    PROVE  SumFunctionOnSet(f, S) = SumFunctionOnSet(e, S)
<1>1. PICK g : IsSum(g, f, SUBSET S) /\ SumFunctionOnSet(f, S) = g[S]
  BY SumIsSum
<1>2. PICK h : IsSum(h, e, SUBSET S) /\ SumFunctionOnSet(e, S) = h[S]
  BY SumIsSum
<1>3. S \subseteq S
  OBVIOUS
<1>4. g[S] = h[S]
  BY <1>1, <1>2, <1>3, SumAgrees
<1>5. QED
  BY <1>1, <1>2, <1>4

LEMMA SumType ==
    ASSUME NEW f, NEW S, IsFiniteSet(S), \A x \in S : f[x] \in Nat
    PROVE  SumFunctionOnSet(f, S) \in Nat
<1> DEFINE Good == {n \in Nat : \A t \in SUBSET S :
                        Cardinality(t) = n => SumFunctionOnSet(f, t) \in Nat}
<1>1. \A t \in SUBSET S : IsFiniteSet(t) /\ Cardinality(t) \in Nat
                          /\ (Cardinality(t) = 0 <=> t = {})
  BY FS_Subset, FS_CardinalityType, FS_EmptySet
<1>2. 0 \in Good
  BY <1>1, SumUnfolds
<1>3. ASSUME NEW n \in Good PROVE n + 1 \in Good
  <2>1. SUFFICES ASSUME NEW t \in SUBSET S, Cardinality(t) = n + 1
                 PROVE  SumFunctionOnSet(f, t) \in Nat
    OBVIOUS
  <2>2. t # {} /\ Pick(t) \in t
    BY <1>1, <2>1, PickIsIn
  <2>3. Cardinality(t \ {Pick(t)}) = n
    <3>1. Cardinality(t \ {Pick(t)}) = Cardinality(t) - 1
      BY <1>1, <2>2, PickRemoved
    <3>2. QED
      BY <2>1, <3>1
  <2>4. SumFunctionOnSet(f, t \ {Pick(t)}) \in Nat
    BY <2>3
  <2>5. QED
    BY <1>1, <2>2, <2>4, SumUnfolds
<1>4. Good = Nat
  <2>1. Good \in SUBSET Nat
    OBVIOUS
  <2> HIDE DEF Good
  <2>2. QED
    BY <1>2, <1>3, <2>1, Induction
<1>5. QED
  BY <1>1, <1>4

\* One more place adds its value.
LEMMA SumAdds ==
    ASSUME NEW f, NEW S, IsFiniteSet(S), NEW x, x \notin S,
           \A y \in S \cup {x} : f[y] \in Nat
    PROVE  SumFunctionOnSet(f, S \cup {x}) = SumFunctionOnSet(f, S) + f[x]
<1> DEFINE U == S \cup {x}
           Good == {n \in Nat : \A t \in SUBSET U : \A y \in U \ t :
                        Cardinality(t) = n =>
                            SumFunctionOnSet(f, t \cup {y})
                                = SumFunctionOnSet(f, t) + f[y]}
<1>0. IsFiniteSet(U) /\ \A y \in U : f[y] \in Nat
  BY FS_AddElement
<1> HIDE DEF U
<1>1. \A t \in SUBSET U : IsFiniteSet(t) /\ Cardinality(t) \in Nat
                          /\ SumFunctionOnSet(f, t) \in Nat
  BY <1>0, FS_Subset, FS_CardinalityType, SumType
<1>2. 0 \in Good
  <2>1. SUFFICES ASSUME NEW t \in SUBSET U, NEW y \in U \ t,
                        Cardinality(t) = 0
                 PROVE  SumFunctionOnSet(f, t \cup {y})
                            = SumFunctionOnSet(f, t) + f[y]
    OBVIOUS
  <2>2. t = {}
    BY <1>1, <2>1, FS_EmptySet
  <2>3. IsFiniteSet({y}) /\ Pick({y}) = y /\ {y} \ {Pick({y})} = {}
    BY FS_Singleton, PickIsIn
  <2>4. SumFunctionOnSet(f, {y}) = f[y] + SumFunctionOnSet(f, {})
    BY <2>3, SumUnfolds
  <2>5. SumFunctionOnSet(f, {}) = 0
    BY FS_EmptySet, SumUnfolds
  <2>6. t \cup {y} = {y}
    BY <2>2
  <2>7. QED
    BY <1>0, <2>2, <2>4, <2>5, <2>6
<1>3. ASSUME NEW n \in Good PROVE n + 1 \in Good
  <2>1. SUFFICES ASSUME NEW t \in SUBSET U, NEW y \in U \ t,
                        Cardinality(t) = n + 1
                 PROVE  SumFunctionOnSet(f, t \cup {y})
                            = SumFunctionOnSet(f, t) + f[y]
    OBVIOUS
  <2> DEFINE w == t \cup {y}
             q == Pick(w)
             r == t \ {q}
  <2>2. w \in SUBSET U /\ w # {} /\ IsFiniteSet(w) /\ q \in w
    BY <1>1, PickIsIn
  <2>3. SumFunctionOnSet(f, w) = f[q] + SumFunctionOnSet(f, w \ {q})
    BY <2>2, SumUnfolds
  <2>4. CASE q = y
    <3>1. w \ {q} = t
      BY <2>4
    <3> HIDE DEF q, Good
    <3>2. f[y] \in Nat /\ SumFunctionOnSet(f, t) \in Nat
      BY <1>0, <1>1
    <3>3. SumFunctionOnSet(f, w) = f[y] + SumFunctionOnSet(f, t)
      BY <2>3, <2>4, <3>1
    <3>4. QED
      BY <3>2, <3>3
  <2>5. CASE q # y
    <3>1. q \in t /\ w \ {q} = r \cup {y} /\ r \cup {q} = t
      BY <2>2, <2>5
    <3>2. Cardinality(r) = n
      <4> HIDE DEF q
      <4>1. Cardinality(t \ {q}) = Cardinality(t) - 1
        BY <1>1, <3>1, FS_RemoveElement
      <4>2. QED
        BY <2>1, <4>1
    <3>3. r \in SUBSET U /\ y \in U \ r /\ q \in U \ r
      BY <2>2
    <3> HIDE DEF w, q, r
    <3>4. SumFunctionOnSet(f, r \cup {y}) = SumFunctionOnSet(f, r) + f[y]
      BY <3>2, <3>3
    <3>5. SumFunctionOnSet(f, r \cup {q}) = SumFunctionOnSet(f, r) + f[q]
      BY <3>2, <3>3
    <3>6. f[q] \in Nat /\ f[y] \in Nat /\ SumFunctionOnSet(f, r) \in Nat
      BY <1>0, <1>1, <3>3
    <3> HIDE DEF Good
    <3>7. SumFunctionOnSet(f, w) = f[q] + (SumFunctionOnSet(f, r) + f[y])
      BY <2>3, <3>1, <3>4
    <3>8. SumFunctionOnSet(f, t) = SumFunctionOnSet(f, r) + f[q]
      BY <3>1, <3>5
    <3>9. SumFunctionOnSet(f, w) = SumFunctionOnSet(f, t) + f[y]
      BY <3>6, <3>7, <3>8
    <3>10. QED
      BY <3>9 DEF w
  <2>6. QED
    BY <2>4, <2>5
<1>4. Good = Nat
  <2>1. Good \in SUBSET Nat
    OBVIOUS
  <2> HIDE DEF Good
  <2>2. QED
    BY <1>2, <1>3, <2>1, Induction
<1>5. S \in SUBSET U /\ x \in U \ S
  BY DEF U
<1>6. QED
  BY <1>1, <1>4, <1>5

\* Where f exceeds g, on C, it does so by one at most.
LEMMA SumDrops ==
    ASSUME NEW f, NEW g, NEW S, IsFiniteSet(S), NEW C \in SUBSET S,
           \A x \in S : f[x] \in Nat /\ g[x] \in Nat,
           \A x \in C : f[x] <= g[x] + 1, \A x \in S \ C : f[x] <= g[x]
    PROVE  SumFunctionOnSet(f, S) <= SumFunctionOnSet(g, S) + Cardinality(C)
<1> DEFINE F(T) == SumFunctionOnSet(f, T)
           G(T) == SumFunctionOnSet(g, T)
           P == {T \in SUBSET S : F(T) <= G(T) + Cardinality(T \cap C)}
<1>1. \A T \in SUBSET S : /\ IsFiniteSet(T) /\ IsFiniteSet(T \cap C)
                          /\ Cardinality(T \cap C) \in Nat
  BY FS_Subset, FS_CardinalityType
<1>2. \A T \in SUBSET S : F(T) \in Nat /\ G(T) \in Nat
  BY <1>1, SumType
<1>3. \A T \in SUBSET S : \A x \in S \ T :
          F(T \cup {x}) = F(T) + f[x] /\ G(T \cup {x}) = G(T) + g[x]
  BY <1>1, SumAdds
<1>4. {} \in P
  <2>1. F({}) = 0 /\ G({}) = 0
    BY FS_EmptySet, SumUnfolds
  <2>2. Cardinality({} \cap C) \in Nat
    BY <1>1
  <2>3. QED
    BY <2>1, <2>2
<1> HIDE DEF F, G
<1>5. ASSUME NEW T \in P, NEW x \in S \ T PROVE T \cup {x} \in P
  <2>1. /\ F(T) \in Nat /\ G(T) \in Nat /\ f[x] \in Nat /\ g[x] \in Nat
        /\ Cardinality(T \cap C) \in Nat
        /\ F(T) <= G(T) + Cardinality(T \cap C)
        /\ F(T \cup {x}) = F(T) + f[x] /\ G(T \cup {x}) = G(T) + g[x]
    BY <1>1, <1>2, <1>3
  <2>2. CASE x \in C
    <3>1. (T \cup {x}) \cap C = (T \cap C) \cup {x} /\ x \notin T \cap C
      BY <2>2
    <3>2. Cardinality((T \cup {x}) \cap C) = Cardinality(T \cap C) + 1
      BY <1>1, <3>1, FS_AddElement
    <3>3. f[x] <= g[x] + 1
      BY <2>2
    <3>4. F(T \cup {x}) <= G(T \cup {x}) + Cardinality((T \cup {x}) \cap C)
      BY <2>1, <3>2, <3>3
    <3>5. QED
      BY <3>4
  <2>3. CASE x \notin C
    <3>1. (T \cup {x}) \cap C = T \cap C /\ f[x] <= g[x]
      BY <2>3
    <3>2. F(T \cup {x}) <= G(T \cup {x}) + Cardinality(T \cap C)
      <4>1. f[x] <= g[x]
        BY <3>1
      <4>2. QED
        BY <2>1, <4>1
    <3>3. F(T \cup {x}) <= G(T \cup {x}) + Cardinality((T \cup {x}) \cap C)
      BY <3>1, <3>2
    <3>4. QED
      BY <3>3
  <2>4. QED
    BY <2>2, <2>3
<1>6. P = SUBSET S
  <2>1. P \in SUBSET SUBSET S
    OBVIOUS
  <2> HIDE DEF P
  <2>2. QED
    BY <1>4, <1>5, <2>1, FiniteInduction
<1>7. F(S) <= G(S) + Cardinality(S \cap C) /\ S \cap C = C
  BY <1>6
<1>8. QED
  BY <1>7 DEF F, G

\* Where g exceeds f, on C, it does so by one at least.
LEMMA SumRaises ==
    ASSUME NEW f, NEW g, NEW S, IsFiniteSet(S), NEW C \in SUBSET S,
           \A x \in S : f[x] \in Nat /\ g[x] \in Nat,
           \A x \in C : f[x] + 1 <= g[x], \A x \in S \ C : f[x] <= g[x]
    PROVE  SumFunctionOnSet(f, S) + Cardinality(C) <= SumFunctionOnSet(g, S)
<1> DEFINE F(T) == SumFunctionOnSet(f, T)
           G(T) == SumFunctionOnSet(g, T)
           P == {T \in SUBSET S : F(T) + Cardinality(T \cap C) <= G(T)}
<1>1. \A T \in SUBSET S : /\ IsFiniteSet(T) /\ IsFiniteSet(T \cap C)
                          /\ Cardinality(T \cap C) \in Nat
  BY FS_Subset, FS_CardinalityType
<1>2. \A T \in SUBSET S : F(T) \in Nat /\ G(T) \in Nat
  BY <1>1, SumType
<1>3. \A T \in SUBSET S : \A x \in S \ T :
          F(T \cup {x}) = F(T) + f[x] /\ G(T \cup {x}) = G(T) + g[x]
  BY <1>1, SumAdds
<1>4. {} \in P
  <2>1. F({}) = 0 /\ G({}) = 0
    BY FS_EmptySet, SumUnfolds
  <2>2. {} \cap C = {} /\ Cardinality({}) = 0
    BY FS_EmptySet
  <2>3. F({}) + Cardinality({} \cap C) <= G({})
    BY <2>1, <2>2
  <2>4. QED
    BY <2>3
<1> HIDE DEF F, G
<1>5. ASSUME NEW T \in P, NEW x \in S \ T PROVE T \cup {x} \in P
  <2>1. /\ F(T) \in Nat /\ G(T) \in Nat /\ f[x] \in Nat /\ g[x] \in Nat
        /\ Cardinality(T \cap C) \in Nat
        /\ F(T) + Cardinality(T \cap C) <= G(T)
        /\ F(T \cup {x}) = F(T) + f[x] /\ G(T \cup {x}) = G(T) + g[x]
    BY <1>1, <1>2, <1>3
  <2>2. CASE x \in C
    <3>1. (T \cup {x}) \cap C = (T \cap C) \cup {x} /\ x \notin T \cap C
      BY <2>2
    <3>2. Cardinality((T \cup {x}) \cap C) = Cardinality(T \cap C) + 1
      BY <1>1, <3>1, FS_AddElement
    <3>3. f[x] + 1 <= g[x]
      BY <2>2
    <3>4. F(T \cup {x}) + Cardinality((T \cup {x}) \cap C) <= G(T \cup {x})
      BY <2>1, <3>2, <3>3
    <3>5. QED
      BY <3>4
  <2>3. CASE x \notin C
    <3>1. (T \cup {x}) \cap C = T \cap C /\ f[x] <= g[x]
      BY <2>3
    <3>2. F(T \cup {x}) + Cardinality((T \cup {x}) \cap C) <= G(T \cup {x})
      BY <2>1, <3>1
    <3>3. QED
      BY <3>2
  <2>4. QED
    BY <2>2, <2>3
<1>6. P = SUBSET S
  <2>1. P \in SUBSET SUBSET S
    OBVIOUS
  <2> HIDE DEF P
  <2>2. QED
    BY <1>4, <1>5, <2>1, FiniteInduction
<1>7. F(S) + Cardinality(S \cap C) <= G(S) /\ S \cap C = C
  BY <1>6
<1>8. QED
  BY <1>7 DEF F, G

\* What multiplication has to do with addition and order.
LEMMA Times ==
    \A x, k \in Nat :
        /\ k * x \in Nat /\ 0 * x = 0 /\ (k + 1) * x = k * x + x
        /\ 1 * x = x /\ k * (x + 1) = k * x + k
        /\ \A j \in Nat : j <= k => j * x <= k * x
<1>1. \A x, k \in Nat :
          /\ k * x \in Nat /\ 0 * x = 0 /\ (k + 1) * x = k * x + x
          /\ 1 * x = x /\ k * (x + 1) = k * x + k
  OBVIOUS
<1>2. ASSUME NEW x \in Nat, NEW k \in Nat, NEW j \in Nat, j <= k
      PROVE  j * x <= k * x
  <2>1. k - j \in Nat /\ j + (k - j) = k
    BY <1>2
  <2>2. (j + (k - j)) * x = j * x + (k - j) * x
    BY <2>1
  <2>3. j * x \in Nat /\ (k - j) * x \in Nat
    BY <1>1, <2>1
  <2>4. QED
    BY <2>1, <2>2, <2>3
<1>3. QED
  BY <1>1, <1>2

\* A sum is at most as many times a bound as it has terms that are not 0.
LEMMA SumUpper ==
    ASSUME NEW f, NEW S, IsFiniteSet(S), NEW C \in SUBSET S, NEW k \in Nat,
           \A x \in S : f[x] \in Nat,
           \A x \in C : f[x] <= k, \A x \in S \ C : f[x] = 0
    PROVE  SumFunctionOnSet(f, S) <= Cardinality(C) * k
<1> DEFINE F(T) == SumFunctionOnSet(f, T)
           P == {T \in SUBSET S : F(T) <= Cardinality(T \cap C) * k}
<1>1. \A T \in SUBSET S : /\ IsFiniteSet(T) /\ IsFiniteSet(T \cap C)
                          /\ Cardinality(T \cap C) \in Nat
  BY FS_Subset, FS_CardinalityType
<1>2. \A T \in SUBSET S : F(T) \in Nat
  BY <1>1, SumType
<1>3. \A T \in SUBSET S : \A x \in S \ T : F(T \cup {x}) = F(T) + f[x]
  BY <1>1, SumAdds
<1>4. {} \in P
  <2>1. F({}) = 0
    BY FS_EmptySet, SumUnfolds
  <2>2. {} \cap C = {} /\ Cardinality({}) = 0 /\ 0 * k = 0
    BY FS_EmptySet, Times
  <2>3. F({}) <= Cardinality({} \cap C) * k
    BY <2>1, <2>2
  <2>4. QED
    BY <2>3
<1> HIDE DEF F
<1>5. ASSUME NEW T \in P, NEW x \in S \ T PROVE T \cup {x} \in P
  <2> DEFINE n == Cardinality(T \cap C)
  <2>1. /\ F(T) \in Nat /\ f[x] \in Nat /\ n \in Nat /\ F(T) <= n * k
        /\ F(T \cup {x}) = F(T) + f[x]
    BY <1>1, <1>2, <1>3
  <2>2. CASE x \in C
    <3>1. (T \cup {x}) \cap C = (T \cap C) \cup {x} /\ x \notin T \cap C
      BY <2>2
    <3>2. Cardinality((T \cup {x}) \cap C) = n + 1
      BY <1>1, <3>1, FS_AddElement
    <3>3. f[x] <= k
      BY <2>2
    <3> HIDE DEF n
    <3>4. n * k \in Nat /\ (n + 1) * k = n * k + k
      BY <2>1, Times
    <3>5. F(T \cup {x}) <= (n + 1) * k
      BY <2>1, <3>3, <3>4
    <3>6. F(T \cup {x}) <= Cardinality((T \cup {x}) \cap C) * k
      BY <3>2, <3>5
    <3>7. QED
      BY <3>6
  <2>3. CASE x \notin C
    <3>1. (T \cup {x}) \cap C = T \cap C /\ f[x] = 0
      BY <2>3
    <3>2. F(T \cup {x}) = F(T)
      BY <2>1, <3>1
    <3>3. F(T \cup {x}) <= Cardinality((T \cup {x}) \cap C) * k
      BY <2>1, <3>1, <3>2
    <3>4. QED
      BY <3>3
  <2>4. QED
    BY <2>2, <2>3
<1>6. P = SUBSET S
  <2>1. P \in SUBSET SUBSET S
    OBVIOUS
  <2> HIDE DEF P
  <2>2. QED
    BY <1>4, <1>5, <2>1, FiniteInduction
<1>7. F(S) <= Cardinality(S \cap C) * k /\ S \cap C = C
  BY <1>6
<1>8. QED
  BY <1>7 DEF F

\* A sum is at least as many times a lower bound as it has terms above it.
LEMMA SumLower ==
    ASSUME NEW f, NEW S, IsFiniteSet(S), NEW C \in SUBSET S, NEW k \in Nat,
           \A x \in S : f[x] \in Nat, \A x \in C : k <= f[x]
    PROVE  Cardinality(C) * k <= SumFunctionOnSet(f, S)
<1> DEFINE F(T) == SumFunctionOnSet(f, T)
           P == {T \in SUBSET S : Cardinality(T \cap C) * k <= F(T)}
<1>1. \A T \in SUBSET S : /\ IsFiniteSet(T) /\ IsFiniteSet(T \cap C)
                          /\ Cardinality(T \cap C) \in Nat
  BY FS_Subset, FS_CardinalityType
<1>2. \A T \in SUBSET S : F(T) \in Nat
  BY <1>1, SumType
<1>3. \A T \in SUBSET S : \A x \in S \ T : F(T \cup {x}) = F(T) + f[x]
  BY <1>1, SumAdds
<1>4. {} \in P
  <2>1. F({}) = 0
    BY FS_EmptySet, SumUnfolds
  <2>2. {} \cap C = {} /\ Cardinality({}) = 0 /\ 0 * k = 0
    BY FS_EmptySet, Times
  <2>3. Cardinality({} \cap C) * k <= F({})
    BY <2>1, <2>2
  <2>4. QED
    BY <2>3
<1> HIDE DEF F
<1>5. ASSUME NEW T \in P, NEW x \in S \ T PROVE T \cup {x} \in P
  <2> DEFINE n == Cardinality(T \cap C)
  <2>1. /\ F(T) \in Nat /\ f[x] \in Nat /\ n \in Nat /\ n * k <= F(T)
        /\ F(T \cup {x}) = F(T) + f[x]
    BY <1>1, <1>2, <1>3
  <2>2. CASE x \in C
    <3>1. (T \cup {x}) \cap C = (T \cap C) \cup {x} /\ x \notin T \cap C
      BY <2>2
    <3>2. Cardinality((T \cup {x}) \cap C) = n + 1
      BY <1>1, <3>1, FS_AddElement
    <3>3. k <= f[x]
      BY <2>2
    <3> HIDE DEF n
    <3>4. n * k \in Nat /\ (n + 1) * k = n * k + k
      BY <2>1, Times
    <3>5. (n + 1) * k <= F(T \cup {x})
      BY <2>1, <3>3, <3>4
    <3>6. Cardinality((T \cup {x}) \cap C) * k <= F(T \cup {x})
      BY <3>2, <3>5
    <3>7. QED
      BY <3>6
  <2>3. CASE x \notin C
    <3>1. (T \cup {x}) \cap C = T \cap C
      BY <2>3
    <3> HIDE DEF n
    <3>2. n * k \in Nat
      BY <2>1, Times
    <3>3. n * k <= F(T \cup {x})
      BY <2>1, <3>2
    <3>4. Cardinality((T \cup {x}) \cap C) * k <= F(T \cup {x})
      BY <3>1, <3>3 DEF n
    <3>5. QED
      BY <3>4
  <2>4. QED
    BY <2>2, <2>3
<1>6. P = SUBSET S
  <2>1. P \in SUBSET SUBSET S
    OBVIOUS
  <2> HIDE DEF P
  <2>2. QED
    BY <1>4, <1>5, <2>1, FiniteInduction
<1>7. Cardinality(S \cap C) * k <= F(S) /\ S \cap C = C
  BY <1>6
<1>8. QED
  BY <1>7 DEF F


-----------------------------------------------------------------------------
(* The recursive functions of the simulation exist.                        *)

IsPlaced(g, mode, c, replicas, known, n) ==
    g = [k \in 0..n |->
            IF k = 0 THEN c
            ELSE PlaceComponent(g[k - 1], mode[k], replicas, known)]

LEMMA PlacedExists ==
    \A mode, c, replicas, known : \A n \in Nat :
        \E g : IsPlaced(g, mode, c, replicas, known, n)
<1> SUFFICES ASSUME NEW mode, NEW c, NEW replicas, NEW known
             PROVE  \A n \in Nat :
                        \E g : IsPlaced(g, mode, c, replicas, known, n)
  OBVIOUS
<1> DEFINE Step(g, k) == IF k = 0 THEN c
                         ELSE PlaceComponent(g[k - 1], mode[k], replicas, known)
           Good == {m \in Nat : \E g : g = [k \in 0..m |-> Step(g, k)]}
<1>1. 0 \in Good
  <2> DEFINE g == [k \in 0..0 |-> c]
  <2>1. g = [k \in 0..0 |-> Step(g, k)]
    OBVIOUS
  <2> HIDE DEF g
  <2>2. QED
    BY <2>1
<1>2. ASSUME NEW m \in Good PROVE m + 1 \in Good
  <2>1. PICK g : g = [k \in 0..m |-> Step(g, k)]
    OBVIOUS
  <2> DEFINE h == [k \in 0..(m + 1) |->
                      IF k = m + 1
                      THEN PlaceComponent(g[m], mode[m + 1], replicas, known)
                      ELSE g[k]]
  <2>2. ASSUME NEW k \in 0..(m + 1) PROVE h[k] = Step(h, k)
    <3>1. m \in Nat /\ k \in Nat
      OBVIOUS
    <3>2. CASE k = 0
      BY <2>1, <3>1, <3>2
    <3>3. CASE k # 0
      <4>1. k - 1 \in 0..m /\ k - 1 # m + 1 /\ k - 1 \in 0..(m + 1)
        BY <3>1, <3>3
      <4>2. h[k - 1] = g[k - 1]
        BY <4>1
      <4>3. CASE k = m + 1
        BY <3>1, <3>3, <4>2, <4>3
      <4>4. CASE k # m + 1
        <5>1. k \in 0..m /\ h[k] = g[k]
          BY <3>1, <4>4
        <5>2. g[k] = Step(g, k)
          BY <2>1, <5>1
        <5> HIDE DEF h
        <5>3. QED
          BY <3>3, <4>2, <5>1, <5>2
      <4>5. QED
        BY <4>3, <4>4
    <3>4. QED
      BY <3>2, <3>3
  <2>3. h = [k \in 0..(m + 1) |-> h[k]]
    OBVIOUS
  <2> HIDE DEF h, Step
  <2>4. h = [k \in 0..(m + 1) |-> Step(h, k)]
    BY <2>2, <2>3
  <2>5. m + 1 \in Nat
    OBVIOUS
  <2>6. QED
    BY <2>4, <2>5
<1>3. Good = Nat
  <2>1. Good \in SUBSET Nat
    OBVIOUS
  <2> HIDE DEF Good
  <2>2. QED
    BY <1>1, <1>2, <2>1, Induction
<1>4. QED
  BY <1>3 DEF IsPlaced

\* The states of the cluster while a session is placed.
LEMMA SessionUnfolds ==
    ASSUME NEW mode, Len(mode) \in Nat, NEW c, NEW replicas, NEW known
    PROVE  \E g :
               /\ g[0] = c
               /\ \A k \in 1..Len(mode) :
                      g[k] = PlaceComponent(g[k - 1], mode[k], replicas, known)
               /\ PlaceSession(mode, c, replicas, known) = g[Len(mode)]
<1> DEFINE g == CHOOSE h : IsPlaced(h, mode, c, replicas, known, Len(mode))
<1>1. IsPlaced(g, mode, c, replicas, known, Len(mode))
  BY PlacedExists, Zenon
<1>2. PlaceSession(mode, c, replicas, known) = g[Len(mode)]
  BY DEF PlaceSession, IsPlaced
<1> HIDE DEF g
<1>3. g[0] = c
  BY <1>1 DEF IsPlaced
<1>4. \A k \in 1..Len(mode) :
          g[k] = PlaceComponent(g[k - 1], mode[k], replicas, known)
  BY <1>1 DEF IsPlaced
<1>5. QED
  BY <1>2, <1>3, <1>4

IsPlacing(g, mode, c, replicas, known, D) ==
    g = [k \in D |->
            IF k = 0 THEN c
            ELSE PlaceSession(mode, g[k - 1], replicas, known)]

LEMMA PlacingBegins ==
    \A mode, c, replicas, known : \A n \in Nat :
        \E g : IsPlacing(g, mode, c, replicas, known, 0..n)
<1> SUFFICES ASSUME NEW mode, NEW c, NEW replicas, NEW known
             PROVE  \A n \in Nat :
                        \E g : IsPlacing(g, mode, c, replicas, known, 0..n)
  OBVIOUS
<1> DEFINE Step(g, k) == IF k = 0 THEN c
                         ELSE PlaceSession(mode, g[k - 1], replicas, known)
           Good == {m \in Nat : \E g : g = [k \in 0..m |-> Step(g, k)]}
<1>1. 0 \in Good
  <2> DEFINE g == [k \in 0..0 |-> c]
  <2>1. g = [k \in 0..0 |-> Step(g, k)]
    OBVIOUS
  <2> HIDE DEF g
  <2>2. QED
    BY <2>1
<1>2. ASSUME NEW m \in Good PROVE m + 1 \in Good
  <2>1. PICK g : g = [k \in 0..m |-> Step(g, k)]
    OBVIOUS
  <2> DEFINE h == [k \in 0..(m + 1) |->
                      IF k = m + 1
                      THEN PlaceSession(mode, g[m], replicas, known)
                      ELSE g[k]]
  <2>2. ASSUME NEW k \in 0..(m + 1) PROVE h[k] = Step(h, k)
    <3>1. m \in Nat /\ k \in Nat
      OBVIOUS
    <3>2. CASE k = 0
      BY <2>1, <3>1, <3>2
    <3>3. CASE k # 0
      <4>1. k - 1 \in 0..m /\ k - 1 # m + 1 /\ k - 1 \in 0..(m + 1)
        BY <3>1, <3>3
      <4>2. h[k - 1] = g[k - 1]
        BY <4>1
      <4>3. CASE k = m + 1
        BY <3>1, <3>3, <4>2, <4>3
      <4>4. CASE k # m + 1
        <5>1. k \in 0..m /\ h[k] = g[k]
          BY <3>1, <4>4
        <5>2. g[k] = Step(g, k)
          BY <2>1, <5>1
        <5> HIDE DEF h
        <5>3. QED
          BY <3>3, <4>2, <5>1, <5>2
      <4>5. QED
        BY <4>3, <4>4
    <3>4. QED
      BY <3>2, <3>3
  <2>3. h = [k \in 0..(m + 1) |-> h[k]]
    OBVIOUS
  <2> HIDE DEF h, Step
  <2>4. h = [k \in 0..(m + 1) |-> Step(h, k)]
    BY <2>2, <2>3
  <2>5. m + 1 \in Nat
    OBVIOUS
  <2>6. QED
    BY <2>4, <2>5
<1>3. Good = Nat
  <2>1. Good \in SUBSET Nat
    OBVIOUS
  <2> HIDE DEF Good
  <2>2. QED
    BY <1>1, <1>2, <2>1, Induction
<1>4. QED
  BY <1>3 DEF IsPlacing

\* Two beginnings of a placing agree.
LEMMA PlacingAgrees ==
    \A mode, c, replicas, known, g, h : \A n, m, k \in Nat :
        /\ IsPlacing(g, mode, c, replicas, known, 0..n)
        /\ IsPlacing(h, mode, c, replicas, known, 0..m)
        /\ k <= n /\ k <= m
        => g[k] = h[k]
<1> SUFFICES ASSUME NEW mode, NEW c, NEW replicas, NEW known, NEW g, NEW h,
                    NEW n \in Nat, NEW m \in Nat,
                    IsPlacing(g, mode, c, replicas, known, 0..n),
                    IsPlacing(h, mode, c, replicas, known, 0..m)
             PROVE  \A k \in Nat : k <= n /\ k <= m => g[k] = h[k]
  OBVIOUS
<1> DEFINE Good == {k \in Nat : k <= n /\ k <= m => g[k] = h[k]}
<1>1. 0 \in Good
  BY DEF IsPlacing
<1>2. ASSUME NEW k \in Good PROVE k + 1 \in Good
  <2>1. CASE k + 1 <= n /\ k + 1 <= m
    <3>1. /\ k \in Nat /\ k + 1 \in 0..n /\ k + 1 \in 0..m /\ k + 1 # 0
          /\ (k + 1) - 1 = k /\ g[k] = h[k]
      BY <2>1
    <3>2. g[k + 1] = PlaceSession(mode, g[k], replicas, known)
      BY <3>1 DEF IsPlacing
    <3>3. h[k + 1] = PlaceSession(mode, h[k], replicas, known)
      BY <3>1 DEF IsPlacing
    <3>4. QED
      BY <3>1, <3>2, <3>3
  <2>2. CASE ~(k + 1 <= n /\ k + 1 <= m)
    BY <2>2
  <2>3. QED
    BY <2>1, <2>2
<1>3. Good = Nat
  <2>1. Good \in SUBSET Nat
    OBVIOUS
  <2> HIDE DEF Good
  <2>2. QED
    BY <1>1, <1>2, <2>1, Induction
<1>4. QED
  BY <1>3

LEMMA PlacingExists ==
    \A mode, c, replicas, known :
        \E g : IsPlacing(g, mode, c, replicas, known, Nat)
<1> SUFFICES ASSUME NEW mode, NEW c, NEW replicas, NEW known
             PROVE  \E g : IsPlacing(g, mode, c, replicas, known, Nat)
  OBVIOUS
<1> DEFINE B(n) == CHOOSE b : IsPlacing(b, mode, c, replicas, known, 0..n)
           g == [k \in Nat |-> B(k)[k]]
<1>1. \A n \in Nat : IsPlacing(B(n), mode, c, replicas, known, 0..n)
  BY PlacingBegins, Zenon
<1> HIDE DEF B
<1>2. ASSUME NEW k \in Nat
      PROVE  g[k] = IF k = 0 THEN c
                    ELSE PlaceSession(mode, g[k - 1], replicas, known)
  <2>1. CASE k = 0
    <3>1. IsPlacing(B(0), mode, c, replicas, known, 0..0)
      BY <1>1
    <3>2. QED
      BY <2>1, <3>1 DEF IsPlacing
  <2>2. CASE k # 0
    <3>1. k - 1 \in Nat /\ k - 1 <= k /\ k - 1 <= k - 1 /\ k \in 0..k
      BY <2>2
    <3>2. IsPlacing(B(k), mode, c, replicas, known, 0..k)
      BY <1>1
    <3>3. IsPlacing(B(k - 1), mode, c, replicas, known, 0..(k - 1))
      BY <1>1, <3>1
    <3>4. B(k)[k] = PlaceSession(mode, B(k)[k - 1], replicas, known)
      BY <2>2, <3>1, <3>2 DEF IsPlacing
    <3>5. B(k)[k - 1] = B(k - 1)[k - 1]
      BY <3>1, <3>2, <3>3, PlacingAgrees
    <3>6. g[k] = B(k)[k] /\ g[k - 1] = B(k - 1)[k - 1]
      BY <3>1
    <3> HIDE DEF g
    <3>7. QED
      BY <2>2, <3>4, <3>5, <3>6
  <2>3. QED
    BY <2>1, <2>2
<1>3. g = [k \in Nat |-> g[k]]
  OBVIOUS
<1> HIDE DEF g
<1>4. g = [k \in Nat |-> IF k = 0 THEN c
                         ELSE PlaceSession(mode, g[k - 1], replicas, known)]
  BY <1>2, <1>3
<1>5. QED
  BY <1>4 DEF IsPlacing

\* What is left after no session, and after one more.
LEMMA PlacingUnfolds ==
    ASSUME NEW mode, NEW c, NEW replicas, NEW known
    PROVE  /\ Placing(mode, c, replicas, known)[0] = c
           /\ \A k \in Nat :
                  Placing(mode, c, replicas, known)[k + 1] =
                      PlaceSession(mode, Placing(mode, c, replicas, known)[k],
                                   replicas, known)
<1> DEFINE left == CHOOSE g : IsPlacing(g, mode, c, replicas, known, Nat)
<1>1. IsPlacing(left, mode, c, replicas, known, Nat)
  BY PlacingExists, Zenon
<1>2. Placing(mode, c, replicas, known) = left
  BY Zenon DEF Placing, IsPlacing
<1> HIDE DEF left
<1>3. left[0] = c
  BY <1>1 DEF IsPlacing
<1>4. ASSUME NEW k \in Nat
      PROVE  left[k + 1] = PlaceSession(mode, left[k], replicas, known)
  <2>1. k + 1 \in Nat /\ k + 1 # 0 /\ (k + 1) - 1 = k
    OBVIOUS
  <2>2. QED
    BY <1>1, <2>1 DEF IsPlacing
<1>5. QED
  BY <1>2, <1>3, <1>4

-----------------------------------------------------------------------------
(* Worst-fit choices.                                                      *)

\* Of two numbers exactly one comes first, and coming first is transitive.
LEMMA AheadOrders ==
    ASSUME NEW S \in SUBSET Nat, NEW free, \A i \in S : free[i] \in Nat
    PROVE  /\ \A i \in S : ~Ahead(free, i, i)
           /\ \A i, j \in S : i # j => Ahead(free, i, j) \/ Ahead(free, j, i)
           /\ \A i, j, k \in S : Ahead(free, i, j) /\ Ahead(free, j, k)
                                 => Ahead(free, i, k)
BY DEF Ahead

\* Every nonempty choice has one that comes before the others.
LEMMA BestExists ==
    ASSUME NEW S \in SUBSET Nat, IsFiniteSet(S), NEW free,
           \A i \in S : free[i] \in Nat
    PROVE  \A T \in SUBSET S :
               T # {} => \E b \in T : \A j \in T \ {b} : Ahead(free, b, j)
<1> DEFINE P == {T \in SUBSET S : T # {} =>
                    \E b \in T : \A j \in T \ {b} : Ahead(free, b, j)}
<1>1. {} \in P
  OBVIOUS
<1>2. ASSUME NEW T \in P, NEW x \in S \ T PROVE T \cup {x} \in P
  <2>1. CASE T = {}
    BY <2>1
  <2>2. CASE T # {}
    <3>1. PICK b \in T : \A j \in T \ {b} : Ahead(free, b, j)
      BY <2>2
    <3>2. b \in S /\ x \in S /\ b # x
      BY <3>1
    <3>3. CASE Ahead(free, b, x)
      BY <3>1, <3>3
    <3>4. CASE Ahead(free, x, b)
      <4>1. \A j \in T : Ahead(free, x, j)
        BY <3>1, <3>2, <3>4, AheadOrders
      <4>2. QED
        BY <4>1
    <3>5. QED
      BY <3>2, <3>3, <3>4, AheadOrders
  <2>3. QED
    BY <2>1, <2>2
<1>3. P = SUBSET S
  <2>1. P \in SUBSET SUBSET S
    OBVIOUS
  <2> HIDE DEF P
  <2>2. QED
    BY <1>1, <1>2, <2>1, FiniteInduction
<1>4. QED
  BY <1>3

\* Those of S that fewer than r of S come before.
Front(S, free, r) ==
    {i \in S : Cardinality({j \in S : Ahead(free, j, i)}) < r}

\* The front has r members, if there are as many, and comes before the rest.
LEMMA FrontIsExact ==
    ASSUME NEW S \in SUBSET Nat, IsFiniteSet(S), NEW free,
           \A i \in S : free[i] \in Nat
    PROVE  \A r \in Nat :
               /\ r <= Cardinality(S) => Cardinality(Front(S, free, r)) = r
               /\ \A i \in Front(S, free, r) : \A j \in S \ Front(S, free, r) :
                      Ahead(free, i, j)
<1> DEFINE Before(i) == {j \in S : Ahead(free, j, i)}
<1>1. \A T \in SUBSET S : IsFiniteSet(T) /\ Cardinality(T) \in Nat
  BY FS_Subset, FS_CardinalityType
<1>2. \A i \in S : Before(i) \in SUBSET S
  OBVIOUS
<1>3. \A T, U \in SUBSET S : T \subseteq U => Cardinality(T) <= Cardinality(U)
  BY <1>1, FS_Subset
<1>4. \A i, j \in S : Ahead(free, i, j) =>
          Cardinality(Before(i)) + 1 <= Cardinality(Before(j))
  <2>1. SUFFICES ASSUME NEW i \in S, NEW j \in S, Ahead(free, i, j)
                 PROVE  Cardinality(Before(i)) + 1 <= Cardinality(Before(j))
    OBVIOUS
  <2>2. i \notin Before(i) /\ Before(i) \cup {i} \subseteq Before(j)
    BY <2>1, AheadOrders
  <2>3. Before(i) \in SUBSET S /\ Before(j) \in SUBSET S
        /\ Before(i) \cup {i} \in SUBSET S
    BY <1>2
  <2> HIDE DEF Before
  <2>4. Cardinality(Before(i) \cup {i}) = Cardinality(Before(i)) + 1
    BY <1>1, <2>2, <2>3, FS_AddElement
  <2>5. QED
    BY <1>1, <1>3, <2>2, <2>3, <2>4
<1>5. ASSUME NEW r \in Nat, NEW i \in Front(S, free, r),
             NEW j \in S \ Front(S, free, r)
      PROVE  Ahead(free, i, j)
  <2>1. /\ i \in S /\ j \in S /\ i # j
        /\ Cardinality(Before(i)) < r /\ ~(Cardinality(Before(j)) < r)
    BY DEF Front
  <2>2. Cardinality(Before(i)) \in Nat /\ Cardinality(Before(j)) \in Nat
    BY <1>1, <2>1
  <2> HIDE DEF Before
  <2>3. QED
    BY <1>4, <2>1, <2>2, AheadOrders
<1> DEFINE F(r) == Front(S, free, r)
           Good == {r \in Nat : r <= Cardinality(S) => Cardinality(F(r)) = r}
<1>6. 0 \in Good
  <2>1. F(0) = {}
    BY <1>1, <1>2 DEF Front
  <2>2. QED
    BY <2>1, FS_EmptySet
<1>7. ASSUME NEW r \in Good PROVE r + 1 \in Good
  <2>1. SUFFICES ASSUME r + 1 <= Cardinality(S)
                 PROVE  Cardinality(F(r + 1)) = r + 1
    OBVIOUS
  <2>2. r \in Nat /\ Cardinality(S) \in Nat
    BY <1>1
  <2>3. F(r) \in SUBSET S
    BY DEF Front
  <2>4. Cardinality(F(r)) = r
    BY <2>1, <2>2
  <2>5. S \ F(r) # {}
    BY <2>1, <2>2, <2>3, <2>4
  <2>6. PICK b \in S \ F(r) : \A j \in (S \ F(r)) \ {b} : Ahead(free, b, j)
    BY <2>5, BestExists
  <2>7. Before(b) = F(r)
    <3>1. \A j \in Before(b) : j \in F(r)
      BY <2>6, AheadOrders
    <3>2. \A j \in F(r) : j \in Before(b)
      BY <1>5, <2>2, <2>3, <2>6
    <3>3. QED
      BY <2>3, <3>1, <3>2
  <2>8. \A i \in F(r) : i \in F(r + 1)
    <3>1. SUFFICES ASSUME NEW i \in F(r) PROVE i \in F(r + 1)
      OBVIOUS
    <3>2. i \in S /\ Cardinality(Before(i)) < r
      BY DEF Front
    <3>3. Cardinality(Before(i)) \in Nat
      BY <1>1, <3>2
    <3>4. Cardinality(Before(i)) < r + 1
      BY <2>2, <3>2, <3>3
    <3>5. QED
      BY <3>2, <3>4 DEF Front
  <2>9. b \in F(r + 1)
    <3>1. Cardinality(Before(b)) < r + 1 /\ b \in S
      BY <2>2, <2>4, <2>7
    <3>2. QED
      BY <3>1 DEF Front
  <2>10. \A j \in S \ F(r) : j # b => j \notin F(r + 1)
    <3>1. SUFFICES ASSUME NEW j \in S \ F(r), j # b
                   PROVE  j \notin F(r + 1)
      OBVIOUS
    <3>2. Cardinality(Before(b)) + 1 <= Cardinality(Before(j))
      <4> HIDE DEF Before, F
      <4>1. QED
        BY <1>4, <2>6, <3>1
    <3>3. Cardinality(Before(j)) \in Nat
      BY <1>1
    <3>4. ~(Cardinality(Before(j)) < r + 1)
      <4> HIDE DEF Before, F
      <4>1. QED
        BY <2>2, <2>4, <2>7, <3>2, <3>3
    <3>5. QED
      BY <3>4 DEF Front
  <2>11. F(r + 1) = F(r) \cup {b}
    <3>1. F(r + 1) \subseteq S
      BY DEF Front
    <3> HIDE DEF F
    <3>2. QED
      BY <2>3, <2>6, <2>8, <2>9, <2>10, <3>1
  <2> HIDE DEF F
  <2>12. Cardinality(F(r) \cup {b}) = Cardinality(F(r)) + 1
    BY <1>1, <2>3, <2>6, FS_AddElement
  <2>13. QED
    BY <2>4, <2>11, <2>12
<1>8. Good = Nat
  <2>1. Good \in SUBSET Nat
    OBVIOUS
  <2> HIDE DEF Good
  <2>2. QED
    BY <1>6, <1>7, <2>1, Induction
<1>9. QED
  BY <1>5, <1>8

-----------------------------------------------------------------------------
(* One placement.                                                          *)

Component == [cpu : Nat, mem : Nat, disk : Nat]

\* A cluster, or what is left of one, with the nodes N and the disks D.
IsLeft(c, N, D) ==
    /\ c = [nodes |-> c.nodes, disks |-> c.disks, ok |-> c.ok]
    /\ c.nodes \in [N -> [cpu : Nat, mem : Nat]]
    /\ c.disks \in [D -> Nat]
    /\ c.ok \in BOOLEAN

Numbers(S) == IsFiniteSet(S) /\ S \in SUBSET Nat

LEMMA ClusterIsLeft ==
    ASSUME NEW c, IsCluster(c)
    PROVE  /\ IsLeft(c, DOMAIN c.nodes, DOMAIN c.disks) /\ c.ok
           /\ Numbers(DOMAIN c.nodes) /\ Numbers(DOMAIN c.disks)
<1>1. /\ c = [nodes |-> c.nodes, disks |-> c.disks, ok |-> TRUE]
      /\ c.nodes \in [DOMAIN c.nodes -> [cpu : Nat, mem : Nat]]
      /\ c.disks \in [DOMAIN c.disks -> Nat]
  BY DEF IsCluster
<1>2. c.ok = TRUE
  BY <1>1
<1>3. Numbers(DOMAIN c.nodes) /\ Numbers(DOMAIN c.disks)
  BY DEF IsCluster, Numbers
<1>4. QED
  BY <1>1, <1>2, <1>3 DEF IsLeft

LEMMA LeftIsCluster ==
    ASSUME NEW c, NEW N, NEW D, IsLeft(c, N, D), Numbers(N), Numbers(D), c.ok
    PROVE  IsCluster(c)
<1>1. DOMAIN c.nodes = N /\ DOMAIN c.disks = D
  BY DEF IsLeft
<1>2. \A S \in {N, D} : IsFiniteSet(S) /\ S \subseteq Nat
  BY DEF Numbers
<1>3. c = [nodes |-> c.nodes, disks |-> c.disks, ok |-> TRUE]
  BY DEF IsLeft
<1>4. QED
  BY <1>1, <1>2, <1>3 DEF IsLeft, IsCluster

Failed(c) == [nodes |-> c.nodes, disks |-> c.disks, ok |-> FALSE]

LEMMA FailedIs ==
    ASSUME NEW N, NEW D, NEW c, IsLeft(c, N, D)
    PROVE  [c EXCEPT !.ok = FALSE] = Failed(c)
<1>1. c = [nodes |-> c.nodes, disks |-> c.disks, ok |-> c.ok]
  BY DEF IsLeft
<1>2. \A b : [c EXCEPT !.ok = b]
                = [nodes |-> c.nodes, disks |-> c.disks, ok |-> b]
  BY <1>1
<1>3. QED
  BY <1>2, Zenon DEF Failed

Taken(c, b, comp) ==
    [i \in DOMAIN c.nodes |->
        IF i = b THEN [cpu |-> c.nodes[b].cpu - comp.cpu,
                       mem |-> c.nodes[b].mem - comp.mem]
        ELSE c.nodes[i]]

\* A Pod goes to one node that has room for it, unless there is none.
LEMMA PodPlaced ==
    ASSUME NEW N, Numbers(N), NEW D, NEW c, IsLeft(c, N, D),
           NEW comp \in Component
    PROVE  \/ /\ \A i \in N : ~(/\ c.nodes[i].cpu >= comp.cpu
                                /\ c.nodes[i].mem >= comp.mem)
              /\ PlacePod(c, comp) = Failed(c)
           \/ \E b \in N :
                  /\ c.nodes[b].cpu >= comp.cpu /\ c.nodes[b].mem >= comp.mem
                  /\ PlacePod(c, comp) = [nodes |-> Taken(c, b, comp),
                                          disks |-> c.disks, ok |-> c.ok]
<1> DEFINE mem == [i \in DOMAIN c.nodes |-> c.nodes[i].mem]
           fits == {i \in DOMAIN c.nodes : /\ c.nodes[i].cpu >= comp.cpu
                                           /\ mem[i] >= comp.mem}
           best == CHOOSE i \in fits : \A j \in fits \ {i} : Ahead(mem, i, j)
<1>1. DOMAIN c.nodes = N /\ \A i \in N : mem[i] \in Nat /\ mem[i] = c.nodes[i].mem
  BY DEF IsLeft
<1>2. CASE fits = {}
  <2>1. PlacePod(c, comp) = [c EXCEPT !.ok = FALSE]
    BY <1>2, Zenon DEF PlacePod
  <2>2. PlacePod(c, comp) = Failed(c)
    BY <2>1, FailedIs, Zenon
  <2>3. QED
    BY <1>1, <1>2, <2>2
<1>3. CASE fits # {}
  <2>1. \E i \in fits : \A j \in fits \ {i} : Ahead(mem, i, j)
    <3>1. fits \in SUBSET N
      BY <1>1
    <3> HIDE DEF fits, mem
    <3>2. QED
      BY <1>1, <1>3, <3>1, BestExists DEF Numbers
  <2>2. best \in fits
    BY <2>1, Zenon
  <2>3. PlacePod(c, comp) = [c EXCEPT !.nodes[best] =
                                [cpu |-> @.cpu - comp.cpu,
                                 mem |-> @.mem - comp.mem]]
    BY <1>3, Zenon DEF PlacePod
  <2> HIDE DEF best
  <2>4. best \in N /\ c.nodes[best].cpu >= comp.cpu /\ c.nodes[best].mem >= comp.mem
    BY <1>1, <2>2
  <2> HIDE DEF fits, mem
  <2>5. [c EXCEPT !.nodes[best] = [cpu |-> @.cpu - comp.cpu,
                                   mem |-> @.mem - comp.mem]]
            = [nodes |-> Taken(c, best, comp), disks |-> c.disks, ok |-> c.ok]
    BY <1>1, <2>4 DEF IsLeft, Taken
  <2>6. QED
    BY <2>3, <2>4, <2>5
<1>4. QED
  BY <1>2, <1>3

Roomy(c, size, D) == {i \in D : c.disks[i] >= size}

\* A worst-fit choice C of r disks.
IsWorstFit(C, c, size, r, D) ==
    /\ C \in SUBSET D /\ Cardinality(C) = r
    /\ \A i \in C : c.disks[i] >= size
    /\ \A i \in C : \A j \in Roomy(c, size, D) \ C : c.disks[i] >= c.disks[j]

Spread(c, C, size) ==
    [i \in DOMAIN c.disks |-> IF i \in C THEN c.disks[i] - size ELSE c.disks[i]]

\* A volume goes to the fitting disks with most room, unless too few fit.
LEMMA VolumePlaced ==
    ASSUME NEW N, NEW D, Numbers(D), NEW c, IsLeft(c, N, D),
           NEW size \in Nat, NEW r \in Nat
    PROVE  \/ /\ Cardinality(Roomy(c, size, D)) < r
              /\ PlaceVolume(c, size, r) = Failed(c)
           \/ \E C :
                  /\ IsWorstFit(C, c, size, r, D)
                  /\ PlaceVolume(c, size, r) =
                         [nodes |-> c.nodes, disks |-> Spread(c, C, size),
                          ok |-> c.ok]
<1> DEFINE fits == {i \in D : c.disks[i] >= size}
           chosen == Front(fits, c.disks, r)
<1>1. DOMAIN c.disks = D /\ \A i \in D : c.disks[i] \in Nat
  BY DEF IsLeft
<1>2. fits \in SUBSET Nat /\ IsFiniteSet(fits) /\ Cardinality(fits) \in Nat
  BY FS_Subset, FS_CardinalityType DEF Numbers
<1>3. chosen \in SUBSET fits
  BY DEF Front
<1>4. /\ IsFiniteSet(chosen) /\ Cardinality(chosen) \in Nat
      /\ Cardinality(chosen) <= Cardinality(fits)
  BY <1>2, <1>3, FS_Subset, FS_CardinalityType
<1>5. PlaceVolume(c, size, r) =
          IF Cardinality(chosen) < r THEN Failed(c)
          ELSE [nodes |-> c.nodes, disks |-> Spread(c, chosen, size),
                ok |-> c.ok]
  <2>1. PlaceVolume(c, size, r) =
            IF Cardinality(chosen) < r THEN [c EXCEPT !.ok = FALSE]
            ELSE [c EXCEPT !.disks = [i \in DOMAIN @ |->
                      IF i \in chosen THEN @[i] - size ELSE @[i]]]
    BY <1>1, Zenon DEF PlaceVolume, Front
  <2> HIDE DEF chosen, fits
  <2>2. [c EXCEPT !.disks = [i \in DOMAIN @ |->
                      IF i \in chosen THEN @[i] - size ELSE @[i]]]
            = [nodes |-> c.nodes, disks |-> Spread(c, chosen, size),
               ok |-> c.ok]
    BY DEF IsLeft, Spread
  <2>3. [c EXCEPT !.ok = FALSE] = Failed(c)
    BY FailedIs
  <2>4. QED
    BY <2>1, <2>2, <2>3, Zenon
<1>6. /\ r <= Cardinality(fits) => Cardinality(chosen) = r
      /\ \A i \in chosen : \A j \in fits \ chosen : Ahead(c.disks, i, j)
  BY <1>1, <1>2, FrontIsExact
<1>7. \A i \in chosen : \A j \in fits \ chosen : c.disks[i] >= c.disks[j]
  BY <1>1, <1>3, <1>6 DEF Ahead
<1>8. Roomy(c, size, D) = fits
  BY DEF Roomy
<1>9. \A i \in chosen : c.disks[i] >= size
  BY <1>3
<1> HIDE DEF chosen
<1>10. CASE Cardinality(fits) < r
  <2>1. Cardinality(chosen) < r
    BY <1>2, <1>4, <1>10
  <2> HIDE DEF fits
  <2>2. QED
    BY <1>5, <1>8, <1>10, <2>1
<1>11. CASE ~(Cardinality(fits) < r)
  <2>1. Cardinality(chosen) = r
    BY <1>2, <1>6, <1>11
  <2>2. chosen \in SUBSET D
    BY <1>3
  <2> HIDE DEF fits
  <2>3. IsWorstFit(chosen, c, size, r, D)
    BY <1>7, <1>8, <1>9, <2>1, <2>2 DEF IsWorstFit
  <2>4. PlaceVolume(c, size, r) =
            [nodes |-> c.nodes, disks |-> Spread(c, chosen, size),
             ok |-> c.ok]
    BY <1>5, <2>1
  <2>5. QED
    BY <2>3, <2>4
<1>12. QED
  BY <1>10, <1>11

Below(e, c, N, D) ==
    /\ \A i \in N : /\ e.nodes[i].cpu <= c.nodes[i].cpu
                    /\ e.nodes[i].mem <= c.nodes[i].mem
    /\ \A i \in D : e.disks[i] <= c.disks[i]

LEMMA BelowComposes ==
    ASSUME NEW N, NEW D, NEW c, NEW e, NEW d,
           IsLeft(c, N, D), IsLeft(e, N, D), IsLeft(d, N, D)
    PROVE  /\ Below(c, c, N, D)
           /\ Below(d, e, N, D) /\ Below(e, c, N, D) => Below(d, c, N, D)
<1>1. \A x \in {c, e, d} : /\ \A i \in N : x.nodes[i].cpu \in Nat /\ x.nodes[i].mem \in Nat
                           /\ \A i \in D : x.disks[i] \in Nat
  BY DEF IsLeft
<1>2. \A i \in N : /\ c.nodes[i].cpu \in Nat /\ c.nodes[i].mem \in Nat
                   /\ e.nodes[i].cpu \in Nat /\ e.nodes[i].mem \in Nat
                   /\ d.nodes[i].cpu \in Nat /\ d.nodes[i].mem \in Nat
  BY <1>1
<1>3. \A i \in D : c.disks[i] \in Nat /\ e.disks[i] \in Nat /\ d.disks[i] \in Nat
  BY <1>1
<1>4. QED
  BY <1>2, <1>3 DEF Below

HasRoom(c, i, comp) ==
    c.nodes[i].cpu >= comp.cpu /\ c.nodes[i].mem >= comp.mem

LEMMA TakenIsLeft ==
    ASSUME NEW N, NEW D, NEW c, IsLeft(c, N, D), NEW comp \in Component,
           NEW b \in N, HasRoom(c, b, comp), NEW e,
           e = [nodes |-> Taken(c, b, comp), disks |-> c.disks, ok |-> c.ok]
    PROVE  IsLeft(e, N, D) /\ Below(e, c, N, D)
<1>1. DOMAIN c.nodes = N
      /\ \A i \in N : /\ c.nodes[i] \in [cpu : Nat, mem : Nat]
                      /\ c.nodes[i].cpu \in Nat /\ c.nodes[i].mem \in Nat
  BY DEF IsLeft
<1>2. /\ c.nodes[b].cpu - comp.cpu \in Nat /\ c.nodes[b].cpu - comp.cpu <= c.nodes[b].cpu
      /\ c.nodes[b].mem - comp.mem \in Nat /\ c.nodes[b].mem - comp.mem <= c.nodes[b].mem
  BY <1>1 DEF HasRoom, Component
<1>3. Taken(c, b, comp) \in [N -> [cpu : Nat, mem : Nat]]
  BY <1>1, <1>2 DEF Taken
<1>4. \A i \in N : /\ Taken(c, b, comp)[i].cpu <= c.nodes[i].cpu
                   /\ Taken(c, b, comp)[i].mem <= c.nodes[i].mem
  BY <1>1, <1>2 DEF Taken
<1>5. /\ e.nodes = Taken(c, b, comp) /\ e.disks = c.disks /\ e.ok = c.ok
      /\ e = [nodes |-> e.nodes, disks |-> e.disks, ok |-> e.ok]
  OBVIOUS
<1>6. \A i \in D : c.disks[i] \in Nat
  BY DEF IsLeft
<1>7. Below(e, c, N, D)
  BY <1>4, <1>5, <1>6 DEF Below
<1>8. IsLeft(e, N, D)
  BY <1>3, <1>5 DEF IsLeft
<1>9. QED
  BY <1>7, <1>8

LEMMA SpreadIsLeft ==
    ASSUME NEW N, NEW D, NEW c, IsLeft(c, N, D), NEW size \in Nat,
           NEW C, \A i \in C : c.disks[i] >= size, NEW e,
           e = [nodes |-> c.nodes, disks |-> Spread(c, C, size), ok |-> c.ok]
    PROVE  IsLeft(e, N, D) /\ Below(e, c, N, D)
<1>1. DOMAIN c.disks = D /\ \A i \in D : c.disks[i] \in Nat
  BY DEF IsLeft
<1>2. Spread(c, C, size) \in [D -> Nat]
  BY <1>1 DEF Spread
<1>3. \A i \in D : Spread(c, C, size)[i] <= c.disks[i]
  BY <1>1 DEF Spread
<1>4. /\ e.nodes = c.nodes /\ e.disks = Spread(c, C, size) /\ e.ok = c.ok
      /\ e = [nodes |-> e.nodes, disks |-> e.disks, ok |-> e.ok]
  OBVIOUS
<1>5. \A i \in N : c.nodes[i].cpu \in Nat /\ c.nodes[i].mem \in Nat
  BY DEF IsLeft
<1>6. Below(e, c, N, D)
  BY <1>3, <1>4, <1>5 DEF Below
<1>7. IsLeft(e, N, D)
  BY <1>2, <1>4 DEF IsLeft
<1>8. QED
  BY <1>6, <1>7

LEMMA FailedIsLeft ==
    ASSUME NEW N, NEW D, NEW c, IsLeft(c, N, D)
    PROVE  IsLeft(Failed(c), N, D) /\ Below(Failed(c), c, N, D)
<1>1. /\ \A i \in N : c.nodes[i].cpu \in Nat /\ c.nodes[i].mem \in Nat
      /\ \A i \in D : c.disks[i] \in Nat
  BY DEF IsLeft
<1>2. /\ Failed(c).nodes = c.nodes /\ Failed(c).disks = c.disks
      /\ Failed(c).ok = FALSE
      /\ Failed(c) = [nodes |-> c.nodes, disks |-> c.disks, ok |-> FALSE]
  BY DEF Failed
<1>3. QED
  BY <1>1, <1>2 DEF IsLeft, Below

\* What placing a component leaves, and when it is not placed.
Placed(e, c, comp, r, known, N, D) ==
    /\ IsLeft(e, N, D) /\ Below(e, c, N, D) /\ (e.ok => c.ok)
    /\ e.ok => \E b \in N :
                   /\ HasRoom(c, b, comp) /\ e.nodes = Taken(c, b, comp)
                   /\ IF known /\ comp.disk > 0
                      THEN \E C : /\ IsWorstFit(C, c, comp.disk, r, D)
                                  /\ e.disks = Spread(c, C, comp.disk)
                      ELSE e.disks = c.disks
    /\ (c.ok /\ ~e.ok) =>
           \/ \A i \in N : ~HasRoom(c, i, comp)
           \/ /\ known /\ comp.disk > 0
              /\ Cardinality(Roomy(c, comp.disk, D)) < r

LEMMA ComponentPlaced ==
    ASSUME NEW N, Numbers(N), NEW D, Numbers(D), NEW c, IsLeft(c, N, D),
           NEW comp \in Component, NEW r \in Nat, NEW known
    PROVE  Placed(PlaceComponent(c, comp, r, known), c, comp, r, known, N, D)
<1> DEFINE pod == PlacePod(c, comp)
           e == PlaceComponent(c, comp, r, known)
<1>1. /\ c.ok \in BOOLEAN /\ Failed(c).ok = FALSE
      /\ IsLeft(Failed(c), N, D) /\ Below(Failed(c), c, N, D)
  BY FailedIsLeft DEF IsLeft, Failed
<1>2. [c EXCEPT !.ok = FALSE] = Failed(c)
  BY FailedIs
<1>3. e = IF ~c.ok \/ ~pod.ok THEN Failed(c)
          ELSE IF known /\ comp.disk > 0 THEN PlaceVolume(pod, comp.disk, r)
               ELSE pod
  BY <1>2, Zenon DEF PlaceComponent
<1> SUFFICES Placed(e, c, comp, r, known, N, D)
  OBVIOUS
<1> HIDE DEF e, pod
<1>4. CASE ~c.ok
  <2>1. e = Failed(c)
    BY <1>3, <1>4
  <2>2. IsLeft(e, N, D) /\ Below(e, c, N, D) /\ ~e.ok
    BY <1>1, <2>1
  <2>3. QED
    BY <1>4, <2>2 DEF Placed
<1>5. CASE c.ok /\ pod = Failed(c) /\ \A i \in N : ~HasRoom(c, i, comp)
  <2>1. e = Failed(c)
    BY <1>1, <1>3, <1>5
  <2>2. IsLeft(e, N, D) /\ Below(e, c, N, D) /\ ~e.ok
    BY <1>1, <2>1
  <2>3. QED
    BY <1>5, <2>2 DEF Placed
<1>6. CASE c.ok /\ \E b \in N :
             /\ HasRoom(c, b, comp)
             /\ pod = [nodes |-> Taken(c, b, comp), disks |-> c.disks,
                       ok |-> c.ok]
  <2>0. PICK b \in N :
             /\ HasRoom(c, b, comp)
             /\ pod = [nodes |-> Taken(c, b, comp), disks |-> c.disks,
                       ok |-> c.ok]
    BY <1>6
  <2>1. IsLeft(pod, N, D) /\ Below(pod, c, N, D)
    BY <2>0, TakenIsLeft
  <2>2. pod.ok = c.ok /\ pod.nodes = Taken(c, b, comp) /\ pod.disks = c.disks
    BY <2>0
  <2>3. CASE ~(known /\ comp.disk > 0)
    <3>1. e = pod
      BY <1>3, <1>6, <2>2, <2>3
    <3>2. QED
      BY <1>6, <2>0, <2>1, <2>2, <2>3, <3>1 DEF Placed
  <2>4. CASE known /\ comp.disk > 0
    <3>1. e = PlaceVolume(pod, comp.disk, r)
      BY <1>3, <1>6, <2>2, <2>4
    <3>2. comp.disk \in Nat
      BY DEF Component
    <3>3. Roomy(pod, comp.disk, D) = Roomy(c, comp.disk, D)
      BY <2>2 DEF Roomy
    <3>4. \/ /\ Cardinality(Roomy(pod, comp.disk, D)) < r
             /\ e = Failed(pod)
          \/ \E C : /\ IsWorstFit(C, pod, comp.disk, r, D)
                    /\ e = [nodes |-> pod.nodes,
                            disks |-> Spread(pod, C, comp.disk), ok |-> pod.ok]
      BY <2>1, <3>1, <3>2, VolumePlaced
    <3>5. CASE Cardinality(Roomy(pod, comp.disk, D)) < r /\ e = Failed(pod)
      <4>1. IsLeft(e, N, D) /\ Below(e, pod, N, D) /\ ~e.ok
        BY <2>1, <3>5, FailedIsLeft DEF Failed
      <4>2. Below(e, c, N, D)
        BY <2>1, <4>1, BelowComposes
      <4>3. Cardinality(Roomy(c, comp.disk, D)) < r
        BY <3>3, <3>5
      <4>4. QED
        BY <1>6, <2>4, <4>1, <4>2, <4>3 DEF Placed
    <3>6. CASE \E C : /\ IsWorstFit(C, pod, comp.disk, r, D)
                      /\ e = [nodes |-> pod.nodes,
                              disks |-> Spread(pod, C, comp.disk), ok |-> pod.ok]
      <4>1. PICK C : /\ IsWorstFit(C, pod, comp.disk, r, D)
                     /\ e = [nodes |-> pod.nodes,
                             disks |-> Spread(pod, C, comp.disk), ok |-> pod.ok]
        BY <3>6
      <4>2. \A i \in C : pod.disks[i] >= comp.disk
        BY <4>1 DEF IsWorstFit
      <4>3. IsLeft(e, N, D) /\ Below(e, pod, N, D)
        BY <2>1, <3>2, <4>1, <4>2, SpreadIsLeft
      <4>4. Below(e, c, N, D)
        BY <2>1, <4>3, BelowComposes
      <4>5. Spread(pod, C, comp.disk) = Spread(c, C, comp.disk)
        BY <2>2 DEF Spread
      <4>6. e.ok = c.ok /\ e.nodes = Taken(c, b, comp)
            /\ e.disks = Spread(c, C, comp.disk)
        BY <2>2, <4>1, <4>5
      <4>7. IsWorstFit(C, c, comp.disk, r, D)
        BY <2>2, <3>3, <4>1 DEF IsWorstFit
      <4>8. QED
        BY <1>6, <2>0, <2>4, <4>3, <4>4, <4>6, <4>7 DEF Placed
    <3>7. QED
      BY <3>4, <3>5, <3>6
  <2>5. QED
    BY <2>3, <2>4
<1>7. \/ pod = Failed(c) /\ \A i \in N : ~HasRoom(c, i, comp)
      \/ \E b \in N :
             /\ HasRoom(c, b, comp)
             /\ pod = [nodes |-> Taken(c, b, comp), disks |-> c.disks,
                       ok |-> c.ok]
  BY PodPlaced DEF HasRoom, pod
<1>8. QED
  BY <1>1, <1>4, <1>5, <1>6, <1>7, Zenon

-----------------------------------------------------------------------------
(* Sessions placed one after the other.                                    *)

LEMMA ModeHasComponents ==
    ASSUME NEW mode, IsMode(mode)
    PROVE  /\ Len(mode) \in Nat /\ DOMAIN mode = 1..Len(mode)
           /\ \A k \in 1..Len(mode) : mode[k] \in Component
<1>1. mode \in Seq(Component)
  BY DEF IsMode, Component
<1>2. QED
  BY <1>1

Lasts(e, c, N, D) ==
    IsLeft(e, N, D) /\ Below(e, c, N, D) /\ (e.ok => c.ok)

LEMMA SessionPlaced ==
    ASSUME NEW N, Numbers(N), NEW D, Numbers(D), NEW c, IsLeft(c, N, D),
           NEW mode, IsMode(mode), NEW r \in Nat, NEW known
    PROVE  Lasts(PlaceSession(mode, c, r, known), c, N, D)
<1>1. /\ Len(mode) \in Nat
      /\ \A k \in 1..Len(mode) : mode[k] \in Component
  BY ModeHasComponents
<1>2. PICK g : /\ g[0] = c
               /\ \A k \in 1..Len(mode) :
                      g[k] = PlaceComponent(g[k - 1], mode[k], r, known)
               /\ PlaceSession(mode, c, r, known) = g[Len(mode)]
  BY <1>1, SessionUnfolds
<1> DEFINE Good == {k \in Nat : k <= Len(mode) => Lasts(g[k], c, N, D)}
<1>3. 0 \in Good
  <2>1. Below(c, c, N, D)
    BY BelowComposes
  <2>2. Lasts(g[0], c, N, D)
    BY <1>2, <2>1 DEF Lasts
  <2>3. QED
    BY <2>2
<1>4. ASSUME NEW k \in Good PROVE k + 1 \in Good
  <2>1. SUFFICES ASSUME k + 1 <= Len(mode) PROVE Lasts(g[k + 1], c, N, D)
    OBVIOUS
  <2>2. /\ k \in Nat /\ k + 1 \in 1..Len(mode) /\ (k + 1) - 1 = k
        /\ Lasts(g[k], c, N, D)
    BY <1>1, <2>1
  <2>3. g[k + 1] = PlaceComponent(g[k], mode[k + 1], r, known)
    BY <1>2, <2>2
  <2>4. mode[k + 1] \in Component
    BY <1>1, <2>2
  <2>5. Placed(g[k + 1], g[k], mode[k + 1], r, known, N, D)
    BY <2>2, <2>3, <2>4, ComponentPlaced DEF Lasts
  <2>6. /\ IsLeft(g[k + 1], N, D) /\ Below(g[k + 1], g[k], N, D)
        /\ g[k + 1].ok => g[k].ok
    BY <2>5 DEF Placed
  <2>7. Below(g[k + 1], c, N, D)
    BY <2>2, <2>6, BelowComposes DEF Lasts
  <2>8. QED
    BY <2>2, <2>6, <2>7 DEF Lasts
<1>5. Good = Nat
  <2>1. Good \in SUBSET Nat
    OBVIOUS
  <2> HIDE DEF Good
  <2>2. QED
    BY <1>3, <1>4, <2>1, Induction
<1>6. Lasts(g[Len(mode)], c, N, D)
  BY <1>1, <1>5
<1>7. QED
  BY <1>2, <1>6

\* What is left is a cluster on the same nodes and disks, with no more room;
\* after a misfit it stays failed.
LEMMA PlacingLasts ==
    ASSUME NEW N, Numbers(N), NEW D, Numbers(D), NEW c, IsLeft(c, N, D),
           NEW mode, IsMode(mode), NEW r \in Nat, NEW known
    PROVE  /\ \A k \in Nat : Lasts(Placing(mode, c, r, known)[k], c, N, D)
           /\ \A k, m \in Nat :
                  k <= m /\ Placing(mode, c, r, known)[m].ok
                      => Placing(mode, c, r, known)[k].ok
<1> DEFINE left == Placing(mode, c, r, known)
<1>1. left[0] = c /\ \A k \in Nat : left[k + 1] = PlaceSession(mode, left[k], r, known)
  BY PlacingUnfolds
<1> HIDE DEF left
<1> DEFINE Good == {k \in Nat : Lasts(left[k], c, N, D)}
<1>2. 0 \in Good
  <2>1. Below(c, c, N, D)
    BY BelowComposes
  <2>2. Lasts(left[0], c, N, D)
    BY <1>1, <2>1 DEF Lasts
  <2>3. QED
    BY <2>2
<1>3. ASSUME NEW k \in Good PROVE k + 1 \in Good
  <2>1. k \in Nat /\ k + 1 \in Nat /\ Lasts(left[k], c, N, D)
        /\ left[k + 1] = PlaceSession(mode, left[k], r, known)
    BY <1>1
  <2>2. Lasts(left[k + 1], left[k], N, D)
    BY <2>1, SessionPlaced DEF Lasts
  <2>3. Below(left[k + 1], c, N, D)
    BY <2>1, <2>2, BelowComposes DEF Lasts
  <2>4. QED
    BY <2>1, <2>2, <2>3 DEF Lasts
<1>4. Good = Nat
  <2>1. Good \in SUBSET Nat
    OBVIOUS
  <2> HIDE DEF Good
  <2>2. QED
    BY <1>2, <1>3, <2>1, Induction
<1>5. \A k \in Nat : Lasts(left[k], c, N, D)
  BY <1>4
<1>6. \A k \in Nat : left[k + 1].ok => left[k].ok
  <2>1. SUFFICES ASSUME NEW k \in Nat PROVE left[k + 1].ok => left[k].ok
    OBVIOUS
  <2>2. Lasts(left[k + 1], left[k], N, D)
    BY <1>1, <1>5, SessionPlaced DEF Lasts
  <2>3. QED
    BY <2>2 DEF Lasts
<1>7. ASSUME NEW k \in Nat, NEW m \in Nat, k <= m, left[m].ok
      PROVE  left[k].ok
  <2> DEFINE Down == {d \in Nat : left[k + d].ok => left[k].ok}
  <2>1. 0 \in Down
    OBVIOUS
  <2>2. ASSUME NEW d \in Down PROVE d + 1 \in Down
    <3>1. k + d \in Nat /\ k + (d + 1) = (k + d) + 1
      OBVIOUS
    <3>2. left[(k + d) + 1].ok => left[k + d].ok
      BY <1>6, <3>1
    <3>3. QED
      BY <3>1, <3>2
  <2>3. Down = Nat
    <3>1. Down \in SUBSET Nat
      OBVIOUS
    <3> HIDE DEF Down
    <3>2. QED
      BY <2>1, <2>2, <3>1, Induction
  <2>4. m - k \in Nat /\ k + (m - k) = m
    BY <1>7
  <2>5. left[k + (m - k)].ok => left[k].ok
    BY <2>3, <2>4
  <2>6. QED
    BY <1>7, <2>4, <2>5
<1>8. QED
  BY <1>5, <1>7 DEF left

\* Placing n sessions and then k more is placing n + k.
LEMMA PlacingSplits ==
    ASSUME NEW mode, NEW c, NEW r, NEW known, NEW n \in Nat
    PROVE  \A k \in Nat :
               Placing(mode, Placing(mode, c, r, known)[n], r, known)[k]
                   = Placing(mode, c, r, known)[n + k]
<1> DEFINE left == Placing(mode, c, r, known)
           more == Placing(mode, left[n], r, known)
<1>1. \A k \in Nat : left[k + 1] = PlaceSession(mode, left[k], r, known)
  BY PlacingUnfolds
<1>2. /\ more[0] = left[n]
      /\ \A k \in Nat : more[k + 1] = PlaceSession(mode, more[k], r, known)
  BY PlacingUnfolds
<1> SUFFICES \A k \in Nat : more[k] = left[n + k]
  OBVIOUS
<1> HIDE DEF left, more
<1> DEFINE Good == {k \in Nat : more[k] = left[n + k]}
<1>3. 0 \in Good
  BY <1>2
<1>4. ASSUME NEW k \in Good PROVE k + 1 \in Good
  <2>1. k \in Nat /\ n + k \in Nat /\ n + (k + 1) = (n + k) + 1
        /\ more[k] = left[n + k]
    OBVIOUS
  <2>2. more[k + 1] = left[(n + k) + 1]
    BY <1>1, <1>2, <2>1
  <2>3. QED
    BY <2>1, <2>2
<1>5. Good = Nat
  <2>1. Good \in SUBSET Nat
    OBVIOUS
  <2> HIDE DEF Good
  <2>2. QED
    BY <1>3, <1>4, <2>1, Induction
<1>6. QED
  BY <1>5

\* A set of numbers from 1 on without gaps ends at its cardinality.
LEMMA PrefixIsInterval ==
    \A n \in Nat : \A S \in SUBSET (1..n) :
        (\A k \in S : \A j \in 1..k : j \in S)
            => Cardinality(S) \in 0..n /\ S = 1..Cardinality(S)
<1> DEFINE Good == {n \in Nat : \A S \in SUBSET (1..n) :
                       (\A k \in S : \A j \in 1..k : j \in S)
                           => Cardinality(S) \in 0..n /\ S = 1..Cardinality(S)}
<1>1. 0 \in Good
  <2>1. SUFFICES ASSUME NEW S \in SUBSET (1..0)
                 PROVE  Cardinality(S) \in 0..0 /\ S = 1..Cardinality(S)
    OBVIOUS
  <2>2. S = {} /\ 1..0 = {}
    OBVIOUS
  <2>3. Cardinality(S) = 0
    BY <2>2, FS_EmptySet
  <2>4. QED
    BY <2>2, <2>3
<1>2. ASSUME NEW n \in Good PROVE n + 1 \in Good
  <2>1. SUFFICES ASSUME NEW S \in SUBSET (1..(n + 1)),
                        \A k \in S : \A j \in 1..k : j \in S
                 PROVE  Cardinality(S) \in 0..(n + 1) /\ S = 1..Cardinality(S)
    OBVIOUS
  <2>2. CASE n + 1 \in S
    <3>1. S = 1..(n + 1)
      BY <2>1, <2>2
    <3>2. n + 1 \in Nat /\ Cardinality(1..(n + 1)) = n + 1
      <4>1. 1 \in Int /\ n + 1 \in Int /\ n + 1 \in Nat /\ ~(1 > n + 1)
            /\ (n + 1) - 1 + 1 = n + 1
        OBVIOUS
      <4>2. QED
        BY <4>1, FS_Interval
    <3>3. QED
      BY <3>1, <3>2
  <2>3. CASE n + 1 \notin S
    <3>1. S \in SUBSET (1..n) /\ n \in Nat
      BY <2>3
    <3>2. Cardinality(S) \in 0..n /\ S = 1..Cardinality(S)
      BY <2>1, <3>1
    <3>3. QED
      BY <3>1, <3>2
  <2>4. QED
    BY <2>2, <2>3
<1>3. Good = Nat
  <2>1. Good \in SUBSET Nat
    OBVIOUS
  <2> HIDE DEF Good
  <2>2. QED
    BY <1>1, <1>2, <2>1, Induction
<1>4. QED
  BY <1>3

\* The simulation counts exactly the sessions that can be placed, one after
\* the other, up to the bound of its loop.
LEMMA SimulateIsPrefix ==
    ASSUME NEW N, Numbers(N), NEW D, Numbers(D), NEW c, IsLeft(c, N, D), c.ok,
           NEW mode, IsMode(mode), NEW r \in Nat, NEW known
    PROVE  /\ Simulate(mode, c, r, known) \in 0..MaxSessions
           /\ \A k \in 0..MaxSessions :
                  Placing(mode, c, r, known)[k].ok
                      <=> k <= Simulate(mode, c, r, known)
<1> DEFINE left == Placing(mode, c, r, known)
           S == {k \in 1..MaxSessions : left[k].ok}
<1>1. MaxSessions \in Nat
  BY CapacityAssumption
<1>2. \A k, m \in Nat : k <= m /\ left[m].ok => left[k].ok
  BY PlacingLasts
<1>3. left[0] = c
  BY PlacingUnfolds
<1>4. Simulate(mode, c, r, known) = Cardinality(S)
  BY DEF Simulate
<1> SUFFICES Cardinality(S) \in 0..MaxSessions
             /\ \A k \in 0..MaxSessions : left[k].ok <=> k <= Cardinality(S)
  BY <1>4
<1> HIDE DEF left
<1>5. \A k \in S : \A j \in 1..k : j \in S
  BY <1>1, <1>2
<1>6. S \in SUBSET (1..MaxSessions)
  OBVIOUS
<1>7. Cardinality(S) \in 0..MaxSessions /\ S = 1..Cardinality(S)
  <2> HIDE DEF S
  <2>1. QED
    BY <1>1, <1>5, <1>6, PrefixIsInterval
<1>8. ASSUME NEW k \in 0..MaxSessions
      PROVE  left[k].ok <=> k <= Cardinality(S)
  <2>1. CASE k = 0
    BY <1>3, <1>7, <2>1
  <2>2. CASE k # 0
    <3>1. k \in 1..MaxSessions
      BY <1>1, <2>2
    <3>2. left[k].ok <=> k \in S
      BY <3>1
    <3> HIDE DEF S
    <3>3. k \in S <=> k <= Cardinality(S)
      BY <1>1, <1>7, <3>1
    <3>4. QED
      BY <3>2, <3>3, Zenon
  <2>3. QED
    BY <2>1, <2>2
<1>9. QED
  BY <1>7, <1>8

=============================================================================
