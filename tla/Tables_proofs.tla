----------------------------- MODULE Tables_proofs -----------------------------
(***************************************************************************)
(* What sums come to, for every finite set and every function to the       *)
(* integers.  The induction theorems of the library take an operator for    *)
(* the property they prove, and here a property is a set: LeastNat is the    *)
(* well-foundedness of the naturals, EveryNat and EveryPart the inductions   *)
(* over them and over the parts of a finite set that follow from it, and    *)
(* FoldingExists says that the function a fold is read from exists.         *)
(***************************************************************************)
EXTENDS Tables, Sequences, FiniteSetsExt, FiniteSetTheorems, WellFoundedInduction, TLAPS

\* The order of the naturals, as a relation.
Less == {ss \in Nat \X Nat : ss[1] < ss[2]}

\* A set of naturals with a member has a least one.
LEMMA LeastNat ==
    ASSUME NEW S, S \subseteq Nat, S # {}
    PROVE  \E x \in S : \A y \in S : x <= y
  <1>1. Less = OpToRel(<, Nat)
    BY Zenon DEF Less, OpToRel
  <1>2. IsWellFoundedOn(Less, Nat)
    BY <1>1, NatLessThanWellFounded, Zenon
  <1>3. PICK x \in S : \A y \in S : ~ (<<y, x>> \in Less)
    BY <1>2, WFMin
  <1>4. ASSUME NEW y \in S PROVE x <= y
    <2>1. ~ (<<y, x>> \in Less)
      BY <1>3
    <2>2. <<y, x>> \in Nat \X Nat /\ <<y, x>>[1] = y /\ <<y, x>>[2] = x
      OBVIOUS
    <2>3. <<y, x>> \in Less <=> y < x
      BY <2>2 DEF Less
    <2> QED BY <2>1, <2>3
  <1> QED BY <1>4

\* The least and the greatest of a set are members of it.
LEMMA MinIsIn ==
    ASSUME NEW S, S \subseteq Nat, S # {}
    PROVE  Min(S) \in S /\ \A y \in S : Min(S) <= y
  BY LeastNat DEF Min

LEMMA MaxIsIn ==
    ASSUME NEW S, S \subseteq Int, S # {}, NEW top \in Int, \A y \in S : y <= top
    PROVE  Max(S) \in S /\ \A y \in S : y <= Max(S)
  <1> DEFINE Below == {top - y : y \in S}
  <1>1. Below \subseteq Nat /\ Below # {}
    <2>1. ASSUME NEW y \in S PROVE top - y \in Nat
      <3>1. y \in Int /\ y <= top
        OBVIOUS
      <3> QED BY <3>1
    <2>2. PICK y \in S : TRUE
      OBVIOUS
    <2>3. top - y \in Below
      BY <2>2
    <2> QED BY <2>1, <2>3
  <1>2. PICK x \in Below : \A y \in Below : x <= y
    BY <1>1, LeastNat
  <1>3. PICK m \in S : x = top - m
    BY <1>2
  <1>4. ASSUME NEW y \in S PROVE y <= m
    <2>1. top - y \in Below /\ y \in Int /\ m \in Int
      OBVIOUS
    <2>2. top - m <= top - y
      BY <1>2, <1>3, <2>1
    <2> QED BY <2>1, <2>2
  <1> QED BY <1>3, <1>4 DEF Max

\* Induction over the naturals, with the property as a set.
LEMMA EveryNat ==
    ASSUME NEW S, 0 \in S, \A n \in Nat : n \in S => n + 1 \in S
    PROVE  Nat \subseteq S
  <1>1. SUFFICES ASSUME Nat \ S # {} PROVE FALSE
    OBVIOUS
  <1>2. PICK m \in Nat \ S : \A y \in Nat \ S : m <= y
    <2>1. Nat \ S \subseteq Nat
      OBVIOUS
    <2> QED BY <1>1, <2>1, LeastNat
  <1>3. m # 0 /\ m \in Nat
    BY <1>2
  <1>4. m - 1 \in Nat /\ (m - 1) + 1 = m /\ ~(m <= m - 1)
    BY <1>3
  <1>5. m - 1 \in S
    BY <1>2, <1>4
  <1> QED BY <1>2, <1>4, <1>5

-----------------------------------------------------------------------------
Pick(s) == CHOOSE x \in s : TRUE
\* What a fold over the subsets of S is, once it is known to be one.
Folding(f, D, g) ==
    g = [s \in D |-> IF s = {} THEN 0 ELSE f[Pick(s)] + g[s \ {Pick(s)}]]
UpTo(S, n) == {s \in SUBSET S : Cardinality(s) <= n}
Iter(f, S) == CHOOSE g : Folding(f, SUBSET S, g)

LEMMA SumIsIter == ASSUME NEW f, NEW S PROVE SumOn(f, S) = Iter(f, S)[S]
  BY DEF SumOn, FoldFunctionOnSet, MapThenFoldSet, Iter, Folding, Pick

LEMMA PickIsIn == ASSUME NEW s, s # {} PROVE Pick(s) \in s
  BY DEF Pick

LEMMA Smaller ==
    ASSUME NEW S, IsFiniteSet(S), NEW s \in SUBSET S
    PROVE  /\ IsFiniteSet(s) /\ Cardinality(s) \in Nat
           /\ Cardinality(s) = 0 <=> s = {}
           /\ \A x \in s : /\ s \ {x} \in SUBSET S
                           /\ Cardinality(s \ {x}) = Cardinality(s) - 1
  BY FS_Subset, FS_CardinalityType, FS_EmptySet, FS_RemoveElement

LEMMA FoldingExists ==
    ASSUME NEW S, IsFiniteSet(S), NEW f
    PROVE  \E g : Folding(f, SUBSET S, g)
  <1> DEFINE Known == {n \in Nat : \E g : Folding(f, UpTo(S, n), g)}
  <1>1. 0 \in Known
    <2> DEFINE g == [s \in UpTo(S, 0) |-> 0]
    <2>1. \A s \in UpTo(S, 0) : s = {}
      BY Smaller DEF UpTo
    <2>2. g = [s \in UpTo(S, 0) |-> IF s = {} THEN 0 ELSE f[Pick(s)] + g[s \ {Pick(s)}]]
      BY <2>1
    <2> HIDE DEF g
    <2>3. Folding(f, UpTo(S, 0), g)
      BY <2>2 DEF Folding
    <2> QED BY <2>3
  <1>2. ASSUME NEW n \in Nat, n \in Known PROVE n + 1 \in Known
    <2>1. PICK g : Folding(f, UpTo(S, n), g)
      BY <1>2
    <2> DEFINE h == [s \in UpTo(S, n + 1) |->
                        IF s = {} THEN 0 ELSE f[Pick(s)] + g[s \ {Pick(s)}]]
    <2>2. \A s \in UpTo(S, n) : s \in UpTo(S, n + 1) /\ h[s] = g[s]
      <3> TAKE s \in UpTo(S, n)
      <3>1. s \in UpTo(S, n + 1)
        BY Smaller DEF UpTo
      <3>2. g[s] = IF s = {} THEN 0 ELSE f[Pick(s)] + g[s \ {Pick(s)}]
        BY <2>1, Zenon DEF Folding
      <3> QED BY <3>1, <3>2
    <2>3. ASSUME NEW s \in UpTo(S, n + 1), s # {}
          PROVE  h[s \ {Pick(s)}] = g[s \ {Pick(s)}]
      <3>1. s \ {Pick(s)} \in UpTo(S, n)
        BY <2>3, PickIsIn, Smaller DEF UpTo
      <3> QED BY <2>2, <3>1
    <2>4. h = [s \in UpTo(S, n + 1) |->
                        IF s = {} THEN 0 ELSE f[Pick(s)] + h[s \ {Pick(s)}]]
      BY <2>3
    <2> HIDE DEF h
    <2>5. Folding(f, UpTo(S, n + 1), h)
      BY <2>4 DEF Folding
    <2> QED BY <2>5
  <1>3. Cardinality(S) \in Known
    <2> HIDE DEF Known
    <2>1. Nat \subseteq Known
      BY <1>1, <1>2, EveryNat
    <2> QED BY <2>1, FS_CardinalityType
  <1>4. UpTo(S, Cardinality(S)) = SUBSET S
    BY FS_Subset DEF UpTo
  <1> QED BY <1>3, <1>4

LEMMA IterStep ==
    ASSUME NEW S, IsFiniteSet(S), NEW f, NEW s \in SUBSET S
    PROVE  Iter(f, S)[s] = IF s = {} THEN 0 ELSE f[Pick(s)] + Iter(f, S)[s \ {Pick(s)}]
  <1>1. Folding(f, SUBSET S, Iter(f, S))
    BY FoldingExists DEF Iter
  <1> QED BY <1>1, Zenon DEF Folding

\* The fold over a part of a set does not depend on the set.
LEMMA IterAlike ==
    ASSUME NEW S, IsFiniteSet(S), NEW f, NEW T \in SUBSET S
    PROVE  \A s \in SUBSET T : Iter(f, S)[s] = Iter(f, T)[s]
  <1>0. IsFiniteSet(T)
    BY FS_Subset
  <1> DEFINE Alike == {n \in Nat : \A s \in SUBSET T :
                            Cardinality(s) = n => Iter(f, S)[s] = Iter(f, T)[s]}
  <1>1. 0 \in Alike
    <2>1. \A s \in SUBSET T : Cardinality(s) = 0 => s = {}
      BY <1>0, Smaller
    <2>2. Iter(f, S)[{}] = 0 /\ Iter(f, T)[{}] = 0
      BY <1>0, IterStep
    <2> QED BY <2>1, <2>2
  <1>2. ASSUME NEW n \in Nat, n \in Alike PROVE n + 1 \in Alike
    <2>1. ASSUME NEW s \in SUBSET T, Cardinality(s) = n + 1
          PROVE  Iter(f, S)[s] = Iter(f, T)[s]
      <3>1. s # {}
        BY <1>0, <2>1, Smaller
      <3>2. Pick(s) \in s
        BY <3>1, PickIsIn
      <3>3. s \ {Pick(s)} \in SUBSET T /\ Cardinality(s \ {Pick(s)}) = n
        BY <1>0, <2>1, <3>2, Smaller
      <3>4. Iter(f, S)[s \ {Pick(s)}] = Iter(f, T)[s \ {Pick(s)}]
        BY <1>2, <3>3
      <3>5. Iter(f, S)[s] = f[Pick(s)] + Iter(f, S)[s \ {Pick(s)}]
        <4>1. s \in SUBSET S
          OBVIOUS
        <4> QED BY <3>1, <4>1, IterStep
      <3>6. Iter(f, T)[s] = f[Pick(s)] + Iter(f, T)[s \ {Pick(s)}]
        BY <1>0, <3>1, IterStep
      <3> QED BY <3>4, <3>5, <3>6
    <2> QED BY <2>1
  <1>3. Nat \subseteq Alike
    <2> HIDE DEF Alike
    <2> QED BY <1>1, <1>2, EveryNat
  <1>4. ASSUME NEW s \in SUBSET T PROVE Iter(f, S)[s] = Iter(f, T)[s]
    <2>1. Cardinality(s) \in Nat
      BY <1>0, Smaller
    <2> QED BY <1>3, <2>1
  <1> QED BY <1>4
-----------------------------------------------------------------------------
LEMMA SumOfNone == ASSUME NEW f PROVE SumOn(f, {}) = 0
  BY SumIsIter, IterStep, FS_EmptySet

LEMMA SumPicked ==
    ASSUME NEW S, IsFiniteSet(S), NEW f, S # {}
    PROVE  SumOn(f, S) = f[Pick(S)] + SumOn(f, S \ {Pick(S)})
  <1> DEFINE T == S \ {Pick(S)}
  <1>1. T \in SUBSET S /\ IsFiniteSet(T)
    BY FS_Subset
  <1>2. Iter(f, S)[S] = f[Pick(S)] + Iter(f, S)[T]
    BY IterStep
  <1>3. Iter(f, S)[T] = Iter(f, T)[T]
    BY <1>1, IterAlike
  <1> QED BY <1>2, <1>3, SumIsIter

LEMMA SumIsInt ==
    ASSUME NEW S, IsFiniteSet(S), NEW f, \A y \in S : f[y] \in Int
    PROVE  SumOn(f, S) \in Int
  <1> DEFINE Known == {n \in Nat : \A T \in SUBSET S : Cardinality(T) = n => SumOn(f, T) \in Int}
  <1>1. 0 \in Known
    <2>1. ASSUME NEW T \in SUBSET S, Cardinality(T) = 0 PROVE SumOn(f, T) \in Int
      <3>1. T = {}
        BY <2>1, Smaller
      <3> QED BY <3>1, SumOfNone
    <2> QED BY <2>1
  <1>2. ASSUME NEW n \in Nat, n \in Known PROVE n + 1 \in Known
    <2>1. ASSUME NEW T \in SUBSET S, Cardinality(T) = n + 1
          PROVE  SumOn(f, T) \in Int
      <3> DEFINE p == Pick(T)
      <3>1. T # {} /\ IsFiniteSet(T)
        BY <2>1, Smaller
      <3>2. p \in T
        BY <3>1, PickIsIn
      <3>3. SumOn(f, T) = f[p] + SumOn(f, T \ {p})
        BY <3>1, SumPicked
      <3>4. T \ {p} \in SUBSET S /\ Cardinality(T \ {p}) = n
        BY <2>1, <3>2, Smaller
      <3>5. SumOn(f, T \ {p}) \in Int /\ f[p] \in Int
        BY <1>2, <3>2, <3>4
      <3> QED BY <3>3, <3>5
    <2> QED BY <2>1
  <1>3. Nat \subseteq Known
    <2> HIDE DEF Known
    <2> QED BY <1>1, <1>2, EveryNat
  <1>4. Cardinality(S) \in Nat
    BY FS_CardinalityType
  <1> QED BY <1>3, <1>4

\* Any member can be taken out of a sum of integers.
LEMMA SumOut ==
    ASSUME NEW S, IsFiniteSet(S), NEW f, \A y \in S : f[y] \in Int
    PROVE  \A x \in S : SumOn(f, S) = f[x] + SumOn(f, S \ {x})
  <1> DEFINE Fine(T) == \A x \in T : SumOn(f, T) = f[x] + SumOn(f, T \ {x})
             Known == {n \in Nat : \A T \in SUBSET S : Cardinality(T) = n => Fine(T)}
  <1>0. \A T \in SUBSET S : IsFiniteSet(T) /\ SumOn(f, T) \in Int
    BY FS_Subset, SumIsInt
  <1>1. 0 \in Known
    <2>1. \A T \in SUBSET S : Cardinality(T) = 0 => T = {}
      BY Smaller
    <2> QED BY <2>1
  <1>2. ASSUME NEW n \in Nat, n \in Known PROVE n + 1 \in Known
    <2>1. ASSUME NEW T \in SUBSET S, Cardinality(T) = n + 1
          PROVE  Fine(T)
      <3> DEFINE p == Pick(T)
      <3>1. T # {} /\ IsFiniteSet(T)
        BY <2>1, Smaller
      <3>2. p \in T
        BY <3>1, PickIsIn
      <3>3. SumOn(f, T) = f[p] + SumOn(f, T \ {p})
        BY <3>1, SumPicked
      <3>4. ASSUME NEW x \in T PROVE Fine(T \ {x})
        <4>1. T \ {x} \in SUBSET S /\ Cardinality(T \ {x}) = n
          BY <2>1, Smaller
        <4> QED BY <1>2, <4>1
      <3>5. ASSUME NEW x \in T, x # p PROVE SumOn(f, T) = f[x] + SumOn(f, T \ {x})
        <4> DEFINE U == (T \ {p}) \ {x}
        <4>1. U = (T \ {x}) \ {p} /\ x \in T \ {p} /\ p \in T \ {x}
          BY <3>2, <3>5
        <4>2. SumOn(f, T \ {p}) = f[x] + SumOn(f, U)
          BY <3>2, <3>4, <4>1
        <4>3. SumOn(f, T \ {x}) = f[p] + SumOn(f, U)
          <5>1. SumOn(f, T \ {x}) = f[p] + SumOn(f, (T \ {x}) \ {p})
            BY <3>4, <4>1
          <5> QED BY <4>1, <5>1
        <4>4. SumOn(f, U) \in Int
          BY <1>0
        <4>5. f[x] \in Int /\ f[p] \in Int
          BY <3>2
        <4> QED BY <3>3, <4>2, <4>3, <4>4, <4>5
      <3> QED BY <3>3, <3>5
    <2> QED BY <2>1
  <1>3. Nat \subseteq Known
    <2> HIDE DEF Known
    <2> QED BY <1>1, <1>2, EveryNat
  <1>4. Cardinality(S) \in Nat
    BY FS_CardinalityType
  <1> QED BY <1>3, <1>4

LEMMA SumWith ==
    ASSUME NEW S, IsFiniteSet(S), NEW f, NEW x, x \notin S, \A y \in S \cup {x} : f[y] \in Int
    PROVE  SumOn(f, S \cup {x}) = f[x] + SumOn(f, S)
  <1>1. IsFiniteSet(S \cup {x}) /\ (S \cup {x}) \ {x} = S
    BY FS_AddElement
  <1>2. SumOn(f, S \cup {x}) = f[x] + SumOn(f, (S \cup {x}) \ {x})
    BY <1>1, SumOut
  <1> QED BY <1>1, <1>2

\* Induction over the parts of a finite set, with the property as a set.
LEMMA EveryPart ==
    ASSUME NEW S, IsFiniteSet(S), NEW Fine, {} \in Fine,
           \A T \in SUBSET S : \A x \in S \ T : T \in Fine => T \cup {x} \in Fine
    PROVE  SUBSET S \subseteq Fine
  <1> DEFINE Known == {n \in Nat : \A T \in SUBSET S : Cardinality(T) = n => T \in Fine}
  <1>1. 0 \in Known
    <2>1. \A T \in SUBSET S : Cardinality(T) = 0 => T = {}
      BY Smaller
    <2> QED BY <2>1
  <1>2. ASSUME NEW n \in Nat, n \in Known PROVE n + 1 \in Known
    <2>1. ASSUME NEW T \in SUBSET S, Cardinality(T) = n + 1 PROVE T \in Fine
      <3>1. PICK x \in T : TRUE
        BY <2>1, Smaller
      <3>2. T \ {x} \in SUBSET S /\ Cardinality(T \ {x}) = n
        BY <2>1, Smaller
      <3>3. T \ {x} \in Fine
        BY <1>2, <3>2
      <3>4. x \in S \ (T \ {x}) /\ (T \ {x}) \cup {x} = T
        OBVIOUS
      <3> QED BY <3>2, <3>3, <3>4
    <2> QED BY <2>1
  <1>3. Nat \subseteq Known
    <2> HIDE DEF Known
    <2> QED BY <1>1, <1>2, EveryNat
  <1>4. ASSUME NEW T \in SUBSET S PROVE T \in Fine
    <2>1. Cardinality(T) \in Nat
      BY Smaller
    <2> QED BY <1>3, <2>1
  <1> QED BY <1>4

\* Functions that agree on a set come to the same over it.
LEMMA SumAlike ==
    ASSUME NEW S, IsFiniteSet(S), NEW f, NEW g,
           \A x \in S : f[x] \in Int /\ f[x] = g[x]
    PROVE  SumOn(f, S) = SumOn(g, S)
  <1> DEFINE Fine == {T \in SUBSET S : SumOn(f, T) = SumOn(g, T)}
  <1>1. {} \in Fine
    BY SumOfNone
  <1>2. ASSUME NEW T \in SUBSET S, NEW x \in S \ T, T \in Fine PROVE T \cup {x} \in Fine
    <2>1. IsFiniteSet(T) /\ x \notin T
      BY FS_Subset
    <2>2. SumOn(f, T \cup {x}) = f[x] + SumOn(f, T)
      BY <2>1, SumWith
    <2>3. SumOn(g, T \cup {x}) = g[x] + SumOn(g, T)
      BY <2>1, SumWith
    <2> QED BY <1>2, <2>2, <2>3
  <1>3. SUBSET S \subseteq Fine
    <2> HIDE DEF Fine
    <2> QED BY <1>1, <1>2, EveryPart
  <1> QED BY <1>3

\* What two sets without a common member come to together.
LEMMA SumOfBoth ==
    ASSUME NEW S, IsFiniteSet(S), NEW T, IsFiniteSet(T), S \cap T = {}, NEW f,
           \A x \in S \cup T : f[x] \in Int
    PROVE  SumOn(f, S \cup T) = SumOn(f, S) + SumOn(f, T)
  <1> DEFINE Fine == {U \in SUBSET T : SumOn(f, S \cup U) = SumOn(f, S) + SumOn(f, U)}
  <1>0. SumOn(f, S) \in Int
    BY SumIsInt
  <1>1. {} \in Fine
    <2>1. S \cup {} = S
      OBVIOUS
    <2> QED BY <1>0, <2>1, SumOfNone
  <1>2. ASSUME NEW U \in SUBSET T, NEW x \in T \ U, U \in Fine PROVE U \cup {x} \in Fine
    <2>1. IsFiniteSet(U) /\ IsFiniteSet(S \cup U)
      BY FS_Subset, FS_Union
    <2>2. x \notin U /\ x \notin S \cup U /\ S \cup (U \cup {x}) = (S \cup U) \cup {x}
      OBVIOUS
    <2>3. SumOn(f, U \cup {x}) = f[x] + SumOn(f, U)
      BY <2>1, <2>2, SumWith
    <2>4. SumOn(f, (S \cup U) \cup {x}) = f[x] + SumOn(f, S \cup U)
      BY <2>1, <2>2, SumWith
    <2>5. SumOn(f, U) \in Int /\ SumOn(f, S \cup U) \in Int /\ f[x] \in Int
      BY <2>1, SumIsInt
    <2>6. SumOn(f, S \cup U) = SumOn(f, S) + SumOn(f, U)
      BY <1>2
    <2>7. SumOn(f, S \cup (U \cup {x})) = f[x] + (SumOn(f, S) + SumOn(f, U))
      BY <2>2, <2>4, <2>6
    <2>8. SumOn(f, S \cup (U \cup {x})) = SumOn(f, S) + SumOn(f, U \cup {x})
      BY <1>0, <2>3, <2>5, <2>7
    <2> QED BY <2>8
  <1>3. SUBSET T \subseteq Fine
    <2>1. \A U \in SUBSET T : \A x \in T \ U : U \in Fine => U \cup {x} \in Fine
      BY <1>2
    <2> HIDE DEF Fine
    <2>2. IsFiniteSet(T)
      OBVIOUS
    <2> QED BY ONLY <1>1, <2>1, <2>2, EveryPart
  <1> QED BY <1>3

\* Adding up function by function is adding up.
LEMMA SumOfSums ==
    ASSUME NEW S, IsFiniteSet(S), NEW f, NEW g, NEW h,
           \A x \in S : f[x] \in Int /\ g[x] \in Int /\ h[x] = f[x] + g[x]
    PROVE  SumOn(h, S) = SumOn(f, S) + SumOn(g, S)
  <1> DEFINE Fine == {T \in SUBSET S : SumOn(h, T) = SumOn(f, T) + SumOn(g, T)}
  <1>1. {} \in Fine
    BY SumOfNone
  <1>2. ASSUME NEW T \in SUBSET S, NEW x \in S \ T, T \in Fine PROVE T \cup {x} \in Fine
    <2>1. IsFiniteSet(T) /\ x \notin T
      BY FS_Subset
    <2>2. SumOn(f, T \cup {x}) = f[x] + SumOn(f, T)
      BY <2>1, SumWith
    <2>3. SumOn(g, T \cup {x}) = g[x] + SumOn(g, T)
      BY <2>1, SumWith
    <2>a. \A y \in T \cup {x} : h[y] \in Int
      OBVIOUS
    <2>4. SumOn(h, T \cup {x}) = h[x] + SumOn(h, T)
      BY <2>1, <2>a, SumWith
    <2>5. SumOn(f, T) \in Int /\ SumOn(g, T) \in Int /\ f[x] \in Int /\ g[x] \in Int
      BY <2>1, SumIsInt
    <2> QED BY <1>2, <2>2, <2>3, <2>4, <2>5
  <1>3. SUBSET S \subseteq Fine
    <2> HIDE DEF Fine
    <2> QED BY <1>1, <1>2, EveryPart
  <1> QED BY <1>3

LEMMA SumNotNegative ==
    ASSUME NEW S, IsFiniteSet(S), NEW f, \A x \in S : f[x] \in Nat
    PROVE  SumOn(f, S) \in Nat
  <1> DEFINE Fine == {T \in SUBSET S : SumOn(f, T) \in Nat}
  <1>1. {} \in Fine
    BY SumOfNone
  <1>2. ASSUME NEW T \in SUBSET S, NEW x \in S \ T, T \in Fine PROVE T \cup {x} \in Fine
    <2>1. IsFiniteSet(T) /\ x \notin T
      BY FS_Subset
    <2>a. \A y \in T \cup {x} : f[y] \in Int
      OBVIOUS
    <2>2. SumOn(f, T \cup {x}) = f[x] + SumOn(f, T)
      BY <2>1, <2>a, SumWith
    <2>3. f[x] \in Nat
      OBVIOUS
    <2> QED BY <1>2, <2>2, <2>3
  <1>3. SUBSET S \subseteq Fine
    <2> HIDE DEF Fine
    <2> QED BY <1>1, <1>2, EveryPart
  <1> QED BY <1>3
-----------------------------------------------------------------------------
(* Sequences of integers. *)

LEMMA SumOfSeq ==
    ASSUME NEW s \in Seq(Int)
    PROVE  SumOn(s, 1..Len(s)) \in Int /\ SumOn(s, DOMAIN s) = SumOn(s, 1..Len(s))
  <1>1. IsFiniteSet(1..Len(s)) /\ \A k \in 1..Len(s) : s[k] \in Int
    BY FS_Interval
  <1> QED BY <1>1, SumIsInt

LEMMA SumOfAppended ==
    ASSUME NEW s \in Seq(Int), NEW x \in Int
    PROVE  SumOn(Append(s, x), DOMAIN Append(s, x)) = SumOn(s, DOMAIN s) + x
  <1> DEFINE n == Len(s)
             t == Append(s, x)
  <1>1. n \in Nat /\ DOMAIN s = 1..n
    OBVIOUS
  <1>2. /\ t \in Seq(Int) /\ Len(t) = n + 1 /\ DOMAIN t = 1..n + 1 /\ t[n + 1] = x
        /\ \A k \in 1..n : t[k] = s[k]
    OBVIOUS
  <1> HIDE DEF n, t
  <1>3. IsFiniteSet(1..n) /\ n + 1 \notin 1..n /\ 1..n + 1 = (1..n) \cup {n + 1}
    <2>1. IsFiniteSet(1..n)
      BY <1>1, FS_Interval
    <2>2. n + 1 \notin 1..n
      BY <1>1
    <2>3. 1..n + 1 = (1..n) \cup {n + 1}
      BY <1>1
    <2> QED BY <2>1, <2>2, <2>3
  <1>4. \A k \in (1..n) \cup {n + 1} : t[k] \in Int
    BY <1>1, <1>2
  <1>5. SumOn(t, (1..n) \cup {n + 1}) = t[n + 1] + SumOn(t, 1..n)
    BY <1>3, <1>4, SumWith
  <1>6. SumOn(t, 1..n) = SumOn(s, 1..n)
    BY <1>2, <1>3, <1>4, SumAlike
  <1>7. SumOn(s, 1..n) \in Int
    BY SumOfSeq DEF n
  <1>8. SumOn(t, DOMAIN t) = x + SumOn(s, DOMAIN s)
    BY <1>1, <1>2, <1>3, <1>5, <1>6
  <1> QED BY <1>1, <1>7, <1>8 DEF t
-----------------------------------------------------------------------------
\* What Only keeps of the first rows, and that the function it is read from exists.
KeepsOf(rows, S, F) ==
    F = [n \in 0..Len(rows) |-> IF n = 0 THEN <<>>
             ELSE IF rows[n] \in S THEN Append(F[n - 1], rows[n]) ELSE F[n - 1]]
KeptRows(rows, S) == CHOOSE F : KeepsOf(rows, S, F)
LEMMA OnlyIsKept == ASSUME NEW rows, NEW S
    PROVE Only(rows, S) = KeptRows(rows, S)[Len(rows)]
  BY DEF Only, KeepsOf, KeptRows

LEMMA KeptExists ==
    ASSUME NEW R, NEW rows \in Seq(R), NEW S
    PROVE  KeepsOf(rows, S, KeptRows(rows, S))
  <1> DEFINE Upto(n, F) == F = [m \in 0..n |-> IF m = 0 THEN <<>>
                                  ELSE IF rows[m] \in S THEN Append(F[m - 1], rows[m]) ELSE F[m - 1]]
             Known == {n \in Nat : \E F : Upto(n, F)}
  <1>1. 0 \in Known
    <2> DEFINE F == [m \in 0..0 |-> <<>>]
    <2>1. F = [m \in 0..0 |-> IF m = 0 THEN <<>>
                 ELSE IF rows[m] \in S THEN Append(F[m - 1], rows[m]) ELSE F[m - 1]]
      OBVIOUS
    <2> HIDE DEF F
    <2> QED BY <2>1
  <1>2. ASSUME NEW n \in Nat, n \in Known PROVE n + 1 \in Known
    <2>1. PICK F : Upto(n, F)
      BY <1>2
    <2> DEFINE G == [m \in 0..n + 1 |-> IF m = 0 THEN <<>>
                       ELSE IF rows[m] \in S THEN Append(F[m - 1], rows[m]) ELSE F[m - 1]]
    <2>2. \A m \in 0..n : G[m] = F[m]
      <3> TAKE m \in 0..n
      <3>1. m \in 0..n + 1
        OBVIOUS
      <3>2. F[m] = IF m = 0 THEN <<>>
                   ELSE IF rows[m] \in S THEN Append(F[m - 1], rows[m]) ELSE F[m - 1]
        BY <2>1, Zenon
      <3> QED BY <3>1, <3>2
    <2>3. ASSUME NEW m \in 0..n + 1, m # 0 PROVE G[m - 1] = F[m - 1]
      BY <2>2, <2>3
    <2>4. G = [m \in 0..n + 1 |-> IF m = 0 THEN <<>>
                 ELSE IF rows[m] \in S THEN Append(G[m - 1], rows[m]) ELSE G[m - 1]]
      BY <2>3
    <2> HIDE DEF G
    <2> QED BY <2>4
  <1>3. Len(rows) \in Known
    <2>1. Len(rows) \in Nat
      OBVIOUS
    <2> HIDE DEF Known
    <2>2. Nat \subseteq Known
      BY <1>1, <1>2, EveryNat
    <2> QED BY <2>1, <2>2
  <1>4. \E F : Upto(Len(rows), F)
    BY <1>3
  <1> QED BY <1>4 DEF KeepsOf, KeptRows

LEMMA KeptNone == ASSUME NEW R, NEW rows \in Seq(R), NEW S PROVE KeptRows(rows, S)[0] = <<>>
  <1> DEFINE F == KeptRows(rows, S)
  <1>1. F = [m \in 0..Len(rows) |-> IF m = 0 THEN <<>>
               ELSE IF rows[m] \in S THEN Append(F[m - 1], rows[m]) ELSE F[m - 1]]
    BY KeptExists DEF KeepsOf
  <1>2. 0 \in 0..Len(rows)
    OBVIOUS
  <1> HIDE DEF F
  <1>3. F[0] = IF 0 = 0 THEN <<>>
               ELSE IF rows[0] \in S THEN Append(F[0 - 1], rows[0]) ELSE F[0 - 1]
    BY <1>1, <1>2, Zenon
  <1>4. F[0] = <<>>
    BY <1>3, Zenon
  <1> QED BY <1>4 DEF F

LEMMA KeptAt ==
    ASSUME NEW R, NEW rows \in Seq(R), NEW S, NEW n \in 0..Len(rows)
    PROVE  KeptRows(rows, S)[n] = IF n = 0 THEN <<>>
               ELSE IF rows[n] \in S THEN Append(KeptRows(rows, S)[n - 1], rows[n])
                    ELSE KeptRows(rows, S)[n - 1]
  <1> DEFINE F == KeptRows(rows, S)
  <1>1. F = [m \in 0..Len(rows) |-> IF m = 0 THEN <<>>
               ELSE IF rows[m] \in S THEN Append(F[m - 1], rows[m]) ELSE F[m - 1]]
    BY KeptExists DEF KeepsOf
  <1> HIDE DEF F
  <1>2. F[n] = IF n = 0 THEN <<>>
               ELSE IF rows[n] \in S THEN Append(F[n - 1], rows[n]) ELSE F[n - 1]
    BY <1>1, Zenon
  <1> QED BY <1>2 DEF F

\* Two sequences that begin alike keep alike.
LEMMA KeptAlike ==
    ASSUME NEW R, NEW a \in Seq(R), NEW b \in Seq(R), NEW S, NEW n \in 0..Len(a),
           n <= Len(b), \A m \in 1..n : a[m] = b[m]
    PROVE  KeptRows(a, S)[n] = KeptRows(b, S)[n]
  <1> DEFINE Fine == {m \in Nat : m <= n => KeptRows(a, S)[m] = KeptRows(b, S)[m]}
  <1>1. 0 \in Fine
    <2>1. 0 \in 0..Len(a) /\ 0 \in 0..Len(b)
      OBVIOUS
    <2> QED BY <2>1, KeptAt
  <1>2. ASSUME NEW m \in Nat, m \in Fine PROVE m + 1 \in Fine
    <2>1. SUFFICES ASSUME m + 1 <= n PROVE KeptRows(a, S)[m + 1] = KeptRows(b, S)[m + 1]
      OBVIOUS
    <2>2. m + 1 \in 0..Len(a) /\ m + 1 \in 0..Len(b) /\ m + 1 # 0 /\ (m + 1) - 1 = m
      BY <2>1
    <2>3. a[m + 1] = b[m + 1] /\ KeptRows(a, S)[m] = KeptRows(b, S)[m]
      BY <1>2, <2>1
    <2>4. KeptRows(a, S)[m + 1] = IF a[m + 1] \in S THEN Append(KeptRows(a, S)[m], a[m + 1]) ELSE KeptRows(a, S)[m]
      BY <2>2, KeptAt
    <2>5. KeptRows(b, S)[m + 1] = IF b[m + 1] \in S THEN Append(KeptRows(b, S)[m], b[m + 1]) ELSE KeptRows(b, S)[m]
      BY <2>2, KeptAt
    <2> QED BY <2>3, <2>4, <2>5
  <1>3. Nat \subseteq Fine
    <2> HIDE DEF Fine
    <2> QED BY <1>1, <1>2, EveryNat
  <1> QED BY <1>3

LEMMA OnlyOfNone == ASSUME NEW S PROVE Only(<<>>, S) = <<>>
  <1> DEFINE none == <<>>
  <1>1. none \in Seq({1}) /\ Len(none) = 0 /\ 0 \in 0..Len(none)
    OBVIOUS
  <1> HIDE DEF none
  <1>2. KeptRows(none, S)[0] = <<>>
    BY <1>1, KeptNone
  <1>3. Only(none, S) = <<>>
    BY <1>1, <1>2, OnlyIsKept
  <1> QED BY <1>3 DEF none

LEMMA OnlyOfAppended ==
    ASSUME NEW R, NEW rows \in Seq(R), NEW r \in R, NEW S
    PROVE  Only(Append(rows, r), S) = IF r \in S THEN Append(Only(rows, S), r) ELSE Only(rows, S)
  <1> DEFINE more == Append(rows, r)
             n == Len(rows)
  <1>1. /\ more \in Seq(R) /\ Len(more) = n + 1 /\ n \in Nat /\ more[n + 1] = r
        /\ \A m \in 1..n : more[m] = rows[m]
    OBVIOUS
  <1> HIDE DEF more
  <1>2. KeptRows(more, S)[n] = KeptRows(rows, S)[n]
    <2>1. n \in 0..Len(more) /\ n <= Len(rows)
      BY <1>1
    <2> HIDE DEF n
    <2>2. \A m \in 1..n : more[m] = rows[m]
      BY <1>1
    <2> QED BY <1>1, <2>1, <2>2, KeptAlike
  <1>3. n + 1 \in 0..Len(more) /\ n + 1 # 0 /\ (n + 1) - 1 = n
    BY <1>1
  <1>4. KeptRows(more, S)[n + 1] = IF r \in S THEN Append(KeptRows(more, S)[n], r) ELSE KeptRows(more, S)[n]
    BY <1>1, <1>3, KeptAt
  <1>5. Only(more, S) = KeptRows(more, S)[n + 1] /\ Only(rows, S) = KeptRows(rows, S)[n]
    BY <1>1, OnlyIsKept
  <1> QED BY <1>2, <1>4, <1>5 DEF more

\* A property of sequences that Append keeps holds of all of them, as a set of sequences.
LEMMA EverySeq ==
    ASSUME NEW R, NEW Fine, <<>> \in Fine,
           \A rows \in Seq(R) : \A r \in R : rows \in Fine => Append(rows, r) \in Fine
    PROVE  Seq(R) \subseteq Fine
  <1> DEFINE Known == {n \in Nat : \A rows \in Seq(R) : Len(rows) = n => rows \in Fine}
  <1>1. 0 \in Known
    <2>1. ASSUME NEW rows \in Seq(R), Len(rows) = 0 PROVE rows = <<>>
      BY <2>1
    <2> QED BY <2>1
  <1>2. ASSUME NEW n \in Nat, n \in Known PROVE n + 1 \in Known
    <2>1. ASSUME NEW rows \in Seq(R), Len(rows) = n + 1 PROVE rows \in Fine
      <3> DEFINE front == [m \in 1..n |-> rows[m]]
                 last == rows[n + 1]
      <3>1. front \in Seq(R) /\ Len(front) = n /\ last \in R
        BY <2>1
      <3>2. rows = Append(front, last)
        BY <2>1
      <3>3. front \in Fine
        BY <1>2, <3>1
      <3> QED BY <3>1, <3>2, <3>3
    <2> QED BY <2>1
  <1>3. Nat \subseteq Known
    <2> HIDE DEF Known
    <2> QED BY <1>1, <1>2, EveryNat
  <1> QED BY <1>3

LEMMA OnlyIsSeq ==
    ASSUME NEW R, NEW rows \in Seq(R), NEW S
    PROVE  Only(rows, S) \in Seq(R \cap S)
  <1> DEFINE Fine == {a \in Seq(R) : Only(a, S) \in Seq(R \cap S)}
  <1>1. <<>> \in Fine
    <2>1. <<>> \in Seq(R) /\ <<>> \in Seq(R \cap S)
      OBVIOUS
    <2> QED BY <2>1, OnlyOfNone
  <1>2. ASSUME NEW a \in Seq(R), NEW r \in R, a \in Fine PROVE Append(a, r) \in Fine
    <2>1. Only(Append(a, r), S) = IF r \in S THEN Append(Only(a, S), r) ELSE Only(a, S)
      BY OnlyOfAppended
    <2>2. Only(a, S) \in Seq(R \cap S) /\ Append(a, r) \in Seq(R)
      BY <1>2
    <2>3. r \in S => Append(Only(a, S), r) \in Seq(R \cap S)
      BY <2>2
    <2>4. Only(Append(a, r), S) \in Seq(R \cap S)
      BY Zenon, <2>1, <2>2, <2>3
    <2> QED BY Zenon, <2>2, <2>4
  <1>3. Seq(R) \subseteq Fine
    <2> HIDE DEF Fine
    <2> QED BY <1>1, <1>2, EverySeq
  <1> QED BY <1>3

\* Nothing is dropped when every row is kept.
LEMMA OnlyOfAll ==
    ASSUME NEW R, NEW rows \in Seq(R), NEW S, \A k \in DOMAIN rows : rows[k] \in S
    PROVE  Only(rows, S) = rows
  <1> DEFINE Fine == {a \in Seq(R) : (\A k \in DOMAIN a : a[k] \in S) => Only(a, S) = a}
  <1>1. <<>> \in Fine
    BY OnlyOfNone
  <1>2. ASSUME NEW a \in Seq(R), NEW r \in R, a \in Fine PROVE Append(a, r) \in Fine
    <2>1. SUFFICES ASSUME \A k \in DOMAIN Append(a, r) : Append(a, r)[k] \in S
                   PROVE  Only(Append(a, r), S) = Append(a, r)
      <3>1. Append(a, r) \in Seq(R)
        OBVIOUS
      <3> QED BY <3>1
    <2>2. r \in S /\ \A k \in DOMAIN a : a[k] \in S
      <3>1. Len(a) + 1 \in DOMAIN Append(a, r) /\ Append(a, r)[Len(a) + 1] = r
        OBVIOUS
      <3>2. \A k \in DOMAIN a : k \in DOMAIN Append(a, r) /\ Append(a, r)[k] = a[k]
        OBVIOUS
      <3> QED BY <2>1, <3>1, <3>2
    <2> QED BY <1>2, <2>2, OnlyOfAppended
  <1>3. Seq(R) \subseteq Fine
    <2> HIDE DEF Fine
    <2> QED BY <1>1, <1>2, EverySeq
  <1> QED BY <1>3

\* The last row alone is dropped.
LEMMA OnlyButLast ==
    ASSUME NEW R, NEW rows \in Seq(R), NEW S, Len(rows) > 0, rows[Len(rows)] \notin S,
           \A k \in 1..Len(rows) - 1 : rows[k] \in S
    PROVE  Only(rows, S) = [k \in 1..Len(rows) - 1 |-> rows[k]]
  <1> DEFINE front == [k \in 1..Len(rows) - 1 |-> rows[k]]
             last == rows[Len(rows)]
  <1>1. front \in Seq(R) /\ last \in R /\ DOMAIN front = 1..Len(rows) - 1
    OBVIOUS
  <1>2. rows = Append(front, last)
    OBVIOUS
  <1> HIDE DEF front, last
  <1>3. Only(rows, S) = Only(front, S)
    <2>1. last \notin S
      BY DEF last
    <2> QED BY <1>1, <1>2, <2>1, OnlyOfAppended
  <1>4. Only(front, S) = front
    <2>1. \A k \in DOMAIN front : front[k] \in S
      BY <1>1 DEF front
    <2> QED BY <1>1, <2>1, OnlyOfAll
  <1> QED BY <1>3, <1>4 DEF front

\* Nothing, as often as one likes, is nothing.
LEMMA SumOfZeros ==
    ASSUME NEW S, IsFiniteSet(S), NEW f, \A x \in S : f[x] = 0
    PROVE  SumOn(f, S) = 0
  <1>1. SumOn(f, S) \in Int
    BY SumIsInt
  <1>2. SumOn(f, S) = SumOn(f, S) + SumOn(f, S)
    <2>1. \A x \in S : f[x] \in Int /\ f[x] \in Int /\ f[x] = f[x] + f[x]
      OBVIOUS
    <2> QED BY <2>1, SumOfSums
  <1> QED BY <1>1, <1>2

\* h gives, for each part of B, what f comes to on the members of S that g puts there.
Parted(h, B, g, f, S) ==
    /\ IsFiniteSet(S) /\ IsFiniteSet(B)
    /\ \A x \in S : f[x] \in Int
    /\ \A x \in S : g[x] \in B
    /\ \A b \in B : h[b] = SumOn(f, {x \in S : g[x] = b})

\* What the parts of a set come to is what the set comes to.
LEMMA SumByPart ==
    ASSUME NEW h, NEW B, NEW g, NEW f, NEW S, Parted(h, B, g, f, S)
    PROVE  SumOn(h, B) = SumOn(f, S)
  <1> USE DEF Parted
  <1> DEFINE In(T) == {x \in S : g[x] \in T}
             Fine == {T \in SUBSET B : SumOn(h, T) = SumOn(f, In(T))}
  <1>0. \A b \in B : h[b] \in Int
    <2>1. ASSUME NEW b \in B PROVE SumOn(f, {x \in S : g[x] = b}) \in Int
      <3>1. IsFiniteSet({x \in S : g[x] = b})
        BY FS_Subset
      <3> QED BY <3>1, SumIsInt
    <2> QED BY <2>1
  <1>1. {} \in Fine
    <2>1. In({}) = {}
      OBVIOUS
    <2> QED BY <2>1, SumOfNone
  <1>2. ASSUME NEW T \in SUBSET B, NEW b \in B \ T, T \in Fine PROVE T \cup {b} \in Fine
    <2>1. IsFiniteSet(T) /\ b \notin T
      BY FS_Subset
    <2>2. SumOn(h, T \cup {b}) = h[b] + SumOn(h, T)
      BY <1>0, <2>1, SumWith
    <2> DEFINE Here == {x \in S : g[x] = b}
    <2>3. In(T \cup {b}) = In(T) \cup Here /\ In(T) \cap Here = {}
      OBVIOUS
    <2>4. IsFiniteSet(In(T)) /\ IsFiniteSet(Here) /\ \A x \in In(T) \cup Here : f[x] \in Int
      BY FS_Subset
    <2>5. SumOn(f, In(T)) \in Int /\ h[b] \in Int /\ h[b] = SumOn(f, Here) /\ SumOn(h, T) = SumOn(f, In(T))
      BY <1>0, <1>2, <2>4, SumIsInt
    <2> HIDE DEF In, Here
    <2>6. SumOn(f, In(T) \cup Here) = SumOn(f, In(T)) + SumOn(f, Here)
      BY <2>3, <2>4, SumOfBoth
    <2>7. SumOn(f, In(T \cup {b})) = SumOn(f, In(T)) + SumOn(f, Here)
      BY <2>3, <2>6
    <2>8. SumOn(h, T \cup {b}) = SumOn(f, In(T \cup {b}))
      BY <2>2, <2>5, <2>7
    <2> QED BY <2>8
  <1>3. SUBSET B \subseteq Fine
    <2>1. \A T \in SUBSET B : \A b \in B \ T : T \in Fine => T \cup {b} \in Fine
      BY <1>2
    <2>2. IsFiniteSet(B)
      OBVIOUS
    <2> HIDE DEF Fine
    <2> QED BY ONLY <1>1, <2>1, <2>2, EveryPart
  <1>4. In(B) = S
    OBVIOUS
  <1>5. B \in Fine
    BY <1>3
  <1> HIDE DEF In
  <1> QED BY <1>4, <1>5
=============================================================================
