----------------------------- MODULE SumTheorems -----------------------------
(***************************************************************************)
(* What SumOver computes, for every finite set.  The induction goes over   *)
(* the finite subsets of a set, through a smallest counterexample: the set *)
(* of subsets that violate the claim is a constant of the proof, so that   *)
(* no step has to instantiate an operator.                                 *)
(***************************************************************************)
EXTENDS Sums, FiniteSetTheorems, TLAPS

(* Of the subsets of a finite set that are bad, one has no bad subset of   *)
(* its own.                                                                *)
LEMMA SmallestBadSubset ==
  ASSUME NEW S, IsFiniteSet(S), NEW Bad \in SUBSET (SUBSET S), Bad # {}
  PROVE  \E U \in Bad : \A V \in Bad : V \subseteq U => V = U
<1>1. IsWellFoundedOn(StrictSubsetOrdering(S), FiniteSubsetsOf(S))
  BY FS_StrictSubsetOrderingWellFounded
<1>2. \A T \in SUBSET S : IsFiniteSet(T)
  BY FS_Subset
<1>3. Bad \subseteq FiniteSubsetsOf(S)
  BY <1>2 DEF FiniteSubsetsOf
<1>4. \E U \in Bad : \A V \in Bad : ~(<<V, U>> \in StrictSubsetOrdering(S))
  BY <1>1, <1>3, WFMin
<1>. QED
  BY <1>4 DEF StrictSubsetOrdering

(* g gives the sum of f over every subset of S. *)
IsSum(g, f, S) ==
  /\ g \in [SUBSET S -> Int]
  /\ g[{}] = 0
  /\ \A T \in SUBSET S : \A x \in T : g[T] = f[x] + g[T \ {x}]

(* There is such a function: the sum without one element extends to it.    *)
LEMMA SumExists ==
  ASSUME NEW S, IsFiniteSet(S), NEW f, \A x \in S : f[x] \in Int
  PROVE  \E g : IsSum(g, f, S)
<1>. DEFINE Bad == {U \in SUBSET S : ~ \E g : IsSum(g, f, U)}
<1>. SUFFICES ASSUME Bad # {} PROVE FALSE
  BY Zenon
<1>1. PICK U \in Bad : \A V \in Bad : V \subseteq U => V = U
  <2>1. Bad \in SUBSET (SUBSET S)
    OBVIOUS
  <2>. HIDE DEF Bad
  <2>. QED BY <2>1, SmallestBadSubset
<1>2. CASE U = {}
  <2>. DEFINE g == [T \in {{}} |-> 0]
  <2>1. IsSum(g, f, {})
    BY DEF IsSum
  <2>. QED BY <2>1, <1>1, <1>2
<1>3. CASE U # {}
  <2>1. PICK y \in U : TRUE
    BY <1>3
  <2>. DEFINE W == U \ {y}
  <2>2. W \notin Bad
    BY <1>1, <2>1
  <2>3. PICK h : IsSum(h, f, W)
    BY <2>2
  <2>. DEFINE g == [T \in SUBSET U |-> IF y \in T THEN f[y] + h[T \ {y}] ELSE h[T]]
  <2>4. \A T \in SUBSET U : y \notin T => T \in SUBSET W
    OBVIOUS
  <2>5. \A T \in SUBSET U : T \ {y} \in SUBSET W
    OBVIOUS
  <2>6. f[y] \in Int
    BY <2>1
  <2>7. h \in [SUBSET W -> Int]
    BY <2>3 DEF IsSum
  <2>8. g \in [SUBSET U -> Int]
    BY <2>4, <2>5, <2>6, <2>7
  <2>9. g[{}] = 0
    BY <2>3 DEF IsSum
  <2>10. ASSUME NEW T \in SUBSET U, NEW x \in T
         PROVE  g[T] = f[x] + g[T \ {x}]
    <3>1. CASE y \notin T
      <4>1. h[T] = f[x] + h[T \ {x}]
        BY <3>1, <2>3, <2>4 DEF IsSum
      <4>. QED BY <3>1, <4>1
    <3>2. CASE y \in T /\ x = y
      BY <3>2
    <3>3. CASE y \in T /\ x # y
      <4>1. h[T \ {y}] = f[x] + h[(T \ {y}) \ {x}]
        BY <3>3, <2>3, <2>5 DEF IsSum
      <4>2. (T \ {y}) \ {x} = (T \ {x}) \ {y}
        OBVIOUS
      <4>3. g[T] = f[y] + (f[x] + h[(T \ {x}) \ {y}])
        BY <3>3, <4>1, <4>2
      <4>4. g[T \ {x}] = f[y] + h[(T \ {x}) \ {y}]
        BY <3>3
      <4>5. h[(T \ {x}) \ {y}] \in Int
        BY <2>5, <2>7
      <4>6. f[x] \in Int
        OBVIOUS
      <4>. HIDE DEF g
      <4>. QED BY <4>3, <4>4, <4>5, <4>6, <2>6
    <3>. QED BY <3>1, <3>2, <3>3
  <2>11. IsSum(g, f, U)
    BY <2>8, <2>9, <2>10 DEF IsSum
  <2>. QED BY <2>11, <1>1
<1>. QED BY <1>2, <1>3

(* The equation of SumOver's recursive function. *)
Unfolds(h, f, S) ==
  h = [T \in SUBSET S |->
         IF T = {} THEN 0
         ELSE LET x == CHOOSE x \in T : TRUE IN f[x] + h[T \ {x}]]

(* SumOver is the value at S of the function its equation defines. *)
LEMMA SumOverFcn ==
  ASSUME NEW S, NEW f
  PROVE  SumOver(f, S) = (CHOOSE h : Unfolds(h, f, S))[S]
BY DEF SumOver, Unfolds

(* A sum in the sense of IsSum satisfies that equation... *)
LEMMA SumUnfold ==
  ASSUME NEW S, NEW f, NEW g, IsSum(g, f, S)
  PROVE  Unfolds(g, f, S)
<1>1. ASSUME NEW T \in SUBSET S, T # {}
      PROVE  LET x == CHOOSE x \in T : TRUE IN g[T] = f[x] + g[T \ {x}]
  <2>1. (CHOOSE x \in T : TRUE) \in T
    BY <1>1
  <2>. QED BY <2>1 DEF IsSum
<1>. QED BY <1>1 DEF IsSum, Unfolds

(* ... and is the only function that does. *)
LEMMA SumUnique ==
  ASSUME NEW S, IsFiniteSet(S), NEW f, NEW g, IsSum(g, f, S),
         NEW h, Unfolds(h, f, S)
  PROVE  h = g
<1>. DEFINE Bad == {T \in SUBSET S : h[T] # g[T]}
<1>1. Bad = {}
  <2>. SUFFICES ASSUME Bad # {} PROVE FALSE
    OBVIOUS
  <2>1. Bad \in SUBSET (SUBSET S)
    OBVIOUS
  <2>2. PICK U \in Bad : \A V \in Bad : V \subseteq U => V = U
    <3>. HIDE DEF Bad
    <3>. QED BY <2>1, SmallestBadSubset
  <2>3. CASE U = {}
    BY <2>2, <2>3 DEF IsSum, Unfolds
  <2>4. CASE U # {}
    <3>. DEFINE x == CHOOSE x \in U : TRUE
    <3>1. x \in U
      BY <2>4
    <3>2. U \ {x} \notin Bad /\ U \ {x} \in SUBSET S
      BY <2>2, <3>1
    <3>3. h[U] = f[x] + h[U \ {x}]
      BY <2>4, <2>2 DEF Unfolds
    <3>4. g[U] = f[x] + g[U \ {x}]
      <4>1. \A y \in U : g[U] = f[y] + g[U \ {y}]
        BY <2>2 DEF IsSum
      <4>. HIDE DEF x
      <4>. QED BY <3>1, <4>1
    <3>. QED BY <2>2, <3>2, <3>3, <3>4
  <2>. QED BY <2>3, <2>4
<1>2. \A T \in SUBSET S : h[T] = g[T]
  BY <1>1
<1>3. g = [T \in SUBSET S |-> g[T]]
  BY DEF IsSum
<1>4. h = [T \in SUBSET S |-> h[T]]
  BY DEF Unfolds
<1>. QED BY <1>2, <1>3, <1>4

(* Hence SumOver is a sum. *)
LEMMA SumOverIsSum ==
  ASSUME NEW S, IsFiniteSet(S), NEW f, NEW g, IsSum(g, f, S)
  PROVE  SumOver(f, S) = g[S]
<1>. DEFINE h == CHOOSE h : Unfolds(h, f, S)
<1>1. Unfolds(h, f, S)
  BY SumUnfold
<1>2. h = g
  <2>. HIDE DEF h
  <2>. QED BY <1>1, SumUnique
<1>. QED BY <1>2, SumOverFcn

(* A sum over the subsets of S is one over the subsets of a part of S. *)
LEMMA SumRestrict ==
  ASSUME NEW S, NEW f, NEW g, IsSum(g, f, S), NEW T \in SUBSET S
  PROVE  IsSum([U \in SUBSET T |-> g[U]], f, T)
BY DEF IsSum

-----------------------------------------------------------------------------
(* The sum of integers is an integer. *)
THEOREM SumType ==
  ASSUME NEW S, IsFiniteSet(S), NEW f, \A x \in S : f[x] \in Int
  PROVE  SumOver(f, S) \in Int
<1>1. PICK g : IsSum(g, f, S)
  BY SumExists
<1>2. g[S] \in Int
  BY <1>1 DEF IsSum
<1>. QED BY <1>1, <1>2, SumOverIsSum

(* Nothing adds up to zero. *)
THEOREM SumEmpty ==
  ASSUME NEW f
  PROVE  SumOver(f, {}) = 0
<1>1. IsFiniteSet({}) /\ \A x \in {} : f[x] \in Int
  BY FS_EmptySet
<1>2. PICK g : IsSum(g, f, {})
  BY <1>1, SumExists
<1>. QED BY <1>1, <1>2, SumOverIsSum DEF IsSum

(* Any element may be taken out first. *)
THEOREM SumRemove ==
  ASSUME NEW S, IsFiniteSet(S), NEW f, \A y \in S : f[y] \in Int, NEW x \in S
  PROVE  SumOver(f, S) = f[x] + SumOver(f, S \ {x})
<1>1. PICK g : IsSum(g, f, S)
  BY SumExists
<1>2. SumOver(f, S) = g[S]
  BY <1>1, SumOverIsSum
<1>. DEFINE T == S \ {x}
            h == [U \in SUBSET T |-> g[U]]
<1>3. IsSum(h, f, T)
  BY <1>1, SumRestrict
<1>4. IsFiniteSet(T)
  BY FS_Subset
<1>5. SumOver(f, T) = h[T]
  BY <1>3, <1>4, SumOverIsSum
<1>6. h[T] = g[T]
  OBVIOUS
<1>7. g[S] = f[x] + g[T]
  BY <1>1 DEF IsSum
<1>. QED BY <1>2, <1>5, <1>6, <1>7

(* Functions that agree on the set have the same sum. *)
THEOREM SumEqual ==
  ASSUME NEW S, IsFiniteSet(S), NEW f, NEW g,
         \A x \in S : f[x] \in Int /\ g[x] = f[x]
  PROVE  SumOver(g, S) = SumOver(f, S)
<1>1. PICK h : IsSum(h, f, S)
  BY SumExists
<1>2. IsSum(h, g, S)
  BY <1>1 DEF IsSum
<1>. QED BY <1>1, <1>2, SumOverIsSum

(* A change at one element changes the sum by the difference there: what   *)
(* one settlement, one fill or one balance update does to a total.         *)
THEOREM SumPoint ==
  ASSUME NEW S, IsFiniteSet(S), NEW f, NEW g, NEW x \in S,
         \A y \in S : f[y] \in Int /\ g[y] \in Int,
         \A y \in S \ {x} : g[y] = f[y]
  PROVE  SumOver(g, S) = SumOver(f, S) + (g[x] - f[x])
<1>1. SumOver(f, S) = f[x] + SumOver(f, S \ {x})
  BY SumRemove
<1>2. SumOver(g, S) = g[x] + SumOver(g, S \ {x})
  BY SumRemove
<1>3. IsFiniteSet(S \ {x})
  BY FS_Subset
<1>4. SumOver(g, S \ {x}) = SumOver(f, S \ {x})
  BY <1>3, SumEqual
<1>5. SumOver(f, S \ {x}) \in Int
  BY <1>3, SumType
<1>. QED BY <1>1, <1>2, <1>4, <1>5

(* Zeros add up to zero. *)
THEOREM SumZero ==
  ASSUME NEW S, IsFiniteSet(S), NEW f, \A x \in S : f[x] = 0
  PROVE  SumOver(f, S) = 0
<1>. DEFINE g == [T \in SUBSET S |-> 0]
<1>1. IsSum(g, f, S)
  BY DEF IsSum
<1>2. g[S] = 0
  OBVIOUS
<1>. QED BY <1>1, <1>2, SumOverIsSum

(* The sum of naturals is a natural. *)
THEOREM SumNat ==
  ASSUME NEW S, IsFiniteSet(S), NEW f, \A x \in S : f[x] \in Nat
  PROVE  SumOver(f, S) \in Nat
<1>1. PICK g : IsSum(g, f, S)
  BY SumExists
<1>. DEFINE Bad == {T \in SUBSET S : g[T] \notin Nat}
<1>2. Bad = {}
  <2>. SUFFICES ASSUME Bad # {} PROVE FALSE
    OBVIOUS
  <2>1. Bad \in SUBSET (SUBSET S)
    OBVIOUS
  <2>2. PICK U \in Bad : \A V \in Bad : V \subseteq U => V = U
    <3>. HIDE DEF Bad
    <3>. QED BY <2>1, SmallestBadSubset
  <2>3. U # {}
    <3>1. g[{}] = 0 /\ g[U] \notin Nat
      BY <1>1 DEF IsSum
    <3>. QED BY <3>1
  <2>4. PICK x \in U : TRUE
    BY <2>3
  <2>5. U \ {x} \notin Bad /\ U \ {x} \in SUBSET S
    BY <2>2, <2>4
  <2>6. g[U] = f[x] + g[U \ {x}]
    BY <1>1, <2>2, <2>4 DEF IsSum
  <2>7. f[x] \in Nat /\ g[U \ {x}] \in Nat
    BY <2>2, <2>4, <2>5
  <2>. QED BY <2>2, <2>6, <2>7
<1>. QED BY <1>1, <1>2, SumOverIsSum

(* No summand exceeds a sum of naturals. *)
THEOREM SumBounds ==
  ASSUME NEW S, IsFiniteSet(S), NEW f, \A y \in S : f[y] \in Nat, NEW x \in S
  PROVE  f[x] <= SumOver(f, S)
<1>1. SumOver(f, S) = f[x] + SumOver(f, S \ {x})
  BY SumRemove
<1>2. IsFiniteSet(S \ {x})
  BY FS_Subset
<1>3. SumOver(f, S \ {x}) \in Nat
  BY <1>2, SumNat
<1>. QED BY <1>1, <1>3
=============================================================================
