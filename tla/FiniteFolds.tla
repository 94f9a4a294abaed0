------------------------------ MODULE FiniteFolds ------------------------------
(***************************************************************************)
(* Induction over finite sets and natural numbers, with the property as a    *)
(* set, and the recursion behind the folds of the community modules: a step   *)
(* over the elements of a finite set, in an order of choice, has exactly one  *)
(* result.                                                                   *)
(***************************************************************************)
EXTENDS FiniteSetsExt, Integers, FiniteSetTheorems, WellFoundedInduction, TLAPS

(* f[T] is the fold of step over T, where pick says which element is last     *)
IsFold(step, base, pick, S, f) ==
  f = [T \in SUBSET S |-> IF T = {} THEN base
                          ELSE step[<<pick[T], f[T \ {pick[T]}]>>]]

Picks(pick, S) == \A T \in SUBSET S : T # {} => pick[T] \in T

-----------------------------------------------------------------------------
(* What holds of a set whenever it holds of its proper subsets holds of every *)
(* finite set                                                                *)
LEMMA FiniteInduction ==
  ASSUME NEW S, IsFiniteSet(S), NEW P,
         \A T \in SUBSET S : (\A U \in SUBSET T : U # T => U \in P) => T \in P
  PROVE  S \in P
<1>1. IsWellFoundedOn(StrictSubsetOrdering(S), FiniteSubsetsOf(S))
  BY FS_StrictSubsetOrderingWellFounded
<1>2. SUBSET S \subseteq FiniteSubsetsOf(S)
  BY FS_Subset DEF FiniteSubsetsOf
<1>3. SUFFICES ASSUME S \notin P PROVE FALSE
  OBVIOUS
<1>4. PICK Bad : Bad = {T \in SUBSET S : T \notin P}
  OBVIOUS
<1>5. Bad \subseteq FiniteSubsetsOf(S) /\ Bad # {}
  BY <1>2, <1>3, <1>4
<1>6. PICK T \in Bad : \A U \in Bad : ~ (<<U, T>> \in StrictSubsetOrdering(S))
  BY <1>1, <1>5, WFMin
<1>7. ASSUME NEW U \in SUBSET T, U # T PROVE U \in P
  <2>1. <<U, T>> \in StrictSubsetOrdering(S)
    BY <1>4, <1>6, <1>7 DEF StrictSubsetOrdering
  <2> QED BY <1>4, <1>6, <1>7, <2>1
<1> QED BY <1>4, <1>6, <1>7

(* A set of natural numbers that is not empty has a least one                 *)
LEMMA LeastNumber ==
  ASSUME NEW T \in SUBSET Nat, T # {}
  PROVE  \E m \in T : \A n \in T : m <= n
<1>1. PICK x \in T : TRUE
  OBVIOUS
<1>0. PICK S : S = T \cap (0 .. x)
  OBVIOUS
<1>2. PICK P : P = {U \in SUBSET S : U # {} => \E m \in U : \A n \in U : m <= n}
  OBVIOUS
<1>3. IsFiniteSet(S)
  <2>1. IsFiniteSet(0 .. x)
    BY FS_Interval
  <2> QED BY <1>0, <2>1, FS_Intersection
<1>4. ASSUME NEW U \in SUBSET S,
             \A V \in SUBSET U : V # U => V \in P
      PROVE  U \in P
  <2>1. SUFFICES ASSUME U # {} PROVE \E m \in U : \A n \in U : m <= n
    BY <1>2
  <2>2. PICK y \in U : y \in Nat
    BY <1>0, <2>1
  <2>3. U \ {y} \in P
    BY <1>4, <2>2
  <2>4. CASE U \ {y} = {}
    BY <2>2, <2>4
  <2>5. CASE U \ {y} # {}
    <3>1. PICK m \in U \ {y} : \A n \in U \ {y} : m <= n
      BY <1>2, <2>3, <2>5
    <3>2. CASE m <= y
      BY <3>1, <3>2
    <3>3. CASE ~(m <= y)
      BY <1>0, <2>2, <3>1, <3>3
    <3> QED BY <3>2, <3>3
  <2> QED BY <2>4, <2>5
<1>5. S \in P
  BY <1>3, <1>4, FiniteInduction
<1>6. PICK m \in S : \A n \in S : m <= n
  BY <1>0, <1>1, <1>2, <1>5
<1>7. ASSUME NEW n \in T PROVE m <= n
  <2>1. CASE n <= x
    BY <1>0, <1>6, <2>1
  <2>2. CASE ~(n <= x)
    BY <1>0, <1>1, <1>6, <2>2
  <2> QED BY <2>1, <2>2
<1> QED BY <1>0, <1>6, <1>7

(* Induction over the natural numbers                                        *)
LEMMA NumberInduction ==
  ASSUME NEW P, 0 \in P, \A n \in Nat : n \in P => n + 1 \in P
  PROVE  \A n \in Nat : n \in P
<1>1. SUFFICES ASSUME NEW k \in Nat, k \notin P PROVE FALSE
  OBVIOUS
<1>2. PICK Bad : Bad = {n \in Nat : n \notin P}
  OBVIOUS
<1>3. PICK m \in Bad : \A n \in Bad : m <= n
  BY <1>1, <1>2, LeastNumber
<1>4. m # 0 /\ m \in Nat
  BY <1>2, <1>3
<1>5. m - 1 \in Nat /\ m - 1 \in P
  BY <1>2, <1>3, <1>4
<1>6. (m - 1) + 1 \in P
  BY <1>5
<1> QED BY <1>2, <1>3, <1>4, <1>6

(* Min and Max of a set of numbers are what they say                         *)
LEMMA LeastIsMin ==
  ASSUME NEW T \in SUBSET Nat, T # {}
  PROVE  Min(T) \in T /\ \A n \in T : Min(T) <= n
<1>1. \E m \in T : \A n \in T : m <= n
  BY LeastNumber
<1> QED BY <1>1 DEF Min

(* a greatest one exists when the set is finite                              *)
LEMMA GreatestIsMax ==
  ASSUME NEW T \in SUBSET Nat, IsFiniteSet(T), T # {}
  PROVE  Max(T) \in T /\ \A n \in T : Max(T) >= n
<1>1. PICK P : P = {U \in SUBSET T : U # {} => \E m \in U : \A n \in U : m >= n}
  OBVIOUS
<1>2. ASSUME NEW U \in SUBSET T, \A V \in SUBSET U : V # U => V \in P
      PROVE  U \in P
  <2>1. SUFFICES ASSUME U # {} PROVE \E m \in U : \A n \in U : m >= n
    BY <1>1
  <2>2. PICK y \in U : TRUE
    BY <2>1
  <2>3. U \ {y} \in P
    BY <1>2, <2>2
  <2>4. CASE U \ {y} = {}
    BY <2>2, <2>4
  <2>5. CASE U \ {y} # {}
    <3>1. PICK m \in U \ {y} : \A n \in U \ {y} : m >= n
      BY <1>1, <2>3, <2>5
    <3>2. CASE m >= y
      BY <3>1, <3>2
    <3>3. CASE ~(m >= y)
      BY <2>2, <3>1, <3>3
    <3> QED BY <3>2, <3>3
  <2> QED BY <2>4, <2>5
<1>3. \E m \in T : \A n \in T : m >= n
  <2>1. T \in P
    BY <1>2, FiniteInduction
  <2> QED BY <1>1, <2>1
<1> QED BY <1>3 DEF Max

-----------------------------------------------------------------------------
(* Numbers *)

(* Products of natural numbers grow with their factors                        *)
LEMMA Products ==
  ASSUME NEW a \in Nat, NEW b \in Nat, NEW k \in Nat
  PROVE  /\ a * k \in Nat
         /\ a <= b => a * k <= b * k
         /\ a < b => a * k + k <= b * k
         /\ k # 0 => a <= a * k
OBVIOUS

(* Division with its remainder                                               *)
LEMMA Division ==
  ASSUME NEW a \in Nat, NEW b \in Nat, b # 0
  PROVE  \E q \in Nat, r \in Nat : q = a \div b /\ r = a % b /\ a = q * b + r /\ r < b
<1>1. PICK q \in Nat : q = a \div b
  OBVIOUS
<1>2. PICK r \in Nat : r = a % b /\ r < b
  OBVIOUS
<1>3. a = b * q + r
  BY <1>1, <1>2
<1>4. b * q = q * b
  OBVIOUS
<1> QED BY <1>1, <1>2, <1>3, <1>4

(* A number below the divisor is the remainder of what it is added to          *)
LEMMA Remainder ==
  ASSUME NEW q \in Nat, NEW r \in Nat, NEW m \in Nat, r < m
  PROVE  (q * m + r) % m = r /\ (q * m + r) \div m = q
<1>1. PICK n \in Nat : n = q * m + r
  BY Products
<1>2. PICK p \in Nat, k \in Nat : p = n \div m /\ k = n % m /\ n = p * m + k /\ k < m
  BY Division
<1>3. CASE p < q
  <2>1. p * m + m <= q * m
    BY <1>3, Products
  <2> QED BY <1>1, <1>2, <2>1, Products
<1>4. CASE q < p
  <2>1. q * m + m <= p * m
    BY <1>4, Products
  <2> QED BY <1>1, <1>2, <2>1, Products
<1>5. CASE p = q
  <2>1. p * m = q * m /\ p * m \in Nat
    BY <1>5, Products
  <2> QED BY <1>1, <1>2, <1>5, <2>1
<1> QED BY <1>2, <1>3, <1>4, <1>5

(* A sum of multiples is a multiple                                          *)
LEMMA MultiplesAdd ==
  ASSUME NEW a \in Nat, NEW b \in Nat, NEW m \in Nat, m # 0, a % m = 0, b % m = 0
  PROVE  (a + b) % m = 0
<1>1. PICK q \in Nat, k \in Nat : q = a \div m /\ k = a % m /\ a = q * m + k /\ k < m
  BY Division
<1>2. PICK r \in Nat, l \in Nat : r = b \div m /\ l = b % m /\ b = r * m + l /\ l < m
  BY Division
<1>3. a + b = (q + r) * m
  BY <1>1, <1>2
<1>4. PICK s \in Nat : s = q + r
  OBVIOUS
<1>5. (s * m) % m = 0
  BY Remainder
<1> QED BY <1>3, <1>4, <1>5

-----------------------------------------------------------------------------
(* Two folds agree wherever both are defined                                  *)
LEMMA FoldsAgree ==
  ASSUME NEW step, NEW base, NEW pick, NEW S, NEW T, IsFiniteSet(T),
         Picks(pick, T), T \subseteq S, NEW f, NEW g,
         IsFold(step, base, pick, S, f), IsFold(step, base, pick, T, g)
  PROVE  f[T] = g[T]
<1>1. PICK P : P = {U \in SUBSET T : f[U] = g[U]}
  OBVIOUS
<1>2. ASSUME NEW U \in SUBSET T, \A V \in SUBSET U : V # U => V \in P
      PROVE  U \in P
  <2>1. /\ f[U] = IF U = {} THEN base ELSE step[<<pick[U], f[U \ {pick[U]}]>>]
        /\ g[U] = IF U = {} THEN base ELSE step[<<pick[U], g[U \ {pick[U]}]>>]
    <3>1. U \in SUBSET S /\ U \in SUBSET T
      OBVIOUS
    <3> QED BY <3>1, Zenon DEF IsFold
  <2>2. CASE U = {}
    BY <1>1, <2>1, <2>2
  <2>3. CASE U # {}
    <3>1. pick[U] \in U
      BY <2>3 DEF Picks
    <3>2. U \ {pick[U]} \in P
      BY <1>2, <3>1
    <3> QED BY <1>1, <2>1, <2>3, <3>2
  <2> QED BY <2>2, <2>3
<1>3. T \in P
  BY <1>2, FiniteInduction
<1> QED BY <1>1, <1>3

(* and there is one                                                          *)
LEMMA FoldExists ==
  ASSUME NEW step, NEW base, NEW pick, NEW S, IsFiniteSet(S), Picks(pick, S)
  PROVE  \E f : IsFold(step, base, pick, S, f)
<1>1. PICK P : P = {T \in SUBSET S : \E f : IsFold(step, base, pick, T, f)}
  OBVIOUS
<1>2. ASSUME NEW T \in SUBSET S, \A U \in SUBSET T : U # T => U \in P
      PROVE  T \in P
  <2>1. PICK F : F = [U \in SUBSET T |-> CHOOSE f : IsFold(step, base, pick, U, f)]
    OBVIOUS
  <2>2. ASSUME NEW U \in SUBSET T, U # T
        PROVE  IsFold(step, base, pick, U, F[U])
    <3>1. \E f : IsFold(step, base, pick, U, f)
      BY <1>1, <1>2, <2>2
    <3>2. F[U] = CHOOSE f : IsFold(step, base, pick, U, f)
      BY <2>1
    <3> QED BY <3>1, <3>2, Zenon
  <2>3. PICK g : g = [U \in SUBSET T |-> IF U = {} THEN base
                        ELSE step[<<pick[U], F[U \ {pick[U]}][U \ {pick[U]}]>>]]
    OBVIOUS
  <2>4. ASSUME NEW W \in SUBSET T, W # T
        PROVE  g[W] = F[W][W]
    <3>1. F[W][W] = IF W = {} THEN base
                    ELSE step[<<pick[W], F[W][W \ {pick[W]}]>>]
      BY <2>2, <2>4, Zenon DEF IsFold
    <3>2. CASE W = {}
      BY <2>3, <3>1, <3>2
    <3>3. CASE W # {}
      <4>1. PICK V : V = W \ {pick[W]}
        OBVIOUS
      <4>2. V \in SUBSET W /\ V \in SUBSET T /\ V # T
        BY <2>4, <4>1
      <4>3. IsFold(step, base, pick, W, F[W]) /\ IsFold(step, base, pick, V, F[V])
        BY <2>2, <2>4, <4>2
      <4>4. IsFiniteSet(V) /\ Picks(pick, V)
        BY <4>2, FS_Subset DEF Picks
      <4>5. F[W][V] = F[V][V]
        BY <4>2, <4>3, <4>4, FoldsAgree
      <4>6. g[W] = step[<<pick[W], F[V][V]>>]
        BY <2>3, <3>3, <4>1
      <4> QED BY <3>1, <3>3, <4>1, <4>5, <4>6
    <3> QED BY <3>2, <3>3
  <2>5. ASSUME NEW U \in SUBSET T, U # {}
        PROVE  F[U \ {pick[U]}][U \ {pick[U]}] = g[U \ {pick[U]}]
    <3>1. pick[U] \in U
      BY <2>5 DEF Picks
    <3> QED BY <2>4, <3>1
  <2>6. g = [U \in SUBSET T |-> IF U = {} THEN base
                                ELSE step[<<pick[U], g[U \ {pick[U]}]>>]]
    BY <2>3, <2>5
  <2> QED BY <1>1, <2>6 DEF IsFold
<1>3. S \in P
  BY <1>2, FiniteInduction
<1> QED BY <1>1, <1>3

-----------------------------------------------------------------------------
(* Sums: SumFunctionOnSet(h, S) adds h over S in an order of choice            *)

SumStep(h, S) == [p \in S \X Nat |-> h[p[1]] + p[2]]
SumIs(h, S, f) ==
  f = [s \in SUBSET S |-> IF s = {} THEN 0
                          ELSE h[CHOOSE x \in s : TRUE] + f[s \ {CHOOSE x \in s : TRUE}]]

(* The sum of the community modules unfolds to such a fold                    *)
LEMMA SumUnfolds ==
  ASSUME NEW h, NEW S, \E f : SumIs(h, S, f)
  PROVE  \E f : SumIs(h, S, f) /\ SumFunctionOnSet(h, S) = f[S]
<1>1. PICK f : f = CHOOSE g : SumIs(h, S, g)
  OBVIOUS
<1>2. SumIs(h, S, f)
  BY <1>1
<1>3. SumFunctionOnSet(h, S) = f[S]
  BY <1>1 DEF SumIs, SumFunctionOnSet, FoldFunctionOnSet, MapThenFoldSet
<1> QED BY <1>2, <1>3


Sizes(h, S) == \A x \in S : h[x] \in Nat

(* Numbers can be summed over any finite set                                  *)
LEMMA SumIsNumber ==
  ASSUME NEW S, IsFiniteSet(S), NEW h, Sizes(h, S)
  PROVE  \E f : SumIs(h, S, f) /\ \A T \in SUBSET S : f[T] \in Nat
<1>1. PICK pick : pick = [T \in SUBSET S |-> CHOOSE x \in T : TRUE]
  OBVIOUS
<1>2. PICK step : step = SumStep(h, S)
  OBVIOUS
<1>3. Picks(pick, S)
  BY <1>1 DEF Picks
<1>4. PICK f : IsFold(step, 0, pick, S, f)
  BY <1>3, FoldExists
<1>5. PICK P : P = {T \in SUBSET S : f[T] \in Nat}
  OBVIOUS
<1>6. ASSUME NEW T \in SUBSET S, T # {}, f[T \ {pick[T]}] \in Nat
      PROVE  f[T] = h[pick[T]] + f[T \ {pick[T]}]
  <2>1. f[T] = step[<<pick[T], f[T \ {pick[T]}]>>]
    BY <1>4, <1>6, Zenon DEF IsFold
  <2>2. pick[T] \in S
    BY <1>3, <1>6 DEF Picks
  <2> QED BY <1>2, <1>6, <2>1, <2>2 DEF SumStep
<1>7. ASSUME NEW T \in SUBSET S, \A U \in SUBSET T : U # T => U \in P
      PROVE  T \in P
  <2>1. CASE T = {}
    BY <1>4, <1>5, <2>1 DEF IsFold
  <2>2. CASE T # {}
    <3>1. pick[T] \in T
      BY <1>3, <2>2 DEF Picks
    <3>2. T \ {pick[T]} \in P
      BY <1>7, <3>1
    <3>3. f[T] = h[pick[T]] + f[T \ {pick[T]}]
      BY <1>5, <1>6, <2>2, <3>2
    <3>4. h[pick[T]] \in Nat /\ f[T \ {pick[T]}] \in Nat
      BY <1>5, <3>1, <3>2 DEF Sizes
    <3> QED BY <1>5, <3>3, <3>4
  <2> QED BY <2>1, <2>2
<1>8. ASSUME NEW T \in SUBSET S PROVE f[T] \in Nat
  <2>1. IsFiniteSet(T)
    BY <1>8, FS_Subset
  <2>2. T \in P
    <3>1. ASSUME NEW U \in SUBSET T, \A V \in SUBSET U : V # U => V \in P
          PROVE  U \in P
      BY <1>7, <3>1
    <3> QED BY <2>1, <3>1, FiniteInduction
  <2> QED BY <1>5, <2>2
<1>9. DOMAIN f = SUBSET S /\ f[{}] = 0 /\ f = [T \in SUBSET S |-> f[T]]
  BY <1>4, Zenon DEF IsFold
<1>11. ASSUME NEW T \in SUBSET S
       PROVE  f[T] = IF T = {} THEN 0
                     ELSE h[CHOOSE x \in T : TRUE] + f[T \ {CHOOSE x \in T : TRUE}]
  <2>1. CASE T = {}
    BY <1>9, <2>1
  <2>2. CASE T # {}
    <3>1. pick[T] = CHOOSE x \in T : TRUE
      BY <1>1
    <3>2. T \ {pick[T]} \in SUBSET S
      OBVIOUS
    <3>3. f[T \ {pick[T]}] \in Nat
      BY <1>8, <3>2
    <3> QED BY <1>6, <2>2, <3>1, <3>3
  <2> QED BY <2>1, <2>2
<1>12. SumIs(h, S, f)
  BY <1>9, <1>11, Zenon DEF SumIs
<1> QED BY <1>8, <1>12

(* The sums over the parts of a finite set are one function                   *)
LEMMA Sums ==
  ASSUME NEW S, IsFiniteSet(S), NEW h, Sizes(h, S)
  PROVE  \E f : /\ SumIs(h, S, f)
                /\ \A T \in SUBSET S : f[T] \in Nat /\ SumFunctionOnSet(h, T) = f[T]
<1>1. PICK f : SumIs(h, S, f) /\ \A T \in SUBSET S : f[T] \in Nat
  BY SumIsNumber
<1>2. ASSUME NEW T \in SUBSET S PROVE SumFunctionOnSet(h, T) = f[T]
  <2>1. IsFiniteSet(T) /\ Sizes(h, T)
    BY FS_Subset DEF Sizes
  <2>2. PICK g : SumIs(h, T, g) /\ SumFunctionOnSet(h, T) = g[T]
    <3>1. \E g : SumIs(h, T, g)
      BY <2>1, SumIsNumber
    <3> QED BY <3>1, SumUnfolds
  <2>3. PICK P : P = {U \in SUBSET T : f[U] = g[U]}
    OBVIOUS
  <2>4. ASSUME NEW U \in SUBSET T, \A V \in SUBSET U : V # U => V \in P
        PROVE  U \in P
    <3>1. PICK x : x = CHOOSE y \in U : TRUE
      OBVIOUS
    <3>2. /\ f[U] = IF U = {} THEN 0 ELSE h[x] + f[U \ {x}]
          /\ g[U] = IF U = {} THEN 0 ELSE h[x] + g[U \ {x}]
      <4>1. U \in SUBSET S /\ U \in SUBSET T
        OBVIOUS
      <4> QED BY <1>1, <2>2, <3>1, <4>1, Zenon DEF SumIs
    <3>3. U # {} => U \ {x} \in P
      BY <2>4, <3>1
    <3> QED BY <2>3, <3>2, <3>3
  <2>5. T \in P
    BY <2>1, <2>4, FiniteInduction
  <2> QED BY <2>2, <2>3, <2>5
<1> QED BY <1>1, <1>2

(* A sum of numbers is one                                                   *)
LEMMA SumType ==
  ASSUME NEW S, IsFiniteSet(S), NEW h, Sizes(h, S)
  PROVE  SumFunctionOnSet(h, S) \in Nat
BY Sums

(* The sum over nothing                                                      *)
LEMMA SumOfNone ==
  ASSUME NEW h
  PROVE  SumFunctionOnSet(h, {}) = 0
<1>1. IsFiniteSet({}) /\ Sizes(h, {})
  BY FS_EmptySet DEF Sizes
<1>2. PICK f : SumIs(h, {}, f) /\ SumFunctionOnSet(h, {}) = f[{}]
  BY <1>1, Sums
<1> QED BY <1>2 DEF SumIs

(* Any one element can be counted first                                      *)
LEMMA SumSplits ==
  ASSUME NEW S, IsFiniteSet(S), NEW h, Sizes(h, S), NEW x \in S
  PROVE  SumFunctionOnSet(h, S) = h[x] + SumFunctionOnSet(h, S \ {x})
<1>1. PICK f : /\ SumIs(h, S, f)
               /\ \A T \in SUBSET S : f[T] \in Nat /\ SumFunctionOnSet(h, T) = f[T]
  BY Sums
<1>2. PICK P : P = {T \in SUBSET S : \A z \in T : f[T] = h[z] + f[T \ {z}]}
  OBVIOUS
<1>3. ASSUME NEW T \in SUBSET S, \A U \in SUBSET T : U # T => U \in P,
             NEW z \in T
      PROVE  f[T] = h[z] + f[T \ {z}]
  <2>1. PICK y : y = CHOOSE v \in T : TRUE
    OBVIOUS
  <2>2. y \in T
    BY <2>1
  <2>3. f[T] = h[y] + f[T \ {y}]
    BY <1>1, <2>1, <2>2, Zenon DEF SumIs
  <2>4. CASE y = z
    BY <2>3, <2>4
  <2>5. CASE y # z
    <3>1. T \ {y} \in P /\ T \ {z} \in P
      BY <1>3, <2>2
    <3>2. PICK W \in SUBSET S : W = (T \ {y}) \ {z} /\ W = (T \ {z}) \ {y}
      OBVIOUS
    <3>3. z \in T \ {y} /\ y \in T \ {z}
      BY <2>2, <2>5
    <3>4. f[T \ {y}] = h[z] + f[W]
      BY <1>2, <3>1, <3>2, <3>3
    <3>5. f[T \ {z}] = h[y] + f[W]
      BY <1>2, <3>1, <3>2, <3>3
    <3>6. h[y] \in Nat /\ h[z] \in Nat /\ f[W] \in Nat
      BY <1>1, <2>2, <3>2 DEF Sizes
    <3> QED BY <2>3, <3>4, <3>5, <3>6
  <2> QED BY <2>4, <2>5
<1>4. S \in P
  <2>1. ASSUME NEW T \in SUBSET S, \A U \in SUBSET T : U # T => U \in P
        PROVE  T \in P
    BY <1>2, <1>3, <2>1
  <2> QED BY <2>1, FiniteInduction
<1> QED BY <1>1, <1>2, <1>4

(* Only the summands count                                                   *)
LEMMA SumAgrees ==
  ASSUME NEW S, IsFiniteSet(S), NEW h, Sizes(h, S), NEW k,
         \A x \in S : k[x] = h[x]
  PROVE  SumFunctionOnSet(k, S) = SumFunctionOnSet(h, S)
<1>1. PICK P : P = {T \in SUBSET S : SumFunctionOnSet(k, T) = SumFunctionOnSet(h, T)}
  OBVIOUS
<1>2. ASSUME NEW T \in SUBSET S, \A U \in SUBSET T : U # T => U \in P
      PROVE  T \in P
  <2>1. CASE T = {}
    BY <1>1, <2>1, SumOfNone
  <2>2. CASE T # {}
    <3>1. PICK x \in T : TRUE
      BY <2>2
    <3>2. IsFiniteSet(T) /\ Sizes(h, T) /\ Sizes(k, T)
      BY FS_Subset DEF Sizes
    <3>3. /\ SumFunctionOnSet(h, T) = h[x] + SumFunctionOnSet(h, T \ {x})
          /\ SumFunctionOnSet(k, T) = k[x] + SumFunctionOnSet(k, T \ {x})
      BY <3>1, <3>2, SumSplits
    <3>4. T \ {x} \in P
      BY <1>2, <3>1
    <3> QED BY <1>1, <3>1, <3>3, <3>4
  <2> QED BY <2>1, <2>2
<1>3. S \in P
  BY <1>2, FiniteInduction
<1> QED BY <1>1, <1>3

(* Leaving out what counts nothing                                           *)
LEMMA SumIgnoresZeros ==
  ASSUME NEW S, IsFiniteSet(S), NEW h, Sizes(h, S),
         NEW T \in SUBSET S, \A x \in S \ T : h[x] = 0
  PROVE  SumFunctionOnSet(h, T) = SumFunctionOnSet(h, S)
<1>1. PICK P : P = {U \in SUBSET S : SumFunctionOnSet(h, U \cap T) = SumFunctionOnSet(h, U)}
  OBVIOUS
<1>2. ASSUME NEW U \in SUBSET S, \A V \in SUBSET U : V # U => V \in P
      PROVE  U \in P
  <2>1. CASE U \subseteq T
    <3>1. U \cap T = U
      BY <2>1
    <3> QED BY <1>1, <3>1
  <2>2. CASE ~(U \subseteq T)
    <3>1. PICK x \in U : x \notin T
      BY <2>2
    <3>2. IsFiniteSet(U) /\ Sizes(h, U) /\ IsFiniteSet(U \ {x}) /\ Sizes(h, U \ {x})
      <4>1. U \ {x} \in SUBSET S
        OBVIOUS
      <4> QED BY <4>1, FS_Subset DEF Sizes
    <3>3. SumFunctionOnSet(h, U) = h[x] + SumFunctionOnSet(h, U \ {x})
      BY <3>1, <3>2, SumSplits
    <3>4. h[x] = 0
      BY <3>1
    <3>5. SumFunctionOnSet(h, U \ {x}) \in Nat
      BY <3>2, SumType
    <3>6. U \ {x} \in P /\ (U \ {x}) \cap T = U \cap T
      BY <1>2, <3>1
    <3> QED BY <1>1, <3>3, <3>4, <3>5, <3>6
  <2> QED BY <2>1, <2>2
<1>3. S \in P
  BY <1>2, FiniteInduction
<1>4. S \cap T = T
  OBVIOUS
<1> QED BY <1>1, <1>3, <1>4

(* One summand changes                                                       *)
LEMMA SumChanges ==
  ASSUME NEW S, IsFiniteSet(S), NEW h, Sizes(h, S), NEW k, Sizes(k, S),
         NEW x \in S, \A y \in S : y # x => k[y] = h[y]
  PROVE  /\ SumFunctionOnSet(h, S) \in Nat /\ SumFunctionOnSet(k, S) \in Nat
         /\ h[x] \in Nat /\ k[x] \in Nat
         /\ h[x] <= SumFunctionOnSet(h, S)
         /\ SumFunctionOnSet(k, S) = (SumFunctionOnSet(h, S) - h[x]) + k[x]
<1>1. /\ SumFunctionOnSet(h, S) = h[x] + SumFunctionOnSet(h, S \ {x})
      /\ SumFunctionOnSet(k, S) = k[x] + SumFunctionOnSet(k, S \ {x})
  BY SumSplits
<1>2. IsFiniteSet(S \ {x}) /\ Sizes(h, S \ {x})
  BY FS_Subset DEF Sizes
<1>3. SumFunctionOnSet(k, S \ {x}) = SumFunctionOnSet(h, S \ {x})
  BY <1>2, SumAgrees
<1>4. SumFunctionOnSet(h, S \ {x}) \in Nat
  BY <1>2, SumType
<1>5. h[x] \in Nat /\ k[x] \in Nat
  BY DEF Sizes
<1> QED BY <1>1, <1>3, <1>4, <1>5

-----------------------------------------------------------------------------
IsIteration(n, base, step, f) ==
  f = [k \in 0 .. n |-> IF k = 0 THEN base ELSE step[<<k, f[k - 1]>>]]

(* A recursion over the numbers up to n whose steps stay in V has a result, and   *)
(* all of it is in V                                                         *)
LEMMA IterationExists ==
  ASSUME NEW n \in Nat, NEW V, NEW base \in V, NEW step \in [Nat \X V -> V]
  PROVE  \E f \in [0 .. n -> V] : IsIteration(n, base, step, f)
<1>1. PICK P : P = {m \in Nat : \E f \in [0 .. m -> V] :
                      f = [k \in 0 .. m |-> IF k = 0 THEN base ELSE step[<<k, f[k - 1]>>]]}
  OBVIOUS
<1>2. 0 \in P
  <2>1. PICK f : f = [k \in 0 .. 0 |-> base]
    OBVIOUS
  <2>2. f \in [0 .. 0 -> V] /\ f = [k \in 0 .. 0 |-> IF k = 0 THEN base ELSE step[<<k, f[k - 1]>>]]
    BY <2>1
  <2> QED BY <1>1, <2>2
<1>3. ASSUME NEW m \in Nat, m \in P PROVE m + 1 \in P
  <2>1. PICK f \in [0 .. m -> V] :
          f = [k \in 0 .. m |-> IF k = 0 THEN base ELSE step[<<k, f[k - 1]>>]]
    BY <1>1, <1>3
  <2>2. PICK g : g = [k \in 0 .. m + 1 |-> IF k = m + 1 THEN step[<<m + 1, f[m]>>] ELSE f[k]]
    OBVIOUS
  <2>3. f[m] \in V /\ step[<<m + 1, f[m]>>] \in V
    OBVIOUS
  <2>4. \A k \in 0 .. m + 1 : k # m + 1 => k \in 0 .. m
    OBVIOUS
  <2>5. g \in [0 .. m + 1 -> V]
    BY <2>2, <2>3, <2>4
  <2>6. \A k \in 0 .. m : g[k] = f[k]
    BY <2>2
  <2>7. ASSUME NEW k \in 0 .. m + 1
        PROVE  g[k] = IF k = 0 THEN base ELSE step[<<k, g[k - 1]>>]
    <3>1. CASE k = m + 1
      <4>1. k - 1 = m /\ g[m] = f[m] /\ k # 0
        BY <2>6, <3>1
      <4> QED BY <2>2, <3>1, <4>1
    <3>2. CASE k # m + 1
      <4>1. k \in 0 .. m /\ (k # 0 => k - 1 \in 0 .. m)
        BY <3>2
      <4>2. g[k] = f[k] /\ (k # 0 => g[k - 1] = f[k - 1])
        BY <2>6, <4>1
      <4>3. f[k] = IF k = 0 THEN base ELSE step[<<k, f[k - 1]>>]
        BY <2>1, <4>1
      <4> QED BY <4>2, <4>3
    <3> QED BY <3>1, <3>2
  <2>8. g = [k \in 0 .. m + 1 |-> IF k = 0 THEN base ELSE step[<<k, g[k - 1]>>]]
    BY <2>2, <2>7
  <2>9. \E f2 \in [0 .. m + 1 -> V] :
          f2 = [k \in 0 .. m + 1 |-> IF k = 0 THEN base ELSE step[<<k, f2[k - 1]>>]]
    <3> WITNESS g \in [0 .. m + 1 -> V]
    <3> QED BY <2>8
  <2>10. m + 1 \in Nat
    OBVIOUS
  <2> QED BY <1>1, <2>9, <2>10
<1>4. n \in P
  BY <1>2, <1>3, NumberInduction
<1>5. PICK f \in [0 .. n -> V] :
        f = [k \in 0 .. n |-> IF k = 0 THEN base ELSE step[<<k, f[k - 1]>>]]
  BY <1>1, <1>4
<1>6. IsIteration(n, base, step, f)
  BY <1>5, Zenon DEF IsIteration
<1> QED BY <1>6
=============================================================================
