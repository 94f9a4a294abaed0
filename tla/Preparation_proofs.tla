-------------------------- MODULE Preparation_proofs --------------------------
(***************************************************************************)
(* What preparation rests on.  The symbolic coverage of a resource stands for   *)
(* exactly the cells that are initialized, for any sizes and layouts; a         *)
(* prepared graph keeps what its fragments mean, for any resources, authors,    *)
(* compositions, orders and seeds.                                            *)
(***************************************************************************)
EXTENDS Coverage, Graph, FiniteFolds

(***************************************************************************)
(* Coverage.                                                                 *)
(***************************************************************************)
-----------------------------------------------------------------------------
(* Intervals *)

(* The intervals start and end inside 0 .. n                                   *)
Bounded(I, n) == \A i \in I : i \in Nat \X Nat /\ i[1] < i[2] /\ i[2] <= n

Apart(I) == \A i, j \in I : i = j \/ i[2] < j[1] \/ j[2] < i[1]

(* From s to e all cells are in C, and those next to them are not                *)
IsSpan(C, s, e) ==
  /\ s \in Nat /\ e \in Nat /\ s < e
  /\ \A x \in Nat : s <= x /\ x < e => x \in C
  /\ s # 0 => s - 1 \notin C
  /\ e \notin C

LEMMA CellOf ==
  ASSUME NEW I, NEW n \in Nat, Bounded(I, n), NEW x
  PROVE  x \in SpanCells(I) <=> x \in Nat /\ \E i \in I : i[1] <= x /\ x < i[2]
BY DEF SpanCells, Bounded

(* A cell that is covered is in a run of covered cells                          *)
LEMMA RunAround ==
  ASSUME NEW C \in SUBSET Nat, NEW n \in Nat, \A x \in C : x < n, NEW x \in C
  PROVE  \E s, e \in Nat : s <= x /\ x < e /\ e <= n /\ IsSpan(C, s, e)
<1>1. PICK S : S = {s \in Nat : s <= x /\ \A y \in Nat : s <= y /\ y <= x => y \in C}
  OBVIOUS
<1>2. PICK E : E = {e \in Nat : x < e /\ e \notin C}
  OBVIOUS
<1>3. x \in S /\ n \in E /\ S \subseteq Nat /\ E \subseteq Nat
  BY <1>1, <1>2
<1>4. PICK s \in S : \A t \in S : s <= t
  BY <1>3, LeastNumber
<1>5. PICK e \in E : \A t \in E : e <= t
  BY <1>3, LeastNumber
<1>6. s \in Nat /\ e \in Nat /\ s <= x /\ x < e /\ e <= n /\ e \notin C
  BY <1>1, <1>2, <1>3, <1>4, <1>5
<1>7. ASSUME NEW y \in Nat, s <= y, y < e PROVE y \in C
  <2>1. CASE y <= x
    BY <1>1, <1>4, <1>7, <2>1
  <2>2. CASE ~ (y <= x)
    BY <1>2, <1>5, <1>6, <1>7, <2>2
  <2> QED BY <2>1, <2>2
<1>8. ASSUME s # 0 PROVE s - 1 \notin C
  <2>1. s - 1 \in Nat /\ s - 1 \notin S
    BY <1>4, <1>6, <1>8
  <2>2. PICK y \in Nat : s - 1 <= y /\ y <= x /\ y \notin C
    BY <1>1, <1>6, <2>1
  <2>3. y = s - 1
    BY <1>6, <1>7, <2>1, <2>2
  <2> QED BY <2>2, <2>3
<1> QED BY <1>6, <1>7, <1>8 DEF IsSpan

(* Runs that touch or overlap are the same                                      *)
LEMMA RunsApart ==
  ASSUME NEW C, NEW s, NEW e, NEW t, NEW f, IsSpan(C, s, e), IsSpan(C, t, f)
  PROVE  (s = t /\ e = f) \/ e < t \/ f < s
<1>1. SUFFICES ASSUME t <= e, s <= f PROVE s = t /\ e = f
  BY DEF IsSpan
<1>2. /\ s \in Nat /\ e \in Nat /\ s < e /\ e \notin C /\ (s # 0 => s - 1 \notin C)
      /\ t \in Nat /\ f \in Nat /\ t < f /\ f \notin C /\ (t # 0 => t - 1 \notin C)
      /\ \A x \in Nat : s <= x /\ x < e => x \in C
      /\ \A x \in Nat : t <= x /\ x < f => x \in C
  BY DEF IsSpan
<1>3. ~ (s < t)
  <2>1. SUFFICES ASSUME s < t PROVE FALSE
    OBVIOUS
  <2>2. t - 1 \in Nat /\ s <= t - 1 /\ t - 1 < e /\ t # 0
    BY <1>1, <1>2, <2>1
  <2> QED BY <1>2, <2>2
<1>4. ~ (t < s)
  <2>1. SUFFICES ASSUME t < s PROVE FALSE
    OBVIOUS
  <2>2. s - 1 \in Nat /\ t <= s - 1 /\ s - 1 < f /\ s # 0
    BY <1>1, <1>2, <2>1
  <2> QED BY <1>2, <2>2
<1>5. s = t
  BY <1>2, <1>3, <1>4
<1>6. ~ (e < f) /\ ~ (f < e)
  BY <1>2, <1>5
<1> QED BY <1>2, <1>5, <1>6

(* Where merged intervals start and end                                         *)
Starts(I) ==
  {i[1] : i \in {j \in I : ~ \E k \in I : k[1] < j[1] /\ j[1] <= k[2]}}
Ends(I) ==
  {i[2] : i \in {j \in I : ~ \E k \in I : k[1] <= j[2] /\ j[2] < k[2]}}

LEMMA RunEnds ==
  ASSUME NEW I, NEW n \in Nat, Bounded(I, n), NEW s, NEW e, IsSpan(SpanCells(I), s, e)
  PROVE  s \in Starts(I) /\ e \in Ends(I)
<1>1. PICK C : C = SpanCells(I)
  OBVIOUS
<1>2. /\ s \in Nat /\ e \in Nat /\ s < e /\ e \notin C /\ (s # 0 => s - 1 \notin C)
      /\ \A x \in Nat : s <= x /\ x < e => x \in C
  BY <1>1 DEF IsSpan
<1>3. \A i \in I : i[1] \in Nat /\ i[2] \in Nat /\ i[1] < i[2]
  BY DEF Bounded
<1>4. \A x \in Nat : x \in C <=> \E i \in I : i[1] <= x /\ x < i[2]
  BY <1>1, CellOf
<1>5. s \in Starts(I)
  <2>1. PICK i \in I : i[1] <= s /\ s < i[2]
    BY <1>2, <1>4
  <2>2. ASSUME NEW k \in I, k[1] < s PROVE ~ (s <= k[2])
    <3>1. SUFFICES ASSUME s <= k[2] PROVE FALSE
      OBVIOUS
    <3>2. s # 0 /\ s - 1 \in Nat /\ k[1] <= s - 1 /\ s - 1 < k[2]
      BY <1>2, <1>3, <2>2, <3>1
    <3> QED BY <1>2, <1>4, <3>2
  <2>3. i[1] = s
    BY <1>2, <1>3, <2>1, <2>2
  <2> QED BY <2>2, <2>3 DEF Starts
<1>6. e \in Ends(I)
  <2>1. e - 1 \in Nat /\ e - 1 \in C
    BY <1>2
  <2>2. PICK i \in I : i[1] <= e - 1 /\ e - 1 < i[2]
    BY <1>4, <2>1
  <2>3. \A k \in I : k[1] <= e => ~ (e < k[2])
    BY <1>2, <1>3, <1>4
  <2>4. i[2] = e
    BY <1>2, <1>3, <2>2, <2>3
  <2> QED BY <2>3, <2>4 DEF Ends
<1> QED BY <1>5, <1>6

LEMMA EndsAreFree ==
  ASSUME NEW I, NEW n \in Nat, Bounded(I, n)
  PROVE  /\ \A e \in Ends(I) : e \in Nat /\ e \notin SpanCells(I)
         /\ \A s \in Starts(I) : s \in SpanCells(I) /\ (s # 0 => s - 1 \notin SpanCells(I))
<1>1. \A i \in I : i[1] \in Nat /\ i[2] \in Nat /\ i[1] < i[2]
  BY DEF Bounded
<1>2. ASSUME NEW e \in Ends(I) PROVE e \in Nat /\ e \notin SpanCells(I)
  BY <1>1, <1>2, CellOf DEF Ends
<1>3. ASSUME NEW s \in Starts(I) PROVE s \in SpanCells(I) /\ (s # 0 => s - 1 \notin SpanCells(I))
  <2>1. PICK i \in I : i[1] = s /\ ~ \E k \in I : k[1] < s /\ s <= k[2]
    BY <1>3 DEF Starts
  <2>2. s \in SpanCells(I)
    BY <1>1, <2>1, CellOf
  <2>3. ASSUME s # 0, s - 1 \in SpanCells(I) PROVE FALSE
    <3>1. PICK k \in I : k[1] <= s - 1 /\ s - 1 < k[2]
      BY <2>3, CellOf
    <3> QED BY <1>1, <2>1, <3>1
  <2> QED BY <2>2, <2>3
<1> QED BY <1>2, <1>3

(* Merging leaves the runs                                                     *)
LEMMA MergedAreRuns ==
  ASSUME NEW I, NEW n \in Nat, Bounded(I, n), NEW m
  PROVE  m \in Merged(I) <=> m \in Nat \X Nat /\ IsSpan(SpanCells(I), m[1], m[2])
<1>1. PICK C : C = SpanCells(I)
  OBVIOUS
<1>2. PICK S, E : S = Starts(I) /\ E = Ends(I)
  OBVIOUS
<1>3. Merged(I) = {<<s, CHOOSE e \in E : e > s /\ \A f \in E : f > s => e <= f>> : s \in S}
  BY <1>2, Zenon DEF Merged, Starts, Ends
<1>4. C \subseteq Nat /\ \A x \in C : x < n
  <2>1. \A i \in I : i[1] \in Nat /\ i[2] \in Nat /\ i[2] <= n
    BY DEF Bounded
  <2> QED BY <1>1, <2>1, CellOf
<1>5. ASSUME NEW s, NEW e, IsSpan(C, s, e)
      PROVE  s \in S /\ e = CHOOSE d \in E : d > s /\ \A f \in E : f > s => d <= f
  <2>1. s \in S /\ e \in E /\ s \in Nat /\ e \in Nat /\ e > s
    BY <1>1, <1>2, <1>5, RunEnds DEF IsSpan
  <2>2. ASSUME NEW f \in E, f > s PROVE e <= f
    BY <1>1, <1>2, <1>5, <2>2, <2>1, EndsAreFree DEF IsSpan
  <2>3. ASSUME NEW d \in E, d > s, \A f \in E : f > s => d <= f PROVE d = e
    <3>1. d \in Nat
      BY <1>2, EndsAreFree
    <3>2. d <= e /\ e <= d
      BY <2>1, <2>2, <2>3
    <3> QED BY <2>1, <3>1, <3>2
  <2> QED BY <2>1, <2>2, <2>3
<1>6. ASSUME NEW s \in S PROVE \E e \in Nat : s \in Nat /\ IsSpan(C, s, e)
  <2>1. s \in C /\ (s # 0 => s - 1 \notin C)
    BY <1>1, <1>2, EndsAreFree
  <2>2. PICK t, e \in Nat : t <= s /\ s < e /\ IsSpan(C, t, e)
    BY <1>4, <2>1, RunAround
  <2>3. t = s
    <3>1. SUFFICES ASSUME t # s PROVE FALSE
      OBVIOUS
    <3>2. s \in Nat /\ s # 0 /\ s - 1 \in Nat /\ t <= s - 1 /\ s - 1 < e
      BY <1>4, <2>1, <2>2, <3>1
    <3> QED BY <2>1, <2>2, <3>2 DEF IsSpan
  <2> QED BY <2>2, <2>3
<1>7. ASSUME m \in Merged(I) PROVE m \in Nat \X Nat /\ IsSpan(C, m[1], m[2])
  <2>1. PICK s \in S : m = <<s, CHOOSE e \in E : e > s /\ \A f \in E : f > s => e <= f>>
    BY <1>3, <1>7
  <2>2. PICK e \in Nat : s \in Nat /\ IsSpan(C, s, e)
    BY <1>6
  <2>3. m = <<s, e>>
    BY <1>5, <2>1, <2>2
  <2> QED BY <2>2, <2>3
<1>8. ASSUME m \in Nat \X Nat, IsSpan(C, m[1], m[2]) PROVE m \in Merged(I)
  <2>1. m = <<m[1], m[2]>>
    BY <1>8
  <2> QED BY <1>3, <1>5, <1>8, <2>1
<1> QED BY <1>1, <1>7, <1>8

(* so they stand for the same cells, one interval for each run                  *)
LEMMA MergedKeeps ==
  ASSUME NEW I, NEW n \in Nat, Bounded(I, n)
  PROVE  Bounded(Merged(I), n) /\ Apart(Merged(I)) /\ SpanCells(Merged(I)) = SpanCells(I)
<1>1. PICK C : C = SpanCells(I)
  OBVIOUS
<1>2. C \subseteq Nat /\ \A x \in C : x < n
  <2>1. \A i \in I : i[1] \in Nat /\ i[2] \in Nat /\ i[2] <= n
    BY DEF Bounded
  <2> QED BY <1>1, <2>1, CellOf
<1>3. \A m : m \in Merged(I) <=> m \in Nat \X Nat /\ IsSpan(C, m[1], m[2])
  BY <1>1, MergedAreRuns
<1>4. Bounded(Merged(I), n)
  <2>1. ASSUME NEW m \in Merged(I) PROVE m[2] <= n
    <3>1. m[1] \in Nat /\ m[2] \in Nat /\ m[2] - 1 \in Nat /\ m[2] - 1 \in C
      BY <1>3 DEF IsSpan
    <3> QED BY <1>2, <3>1
  <2> QED BY <1>3, <2>1 DEF Bounded, IsSpan
<1>5. Apart(Merged(I))
  <2>1. ASSUME NEW i \in Merged(I), NEW j \in Merged(I)
        PROVE  i = j \/ i[2] < j[1] \/ j[2] < i[1]
    <3>1. i \in Nat \X Nat /\ j \in Nat \X Nat /\ IsSpan(C, i[1], i[2]) /\ IsSpan(C, j[1], j[2])
      BY <1>3
    <3>2. (i[1] = j[1] /\ i[2] = j[2]) \/ i[2] < j[1] \/ j[2] < i[1]
      BY <3>1, RunsApart
    <3> QED BY <3>1, <3>2
  <2> QED BY <2>1 DEF Apart
<1>6. ASSUME NEW x \in Nat PROVE x \in SpanCells(Merged(I)) <=> x \in C
  <2>1. x \in SpanCells(Merged(I)) <=> \E m \in Merged(I) : m[1] <= x /\ x < m[2]
    BY <1>4, CellOf
  <2>2. ASSUME x \in C PROVE \E m \in Merged(I) : m[1] <= x /\ x < m[2]
    <3>1. PICK s, e \in Nat : s <= x /\ x < e /\ IsSpan(C, s, e)
      BY <1>2, <2>2, RunAround
    <3>2. <<s, e>> \in Merged(I)
      BY <1>3, <3>1
    <3> QED BY <3>1, <3>2
  <2>3. ASSUME NEW m \in Merged(I), m[1] <= x, x < m[2] PROVE x \in C
    BY <1>3, <2>3 DEF IsSpan
  <2> QED BY <2>1, <2>2, <2>3
<1>7. SpanCells(Merged(I)) \subseteq Nat
  BY <1>4, CellOf
<1> QED BY <1>1, <1>2, <1>4, <1>5, <1>6, <1>7

(* Containment by intervals is containment of the cells                         *)
LEMMA WithinIsExact ==
  ASSUME NEW I, NEW O, NEW n \in Nat, NEW k \in Nat, Bounded(I, k), Bounded(O, n), Apart(O)
  PROVE  Within(I, O) <=> SpanCells(I) \subseteq SpanCells(O)
<1>1. \A i \in I \cup O : i[1] \in Nat /\ i[2] \in Nat /\ i[1] < i[2]
  BY DEF Bounded
<1>2. ASSUME Within(I, O), NEW x \in SpanCells(I) PROVE x \in SpanCells(O)
  <2>1. PICK i \in I : x \in Nat /\ i[1] <= x /\ x < i[2]
    BY <1>2, CellOf
  <2>2. PICK o \in O : o[1] <= i[1] /\ i[2] <= o[2]
    BY <1>2 DEF Within
  <2>3. o[1] <= x /\ x < o[2]
    BY <1>1, <2>1, <2>2
  <2> QED BY <2>1, <2>3, CellOf
<1>3. ASSUME SpanCells(I) \subseteq SpanCells(O), NEW i \in I
      PROVE  \E o \in O : o[1] <= i[1] /\ i[2] <= o[2]
  <2>1. \A x \in Nat : i[1] <= x /\ x < i[2] => \E o \in O : o[1] <= x /\ x < o[2]
    BY <1>3, CellOf
  <2>2. PICK o \in O : o[1] <= i[1] /\ i[1] < o[2]
    BY <1>1, <2>1
  <2>3. ASSUME o[2] < i[2] PROVE FALSE
    <3>1. PICK p \in O : p[1] <= o[2] /\ o[2] < p[2]
      BY <1>1, <2>1, <2>2, <2>3
    <3>2. p = o \/ p[2] < o[1] \/ o[2] < p[1]
      BY DEF Apart
    <3> QED BY <1>1, <3>1, <3>2
  <2>4. i[2] <= o[2]
    BY <1>1, <2>3
  <2> QED BY <2>2, <2>4
<1> QED BY <1>2, <1>3 DEF Within

LEMMA OverlapsMeet ==
  ASSUME NEW L, NEW R, NEW n \in Nat, NEW k \in Nat, Bounded(L, n), Bounded(R, k)
  PROVE  Bounded(Overlaps(L, R), n) /\ SpanCells(Overlaps(L, R)) = SpanCells(L) \cap SpanCells(R)
<1>1. \A i \in L \cup R : i[1] \in Nat /\ i[2] \in Nat /\ i[1] < i[2]
  BY DEF Bounded
<1>2. ASSUME NEW l \in L, NEW r \in R
      PROVE  /\ Greater(l[1], r[1]) \in Nat /\ Lesser(l[2], r[2]) \in Nat
             /\ Lesser(l[2], r[2]) <= l[2]
             /\ \A x \in Nat : Greater(l[1], r[1]) <= x /\ x < Lesser(l[2], r[2])
                  <=> l[1] <= x /\ x < l[2] /\ r[1] <= x /\ x < r[2]
  BY <1>1, <1>2 DEF Greater, Lesser
<1>3. PICK O : O = Overlaps(L, R)
  OBVIOUS
<1>4. \A i : i \in O <=> /\ \E l \in L, r \in R : i = <<Greater(l[1], r[1]), Lesser(l[2], r[2])>>
                         /\ i[1] < i[2]
  BY <1>3 DEF Overlaps
<1>5. Bounded(O, n)
  <2>1. ASSUME NEW i \in O PROVE i \in Nat \X Nat /\ i[1] < i[2] /\ i[2] <= n
    <3>1. PICK l \in L, r \in R : i = <<Greater(l[1], r[1]), Lesser(l[2], r[2])>>
      BY <1>4
    <3>2. l[2] <= n /\ l[2] \in Nat
      BY <1>1 DEF Bounded
    <3>3. i[1] = Greater(l[1], r[1]) /\ i[2] = Lesser(l[2], r[2]) /\ i[1] < i[2]
      BY <1>4, <3>1
    <3>4. i \in Nat \X Nat /\ i[2] <= l[2] /\ i[2] \in Nat
      BY <1>2, <3>1, <3>3
    <3> QED BY <3>2, <3>3, <3>4
  <2> QED BY <2>1 DEF Bounded
<1>6. ASSUME NEW x \in Nat
      PROVE  x \in SpanCells(O) <=> x \in SpanCells(L) /\ x \in SpanCells(R)
  <2>1. /\ x \in SpanCells(O) <=> \E i \in O : i[1] <= x /\ x < i[2]
        /\ x \in SpanCells(L) <=> \E i \in L : i[1] <= x /\ x < i[2]
        /\ x \in SpanCells(R) <=> \E i \in R : i[1] <= x /\ x < i[2]
    BY <1>5, CellOf
  <2>2. ASSUME NEW i \in O, i[1] <= x, x < i[2]
        PROVE  (\E l \in L : l[1] <= x /\ x < l[2]) /\ (\E r \in R : r[1] <= x /\ x < r[2])
    <3>1. PICK l \in L, r \in R : i = <<Greater(l[1], r[1]), Lesser(l[2], r[2])>>
      BY <1>4
    <3>2. Greater(l[1], r[1]) <= x /\ x < Lesser(l[2], r[2])
      BY <2>2, <3>1
    <3> QED BY <1>2, <3>2
  <2>3. ASSUME NEW l \in L, l[1] <= x, x < l[2], NEW r \in R, r[1] <= x, x < r[2]
        PROVE  \E i \in O : i[1] <= x /\ x < i[2]
    <3>1. PICK i : i = <<Greater(l[1], r[1]), Lesser(l[2], r[2])>>
      OBVIOUS
    <3>2. i[1] = Greater(l[1], r[1]) /\ i[2] = Lesser(l[2], r[2])
      BY <3>1
    <3>3. i[1] <= x /\ x < i[2] /\ i[1] \in Nat /\ i[2] \in Nat
      BY <1>2, <2>3, <3>2
    <3>4. i \in O
      BY <1>4, <3>1, <3>3
    <3> QED BY <3>3, <3>4
  <2> QED BY <2>1, <2>2, <2>3
<1>7. SpanCells(O) \subseteq Nat /\ SpanCells(L) \subseteq Nat
  BY <1>5, CellOf
<1> QED BY <1>3, <1>5, <1>6, <1>7

(* One interval taken out                                                     *)
LEMMA SubtractedIs ==
  ASSUME NEW I, NEW n \in Nat, Bounded(I, n), Apart(I),
         NEW gone \in Nat \X Nat, gone[1] < gone[2]
  PROVE  /\ Bounded(Subtracted(I, gone), n) /\ Apart(Subtracted(I, gone))
         /\ SpanCells(Subtracted(I, gone)) = SpanCells(I) \ (gone[1] .. gone[2] - 1)
<1>1. PICK a, b \in Nat : gone = <<a, b>> /\ a < b
  OBVIOUS
<1>2. PICK T : T = Subtracted(I, gone)
  OBVIOUS
<1>3. \A i \in I : i = <<i[1], i[2]>> /\ i[1] \in Nat /\ i[2] \in Nat /\ i[1] < i[2] /\ i[2] <= n
  BY DEF Bounded
<1>4. \A t : t \in T <=> \E i \in I :
         \/ t = i /\ (i[2] <= a \/ i[1] >= b)
         \/ ~ (i[2] <= a \/ i[1] >= b) /\ t \in {<<i[1], a>>, <<b, i[2]>>} /\ t[1] < t[2]
  BY <1>1, <1>2 DEF Subtracted
<1>5. ASSUME NEW t \in T
      PROVE  \E i \in I : /\ t \in Nat \X Nat /\ t[1] < t[2] /\ i[1] <= t[1] /\ t[2] <= i[2]
                          /\ t[2] <= a \/ t[1] >= b
                          /\ t[2] = i[2] \/ (t[2] = a /\ i[1] = t[1])
                          /\ t[1] = i[1] \/ (t[1] = b /\ i[2] = t[2])
  <2>1. PICK i \in I :
         \/ t = i /\ (i[2] <= a \/ i[1] >= b)
         \/ ~ (i[2] <= a \/ i[1] >= b) /\ t \in {<<i[1], a>>, <<b, i[2]>>} /\ t[1] < t[2]
    BY <1>4
  <2>2. CASE t = i /\ (i[2] <= a \/ i[1] >= b)
    BY <1>3, <2>2
  <2>3. CASE ~ (i[2] <= a \/ i[1] >= b) /\ t = <<i[1], a>> /\ t[1] < t[2]
    <3>1. t[1] = i[1] /\ t[2] = a
      BY <2>3
    <3> QED BY <1>3, <2>3, <3>1
  <2>4. CASE ~ (i[2] <= a \/ i[1] >= b) /\ t = <<b, i[2]>> /\ t[1] < t[2]
    <3>1. t[1] = b /\ t[2] = i[2]
      BY <2>4
    <3> QED BY <1>3, <2>4, <3>1
  <2> QED BY <2>1, <2>2, <2>3, <2>4
<1>6. Bounded(T, n)
  BY <1>3, <1>5 DEF Bounded
<1>7. Apart(T)
  <2>1. ASSUME NEW t \in T, NEW u \in T, ~ (t[2] < u[1]), ~ (u[2] < t[1]) PROVE t = u
    <3>1. PICK i \in I : /\ t \in Nat \X Nat /\ t[1] < t[2] /\ i[1] <= t[1] /\ t[2] <= i[2]
                         /\ t[2] <= a \/ t[1] >= b
                         /\ t[2] = i[2] \/ (t[2] = a /\ i[1] = t[1])
                         /\ t[1] = i[1] \/ (t[1] = b /\ i[2] = t[2])
      BY <1>5
    <3>2. PICK j \in I : /\ u \in Nat \X Nat /\ u[1] < u[2] /\ j[1] <= u[1] /\ u[2] <= j[2]
                         /\ u[2] <= a \/ u[1] >= b
                         /\ u[2] = j[2] \/ (u[2] = a /\ j[1] = u[1])
                         /\ u[1] = j[1] \/ (u[1] = b /\ j[2] = u[2])
      BY <1>5
    <3>3. i = j
      <4>1. i = j \/ i[2] < j[1] \/ j[2] < i[1]
        BY DEF Apart
      <4> QED BY <1>3, <2>1, <3>1, <3>2, <4>1
    <3>4. t[1] = u[1] /\ t[2] = u[2]
      BY <1>1, <1>3, <2>1, <3>1, <3>2, <3>3
    <3> QED BY <3>1, <3>2, <3>4
  <2> QED BY <2>1 DEF Apart
<1>8. ASSUME NEW x \in Nat
      PROVE  x \in SpanCells(T) <=> x \in SpanCells(I) /\ ~ (a <= x /\ x < b)
  <2>1. /\ x \in SpanCells(T) <=> \E i \in T : i[1] <= x /\ x < i[2]
        /\ x \in SpanCells(I) <=> \E i \in I : i[1] <= x /\ x < i[2]
    BY <1>6, CellOf
  <2>2. ASSUME NEW t \in T, t[1] <= x, x < t[2]
        PROVE  (\E i \in I : i[1] <= x /\ x < i[2]) /\ ~ (a <= x /\ x < b)
    <3>1. PICK i \in I : /\ t \in Nat \X Nat /\ i[1] <= t[1] /\ t[2] <= i[2]
                         /\ t[2] <= a \/ t[1] >= b
      BY <1>5
    <3>2. i[1] <= x /\ x < i[2] /\ ~ (a <= x /\ x < b)
      BY <1>1, <1>3, <2>2, <3>1
    <3> QED BY <3>2
  <2>3. ASSUME NEW i \in I, i[1] <= x, x < i[2], ~ (a <= x /\ x < b)
        PROVE  \E t \in T : t[1] <= x /\ x < t[2]
    <3>1. CASE i[2] <= a \/ i[1] >= b
      BY <1>4, <2>3, <3>1
    <3>2. CASE ~ (i[2] <= a \/ i[1] >= b) /\ x < a
      <4>1. PICK t : t = <<i[1], a>>
        OBVIOUS
      <4>2. t[1] = i[1] /\ t[2] = a /\ t[1] < t[2]
        BY <1>1, <1>3, <2>3, <3>2, <4>1
      <4>3. t \in T
        BY <1>4, <3>2, <4>1, <4>2
      <4> QED BY <2>3, <3>2, <4>2, <4>3
    <3>3. CASE ~ (i[2] <= a \/ i[1] >= b) /\ b <= x
      <4>1. PICK t : t = <<b, i[2]>>
        OBVIOUS
      <4>2. t[1] = b /\ t[2] = i[2] /\ t[1] < t[2]
        BY <1>1, <1>3, <2>3, <3>3, <4>1
      <4>3. t \in T
        BY <1>4, <3>3, <4>1, <4>2
      <4> QED BY <2>3, <3>3, <4>2, <4>3
    <3> QED BY <1>1, <2>3, <3>1, <3>2, <3>3
  <2> QED BY <2>1, <2>2, <2>3
<1>9. SpanCells(T) \subseteq Nat /\ SpanCells(I) \subseteq Nat
  BY <1>6, CellOf
<1>10. gone[1] = a /\ gone[2] = b
  BY <1>1
<1> QED BY <1>1, <1>2, <1>6, <1>7, <1>8, <1>9, <1>10

(* and finitely many, in any order                                            *)
IsCut(have, gone, f) ==
  f = [s \in SUBSET gone |-> IF s = {} THEN have
         ELSE Subtracted(f[s \ {CHOOSE x \in s : TRUE}], CHOOSE x \in s : TRUE)]

CutBy(have, n, cells, gone) ==
  Bounded(gone, n) /\ Apart(gone) /\ SpanCells(gone) = have \ cells

LEMMA CutIs ==
  ASSUME NEW I, NEW n \in Nat, Bounded(I, n), Apart(I),
         NEW G, NEW k \in Nat, Bounded(G, k), IsFiniteSet(G)
  PROVE  CutBy(SpanCells(I), n, SpanCells(G), Cut(I, G))
<1>1. PICK pick : pick = [T \in SUBSET G |-> CHOOSE x \in T : TRUE]
  OBVIOUS
<1>2. PICK V : V = {J \in SUBSET ((0 .. n) \X (0 .. n)) : TRUE}
  OBVIOUS
<1>3. PICK step : step = [p \in G \X SUBSET ((0 .. n) \X (0 .. n)) |-> Subtracted(p[2], p[1])]
  OBVIOUS
<1>4. Picks(pick, G)
  BY <1>1 DEF Picks
<1>5. PICK f : IsFold(step, I, pick, G, f)
  BY <1>4, FoldExists
<1>6. PICK P : P = {T \in SUBSET G : CutBy(SpanCells(I), n, SpanCells(T), f[T])}
  OBVIOUS
<1>7. \A J : Bounded(J, n) => J \in SUBSET ((0 .. n) \X (0 .. n))
  BY DEF Bounded
<1>8. ASSUME NEW T \in SUBSET G, T # {}, T \ {pick[T]} \in P
      PROVE  f[T] = Subtracted(f[T \ {pick[T]}], pick[T])
  <2>1. f[T] = step[<<pick[T], f[T \ {pick[T]}]>>]
    BY <1>5, <1>8, Zenon DEF IsFold
  <2>2. pick[T] \in G /\ f[T \ {pick[T]}] \in SUBSET ((0 .. n) \X (0 .. n))
    BY <1>4, <1>6, <1>7, <1>8 DEF Picks, CutBy
  <2> QED BY <1>3, <2>1, <2>2
<1>9. f[{}] = I
  BY <1>5, Zenon DEF IsFold
<1>10. ASSUME NEW T \in SUBSET G, \A U \in SUBSET T : U # T => U \in P
       PROVE  T \in P
  <2>1. CASE T = {}
    <3>1. SpanCells({}) = {}
      BY DEF SpanCells
    <3> QED BY <1>6, <1>9, <2>1, <3>1 DEF CutBy
  <2>2. CASE T # {}
    <3>1. PICK g, R : g = pick[T] /\ R = T \ {g}
      OBVIOUS
    <3>2. g \in T /\ R \in P
      BY <1>4, <1>10, <2>2, <3>1 DEF Picks
    <3>3. f[T] = Subtracted(f[R], g)
      BY <1>8, <2>2, <3>1, <3>2
    <3>4. g \in Nat \X Nat /\ g[1] < g[2]
      BY <3>2 DEF Bounded
    <3>5. CutBy(SpanCells(I), n, SpanCells(R), f[R])
      BY <1>6, <3>2
    <3>6. /\ Bounded(f[T], n) /\ Apart(f[T])
          /\ SpanCells(f[T]) = SpanCells(f[R]) \ (g[1] .. g[2] - 1)
      BY <3>3, <3>4, <3>5, SubtractedIs DEF CutBy
    <3>7. SpanCells(T) = SpanCells(R) \cup (g[1] .. g[2] - 1)
      BY <3>1, <3>2 DEF SpanCells
    <3> QED BY <1>6, <3>5, <3>6, <3>7 DEF CutBy
  <2> QED BY <2>1, <2>2
<1>11. ASSUME NEW T \in SUBSET G PROVE T \in P
  <2>1. IsFiniteSet(T)
    BY FS_Subset
  <2>2. ASSUME NEW S \in SUBSET T, \A U \in SUBSET S : U # S => U \in P PROVE S \in P
    BY <1>10, <2>2
  <2> QED BY <2>1, <2>2, FiniteInduction
<1>12. IsCut(I, G, f)
  <2>1. ASSUME NEW T \in SUBSET G
        PROVE  f[T] = IF T = {} THEN I
                      ELSE Subtracted(f[T \ {CHOOSE x \in T : TRUE}], CHOOSE x \in T : TRUE)
    <3>1. CASE T = {}
      BY <1>9, <3>1
    <3>2. CASE T # {}
      <4>1. pick[T] = CHOOSE x \in T : TRUE
        BY <1>1
      <4>2. f[T] = Subtracted(f[T \ {pick[T]}], pick[T])
        BY <1>8, <1>11, <3>2
      <4> QED BY <3>2, <4>1, <4>2, Zenon
    <3> QED BY <3>1, <3>2
  <2>2. f = [T \in SUBSET G |-> f[T]]
    BY <1>5, Zenon DEF IsFold
  <2> QED BY <2>1, <2>2, Zenon DEF IsCut
<1>13. PICK h : h = CHOOSE g : IsCut(I, G, g)
  OBVIOUS
<1>14. IsCut(I, G, h)
  BY <1>12, <1>13
<1>15. Cut(I, G) = h[G]
  BY <1>13 DEF Cut, FoldSet, MapThenFoldSet, IsCut
<1>16. h[G] = f[G]
  <2>1. PICK Q : Q = {T \in SUBSET G : h[T] = f[T]}
    OBVIOUS
  <2>2. ASSUME NEW T \in SUBSET G, \A U \in SUBSET T : U # T => U \in Q
        PROVE  T \in Q
    <3>1. CASE T = {}
      <4>1. h[T] = I /\ f[T] = I
        BY <1>9, <1>14, <3>1, Zenon DEF IsCut
      <4> QED BY <2>1, <4>1
    <3>2. CASE T # {}
      <4>1. PICK x : x = CHOOSE y \in T : TRUE
        OBVIOUS
      <4>2. x \in T /\ T \ {x} \in Q
        BY <2>2, <3>2, <4>1
      <4>3. h[T] = Subtracted(h[T \ {x}], x) /\ f[T] = Subtracted(f[T \ {x}], x)
        BY <1>12, <1>14, <3>2, <4>1, Zenon DEF IsCut
      <4> QED BY <2>1, <4>2, <4>3
    <3> QED BY <3>1, <3>2
  <2>3. G \in Q
    BY <2>2, FiniteInduction
  <2> QED BY <2>1, <2>3
<1> QED BY <1>6, <1>11, <1>15, <1>16

-----------------------------------------------------------------------------
(* The values of a buffer's coverage *)

IsDense(c) ==
  /\ c = [form |-> "dense", first |-> c.first, end |-> c.end]
  /\ c.first \in Nat /\ c.end \in Nat /\ c.first < c.end /\ c.end <= BufferSize

IsStrided(c) ==
  /\ c = [form |-> "strided", first |-> c.first, size |-> c.size, stride |-> c.stride,
          count |-> c.count, group |-> c.group, groups |-> c.groups, end |-> c.end]
  /\ c.first \in Nat /\ c.size \in Nat /\ c.stride \in Nat
  /\ c.count \in Nat /\ c.group \in Nat /\ c.groups \in Nat
  /\ c.size # 0 /\ c.count # 0 /\ c.groups # 0 /\ c.stride >= c.size
  /\ c.groups > 1 => c.group >= Payload(c)
  /\ c.end = StridedEnd(c) /\ c.end <= BufferSize

IsValue(c) == IsDense(c) \/ IsStrided(c)
Values(v)  == \A c \in v : IsValue(c)

InSegment(c, g, s, x) ==
  /\ c.first + g * c.group + s * c.stride <= x
  /\ x < c.first + g * c.group + s * c.stride + c.size

HasCell(c, x) ==
  /\ x \in Nat
  /\ IF c.form = "dense" THEN c.first <= x /\ x < c.end
     ELSE \E g \in 0 .. c.groups - 1, s \in 0 .. c.count - 1 : InSegment(c, g, s, x)

(* Every segment of a layout is between its ends                                *)
LEMMA SegmentInside ==
  ASSUME NEW c, IsStrided(c), NEW g \in 0 .. c.groups - 1, NEW s \in 0 .. c.count - 1
  PROVE  /\ g * c.group \in Nat /\ s * c.stride \in Nat
         /\ c.first + g * c.group + s * c.stride \in Nat
         /\ c.first + g * c.group + s * c.stride + c.size <= c.end
         /\ c.end \in Nat
<1>1. PICK a, b, G, S, f, z \in Nat :
        /\ a = c.groups - 1 /\ b = c.count - 1 /\ G = c.group /\ S = c.stride
        /\ f = c.first /\ z = c.size
  BY DEF IsStrided
<1>2. c.end = f + a * G + (b * S + z)
  BY <1>1 DEF IsStrided, StridedEnd, Payload
<1>3. g \in Nat /\ s \in Nat /\ g <= a /\ s <= b
  BY <1>1 DEF IsStrided
<1>4. /\ g * G \in Nat /\ a * G \in Nat /\ g * G <= a * G
      /\ s * S \in Nat /\ b * S \in Nat /\ s * S <= b * S
  BY <1>3, Products
<1> QED BY <1>1, <1>2, <1>4

LEMMA SegmentsAre ==
  ASSUME NEW c, IsValue(c)
  PROVE  /\ Bounded(Segments(c), BufferSize)
         /\ \A x : x \in SpanCells(Segments(c)) <=> HasCell(c, x)
         /\ \A x : HasCell(c, x) => c.first <= x /\ x < c.end
         /\ c.first \in Nat /\ c.end \in Nat /\ c.first < c.end /\ c.end <= BufferSize
<1>1. BufferSize \in Nat
  BY SizeAssumption
<1>2. CASE IsDense(c)
  <2>1. Segments(c) = {<<c.first, c.end>>}
    BY <1>2 DEF IsDense, Segments
  <2>2. Bounded(Segments(c), BufferSize)
    BY <1>2, <2>1 DEF IsDense, Bounded
  <2>3. \A x : HasCell(c, x) <=> x \in Nat /\ c.first <= x /\ x < c.end
    BY <1>2 DEF IsDense, HasCell
  <2>4. \A x : x \in SpanCells(Segments(c)) <=> x \in Nat /\ c.first <= x /\ x < c.end
    <3>1. PICK I : I = Segments(c)
      OBVIOUS
    <3>2. \A x : x \in SpanCells(I) <=> x \in Nat /\ \E i \in I : i[1] <= x /\ x < i[2]
      BY <1>1, <2>2, <3>1, CellOf
    <3>3. \A x : (\E i \in I : i[1] <= x /\ x < i[2]) <=> c.first <= x /\ x < c.end
      BY <2>1, <3>1
    <3> QED BY <3>1, <3>2, <3>3
  <2> QED BY <1>2, <2>2, <2>3, <2>4 DEF IsDense
<1>3. CASE IsStrided(c)
  <2>1. c.form = "strided"
    BY <1>3 DEF IsStrided
  <2>2. \A i : i \in Segments(c) <=>
          \E g \in 0 .. c.groups - 1, s \in 0 .. c.count - 1 :
            i = <<c.first + g * c.group + s * c.stride, c.first + g * c.group + s * c.stride + c.size>>
    BY <2>1 DEF Segments
  <2>3. c.size \in Nat /\ c.size # 0 /\ c.first \in Nat /\ c.end <= BufferSize
    BY <1>3 DEF IsStrided
  <2>4. Bounded(Segments(c), BufferSize)
    <3>1. ASSUME NEW i \in Segments(c) PROVE i \in Nat \X Nat /\ i[1] < i[2] /\ i[2] <= BufferSize
      <4>1. PICK g \in 0 .. c.groups - 1, s \in 0 .. c.count - 1 :
              i = <<c.first + g * c.group + s * c.stride, c.first + g * c.group + s * c.stride + c.size>>
        BY <2>2
      <4>2. PICK p : p = c.first + g * c.group + s * c.stride
        OBVIOUS
      <4>3. p \in Nat /\ p + c.size <= c.end /\ c.end \in Nat
        BY <1>3, <4>2, SegmentInside
      <4>4. i = <<p, p + c.size>>
        BY <4>1, <4>2
      <4> QED BY <1>1, <2>3, <4>3, <4>4
    <3> QED BY <3>1 DEF Bounded
  <2>5. ASSUME NEW x PROVE x \in SpanCells(Segments(c)) <=> HasCell(c, x)
    <3>1. x \in SpanCells(Segments(c)) <=> x \in Nat /\ \E i \in Segments(c) : i[1] <= x /\ x < i[2]
      BY <1>1, <2>4, CellOf
    <3>2. ASSUME NEW i \in Segments(c), i[1] <= x, x < i[2]
          PROVE  \E g \in 0 .. c.groups - 1, s \in 0 .. c.count - 1 : InSegment(c, g, s, x)
      <4>1. PICK g \in 0 .. c.groups - 1, s \in 0 .. c.count - 1 :
              i = <<c.first + g * c.group + s * c.stride, c.first + g * c.group + s * c.stride + c.size>>
        BY <2>2
      <4>2. InSegment(c, g, s, x)
        BY <3>2, <4>1 DEF InSegment
      <4> QED BY <4>2
    <3>3. ASSUME NEW g \in 0 .. c.groups - 1, NEW s \in 0 .. c.count - 1, InSegment(c, g, s, x)
          PROVE  \E i \in Segments(c) : i[1] <= x /\ x < i[2]
      <4>1. PICK i : i = <<c.first + g * c.group + s * c.stride, c.first + g * c.group + s * c.stride + c.size>>
        OBVIOUS
      <4>2. i \in Segments(c)
        BY <2>2, <4>1
      <4>3. i[1] <= x /\ x < i[2]
        BY <3>3, <4>1 DEF InSegment
      <4> QED BY <4>2, <4>3
    <3> QED BY <2>1, <3>1, <3>2, <3>3 DEF HasCell
  <2>6. ASSUME NEW x, HasCell(c, x) PROVE c.first <= x /\ x < c.end
    <3>1. PICK g \in 0 .. c.groups - 1, s \in 0 .. c.count - 1 : InSegment(c, g, s, x)
      BY <2>1, <2>6 DEF HasCell
    <3>2. PICK u, v \in Nat : u = g * c.group /\ v = s * c.stride
      BY <1>3, SegmentInside
    <3>3. c.first + u + v + c.size <= c.end /\ c.end \in Nat
      BY <1>3, <3>2, SegmentInside
    <3>4. x \in Nat /\ c.first + u + v <= x /\ x < c.first + u + v + c.size
      BY <2>6, <3>1, <3>2 DEF InSegment, HasCell
    <3> QED BY <2>3, <3>2, <3>3, <3>4
  <2>7. c.end \in Nat /\ c.first < c.end
    <3>1. 0 \in 0 .. c.groups - 1 /\ 0 \in 0 .. c.count - 1
      BY <1>3 DEF IsStrided
    <3>2. PICK u, v \in Nat : u = 0 * c.group /\ v = 0 * c.stride
      BY <1>3, <3>1, SegmentInside
    <3>3. c.first + u + v + c.size <= c.end /\ c.end \in Nat
      BY <1>3, <3>1, <3>2, SegmentInside
    <3>4. PICK f, z, e \in Nat : f = c.first /\ z = c.size /\ e = c.end
      BY <2>3, <3>3
    <3>5. f + u + v + z <= e /\ z # 0
      BY <2>3, <3>3, <3>4
    <3>6. f < e
      BY <3>5
    <3> QED BY <3>4, <3>6
  <2> QED BY <2>3, <2>4, <2>5, <2>6, <2>7
<1> QED BY <1>2, <1>3 DEF IsValue

(* The first and the last cell of a value                                      *)
LEMMA EndCells ==
  ASSUME NEW c, IsValue(c)
  PROVE  HasCell(c, c.first) /\ HasCell(c, c.end - 1)
<1>1. CASE IsDense(c)
  BY <1>1 DEF IsDense, HasCell
<1>2. CASE IsStrided(c)
  <2>1. PICK a, b, G, S, f, z \in Nat :
          /\ a = c.groups - 1 /\ b = c.count - 1 /\ G = c.group /\ S = c.stride
          /\ f = c.first /\ z = c.size
    BY <1>2 DEF IsStrided
  <2>2. c.end = f + a * G + (b * S + z) /\ z # 0 /\ c.form = "strided"
    BY <1>2, <2>1 DEF IsStrided, StridedEnd, Payload
  <2>3. PICK u, v \in Nat : u = a * G /\ v = b * S
    BY Products
  <2>4. 0 * G = 0 /\ 0 * S = 0
    OBVIOUS
  <2>5. InSegment(c, 0, 0, c.first)
    BY <2>1, <2>2, <2>4 DEF InSegment
  <2>6. InSegment(c, a, b, c.end - 1)
    BY <2>1, <2>2, <2>3 DEF InSegment
  <2>7. c.end - 1 \in Nat /\ c.first \in Nat
    <3>1. c.end = f + u + (v + z)
      BY <2>2, <2>3
    <3>2. f + u + (v + z) - 1 \in Nat
      BY <2>2
    <3> QED BY <2>1, <3>1, <3>2
  <2>8. 0 \in 0 .. c.groups - 1 /\ 0 \in 0 .. c.count - 1 /\ a \in 0 .. c.groups - 1 /\ b \in 0 .. c.count - 1
    BY <2>1
  <2> QED BY <2>2, <2>5, <2>6, <2>7, <2>8 DEF HasCell
<1> QED BY <1>1, <1>2 DEF IsValue

LEMMA GroupIsPositive ==
  ASSUME NEW h, IsStrided(h), h.groups # 1
  PROVE  h.group \in Nat /\ h.group # 0 /\ h.groups > 1
<1>1. PICK b, S, z \in Nat : b = h.count - 1 /\ S = h.stride /\ z = h.size /\ z # 0
  BY DEF IsStrided
<1>2. h.group \in Nat /\ h.group >= b * S + z /\ h.groups > 1
  BY <1>1 DEF IsStrided, Payload
<1>3. b * S \in Nat
  BY Products
<1> QED BY <1>1, <1>2, <1>3

(* n is the part of the grid h that starts q groups and t segments in           *)
SubGrid(h, n, q, t) ==
  /\ n.first = h.first + q * h.group + t * h.stride
  /\ q + n.groups <= h.groups /\ t + n.count <= h.count
  /\ n.size <= h.size /\ n.stride = h.stride /\ n.group = h.group

LEMMA GridIsSubGrid ==
  ASSUME NEW h, NEW n, IsStrided(h), IsStrided(n), GridContains(h, n), h # n
  PROVE  \E q, t \in Nat : SubGrid(h, n, q, t)
<1>1. PICK offset : offset = n.first - h.first
  OBVIOUS
<1>2. PICK group : group = IF h.groups = 1 THEN 0 ELSE offset \div h.group
  OBVIOUS
<1>3. PICK within : within = IF h.groups = 1 THEN offset ELSE offset % h.group
  OBVIOUS
<1>4. PICK segment : segment = within \div h.stride
  OBVIOUS
<1>5. /\ h.size >= n.size /\ h.stride = n.stride
      /\ h.group = n.group /\ n.first >= h.first
      /\ within = segment * h.stride
      /\ group + n.groups <= h.groups
      /\ segment + n.count <= h.count
  BY <1>1, <1>2, <1>3, <1>4, Zenon DEF GridContains
<1>6. offset \in Nat /\ h.first \in Nat /\ n.first \in Nat /\ h.stride \in Nat /\ h.stride # 0
  BY <1>1, <1>5 DEF IsStrided
<1>7. group \in Nat /\ within \in Nat /\ offset = group * h.group + within
  <2>1. CASE h.groups = 1
    <3>1. h.group \in Nat
      BY DEF IsStrided
    <3>2. 0 * h.group = 0
      BY <3>1
    <3> QED BY <1>2, <1>3, <1>6, <2>1, <3>2
  <2>2. CASE h.groups # 1
    <3>1. h.group \in Nat /\ h.group # 0
      BY <2>2, GroupIsPositive
    <3>2. PICK b : b = h.group
      OBVIOUS
    <3>3. offset \in Nat /\ b \in Nat /\ b # 0
      BY <1>6, <3>1, <3>2
    <3>4. \E q \in Nat, r \in Nat : q = offset \div b /\ r = offset % b /\ offset = q * b + r /\ r < b
      BY ONLY <3>3, Division
    <3>5. PICK q \in Nat, r \in Nat : q = offset \div b /\ r = offset % b /\ offset = q * b + r
      BY <3>4, Zenon
    <3> QED BY <1>2, <1>3, <2>2, <3>2, <3>5
  <2> QED BY <2>1, <2>2
<1>8. segment \in Nat
  <2>1. PICK q, r \in Nat : q = within \div h.stride /\ r = within % h.stride
    BY <1>6, <1>7, Division
  <2> QED BY <1>4, <2>1
<1>9. n.first = h.first + group * h.group + segment * h.stride
  <2>1. PICK u, v \in Nat : u = group * h.group /\ v = segment * h.stride
    BY <1>5, <1>7, <1>8, Products DEF IsStrided
  <2> QED BY <1>1, <1>5, <1>6, <1>7, <2>1
<1> QED BY <1>5, <1>7, <1>8, <1>9 DEF SubGrid

LEMMA SubGridSound ==
  ASSUME NEW h, NEW n, IsStrided(h), IsStrided(n), NEW q \in Nat, NEW t \in Nat, SubGrid(h, n, q, t),
         NEW x, HasCell(n, x)
  PROVE  HasCell(h, x)
<1>1. h.form = "strided" /\ n.form = "strided"
  BY DEF IsStrided
<1>2. PICK g \in 0 .. n.groups - 1, s \in 0 .. n.count - 1 : InSegment(n, g, s, x)
  BY <1>1 DEF HasCell
<1>3. PICK f, G, S, z, y \in Nat : f = h.first /\ G = h.group /\ S = h.stride /\ z = h.size /\ y = n.size
  BY DEF IsStrided
<1>4. g \in Nat /\ s \in Nat /\ n.groups \in Nat /\ n.count \in Nat /\ x \in Nat /\ h.groups \in Nat /\ h.count \in Nat
  BY DEF IsStrided, HasCell
<1>5. n.first = f + q * G + t * S /\ n.group = G /\ n.stride = S /\ y <= z
  BY <1>3 DEF SubGrid
<1>6. /\ (q + g) * G = q * G + g * G /\ (t + s) * S = t * S + s * S
      /\ q * G \in Nat /\ g * G \in Nat /\ t * S \in Nat /\ s * S \in Nat
  BY <1>3, <1>4, Products
<1>7. f + q * G + t * S + g * G + s * S <= x /\ x < f + q * G + t * S + g * G + s * S + y
  BY <1>2, <1>3, <1>5 DEF InSegment
<1>8. InSegment(h, q + g, t + s, x)
  <2>1. f + (q + g) * G + (t + s) * S <= x /\ x < f + (q + g) * G + (t + s) * S + z
    BY <1>4, <1>5, <1>6, <1>7
  <2> QED BY <1>3, <2>1 DEF InSegment
<1>9. q + g \in 0 .. h.groups - 1 /\ t + s \in 0 .. h.count - 1
  BY <1>4 DEF SubGrid
<1> QED BY <1>1, <1>4, <1>8, <1>9 DEF HasCell

(* A group without gaps, and a layout without gaps                             *)
LEMMA GaplessGroup ==
  ASSUME NEW c, IsStrided(c), c.stride = c.size, NEW g \in 0 .. c.groups - 1, NEW x \in Nat,
         c.first + g * c.group <= x, x < c.first + g * c.group + Payload(c)
  PROVE  HasCell(c, x)
<1>1. PICK f, G, S, b \in Nat : f = c.first /\ G = c.group /\ S = c.stride /\ S = c.size /\ b = c.count - 1
  BY DEF IsStrided
<1>2. c.form = "strided" /\ S # 0 /\ c.count = b + 1 /\ g \in Nat
  BY <1>1 DEF IsStrided
<1>3. PICK u \in Nat : u = f + g * G
  <2>1. g * G \in Nat
    BY <1>1, <1>2, Products
  <2> QED BY <1>1, <2>1
<1>4. b * S \in Nat /\ u <= x /\ x < u + (b * S + S)
  BY <1>1, <1>3, Products DEF Payload
<1>5. PICK d \in Nat : d = x - u
  BY <1>4
<1>6. \E q \in Nat, r \in Nat : q = d \div S /\ r = d % S /\ d = q * S + r /\ r < S
  BY ONLY d \in Nat, S \in Nat, <1>2, Division
<1>7. PICK q \in Nat, r \in Nat : d = q * S + r /\ r < S
  BY <1>6, Zenon
<1>8. q * S \in Nat /\ (b < q => b * S + S <= q * S)
  BY <1>1, Products
<1>9. q <= b
  BY <1>1, <1>4, <1>5, <1>7, <1>8
<1>10. InSegment(c, g, q, x)
  <2>1. u + q * S <= x /\ x < u + q * S + S
    BY <1>4, <1>5, <1>7, <1>8
  <2> QED BY <1>1, <1>3, <2>1 DEF InSegment
<1>11. q \in 0 .. c.count - 1
  BY <1>1, <1>9
<1> QED BY <1>2, <1>10, <1>11 DEF HasCell

LEMMA GaplessLayout ==
  ASSUME NEW c, IsStrided(c), c.stride = c.size, c.groups = 1 \/ c.group = Payload(c),
         NEW x \in Nat, c.first <= x, x < c.end
  PROVE  HasCell(c, x)
<1>1. PICK f, G, P, a, b, S \in Nat : /\ f = c.first /\ G = c.group /\ P = Payload(c) /\ a = c.groups - 1
                                     /\ b = c.count - 1 /\ S = c.stride
  <2>1. PICK b, S \in Nat : b = c.count - 1 /\ S = c.stride
    BY DEF IsStrided
  <2>2. b * S \in Nat
    BY <2>1, Products
  <2>3. Payload(c) \in Nat
    BY <2>1, <2>2 DEF IsStrided, Payload
  <2> QED BY <2>1, <2>3 DEF IsStrided
<1>2. c.end = f + a * G + P /\ P # 0 /\ c.groups = a + 1
  <2>1. P = b * S + c.size /\ c.size \in Nat /\ c.size # 0 /\ b * S \in Nat
    BY <1>1, Products DEF Payload, IsStrided
  <2>2. c.end = c.first + (c.groups - 1) * c.group + Payload(c) /\ c.groups \in Nat
    BY DEF IsStrided, StridedEnd
  <2>3. P # 0
    BY <2>1
  <2> QED BY <1>1, <2>2, <2>3
<1>3. CASE c.groups = 1
  <2>1. 0 * G = 0 /\ a = 0
    BY <1>1, <1>3
  <2>2. c.end = f + P
    BY <1>2, <2>1
  <2>3. f + 0 * G <= x /\ x < f + 0 * G + P /\ 0 \in 0 .. c.groups - 1
    BY <1>1, <1>3, <2>1, <2>2
  <2> QED BY <1>1, <2>3, GaplessGroup
<1>4. CASE c.group = Payload(c)
  <2>1. G = P /\ a * P \in Nat /\ x < f + a * P + P /\ f <= x
    BY <1>1, <1>2, <1>4, Products
  <2>2. PICK d \in Nat : d = x - f
    BY <2>1
  <2>3. \E q \in Nat, r \in Nat : q = d \div P /\ r = d % P /\ d = q * P + r /\ r < P
    BY ONLY d \in Nat, P \in Nat, <1>2, Division
  <2>4. PICK q \in Nat, r \in Nat : d = q * P + r /\ r < P
    BY <2>3, Zenon
  <2>5. q * P \in Nat /\ (a < q => a * P + P <= q * P)
    BY <1>1, Products
  <2>6. q <= a
    BY <1>1, <2>1, <2>2, <2>4, <2>5
  <2>7. f + q * G <= x /\ x < f + q * G + P /\ q \in 0 .. c.groups - 1
    BY <1>1, <1>2, <2>1, <2>2, <2>4, <2>5, <2>6
  <2> QED BY <1>1, <2>7, GaplessGroup
<1> QED BY <1>3, <1>4

LEMMA GridDenseSound ==
  ASSUME NEW h, NEW n, IsStrided(h), IsDense(n), GridContainsDense(h, n), NEW x, HasCell(n, x)
  PROVE  HasCell(h, x)
<1>1. PICK group : group = IF h.groups = 1 THEN 0 ELSE (n.first - h.first) \div h.group
  OBVIOUS
<1>2. PICK start : start = h.first + group * h.group
  OBVIOUS
<1>3. PICK segment : segment = (n.first - start) \div h.stride
  OBVIOUS
<1>4. /\ n.first >= h.first /\ n.end <= h.end
      /\ \/ h.stride = h.size /\ (h.groups = 1 \/ h.group = Payload(h))
         \/ /\ group < h.groups
            /\ IF h.stride = h.size THEN n.end <= start + Payload(h)
               ELSE /\ segment < h.count
                    /\ n.end <= start + segment * h.stride + h.size
  BY <1>1, <1>2, <1>3, Zenon DEF GridContainsDense
<1>5. x \in Nat /\ n.first <= x /\ x < n.end /\ n.first \in Nat /\ n.end \in Nat
  BY DEF HasCell, IsDense
<1>6. h.first \in Nat /\ h.end \in Nat /\ h.form = "strided"
  <2>1. h.end \in Nat
    BY SegmentsAre DEF IsValue
  <2> QED BY <2>1 DEF IsStrided
<1>7. CASE h.stride = h.size /\ (h.groups = 1 \/ h.group = Payload(h))
  <2>1. h.first <= x /\ x < h.end
    BY <1>4, <1>5, <1>6
  <2> QED BY <1>5, <1>7, <2>1, GaplessLayout
<1>8. CASE /\ group < h.groups
           /\ IF h.stride = h.size THEN n.end <= start + Payload(h)
              ELSE /\ segment < h.count
                   /\ n.end <= start + segment * h.stride + h.size
  <2>1. group \in Nat /\ start \in Nat /\ start <= n.first
    <3>1. CASE h.groups = 1
      <4>1. h.group \in Nat
        BY DEF IsStrided
      <4>2. 0 * h.group = 0
        BY <4>1
      <4> QED BY <1>1, <1>2, <1>4, <1>6, <3>1, <4>2
    <3>2. CASE h.groups # 1
      <4>1. PICK G \in Nat : G = h.group /\ G # 0
        BY <3>2, GroupIsPositive
      <4>2. PICK d \in Nat : d = n.first - h.first
        BY <1>4, <1>5, <1>6
      <4>3. \E q \in Nat, r \in Nat : q = d \div G /\ r = d % G /\ d = q * G + r /\ r < G
        BY ONLY d \in Nat, G \in Nat, <4>1, Division
      <4>4. PICK q \in Nat, r \in Nat : q = d \div G /\ d = q * G + r
        BY <4>3, Zenon
      <4>5. q * G \in Nat /\ group = q
        BY <1>1, <3>2, <4>1, <4>2, <4>4, Products
      <4> QED BY <1>2, <1>5, <1>6, <4>1, <4>2, <4>4, <4>5
    <3> QED BY <3>1, <3>2
  <2>2. group \in 0 .. h.groups - 1
    BY <1>8, <2>1 DEF IsStrided
  <2>3. CASE h.stride = h.size
    <3>1. start <= x /\ x < start + Payload(h)
      <4>1. PICK P \in Nat : P = Payload(h)
        <5>1. PICK b, S, z \in Nat : b = h.count - 1 /\ S = h.stride /\ z = h.size /\ z # 0
          BY DEF IsStrided
        <5>2. b * S \in Nat
          BY Products
        <5> QED BY <5>1, <5>2 DEF Payload
      <4> QED BY <1>5, <1>8, <2>1, <2>3, <4>1
    <3> QED BY <1>2, <1>5, <2>2, <2>3, <3>1, GaplessGroup
  <2>4. CASE h.stride # h.size
    <3>1. PICK S \in Nat, z \in Nat : S = h.stride /\ S # 0 /\ z = h.size
      BY DEF IsStrided
    <3>2. PICK d \in Nat : d = n.first - start
      BY <1>5, <2>1
    <3>3. \E q \in Nat, r \in Nat : q = d \div S /\ r = d % S /\ d = q * S + r /\ r < S
      BY ONLY d \in Nat, S \in Nat, <3>1, Division
    <3>4. PICK q \in Nat, r \in Nat : q = d \div S /\ d = q * S + r
      BY <3>3, Zenon
    <3>5. q * S \in Nat /\ segment = q
      BY <1>3, <3>1, <3>2, <3>4, Products
    <3>6. start + q * S <= x /\ x < start + q * S + z
      BY <1>5, <1>8, <2>1, <2>4, <3>1, <3>2, <3>4, <3>5
    <3>7. InSegment(h, group, segment, x)
      BY <1>2, <3>1, <3>5, <3>6 DEF InSegment
    <3>8. segment \in 0 .. h.count - 1
      BY <1>8, <2>4, <3>5 DEF IsStrided
    <3> QED BY <1>5, <1>6, <2>2, <3>7, <3>8 DEF HasCell
  <2> QED BY <2>3, <2>4
<1> QED BY <1>4, <1>7, <1>8

(* A value is contained only where all its cells are                           *)
LEMMA FastIsSound ==
  ASSUME NEW h, NEW n, IsValue(h), IsValue(n), FastContains(h, n), NEW x, HasCell(n, x)
  PROVE  HasCell(h, x)
<1>1. CASE IsDense(h)
  <2>1. h.first <= n.first /\ h.end >= n.end /\ h.form = "dense" /\ h.first \in Nat /\ h.end \in Nat
    <3>1. h.form = "dense" /\ h.first \in Nat /\ h.end \in Nat
      BY <1>1 DEF IsDense
    <3>2. h.first <= n.first /\ h.end >= n.end
      BY <3>1 DEF FastContains
    <3> QED BY <3>1, <3>2
  <2>2. x \in Nat /\ n.first <= x /\ x < n.end /\ n.first \in Nat /\ n.end \in Nat
    BY SegmentsAre DEF HasCell
  <2>3. h.first <= x /\ x < h.end
    BY <2>1, <2>2
  <2> QED BY <2>1, <2>2, <2>3 DEF HasCell
<1>2. CASE IsStrided(h) /\ IsDense(n)
  <2>1. h.form = "strided" /\ n.form = "dense"
    BY <1>2 DEF IsDense, IsStrided
  <2>2. GridContainsDense(h, n)
    BY <2>1 DEF FastContains
  <2> QED BY <1>2, <2>2, GridDenseSound
<1>3. CASE IsStrided(h) /\ IsStrided(n)
  <2>1. h.form = "strided" /\ n.form = "strided"
    BY <1>3 DEF IsStrided
  <2>2. GridContains(h, n)
    BY <2>1 DEF FastContains
  <2>3. CASE h # n
    <3>1. PICK q, t \in Nat : SubGrid(h, n, q, t)
      BY <1>3, <2>2, <2>3, GridIsSubGrid
    <3> QED BY <1>3, <3>1, SubGridSound
  <2> QED BY <2>3
<1> QED BY <1>1, <1>2, <1>3 DEF IsValue

LEMMA FastSpans ==
  ASSUME NEW h, NEW n, IsValue(h), IsValue(n), FastContains(h, n)
  PROVE  h.first <= n.first /\ n.end <= h.end
<1>1. HasCell(h, n.first) /\ HasCell(h, n.end - 1)
  BY EndCells, FastIsSound
<1>2. h.first <= n.first /\ n.end - 1 < h.end
  BY <1>1, SegmentsAre
<1>3. n.end \in Nat /\ h.end \in Nat
  BY SegmentsAre
<1> QED BY <1>2, <1>3

-----------------------------------------------------------------------------
(* Canonical values *)

Proper(c) ==
  /\ c.count # 1 \/ c.groups # 1
  /\ c.count = 1 => c.stride = c.size
  /\ c.groups = 1 => c.group = 0
  /\ ~ (c.stride = c.size /\ (c.groups = 1 \/ c.group = Payload(c)))

IsCanonical(c) == IsDense(c) \/ (IsStrided(c) /\ Proper(c))

(* The same cells in canonical form                                           *)
LEMMA CanonicalIs ==
  ASSUME NEW c, IsValue(c)
  PROVE  IsCanonical(Canonical(c)) /\ \A x : HasCell(Canonical(c), x) <=> HasCell(c, x)
<1>1. CASE IsDense(c)
  <2>1. Canonical(c) = c
    BY <1>1 DEF Canonical, IsDense
  <2> QED BY <1>1, <2>1 DEF IsCanonical
<1>2. CASE IsStrided(c)
  <2>1. PICK S : S = IF c.count = 1 THEN c.size ELSE c.stride
    OBVIOUS
  <2>2. PICK G : G = IF c.groups = 1 THEN 0 ELSE c.group
    OBVIOUS
  <2>3. PICK d : d = [form |-> "strided", first |-> c.first, size |-> c.size, stride |-> S,
                      count |-> c.count, group |-> G, groups |-> c.groups, end |-> c.end]
    OBVIOUS
  <2>4. /\ d.form = "strided" /\ d.first = c.first /\ d.size = c.size /\ d.stride = S
        /\ d.count = c.count /\ d.group = G /\ d.groups = c.groups /\ d.end = c.end
    BY <2>3
  <2>5. PICK a, b \in Nat : a = c.groups - 1 /\ b = c.count - 1
    BY <1>2 DEF IsStrided
  <2>6. /\ c.first \in Nat /\ c.size \in Nat /\ c.stride \in Nat /\ c.group \in Nat
        /\ c.count = b + 1 /\ c.groups = a + 1 /\ c.size # 0 /\ c.stride >= c.size
        /\ c.form = "strided" /\ c.end <= BufferSize
        /\ c.end = c.first + a * c.group + (b * c.stride + c.size)
        /\ a # 0 => c.group >= b * c.stride + c.size
    BY <1>2, <2>5 DEF IsStrided, StridedEnd, Payload
  <2>7. S \in Nat /\ G \in Nat /\ S >= c.size /\ (b # 0 => S = c.stride) /\ (a # 0 => G = c.group)
        /\ (b = 0 => S = c.size) /\ (a = 0 => G = 0)
    BY <2>1, <2>2, <2>5, <2>6
  <2>8. a * G = a * c.group /\ b * S = b * c.stride
    <3>1. 0 * G = 0 /\ 0 * c.group = 0 /\ 0 * S = 0 /\ 0 * c.stride = 0
      BY <2>6, <2>7
    <3>2. CASE a = 0 /\ b = 0
      BY <3>1, <3>2
    <3>3. CASE a = 0 /\ b # 0
      BY <2>7, <3>1, <3>3
    <3>4. CASE a # 0 /\ b = 0
      BY <2>7, <3>1, <3>4
    <3>5. CASE a # 0 /\ b # 0
      BY <2>7, <3>5
    <3> QED BY <3>2, <3>3, <3>4, <3>5
  <2>9. IsStrided(d)
    <3>1. Payload(d) = b * c.stride + c.size /\ StridedEnd(d) = c.end
      <4>1. Payload(d) = (d.count - 1) * d.stride + d.size
        BY DEF Payload
      <4>2. d.count - 1 = b /\ d.groups - 1 = a
        BY <2>4, <2>6
      <4>3. Payload(d) = b * c.stride + c.size
        BY <2>4, <2>8, <4>1, <4>2
      <4>4. StridedEnd(d) = c.first + a * G + Payload(d)
        BY <2>4, <4>2 DEF StridedEnd
      <4> QED BY <2>6, <2>8, <4>3, <4>4
    <3>2. d.groups > 1 => d.group >= Payload(d)
      BY <2>4, <2>6, <2>7, <3>1
    <3>3. d.count \in Nat /\ d.groups \in Nat /\ d.count # 0 /\ d.groups # 0
      BY <2>4, <2>6
    <3> QED BY <2>3, <2>4, <2>6, <2>7, <3>1, <3>2, <3>3 DEF IsStrided
  <2>10. \A x : HasCell(d, x) <=> HasCell(c, x)
    <3>1. ASSUME NEW g \in 0 .. c.groups - 1, NEW s \in 0 .. c.count - 1
          PROVE  g * G = g * c.group /\ s * S = s * c.stride
      <4>1. 0 * G = 0 /\ 0 * c.group = 0 /\ 0 * S = 0 /\ 0 * c.stride = 0
        BY <2>6, <2>7
      <4>2. (a = 0 => g = 0) /\ (b = 0 => s = 0)
        BY <2>6, <3>1
      <4>3. g * G = g * c.group
        BY <2>7, <4>1, <4>2
      <4>4. s * S = s * c.stride
        BY <2>7, <4>1, <4>2
      <4> QED BY <4>3, <4>4
    <3>2. ASSUME NEW g \in 0 .. c.groups - 1, NEW s \in 0 .. c.count - 1, NEW x
          PROVE  InSegment(d, g, s, x) <=> InSegment(c, g, s, x)
      BY <2>4, <3>1 DEF InSegment
    <3> QED BY <2>4, <2>6, <3>2 DEF HasCell
  <2>11. PICK gapless \in BOOLEAN :
           gapless <=> \/ c.count = 1 /\ c.groups = 1
                       \/ S = c.size /\ (c.groups = 1 \/ c.group = (c.count - 1) * S + c.size)
    OBVIOUS
  <2>12. Canonical(c) = IF gapless THEN Dense(c.first, c.end) ELSE d
    <3>1. Strided([c EXCEPT !.stride = S, !.group = IF c.groups = 1 THEN 0 ELSE @]) = d
      <4>1. PICK e : e = [c EXCEPT !.stride = S, !.group = IF c.groups = 1 THEN 0 ELSE @]
        OBVIOUS
      <4>2. /\ e.first = c.first /\ e.size = c.size /\ e.stride = S
            /\ e.count = c.count /\ e.group = G /\ e.groups = c.groups
        BY <1>2, <2>2, <4>1 DEF IsStrided
      <4>3. StridedEnd(e) = c.end
        <5>1. StridedEnd(e) = StridedEnd(d)
          BY <2>4, <4>2 DEF StridedEnd, Payload
        <5> QED BY <2>4, <2>9, <5>1 DEF IsStrided
      <4> QED BY <2>3, <4>1, <4>2, <4>3 DEF Strided
    <3> QED BY <2>1, <2>6, <2>11, <3>1, Zenon DEF Canonical
  <2>13. CASE gapless
    <3>1. PICK m : m = Dense(c.first, c.end)
      OBVIOUS
    <3>2. m = [form |-> "dense", first |-> c.first, end |-> c.end] /\ m.form = "dense"
          /\ m.first = c.first /\ m.end = c.end
      BY <3>1 DEF Dense
    <3>3. IsDense(m)
      <4>1. c.first \in Nat /\ c.end \in Nat /\ c.first < c.end /\ c.end <= BufferSize
        BY <1>2, SegmentsAre DEF IsValue
      <4> QED BY <3>2, <4>1 DEF IsDense
    <3>4. d.stride = d.size /\ (d.groups = 1 \/ d.group = Payload(d))
      <4>1. b = 0 /\ a = 0 => S = c.size
        BY <2>7
      <4>2. c.groups # 1 /\ c.group = (c.count - 1) * S + c.size => d.group = Payload(d)
        BY <2>2, <2>4 DEF Payload
      <4>3. S = c.size
        BY <2>6, <2>11, <2>13, <4>1
      <4> QED BY <2>4, <2>11, <2>13, <4>2, <4>3
    <3>5. ASSUME NEW x PROVE HasCell(m, x) <=> HasCell(d, x)
      <4>1. HasCell(m, x) <=> x \in Nat /\ c.first <= x /\ x < c.end
        BY <3>2 DEF HasCell
      <4>2. HasCell(d, x) => x \in Nat /\ c.first <= x /\ x < c.end
        BY <2>4, <2>9, SegmentsAre DEF IsValue, HasCell
      <4>3. x \in Nat /\ c.first <= x /\ x < c.end => HasCell(d, x)
        BY <2>4, <2>9, <3>4, GaplessLayout
      <4> QED BY <4>1, <4>2, <4>3
    <3> QED BY <2>10, <2>12, <2>13, <3>1, <3>3, <3>5 DEF IsCanonical
  <2>14. CASE ~ gapless
    <3>1. Proper(d)
      <4>1. Payload(d) = (c.count - 1) * S + c.size
        BY <2>4 DEF Payload
      <4>2. ~ (d.stride = d.size /\ (d.groups = 1 \/ d.group = Payload(d)))
        BY <2>2, <2>4, <2>7, <2>11, <2>14, <4>1, <2>6
      <4> QED BY <2>1, <2>2, <2>4, <2>11, <2>14, <4>2 DEF Proper
    <3> QED BY <2>9, <2>10, <2>12, <2>14, <3>1 DEF IsCanonical
  <2> QED BY <2>13, <2>14
<1> QED BY <1>1, <1>2 DEF IsValue

-----------------------------------------------------------------------------
(* A canonical value that contains another is the heavier of the two *)

Rank(c)   == IF c.form = "dense" THEN 4 * BufferSize + 3 ELSE c.size + c.groups + c.count
Weight(c) == (c.end - c.first) * (4 * BufferSize + 4) + Rank(c)
Heaviest  == BufferSize * (4 * BufferSize + 4) + 4 * BufferSize + 3

LEMMA RankIsSmall ==
  ASSUME NEW c, IsValue(c)
  PROVE  Rank(c) \in Nat /\ Rank(c) < 4 * BufferSize + 4 /\ (IsStrided(c) => Rank(c) < 4 * BufferSize + 3)
<1>1. PICK N \in Nat : N = BufferSize
  BY SizeAssumption
<1>2. CASE IsDense(c)
  <2>1. c.form = "dense" /\ ~ IsStrided(c)
    BY <1>2 DEF IsDense, IsStrided
  <2> QED BY <1>1, <2>1 DEF Rank
<1>3. CASE IsStrided(c)
  <2>1. PICK a, b, G, S, f, z \in Nat :
          /\ a = c.groups - 1 /\ b = c.count - 1 /\ G = c.group /\ S = c.stride
          /\ f = c.first /\ z = c.size /\ z # 0 /\ S # 0
    BY <1>3 DEF IsStrided
  <2>2. c.end = f + a * G + (b * S + z) /\ c.form = "strided" /\ c.end <= N
    BY <1>1, <1>3, <2>1 DEF IsStrided, StridedEnd, Payload
  <2>3. a * G \in Nat /\ b * S \in Nat /\ b <= b * S /\ a <= a * G
    <3>1. CASE c.groups = 1
      <4>1. a = 0 /\ a * G \in Nat
        BY <2>1, <3>1, Products
      <4> QED BY <2>1, <4>1, Products
    <3>2. CASE c.groups # 1
      <4>1. G # 0
        BY <1>3, <2>1, <3>2, GroupIsPositive
      <4> QED BY <2>1, <4>1, Products
    <3> QED BY <3>1, <3>2
  <2>4. PICK u, v \in Nat : u = a * G /\ v = b * S
    BY <2>3
  <2>5. f + u + (v + z) <= N /\ b <= v /\ a <= u
    BY <2>2, <2>3, <2>4
  <2>6. c.groups = a + 1 /\ c.count = b + 1
    <3>1. c.groups \in Nat /\ c.count \in Nat
      BY <1>3 DEF IsStrided
    <3> QED BY <2>1, <3>1
  <2>7. Rank(c) = z + (a + 1) + (b + 1)
    BY <2>1, <2>2, <2>6 DEF Rank
  <2>8. z <= N /\ a <= N /\ b <= N
    BY <2>1, <2>5
  <2> QED BY <1>1, <2>7, <2>8
<1> QED BY <1>2, <1>3 DEF IsValue

LEMMA WeightIsNumber ==
  ASSUME NEW c, IsValue(c)
  PROVE  Weight(c) \in Nat /\ Weight(c) <= Heaviest
<1>1. PICK N, K \in Nat : N = BufferSize /\ K = 4 * N + 4
  BY SizeAssumption
<1>2. PICK l \in Nat : l = c.end - c.first /\ l <= N
  BY <1>1, SegmentsAre
<1>3. l * K \in Nat /\ l * K <= N * K /\ N * K \in Nat
  BY <1>1, <1>2, Products
<1>4. Rank(c) \in Nat /\ Rank(c) < K
  BY <1>1, RankIsSmall
<1>5. Weight(c) = l * K + Rank(c) /\ Heaviest = N * K + 4 * N + 3
  BY <1>1, <1>2 DEF Weight, Heaviest
<1> QED BY <1>1, <1>3, <1>4, <1>5

LEMMA FastIsHeavier ==
  ASSUME NEW h, NEW n, IsCanonical(h), IsCanonical(n), FastContains(h, n), h # n
  PROVE  Weight(n) < Weight(h)
<1>1. IsValue(h) /\ IsValue(n)
  BY DEF IsCanonical, IsValue
<1>2. PICK N, K \in Nat : N = BufferSize /\ K = 4 * N + 4
  BY SizeAssumption
<1>3. /\ h.first \in Nat /\ h.end \in Nat /\ h.first < h.end
      /\ n.first \in Nat /\ n.end \in Nat /\ n.first < n.end
      /\ h.first <= n.first /\ n.end <= h.end
  BY <1>1, SegmentsAre, FastSpans
<1>4. PICK l, m \in Nat : l = h.end - h.first /\ m = n.end - n.first /\ m <= l
  BY <1>3
<1>5. /\ Rank(h) \in Nat /\ Rank(h) < K /\ Rank(n) \in Nat /\ Rank(n) < K
      /\ Weight(h) = l * K + Rank(h) /\ Weight(n) = m * K + Rank(n)
  BY <1>1, <1>2, <1>4, RankIsSmall DEF Weight
<1>6. CASE m < l
  <2>1. m * K + K <= l * K /\ m * K \in Nat /\ l * K \in Nat
    BY <1>6, Products
  <2> QED BY <1>5, <2>1
<1>7. CASE m = l
  <2>1. h.first = n.first /\ h.end = n.end
    BY <1>3, <1>4, <1>7
  <2>2. SUFFICES Rank(n) < Rank(h)
    <3>1. l * K \in Nat
      BY Products
    <3> QED BY <1>5, <1>7, <3>1
  <2>3. CASE IsDense(h)
    <3>1. ~ IsDense(n)
      BY <2>1, <2>3 DEF IsDense
    <3>2. IsStrided(n)
      BY <1>1, <3>1 DEF IsValue
    <3>3. h.form = "dense"
      BY <2>3 DEF IsDense
    <3> QED BY <1>1, <3>2, <3>3, RankIsSmall DEF Rank
  <2>4. CASE IsStrided(h) /\ Proper(h) /\ IsDense(n)
    <3>1. h.form = "strided" /\ n.form = "dense"
      BY <2>4 DEF IsDense, IsStrided
    <3>2. GridContainsDense(h, n)
      BY <3>1 DEF FastContains
    <3>3. PICK a, b, G, S, f, z \in Nat :
            /\ a = h.groups - 1 /\ b = h.count - 1 /\ G = h.group /\ S = h.stride
            /\ f = h.first /\ z = h.size /\ z # 0 /\ S # 0
      BY <2>4 DEF IsStrided
    <3>4. h.groups = a + 1 /\ h.count = b + 1 /\ h.end = f + a * G + (b * S + z) /\ Payload(h) = b * S + z
      <4>1. h.groups \in Nat /\ h.count \in Nat
        BY <2>4 DEF IsStrided
      <4>2. h.end = h.first + (h.groups - 1) * h.group + Payload(h)
            /\ Payload(h) = (h.count - 1) * h.stride + h.size
        BY <2>4 DEF IsStrided, StridedEnd, Payload
      <4> QED BY <3>3, <4>1, <4>2
    <3>5. a * G \in Nat /\ b * S \in Nat /\ b <= b * S /\ (a # 0 => G # 0)
      <4>1. a # 0 => G # 0
        BY <2>4, <3>3, <3>4, GroupIsPositive
      <4> QED BY <3>3, <4>1, Products
    <3>6. a # 0 => a * G # 0
      <4>1. G # 0 => a <= a * G
        BY Products
      <4> QED BY <3>5, <4>1
    <3>7. PICK group : group = IF h.groups = 1 THEN 0 ELSE (n.first - h.first) \div h.group
      OBVIOUS
    <3>8. PICK start : start = h.first + group * h.group
      OBVIOUS
    <3>9. PICK segment : segment = (n.first - start) \div h.stride
      OBVIOUS
    <3>10. \/ h.stride = h.size /\ (h.groups = 1 \/ h.group = Payload(h))
           \/ /\ group < h.groups
              /\ IF h.stride = h.size THEN n.end <= start + Payload(h)
                 ELSE /\ segment < h.count
                      /\ n.end <= start + segment * h.stride + h.size
      BY <3>2, <3>7, <3>8, <3>9, Zenon DEF GridContainsDense
    <3>11. group = 0
      <4>1. n.first - h.first = 0
        BY <1>3, <2>1
      <4>2. CASE h.groups = 1
        BY <3>7, <4>2
      <4>3. CASE h.groups # 1
        <5>1. G # 0 /\ 0 \in Nat
          BY <2>4, <3>3, <4>3, GroupIsPositive
        <5>2. \E q \in Nat, r \in Nat : q = 0 \div G /\ r = 0 % G /\ 0 = q * G + r /\ r < G
          BY ONLY G \in Nat, <5>1, Division
        <5>3. PICK q \in Nat, r \in Nat : q = 0 \div G /\ 0 = q * G + r
          BY <5>2, Zenon
        <5>4. q * G \in Nat /\ q <= q * G
          BY <5>1, Products
        <5>5. q = 0
          BY <5>3, <5>4
        <5> QED BY <3>3, <3>7, <4>1, <4>3, <5>3, <5>5
      <4> QED BY <4>2, <4>3
    <3>12. start = f
      <4>1. 0 * G = 0
        OBVIOUS
      <4> QED BY <3>3, <3>8, <3>11, <4>1
    <3>13. segment = 0
      <4>1. n.first - start = 0
        BY <1>3, <2>1, <3>3, <3>12
      <4>2. \E q \in Nat, r \in Nat : q = 0 \div S /\ r = 0 % S /\ 0 = q * S + r /\ r < S
        BY ONLY S \in Nat, <3>3, 0 \in Nat, Division
      <4>3. PICK q \in Nat, r \in Nat : q = 0 \div S /\ 0 = q * S + r
        BY <4>2, Zenon
      <4>4. q * S \in Nat /\ q <= q * S
        BY <3>3, Products
      <4>5. q = 0
        BY <4>3, <4>4
      <4> QED BY <3>3, <3>9, <4>1, <4>3, <4>5
    <3>14. 0 * S = 0
      OBVIOUS
    <3>15. ~ (S = z /\ (h.groups = 1 \/ h.group = Payload(h))) /\ (b = 0 => S = z) /\ (a # 0 \/ b # 0)
      BY <2>4, <3>3, <3>4 DEF Proper
    <3>16. IF S = z THEN f + a * G + (b * S + z) <= f + (b * S + z)
           ELSE f + a * G + (b * S + z) <= f + 0 * S + z
      BY <2>1, <3>3, <3>4, <3>10, <3>12, <3>13, <3>15
    <3>17. S # z
      BY <3>3, <3>4, <3>5, <3>6, <3>15, <3>16
    <3>18. b * S = 0
      BY <3>5, <3>14, <3>16, <3>17
    <3>19. b = 0
      BY <3>5, <3>18
    <3> QED BY <3>15, <3>17, <3>19
  <2>5. CASE IsStrided(h) /\ Proper(h) /\ IsStrided(n)
    <3>1. h.form = "strided" /\ n.form = "strided"
      BY <2>5 DEF IsStrided
    <3>2. GridContains(h, n)
      BY <3>1 DEF FastContains
    <3>3. PICK q, t \in Nat : SubGrid(h, n, q, t)
      BY <2>5, <3>2, GridIsSubGrid
    <3>4. h.group \in Nat /\ h.stride \in Nat /\ h.stride # 0
      BY <2>5 DEF IsStrided
    <3>5. q * h.group \in Nat /\ t * h.stride \in Nat /\ t <= t * h.stride
          /\ (h.group # 0 => q <= q * h.group)
      BY <3>4, Products
    <3>6. PICK u, v \in Nat : u = q * h.group /\ v = t * h.stride
      BY <3>5
    <3>7. u + v = 0
      BY <1>3, <2>1, <3>3, <3>6 DEF SubGrid
    <3>8. t = 0
      BY <3>5, <3>6, <3>7
    <3>9. q = 0
      <4>1. CASE h.groups # 1
        <5>1. h.group # 0
          BY <2>5, <4>1, GroupIsPositive
        <5> QED BY <3>5, <3>6, <3>7, <5>1
      <4>2. CASE h.groups = 1
        <5>1. q + n.groups <= 1
          BY <3>3, <4>2 DEF SubGrid
        <5>2. n.groups \in Nat /\ n.groups # 0
          BY <2>5 DEF IsStrided
        <5> QED BY <5>1, <5>2
      <4> QED BY <4>1, <4>2
    <3>10. /\ n.size \in Nat /\ h.size \in Nat /\ n.groups \in Nat /\ h.groups \in Nat
           /\ n.count \in Nat /\ h.count \in Nat
      BY <2>5 DEF IsStrided
    <3>11. n.groups <= h.groups /\ n.count <= h.count /\ n.size <= h.size
           /\ n.stride = h.stride /\ n.group = h.group
      BY <3>3, <3>8, <3>9, <3>10 DEF SubGrid
    <3>12. ~ (n.groups = h.groups /\ n.count = h.count /\ n.size = h.size)
      <4>1. SUFFICES ASSUME n.groups = h.groups, n.count = h.count, n.size = h.size PROVE n = h
        OBVIOUS
      <4> QED BY <2>1, <2>5, <3>11, <4>1 DEF IsStrided
    <3> QED BY <3>1, <3>10, <3>11, <3>12 DEF Rank
  <2> QED BY <1>1, <2>3, <2>4, <2>5 DEF IsCanonical, IsValue
<1> QED BY <1>4, <1>6, <1>7

-----------------------------------------------------------------------------
(* The coverage of a buffer *)

HasAny(v, x) == \E c \in v : HasCell(c, x)
AllSegments(v) == UNION {Segments(c) : c \in v}

LEMMA ValuesCover ==
  ASSUME NEW v, Values(v)
  PROVE  /\ Bounded(AllSegments(v), BufferSize)
         /\ \A x : x \in SpanCells(AllSegments(v)) <=> HasAny(v, x)
<1>1. ASSUME NEW i \in AllSegments(v) PROVE i \in Nat \X Nat /\ i[1] < i[2] /\ i[2] <= BufferSize
  <2>1. PICK c \in v : i \in Segments(c)
    BY <1>1 DEF AllSegments
  <2>2. Bounded(Segments(c), BufferSize)
    BY SegmentsAre DEF Values
  <2> QED BY <2>1, <2>2 DEF Bounded
<1>2. ASSUME NEW x PROVE x \in SpanCells(AllSegments(v)) <=> HasAny(v, x)
  <2>1. x \in SpanCells(AllSegments(v)) <=> \E c \in v : x \in SpanCells(Segments(c))
    BY DEF AllSegments, SpanCells
  <2>2. \A c \in v : x \in SpanCells(Segments(c)) <=> HasCell(c, x)
    BY SegmentsAre DEF Values
  <2> QED BY <2>1, <2>2 DEF HasAny
<1> QED BY <1>1, <1>2 DEF Bounded

(* Values that another contains can go, but for the heaviest of each cell         *)
Pruned(all) == {c \in all : ~ \E other \in all \ {c} :
                  FastContains(other, c) /\ (FastContains(c, other) => Before(other, c))}

LEMMA PrunedKeeps ==
  ASSUME NEW all, \A c \in all : IsCanonical(c), NEW x, HasAny(all, x)
  PROVE  HasAny(Pruned(all), x)
<1>1. \A c \in all : IsValue(c)
  BY DEF IsCanonical, IsValue
<1>2. PICK A : A = {c \in all : HasCell(c, x)}
  OBVIOUS
<1>3. PICK T : T = {Heaviest - Weight(c) : c \in A}
  OBVIOUS
<1>4. \A c \in A : Weight(c) \in Nat /\ Heaviest - Weight(c) \in Nat
  <2>1. Heaviest \in Nat
    <3>1. PICK N \in Nat : N = BufferSize
      BY SizeAssumption
    <3>2. N * (4 * N + 4) \in Nat
      BY Products
    <3> QED BY <3>1, <3>2 DEF Heaviest
  <2>2. \A c \in A : Weight(c) \in Nat /\ Weight(c) <= Heaviest
    BY <1>1, <1>2, WeightIsNumber
  <2> QED BY <2>1, <2>2
<1>5. T \subseteq Nat /\ T # {}
  BY <1>2, <1>3, <1>4 DEF HasAny
<1>6. PICK w \in T : \A t \in T : w <= t
  BY <1>5, LeastNumber
<1>7. PICK c \in A : w = Heaviest - Weight(c)
  BY <1>3, <1>6
<1>8. ASSUME NEW other \in all \ {c}, FastContains(other, c) PROVE FALSE
  <2>1. HasCell(other, x)
    BY <1>1, <1>2, <1>7, <1>8, FastIsSound
  <2>2. other \in A /\ Heaviest - Weight(other) \in T
    BY <1>2, <1>3, <2>1
  <2>3. Weight(c) < Weight(other)
    BY <1>2, <1>7, <1>8, FastIsHeavier
  <2>4. Heaviest - Weight(c) <= Heaviest - Weight(other) /\ Weight(c) \in Nat /\ Weight(other) \in Nat
    BY <1>4, <1>6, <1>7, <2>2
  <2>5. Heaviest \in Nat
    <3>1. PICK N \in Nat : N = BufferSize
      BY SizeAssumption
    <3>2. N * (4 * N + 4) \in Nat
      BY Products
    <3> QED BY <3>1, <3>2 DEF Heaviest
  <2> QED BY <2>3, <2>4, <2>5
<1>9. c \in Pruned(all) /\ HasCell(c, x)
  BY <1>2, <1>7, <1>8 DEF Pruned
<1> QED BY <1>9 DEF HasAny

(* Normalization keeps the cells                                              *)
LEMMA NormalizeIs ==
  ASSUME NEW v, Values(v)
  PROVE  /\ \A c \in NormalizeBuffer(v) : IsCanonical(c)
         /\ \A x : HasAny(NormalizeBuffer(v), x) <=> HasAny(v, x)
<1>1. PICK K : K = {Canonical(c) : c \in v}
  OBVIOUS
<1>2. PICK D : D = {<<c.first, c.end>> : c \in {d \in K : d.form = "dense"}}
  OBVIOUS
<1>3. PICK all : all = {Dense(i[1], i[2]) : i \in Merged(D)} \cup {c \in K : c.form = "strided"}
  OBVIOUS
<1>4. NormalizeBuffer(v) = Pruned(all)
  BY <1>1, <1>2, <1>3, Zenon DEF NormalizeBuffer, Pruned
<1>5. \A k \in K : IsCanonical(k) /\ (\E c \in v : \A x : HasCell(k, x) <=> HasCell(c, x))
  BY <1>1, CanonicalIs DEF Values
<1>6. \A c \in v : \E k \in K : \A x : HasCell(k, x) <=> HasCell(c, x)
  BY <1>1, CanonicalIs DEF Values
<1>7. BufferSize \in Nat
  BY SizeAssumption
<1>8. \A k \in K : (k.form = "dense" /\ IsDense(k)) \/ (k.form = "strided" /\ IsStrided(k))
  BY <1>5 DEF IsCanonical, IsDense, IsStrided
<1>9. Bounded(D, BufferSize)
  <2>1. ASSUME NEW i \in D PROVE i \in Nat \X Nat /\ i[1] < i[2] /\ i[2] <= BufferSize
    <3>1. PICK c \in K : c.form = "dense" /\ i = <<c.first, c.end>>
      BY <1>2
    <3>2. IsDense(c)
      BY <1>8, <3>1 DEF IsStrided
    <3> QED BY <3>1, <3>2 DEF IsDense
  <2> QED BY <2>1 DEF Bounded
<1>10. Bounded(Merged(D), BufferSize) /\ SpanCells(Merged(D)) = SpanCells(D)
  BY <1>7, <1>9, MergedKeeps
<1>11. ASSUME NEW c \in all PROVE IsCanonical(c)
  <2>1. CASE c \in K
    BY <1>5, <2>1
  <2>2. CASE \E i \in Merged(D) : c = Dense(i[1], i[2])
    <3>1. PICK i \in Merged(D) : c = Dense(i[1], i[2])
      BY <2>2
    <3>2. i[1] \in Nat /\ i[2] \in Nat /\ i[1] < i[2] /\ i[2] <= BufferSize
      BY <1>10 DEF Bounded
    <3>3. c.first = i[1] /\ c.end = i[2] /\ c = [form |-> "dense", first |-> i[1], end |-> i[2]]
      BY <3>1 DEF Dense
    <3> QED BY <3>2, <3>3 DEF IsCanonical, IsDense
  <2> QED BY <1>3, <2>1, <2>2
<1>12. ASSUME NEW x, HasAny(v, x) PROVE HasAny(all, x)
  <2>1. PICK k \in K : HasCell(k, x)
    BY <1>6, <1>12 DEF HasAny
  <2>2. CASE k.form = "strided"
    BY <1>3, <2>1, <2>2 DEF HasAny
  <2>3. CASE k.form = "dense"
    <3>1. x \in Nat /\ k.first <= x /\ x < k.end
      BY <2>1, <2>3 DEF HasCell
    <3>2. PICK i : i = <<k.first, k.end>>
      OBVIOUS
    <3>3. i \in D /\ i[1] <= x /\ x < i[2]
      BY <1>2, <2>3, <3>1, <3>2
    <3>4. x \in SpanCells(Merged(D))
      BY <1>7, <1>9, <1>10, <3>1, <3>3, CellOf
    <3>5. PICK m \in Merged(D) : m[1] <= x /\ x < m[2]
      BY <1>7, <1>10, <3>4, CellOf
    <3>6. PICK d : d = Dense(m[1], m[2])
      OBVIOUS
    <3>7. d \in all /\ d.form = "dense" /\ d.first = m[1] /\ d.end = m[2]
      BY <1>3, <3>6 DEF Dense
    <3>8. HasCell(d, x)
      BY <3>1, <3>5, <3>7 DEF HasCell
    <3> QED BY <3>7, <3>8 DEF HasAny
  <2> QED BY <1>8, <2>2, <2>3
<1>13. ASSUME NEW x, HasAny(all, x) PROVE HasAny(v, x)
  <2>1. PICK c \in all : HasCell(c, x)
    BY <1>13 DEF HasAny
  <2>2. ASSUME NEW k \in K, HasCell(k, x) PROVE HasAny(v, x)
    BY <1>5, <2>2 DEF HasAny
  <2>3. CASE c \in K
    BY <2>1, <2>2, <2>3
  <2>4. CASE \E i \in Merged(D) : c = Dense(i[1], i[2])
    <3>1. PICK m \in Merged(D) : c = Dense(m[1], m[2])
      BY <2>4
    <3>2. x \in Nat /\ m[1] <= x /\ x < m[2]
      BY <2>1, <3>1 DEF Dense, HasCell
    <3>3. x \in SpanCells(D)
      BY <1>7, <1>10, <3>2, CellOf
    <3>4. PICK i \in D : i[1] <= x /\ x < i[2]
      BY <1>7, <1>9, <3>3, CellOf
    <3>5. PICK k \in K : k.form = "dense" /\ i = <<k.first, k.end>>
      BY <1>2
    <3>6. HasCell(k, x)
      BY <3>2, <3>4, <3>5 DEF HasCell
    <3> QED BY <2>2, <3>6
  <2> QED BY <1>3, <2>3, <2>4
<1>14. Pruned(all) \subseteq all
  BY DEF Pruned
<1>15. ASSUME NEW x PROVE HasAny(Pruned(all), x) <=> HasAny(v, x)
  BY <1>11, <1>12, <1>13, <1>14, PrunedKeeps DEF HasAny
<1> QED BY <1>4, <1>11, <1>14, <1>15

(* Containment of buffer coverage is containment of cells                        *)
LEMMA BufferContainsIsExact ==
  ASSUME NEW have, NEW need, Values(have), Values(need)
  PROVE  BufferContains(have, need) <=> \A x : HasAny(need, x) => HasAny(have, x)
<1>1. PICK H, N : H = AllSegments(have) /\ N = AllSegments(need)
  OBVIOUS
<1>2. /\ Bounded(H, BufferSize) /\ Bounded(N, BufferSize)
      /\ \A x : x \in SpanCells(H) <=> HasAny(have, x)
      /\ \A x : x \in SpanCells(N) <=> HasAny(need, x)
  BY <1>1, ValuesCover
<1>3. BufferSize \in Nat
  BY SizeAssumption
<1>4. Intervals(have) = Merged(H) /\ Intervals(need) = Merged(N)
  BY <1>1 DEF Intervals, AllSegments
<1>5. Within(Intervals(need), Intervals(have)) <=> SpanCells(N) \subseteq SpanCells(H)
  <2>1. /\ Bounded(Merged(H), BufferSize) /\ Apart(Merged(H)) /\ SpanCells(Merged(H)) = SpanCells(H)
        /\ Bounded(Merged(N), BufferSize) /\ SpanCells(Merged(N)) = SpanCells(N)
    BY <1>2, <1>3, MergedKeeps
  <2> QED BY <1>3, <1>4, <2>1, WithinIsExact
<1>6. ASSUME \A n \in need : \E h \in have : FastContains(h, n), NEW x, HasAny(need, x)
      PROVE  HasAny(have, x)
  <2>1. PICK n \in need : HasCell(n, x)
    BY <1>6 DEF HasAny
  <2>2. PICK h \in have : FastContains(h, n)
    BY <1>6
  <2>3. HasCell(h, x)
    BY <2>1, <2>2, FastIsSound DEF Values
  <2> QED BY <2>3 DEF HasAny
<1> QED BY <1>2, <1>5, <1>6 DEF BufferContains

LEMMA IntersectBufferIs ==
  ASSUME NEW left, NEW right, Values(left), Values(right)
  PROVE  /\ \A c \in IntersectBuffer(left, right) : IsCanonical(c)
         /\ \A x : HasAny(IntersectBuffer(left, right), x) <=> HasAny(left, x) /\ HasAny(right, x)
<1>1. PICK O : O = Overlaps(Intervals(left), Intervals(right))
  OBVIOUS
<1>2. PICK P : P = {Dense(i[1], i[2]) : i \in O}
  OBVIOUS
<1>3. PICK v : v = IF BufferContains(left, right) THEN right
                   ELSE IF BufferContains(right, left) THEN left ELSE P
  OBVIOUS
<1>4. IntersectBuffer(left, right) = NormalizeBuffer(v)
  BY <1>1, <1>2, <1>3, Zenon DEF IntersectBuffer
<1>5. Values(P) /\ \A x : HasAny(P, x) <=> HasAny(left, x) /\ HasAny(right, x)
  <2>1. PICK L, R : L = AllSegments(left) /\ R = AllSegments(right)
    OBVIOUS
  <2>2. BufferSize \in Nat
    BY SizeAssumption
  <2>3. /\ Bounded(L, BufferSize) /\ Bounded(R, BufferSize)
        /\ \A x : x \in SpanCells(L) <=> HasAny(left, x)
        /\ \A x : x \in SpanCells(R) <=> HasAny(right, x)
    BY <2>1, ValuesCover
  <2>4. /\ Bounded(Merged(L), BufferSize) /\ SpanCells(Merged(L)) = SpanCells(L)
        /\ Bounded(Merged(R), BufferSize) /\ SpanCells(Merged(R)) = SpanCells(R)
    BY <2>2, <2>3, MergedKeeps
  <2>5. O = Overlaps(Merged(L), Merged(R))
    BY <1>1, <2>1 DEF Intervals, AllSegments
  <2>6. Bounded(O, BufferSize) /\ SpanCells(O) = SpanCells(L) \cap SpanCells(R)
    BY <2>2, <2>4, <2>5, OverlapsMeet
  <2>7. ASSUME NEW i \in O PROVE IsDense(Dense(i[1], i[2]))
    <3>1. i[1] \in Nat /\ i[2] \in Nat /\ i[1] < i[2] /\ i[2] <= BufferSize
      BY <2>6 DEF Bounded
    <3>2. PICK c : c = Dense(i[1], i[2])
      OBVIOUS
    <3>3. c = [form |-> "dense", first |-> i[1], end |-> i[2]] /\ c.first = i[1] /\ c.end = i[2]
      BY <3>2 DEF Dense
    <3>4. IsDense(c)
      BY <3>1, <3>3 DEF IsDense
    <3> QED BY <3>2, <3>4
  <2>8. Values(P)
    BY <1>2, <2>7 DEF Values, IsValue
  <2>9. ASSUME NEW x PROVE HasAny(P, x) <=> x \in SpanCells(O)
    <3>1. x \in SpanCells(O) <=> x \in Nat /\ \E i \in O : i[1] <= x /\ x < i[2]
      BY <2>2, <2>6, CellOf
    <3>2. \A i \in O : HasCell(Dense(i[1], i[2]), x) <=> x \in Nat /\ i[1] <= x /\ x < i[2]
      BY DEF HasCell, Dense
    <3>3. HasAny(P, x) <=> \E i \in O : HasCell(Dense(i[1], i[2]), x)
      BY <1>2 DEF HasAny
    <3> QED BY <3>1, <3>2, <3>3
  <2> QED BY <2>3, <2>6, <2>8, <2>9
<1>6. Values(v)
  BY <1>3, <1>5
<1>7. \A x : HasAny(v, x) <=> HasAny(left, x) /\ HasAny(right, x)
  <2>1. BufferContains(left, right) => \A x : HasAny(right, x) => HasAny(left, x)
    BY BufferContainsIsExact
  <2>2. BufferContains(right, left) => \A x : HasAny(left, x) => HasAny(right, x)
    BY BufferContainsIsExact
  <2> QED BY <1>3, <1>5, <2>1, <2>2
<1> QED BY <1>4, <1>6, <1>7, NormalizeIs

-----------------------------------------------------------------------------
(* Coverage of each kind *)

Spans(I, n) == Bounded(I, n) /\ Apart(I)

WellMade(kind, v) ==
  CASE kind = "Buffer"  -> Values(v)
    [] kind = "Query"   -> Spans(v, QueryCount)
    [] kind = "Texture" -> /\ v = [key \in DOMAIN v |-> v[key]]
                           /\ \A key \in DOMAIN v : v[key] # {} /\ Spans(v[key], Layers)

Kind == {"Buffer", "Query", "Texture"}

(* What can be taken out one by one                                           *)
Countable(kind, v) ==
  CASE kind = "Buffer"  -> TRUE
    [] kind = "Query"   -> IsFiniteSet(v)
    [] kind = "Texture" -> \A key \in DOMAIN v : IsFiniteSet(v[key])

LEMMA SpansMeet ==
  ASSUME NEW n \in Nat, NEW I, Bounded(I, n)
  PROVE  /\ Spans(Merged(I), n) /\ SpanCells(Merged(I)) = SpanCells(I)
         /\ I # {} => Merged(I) # {}
<1>1. Spans(Merged(I), n) /\ SpanCells(Merged(I)) = SpanCells(I)
  BY MergedKeeps DEF Spans
<1>2. ASSUME NEW i \in I PROVE Merged(I) # {}
  <2>1. i[1] \in SpanCells(I)
    <3>1. i[1] \in Nat /\ i[1] <= i[1] /\ i[1] < i[2]
      BY DEF Bounded
    <3> QED BY <3>1, CellOf
  <2> QED BY <1>1, <2>1 DEF SpanCells
<1> QED BY <1>1, <1>2

LEMMA SpansHaveCells ==
  ASSUME NEW n \in Nat, NEW I, Bounded(I, n)
  PROVE  (I = {} <=> SpanCells(I) = {}) /\ SpanCells(I) \subseteq Nat
<1>1. ASSUME NEW i \in I PROVE SpanCells(I) # {}
  <2>1. i[1] \in Nat /\ i[1] <= i[1] /\ i[1] < i[2]
    BY DEF Bounded
  <2> QED BY <2>1, CellOf
<1>2. SpanCells(I) \subseteq Nat /\ (I = {} => SpanCells(I) = {})
  BY CellOf DEF SpanCells
<1> QED BY <1>1, <1>2

LEMMA BufferCells ==
  ASSUME NEW v, Values(v)
  PROVE  \A x : x \in Cells("Buffer", v) <=> HasAny(v, x)
<1>1. Cells("Buffer", v) = SpanCells(AllSegments(v))
  BY DEF Cells, AllSegments
<1> QED BY <1>1, ValuesCover

LEMMA TextureCells ==
  ASSUME NEW v
  PROVE  /\ \A k, c : <<k, c>> \in Cells("Texture", v) <=> k \in DOMAIN v /\ c \in SpanCells(v[k])
         /\ \A x \in Cells("Texture", v) : x = <<x[1], x[2]>>
<1>1. Cells("Texture", v) = UNION {{key} \X SpanCells(v[key]) : key \in DOMAIN v}
  BY DEF Cells
<1> QED BY <1>1

LEMMA UnionIs ==
  ASSUME NEW kind \in Kind, NEW l, NEW r, WellMade(kind, l), WellMade(kind, r)
  PROVE  /\ WellMade(kind, UnionCoverage(kind, l, r))
         /\ Cells(kind, UnionCoverage(kind, l, r)) = Cells(kind, l) \cup Cells(kind, r)
<1>1. CASE kind = "Buffer"
  <2>1. Values(l) /\ Values(r) /\ Values(l \cup r)
    BY <1>1 DEF WellMade, Values
  <2>2. PICK v : v = NormalizeBuffer(l \cup r)
    OBVIOUS
  <2>3. Values(v) /\ \A x : HasAny(v, x) <=> HasAny(l, x) \/ HasAny(r, x)
    BY <2>1, <2>2, NormalizeIs DEF IsCanonical, IsValue, Values, HasAny
  <2>4. UnionCoverage(kind, l, r) = v
    BY <1>1, <2>2 DEF UnionCoverage
  <2>5. Cells("Buffer", v) = Cells("Buffer", l) \cup Cells("Buffer", r)
    BY <2>1, <2>3, BufferCells
  <2> QED BY <1>1, <2>3, <2>4, <2>5 DEF WellMade
<1>2. CASE kind = "Query"
  <2>1. QueryCount \in Nat
    BY SizeAssumption
  <2>2. Bounded(l \cup r, QueryCount)
    BY <1>2 DEF WellMade, Spans, Bounded
  <2>3. UnionCoverage(kind, l, r) = Merged(l \cup r)
    BY <1>2 DEF UnionCoverage
  <2>4. Spans(Merged(l \cup r), QueryCount) /\ SpanCells(Merged(l \cup r)) = SpanCells(l \cup r)
    BY <2>1, <2>2, SpansMeet
  <2>5. SpanCells(l \cup r) = SpanCells(l) \cup SpanCells(r)
    BY DEF SpanCells
  <2>6. \A v : Cells("Query", v) = SpanCells(v)
    BY DEF Cells
  <2> QED BY <1>2, <2>3, <2>4, <2>5, <2>6 DEF WellMade
<1>3. CASE kind = "Texture"
  <2>1. Layers \in Nat
    BY SizeAssumption
  <2>2. /\ \A key \in DOMAIN l : l[key] # {} /\ Bounded(l[key], Layers)
        /\ \A key \in DOMAIN r : r[key] # {} /\ Bounded(r[key], Layers)
    BY <1>3 DEF WellMade, Spans
  <2>3. PICK both : both = [key \in DOMAIN l \cup DOMAIN r |->
                              (IF key \in DOMAIN l THEN l[key] ELSE {})
                                \cup (IF key \in DOMAIN r THEN r[key] ELSE {})]
    OBVIOUS
  <2>4. PICK v : v = [key \in DOMAIN l \cup DOMAIN r |-> Merged(both[key])]
    OBVIOUS
  <2>5. UnionCoverage(kind, l, r) = v
    BY <1>3, <2>3, <2>4 DEF UnionCoverage
  <2>6. DOMAIN v = DOMAIN l \cup DOMAIN r /\ \A key \in DOMAIN v : v[key] = Merged(both[key])
    BY <2>4
  <2>7. ASSUME NEW key \in DOMAIN v
        PROVE  /\ Bounded(both[key], Layers) /\ both[key] # {}
               /\ SpanCells(both[key]) = (IF key \in DOMAIN l THEN SpanCells(l[key]) ELSE {})
                                           \cup (IF key \in DOMAIN r THEN SpanCells(r[key]) ELSE {})
    <3>1. both[key] = (IF key \in DOMAIN l THEN l[key] ELSE {})
                        \cup (IF key \in DOMAIN r THEN r[key] ELSE {})
      BY <2>3, <2>6
    <3>2. \A i : i \in both[key] => (key \in DOMAIN l /\ i \in l[key]) \/ (key \in DOMAIN r /\ i \in r[key])
      BY <3>1
    <3>3. Bounded(both[key], Layers)
      BY <2>2, <3>2 DEF Bounded
    <3>4. both[key] # {}
      BY <2>2, <2>6, <3>1
    <3>5. SpanCells(both[key]) = (IF key \in DOMAIN l THEN SpanCells(l[key]) ELSE {})
                                   \cup (IF key \in DOMAIN r THEN SpanCells(r[key]) ELSE {})
      BY <3>1 DEF SpanCells
    <3> QED BY <3>3, <3>4, <3>5
  <2>8. ASSUME NEW key \in DOMAIN v
        PROVE  v[key] # {} /\ Spans(v[key], Layers) /\ SpanCells(v[key]) = SpanCells(both[key])
    BY <2>1, <2>6, <2>7, SpansMeet
  <2>9. v = [key \in DOMAIN v |-> v[key]]
    BY <2>4
  <2>10. \A k, c : <<k, c>> \in Cells("Texture", v)
           <=> <<k, c>> \in Cells("Texture", l) \/ <<k, c>> \in Cells("Texture", r)
    <3>1. ASSUME NEW k, NEW c
          PROVE  <<k, c>> \in Cells("Texture", v)
                   <=> (k \in DOMAIN l /\ c \in SpanCells(l[k])) \/ (k \in DOMAIN r /\ c \in SpanCells(r[k]))
      <4>1. <<k, c>> \in Cells("Texture", v) <=> k \in DOMAIN v /\ c \in SpanCells(v[k])
        BY TextureCells
      <4>2. k \in DOMAIN v => SpanCells(v[k]) = (IF k \in DOMAIN l THEN SpanCells(l[k]) ELSE {})
                                           \cup (IF k \in DOMAIN r THEN SpanCells(r[k]) ELSE {})
        BY <2>7, <2>8
      <4> QED BY <2>6, <4>1, <4>2
    <3> QED BY <3>1, TextureCells
  <2>11. Cells("Texture", v) = Cells("Texture", l) \cup Cells("Texture", r)
    BY <2>10, TextureCells
  <2> QED BY <1>3, <2>5, <2>8, <2>9, <2>11 DEF WellMade
<1> QED BY <1>1, <1>2, <1>3 DEF Kind

LEMMA ContainsIs ==
  ASSUME NEW kind \in Kind, NEW have, NEW need, WellMade(kind, have), WellMade(kind, need)
  PROVE  ContainsCoverage(kind, have, need) <=> Cells(kind, need) \subseteq Cells(kind, have)
<1>1. CASE kind = "Buffer"
  <2>1. Values(have) /\ Values(need)
    BY <1>1 DEF WellMade
  <2>2. ContainsCoverage(kind, have, need) <=> BufferContains(have, need)
    BY <1>1 DEF ContainsCoverage
  <2> QED BY <1>1, <2>1, <2>2, BufferCells, BufferContainsIsExact
<1>2. CASE kind = "Query"
  <2>1. QueryCount \in Nat /\ Bounded(have, QueryCount) /\ Apart(have) /\ Bounded(need, QueryCount)
    BY <1>2, SizeAssumption DEF WellMade, Spans
  <2>2. ContainsCoverage(kind, have, need) <=> Within(need, have)
    BY <1>2 DEF ContainsCoverage, SpanContains
  <2>3. \A v : Cells("Query", v) = SpanCells(v)
    BY DEF Cells
  <2> QED BY <1>2, <2>1, <2>2, <2>3, WithinIsExact
<1>3. CASE kind = "Texture"
  <2>1. Layers \in Nat
    BY SizeAssumption
  <2>2. /\ \A key \in DOMAIN have : Bounded(have[key], Layers) /\ Apart(have[key])
        /\ \A key \in DOMAIN need : need[key] # {} /\ Bounded(need[key], Layers)
    BY <1>3 DEF WellMade, Spans
  <2>3. ContainsCoverage(kind, have, need)
          <=> \A key \in DOMAIN need : key \in DOMAIN have /\ Within(need[key], have[key])
    BY <1>3 DEF ContainsCoverage, SpanContains
  <2>4. \A key \in DOMAIN need : key \in DOMAIN have =>
          (Within(need[key], have[key]) <=> SpanCells(need[key]) \subseteq SpanCells(have[key]))
    BY <2>1, <2>2, WithinIsExact
  <2>5. \A key \in DOMAIN need : SpanCells(need[key]) # {}
    BY <2>1, <2>2, SpansHaveCells
  <2>6. Cells("Texture", need) \subseteq Cells("Texture", have)
          <=> \A key \in DOMAIN need : key \in DOMAIN have /\ SpanCells(need[key]) \subseteq SpanCells(have[key])
    <3>1. ASSUME Cells("Texture", need) \subseteq Cells("Texture", have), NEW key \in DOMAIN need
          PROVE  key \in DOMAIN have /\ SpanCells(need[key]) \subseteq SpanCells(have[key])
      <4>1. \A c \in SpanCells(need[key]) : key \in DOMAIN have /\ c \in SpanCells(have[key])
        BY <3>1, TextureCells
      <4> QED BY <2>5, <4>1
    <3>2. ASSUME \A key \in DOMAIN need : key \in DOMAIN have /\ SpanCells(need[key]) \subseteq SpanCells(have[key])
          PROVE  Cells("Texture", need) \subseteq Cells("Texture", have)
      <4>1. ASSUME NEW x \in Cells("Texture", need) PROVE x \in Cells("Texture", have)
        <5>1. x = <<x[1], x[2]>>
          BY TextureCells
        <5>2. x[1] \in DOMAIN need /\ x[2] \in SpanCells(need[x[1]])
          BY <5>1, TextureCells
        <5>3. <<x[1], x[2]>> \in Cells("Texture", have)
          BY <3>2, <5>2, TextureCells
        <5> QED BY <5>1, <5>3
      <4> QED BY <4>1
    <3> QED BY <3>1, <3>2
  <2> QED BY <1>3, <2>3, <2>4, <2>6
<1> QED BY <1>1, <1>2, <1>3 DEF Kind

LEMMA IntersectIs ==
  ASSUME NEW kind \in Kind, NEW l, NEW r, WellMade(kind, l), WellMade(kind, r)
  PROVE  /\ WellMade(kind, IntersectCoverage(kind, l, r))
         /\ Cells(kind, IntersectCoverage(kind, l, r)) = Cells(kind, l) \cap Cells(kind, r)
<1>1. CASE kind = "Buffer"
  <2>1. Values(l) /\ Values(r)
    BY <1>1 DEF WellMade
  <2>2. PICK v : v = IntersectBuffer(l, r)
    OBVIOUS
  <2>3. Values(v) /\ \A x : HasAny(v, x) <=> HasAny(l, x) /\ HasAny(r, x)
    BY <2>1, <2>2, IntersectBufferIs DEF IsCanonical, IsValue, Values
  <2>4. IntersectCoverage(kind, l, r) = v
    BY <1>1, <2>2 DEF IntersectCoverage
  <2>5. Cells("Buffer", v) = Cells("Buffer", l) \cap Cells("Buffer", r)
    BY <2>1, <2>3, BufferCells
  <2> QED BY <1>1, <2>3, <2>4, <2>5 DEF WellMade
<1>2. CASE kind = "Query"
  <2>1. QueryCount \in Nat /\ Bounded(l, QueryCount) /\ Bounded(r, QueryCount)
    BY <1>2, SizeAssumption DEF WellMade, Spans
  <2>2. Spans(SpanIntersect(l, r), QueryCount) /\ SpanCells(SpanIntersect(l, r)) = SpanCells(l) \cap SpanCells(r)
    BY <2>1, OverlapsMeet, SpansMeet DEF SpanIntersect
  <2>3. IntersectCoverage(kind, l, r) = SpanIntersect(l, r)
    BY <1>2 DEF IntersectCoverage
  <2>4. \A v : Cells("Query", v) = SpanCells(v)
    BY DEF Cells
  <2> QED BY <1>2, <2>2, <2>3, <2>4 DEF WellMade
<1>3. CASE kind = "Texture"
  <2>1. Layers \in Nat
    BY SizeAssumption
  <2>2. /\ \A key \in DOMAIN l : Bounded(l[key], Layers)
        /\ \A key \in DOMAIN r : Bounded(r[key], Layers)
    BY <1>3 DEF WellMade, Spans
  <2>3. PICK both : both = {key \in DOMAIN l \cap DOMAIN r : SpanIntersect(l[key], r[key]) # {}}
    OBVIOUS
  <2>4. PICK v : v = [key \in both |-> SpanIntersect(l[key], r[key])]
    OBVIOUS
  <2>5. IntersectCoverage(kind, l, r) = v
    BY <1>3, <2>3, <2>4 DEF IntersectCoverage
  <2>6. DOMAIN v = both /\ \A key \in both : v[key] = SpanIntersect(l[key], r[key])
    BY <2>4
  <2>7. ASSUME NEW key \in DOMAIN l \cap DOMAIN r
        PROVE  /\ Spans(SpanIntersect(l[key], r[key]), Layers)
               /\ SpanCells(SpanIntersect(l[key], r[key])) = SpanCells(l[key]) \cap SpanCells(r[key])
    BY <2>1, <2>2, OverlapsMeet, SpansMeet DEF SpanIntersect
  <2>8. v = [key \in DOMAIN v |-> v[key]]
    BY <2>4
  <2>9. ASSUME NEW key \in DOMAIN v PROVE v[key] # {} /\ Spans(v[key], Layers)
    BY <2>3, <2>6, <2>7
  <2>10. SpanCells({}) = {}
    BY DEF SpanCells
  <2>11. \A k, c : <<k, c>> \in Cells("Texture", v)
           <=> <<k, c>> \in Cells("Texture", l) /\ <<k, c>> \in Cells("Texture", r)
    <3>1. ASSUME NEW k, NEW c
          PROVE  k \in DOMAIN v /\ c \in SpanCells(v[k])
                   <=> (k \in DOMAIN l /\ c \in SpanCells(l[k])) /\ (k \in DOMAIN r /\ c \in SpanCells(r[k]))
      <4>1. k \in DOMAIN v <=> k \in DOMAIN l \cap DOMAIN r /\ SpanIntersect(l[k], r[k]) # {}
        BY <2>3, <2>6
      <4>2. CASE k \in DOMAIN l \cap DOMAIN r
        BY <2>6, <2>7, <2>10, <4>1, <4>2
      <4> QED BY <4>1, <4>2
    <3> QED BY <3>1, TextureCells
  <2>12. Cells("Texture", v) = Cells("Texture", l) \cap Cells("Texture", r)
    BY <2>11, TextureCells
  <2> QED BY <1>3, <2>5, <2>8, <2>9, <2>12 DEF WellMade
<1> QED BY <1>1, <1>2, <1>3 DEF Kind

LEMMA RemoveIs ==
  ASSUME NEW kind \in {"Query", "Texture"}, NEW l, NEW r,
         WellMade(kind, l), WellMade(kind, r), Countable(kind, r)
  PROVE  /\ WellMade(kind, RemoveCoverage(kind, l, r))
         /\ Cells(kind, RemoveCoverage(kind, l, r)) = Cells(kind, l) \ Cells(kind, r)
<1>1. CASE kind = "Query"
  <2>1. /\ QueryCount \in Nat /\ Bounded(l, QueryCount) /\ Apart(l)
        /\ Bounded(r, QueryCount) /\ IsFiniteSet(r)
    BY <1>1, SizeAssumption DEF WellMade, Spans, Countable
  <2>2. Spans(Cut(l, r), QueryCount) /\ SpanCells(Cut(l, r)) = SpanCells(l) \ SpanCells(r)
    BY <2>1, CutIs DEF CutBy, Spans
  <2>3. RemoveCoverage(kind, l, r) = Cut(l, r)
    BY <1>1 DEF RemoveCoverage
  <2>4. \A v : Cells("Query", v) = SpanCells(v)
    BY DEF Cells
  <2> QED BY <1>1, <2>2, <2>3, <2>4 DEF WellMade
<1>2. CASE kind = "Texture"
  <2>1. Layers \in Nat
    BY SizeAssumption
  <2>2. /\ \A key \in DOMAIN l : Bounded(l[key], Layers) /\ Apart(l[key])
        /\ \A key \in DOMAIN r : Bounded(r[key], Layers) /\ IsFiniteSet(r[key])
    BY <1>2 DEF WellMade, Spans, Countable
  <2>3. PICK rest : rest = [key \in DOMAIN l |->
                              IF key \in DOMAIN r THEN Cut(l[key], r[key]) ELSE l[key]]
    OBVIOUS
  <2>4. PICK v : v = [key \in {k \in DOMAIN l : rest[k] # {}} |-> rest[key]]
    OBVIOUS
  <2>5. RemoveCoverage(kind, l, r) = v
    <3>1. RemoveCoverage(kind, l, r) =
            [key \in {k \in DOMAIN l : (IF k \in DOMAIN r THEN Cut(l[k], r[k]) ELSE l[k]) # {}} |->
               IF key \in DOMAIN r THEN Cut(l[key], r[key]) ELSE l[key]]
      BY <1>2 DEF RemoveCoverage
    <3>2. \A k \in DOMAIN l : rest[k] = IF k \in DOMAIN r THEN Cut(l[k], r[k]) ELSE l[k]
      BY <2>3
    <3> QED BY <2>4, <3>1, <3>2
  <2>6. /\ \A key : key \in DOMAIN v <=> key \in DOMAIN l /\ rest[key] # {}
        /\ \A key \in DOMAIN v : v[key] = rest[key]
    BY <2>4
  <2>7. ASSUME NEW key \in DOMAIN l
        PROVE  /\ Spans(rest[key], Layers)
               /\ SpanCells(rest[key]) = SpanCells(l[key])
                    \ (IF key \in DOMAIN r THEN SpanCells(r[key]) ELSE {})
    <3>1. CASE key \in DOMAIN r
      <4>1. rest[key] = Cut(l[key], r[key])
        BY <2>3, <3>1
      <4>2. CutBy(SpanCells(l[key]), Layers, SpanCells(r[key]), Cut(l[key], r[key]))
        BY <2>1, <2>2, <3>1, CutIs
      <4> QED BY <3>1, <4>1, <4>2 DEF CutBy, Spans
    <3>2. CASE key \notin DOMAIN r
      BY <2>2, <2>3, <3>2 DEF Spans
    <3> QED BY <3>1, <3>2
  <2>8. v = [key \in DOMAIN v |-> v[key]]
    BY <2>4
  <2>9. ASSUME NEW key \in DOMAIN v PROVE v[key] # {} /\ Spans(v[key], Layers)
    BY <2>6, <2>7
  <2>10. SpanCells({}) = {}
    BY DEF SpanCells
  <2>11. \A k, c : <<k, c>> \in Cells("Texture", v)
           <=> <<k, c>> \in Cells("Texture", l) /\ <<k, c>> \notin Cells("Texture", r)
    <3>1. ASSUME NEW k, NEW c
          PROVE  k \in DOMAIN v /\ c \in SpanCells(v[k])
                   <=> (k \in DOMAIN l /\ c \in SpanCells(l[k])) /\ ~ (k \in DOMAIN r /\ c \in SpanCells(r[k]))
      <4>1. CASE k \in DOMAIN l
        BY <2>6, <2>7, <2>10, <4>1
      <4>2. CASE k \notin DOMAIN l
        BY <2>6, <4>2
      <4> QED BY <4>1, <4>2
    <3> QED BY <3>1, TextureCells
  <2>12. Cells("Texture", v) = Cells("Texture", l) \ Cells("Texture", r)
    BY <2>11, TextureCells
  <2> QED BY <1>2, <2>5, <2>8, <2>9, <2>12 DEF WellMade
<1> QED BY <1>1, <1>2

LEMMA PiecesAreMade ==
  ASSUME NEW kind \in Kind, NEW p \in Pieces(kind)
  PROVE  WellMade(kind, p) /\ Countable(kind, p)
<1>1. /\ BufferSize \in Nat /\ Layers \in Nat /\ QueryCount \in Nat /\ Mips \in Nat
      /\ \A n \in Nat : \A x \in Ranges(n) :
           x \in Nat \X Nat /\ x[1] < x[2] /\ x[2] <= n /\ x[1] \in Nat /\ x[2] \in Nat
  BY SizeAssumption DEF Ranges
<1>2. CASE kind = "Buffer"
  <2>1. CASE \E x \in Ranges(BufferSize) : p = {Dense(x[1], x[2])}
    <3>1. PICK x \in Ranges(BufferSize) : p = {Dense(x[1], x[2])}
      BY <2>1
    <3>2. PICK c : c = Dense(x[1], x[2])
      OBVIOUS
    <3>3. c = [form |-> "dense", first |-> x[1], end |-> x[2]] /\ c.first = x[1] /\ c.end = x[2]
      BY <3>2 DEF Dense
    <3>4. IsDense(c)
      BY <1>1, <3>3 DEF IsDense
    <3> QED BY <1>2, <3>1, <3>2, <3>4 DEF WellMade, Values, IsValue, Countable
  <2>2. CASE \E s \in Strides : ValidStrided(s) /\ p = {Strided(s)}
    <3>1. PICK s \in Strides : ValidStrided(s) /\ p = {Strided(s)}
      BY <2>2
    <3>2. /\ s.first \in Nat /\ s.size \in Nat /\ s.stride \in Nat
          /\ s.count \in Nat /\ s.group \in Nat /\ s.groups \in Nat
      BY SizeAssumption
    <3>3. PICK c : c = Strided(s)
      OBVIOUS
    <3>4. /\ c = [form |-> "strided", first |-> s.first, size |-> s.size, stride |-> s.stride,
                  count |-> s.count, group |-> s.group, groups |-> s.groups, end |-> StridedEnd(s)]
          /\ c.first = s.first /\ c.size = s.size /\ c.stride = s.stride /\ c.count = s.count
          /\ c.group = s.group /\ c.groups = s.groups /\ c.end = StridedEnd(s)
      BY <3>3, Zenon DEF Strided
    <3>5. Payload(c) = Payload(s) /\ StridedEnd(c) = StridedEnd(s)
      BY <3>4 DEF Payload, StridedEnd
    <3>6. /\ s.size # 0 /\ s.count # 0 /\ s.groups # 0 /\ s.stride >= s.size
          /\ s.groups > 1 => s.group >= Payload(s)
          /\ StridedEnd(s) <= BufferSize
      BY <3>1 DEF ValidStrided
    <3>7. IsStrided(c)
      BY <3>2, <3>4, <3>5, <3>6 DEF IsStrided
    <3> QED BY <1>2, <3>1, <3>3, <3>7 DEF WellMade, Values, IsValue, Countable
  <2> QED BY <1>2, <2>1, <2>2 DEF Pieces
<1>3. CASE kind = "Query"
  <2>1. PICK x \in Ranges(QueryCount) : p = {x}
    BY <1>3 DEF Pieces
  <2>2. Spans(p, QueryCount) /\ IsFiniteSet(p)
    BY <1>1, <2>1, FS_Singleton DEF Spans, Bounded, Apart
  <2> QED BY <1>3, <2>2 DEF WellMade, Countable
<1>4. CASE kind = "Texture"
  <2>1. PICK x \in TextureRanges : p = TextureRange(x)
    BY <1>4 DEF Pieces
  <2>2. PICK i : i = <<x.layer, x.layerEnd>>
    OBVIOUS
  <2>3. \E l \in Ranges(Layers) : x.layer = l[1] /\ x.layerEnd = l[2]
    BY <2>1 DEF TextureRanges
  <2>4. i \in Nat \X Nat /\ i[1] < i[2] /\ i[2] <= Layers
    BY <1>1, <2>2, <2>3
  <2>5. PICK D : D = (x.mip .. x.mipEnd - 1) \X AtomicAspects(x.aspect)
    OBVIOUS
  <2>6. p = [key \in D |-> {i}]
    BY <2>1, <2>2, <2>5 DEF TextureRange
  <2>7. p = [key \in DOMAIN p |-> p[key]] /\ \A key \in DOMAIN p : p[key] = {i}
    BY <2>6
  <2>8. Spans({i}, Layers) /\ IsFiniteSet({i})
    BY <2>4, FS_Singleton DEF Spans, Bounded, Apart
  <2> QED BY <1>4, <2>7, <2>8 DEF WellMade, Countable
<1> QED BY <1>2, <1>3, <1>4 DEF Kind

LEMMA NothingIsMade ==
  ASSUME NEW kind \in Kind
  PROVE  WellMade(kind, Nothing(kind)) /\ Cells(kind, Nothing(kind)) = {}
<1>1. CASE kind = "Texture"
  <2>1. Nothing(kind) = [key \in {} |-> {}]
    BY <1>1 DEF Nothing
  <2>2. PICK v : v = [key \in {} |-> {}]
    OBVIOUS
  <2>3. DOMAIN v = {} /\ v = [key \in DOMAIN v |-> v[key]]
    BY <2>2
  <2>4. WellMade("Texture", v) /\ Cells("Texture", v) = {}
    BY <2>3 DEF WellMade, Cells
  <2> QED BY <1>1, <2>1, <2>2, <2>4
<1>2. CASE kind # "Texture"
  BY <1>2 DEF Kind, Nothing, WellMade, Values, Spans, Bounded, Apart, Cells, SpanCells
<1> QED BY <1>1, <1>2

-----------------------------------------------------------------------------
(* The machine *)

(* The values are kept well made, and stand for the cells that are defined.     *)
CoverageMeans ==
  /\ coverage = [kind |-> coverage.kind, values |-> coverage.values]
  /\ coverage.kind \in Kind
  /\ WellMade(coverage.kind, coverage.values)
  /\ Cells(coverage.kind, coverage.values) = defined

LEMMA CoverageInitMeans == CoverageInit => CoverageMeans
<1> SUFFICES ASSUME CoverageInit PROVE CoverageMeans
  OBVIOUS
<1>1. PICK kind \in Kind : coverage = [kind |-> kind, values |-> Nothing(kind)] /\ defined = {}
  BY DEF CoverageInit, Kind
<1>2. coverage.kind = kind /\ coverage.values = Nothing(kind)
  BY <1>1
<1> QED BY <1>1, <1>2, NothingIsMade DEF CoverageMeans

LEMMA CoverageStepMeans == CoverageMeans /\ [CoverageNext]_coverageVars => CoverageMeans'
<1> SUFFICES ASSUME CoverageMeans, [CoverageNext]_coverageVars PROVE CoverageMeans'
  OBVIOUS
<1>1. PICK kind, v : kind = coverage.kind /\ v = coverage.values
  OBVIOUS
<1>2. /\ coverage = [kind |-> kind, values |-> v] /\ kind \in Kind
      /\ WellMade(kind, v) /\ Cells(kind, v) = defined
  BY <1>1 DEF CoverageMeans
<1>3. ASSUME NEW w, coverage' = [coverage EXCEPT !.values = w],
             WellMade(kind, w), defined' = Cells(kind, w)
      PROVE  CoverageMeans'
  <2>1. coverage' = [kind |-> kind, values |-> w] /\ coverage'.kind = kind /\ coverage'.values = w
    BY <1>2, <1>3
  <2> QED BY <1>2, <1>3, <2>1 DEF CoverageMeans
<1>4. ASSUME NEW p \in Pieces(kind), Cover(p) PROVE CoverageMeans'
  <2>1. PICK w : w = UnionCoverage(kind, v, p)
    OBVIOUS
  <2>2. coverage' = [coverage EXCEPT !.values = w] /\ defined' = defined \cup Cells(kind, p)
    BY <1>1, <1>4, <2>1 DEF Cover
  <2>3. WellMade(kind, w) /\ Cells(kind, w) = Cells(kind, v) \cup Cells(kind, p)
    BY <1>2, <2>1, PiecesAreMade, UnionIs
  <2> QED BY <1>2, <1>3, <2>2, <2>3
<1>5. ASSUME NEW p \in Pieces(kind), Narrow(p) PROVE CoverageMeans'
  <2>1. PICK w : w = IntersectCoverage(kind, v, p)
    OBVIOUS
  <2>2. coverage' = [coverage EXCEPT !.values = w] /\ defined' = defined \cap Cells(kind, p)
    BY <1>1, <1>5, <2>1 DEF Narrow
  <2>3. WellMade(kind, w) /\ Cells(kind, w) = Cells(kind, v) \cap Cells(kind, p)
    BY <1>2, <2>1, PiecesAreMade, IntersectIs
  <2> QED BY <1>2, <1>3, <2>2, <2>3
<1>6. ASSUME NEW p \in Pieces(kind), Discard(p) PROVE CoverageMeans'
  <2>1. PICK w : w = RemoveCoverage(kind, v, p)
    OBVIOUS
  <2>2. /\ kind \in {"Query", "Texture"}
        /\ coverage' = [coverage EXCEPT !.values = w] /\ defined' = defined \ Cells(kind, p)
    BY <1>1, <1>6, <2>1 DEF Discard, Removable
  <2>3. WellMade(kind, w) /\ Cells(kind, w) = Cells(kind, v) \ Cells(kind, p)
    BY <1>2, <2>1, <2>2, PiecesAreMade, RemoveIs
  <2> QED BY <1>2, <1>3, <2>2, <2>3
<1>7. CASE UNCHANGED coverageVars
  BY <1>7 DEF coverageVars, CoverageMeans
<1> QED BY <1>1, <1>4, <1>5, <1>6, <1>7 DEF CoverageNext

LEMMA MeansIsExact == CoverageMeans => CoverageIsExact
<1> SUFFICES ASSUME CoverageMeans PROVE CoverageIsExact
  OBVIOUS
<1>1. PICK kind, v : kind = coverage.kind /\ v = coverage.values
  OBVIOUS
<1>2. kind \in Kind /\ WellMade(kind, v) /\ Cells(kind, v) = defined
  BY <1>1 DEF CoverageMeans
<1>3. ASSUME NEW p \in Pieces(kind)
      PROVE  /\ ContainsCoverage(kind, v, p) <=> Cells(kind, p) \subseteq defined
             /\ ContainsCoverage(kind, p, v) <=> defined \subseteq Cells(kind, p)
  BY <1>2, PiecesAreMade, ContainsIs
<1> QED BY <1>1, <1>2, <1>3 DEF CoverageIsExact

(* What a buffer, texture or query coverage holds after any unions,            *)
(* intersections and discards is well made: ranges that stay inside the         *)
(* resource, strided grids whose groups do not overlap, intervals that neither  *)
(* meet nor touch (GpuBufferCoverage, the normalize functions).                 *)
THEOREM CoverageStaysWellMade == CoverageSpec => []CoverageMeans
<1> QED BY CoverageInitMeans, CoverageStepMeans, PTL DEF CoverageSpec

(* For a resource of any size and any strided layouts, the symbolic coverage    *)
(* stands for exactly the cells that were defined, and containment answers      *)
(* exactly what those cells say (initialization.rs, coverage.rs).               *)
THEOREM CoverageStaysExact == CoverageSpec => []CoverageIsExact
<1> QED BY CoverageStaysWellMade, MeansIsExact, PTL

(***************************************************************************)
(* Graphs.                                                                   *)
(***************************************************************************)
-----------------------------------------------------------------------------
(* Edges *)

(* m and n may not be exchanged, because of what they do to s                  *)
Clash(parts, m, n, s) ==
  \E a \in NodeAt(parts, m).accesses, b \in NodeAt(parts, n).accesses :
    a.storage = s /\ Hazard(a, b)

(* Nodes of a fragment that clash keep their order                             *)
LEMMA FragmentHazardEdges ==
  ASSUME NEW parts, NEW m \in NodeIds(parts), NEW n \in NodeIds(parts), NEW s,
         m[1] = n[1], m[2] < n[2], Clash(parts, m, n, s)
  PROVE  Edge(m, n, TRUE) \in FragmentHazards(parts)
<1>1. PICK P : P = {q \in NodeIds(parts) \X NodeIds(parts) :
                      q[1][1] = q[2][1] /\ q[1][2] < q[2][2] /\ NodeHazard(parts, q[1], q[2])}
  OBVIOUS
<1>2. NodeHazard(parts, m, n)
  BY DEF Clash, NodeHazard
<1>3. <<m, n>> \in P
  BY <1>1, <1>2
<1>4. PICK p \in P : p = <<m, n>>
  BY <1>3
<1>5. FragmentHazards(parts) = {Edge(q[1], q[2], TRUE) : q \in P}
  BY <1>1, Zenon DEF FragmentHazards
<1>6. Edge(p[1], p[2], TRUE) \in FragmentHazards(parts)
  BY <1>5
<1> QED BY <1>4, <1>6

(* nodes of two fragments are tied one way, and ordered that way                 *)
LEMMA CrossHazardEdges ==
  ASSUME NEW parts, NEW m \in NodeIds(parts), NEW n \in NodeIds(parts), NEW s \in Storage,
         m[1] # n[1], Clash(parts, m, n, s), CrossingsTied(parts)
  PROVE  /\ <<m[1], n[1], s>> \in Relations(parts) <=> <<n[1], m[1], s>> \notin Relations(parts)
         /\ <<m[1], n[1], s>> \in Relations(parts) => Edge(m, n, TRUE) \in CrossHazards(parts)
<1>1. <<m, n, s>> \in Crossing(parts)
  BY DEF Crossing, Clash
<1>2. <<m[1], n[1], s>> \in Relations(parts) <=> <<n[1], m[1], s>> \notin Relations(parts)
  BY <1>1 DEF CrossingsTied
<1>3. ASSUME <<m[1], n[1], s>> \in Relations(parts) PROVE Edge(m, n, TRUE) \in CrossHazards(parts)
  <2>1. PICK D : D = {d \in Crossing(parts) : <<d[1][1], d[2][1], d[3]>> \in Relations(parts)}
    OBVIOUS
  <2>2. <<m, n, s>> \in D
    BY <1>1, <1>3, <2>1
  <2>3. PICK c \in D : c = <<m, n, s>>
    BY <2>2
  <2>4. CrossHazards(parts) = {Edge(d[1], d[2], TRUE) : d \in D}
    BY <2>1, Zenon DEF CrossHazards
  <2>5. Edge(c[1], c[2], TRUE) \in CrossHazards(parts)
    BY <2>4
  <2> QED BY <2>3, <2>5
<1> QED BY <1>2, <1>3

-----------------------------------------------------------------------------
(* The latest writer before a node *)

(* The order at puts nodes in: at[m] is where m stands                         *)
Ordering(ids, order, at) ==
  /\ DOMAIN order \subseteq Nat
  /\ \A m \in ids : at[m] \in DOMAIN order /\ order[at[m]] = m
  /\ \A i \in DOMAIN order : order[i] \in ids /\ at[order[i]] = i

(* Nodes of W clash with n, which is why they stand in the order they should     *)
Kept(ids, at, related, W, n) ==
  /\ \A m \in W : m[1] = n[1] => /\ m[2] < n[2] => at[m] < at[n]
                                 /\ m[2] > n[2] => at[n] < at[m]
  /\ \A m \in W : m[1] # n[1] =>
       /\ <<m[1], n[1]>> \in related => at[m] < at[n]
       /\ <<m[1], n[1]>> \notin related => at[n] < at[m]

KeptByAll(ids, at, related, W, n) == \A t \in W \cup {n} : Kept(ids, at, related, W, t)

(* The last of the writers scheduled before n is the last of its fragment, if     *)
(* that has one before n, and else the last of the fragment it imports from      *)
LEMMA LatestOwn ==
  ASSUME NEW ids \in SUBSET (Nat \X Nat), NEW order, NEW at, Ordering(ids, order, at),
         NEW related, NEW W \in SUBSET ids, NEW n \in ids,
         KeptByAll(ids, at, related, W, n),
         NEW l \in Nat, <<n[1], l>> \in W, l < n[2],
         \A k \in Nat : <<n[1], k>> \in W /\ k < n[2] => k <= l
  PROVE  /\ at[<<n[1], l>>] < at[n]
         /\ \A m \in W : at[m] < at[n] => at[m] <= at[<<n[1], l>>]
<1>1. PICK last \in W : last = <<n[1], l>>
  OBVIOUS
<1>2. last[1] = n[1] /\ last[2] = l
  BY <1>1
<1>3. at[last] < at[n]
  BY <1>2 DEF KeptByAll, Kept
<1>4. \A m \in ids : at[m] \in Nat
  BY DEF Ordering
<1>5. ASSUME NEW m \in W, at[m] < at[n] PROVE at[m] <= at[last]
  <2>1. m = <<m[1], m[2]>> /\ m[1] \in Nat /\ m[2] \in Nat /\ n[1] \in Nat /\ n[2] \in Nat
    OBVIOUS
  <2>2. CASE m[1] = n[1]
    <3>1. ~ (m[2] > n[2])
      BY <1>4, <1>5, <2>2 DEF KeptByAll, Kept
    <3>2. m[2] # n[2]
      <4>1. n = <<n[1], n[2]>>
        OBVIOUS
      <4> QED BY <1>4, <1>5, <2>1, <2>2, <4>1
    <3>3. m[2] <= l
      BY <2>1, <2>2, <3>1, <3>2
    <3>4. m[2] = l => m = last
      BY <1>1, <2>1, <2>2
    <3>5. m[2] < l => at[m] < at[last]
      BY <1>2, <2>2 DEF KeptByAll, Kept
    <3> QED BY <1>4, <2>1, <3>3, <3>4, <3>5
  <2>3. CASE m[1] # n[1]
    <3>1. <<m[1], n[1]>> \in related
      BY <1>4, <1>5, <2>3 DEF KeptByAll, Kept
    <3>2. at[m] < at[last]
      BY <1>2, <2>3, <3>1 DEF KeptByAll, Kept
    <3> QED BY <1>4, <3>2
  <2> QED BY <2>2, <2>3
<1> QED BY <1>1, <1>3, <1>5

OneProducer(related) ==
  /\ \A i, j, k : <<i, k>> \in related /\ <<j, k>> \in related => i = j
  /\ \A i : <<i, i>> \notin related

NoneBefore(W, n) == \A k \in Nat : <<n[1], k>> \in W => ~ (k < n[2])

LatestBefore(W, at, last, n) ==
  at[last] < at[n] /\ \A m \in W : at[m] < at[n] => at[m] <= at[last]

LastOfProducer(W, related, last, n) ==
  /\ <<last[1], n[1]>> \in related
  /\ \A m \in W : <<m[1], n[1]>> \in related => m[1] = last[1] /\ m[2] <= last[2]

(* The latest writer before a node that writes nothing itself before is the last of  *)
(* its producer, if all writers outside its fragment are.  *)
LEMMA LatestImported ==
  ASSUME NEW ids \in SUBSET (Nat \X Nat), NEW order, NEW at, Ordering(ids, order, at),
         NEW related, OneProducer(related),
         NEW W \in SUBSET ids, NEW n \in ids,
         KeptByAll(ids, at, related, W, n),
         NoneBefore(W, n), NEW last \in W, LatestBefore(W, at, last, n)
  PROVE  LastOfProducer(W, related, last, n)
<1>1. \A m \in ids : at[m] \in Nat
  BY DEF Ordering
<1>2. \A m \in ids : m = <<m[1], m[2]>> /\ m[1] \in Nat /\ m[2] \in Nat
  OBVIOUS
<1>3. last[1] # n[1]
  <2>1. SUFFICES ASSUME last[1] = n[1] PROVE FALSE
    OBVIOUS
  <2>2. ~ (last[2] < n[2])
    BY <1>2, <2>1 DEF NoneBefore
  <2>3. ~ (last[2] > n[2])
    BY <1>1, <2>1 DEF KeptByAll, Kept, LatestBefore
  <2>4. last = n
    BY <1>2, <2>1, <2>2, <2>3
  <2> QED BY <1>1, <2>4 DEF LatestBefore
<1>4. <<last[1], n[1]>> \in related
  BY <1>1, <1>3 DEF KeptByAll, Kept, LatestBefore
<1>5. ASSUME NEW m \in W, <<m[1], n[1]>> \in related PROVE m[1] = last[1] /\ m[2] <= last[2]
  <2>1. m[1] = last[1]
    BY <1>4, <1>5 DEF OneProducer
  <2>2. at[m] < at[n]
    BY <1>3, <1>5, <2>1 DEF KeptByAll, Kept
  <2>3. at[m] <= at[last]
    BY <2>2 DEF LatestBefore
  <2>4. m[2] > last[2] => at[last] < at[m]
    BY <2>1 DEF KeptByAll, Kept
  <2> QED BY <1>1, <1>2, <2>1, <2>3, <2>4
<1> QED BY <1>4, <1>5 DEF LastOfProducer

-----------------------------------------------------------------------------
(* Accesses that share a cell *)

(* Boxes that share a cell overlap                                            *)
LEMMA SharedCell ==
  ASSUME NEW x, IsBox(x), NEW y, IsBox(y), NEW parent \in NamedAspect,
         NEW c \in BoxCells(x, parent), c \in BoxCells(y, parent)
  PROVE  NonEmpty(Intersection(x, y, parent))
<1>1. /\ c[1] \in x.first .. x.end - 1 /\ c[1] \in y.first .. y.end - 1
      /\ c[2] \in x.layer .. x.layerEnd - 1 /\ c[2] \in y.layer .. y.layerEnd - 1
      /\ c[3] \in AtomsOf(CanonicalAspect(x.aspect, parent))
      /\ c[3] \in AtomsOf(CanonicalAspect(y.aspect, parent))
  BY DEF BoxCells
<1>2. PICK box : box = Intersection(x, y, parent)
  OBVIOUS
<1>3. /\ box.first = Most(x.first, y.first) /\ box.end = Least(x.end, y.end)
      /\ box.layer = Most(x.layer, y.layer) /\ box.layerEnd = Least(x.layerEnd, y.layerEnd)
      /\ box.aspect = CommonAspect(x.aspect, y.aspect, parent)
  BY <1>2 DEF Intersection
<1>4. box.first < box.end /\ box.layer < box.layerEnd
  BY <1>1, <1>3 DEF IsBox, Most, Least
<1>5. box.aspect # "None"
  <2>1. PICK l, r : l = CanonicalAspect(x.aspect, parent) /\ r = CanonicalAspect(y.aspect, parent)
    OBVIOUS
  <2>2. l \in NamedAspect /\ r \in NamedAspect
    BY <2>1 DEF IsBox, CanonicalAspect
  <2>3. l = r \/ l = "All" \/ r = "All"
    BY <1>1, <2>1, <2>2 DEF AtomsOf, NamedAspect
  <2>4. box.aspect = IF l = r \/ r = "All" THEN l ELSE IF l = "All" THEN r ELSE "None"
    BY <1>3, <2>1 DEF CommonAspect
  <2> QED BY <2>2, <2>3, <2>4 DEF NamedAspect
<1> QED BY <1>2, <1>4, <1>5 DEF NonEmpty

AccessMade(a) ==
  /\ a.storage \in Storage /\ IsBox(a.box)
  /\ TypeOf(a.storage) = "sampler" => ~ Writes(a)

(* Each use of the operation, and each read declared beside it, stands in an     *)
(* access of the node that reads or writes                                    *)
NodeMade(node) ==
  /\ \A a \in node.accesses : AccessMade(a)
  /\ \A u \in AllUses(node) :
       \E a \in node.accesses : /\ a.storage = u.storage /\ a.box = u.box
                                /\ Reads(a) \/ Writes(a)

(* An access that touches a cell clashes with one that writes it               *)
LEMMA CellHazard ==
  ASSUME NEW a, AccessMade(a), NEW b, AccessMade(b), a.storage = b.storage,
         NEW c \in CellsOf(a), c \in CellsOf(b), Writes(a), Reads(b) \/ Writes(b)
  PROVE  Hazard(a, b) /\ Hazard(b, a)
<1>1. PICK parent : parent = Descriptor[a.storage].parent
  OBVIOUS
<1>2. PICK r \in Resource : a.storage = Descriptor[r].storage
  BY DEF AccessMade, Storage, StorageOf
<1>3. parent \in NamedAspect
  BY <1>1, <1>2, DescriptorAssumption
<1>4. /\ IsBox(a.box) /\ IsBox(b.box)
      /\ c \in BoxCells(a.box, parent) /\ c \in BoxCells(b.box, parent)
  BY <1>1 DEF AccessMade, CellsOf
<1>5. NonEmpty(Intersection(a.box, b.box, parent)) /\ NonEmpty(Intersection(b.box, a.box, parent))
  BY <1>3, <1>4, SharedCell
<1>6. TypeOf(a.storage) # "sampler"
  BY DEF AccessMade
<1>7. Overlap(a, b) /\ Overlap(b, a)
  BY <1>1, <1>5, <1>6 DEF Overlap
<1> QED BY <1>7 DEF Hazard

(* A writer of a cell clashes with every node that touches it                  *)
TouchesCell(node, s, c) ==
  \E a \in node.accesses : a.storage = s /\ c \in CellsOf(a) /\ (Reads(a) \/ Writes(a))

(* A node that writes a cell clashes with every node that touches it.  *)
LEMMA WriterClashes ==
  ASSUME NEW parts, NEW m, NEW n, NodeMade(NodeAt(parts, m)), NodeMade(NodeAt(parts, n)),
         NEW s, NEW c, WritesCell(NodeAt(parts, m), s, c), TouchesCell(NodeAt(parts, n), s, c)
  PROVE  Clash(parts, m, n, s) /\ Clash(parts, n, m, s) /\ s \in Storage
<1>1. PICK a \in NodeAt(parts, m).accesses : a.storage = s /\ c \in CellsOf(a) /\ Writes(a)
  BY DEF WritesCell, TouchesFor
<1>2. PICK b \in NodeAt(parts, n).accesses : b.storage = s /\ c \in CellsOf(b) /\ (Reads(b) \/ Writes(b))
  BY DEF TouchesCell
<1>3. AccessMade(a) /\ AccessMade(b)
  BY DEF NodeMade
<1>4. Hazard(a, b) /\ Hazard(b, a)
  BY <1>1, <1>2, <1>3, CellHazard
<1> QED BY <1>1, <1>2, <1>3, <1>4 DEF Clash, AccessMade

-----------------------------------------------------------------------------
(* The schedule *)

(* There is a first among the nodes that are ready                             *)
LEMMA FirstIsReady ==
  ASSUME NEW ready \in SUBSET (Nat \X Nat), ready # {}
  PROVE  First(ready) \in ready
<1>1. PICK A : A = {n[1] : n \in ready}
  OBVIOUS
<1>2. A \subseteq Nat /\ A # {}
  BY <1>1
<1>3. PICK i \in A : \A k \in A : i <= k
  BY <1>2, LeastNumber
<1>4. PICK B : B = {j \in Nat : <<i, j>> \in ready}
  OBVIOUS
<1>5. B # {}
  <2>1. PICK n \in ready : n[1] = i
    BY <1>1
  <2>2. n = <<i, n[2]>> /\ n[2] \in Nat
    BY <2>1
  <2> QED BY <1>4, <2>2
<1>6. PICK j \in B : \A k \in B : j <= k
  BY <1>4, <1>5, LeastNumber
<1>7. ASSUME NEW m \in ready PROVE ~ Earlier(m, <<i, j>>)
  <2>1. m = <<m[1], m[2]>> /\ m[1] \in Nat /\ m[2] \in Nat /\ i \in Nat /\ j \in Nat
    BY <1>2, <1>4
  <2>2. i <= m[1]
    BY <1>1, <1>3
  <2>3. m[1] = i => j <= m[2]
    BY <1>4, <1>6, <2>1
  <2> QED BY <2>1, <2>2, <2>3 DEF Earlier
<1>8. <<i, j>> \in ready
  BY <1>4
<1>9. \E n \in ready : \A m \in ready : ~ Earlier(m, n)
  BY <1>7, <1>8
<1> QED BY <1>9 DEF First

(* A node stands once, after everything its edges put before it                *)
Sorted(ids, edges, s) ==
  /\ s \in Seq(ids)
  /\ \A i, j \in 1 .. Len(s) : s[i] = s[j] => i = j
  /\ \A i \in 1 .. Len(s) : \A e \in edges :
       e.after = s[i] => \E j \in 1 .. i - 1 : s[j] = e.before

(* One step of the schedule keeps it sorted: what is added is ready.  *)
LEMMA ExtendedIsSorted ==
  ASSUME NEW ids \in SUBSET (Nat \X Nat), NEW edges, NEW s, Sorted(ids, edges, s)
  PROVE  Sorted(ids, edges, Extended(s, ids, edges))
<1>1. PICK done : done = {s[i] : i \in 1 .. Len(s)}
  OBVIOUS
<1>2. done = ToSet(s)
  BY <1>1 DEF ToSet, Sorted
<1>3. PICK ready : ready = ReadyAfter(done, ids, edges)
  OBVIOUS
<1>4. Extended(s, ids, edges) = IF ready = {} THEN s ELSE Append(s, First(ready))
  BY <1>2, <1>3, Zenon DEF Extended
<1>5. CASE ready = {}
  BY <1>4, <1>5
<1>6. CASE ready # {}
  <2>1. ready \subseteq ids
    BY <1>3 DEF ReadyAfter
  <2>2. PICK n \in ready : n = First(ready)
    BY <1>6, <2>1, FirstIsReady
  <2>3. /\ n \in ids /\ n \notin done
        /\ \A e \in edges : e.after = n => e.before \in done
    BY <1>3 DEF ReadyAfter
  <2>4. PICK t : t = Append(s, n)
    OBVIOUS
  <2>5. /\ t \in Seq(ids) /\ Len(t) = Len(s) + 1 /\ Len(s) \in Nat /\ t[Len(s) + 1] = n
        /\ \A i \in 1 .. Len(s) : t[i] = s[i]
    BY <2>3, <2>4 DEF Sorted
  <2>6. ASSUME NEW i \in 1 .. Len(t), NEW j \in 1 .. Len(t), t[i] = t[j] PROVE i = j
    <3>1. \A k \in 1 .. Len(s) : t[k] # n
      BY <1>1, <2>3, <2>5
    <3>2. \A k \in 1 .. Len(t) : k \in 1 .. Len(s) \/ k = Len(s) + 1
      BY <2>5
    <3>3. CASE i \in 1 .. Len(s) /\ j \in 1 .. Len(s)
      BY <2>5, <2>6, <3>3 DEF Sorted
    <3> QED BY <2>5, <2>6, <3>1, <3>2, <3>3
  <2>7. ASSUME NEW i \in 1 .. Len(t), NEW e \in edges, e.after = t[i]
        PROVE  \E j \in 1 .. i - 1 : t[j] = e.before
    <3>1. CASE i = Len(s) + 1
      <4>1. e.before \in done
        BY <2>3, <2>5, <2>7, <3>1
      <4>2. PICK j \in 1 .. Len(s) : s[j] = e.before
        BY <1>1, <4>1
      <4> QED BY <2>5, <3>1, <4>2
    <3>2. CASE i # Len(s) + 1
      <4>1. i \in 1 .. Len(s) /\ e.after = s[i]
        BY <2>5, <2>7, <3>2
      <4>2. PICK j \in 1 .. i - 1 : s[j] = e.before
        BY <4>1 DEF Sorted
      <4>3. j \in 1 .. Len(s)
        BY <2>5, <4>1, <4>2
      <4> QED BY <2>5, <4>2, <4>3
    <3> QED BY <3>1, <3>2
  <2>8. Sorted(ids, edges, t)
    BY <2>5, <2>6, <2>7 DEF Sorted
  <2> QED BY <1>4, <1>6, <2>2, <2>4, <2>8
<1> QED BY <1>5, <1>6

(* A schedule has no node twice, and each stands after the edges that end in it.  *)
LEMMA TopologicalIsSorted ==
  ASSUME NEW ids \in SUBSET (Nat \X Nat), IsFiniteSet(ids), NEW edges
  PROVE  Sorted(ids, edges, Topological(ids, edges))
<1>1. PICK n \in Nat : n = Cardinality(ids)
  BY FS_CardinalityType
<1>2. PICK V : V = {s \in Seq(ids) : Sorted(ids, edges, s)}
  OBVIOUS
<1>3. <<>> \in V
  BY <1>2 DEF Sorted
<1>4. PICK step : step = [p \in Nat \X V |-> Extended(p[2], ids, edges)]
  OBVIOUS
<1>5. ASSUME NEW p \in Nat \X V PROVE step[p] \in V
  <2>1. Sorted(ids, edges, p[2])
    BY <1>2
  <2>2. Sorted(ids, edges, Extended(p[2], ids, edges))
    BY <2>1, ExtendedIsSorted
  <2> QED BY <1>2, <1>4, <2>2 DEF Sorted
<1>6. step \in [Nat \X V -> V]
  BY <1>4, <1>5
<1>7. PICK f \in [0 .. n -> V] :
        f = [k \in 0 .. n |-> IF k = 0 THEN <<>> ELSE step[<<k, f[k - 1]>>]]
  <2>1. PICK f \in [0 .. n -> V] : IsIteration(n, <<>>, step, f)
    BY <1>3, <1>6, IterationExists
  <2> QED BY <2>1, Zenon DEF IsIteration
<1>8. \A k \in 0 .. n : k # 0 => step[<<k, f[k - 1]>>] = Extended(f[k - 1], ids, edges)
  <2>1. \A k \in 0 .. n : k # 0 => <<k, f[k - 1]>> \in Nat \X V
    OBVIOUS
  <2> QED BY <1>4, <2>1
<1>9. f = [k \in 0 .. n |-> IF k = 0 THEN <<>> ELSE Extended(f[k - 1], ids, edges)]
  BY <1>7, <1>8
<1>10. PICK g : g = CHOOSE h : h = [k \in 0 .. n |->
                     IF k = 0 THEN <<>> ELSE Extended(h[k - 1], ids, edges)]
  OBVIOUS
<1>11. g = [k \in 0 .. n |-> IF k = 0 THEN <<>> ELSE Extended(g[k - 1], ids, edges)]
  BY <1>9, <1>10, Zenon
<1>12. Topological(ids, edges) = g[n]
  BY <1>1, <1>10, Zenon DEF Topological
<1>13. PICK P : P = {k \in Nat : k <= n => Sorted(ids, edges, g[k])}
  OBVIOUS
<1>14. 0 \in P
  <2>1. g[0] = <<>>
    BY <1>11
  <2> QED BY <1>2, <1>3, <1>13, <2>1
<1>15. ASSUME NEW k \in Nat, k \in P PROVE k + 1 \in P
  <2>1. SUFFICES ASSUME k + 1 <= n PROVE Sorted(ids, edges, g[k + 1])
    BY <1>13
  <2>2. k + 1 \in 0 .. n /\ k + 1 # 0 /\ (k + 1) - 1 = k
    BY <2>1
  <2>3. g[k + 1] = Extended(g[k], ids, edges)
    BY <1>11, <2>2
  <2>4. Sorted(ids, edges, g[k])
    BY <1>13, <1>15, <2>1
  <2> QED BY <2>3, <2>4, ExtendedIsSorted
<1>16. n \in P
  BY <1>14, <1>15, NumberInduction
<1> QED BY <1>12, <1>13, <1>16

(* A schedule of all the nodes has a place for each                            *)
LEMMA SchedulePlaces ==
  ASSUME NEW ids, IsFiniteSet(ids), NEW edges, NEW s, Sorted(ids, edges, s),
         Len(s) = Cardinality(ids)
  PROVE  \E at : /\ Ordering(ids, s, at) /\ \A m \in ids : at[m] \in 1 .. Len(s)
                 /\ \A e \in edges : e.after \in ids => e.before \in ids /\ at[e.before] < at[e.after]
<1>1. PICK n \in Nat : n = Len(s)
  BY DEF Sorted
<1>2. s \in [1 .. n -> ids]
  BY <1>1 DEF Sorted
<1>3. s \in Injection(1 .. n, ids)
  BY <1>1, <1>2 DEF Sorted, Injection, IsInjective
<1>4. Cardinality(1 .. n) = Cardinality(ids)
  BY <1>1, FS_Interval
<1>5. s \in Surjection(1 .. n, ids)
  BY <1>3, <1>4, FS_Injection
<1>6. \A m \in ids : \E i \in 1 .. n : s[i] = m
  BY <1>5 DEF Surjection
<1>7. PICK at : at = [m \in ids |-> CHOOSE i \in 1 .. n : s[i] = m]
  OBVIOUS
<1>8. \A m \in ids : at[m] \in 1 .. n /\ s[at[m]] = m
  BY <1>6, <1>7
<1>9. \A i \in 1 .. n : s[i] \in ids /\ at[s[i]] = i
  BY <1>1, <1>2, <1>8 DEF Sorted
<1>10. Ordering(ids, s, at)
  BY <1>2, <1>8, <1>9 DEF Ordering
<1>11. ASSUME NEW e \in edges, e.after \in ids PROVE e.before \in ids /\ at[e.before] < at[e.after]
  <2>1. at[e.after] \in 1 .. n /\ s[at[e.after]] = e.after
    BY <1>8, <1>11
  <2>2. PICK j \in 1 .. at[e.after] - 1 : s[j] = e.before
    BY <1>1, <2>1 DEF Sorted
  <2>3. j \in 1 .. n
    BY <2>1, <2>2
  <2>4. at[e.before] = j /\ e.before \in ids
    BY <1>9, <2>2, <2>3
  <2> QED BY <2>1, <2>2, <2>4
<1> QED BY <1>1, <1>8, <1>10, <1>11

-----------------------------------------------------------------------------
(* Orders only add edges *)

IsOrdered(r) == \E X : r \in [edges : SUBSET X, valid : BOOLEAN]

(* An explicit order removes no edge.  *)
LEMMA OrderAdds ==
  ASSUME NEW done, IsOrdered(done), NEW ids, NEW order
  PROVE  /\ IsOrdered(WithOrder(done, ids, order))
         /\ WithOrder(done, ids, order).edges = done.edges \cup {Edge(order[1], order[2], FALSE)}
<1>1. PICK X : done \in [edges : SUBSET X, valid : BOOLEAN]
  BY DEF IsOrdered
<1>2. PICK e : e = Edge(order[1], order[2], FALSE)
  OBVIOUS
<1>3. PICK v \in BOOLEAN : v = (/\ done.valid
                                /\ ~ DataPath(done.edges, ids, order[1], order[2])
                                /\ ~ DataPath(done.edges, ids, order[2], order[1]))
  OBVIOUS
<1>4. WithOrder(done, ids, order) = [edges |-> done.edges \cup {e}, valid |-> v]
  BY <1>2, <1>3, Zenon DEF WithOrder
<1>5. PICK r : r = [edges |-> done.edges \cup {e}, valid |-> v]
  OBVIOUS
<1>6. r \in [edges : SUBSET (X \cup {e}), valid : BOOLEAN] /\ r.edges = done.edges \cup {e}
  BY <1>1, <1>3, <1>5
<1>7. IsOrdered(r)
  BY <1>6 DEF IsOrdered
<1> QED BY <1>2, <1>4, <1>5, <1>6, <1>7

(* So no number of explicit orders does.  *)
LEMMA OrdersAdd ==
  ASSUME NEW start, IsOrdered(start), NEW ids, NEW orders, Len(orders) \in Nat
  PROVE  /\ IsOrdered(WithOrders(start, ids, orders))
         /\ start.edges \subseteq WithOrders(start, ids, orders).edges
<1>1. PICK n \in Nat : n = Len(orders)
  OBVIOUS
<1>2. PICK Y : start \in [edges : SUBSET Y, valid : BOOLEAN]
  BY DEF IsOrdered
<1>3. PICK X : X = Y \cup {Edge(orders[k][1], orders[k][2], FALSE) : k \in 1 .. n}
  OBVIOUS
<1>4. PICK V : V = [edges : SUBSET X, valid : BOOLEAN]
  OBVIOUS
<1>5. start \in V
  BY <1>2, <1>3, <1>4
<1>6. PICK step : step = [p \in Nat \X V |-> IF p[1] \in 1 .. n THEN WithOrder(p[2], ids, orders[p[1]])
                                            ELSE p[2]]
  OBVIOUS
<1>7. ASSUME NEW k \in 1 .. n, NEW done \in V PROVE WithOrder(done, ids, orders[k]) \in V
  <2>1. IsOrdered(done)
    BY <1>4 DEF IsOrdered
  <2>2. PICK r : r = WithOrder(done, ids, orders[k])
    OBVIOUS
  <2>3. IsOrdered(r) /\ r.edges = done.edges \cup {Edge(orders[k][1], orders[k][2], FALSE)}
    BY <2>1, <2>2, OrderAdds
  <2>4. PICK Z : r \in [edges : SUBSET Z, valid : BOOLEAN]
    BY <2>3 DEF IsOrdered
  <2>5. r.edges \subseteq X
    BY <1>3, <1>4, <2>3
  <2>6. r = [edges |-> r.edges, valid |-> r.valid] /\ r.valid \in BOOLEAN
    BY <2>4
  <2>7. [edges |-> r.edges, valid |-> r.valid] \in V
    BY <1>4, <2>5, <2>6
  <2> QED BY <2>2, <2>6, <2>7
<1>8. step \in [Nat \X V -> V]
  BY <1>6, <1>7
<1>9. PICK f \in [0 .. n -> V] : IsIteration(n, start, step, f)
  BY <1>5, <1>8, IterationExists
<1>10. f = [k \in 0 .. n |-> IF k = 0 THEN start ELSE step[<<k, f[k - 1]>>]]
  BY <1>9, Zenon DEF IsIteration
<1>11. \A k \in 0 .. n : k # 0 => step[<<k, f[k - 1]>>] = WithOrder(f[k - 1], ids, orders[k])
  <2>1. \A k \in 0 .. n : k # 0 => <<k, f[k - 1]>> \in Nat \X V /\ k \in 1 .. n
    OBVIOUS
  <2> QED BY <1>6, <2>1
<1>12. f = [k \in 0 .. n |-> IF k = 0 THEN start ELSE WithOrder(f[k - 1], ids, orders[k])]
  BY <1>10, <1>11
<1>13. PICK g : g = CHOOSE h : h = [k \in 0 .. n |->
                      IF k = 0 THEN start ELSE WithOrder(h[k - 1], ids, orders[k])]
  OBVIOUS
<1>14. g = [k \in 0 .. n |-> IF k = 0 THEN start ELSE WithOrder(g[k - 1], ids, orders[k])]
  BY <1>12, <1>13, Zenon
<1>15. WithOrders(start, ids, orders) = g[n]
  BY <1>1, <1>13, Zenon DEF WithOrders
<1>16. PICK P : P = {k \in Nat : k <= n => IsOrdered(g[k]) /\ start.edges \subseteq g[k].edges}
  OBVIOUS
<1>17. 0 \in P
  <2>1. g[0] = start
    BY <1>14
  <2> QED BY <1>16, <2>1
<1>18. ASSUME NEW k \in Nat, k \in P PROVE k + 1 \in P
  <2>1. SUFFICES ASSUME k + 1 <= n PROVE IsOrdered(g[k + 1]) /\ start.edges \subseteq g[k + 1].edges
    BY <1>16
  <2>2. k + 1 \in 0 .. n /\ k + 1 # 0 /\ (k + 1) - 1 = k
    BY <2>1
  <2>3. g[k + 1] = WithOrder(g[k], ids, orders[k + 1])
    BY <1>14, <2>2
  <2>4. IsOrdered(g[k]) /\ start.edges \subseteq g[k].edges
    BY <1>16, <1>18, <2>1
  <2> QED BY <2>3, <2>4, OrderAdds
<1>19. n \in P
  BY <1>17, <1>18, NumberInduction
<1> QED BY <1>15, <1>16, <1>19

IsSequence(s) == \E S : s \in Seq(S)

(* The orders of all fragments, one after the other                            *)
LEMMA FragmentOrdersCount ==
  ASSUME NEW parts, IsSequence(parts), \A i \in DOMAIN parts : IsSequence(parts[i].orders)
  PROVE  Len(FragmentOrders(parts)) \in Nat
<1>1. PICK n \in Nat : n = Len(parts)
  BY DEF IsSequence
<1>2. PICK W : W = UNION {{OrdersOf(parts, i)[k] : k \in DOMAIN parts[i].orders} : i \in 1 .. n}
  OBVIOUS
<1>3. ASSUME NEW i \in 1 .. n PROVE OrdersOf(parts, i) \in Seq(W)
  <2>1. i \in DOMAIN parts
    BY <1>1 DEF IsSequence
  <2>2. PICK s : s = parts[i].orders
    OBVIOUS
  <2>3. PICK S : s \in Seq(S)
    BY <2>1, <2>2 DEF IsSequence
  <2>4. Len(s) \in Nat /\ DOMAIN s = 1 .. Len(s)
    BY <2>3
  <2>5. PICK o : o = OrdersOf(parts, i)
    OBVIOUS
  <2>6. o = [k \in 1 .. Len(s) |-> o[k]]
    BY <2>2, <2>4, <2>5 DEF OrdersOf
  <2>7. \A k \in 1 .. Len(s) : o[k] \in W
    BY <1>2, <2>2, <2>4, <2>5
  <2>8. o \in [1 .. Len(s) -> W]
    BY <2>6, <2>7
  <2> QED BY <2>4, <2>5, <2>8
<1>4. PICK V : V = Seq(W)
  OBVIOUS
<1>5. PICK step : step = [p \in Nat \X V |-> IF p[1] \in 1 .. n THEN p[2] \o OrdersOf(parts, p[1])
                                            ELSE p[2]]
  OBVIOUS
<1>6. step \in [Nat \X V -> V]
  BY <1>3, <1>4, <1>5
<1>7. <<>> \in V
  BY <1>4
<1>8. PICK f \in [0 .. n -> V] : IsIteration(n, <<>>, step, f)
  BY <1>6, <1>7, IterationExists
<1>9. f = [k \in 0 .. n |-> IF k = 0 THEN <<>> ELSE step[<<k, f[k - 1]>>]]
  BY <1>8, Zenon DEF IsIteration
<1>10. \A k \in 0 .. n : k # 0 => step[<<k, f[k - 1]>>] = f[k - 1] \o OrdersOf(parts, k)
  <2>1. \A k \in 0 .. n : k # 0 => <<k, f[k - 1]>> \in Nat \X V /\ k \in 1 .. n
    OBVIOUS
  <2> QED BY <1>5, <2>1
<1>11. f = [k \in 0 .. n |-> IF k = 0 THEN <<>> ELSE f[k - 1] \o OrdersOf(parts, k)]
  BY <1>9, <1>10
<1>12. PICK g : g = CHOOSE h : h = [k \in 0 .. n |->
                      IF k = 0 THEN <<>> ELSE h[k - 1] \o OrdersOf(parts, k)]
  OBVIOUS
<1>13. g = [k \in 0 .. n |-> IF k = 0 THEN <<>> ELSE g[k - 1] \o OrdersOf(parts, k)]
  BY <1>11, <1>12, Zenon
<1>14. FragmentOrders(parts) = g[n]
  BY <1>1, <1>12, Zenon DEF FragmentOrders
<1>15. PICK P : P = {k \in Nat : k <= n => g[k] \in V}
  OBVIOUS
<1>16. 0 \in P
  <2>1. g[0] = <<>>
    BY <1>13
  <2> QED BY <1>7, <1>15, <2>1
<1>17. ASSUME NEW k \in Nat, k \in P PROVE k + 1 \in P
  <2>1. SUFFICES ASSUME k + 1 <= n PROVE g[k + 1] \in V
    BY <1>15
  <2>2. k + 1 \in 0 .. n /\ k + 1 # 0 /\ (k + 1) - 1 = k /\ k + 1 \in 1 .. n
    BY <2>1
  <2>3. g[k + 1] = g[k] \o OrdersOf(parts, k + 1)
    BY <1>13, <2>2
  <2>4. g[k] \in V
    BY <1>15, <1>17, <2>1
  <2>5. OrdersOf(parts, k + 1) \in V
    BY <1>3, <1>4, <2>2
  <2> QED BY <1>4, <2>3, <2>4, <2>5
<1>18. n \in P
  BY <1>16, <1>17, NumberInduction
<1> QED BY <1>4, <1>14, <1>15, <1>18

(* All the edges the accesses call for are among those the schedule follows     *)
LEMMA OrderedKeepsHazards ==
  ASSUME NEW parts, IsSequence(parts), \A i \in DOMAIN parts : IsSequence(parts[i].orders),
         NEW graphOrders, IsSequence(graphOrders)
  PROVE  FragmentHazards(parts) \cup CrossHazards(parts) \subseteq Ordered(parts, graphOrders).edges
<1>1. PICK start : start = [edges |-> FragmentHazards(parts) \cup CrossHazards(parts), valid |-> TRUE]
  OBVIOUS
<1>2. IsOrdered(start)
  <2>1. start \in [edges : SUBSET (FragmentHazards(parts) \cup CrossHazards(parts)), valid : BOOLEAN]
    BY <1>1
  <2> QED BY <2>1 DEF IsOrdered
<1>3. PICK local : local = WithOrders(start, NodeIds(parts), FragmentOrders(parts))
  OBVIOUS
<1>4. IsOrdered(local) /\ start.edges \subseteq local.edges
  BY <1>2, <1>3, FragmentOrdersCount, OrdersAdd
<1>5. PICK orders : orders = [k \in DOMAIN graphOrders |->
                      <<Resolved(parts, graphOrders[k][1]), Resolved(parts, graphOrders[k][2])>>]
  OBVIOUS
<1>6. Len(orders) \in Nat
  BY <1>5 DEF IsSequence
<1>7. Ordered(parts, graphOrders) = WithOrders(local, NodeIds(parts), orders)
  BY <1>1, <1>3, <1>5, Zenon DEF Ordered
<1>8. local.edges \subseteq Ordered(parts, graphOrders).edges
  BY <1>4, <1>6, <1>7, OrdersAdd
<1> QED BY <1>1, <1>4, <1>8

-----------------------------------------------------------------------------
(* The schedule of well-made fragments *)

FragmentMade(f) ==
  /\ IsSequence(f.nodes) /\ Len(f.nodes) <= MaxNodes /\ IsSequence(f.orders)
  /\ \A l \in DOMAIN f.nodes : NodeMade(f.nodes[l])

PartsMade(parts) == IsSequence(parts) /\ \A i \in DOMAIN parts : FragmentMade(parts[i])

(* The nodes of a graph are the positions in its parts, finitely many.  *)
LEMMA NodeIdsAre ==
  ASSUME NEW parts, PartsMade(parts)
  PROVE  /\ NodeIds(parts) \subseteq Nat \X Nat /\ IsFiniteSet(NodeIds(parts))
         /\ \A n \in NodeIds(parts) : /\ n[1] \in DOMAIN parts /\ n[2] \in DOMAIN parts[n[1]].nodes
                                      /\ n[2] \in 1 .. MaxNodes
                                      /\ NodeMade(NodeAt(parts, n))
         /\ \A i \in DOMAIN parts : \A l \in DOMAIN parts[i].nodes : <<i, l>> \in NodeIds(parts)
<1>1. PICK k \in Nat : k = Len(parts) /\ DOMAIN parts = 1 .. k
  BY DEF PartsMade, IsSequence
<1>2. ASSUME NEW i \in DOMAIN parts, NEW l \in DOMAIN parts[i].nodes
      PROVE  i \in 1 .. k /\ l \in 1 .. MaxNodes /\ NodeMade(parts[i].nodes[l])
  <2>1. PICK s : s = parts[i].nodes
    OBVIOUS
  <2>2. IsSequence(s) /\ Len(s) <= MaxNodes /\ NodeMade(s[l])
    BY <1>2, <2>1 DEF PartsMade, FragmentMade
  <2>3. Len(s) \in Nat /\ DOMAIN s = 1 .. Len(s)
    BY <2>2 DEF IsSequence
  <2>4. MaxNodes \in Nat
    BY AuthorAssumption
  <2> QED BY <1>1, <1>2, <2>1, <2>2, <2>3, <2>4
<1>3. ASSUME NEW n \in NodeIds(parts)
      PROVE  /\ n[1] \in DOMAIN parts /\ n[2] \in DOMAIN parts[n[1]].nodes
             /\ n = <<n[1], n[2]>>
  BY <1>3 DEF NodeIds
<1>4. \A i \in DOMAIN parts : \A l \in DOMAIN parts[i].nodes : <<i, l>> \in NodeIds(parts)
  BY DEF NodeIds
<1>5. NodeIds(parts) \subseteq (1 .. k) \X (1 .. MaxNodes)
  BY <1>2, <1>3
<1>6. IsFiniteSet((1 .. k) \X (1 .. MaxNodes))
  <2>1. MaxNodes \in Nat
    BY AuthorAssumption
  <2>2. IsFiniteSet(1 .. k) /\ IsFiniteSet(1 .. MaxNodes)
    BY <2>1, FS_Interval
  <2> QED BY <2>2, FS_Product
<1>7. IsFiniteSet(NodeIds(parts))
  BY <1>5, <1>6, FS_Subset
<1>8. (1 .. k) \X (1 .. MaxNodes) \subseteq Nat \X Nat
  BY AuthorAssumption
<1>9. \A n \in NodeIds(parts) : NodeMade(NodeAt(parts, n)) /\ n[2] \in 1 .. MaxNodes
  BY <1>2, <1>3 DEF NodeAt
<1> QED BY <1>3, <1>4, <1>5, <1>7, <1>8, <1>9

(* A storage comes from one other part                                         *)
RelatedBy(parts, s) == {<<r[1], r[2]>> : r \in {q \in Relations(parts) : q[3] = s}}

(* An import ties its part to the part that exports what it names.  *)
LEMMA RelationsAre ==
  ASSUME NEW parts, UniqueExports(parts), ImportsBound(parts), NEW s
  PROVE  /\ \A i, j : <<i, j>> \in RelatedBy(parts, s) <=> <<i, j, s>> \in Relations(parts)
         /\ \A i, j, k : <<i, k>> \in RelatedBy(parts, s) /\ <<j, k>> \in RelatedBy(parts, s) => i = j
         /\ \A i : <<i, i>> \notin RelatedBy(parts, s)
<1>1. PICK P : P = {q \in Exports(parts) \X Imports(parts) : q[1][2].key = q[2][2].key}
  OBVIOUS
<1>2. Relations(parts) = {<<p[1][1], p[2][1], StorageOf(p[2][2].resource)>> : p \in P}
  BY <1>1, Zenon DEF Relations
<1>3. \A r \in Relations(parts) : r = <<r[1], r[2], r[3]>>
  BY <1>2
<1>4. PICK Q : Q = {q \in Relations(parts) : q[3] = s}
  OBVIOUS
<1>5. RelatedBy(parts, s) = {<<r[1], r[2]>> : r \in Q}
  BY <1>4 DEF RelatedBy
<1>6. ASSUME NEW i, NEW j PROVE <<i, j>> \in RelatedBy(parts, s) <=> <<i, j, s>> \in Relations(parts)
  <2>1. ASSUME <<i, j>> \in RelatedBy(parts, s) PROVE <<i, j, s>> \in Relations(parts)
    <3>1. PICK r \in Q : <<i, j>> = <<r[1], r[2]>>
      BY <1>5, <2>1
    <3>2. r \in Relations(parts) /\ r = <<r[1], r[2], r[3]>> /\ r[3] = s /\ r[1] = i /\ r[2] = j
      BY <1>3, <1>4, <3>1
    <3> QED BY <3>2
  <2>2. ASSUME <<i, j, s>> \in Relations(parts) PROVE <<i, j>> \in RelatedBy(parts, s)
    <3>1. PICK r \in Relations(parts) : r = <<i, j, s>>
      BY <2>2
    <3>2. r[1] = i /\ r[2] = j /\ r \in Q
      BY <1>4, <3>1
    <3> QED BY <1>5, <3>2
  <2> QED BY <2>1, <2>2
<1>7. ASSUME NEW i, NEW j, NEW k, <<i, k, s>> \in Relations(parts), <<j, k, s>> \in Relations(parts)
      PROVE  i = j
  <2>1. PICK r \in Relations(parts), q \in Relations(parts) : r = <<i, k, s>> /\ q = <<j, k, s>>
    BY <1>7
  <2> QED BY <2>1 DEF ImportsBound
<1>8. ASSUME NEW i, <<i, i, s>> \in Relations(parts) PROVE FALSE
  <2>1. PICK p \in P : <<i, i, s>> = <<p[1][1], p[2][1], StorageOf(p[2][2].resource)>>
    BY <1>2, <1>8
  <2>2. /\ p[1] \in Exports(parts) /\ p[2] \in Imports(parts) /\ p[1][2].key = p[2][2].key
        /\ p[1][1] = p[2][1]
    BY <1>1, <2>1
  <2>3. PICK x \in Exports(parts) : x[2].key = p[2][2].key /\ x[1] # p[2][1]
    BY <2>2 DEF ImportsBound
  <2> QED BY <2>2, <2>3 DEF UniqueExports
<1> QED BY <1>6, <1>7, <1>8

(* The nodes that write a cell, and a node that touches it, are ordered as their  *)
(* fragments and the imports between them say                                  *)
WritersOf(parts, s, c) == {m \in NodeIds(parts) : WritesCell(NodeAt(parts, m), s, c)}

(* The writers of a cell and a node that touches it are scheduled as their programs  *)
(* or an import between their parts say.  *)
LEMMA CellsKept ==
  ASSUME NEW parts, PartsMade(parts), UniqueExports(parts), ImportsBound(parts), CrossingsTied(parts),
         NEW edges, FragmentHazards(parts) \cup CrossHazards(parts) \subseteq edges,
         NEW at, \A m \in NodeIds(parts) : at[m] \in Nat,
         \A e \in edges : e.after \in NodeIds(parts) => at[e.before] < at[e.after],
         NEW s, NEW c, NEW t \in NodeIds(parts), TouchesCell(NodeAt(parts, t), s, c)
  PROVE  Kept(NodeIds(parts), at, RelatedBy(parts, s), WritersOf(parts, s, c), t)
<1>1. ASSUME NEW m \in WritersOf(parts, s, c)
      PROVE  /\ m \in NodeIds(parts) /\ Clash(parts, m, t, s) /\ Clash(parts, t, m, s) /\ s \in Storage
  <2>1. m \in NodeIds(parts) /\ WritesCell(NodeAt(parts, m), s, c)
    BY DEF WritersOf
  <2>2. NodeMade(NodeAt(parts, m)) /\ NodeMade(NodeAt(parts, t))
    BY <2>1, NodeIdsAre
  <2> QED BY <2>1, <2>2, WriterClashes
<1>2. \A m, n \in NodeIds(parts) : Edge(m, n, TRUE) \in edges => at[m] < at[n]
  BY DEF Edge
<1>3. ASSUME NEW m \in WritersOf(parts, s, c), m[1] = t[1]
      PROVE  (m[2] < t[2] => at[m] < at[t]) /\ (m[2] > t[2] => at[t] < at[m])
  <2>1. ASSUME m[2] < t[2] PROVE at[m] < at[t]
    <3>1. Edge(m, t, TRUE) \in FragmentHazards(parts)
      BY <1>1, <1>3, <2>1, FragmentHazardEdges
    <3> QED BY <1>1, <1>2, <3>1
  <2>2. ASSUME m[2] > t[2] PROVE at[t] < at[m]
    <3>1. m[1] \in Nat /\ m[2] \in Nat /\ t[1] \in Nat /\ t[2] \in Nat
      BY <1>1, NodeIdsAre
    <3>2. t[2] < m[2] /\ t[1] = m[1]
      BY <1>3, <2>2, <3>1
    <3>3. Edge(t, m, TRUE) \in FragmentHazards(parts)
      BY <1>1, <3>2, FragmentHazardEdges
    <3> QED BY <1>1, <1>2, <3>3
  <2> QED BY <2>1, <2>2
<1>4. ASSUME NEW m \in WritersOf(parts, s, c), m[1] # t[1]
      PROVE  /\ <<m[1], t[1]>> \in RelatedBy(parts, s) => at[m] < at[t]
             /\ <<m[1], t[1]>> \notin RelatedBy(parts, s) => at[t] < at[m]
  <2>1. /\ <<m[1], t[1], s>> \in Relations(parts) <=> <<t[1], m[1], s>> \notin Relations(parts)
        /\ <<m[1], t[1], s>> \in Relations(parts) => Edge(m, t, TRUE) \in CrossHazards(parts)
    BY <1>1, <1>4, CrossHazardEdges
  <2>2. <<t[1], m[1], s>> \in Relations(parts) => Edge(t, m, TRUE) \in CrossHazards(parts)
    BY <1>1, <1>4, CrossHazardEdges
  <2>3. <<m[1], t[1]>> \in RelatedBy(parts, s) <=> <<m[1], t[1], s>> \in Relations(parts)
    BY RelationsAre
  <2>4. <<m[1], t[1]>> \notin RelatedBy(parts, s) => <<t[1], m[1], s>> \in Relations(parts)
    BY <2>1, <2>3, Zenon
  <2>5. m \in NodeIds(parts)
    BY <1>1
  <2> QED BY <1>2, <2>1, <2>2, <2>3, <2>4, <2>5
<1> QED BY <1>3, <1>4 DEF Kept

(* What is last is last                                                       *)
LEMMA LastIsLast ==
  ASSUME NEW T \in SUBSET Nat, IsFiniteSet(T), T # {}
  PROVE  LastOf(T) \in T /\ \A j \in T : j <= LastOf(T)
<1>1. Max(T) \in T /\ \A n \in T : Max(T) >= n
  BY GreatestIsMax
<1>2. \E k \in T : \A j \in T : j <= k
  BY <1>1
<1> QED BY <1>2 DEF LastOf

(* What a schedule of all the nodes shows a node of a cell is what its program    *)
(* means                                                                     *)
Tied(parts) ==
  PartsMade(parts) /\ UniqueExports(parts) /\ ImportsBound(parts) /\ CrossingsTied(parts)

Follows(parts, order, edges, at) ==
  /\ FragmentHazards(parts) \cup CrossHazards(parts) \subseteq edges
  /\ DOMAIN order = 1 .. Len(order) /\ Len(order) \in Nat
  /\ Ordering(NodeIds(parts), order, at)
  /\ \A e \in edges : e.after \in NodeIds(parts) => at[e.before] < at[e.after]

(* The heart of it: in a schedule that keeps the hazards of a composition whose  *)
(* crossings are tied, the latest writer of a cell before a node is the intended one.  *)
LEMMA SeenIsIntended ==
  ASSUME NEW g, Tied(g.parts), NEW edges, NEW at, Follows(g.parts, g.order, edges, at),
         NEW k \in DOMAIN g.order, NEW s, NEW c, TouchesCell(NodeAt(g.parts, g.order[k]), s, c)
  PROVE  SeenWriter(g, k, s, c) = IntendedWriter(g.parts, g.order[k], s, c)
<1>given. PICK parts, order : parts = g.parts /\ order = g.order
  OBVIOUS
<1>touches. k \in DOMAIN order /\ TouchesCell(NodeAt(parts, order[k]), s, c)
  BY <1>given
<1>0. /\ PartsMade(parts) /\ UniqueExports(parts) /\ ImportsBound(parts) /\ CrossingsTied(parts)
      /\ FragmentHazards(parts) \cup CrossHazards(parts) \subseteq edges
      /\ DOMAIN order = 1 .. Len(order) /\ Len(order) \in Nat
      /\ Ordering(NodeIds(parts), order, at)
      /\ \A e \in edges : e.after \in NodeIds(parts) => at[e.before] < at[e.after]
  BY <1>given DEF Tied, Follows
<1> USE <1>0, <1>touches
<1>1. PICK ids \in SUBSET (Nat \X Nat) : ids = NodeIds(parts)
  BY NodeIdsAre
<1>2. PICK W \in SUBSET ids : W = WritersOf(parts, s, c)
  BY <1>1 DEF WritersOf
<1>3. PICK related : related = RelatedBy(parts, s)
  OBVIOUS
<1>4. PICK n \in ids : n = order[k] /\ at[n] = k
  BY <1>1 DEF Ordering
<1>5. \A m \in ids : at[m] \in Nat /\ at[m] \in DOMAIN order /\ order[at[m]] = m
  BY <1>1 DEF Ordering
<1>6. KeptByAll(ids, at, related, W, n)
  <2>1. ASSUME NEW t \in W \cup {n} PROVE t \in ids /\ TouchesCell(NodeAt(parts, t), s, c)
    <3>1. CASE t = n
      BY <1>4, <3>1
    <3>2. CASE t \in W
      <4>1. t \in ids /\ WritesCell(NodeAt(parts, t), s, c)
        BY <1>1, <1>2, <3>2 DEF WritersOf
      <4> QED BY <4>1 DEF WritesCell, TouchesFor, TouchesCell
    <3> QED BY <3>1, <3>2
  <2> QED BY <1>1, <1>2, <1>3, <1>5, <2>1, CellsKept DEF KeptByAll
<1>7. /\ \A i, j : <<i, j>> \in related <=> <<i, j, s>> \in Relations(parts)
      /\ \A i, j, l : <<i, l>> \in related /\ <<j, l>> \in related => i = j
      /\ \A i : <<i, i>> \notin related
  BY <1>3, RelationsAre
<1>8. PICK earlier : earlier = {j \in 1 .. k - 1 : WritesCell(NodeAt(parts, order[j]), s, c)}
  OBVIOUS
<1>9. SeenWriter(g, k, s, c) = IF earlier = {} THEN {} ELSE {order[LastOf(earlier)]}
  BY <1>8, <1>given DEF SeenWriter
<1>10. \A m \in W : at[m] < k => at[m] \in earlier
  <2>1. \A m \in W : m \in ids /\ WritesCell(NodeAt(parts, m), s, c)
    BY <1>1, <1>2 DEF WritersOf
  <2> QED BY <1>5, <1>8, <2>1
<1>11. \A j \in earlier : order[j] \in W /\ at[order[j]] = j /\ j < k
  <2>1. \A j \in 1 .. k - 1 : j \in DOMAIN order /\ j < k
    OBVIOUS
  <2>2. \A j \in 1 .. k - 1 : order[j] \in ids /\ at[order[j]] = j
    BY <1>1, <2>1 DEF Ordering
  <2> QED BY <1>1, <1>2, <1>8, <2>1, <2>2 DEF WritersOf
<1>12. earlier \subseteq Nat /\ IsFiniteSet(earlier)
  <2>1. IsFiniteSet(1 .. k - 1)
    <3>1. k - 1 \in Int
      OBVIOUS
    <3> QED BY ONLY <3>1, FS_Interval
  <2> QED BY <1>8, <2>1, FS_Subset
<1>13. PICK own : own = {l \in 1 .. n[2] - 1 : WritesCell(parts[n[1]].nodes[l], s, c)}
  OBVIOUS
<1>14. PICK producer : producer = {i \in DOMAIN parts : <<i, n[1], s>> \in Relations(parts)}
  OBVIOUS
<1>15. PICK theirs : theirs = {w \in producer \X (1 .. MaxNodes) :
                     w[2] \in DOMAIN parts[w[1]].nodes /\ WritesCell(NodeAt(parts, w), s, c)}
  OBVIOUS
<1>16. IntendedWriter(parts, n, s, c) =
         IF own # {} THEN {<<n[1], LastOf(own)>>} ELSE {w \in theirs : \A v \in theirs : v[2] <= w[2]}
  BY <1>13, <1>14, <1>15, Zenon DEF IntendedWriter
<1>17. n[1] \in DOMAIN parts /\ n[2] \in DOMAIN parts[n[1]].nodes /\ n[1] \in Nat /\ n[2] \in Nat
       /\ n = <<n[1], n[2]>>
  BY <1>1, <1>4, NodeIdsAre
<1>18. own \subseteq Nat /\ IsFiniteSet(own)
  <2>1. IsFiniteSet(1 .. n[2] - 1)
    <3>1. n[2] - 1 \in Int
      BY <1>17
    <3> QED BY ONLY <3>1, FS_Interval
  <2> QED BY <1>13, <2>1, FS_Subset
<1>19. \A l \in Nat : l \in own <=> <<n[1], l>> \in W /\ l < n[2]
  <2>1. PICK f : f = parts[n[1]].nodes
    OBVIOUS
  <2>2. DOMAIN f = 1 .. Len(f) /\ Len(f) \in Nat
    BY <1>17, <2>1 DEF PartsMade, FragmentMade, IsSequence
  <2>3. \A l \in Nat : l < n[2] => (l \in 1 .. n[2] - 1 <=> l \in DOMAIN f)
    BY <1>17, <2>1, <2>2
  <2>4. \A l \in Nat : <<n[1], l>> \in ids <=> l \in DOMAIN f
    <3>1. ASSUME NEW l \in Nat, <<n[1], l>> \in ids PROVE l \in DOMAIN f
      <4>1. PICK m \in ids : m = <<n[1], l>>
        BY <3>1
      <4>2. m[1] = n[1] /\ m[2] = l /\ m[2] \in DOMAIN parts[m[1]].nodes
        BY <1>1, <4>1, NodeIdsAre
      <4> QED BY <2>1, <4>2
    <3>2. ASSUME NEW l \in DOMAIN f PROVE <<n[1], l>> \in ids
      BY <1>1, <1>17, <2>1, <3>2, NodeIdsAre
    <3> QED BY <3>1, <3>2
  <2>5. \A l \in Nat : NodeAt(parts, <<n[1], l>>) = f[l]
    BY <2>1 DEF NodeAt
  <2>6. \A l \in Nat : <<n[1], l>> \in W <=> <<n[1], l>> \in ids /\ WritesCell(f[l], s, c)
    BY <1>1, <1>2, <2>5 DEF WritersOf
  <2>7. \A l \in Nat : l \in own <=> l \in 1 .. n[2] - 1 /\ WritesCell(f[l], s, c)
    BY <1>13, <2>1
  <2>8. \A l \in Nat : l \in 1 .. n[2] - 1 => l < n[2]
    BY <1>17
  <2> QED BY <2>3, <2>4, <2>6, <2>7, <2>8
<1>20. \A w : w \in theirs <=> w \in W /\ <<w[1], n[1]>> \in related
  <2>1. ASSUME NEW w \in theirs PROVE w \in W /\ <<w[1], n[1]>> \in related
    <3>1. /\ w = <<w[1], w[2]>> /\ w[1] \in producer /\ w[2] \in DOMAIN parts[w[1]].nodes
          /\ WritesCell(NodeAt(parts, w), s, c)
      BY <1>15
    <3>2. w[1] \in DOMAIN parts /\ <<w[1], n[1], s>> \in Relations(parts)
      BY <1>14, <3>1
    <3>3. w \in ids
      BY <1>1, <3>1, <3>2, NodeIdsAre
    <3> QED BY <1>1, <1>2, <1>7, <3>1, <3>2, <3>3 DEF WritersOf
  <2>2. ASSUME NEW w \in W, <<w[1], n[1]>> \in related PROVE w \in theirs
    <3>1. w \in ids /\ WritesCell(NodeAt(parts, w), s, c)
      BY <1>1, <1>2 DEF WritersOf
    <3>2. w[1] \in DOMAIN parts /\ w[2] \in DOMAIN parts[w[1]].nodes /\ w[2] \in 1 .. MaxNodes
      BY <1>1, <3>1, NodeIdsAre
    <3>3. w[1] \in producer /\ w = <<w[1], w[2]>>
      BY <1>7, <1>14, <2>2, <3>1, <3>2
    <3> QED BY <1>15, <3>1, <3>2, <3>3
  <2> QED BY <2>1, <2>2
<1>21. Ordering(ids, order, at)
  BY <1>1
<1>22. ASSUME own # {} PROVE SeenWriter(g, k, s, c) = IntendedWriter(parts, order[k], s, c)
  <2>1. PICK l \in Nat : l = LastOf(own) /\ l \in own /\ \A j \in own : j <= l
    BY <1>18, <1>22, LastIsLast
  <2>2. <<n[1], l>> \in W /\ l < n[2] /\ \A j \in Nat : <<n[1], j>> \in W /\ j < n[2] => j <= l
    BY <1>19, <2>1
  <2>3. PICK last \in W : last = <<n[1], l>>
    BY <2>2
  <2>4. at[<<n[1], l>>] < at[n] /\ \A m \in W : at[m] < at[n] => at[m] <= at[<<n[1], l>>]
    BY <1>6, <1>21, <2>2, LatestOwn
  <2>5. at[last] < k /\ \A m \in W : at[m] < k => at[m] <= at[last]
    BY <1>4, <2>3, <2>4
  <2>6. at[last] \in earlier
    BY <1>10, <2>5
  <2>7. LastOf(earlier) \in earlier /\ \A j \in earlier : j <= LastOf(earlier)
    BY <1>12, <2>6, LastIsLast
  <2>8. PICK z \in Nat : z = LastOf(earlier) /\ z \in earlier /\ at[last] <= z
    BY <1>12, <2>6, <2>7
  <2>9. z <= at[last]
    BY <1>11, <2>5, <2>8
  <2>10. z = at[last] /\ order[z] = last
    BY <1>5, <2>8, <2>9
  <2> QED BY <1>4, <1>9, <1>16, <1>22, <2>1, <2>3, <2>6, <2>8, <2>10
<1>23. ASSUME own = {} PROVE SeenWriter(g, k, s, c) = IntendedWriter(parts, order[k], s, c)
  <2>1. \A j \in Nat : <<n[1], j>> \in W => ~ (j < n[2])
    BY <1>19, <1>23
  <2>2. CASE earlier = {}
    <3>1. ASSUME NEW w \in theirs PROVE FALSE
      <4>1. w \in W /\ <<w[1], n[1]>> \in related
        BY <1>20
      <4>2. w[1] # n[1]
        BY <1>7, <4>1
      <4>3. at[w] < at[n]
        BY <1>6, <4>1, <4>2 DEF KeptByAll, Kept
      <4> QED BY <1>4, <1>10, <2>2, <4>1, <4>3
    <3> QED BY <1>4, <1>9, <1>16, <1>23, <2>2, <3>1
  <2>3. CASE earlier # {}
    <3>1. PICK z \in Nat : z = LastOf(earlier) /\ z \in earlier /\ \A j \in earlier : j <= z
      BY <1>12, <2>3, LastIsLast
    <3>2. PICK last \in W : last = order[z] /\ at[last] = z /\ z < k
      BY <1>11, <3>1
    <3>3. at[last] < at[n] /\ \A m \in W : at[m] < at[n] => at[m] <= at[last]
      BY <1>4, <1>10, <3>1, <3>2
    <3>4. /\ <<last[1], n[1]>> \in related
          /\ \A m \in W : <<m[1], n[1]>> \in related => m[1] = last[1] /\ m[2] <= last[2]
      <4>1. OneProducer(related)
        BY <1>7 DEF OneProducer
      <4>2. NoneBefore(W, n)
        BY <2>1 DEF NoneBefore
      <4>3. LatestBefore(W, at, last, n)
        BY <3>3 DEF LatestBefore
      <4>4. LastOfProducer(W, related, last, n)
        BY <1>6, <1>21, <4>1, <4>2, <4>3, LatestImported
      <4> QED BY <4>4 DEF LastOfProducer
    <3>5. last \in theirs /\ \A v \in theirs : v[1] = last[1] /\ v[2] <= last[2]
      BY <1>20, <3>4
    <3>6. \A v \in theirs : v = <<v[1], v[2]>> /\ v[2] \in Nat
      <4>1. \A v \in theirs : v \in Nat \X Nat
        BY <1>1, <1>2, <1>20
      <4> QED BY <4>1
    <3>7. ASSUME NEW w \in theirs, \A v \in theirs : v[2] <= w[2] PROVE w = last
      BY <3>5, <3>6, <3>7
    <3>8. {w \in theirs : \A v \in theirs : v[2] <= w[2]} = {last}
      BY <3>5, <3>7
    <3> QED BY <1>4, <1>9, <1>16, <1>23, <2>3, <3>1, <3>2, <3>8
  <2> QED BY <2>2, <2>3
<1>24. SeenWriter(g, k, s, c) = IntendedWriter(parts, order[k], s, c)
  BY <1>22, <1>23
<1> QED BY <1>24, <1>given

-----------------------------------------------------------------------------
(* Initialization along the schedule *)

(* The cells of two sets of accesses are those of either.  *)
LEMMA CellsInBoth ==
  ASSUME NEW A, NEW B, NEW s, NEW c
  PROVE  c \in CellsIn(A \cup B, s) <=> c \in CellsIn(A, s) \/ c \in CellsIn(B, s)
<1>1. ASSUME NEW T PROVE c \in CellsIn(T, s) <=> \E a \in T : a.storage = s /\ c \in CellsOf(a)
  BY DEF CellsIn
<1>2. \A T : c \in CellsIn(T, s) <=> \E a \in T : a.storage = s /\ c \in CellsOf(a)
  BY <1>1
<1> QED BY <1>2

(* f[k] is what the first k nodes leave                                        *)
IsRun(nodes, start, f) ==
  /\ f[0] = [cells |-> start, valid |-> TRUE]
  /\ \A k \in 1 .. Len(nodes) : f[k] = RunNode(nodes[k], f[k - 1])

(* A run over nodes is what its steps make of the start.  *)
LEMMA RunExists ==
  ASSUME NEW nodes, Len(nodes) \in Nat, NEW start, NEW Y, start \in [Storage -> SUBSET Y]
  PROVE  \E f : IsRun(nodes, start, f) /\ RunNodes(nodes, start) = f[Len(nodes)]
<1>1. PICK n \in Nat : n = Len(nodes)
  OBVIOUS
<1>2. PICK X : X = Y \cup UNION {UNION {CellsIn(Effects(nodes[k].op), s) : s \in Storage} : k \in 1 .. n}
  OBVIOUS
<1>3. PICK V : V = [cells : [Storage -> SUBSET X], valid : BOOLEAN]
  OBVIOUS
<1>4. PICK first : first = [cells |-> start, valid |-> TRUE]
  OBVIOUS
<1>5. first \in V
  <2>1. start \in [Storage -> SUBSET X]
    BY <1>2
  <2> QED BY <1>3, <1>4, <2>1
<1>6. ASSUME NEW k \in 1 .. n, NEW done \in V PROVE RunNode(nodes[k], done) \in V
  <2>1. PICK node : node = nodes[k]
    OBVIOUS
  <2>2. PICK cells : cells = AfterNode(node, done.cells)
    OBVIOUS
  <2>3. ASSUME NEW s \in Storage PROVE cells[s] \subseteq X
    <3>1. done.cells[s] \subseteq X
      BY <1>3
    <3>2. CellsIn(Effects(node.op), s) \subseteq X
      BY <1>2, <2>1
    <3>3. cells[s] = (done.cells[s] \cup CellsIn(Effects(node.op), s)) \ CellsIn(Discards(node.op), s)
      BY <2>2 DEF AfterNode
    <3> QED BY <3>1, <3>2, <3>3
  <2>4. cells = [s \in Storage |-> cells[s]]
    BY <2>2 DEF AfterNode
  <2>5. cells \in [Storage -> SUBSET X]
    BY <2>3, <2>4
  <2>6. PICK v \in BOOLEAN : v = (done.valid /\ EffectsBacked(node) /\ NodeReady(node, done.cells))
    OBVIOUS
  <2>7. RunNode(node, done) = [cells |-> cells, valid |-> v]
    BY <2>2, <2>6, Zenon DEF RunNode
  <2> QED BY <1>3, <2>1, <2>5, <2>7
<1>7. PICK step : step = [p \in Nat \X V |-> IF p[1] \in 1 .. n THEN RunNode(nodes[p[1]], p[2]) ELSE p[2]]
  OBVIOUS
<1>8. step \in [Nat \X V -> V]
  BY <1>6, <1>7
<1>9. PICK f \in [0 .. n -> V] : IsIteration(n, first, step, f)
  BY <1>5, <1>8, IterationExists
<1>10. f = [k \in 0 .. n |-> IF k = 0 THEN first ELSE step[<<k, f[k - 1]>>]]
  BY <1>9, Zenon DEF IsIteration
<1>11. \A k \in 0 .. n : k # 0 => step[<<k, f[k - 1]>>] = RunNode(nodes[k], f[k - 1])
  <2>1. \A k \in 0 .. n : k # 0 => <<k, f[k - 1]>> \in Nat \X V /\ k \in 1 .. n
    OBVIOUS
  <2> QED BY <1>7, <2>1
<1>12. f = [k \in 0 .. n |-> IF k = 0 THEN first ELSE RunNode(nodes[k], f[k - 1])]
  BY <1>10, <1>11
<1>13. PICK g : g = CHOOSE h : h = [k \in 0 .. n |->
                      IF k = 0 THEN first ELSE RunNode(nodes[k], h[k - 1])]
  OBVIOUS
<1>14. g = [k \in 0 .. n |-> IF k = 0 THEN first ELSE RunNode(nodes[k], g[k - 1])]
  BY <1>12, <1>13, Zenon
<1>15. RunNodes(nodes, start) = g[n]
  BY <1>1, <1>4, <1>13, Zenon DEF RunNodes
<1>16. g[0] = first
  BY <1>14
<1>17. \A k \in 1 .. n : g[k] = RunNode(nodes[k], g[k - 1])
  BY <1>14
<1>18. IsRun(nodes, start, g)
  BY <1>1, <1>4, <1>16, <1>17 DEF IsRun
<1> QED BY <1>1, <1>15, <1>18

(* A run that is valid at its end was valid at every node                       *)
LEMMA ValidThroughout ==
  ASSUME NEW nodes, NEW n \in Nat, n = Len(nodes), NEW start, NEW f, IsRun(nodes, start, f), f[n].valid
  PROVE  \A k \in 1 .. n : NodeReady(nodes[k], f[k - 1].cells)
<1>1. \A k \in 1 .. n : f[k].valid => f[k - 1].valid /\ NodeReady(nodes[k], f[k - 1].cells)
  <2>1. ASSUME NEW k \in 1 .. n, f[k].valid
        PROVE  f[k - 1].valid /\ NodeReady(nodes[k], f[k - 1].cells)
    <3>1. f[k] = RunNode(nodes[k], f[k - 1])
      BY DEF IsRun
    <3>2. PICK v : v = (/\ f[k - 1].valid /\ EffectsBacked(nodes[k])
                        /\ NodeReady(nodes[k], f[k - 1].cells))
      OBVIOUS
    <3>3. f[k] = [cells |-> AfterNode(nodes[k], f[k - 1].cells), valid |-> v]
      BY <3>1, <3>2, Zenon DEF RunNode
    <3>4. f[k].valid = v
      BY <3>3
    <3>5. v
      BY <2>1, <3>4, Zenon
    <3> QED BY <3>2, <3>5, Zenon
  <2> QED BY <2>1
<1>2. PICK P : P = {j \in Nat : j <= n => f[n - j].valid}
  OBVIOUS
<1>3. 0 \in P
  BY <1>2
<1>4. ASSUME NEW j \in Nat, j \in P PROVE j + 1 \in P
  <2>1. SUFFICES ASSUME j + 1 <= n PROVE f[n - (j + 1)].valid
    BY <1>2
  <2>2. n - j \in 1 .. n /\ (n - j) - 1 = n - (j + 1)
    BY <2>1
  <2>3. f[n - j].valid
    BY <1>2, <1>4, <2>1
  <2> QED BY <1>1, <2>2, <2>3
<1>5. \A j \in Nat : j \in P
  BY <1>3, <1>4, NumberInduction
<1>6. ASSUME NEW k \in 1 .. n PROVE f[k].valid
  <2>1. n - k \in P /\ n - (n - k) = k
    BY <1>5
  <2> QED BY <1>2, <2>1
<1> QED BY <1>1, <1>6

(* What the schedule leaves of a cell is decided by the last node that says        *)
(* anything of it                                                             *)
Start(g) == Joined(InitialCells(g.parts, g.seeds), ContentCells(g.content))

ScheduleRun(g, nodes, f) ==
  /\ nodes = [k \in 1 .. Len(g.order) |-> NodeAt(g.parts, g.order[k])]
  /\ Len(g.order) \in Nat /\ Len(nodes) = Len(g.order)
  /\ IsRun(nodes, Start(g), f)

(* The prepared content that preparation counts on is what execution uploads.    *)
LEMMA ContentIsUploaded ==
  ASSUME NEW content, NEW s \in Storage
  PROVE  ContentCells(content)[s] = Uploaded(content, s)
<1>1. PICK d : d = Descriptor[s]
  OBVIOUS
<1>2. PICK r \in Resource : s = StorageOf(r)
  BY DEF Storage
<1>3. s \in Resource /\ StorageOf(s) = s
  BY <1>2, DescriptorAssumption DEF StorageOf
<1>4. /\ IsBox(d.box)
      /\ d.type = "texture" => d.box.first = 0 /\ d.box.end > 0
  BY <1>1, <1>3, DescriptorAssumption
<1>5. WholeCells(s) = BoxCells(d.box, d.parent)
  BY <1>1, <1>3, Zenon DEF WholeCells
<1>6. ContentCells(content)[s] = IF s \in content THEN BoxCells(ContentBox(s), d.parent) ELSE {}
  BY <1>1, Zenon DEF ContentCells
<1>7. CASE d.type = "texture"
  <2>1. PICK box : box = [d.box EXCEPT !.first = 0, !.end = 1]
    OBVIOUS
  <2>2. ContentBox(s) = box
    BY <1>1, <1>7, <2>1, Zenon DEF ContentBox, TypeOf
  <2>3. BoxCells(box, d.parent) = {c \in BoxCells(d.box, d.parent) : c[1] = 0}
    BY <1>4, <1>7, <2>1 DEF BoxCells, IsBox
  <2> QED BY <1>1, <1>5, <1>6, <1>7, <2>2, <2>3 DEF Uploaded, TypeOf
<1>8. CASE d.type # "texture"
  <2>1. ContentBox(s) = d.box
    BY <1>1, <1>8, Zenon DEF ContentBox, TypeOf
  <2> QED BY <1>1, <1>5, <1>6, <1>8, <2>1 DEF Uploaded, TypeOf
<1> QED BY <1>7, <1>8

(* Before each node of a run the coverage is what the latest effect or discard left.  *)
LEMMA RunIsDefined ==
  ASSUME NEW g, NEW nodes, NEW f, ScheduleRun(g, nodes, f), NEW s \in Storage, NEW c
  PROVE  \A k \in 0 .. Len(g.order) : c \in f[k].cells[s] <=> DefinedAt(g, k + 1, s, c)
<1>0. PICK parts, order, start :
        /\ parts = g.parts /\ order = g.order /\ Len(order) \in Nat
        /\ nodes = [k \in 1 .. Len(order) |-> NodeAt(parts, order[k])] /\ Len(nodes) = Len(order)
        /\ start = Joined(InitialCells(parts, g.seeds), ContentCells(g.content))
        /\ IsRun(nodes, start, f)
  BY Zenon DEF ScheduleRun, Start
<1> USE <1>0
<1>1. PICK says : says = [j \in 1 .. Len(order) |->
          c \in CellsIn(Effects(nodes[j].op) \cup Discards(nodes[j].op), s)]
  OBVIOUS
<1>2. PICK entry : entry = InitialCells(parts, g.seeds)[s] \cup Uploaded(g.content, s)
  OBVIOUS
<1>3. PICK D : D = [k \in 1 .. Len(order) + 1 |-> {j \in 1 .. k - 1 : says[j]}]
  OBVIOUS
<1>4. \A k \in 1 .. Len(order) + 1 : D[k] \subseteq Nat /\ IsFiniteSet(D[k])
  <2>1. ASSUME NEW k \in 1 .. Len(order) + 1 PROVE D[k] \subseteq Nat /\ IsFiniteSet(D[k])
    <3>1. k - 1 \in Int
      OBVIOUS
    <3>2. IsFiniteSet(1 .. k - 1)
      BY <3>1, FS_Interval
    <3>3. D[k] \in SUBSET (1 .. k - 1)
      BY <1>3
    <3> QED BY <3>2, <3>3, FS_Subset
  <2> QED BY <2>1
<1>5. ASSUME NEW k \in 1 .. Len(order) + 1
      PROVE  DefinedAt(g, k, s, c) <=>
               IF D[k] = {} THEN c \in entry ELSE c \notin CellsIn(Discards(nodes[LastOf(D[k])].op), s)
  <2>1. PICK d : d = {j \in 1 .. k - 1 : c \in CellsIn(Effects(NodeAt(parts, order[j]).op)
                                            \cup Discards(NodeAt(parts, order[j]).op), s)}
    OBVIOUS
  <2>2. \A j \in 1 .. k - 1 : j \in 1 .. Len(order)
    OBVIOUS
  <2>3. \A j \in 1 .. k - 1 : nodes[j] = NodeAt(parts, order[j])
    BY <2>2
  <2>4. \A j \in 1 .. k - 1 : says[j] <=> c \in CellsIn(Effects(NodeAt(parts, order[j]).op)
                                            \cup Discards(NodeAt(parts, order[j]).op), s)
    BY <1>1, <2>2, <2>3
  <2>5. D[k] = d
    BY <1>3, <2>1, <2>4
  <2>6. DefinedAt(g, k, s, c) <=>
          IF d = {} THEN c \in entry
          ELSE c \notin CellsIn(Discards(NodeAt(parts, order[LastOf(d)]).op), s)
    BY <1>2, <2>1, Zenon DEF DefinedAt
  <2>7. d # {} => LastOf(d) \in 1 .. k - 1
    <3>1. d # {} => LastOf(d) \in d
      BY <1>4, <2>5, LastIsLast
    <3> QED BY <2>1, <3>1
  <2> QED BY <2>3, <2>5, <2>6, <2>7
<1>6. PICK P : P = {k \in Nat : k <= Len(order) => (c \in f[k].cells[s] <=> DefinedAt(g, k + 1, s, c))}
  OBVIOUS
<1>7. 0 \in P
  <2>1. f[0].cells = start
    BY DEF IsRun
  <2>2. start[s] = entry
    <3>1. start[s] = InitialCells(parts, g.seeds)[s] \cup ContentCells(g.content)[s]
      BY DEF Joined
    <3> QED BY <1>2, <3>1, ContentIsUploaded, Zenon
  <2>3. D[1] = {}
    BY <1>3
  <2>4. DefinedAt(g, 1, s, c) <=> c \in entry
    <3>1. 1 \in 1 .. Len(order) + 1
      OBVIOUS
    <3> QED BY <1>5, <2>3, <3>1
  <2>5. 0 + 1 = 1
    OBVIOUS
  <2> QED BY <1>6, <2>1, <2>2, <2>4, <2>5
<1>8. ASSUME NEW k \in Nat, k \in P PROVE k + 1 \in P
  <2>1. SUFFICES ASSUME k + 1 <= Len(order)
                 PROVE  c \in f[k + 1].cells[s] <=> DefinedAt(g, k + 2, s, c)
    BY <1>6
  <2>2. k + 1 \in 1 .. Len(order) /\ (k + 1) - 1 = k /\ k + 1 \in 1 .. Len(order) + 1
        /\ k + 2 \in 1 .. Len(order) + 1
    BY <2>1
  <2>3. PICK node : node = nodes[k + 1]
    OBVIOUS
  <2>4. f[k + 1] = RunNode(node, f[k])
    BY <2>2, <2>3 DEF IsRun
  <2>5. f[k + 1].cells = AfterNode(node, f[k].cells)
    BY <2>4 DEF RunNode
  <2>6. f[k + 1].cells[s] =
          (f[k].cells[s] \cup CellsIn(Effects(node.op), s)) \ CellsIn(Discards(node.op), s)
    BY <2>5 DEF AfterNode
  <2>7. says[k + 1] <=> c \in CellsIn(Effects(node.op), s) \/ c \in CellsIn(Discards(node.op), s)
    BY <1>1, <2>2, <2>3, CellsInBoth
  <2>8. c \in f[k].cells[s] <=> DefinedAt(g, k + 1, s, c)
    BY <1>6, <1>8, <2>1
  <2>9. CASE says[k + 1]
    <3>1. k + 1 \in D[k + 2] /\ \A j \in D[k + 2] : j <= k + 1
      BY <1>3, <2>2, <2>9
    <3>2. LastOf(D[k + 2]) \in D[k + 2] /\ \A j \in D[k + 2] : j <= LastOf(D[k + 2])
      BY <1>4, <2>2, <3>1, LastIsLast
    <3>3. LastOf(D[k + 2]) = k + 1
      BY <1>4, <2>2, <3>1, <3>2
    <3>4. DefinedAt(g, k + 2, s, c) <=> c \notin CellsIn(Discards(node.op), s)
      BY <1>5, <2>2, <2>3, <3>1, <3>3
    <3> QED BY <2>6, <2>7, <2>9, <3>4
  <2>10. CASE ~ says[k + 1]
    <3>1. \A j : j \in 1 .. (k + 2) - 1 <=> j \in 1 .. (k + 1) - 1 \/ j = k + 1
      OBVIOUS
    <3>2. D[k + 2] = D[k + 1]
      BY <1>3, <2>2, <2>10, <3>1
    <3>3. DefinedAt(g, k + 2, s, c) <=> DefinedAt(g, k + 1, s, c)
      BY <1>5, <2>2, <3>2
    <3> QED BY <2>6, <2>7, <2>8, <2>10, <3>3
  <2> QED BY <2>9, <2>10
<1>9. \A k \in Nat : k \in P
  BY <1>7, <1>8, NumberInduction
<1> QED BY <1>6, <1>9

-----------------------------------------------------------------------------
(* A prepared graph *)

KeepsPrograms(g) ==
  \A k \in DOMAIN g.order :
    \A a \in AllUses(NodeAt(g.parts, g.order[k])) : \A c \in CellsOf(a) :
      SeenWriter(g, k, a.storage, c) = IntendedWriter(g.parts, g.order[k], a.storage, c)

DefinesReads(g) ==
  /\ \A k \in DOMAIN g.order :
       \A a \in NodeReads(NodeAt(g.parts, g.order[k])) : \A c \in CellsOf(a) :
         DefinedAt(g, k, a.storage, c)
  /\ \A s \in GraphStorage(g.parts) : \A c \in WholeCells(s) :
       c \in g.final[s] <=> DefinedAt(g, Len(g.order) + 1, s, c)

GraphKept(g) == g.state = "prepared" => KeepsPrograms(g) /\ DefinesReads(g)

(* What a node uses touches the cells it names                                 *)
LEMMA UsesTouch ==
  ASSUME NEW node, NodeMade(node), NEW u \in AllUses(node), NEW c \in CellsOf(u)
  PROVE  TouchesCell(node, u.storage, c) /\ u.storage \in Storage
<1>1. PICK a \in node.accesses : a.storage = u.storage /\ a.box = u.box /\ (Reads(a) \/ Writes(a))
  BY DEF NodeMade
<1>2. CellsOf(a) = CellsOf(u)
  BY <1>1 DEF CellsOf
<1>3. u.storage \in Storage
  BY <1>1 DEF NodeMade, AccessMade
<1> QED BY <1>1, <1>2, <1>3 DEF TouchesCell

(* A node reads among its uses.  *)
LEMMA ReadsAreUses ==
  ASSUME NEW node
  PROVE  NodeReads(node) \subseteq AllUses(node)
BY DEF NodeReads, AllUses, Required, Derived

(* What preparation returns keeps its programs and defines its reads.  *)
LEMMA PreparedIsKept ==
  ASSUME NEW parts, PartsMade(parts), \A i \in DOMAIN parts : parts[i].resources \subseteq Resource,
         NEW graphOrders, IsSequence(graphOrders), NEW given, NEW targets
  PROVE  GraphKept(Prepared(parts, graphOrders, given, targets))
<1>1. PICK g : g = Prepared(parts, graphOrders, given, targets)
  OBVIOUS
<1>2. SUFFICES ASSUME g.state = "prepared" PROVE KeepsPrograms(g) /\ DefinesReads(g)
  BY <1>1 DEF GraphKept
<1>3. PICK seeds, content : seeds = UsableSeeds(parts, given) /\ content = PreparedContent(parts, seeds)
  OBVIOUS
<1>4. PICK edges : edges = Ordered(parts, graphOrders)
  OBVIOUS
<1>5. PICK order : order = NodeOrder(parts, edges.edges)
  OBVIOUS
<1>6. PICK run : run = Simulated(parts, order, seeds, content)
  OBVIOUS
<1>7. PICK made : made = [state |-> "prepared", parts |-> parts, order |-> order, seeds |-> seeds,
           orders |-> graphOrders, content |-> content, final |-> run.cells,
           preserved |-> Preserved(parts, seeds)]
  OBVIOUS
<1>8. PICK ok : ok = (/\ \A o \in ToSet(graphOrders) : Resolves(parts, o[1]) /\ Resolves(parts, o[2])
                      /\ NodesRegistered(parts)
                      /\ TargetsParticipate(parts, targets, content)
                      /\ UniqueExports(parts) /\ ImportsBound(parts) /\ BoundaryIntents(parts)
                      /\ CrossingsTied(parts)
                      /\ edges.valid
                      /\ Len(order) = Cardinality(NodeIds(parts))
                      /\ FragmentsOrdered(parts)
                      /\ FragmentsInitialized(parts, seeds, content)
                      /\ run.valid)
  OBVIOUS
<1>9. g = IF ok THEN made ELSE [state |-> "rejected"]
  BY <1>1, <1>3, <1>4, <1>5, <1>6, <1>7, <1>8, Zenon DEF Prepared
<1>10. ok /\ g = made
  <2>1. PICK no : no = [state |-> "rejected"]
    OBVIOUS
  <2>2. no.state # "prepared"
    BY <2>1
  <2> QED BY <1>2, <1>9, <2>1, <2>2, Zenon
<1>11. /\ UniqueExports(parts) /\ ImportsBound(parts) /\ CrossingsTied(parts)
       /\ Len(order) = Cardinality(NodeIds(parts)) /\ run.valid
  BY <1>8, <1>10, Zenon
<1>12. /\ g.parts = parts /\ g.order = order /\ g.seeds = seeds
       /\ g.content = content /\ g.final = run.cells
  BY <1>7, <1>10
<1>13. PICK ids \in SUBSET (Nat \X Nat) : ids = NodeIds(parts) /\ IsFiniteSet(ids)
  BY NodeIdsAre
<1>14. Sorted(ids, edges.edges, order)
  BY <1>5, <1>13, TopologicalIsSorted DEF NodeOrder
<1>15. PICK at : /\ Ordering(ids, order, at) /\ \A m \in ids : at[m] \in 1 .. Len(order)
                 /\ \A e \in edges.edges : e.after \in ids => e.before \in ids /\ at[e.before] < at[e.after]
  BY <1>11, <1>13, <1>14, SchedulePlaces
<1>16. Len(order) \in Nat /\ DOMAIN order = 1 .. Len(order)
  BY <1>14 DEF Sorted
<1>17. FragmentHazards(parts) \cup CrossHazards(parts) \subseteq edges.edges
  BY <1>4, OrderedKeepsHazards DEF PartsMade, FragmentMade
<1>18. \A k \in DOMAIN order : NodeMade(NodeAt(parts, order[k]))
  BY <1>13, <1>15, NodeIdsAre DEF Ordering
<1>19. KeepsPrograms(g)
  <2>1. ASSUME NEW k \in DOMAIN order, NEW a \in AllUses(NodeAt(parts, order[k])), NEW c \in CellsOf(a)
        PROVE  SeenWriter(g, k, a.storage, c) = IntendedWriter(parts, order[k], a.storage, c)
    <3>1. PICK s : s = a.storage
      OBVIOUS
    <3>2. TouchesCell(NodeAt(parts, order[k]), s, c)
      BY <1>18, <3>1, UsesTouch
    <3>3. Tied(parts)
      BY <1>11 DEF Tied
    <3>4. Follows(parts, order, edges.edges, at)
      BY <1>13, <1>15, <1>16, <1>17 DEF Follows
    <3>5. /\ Tied(g.parts) /\ Follows(g.parts, g.order, edges.edges, at) /\ k \in DOMAIN g.order
          /\ TouchesCell(NodeAt(g.parts, g.order[k]), s, c)
      BY <1>12, <3>2, <3>3, <3>4
    <3>6. SeenWriter(g, k, s, c) = IntendedWriter(g.parts, g.order[k], s, c)
      BY <3>5, SeenIsIntended
    <3> QED BY <1>12, <3>1, <3>6
  <2> QED BY <1>12, <2>1 DEF KeepsPrograms
<1>20. DefinesReads(g)
  <2>1. PICK nodes : nodes = [k \in 1 .. Len(order) |-> NodeAt(parts, order[k])]
    OBVIOUS
  <2>2. PICK start : start = Joined(InitialCells(parts, seeds), ContentCells(content))
    OBVIOUS
  <2>3. Len(nodes) = Len(order)
    BY <1>16, <2>1
  <2>4. PICK Y : Y = UNION {start[s] : s \in Storage}
    OBVIOUS
  <2>5. start \in [Storage -> SUBSET Y]
    <3>1. start = [s \in Storage |-> start[s]]
      BY <2>2 DEF Joined
    <3>2. \A s \in Storage : start[s] \in SUBSET Y
      BY <2>4
    <3> QED BY <3>1, <3>2
  <2>6. PICK f : IsRun(nodes, start, f) /\ RunNodes(nodes, start) = f[Len(nodes)]
    BY <1>16, <2>3, <2>5, RunExists
  <2>7. run = f[Len(order)]
    BY <1>6, <1>16, <2>1, <2>2, <2>3, <2>6 DEF Simulated
  <2>8. \A k \in 1 .. Len(order) : NodeReady(nodes[k], f[k - 1].cells)
    BY <1>11, <1>16, <2>3, <2>6, <2>7, ValidThroughout
  <2>9. ASSUME NEW s \in Storage, NEW c
        PROVE  \A k \in 0 .. Len(order) : c \in f[k].cells[s] <=> DefinedAt(g, k + 1, s, c)
    <3>1. Start(g) = start
      BY <1>12, <2>2 DEF Start
    <3>2. ScheduleRun(g, nodes, f)
      BY <1>12, <1>16, <2>1, <2>3, <2>6, <3>1 DEF ScheduleRun
    <3> QED BY <1>12, <3>2, RunIsDefined
  <2>10. ASSUME NEW k \in DOMAIN order, NEW a \in NodeReads(NodeAt(parts, order[k])), NEW c \in CellsOf(a)
         PROVE  DefinedAt(g, k, a.storage, c)
    <3>1. k \in 1 .. Len(order) /\ k - 1 \in 0 .. Len(order) /\ (k - 1) + 1 = k
      BY <1>16
    <3>2. PICK s \in Storage : s = a.storage
      BY <1>18, ReadsAreUses, UsesTouch
    <3>3. CellsOf(a) \subseteq f[k - 1].cells[s]
      BY <2>1, <2>8, <3>1, <3>2 DEF NodeReady
    <3>4. c \in f[k - 1].cells[s] <=> DefinedAt(g, (k - 1) + 1, s, c)
      BY <2>9, <3>1
    <3> QED BY <3>1, <3>2, <3>3, <3>4
  <2>11. GraphStorage(parts) \subseteq Storage
    <3>1. GraphResources(parts) \subseteq Resource
      BY DEF GraphResources
    <3> QED BY <3>1 DEF GraphStorage, Storage
  <2>12. ASSUME NEW s \in GraphStorage(parts), NEW c
         PROVE  c \in g.final[s] <=> DefinedAt(g, Len(order) + 1, s, c)
    <3>1. s \in Storage /\ Len(order) \in 0 .. Len(order)
      BY <1>16, <2>11
    <3> QED BY <1>12, <2>7, <2>9, <3>1
  <2> QED BY <1>12, <2>10, <2>12 DEF DefinesReads
<1> QED BY <1>19, <1>20

-----------------------------------------------------------------------------
(* The nodes authors make *)

IsAccess(a) ==
  a = [resource |-> a.resource, storage |-> a.storage, kind |-> a.kind,
       load |-> a.load, store |-> a.store, box |-> a.box]

(* An access that passes its checks reads and writes what its request does      *)
LEMMA NewAccessIsMade ==
  ASSUME NEW u, IsRequest(u), ValidAccess(u)
  PROVE  /\ IsAccess(NewAccess(u)) /\ AccessMade(NewAccess(u))
         /\ Reads(NewAccess(u)) <=> Reads(u)
         /\ Writes(NewAccess(u)) <=> Writes(u)
<1>1. PICK d : d = Descriptor[u.resource]
  OBVIOUS
<1>2. PICK box : box = IF d.type = "view" THEN Intersection(d.box, u.box, d.parent) ELSE u.box
  OBVIOUS
<1>3. PICK a : a = NewAccess(u)
  OBVIOUS
<1>4. a = [resource |-> u.resource, storage |-> d.storage, kind |-> u.kind,
           load |-> u.load, store |-> u.store, box |-> box]
  BY <1>1, <1>2, <1>3, Zenon DEF NewAccess
<1>5. /\ a.storage = d.storage /\ a.kind = u.kind /\ a.load = u.load /\ a.box = box
      /\ IsAccess(a)
  BY <1>4 DEF IsAccess
<1>6. u.resource \in Resource /\ IsBox(u.box)
  BY DEF IsRequest
<1>7. IsBox(d.box) /\ d.parent \in NamedAspect
  BY <1>1, <1>6, DescriptorAssumption
<1>8. NonEmpty(box)
  BY <1>3, <1>5 DEF ValidAccess
<1>9. IsBox(box)
  <2>1. CASE d.type = "view"
    <3>1. box = Intersection(d.box, u.box, d.parent)
      BY <1>2, <2>1
    <3>2. /\ box.first = Most(d.box.first, u.box.first) /\ box.end = Least(d.box.end, u.box.end)
          /\ box.layer = Most(d.box.layer, u.box.layer) /\ box.layerEnd = Least(d.box.layerEnd, u.box.layerEnd)
          /\ box.aspect = CommonAspect(d.box.aspect, u.box.aspect, d.parent)
      BY <3>1 DEF Intersection
    <3>3. {box.first, box.end, box.layer, box.layerEnd} \subseteq Nat
      BY <1>6, <1>7, <3>2 DEF IsBox, Most, Least
    <3>4. box.aspect # "None"
      BY <1>8 DEF NonEmpty
    <3>5. PICK l, r : /\ l = CanonicalAspect(d.box.aspect, d.parent)
                      /\ r = CanonicalAspect(u.box.aspect, d.parent)
      OBVIOUS
    <3>6. l \in NamedAspect /\ r \in NamedAspect
      BY <1>6, <1>7, <3>5 DEF IsBox, CanonicalAspect
    <3>7. box.aspect = IF l = r \/ r = "All" THEN l ELSE IF l = "All" THEN r ELSE "None"
      BY <3>2, <3>5 DEF CommonAspect
    <3>8. box.aspect \in NamedAspect
      BY <3>4, <3>6, <3>7
    <3> QED BY <3>3, <3>8 DEF IsBox
  <2>2. CASE d.type # "view"
    BY <1>2, <1>6, <2>2
  <2> QED BY <2>1, <2>2
<1>10. a.storage \in Storage
  BY <1>1, <1>5, <1>6 DEF Storage, StorageOf
<1>11. TypeOf(a.storage) = "sampler" => ~ Writes(a)
  <2>1. SUFFICES ASSUME TypeOf(a.storage) = "sampler" PROVE ~ Writes(a)
    OBVIOUS
  <2>2. d.type = "sampler"
    BY <1>1, <1>5, <1>6, <2>1, DescriptorAssumption DEF TypeOf
  <2>3. a.kind = "Sampler"
    BY <1>1, <1>5, <2>2 DEF IsRequest
  <2> QED BY <2>3 DEF Writes
<1>12. (Reads(a) <=> Reads(u)) /\ (Writes(a) <=> Writes(u))
  BY <1>5 DEF Reads, Writes
<1> QED BY <1>3, <1>5, <1>9, <1>10, <1>11, <1>12 DEF AccessMade

(* and merging keeps what it reads or writes of which region                   *)
LEMMA MergedIsMade ==
  ASSUME NEW A, \A a \in A : IsAccess(a) /\ AccessMade(a), NEW a \in A
  PROVE  /\ AccessMade(MergedAccess(a, A))
         /\ MergedAccess(a, A).storage = a.storage /\ MergedAccess(a, A).box = a.box
         /\ Reads(a) \/ Writes(a) => Reads(MergedAccess(a, A)) \/ Writes(MergedAccess(a, A))
<1>1. CASE \E b \in A : Merges(a, b)
  <2>1. PICK b \in A : Merges(a, b)
    BY <1>1
  <2>2. PICK m : m = [a EXCEPT !.kind = "StorageReadWrite", !.resource = a.storage]
    OBVIOUS
  <2>3. MergedAccess(a, A) = m
    BY <1>1, <2>2, Zenon DEF MergedAccess
  <2>4. a = [resource |-> a.resource, storage |-> a.storage, kind |-> a.kind,
             load |-> a.load, store |-> a.store, box |-> a.box]
    BY DEF IsAccess
  <2>5. m.storage = a.storage /\ m.box = a.box /\ m.kind = "StorageReadWrite"
    BY <2>2, <2>4
  <2>6. a.storage = b.storage /\ a.kind # b.kind
        /\ {a.kind, b.kind} \subseteq {"StorageRead", "StorageWrite", "StorageReadWrite"}
    BY <2>1 DEF Merges
  <2>7. Writes(a) \/ Writes(b)
    BY <2>6 DEF Writes
  <2>8. TypeOf(a.storage) # "sampler"
    BY <2>6, <2>7 DEF AccessMade
  <2>9. Reads(m)
    BY <2>5 DEF Reads
  <2>10. AccessMade(m)
    BY <2>5, <2>8 DEF AccessMade
  <2> QED BY <2>3, <2>5, <2>9, <2>10
<1>2. CASE ~ (\E b \in A : Merges(a, b))
  <2>1. MergedAccess(a, A) = a
    BY <1>2, Zenon DEF MergedAccess
  <2> QED BY <2>1
<1> QED BY <1>1, <1>2

(* An accepted node stands for what its operation derives and its caller asked for.  *)
LEMMA NodeIsMade ==
  ASSUME NEW op, NEW caller, \A a \in Derived(op) \cup caller : IsAccess(a) /\ AccessMade(a),
         \A a \in Derived(op) : Reads(a) \/ Writes(a)
  PROVE  NodeMade(Node(op, caller))
<1>1. PICK A : A = Derived(op) \cup caller
  OBVIOUS
<1>2. PICK node : node = Node(op, caller)
  OBVIOUS
<1>3. node.op = op /\ node.accesses = Normalized(A) /\ node.readable = {a \in caller : Reads(a)}
  BY <1>1, <1>2 DEF Node
<1>4. \A a \in A : IsAccess(a) /\ AccessMade(a)
  BY <1>1
<1>5. ASSUME NEW m \in node.accesses PROVE AccessMade(m)
  <2>1. PICK a \in A : m = MergedAccess(a, A)
    BY <1>3 DEF Normalized
  <2> QED BY <1>4, <2>1, MergedIsMade
<1>6. ASSUME NEW u \in AllUses(node)
      PROVE  \E m \in node.accesses : m.storage = u.storage /\ m.box = u.box /\ (Reads(m) \/ Writes(m))
  <2>1. u \in A /\ (Reads(u) \/ Writes(u))
    BY <1>1, <1>3 DEF AllUses
  <2>2. PICK m : m = MergedAccess(u, A)
    OBVIOUS
  <2>3. m.storage = u.storage /\ m.box = u.box /\ (Reads(m) \/ Writes(m))
    BY <1>4, <2>1, <2>2, MergedIsMade
  <2>4. m \in node.accesses
    BY <1>3, <2>1, <2>2 DEF Normalized
  <2> QED BY <2>3, <2>4
<1> QED BY <1>2, <1>5, <1>6 DEF NodeMade

-----------------------------------------------------------------------------
(* Authored fragments are well made *)

IsFragment(f) ==
  f = [identity |-> f.identity, open |-> f.open, resources |-> f.resources, inputs |-> f.inputs,
       imports |-> f.imports, outputs |-> f.outputs, nodes |-> f.nodes, orders |-> f.orders]

Made(f) == IsFragment(f) /\ FragmentMade(f) /\ f.resources \subseteq Resource

FragmentsMade(fs) ==
  IsSequence(fs) /\ Len(fs) <= Len(Author) /\ \A i \in DOMAIN fs : Made(fs[i])

IInv == FragmentsMade(fragments) /\ GraphKept(graph)

(* Appending leaves what was in the sequence and adds one element.  *)
LEMMA Appended ==
  ASSUME NEW s, IsSequence(s), NEW x
  PROVE  /\ IsSequence(Append(s, x)) /\ Len(Append(s, x)) = Len(s) + 1 /\ Len(s) \in Nat
         /\ \A i \in DOMAIN Append(s, x) :
              (i \in DOMAIN s /\ Append(s, x)[i] = s[i]) \/ Append(s, x)[i] = x
<1>1. PICK S : s \in Seq(S)
  BY DEF IsSequence
<1>2. PICK t : t = Append(s, x)
  OBVIOUS
<1>3. s \in Seq(S \cup {x})
  BY <1>1
<1>4. t \in Seq(S \cup {x}) /\ Len(t) = Len(s) + 1 /\ Len(s) \in Nat
  BY <1>2, <1>3
<1>5. IsSequence(t)
  BY <1>4 DEF IsSequence
<1>6. \A i \in DOMAIN t : (i \in DOMAIN s /\ t[i] = s[i]) \/ t[i] = x
  BY <1>2, <1>3, <1>4
<1> QED BY <1>2, <1>4, <1>5, <1>6

(* A fragment starts well made.  *)
LEMMA StartedIsMade ==
  ASSUME NEW fs, FragmentsMade(fs), Len(fs) < Len(Author), NEW id
  PROVE  FragmentsMade(Append(fs, NewFragment(id)))
<1>1. PICK f : f = NewFragment(id)
  OBVIOUS
<1>2. /\ f.nodes = <<>> /\ f.orders = <<>> /\ f.resources = {} /\ IsFragment(f)
  BY <1>1 DEF NewFragment, IsFragment
<1>3. IsSequence(<<>>)
  <2>1. <<>> \in Seq({})
    OBVIOUS
  <2> QED BY <2>1 DEF IsSequence
<1>4. Len(<<>>) = 0 /\ DOMAIN <<>> = {}
  OBVIOUS
<1>5. FragmentMade(f)
  BY <1>2, <1>3, <1>4, AuthorAssumption DEF FragmentMade
<1>6. Made(f)
  BY <1>2, <1>5 DEF Made
<1>7. Len(Author) \in Nat
  BY AuthorAssumption
<1>8. PICK gs : gs = Append(fs, f)
  OBVIOUS
<1>9. /\ IsSequence(gs) /\ Len(gs) = Len(fs) + 1 /\ Len(fs) \in Nat
      /\ \A i \in DOMAIN gs : (i \in DOMAIN fs /\ gs[i] = fs[i]) \/ gs[i] = f
  BY <1>8, Appended DEF FragmentsMade
<1>10. FragmentsMade(gs)
  BY <1>6, <1>7, <1>9 DEF FragmentsMade
<1> QED BY <1>1, <1>8, <1>10

(* Editing the open fragment into a well-made one leaves all of them well made.  *)
LEMMA EditedIsMade ==
  ASSUME NEW fs, FragmentsMade(fs), fs # <<>>, NEW f, Made(f)
  PROVE  FragmentsMade([fs EXCEPT ![Len(fs)] = f])
<1>1. PICK S : fs \in Seq(S)
  BY DEF FragmentsMade, IsSequence
<1>2. PICK gs : gs = [fs EXCEPT ![Len(fs)] = f]
  OBVIOUS
<1>3. gs \in Seq(S \cup {f}) /\ Len(gs) = Len(fs)
  BY <1>1, <1>2
<1>4. \A i \in DOMAIN gs : i \in DOMAIN fs /\ (gs[i] = fs[i] \/ gs[i] = f)
  BY <1>1, <1>2
<1>5. FragmentsMade(gs)
  BY <1>3, <1>4 DEF FragmentsMade, IsSequence
<1> QED BY <1>2, <1>5

(* Updates of one field                                                       *)
LEMMA WithResources ==
  ASSUME NEW f, Made(f), NEW R \in SUBSET Resource
  PROVE  Made([f EXCEPT !.resources = R])
<1>1. PICK h : h = [f EXCEPT !.resources = R]
  OBVIOUS
<1>2. f = [identity |-> f.identity, open |-> f.open, resources |-> f.resources, inputs |-> f.inputs,
           imports |-> f.imports, outputs |-> f.outputs, nodes |-> f.nodes, orders |-> f.orders]
  BY DEF Made, IsFragment
<1>3. h.nodes = f.nodes /\ h.orders = f.orders /\ h.resources = R /\ IsFragment(h)
  BY <1>1, <1>2 DEF IsFragment
<1> QED BY <1>1, <1>3 DEF Made, FragmentMade

(* A well-made fragment stays so with a well-made node appended.  *)
LEMMA WithNode ==
  ASSUME NEW f, Made(f), NEW node, NodeMade(node), Len(f.nodes) < MaxNodes
  PROVE  Made([f EXCEPT !.nodes = Append(@, node)])
<1>1. PICK h : h = [f EXCEPT !.nodes = Append(@, node)]
  OBVIOUS
<1>2. f = [identity |-> f.identity, open |-> f.open, resources |-> f.resources, inputs |-> f.inputs,
           imports |-> f.imports, outputs |-> f.outputs, nodes |-> f.nodes, orders |-> f.orders]
  BY DEF Made, IsFragment
<1>3. h.nodes = Append(f.nodes, node) /\ h.orders = f.orders /\ h.resources = f.resources
      /\ IsFragment(h)
  BY <1>1, <1>2 DEF IsFragment
<1>4. PICK s : s = f.nodes
  OBVIOUS
<1>5. /\ IsSequence(h.nodes) /\ Len(h.nodes) = Len(s) + 1 /\ Len(s) \in Nat
      /\ \A i \in DOMAIN h.nodes : (i \in DOMAIN s /\ h.nodes[i] = s[i]) \/ h.nodes[i] = node
  BY <1>3, <1>4, Appended DEF Made, FragmentMade
<1>6. \A i \in DOMAIN h.nodes : NodeMade(h.nodes[i])
  BY <1>4, <1>5 DEF Made, FragmentMade
<1>7. Len(h.nodes) <= MaxNodes
  BY <1>4, <1>5, AuthorAssumption
<1> QED BY <1>1, <1>3, <1>5, <1>6, <1>7 DEF Made, FragmentMade

(* And with an order between its nodes.  *)
LEMMA WithOrderOf ==
  ASSUME NEW f, Made(f), NEW order
  PROVE  Made([f EXCEPT !.orders = Append(@, order)])
<1>1. PICK h : h = [f EXCEPT !.orders = Append(@, order)]
  OBVIOUS
<1>2. f = [identity |-> f.identity, open |-> f.open, resources |-> f.resources, inputs |-> f.inputs,
           imports |-> f.imports, outputs |-> f.outputs, nodes |-> f.nodes, orders |-> f.orders]
  BY DEF Made, IsFragment
<1>3. h.orders = Append(f.orders, order) /\ h.nodes = f.nodes /\ h.resources = f.resources
      /\ IsFragment(h)
  BY <1>1, <1>2 DEF IsFragment
<1>4. IsSequence(h.orders)
  BY <1>3, Appended DEF Made, FragmentMade
<1> QED BY <1>1, <1>3, <1>4 DEF Made, FragmentMade

(* What a fragment takes in, gives out and whether it is open does not matter to  *)
(* how its nodes are made                                                     *)
LEMMA SameNodes ==
  ASSUME NEW f, Made(f), NEW h, IsFragment(h),
         h.nodes = f.nodes, h.orders = f.orders, h.resources = f.resources
  PROVE  Made(h)
BY DEF Made, FragmentMade

(* And with another input, import or output.  *)
LEMMA WithBoundary ==
  ASSUME NEW f, Made(f), NEW x
  PROVE  /\ Made([f EXCEPT !.inputs = x]) /\ Made([f EXCEPT !.imports = x])
         /\ Made([f EXCEPT !.outputs = x]) /\ Made([f EXCEPT !.open = x])
<1>1. f = [identity |-> f.identity, open |-> f.open, resources |-> f.resources, inputs |-> f.inputs,
           imports |-> f.imports, outputs |-> f.outputs, nodes |-> f.nodes, orders |-> f.orders]
  BY DEF Made, IsFragment
<1>2. PICK h1, h2, h3, h4 : /\ h1 = [f EXCEPT !.inputs = x] /\ h2 = [f EXCEPT !.imports = x]
                            /\ h3 = [f EXCEPT !.outputs = x] /\ h4 = [f EXCEPT !.open = x]
  OBVIOUS
<1>3. IsFragment(h1) /\ h1.nodes = f.nodes /\ h1.orders = f.orders /\ h1.resources = f.resources
  BY <1>1, <1>2 DEF IsFragment
<1>4. IsFragment(h2) /\ h2.nodes = f.nodes /\ h2.orders = f.orders /\ h2.resources = f.resources
  BY <1>1, <1>2 DEF IsFragment
<1>5. IsFragment(h3) /\ h3.nodes = f.nodes /\ h3.orders = f.orders /\ h3.resources = f.resources
  BY <1>1, <1>2 DEF IsFragment
<1>6. IsFragment(h4) /\ h4.nodes = f.nodes /\ h4.orders = f.orders /\ h4.resources = f.resources
  BY <1>1, <1>2 DEF IsFragment
<1> QED BY <1>2, <1>3, <1>4, <1>5, <1>6, SameNodes

(* The node an author makes of an operation and further accesses is well made   *)
IsWork(op, requests) ==
  /\ \A u \in op.uses \cup op.arguments : IsRequest(u) /\ (Reads(u) \/ Writes(u))
  /\ \A u \in requests : IsRequest(u)

(* What an author works with makes requests.  *)
LEMMA WorkIsMade ==
  ASSUME NEW op, NEW requests, IsWork(op, requests),
         ValidOperation(op), \A u \in requests : ValidAccess(u)
  PROVE  /\ NodeMade(Node(op, {NewAccess(u) : u \in requests}))
         /\ {a.resource : a \in Derived(op)} \subseteq Resource
<1>1. PICK caller : caller = {NewAccess(u) : u \in requests}
  OBVIOUS
<1>2. ASSUME NEW a \in Derived(op)
      PROVE  IsAccess(a) /\ AccessMade(a) /\ (Reads(a) \/ Writes(a)) /\ a.resource \in Resource
  <2>1. PICK u \in op.uses \cup op.arguments : a = NewAccess(u)
    BY DEF Derived, Uses, Arguments
  <2>2. IsRequest(u) /\ ValidAccess(u) /\ (Reads(u) \/ Writes(u))
    BY DEF IsWork, ValidOperation
  <2>3. a.resource = u.resource
    BY <2>1 DEF NewAccess
  <2> QED BY <2>1, <2>2, <2>3, NewAccessIsMade DEF IsRequest
<1>3. ASSUME NEW a \in caller PROVE IsAccess(a) /\ AccessMade(a)
  <2>1. PICK u \in requests : a = NewAccess(u)
    BY <1>1
  <2> QED BY <2>1, NewAccessIsMade DEF IsWork
<1>4. NodeMade(Node(op, caller))
  BY <1>2, <1>3, NodeIsMade
<1> QED BY <1>1, <1>2, <1>4

-----------------------------------------------------------------------------
(* The inductive invariant *)

LEMMA InitIInv == GraphInit => IInv
<1>1. ASSUME fragments = <<>> PROVE FragmentsMade(fragments)
  <2>1. <<>> \in Seq({}) /\ Len(<<>>) = 0 /\ DOMAIN <<>> = {} /\ Len(Author) \in Nat
    BY AuthorAssumption
  <2> QED BY <1>1, <2>1 DEF FragmentsMade, IsSequence
<1>2. ASSUME graph = NoGraph PROVE GraphKept(graph)
  <2>1. graph.state # "prepared"
    BY <1>2 DEF NoGraph
  <2> QED BY <2>1 DEF GraphKept
<1> QED BY <1>1, <1>2 DEF GraphInit, IInv

(* The open fragment is the last, and has an author                            *)
LEMMA OpenIsMade ==
  ASSUME IInv, Open
  PROVE  fragments # <<>> /\ Made(Current) /\ Len(fragments) \in DOMAIN Author
<1>1. PICK S : fragments \in Seq(S)
  BY DEF IInv, FragmentsMade, IsSequence
<1>2. fragments # <<>>
  BY DEF Open
<1>3. Len(fragments) \in 1 .. Len(fragments) /\ DOMAIN fragments = 1 .. Len(fragments)
  BY <1>1, <1>2
<1>4. Made(Current)
  BY <1>3 DEF IInv, FragmentsMade, Current
<1>5. DOMAIN Author = 1 .. Len(Author) /\ Len(Author) \in Nat
  BY AuthorAssumption
<1>6. Len(fragments) \in DOMAIN Author
  BY <1>3, <1>5 DEF IInv, FragmentsMade
<1> QED BY <1>2, <1>4, <1>6

LEMMA EditKeepsIInv ==
  ASSUME IInv, fragments # <<>>, NEW f, Made(f), Edit(f)
  PROVE  IInv'
<1>1. FragmentsMade(fragments)'
  BY EditedIsMade DEF IInv, Edit
<1>2. GraphKept(graph)'
  BY DEF IInv, Edit
<1> QED BY <1>1, <1>2 DEF IInv

LEMMA StartKeepsIInv == IInv /\ StartFragment => IInv'
<1> SUFFICES ASSUME IInv, StartFragment PROVE IInv'
  OBVIOUS
<1>1. FragmentsMade(fragments)'
  BY StartedIsMade DEF IInv, StartFragment
<1>2. GraphKept(graph)'
  <2>1. graph'.state # "prepared"
    BY DEF StartFragment, NoGraph
  <2> QED BY <2>1 DEF GraphKept
<1> QED BY <1>1, <1>2 DEF IInv

LEMMA BoundaryKeepsIInv ==
  ASSUME IInv, Open,
         \/ \E set \in Desk.declared : DeclareResources(set)
         \/ \E i \in Desk.inputs : AddInput(i)
         \/ \E i \in Desk.imports : AddImport(i)
         \/ \E o \in Desk.outputs : AddOutput(o)
  PROVE  IInv'
<1>0. fragments # <<>> /\ Made(Current) /\ Len(fragments) \in DOMAIN Author
  BY OpenIsMade
<1>1. CASE \E set \in Desk.declared : DeclareResources(set)
  <2>1. PICK set \in Desk.declared : Edit([Current EXCEPT !.resources = set])
    BY <1>1 DEF DeclareResources
  <2>2. set \in SUBSET Resource
    BY <1>0, AuthorAssumption DEF Desk
  <2>3. Made([Current EXCEPT !.resources = set])
    BY <1>0, <2>2, WithResources
  <2> QED BY <1>0, <2>1, <2>3, EditKeepsIInv
<1>2. CASE \E i \in Desk.inputs : AddInput(i)
  <2>1. PICK x : Edit([Current EXCEPT !.inputs = x])
    BY <1>2 DEF AddInput
  <2> QED BY <1>0, <2>1, WithBoundary, EditKeepsIInv
<1>3. CASE \E i \in Desk.imports : AddImport(i)
  <2>1. PICK x : Edit([Current EXCEPT !.imports = x])
    BY <1>3 DEF AddImport
  <2> QED BY <1>0, <2>1, WithBoundary, EditKeepsIInv
<1>4. CASE \E o \in Desk.outputs : AddOutput(o)
  <2>1. PICK x : Edit([Current EXCEPT !.outputs = x])
    BY <1>4 DEF AddOutput
  <2> QED BY <1>0, <2>1, WithBoundary, EditKeepsIInv
<1> QED BY <1>1, <1>2, <1>3, <1>4

LEMMA AddNodeKeepsIInv ==
  ASSUME IInv, Open, NEW w \in Desk.work, AddNode(w.op, w.extra)
  PROVE  IInv'
<1>1. fragments # <<>> /\ Made(Current) /\ Len(fragments) \in DOMAIN Author
  BY OpenIsMade
<1>2. PICK caller : /\ caller = {NewAccess(u) : u \in w.extra}
                    /\ NodeAccepted(Current, w.op, caller)
                    /\ Edit([Current EXCEPT !.nodes = Append(@, Node(w.op, caller))])
  BY DEF AddNode
<1>3. \A u \in w.extra : ValidAccess(u)
  BY DEF AddNode
<1>4. ValidOperation(w.op) /\ Len(Current.nodes) < MaxNodes
  BY <1>2 DEF NodeAccepted
<1>5. IsWork(w.op, w.extra)
  BY <1>1, AuthorAssumption DEF Desk, IsWork
<1>6. NodeMade(Node(w.op, caller))
  BY <1>2, <1>3, <1>4, <1>5, WorkIsMade
<1>7. Made([Current EXCEPT !.nodes = Append(@, Node(w.op, caller))])
  BY <1>1, <1>4, <1>6, WithNode
<1> QED BY <1>1, <1>2, <1>7, EditKeepsIInv

LEMMA AddOperationKeepsIInv ==
  ASSUME IInv, Open, NEW w \in Desk.work, AddOperation(w.op)
  PROVE  IInv'
<1>1. fragments # <<>> /\ Made(Current) /\ Len(fragments) \in DOMAIN Author
  BY OpenIsMade
<1>2. PICK declared : /\ declared = [Current EXCEPT !.resources = @ \cup {a.resource : a \in Derived(w.op)}]
                      /\ NodeAccepted(declared, w.op, {})
                      /\ Edit([declared EXCEPT !.nodes = Append(@, Node(w.op, {}))])
  BY DEF AddOperation
<1>3. ValidOperation(w.op) /\ Len(declared.nodes) < MaxNodes
  BY <1>2 DEF NodeAccepted
<1>4. IsWork(w.op, {})
  BY <1>1, AuthorAssumption DEF Desk, IsWork
<1>5. NodeMade(Node(w.op, {})) /\ {a.resource : a \in Derived(w.op)} \subseteq Resource
  <2>1. {NewAccess(u) : u \in {}} = {}
    OBVIOUS
  <2> QED BY <1>3, <1>4, <2>1, WorkIsMade
<1>6. PICK R \in SUBSET Resource : R = Current.resources \cup {a.resource : a \in Derived(w.op)}
  BY <1>1, <1>5 DEF Made
<1>7. Made(declared)
  BY <1>1, <1>2, <1>6, WithResources
<1>8. Made([declared EXCEPT !.nodes = Append(@, Node(w.op, {}))])
  BY <1>3, <1>5, <1>7, WithNode
<1> QED BY <1>1, <1>2, <1>8, EditKeepsIInv

LEMMA AddOrderKeepsIInv ==
  ASSUME IInv, NEW before, NEW after, AddOrder(before, after)
  PROVE  IInv'
<1>1. Open /\ Edit([Current EXCEPT !.orders = Append(@, <<before, after>>)])
  BY DEF AddOrder
<1>2. fragments # <<>> /\ Made(Current)
  BY <1>1, OpenIsMade
<1>3. Made([Current EXCEPT !.orders = Append(@, <<before, after>>)])
  BY <1>2, WithOrderOf
<1> QED BY <1>1, <1>2, <1>3, EditKeepsIInv

LEMMA FinishKeepsIInv == IInv /\ FinishFragment => IInv'
<1> SUFFICES ASSUME IInv, FinishFragment PROVE IInv'
  OBVIOUS
<1>1. Open /\ Edit([Current EXCEPT !.open = FALSE])
  BY DEF FinishFragment
<1>2. fragments # <<>> /\ Made(Current)
  BY <1>1, OpenIsMade
<1>3. Made([Current EXCEPT !.open = FALSE])
  BY <1>2, WithBoundary
<1> QED BY <1>1, <1>2, <1>3, EditKeepsIInv

LEMMA PrepareKeepsIInv ==
  ASSUME IInv, NEW choice \in Compositions, NEW orders \in GraphOrders, NEW seeds, NEW targets,
         PrepareFragments(choice, orders, seeds, targets)
  PROVE  IInv'
<1>1. PICK parts : parts = [i \in DOMAIN choice |-> fragments[choice[i]]]
  OBVIOUS
<1>2. graph' = Prepared(parts, orders, seeds, targets) /\ fragments' = fragments
  BY <1>1 DEF PrepareFragments
<1>3. PICK n \in DOMAIN Author : choice \in [1 .. n -> DOMAIN fragments]
  BY DEF Compositions
<1>4. n \in Nat
  BY <1>3, AuthorAssumption
<1>5. DOMAIN parts = 1 .. n /\ \A i \in 1 .. n : Made(parts[i])
  BY <1>1, <1>3 DEF IInv, FragmentsMade
<1>6. IsSequence(parts)
  <2>1. PICK S : S = {parts[i] : i \in 1 .. n}
    OBVIOUS
  <2>2. parts = [i \in 1 .. n |-> parts[i]]
    BY <1>1, <1>5
  <2>3. parts \in [1 .. n -> S]
    BY <2>1, <2>2
  <2>4. parts \in Seq(S)
    BY <1>4, <2>3
  <2> QED BY <2>4 DEF IsSequence
<1>7. PartsMade(parts) /\ \A i \in DOMAIN parts : parts[i].resources \subseteq Resource
  BY <1>5, <1>6 DEF PartsMade, Made
<1>8. IsSequence(orders)
  <2>1. CASE orders = <<>>
    <3>1. orders \in Seq({})
      BY <2>1
    <3> QED BY <3>1 DEF IsSequence
  <2>2. CASE orders # <<>>
    <3>1. PICK o : orders = <<o>>
      BY <2>2 DEF GraphOrders
    <3>2. orders \in Seq({o})
      BY <3>1
    <3> QED BY <3>2 DEF IsSequence
  <2> QED BY <2>1, <2>2
<1>9. GraphKept(Prepared(parts, orders, seeds, targets))
  BY <1>7, <1>8, PreparedIsKept
<1>10. GraphKept(graph)'
  BY <1>2, <1>9
<1>11. FragmentsMade(fragments)'
  BY <1>2 DEF IInv
<1> QED BY <1>10, <1>11 DEF IInv

LEMMA StepIInv == IInv /\ [GraphNext]_graphVars => IInv'
<1> SUFFICES ASSUME IInv, [GraphNext]_graphVars PROVE IInv'
  OBVIOUS
<1>1. CASE StartFragment
  BY <1>1, StartKeepsIInv
<1>2. CASE Open /\ \E set \in Desk.declared : DeclareResources(set)
  BY <1>2, BoundaryKeepsIInv
<1>3. CASE Open /\ \E i \in Desk.inputs : AddInput(i)
  BY <1>3, BoundaryKeepsIInv
<1>4. CASE Open /\ \E i \in Desk.imports : AddImport(i)
  BY <1>4, BoundaryKeepsIInv
<1>5. CASE Open /\ \E o \in Desk.outputs : AddOutput(o)
  BY <1>5, BoundaryKeepsIInv
<1>6. CASE Open /\ \E w \in Desk.work : AddNode(w.op, w.extra)
  BY <1>6, AddNodeKeepsIInv
<1>7. CASE Open /\ \E w \in Desk.work : AddOperation(w.op)
  BY <1>7, AddOperationKeepsIInv
<1>8. CASE \E m, n \in 1 .. MaxNodes : AddOrder(m, n)
  BY <1>8, AddOrderKeepsIInv
<1>9. CASE FinishFragment
  BY <1>9, FinishKeepsIInv
<1>10. CASE \E choice \in Compositions, orders \in GraphOrders, given \in Reconstruction :
              PrepareFragments(choice, orders, given.seeds, given.targets)
  BY <1>10, PrepareKeepsIInv
<1>11. CASE UNCHANGED graphVars
  BY <1>11 DEF graphVars, IInv
<1> QED
  BY <1>1, <1>2, <1>3, <1>4, <1>5, <1>6, <1>7, <1>8, <1>9, <1>10, <1>11 DEF GraphNext

(* Every fragment authors build is well made, and every graph prepared of them     *)
(* keeps their programs and reads what is defined, for any resources, authors,    *)
(* compositions, orders and seeds (GpuGraphFragment, prepare_core).               *)
THEOREM Invariance == GraphSpec => []IInv
<1> QED BY InitIInv, StepIInv, PTL DEF GraphSpec

LEMMA KeptPrograms == IInv => SchedulesKeepPrograms
BY Zenon DEF IInv, GraphKept, KeepsPrograms, SchedulesKeepPrograms

LEMMA KeptReads == IInv => ScheduledReadsAreDefined
BY Zenon DEF IInv, GraphKept, DefinesReads, ScheduledReadsAreDefined

(* Whatever fragments are composed, in whatever order: a node of a prepared graph  *)
(* that touches a cell comes after exactly the writer its program means          *)
(* (infer_fragment_hazards, infer_cross_fragment_hazards, topological_node_order).*)
THEOREM ProgramsKept == GraphSpec => []SchedulesKeepPrograms
<1> QED BY Invariance, KeptPrograms, PTL

(* and what it reads is initialized there, and the coverage the graph reports at   *)
(* its end is what its nodes leave (simulate_prepared_initialization).            *)
THEOREM ReadsDefined == GraphSpec => []ScheduledReadsAreDefined
<1> QED BY Invariance, KeptReads, PTL
=============================================================================
