------------------------------ MODULE Induction -----------------------------
(***************************************************************************)
(* Induction without operator parameters: least numbers, what a function   *)
(* is that is defined by recursion over the subsets of a finite set, as    *)
(* the folds of the community modules are, and sums of sequences and sets  *)
(* of numbers.                                                             *)
(***************************************************************************)
EXTENDS Integers, FiniteSetsExt, FiniteSetTheorems, WellFoundedInduction, TLAPS

\* A set of natural numbers has a least one.
LEMMA LeastNumber ==
    ASSUME NEW T, T \subseteq Nat, T # {}
    PROVE  \E m \in T : \A k \in T : m <= k
<1>1. PICK m \in T : \A k \in T : <<k, m>> \notin OpToRel(<, Nat)
  BY NatLessThanWellFounded, WFMin
<1>2. \A k \in T : ~(k < m)
  BY <1>1 DEF OpToRel
<1> QED
  BY <1>2

\* What holds for 0, and for every number after one it holds for, holds for all.
LEMMA NoLeastExample ==
    ASSUME NEW T, T \subseteq Nat, 0 \notin T,
           \A n \in Nat : n \notin T => n + 1 \notin T
    PROVE  T = {}
<1> SUFFICES ASSUME T # {} PROVE FALSE
  OBVIOUS
<1>1. PICK m \in T : \A k \in T : m <= k
  BY LeastNumber
<1>2. m - 1 \in Nat /\ m - 1 \notin T
  BY <1>1
<1> QED
  BY <1>2

\* A finite set of integers that is not empty has a greatest one.
LEMMA MaxOfFinite ==
    ASSUME NEW n \in Nat, NEW s, s \subseteq 1..n, s # {}
    PROVE  Max(s) \in s /\ \A x \in s : Max(s) >= x
<1> DEFINE T == {k \in Nat : n - k \in s}
<1>1. PICK x \in s : TRUE
  OBVIOUS
<1>2. x \in 1..n /\ n - x \in Nat /\ n - (n - x) = x
  BY <1>1
<1>3. T # {}
  BY <1>2
<1>4. PICK m \in T : \A k \in T : m <= k
  BY <1>3, LeastNumber
<1>5. \A y \in s : n - m >= y
  <2> TAKE y \in s
  <2>1. y \in 1..n /\ n - y \in Nat /\ n - (n - y) = y
    OBVIOUS
  <2>2. n - y \in T
    BY <2>1
  <2> QED
    BY <1>4, <2>1, <2>2
<1>6. n - m \in s
  OBVIOUS
<1> QED
  BY <1>5, <1>6 DEF Max

\* The numbers up to n.
LEMMA MaxOfInterval ==
    ASSUME NEW n \in Nat \ {0}
    PROVE  Max(1..n) = n /\ (1..n) \ {n} = 1..(n - 1)
<1>1. Max(1..n) \in 1..n /\ \A x \in 1..n : Max(1..n) >= x
  <2>1. 1..n # {} /\ 1..n \subseteq 1..n
    OBVIOUS
  <2> QED
    BY <2>1, MaxOfFinite
<1>2. n \in 1..n
  OBVIOUS
<1>3. Max(1..n) = n
  BY <1>1, <1>2
<1> QED
  BY <1>3

\* An element picked from every set of elements of S.
Picks(pick, S) ==
    pick \in [(SUBSET S) \ {{}} -> S] /\ \A s \in (SUBSET S) \ {{}} : pick[s] \in s

\* The value for a set depends, by step, on the element picked from the set and on
\* the value for the rest.
FoldsBy(it, S, B, base, pick, step) ==
    /\ it \in [SUBSET S -> B]
    /\ it[{}] = base
    /\ \A s \in (SUBSET S) \ {{}} : it[s] = step[<<pick[s], it[s \ {pick[s]}]>>]

\* There is such a function.
LEMMA FoldExists ==
    ASSUME NEW S, IsFiniteSet(S), NEW B, NEW base \in B,
           NEW pick, Picks(pick, S), NEW step \in [S \X B -> B]
    PROVE  \E it : FoldsBy(it, S, B, base, pick, step)
<1> USE DEF Picks
<1> DEFINE Up(it, n) ==
      /\ it[{}] = base
      /\ \A s \in (SUBSET S) \ {{}} :
           Cardinality(s) <= n => it[s] = step[<<pick[s], it[s \ {pick[s]}]>>]
    Bad == {n \in Nat : ~\E it \in [SUBSET S -> B] : Up(it, n)}
<1>1. \A s \in SUBSET S : IsFiniteSet(s) /\ Cardinality(s) \in Nat
  BY FS_Subset, FS_CardinalityType
<1>2. \A s \in (SUBSET S) \ {{}} : Cardinality(s) # 0
  BY <1>1, FS_EmptySet
<1>3. \A s \in (SUBSET S) \ {{}} : /\ s \ {pick[s]} \in SUBSET S
                                /\ Cardinality(s \ {pick[s]}) = Cardinality(s) - 1
  BY <1>1, FS_RemoveElement
<1>4. 0 \notin Bad
  <2> DEFINE it == [s \in SUBSET S |-> base]
  <2>1. it \in [SUBSET S -> B] /\ Up(it, 0)
    BY <1>1, <1>2
  <2> QED
    BY <2>1
<1>5. ASSUME NEW n \in Nat, n \notin Bad PROVE n + 1 \notin Bad
  <2>1. PICK it \in [SUBSET S -> B] : Up(it, n)
    BY <1>5
  <2> DEFINE more == [s \in SUBSET S |-> IF s = {} THEN base
                                        ELSE IF Cardinality(s) <= n THEN it[s]
                                        ELSE step[<<pick[s], it[s \ {pick[s]}]>>]]
  <2>2. more \in [SUBSET S -> B]
    BY <1>3
  <2>3. ASSUME NEW s \in (SUBSET S) \ {{}}, Cardinality(s) <= n + 1
        PROVE  more[s] = step[<<pick[s], more[s \ {pick[s]}]>>]
    <3> DEFINE rest == s \ {pick[s]}
    <3>1. rest \in SUBSET S /\ Cardinality(rest) <= n
      BY <1>1, <1>3, <2>3
    <3>2. more[rest] = it[rest]
      <4> HIDE DEF rest
      <4> QED
        BY <2>1, <3>1
    <3>3. more[s] = step[<<pick[s], it[s \ {pick[s]}]>>]
      BY <2>1
    <3> QED
      BY <3>2, <3>3
  <2>4. Up(more, n + 1)
    BY <2>3
  <2> HIDE DEF more
  <2> QED
    BY <2>2, <2>4
<1> HIDE DEF Bad, Up
<1>6. Bad = {}
  <2>1. Bad \subseteq Nat
    BY DEF Bad
  <2> QED
    BY <1>4, <1>5, <2>1, NoLeastExample
<1>7. PICK it \in [SUBSET S -> B] : Up(it, Cardinality(S))
  BY <1>1, <1>6 DEF Bad
<1>8. \A s \in SUBSET S : Cardinality(s) <= Cardinality(S)
  BY FS_Subset
<1> QED
  BY <1>7, <1>8 DEF Up, FoldsBy

\* Functions that agree on the empty set, and on a set once they agree on the set
\* without the element picked from it, agree.
AgreeStepwise(f, g, S, pick) ==
    /\ f[{}] = g[{}]
    /\ \A s \in (SUBSET S) \ {{}} : f[s \ {pick[s]}] = g[s \ {pick[s]}] => f[s] = g[s]

\* There is one function at most that folds over a finite set.
LEMMA FoldUnique ==
    ASSUME NEW S, IsFiniteSet(S), NEW pick, Picks(pick, S),
           NEW f, NEW g, AgreeStepwise(f, g, S, pick)
    PROVE  \A s \in SUBSET S : f[s] = g[s]
<1> USE DEF Picks, AgreeStepwise
<1> DEFINE Bad == {n \in Nat : \E s \in SUBSET S : Cardinality(s) = n /\ f[s] # g[s]}
<1>1. \A s \in SUBSET S : IsFiniteSet(s) /\ Cardinality(s) \in Nat
  BY FS_Subset, FS_CardinalityType
<1>2. 0 \notin Bad
  BY <1>1, FS_EmptySet
<1>6. \A s \in (SUBSET S) \ {{}} : /\ s \ {pick[s]} \in SUBSET S
                                /\ Cardinality(s \ {pick[s]}) = Cardinality(s) - 1
  BY <1>1, FS_RemoveElement
<1>3. ASSUME NEW n \in Nat, n \notin Bad PROVE n + 1 \notin Bad
  <2> SUFFICES ASSUME NEW s \in SUBSET S, Cardinality(s) = n + 1 PROVE f[s] = g[s]
    OBVIOUS
  <2>1. s # {}
    BY FS_EmptySet
  <2>3. s \ {pick[s]} \in SUBSET S /\ Cardinality(s \ {pick[s]}) = n
    BY <1>1, <1>6, <2>1
  <2>4. \A r \in SUBSET S : Cardinality(r) = n => f[r] = g[r]
    BY <1>3
  <2>5. s \in (SUBSET S) \ {{}}
    BY <2>1
  <2>6. f[s \ {pick[s]}] = g[s \ {pick[s]}] => f[s] = g[s]
    BY <2>5
  <2> HIDE DEF Bad, AgreeStepwise
  <2>7. f[s \ {pick[s]}] = g[s \ {pick[s]}]
    BY <2>3, <2>4
  <2> QED
    BY <2>6, <2>7
<1> HIDE DEF Bad
<1>4. Bad = {}
  <2>1. Bad \subseteq Nat
    BY DEF Bad
  <2> QED
    BY <1>2, <1>3, <2>1, NoLeastExample
<1> QED
  BY <1>1, <1>4 DEF Bad

-----------------------------------------------------------------------------
(* Sums *)

\* The running sums of n numbers.
SumsOf(T, w, n) ==
    /\ T \in [0..n -> Int]
    /\ T[0] = 0
    /\ \A i \in 1..n : T[i] = T[i - 1] + w[i]

\* There are such sums.
LEMMA SumsExist ==
    ASSUME NEW n \in Nat, NEW w \in [1..n -> Int]
    PROVE  \E T : SumsOf(T, w, n)
<1> DEFINE Bad == {k \in Nat : k <= n /\ ~\E T : SumsOf(T, w, k)}
<1>1. 0 \notin Bad
  <2> DEFINE T == [i \in 0..0 |-> 0]
  <2>1. SumsOf(T, w, 0)
    BY DEF SumsOf
  <2> QED
    BY <2>1
<1>2. ASSUME NEW k \in Nat, k \notin Bad PROVE k + 1 \notin Bad
  <2> SUFFICES ASSUME k + 1 <= n PROVE \E T : SumsOf(T, w, k + 1)
    OBVIOUS
  <2>1. PICK T : SumsOf(T, w, k)
    BY <1>2
  <2> DEFINE U == [i \in 0..k + 1 |-> IF i = k + 1 THEN T[k] + w[k + 1] ELSE T[i]]
  <2>2. k + 1 \in 1..n /\ w[k + 1] \in Int /\ T[k] \in Int
    BY <2>1 DEF SumsOf
  <2>3. SumsOf(U, w, k + 1)
    <3>1. U \in [0..k + 1 -> Int] /\ U[0] = 0
      BY <2>1, <2>2 DEF SumsOf
    <3>2. ASSUME NEW i \in 1..k + 1 PROVE U[i] = U[i - 1] + w[i]
      <4>1. i - 1 \in 0..k + 1 /\ i - 1 # k + 1
        OBVIOUS
      <4>2. CASE i = k + 1
        BY <4>1, <4>2
      <4>3. CASE i # k + 1
        BY <2>1, <4>1, <4>3 DEF SumsOf
      <4> QED
        BY <4>2, <4>3
    <3> HIDE DEF U
    <3> QED
      BY <3>1, <3>2 DEF SumsOf
  <2> QED
    BY <2>3
<1> HIDE DEF Bad
<1>3. Bad = {}
  <2>1. Bad \subseteq Nat
    BY DEF Bad
  <2> QED
    BY <1>1, <1>2, <2>1, NoLeastExample
<1> QED
  <2>1. n \notin Bad
    BY <1>3
  <2> QED
    BY <2>1 DEF Bad

\* Sums of numbers that are not negative grow.
LEMMA SumsGrow ==
    ASSUME NEW n \in Nat, NEW w \in [1..n -> Int], \A i \in 1..n : w[i] >= 0,
           NEW T, SumsOf(T, w, n), NEW i \in 0..n, NEW j \in 0..n, i <= j
    PROVE  T[i] <= T[j]
<1> DEFINE Bad == {d \in Nat : i + d <= n /\ ~(T[i] <= T[i + d])}
<1>1. 0 \notin Bad
  BY DEF SumsOf
<1>2. ASSUME NEW d \in Nat, d \notin Bad PROVE d + 1 \notin Bad
  <2> SUFFICES ASSUME i + d + 1 <= n PROVE T[i] <= T[i + d + 1]
    BY i \in Nat, i + (d + 1) = i + d + 1
  <2>1. i + d + 1 \in 1..n /\ i + d \in 0..n /\ i + d + 1 - 1 = i + d
    OBVIOUS
  <2>2. T[i] <= T[i + d]
    BY <1>2, <2>1
  <2>3. T[i + d + 1] = T[i + d] + w[i + d + 1] /\ w[i + d + 1] >= 0 /\ w[i + d + 1] \in Int
    BY <2>1 DEF SumsOf
  <2>4. T[i] \in Int /\ T[i + d] \in Int
    BY <2>1 DEF SumsOf
  <2> QED
    BY <2>2, <2>3, <2>4
<1> HIDE DEF Bad
<1>3. Bad = {}
  <2>1. Bad \subseteq Nat
    BY DEF Bad
  <2> QED
    BY <1>1, <1>2, <2>1, NoLeastExample
<1>4. j - i \in Nat /\ i + (j - i) = j /\ j <= n
  OBVIOUS
<1>5. j - i \notin Bad
  BY <1>3
<1> QED
  BY <1>4, <1>5 DEF Bad

\* One step of a sum.
LEMMA SumsStep ==
    ASSUME NEW n \in Nat, NEW w \in [1..n -> Int], NEW T, SumsOf(T, w, n), NEW i \in 1..n
    PROVE  T[i] = T[i - 1] + w[i] /\ {T[i], T[i - 1], w[i]} \subseteq Int
<1>1. i - 1 \in 0..n /\ i \in 0..n
  OBVIOUS
<1> QED
  BY <1>1 DEF SumsOf

-----------------------------------------------------------------------------
(* Totals over finite sets *)

\* T has the total of the numbers d of every set of elements of S.
TotalsOf(T, d, S) ==
    /\ T \in [SUBSET S -> Int]
    /\ T[{}] = 0
    /\ \A s \in SUBSET S : \A x \in s : T[s] = d[x] + T[s \ {x}]

\* There are such totals: in whatever order they are added, the sum is the same.
LEMMA TotalsExist ==
    ASSUME NEW S, IsFiniteSet(S), NEW d \in [S -> Int]
    PROVE  \E T : TotalsOf(T, d, S)
<1> DEFINE pick == [s \in (SUBSET S) \ {{}} |-> CHOOSE x \in s : TRUE]
           step == [sb \in S \X Int |-> d[sb[1]] + sb[2]]
<1>1. Picks(pick, S)
  BY DEF Picks
<1>2. step \in [S \X Int -> Int] /\ 0 \in Int
  OBVIOUS
<1> HIDE DEF pick
<1>3. PICK T : FoldsBy(T, S, Int, 0, pick, step)
  <2> HIDE DEF step
  <2> QED
    BY <1>1, <1>2, FoldExists
<1>4. T \in [SUBSET S -> Int] /\ T[{}] = 0
  BY <1>3 DEF FoldsBy
<1>5. ASSUME NEW s \in SUBSET S, s # {}
      PROVE  /\ pick[s] \in s /\ s \ {pick[s]} \in SUBSET S
             /\ T[s] = d[pick[s]] + T[s \ {pick[s]}]
  <2>1. s \in (SUBSET S) \ {{}}
    BY <1>5
  <2>2. pick[s] \in s /\ pick[s] \in S /\ s \ {pick[s]} \in SUBSET S
    BY <1>1, <2>1 DEF Picks
  <2>3. T[s] = step[<<pick[s], T[s \ {pick[s]}]>>]
    BY <1>3, <2>1 DEF FoldsBy
  <2>4. T[s \ {pick[s]}] \in Int
    BY <1>4, <2>2
  <2> QED
    BY <2>2, <2>3, <2>4
<1> DEFINE Adds(s) == \A x \in s : T[s] = d[x] + T[s \ {x}]
           Bad == {n \in Nat : \E s \in SUBSET S : Cardinality(s) = n /\ ~Adds(s)}
<1>6. \A s \in SUBSET S : IsFiniteSet(s) /\ Cardinality(s) \in Nat
  BY FS_Subset, FS_CardinalityType
<1>7. 0 \notin Bad
  BY <1>6, FS_EmptySet
<1>8. ASSUME NEW n \in Nat, n \notin Bad PROVE n + 1 \notin Bad
  <2> SUFFICES ASSUME NEW s \in SUBSET S, Cardinality(s) = n + 1, NEW x \in s
               PROVE  T[s] = d[x] + T[s \ {x}]
    OBVIOUS
  <2> DEFINE p == pick[s]
             both == (s \ {p}) \ {x}
  <2>1. /\ p \in s /\ s \ {p} \in SUBSET S /\ T[s] = d[p] + T[s \ {p}]
        /\ s \ {x} \in SUBSET S /\ both = (s \ {x}) \ {p} /\ both \in SUBSET S
    BY <1>5
  <2>2. Cardinality(s \ {p}) = n /\ Cardinality(s \ {x}) = n
    <3>1. \A y \in s : Cardinality(s \ {y}) = Cardinality(s) - 1
      BY <1>6, FS_RemoveElement
    <3> QED
      BY <2>1, <3>1
  <2>3. Adds(s \ {p}) /\ Adds(s \ {x})
    <3>1. \A r \in SUBSET S : Cardinality(r) = n => Adds(r)
      BY <1>8
    <3> HIDE DEF Adds, p
    <3> QED
      BY <2>1, <2>2, <3>1
  <2> HIDE DEF Bad, p
  <2>4. CASE x = p
    BY <2>1, <2>4
  <2>5. CASE x # p
    <3>1. T[s \ {p}] = d[x] + T[both] /\ T[s \ {x}] = d[p] + T[both]
      BY <2>1, <2>3, <2>5
    <3>2. T[both] \in Int /\ d[x] \in Int /\ d[p] \in Int
      BY <1>4, <2>1
    <3> QED
      BY <2>1, <3>1, <3>2
  <2> QED
    BY <2>4, <2>5
<1> HIDE DEF Bad
<1>9. Bad = {}
  <2>1. Bad \subseteq Nat
    BY DEF Bad
  <2> QED
    BY <1>7, <1>8, <2>1, NoLeastExample
<1>10. \A s \in SUBSET S : Adds(s)
  BY <1>6, <1>9 DEF Bad
<1> QED
  BY <1>4, <1>10 DEF TotalsOf

\* Totals depend on the numbers alone.
LEMMA TotalsAgree ==
    ASSUME NEW S, IsFiniteSet(S), NEW R, R \subseteq S, NEW d, NEW e, \A x \in R : d[x] = e[x],
           NEW T, TotalsOf(T, d, S), NEW U, TotalsOf(U, e, S)
    PROVE  T[R] = U[R]
<1> DEFINE pick == [s \in (SUBSET R) \ {{}} |-> CHOOSE x \in s : TRUE]
<1>1. Picks(pick, R) /\ IsFiniteSet(R)
  BY FS_Subset DEF Picks
<1> HIDE DEF pick
<1>2. AgreeStepwise(T, U, R, pick)
  <2>1. T[{}] = U[{}]
    BY DEF TotalsOf
  <2>2. ASSUME NEW s \in (SUBSET R) \ {{}}, T[s \ {pick[s]}] = U[s \ {pick[s]}]
        PROVE  T[s] = U[s]
    <3>1. pick[s] \in s /\ s \in SUBSET S /\ pick[s] \in R
      BY <1>1 DEF Picks
    <3>2. /\ T[s] = d[pick[s]] + T[s \ {pick[s]}]
          /\ U[s] = e[pick[s]] + U[s \ {pick[s]}]
      BY <3>1 DEF TotalsOf
    <3> QED
      BY <2>2, <3>1, <3>2
  <2> QED
    BY <2>1, <2>2 DEF AgreeStepwise
<1>3. \A s \in SUBSET R : T[s] = U[s]
  BY <1>1, <1>2, FoldUnique
<1>4. R \in SUBSET R
  OBVIOUS
<1> QED
  BY <1>3, <1>4

\* A total of which one element counts for less.
LEMMA TotalLess ==
    ASSUME NEW S, IsFiniteSet(S), NEW d \in [S -> Int], NEW T, TotalsOf(T, d, S),
           NEW e \in [S -> Int], NEW U, TotalsOf(U, e, S),
           NEW x \in S, \A y \in S \ {x} : e[y] = d[y]
    PROVE  U[S] = T[S] - d[x] + e[x]
<1> DEFINE R == S \ {x}
<1>1. R \in SUBSET R /\ R \subseteq S /\ S \in SUBSET S /\ \A y \in R : e[y] = d[y]
  OBVIOUS
<1>2. U[R] = T[R]
  <2> HIDE DEF R
  <2> QED
    BY <1>1, TotalsAgree
<1>3. U[S] = e[x] + U[R] /\ T[S] = d[x] + T[R] /\ T[R] \in Int
  BY <1>1 DEF TotalsOf
<1> HIDE DEF R
<1> QED
  BY <1>2, <1>3

\* The total of the whole set, likewise.
LEMMA TotalsSame ==
    ASSUME NEW S, IsFiniteSet(S), NEW d \in [S -> Int], NEW T, TotalsOf(T, d, S),
           NEW e \in [S -> Int], NEW U, TotalsOf(U, e, S), \A y \in S : e[y] = d[y]
    PROVE  U[S] = T[S]
<1>1. CASE S = {}
  BY <1>1 DEF TotalsOf
<1>2. ASSUME NEW x \in S PROVE U[S] = T[S]
  <2>1. U[S] = T[S] - d[x] + e[x]
    BY TotalLess
  <2>2. e[x] = d[x] /\ d[x] \in Int /\ T[S] \in Int
    BY DEF TotalsOf
  <2> QED
    BY <2>1, <2>2
<1> QED
  BY <1>1, <1>2

\* Elements that count for nothing do not change a total.
LEMMA TotalWithout ==
    ASSUME NEW S, IsFiniteSet(S), NEW d \in [S -> Int], NEW T, TotalsOf(T, d, S),
           NEW R, R \subseteq S, \A x \in S \ R : d[x] = 0
    PROVE  T[S] = T[R]
<1> DEFINE V == [s \in SUBSET S |-> T[s \cap R]]
<1>1. T \in [SUBSET S -> Int] /\ T[{}] = 0 /\ \A s \in SUBSET S : s \cap R \in SUBSET S
  BY DEF TotalsOf
<1>2. V \in [SUBSET S -> Int]
  BY <1>1
<1>3. V[{}] = 0
  <2>1. {} \cap R = {} /\ {} \in SUBSET S
    OBVIOUS
  <2> QED
    BY <1>1, <2>1
<1>4. ASSUME NEW s \in SUBSET S, NEW x \in s
      PROVE  V[s] = d[x] + V[s \ {x}]
  <2>1. /\ s \ {x} \in SUBSET S /\ V[s] = T[s \cap R]
        /\ V[s \ {x}] = T[(s \ {x}) \cap R] /\ T[s \cap R] \in Int
    BY <1>1
  <2> HIDE DEF V
  <2>2. CASE x \in R
    <3>1. (s \ {x}) \cap R = (s \cap R) \ {x} /\ x \in s \cap R /\ s \cap R \in SUBSET S
      BY <2>2
    <3>2. T[s \cap R] = d[x] + T[(s \cap R) \ {x}]
      BY <3>1 DEF TotalsOf
    <3> QED
      BY <2>1, <3>1, <3>2
  <2>3. CASE x \notin R
    <3>1. (s \ {x}) \cap R = s \cap R /\ d[x] = 0
      BY <2>3
    <3>2. V[s \ {x}] = V[s] /\ V[s] \in Int
      BY <2>1, <3>1
    <3> QED
      BY <3>1, <3>2
  <2> QED
    BY <2>2, <2>3
<1>5. TotalsOf(V, d, S)
  <2> HIDE DEF V
  <2> QED
    BY <1>2, <1>3, <1>4 DEF TotalsOf
<1>6. V[S] = T[R]
  <2>1. S \cap R = R /\ S \in SUBSET S
    OBVIOUS
  <2> QED
    BY <2>1
<1> HIDE DEF V
<1>7. V[S] = T[S]
  BY <1>5, TotalsSame
<1> QED
  BY <1>6, <1>7
=============================================================================
