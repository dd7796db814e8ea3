--------------------------- MODULE ExchangeProofs ---------------------------
(***************************************************************************)
(* Theorems about the exchange, for any symbols, prices, number of orders  *)
(* and depth of calls from callbacks, and whatever freed memory reads as.  *)
(*                                                                         *)
(* The invariants of Exchange are not inductive: that limit orders do not  *)
(* cross and that the book is consistent rest on what the engine calls in  *)
(* progress hold, and those on which ids were handed out.  BooksInv and    *)
(* StackInv say so.                                                        *)
(***************************************************************************)
EXTENDS Exchange, Induction, SequenceTheorems

-----------------------------------------------------------------------------
(* What the operations of an order book preserve *)

NoRepeats(q) == \A i, j \in DOMAIN q : q[i] = q[j] => i = j

\* The place of an id in a queue without repeats is the one RemoveFirst finds.
LEMMA PlaceFound ==
    ASSUME NEW q \in Seq(OrderId), NoRepeats(q), NEW k \in 1..Len(q)
    PROVE  RemoveFirst(q, q[k]) = SubSeq(q, 1, k - 1) \o SubSeq(q, k + 1, Len(q))
<1>1. {i \in 1..Len(q) : q[i] = q[k]} = {k}
  BY DEF NoRepeats
<1>2. SelectInSeq(q, LAMBDA v : v = q[k]) = k
  <2>1. \A x \in {k} : \A y \in {k} : x <= y
    BY Len(q) \in Nat
  <2>2. Min({k}) = k
    BY <2>1 DEF Min
  <2> QED
    BY <1>1, <2>2 DEF SelectInSeq
<1> QED
  BY <1>2 DEF RemoveFirst, RemoveAt

Queued(q, x) == \E i \in DOMAIN q : q[i] = x

\* r is q without what is at k.
LeftOut(r, q, k) ==
    /\ Len(r) = Len(q) - 1
    /\ \A i \in 1..Len(r) : r[i] = q[IF i < k THEN i ELSE i + 1]

\* What RemoveFirst takes out of a queue without repeats is left out of it.
LEMMA RemoveFirstLeavesOut ==
    ASSUME NEW q \in Seq(OrderId), NoRepeats(q), NEW k \in 1..Len(q)
    PROVE  RemoveFirst(q, q[k]) \in Seq(OrderId) /\ LeftOut(RemoveFirst(q, q[k]), q, k)
<1> DEFINE before == SubSeq(q, 1, k - 1)
           after  == SubSeq(q, k + 1, Len(q))
           r      == before \o after
<1>1. k \in Nat /\ Len(q) \in Nat
  BY LenProperties
<1>2. RemoveFirst(q, q[k]) = r
  BY PlaceFound
<1>3. /\ before \in Seq(OrderId)
      /\ Len(before) = k - 1
      /\ \A i \in 1..(k - 1) : before[i] = q[i]
  BY <1>1, SubSeqProperties
<1>4. /\ after \in Seq(OrderId)
      /\ Len(after) = Len(q) - k
      /\ \A i \in 1..(Len(q) - k) : after[i] = q[k + i]
  BY <1>1, SubSeqProperties
<1> HIDE DEF before, after
<1>5. /\ r \in Seq(OrderId)
      /\ Len(r) = Len(before) + Len(after)
      /\ \A i \in 1..(Len(before) + Len(after)) :
            r[i] = IF i <= Len(before) THEN before[i] ELSE after[i - Len(before)]
  BY <1>3, <1>4, ConcatProperties
<1> HIDE DEF r
<1>6. /\ r \in Seq(OrderId)
      /\ Len(r) = Len(q) - 1
  BY <1>3, <1>4, <1>5
<1>7. \A i \in 1..Len(r) : r[i] = q[IF i < k THEN i ELSE i + 1]
  <2> SUFFICES ASSUME NEW i \in 1..Len(r)
               PROVE  r[i] = q[IF i < k THEN i ELSE i + 1]
    OBVIOUS
  <2>1. CASE i < k
    <3>1. i \in 1..(k - 1) /\ i <= Len(before)
      BY <2>1, <1>3, <1>4, <1>5
    <3>2. r[i] = before[i]
      BY <3>1, <1>3, <1>4, <1>5
    <3>3. before[i] = q[i]
      BY <3>1, <1>3
    <3> QED
      BY <3>2, <3>3, <2>1
  <2>2. CASE i >= k
    <3>1. i - Len(before) \in 1..(Len(q) - k) /\ ~(i <= Len(before))
      BY <2>2, <1>3, <1>4, <1>5
    <3>2. r[i] = after[i - Len(before)]
      BY <3>1, <1>3, <1>4, <1>5
    <3>3. r[i] = q[k + (i - Len(before))]
      BY <3>1, <3>2, <1>4
    <3> QED
      BY <3>3, <2>2, <1>3
  <2> QED
    BY <2>1, <2>2, <1>3, <1>4, <1>5
<1> QED
  BY <1>2, <1>6, <1>7 DEF LeftOut

\* remove_order takes one id out of a queue without repeats, and nothing else.
LEMMA RemoveFirstTakesOut ==
    ASSUME NEW q \in Seq(OrderId), NoRepeats(q), NEW e \in OrderId
    PROVE  /\ RemoveFirst(q, e) \in Seq(OrderId)
           /\ NoRepeats(RemoveFirst(q, e))
           /\ \A x : Queued(RemoveFirst(q, e), x) <=> Queued(q, x) /\ x # e
<1>1. CASE ~Queued(q, e)
  <2>1. RemoveFirst(q, e) = q
    BY <1>1 DEF RemoveFirst, Queued
  <2> QED
    BY <1>1, <2>1
<1>2. CASE Queued(q, e)
  <2>1. PICK k \in 1..Len(q) : q[k] = e
    BY <1>2 DEF Queued
  <2> DEFINE r == RemoveFirst(q, e)
  <2>2. r \in Seq(OrderId) /\ LeftOut(r, q, k)
    BY <2>1, RemoveFirstLeavesOut
  <2> HIDE DEF r
  <2>6. Len(r) = Len(q) - 1 /\ Len(q) \in Nat /\ DOMAIN r = 1..Len(r) /\ DOMAIN q = 1..Len(q)
    BY <2>2, LenProperties DEF LeftOut
  <2>7. \A i \in 1..Len(r) : r[i] = q[IF i < k THEN i ELSE i + 1]
    BY <2>2 DEF LeftOut
  <2>8. NoRepeats(r)
    <3> DEFINE at(i) == IF i < k THEN i ELSE i + 1
    <3> SUFFICES ASSUME NEW i \in 1..Len(r), NEW j \in 1..Len(r), r[i] = r[j]
                 PROVE  i = j
      BY <2>6 DEF NoRepeats
    <3>1. at(i) \in DOMAIN q /\ at(j) \in DOMAIN q
      BY <2>1, <2>6
    <3>2. q[at(i)] = q[at(j)]
      BY <2>7
    <3>3. at(i) = at(j)
      BY <3>1, <3>2 DEF NoRepeats
    <3> QED
      BY <3>3, <2>1, <2>6
  <2>9. ASSUME NEW x
        PROVE  Queued(r, x) <=> Queued(q, x) /\ x # e
    <3>1. ASSUME Queued(r, x)
          PROVE  Queued(q, x) /\ x # e
      <4>1. PICK i \in 1..Len(r) : r[i] = x
        BY <3>1, <2>6 DEF Queued
      <4> DEFINE j == IF i < k THEN i ELSE i + 1
      <4>2. j \in 1..Len(q) /\ j # k /\ q[j] = x
        BY <4>1, <2>1, <2>6, <2>7
      <4> QED
        BY <4>2, <2>1 DEF Queued, NoRepeats
    <3>2. ASSUME Queued(q, x), x # e
          PROVE  Queued(r, x)
      <4>1. PICK j \in 1..Len(q) : q[j] = x /\ j # k
        BY <3>2, <2>1 DEF Queued
      <4> DEFINE i == IF j < k THEN j ELSE j - 1
      <4>2. i \in 1..Len(r) /\ r[i] = x
        BY <4>1, <2>1, <2>6, <2>7
      <4> QED
        BY <4>2, <2>6 DEF Queued
    <3> QED
      BY <3>1, <3>2
  <2> QED
    BY <2>1, <2>2, <2>8, <2>9 DEF r
<1> QED
  BY <1>1, <1>2

-----------------------------------------------------------------------------
(* Depths *)

\* What an order adds to a depth.
Share(b, id) == IF id \in b.keys THEN Leaves(b.orders[id]) ELSE 0

Shares(b, q) == [i \in 1..Len(q) |-> Share(b, q[i])]

\* The shares of the orders of a queue are numbers.
LEMMA SharesType ==
    ASSUME NEW b \in Book, NEW q \in Seq(OrderId)
    PROVE  Len(q) \in Nat /\ DOMAIN q = 1..Len(q) /\ Shares(b, q) \in [1..Len(q) -> Int]
<1>1. \A i \in 1..Len(q) : q[i] \in OrderId
  BY ElementOfSeq
<1>2. \A id \in OrderId : Leaves(b.orders[id]) \in Int
  BY DEF Book, Order, Leaves
<1> QED
  BY <1>1, <1>2, LenProperties DEF Shares, Share

\* The depth of a queue is the sum of the shares of its orders.
LEMMA DepthIsSum ==
    ASSUME NEW b \in Book, NEW q \in Seq(OrderId), NEW T, SumsOf(T, Shares(b, q), Len(q))
    PROVE  Depth(b, q) = T[Len(q)]
<1> DEFINE S == DOMAIN q
           op(id, sum) == IF id \in b.keys THEN sum + Leaves(b.orders[id]) ELSE sum
           Body(g) == [s \in SUBSET S |->
                         IF s = {} THEN 0 ELSE op(q[Max(s)], g[s \ {Max(s)}])]
           pick == [s \in (SUBSET S) \ {{}} |-> Max(s)]
           step == [sb \in S \X Int |-> op(q[sb[1]], sb[2])]
<1>1. Depth(b, q) = (CHOOSE g : g = Body(g))[S]
  BY Zenon DEF Depth, FoldLeft, MapThenFoldSet
<1>2. /\ S = 1..Len(q) /\ Len(q) \in Nat /\ \A i \in S : q[i] \in OrderId
      /\ \A id \in OrderId : Leaves(b.orders[id]) \in Int
  BY SharesType, ElementOfSeq DEF Book, Order, Leaves
<1>3. IsFiniteSet(S)
  BY <1>2, FS_Interval
<1>4. Picks(pick, S)
  <2> HIDE DEF S
  <2>1. \A s \in (SUBSET S) \ {{}} : Max(s) \in s
    BY <1>2, MaxOfFinite
  <2> QED
    BY <2>1 DEF Picks
<1>5. step \in [S \X Int -> Int] /\ 0 \in Int
  BY <1>2
<1>6. PICK it : FoldsBy(it, S, Int, 0, pick, step)
  <2> HIDE DEF S, pick, step
  <2> QED
    BY <1>3, <1>4, <1>5, FoldExists
<1>7. it = Body(it)
  <2> HIDE DEF S, op
  <2>1. \A s \in (SUBSET S) \ {{}} : Max(s) \in S /\ s \ {Max(s)} \in SUBSET S
    BY <1>4 DEF Picks
  <2>2. \A s \in (SUBSET S) \ {{}} : it[s] = Body(it)[s]
    BY <1>6, <2>1 DEF FoldsBy
  <2>3. it[{}] = Body(it)[{}]
    BY <1>6 DEF FoldsBy
  <2>4. it = [s \in SUBSET S |-> it[s]]
    BY <1>6 DEF FoldsBy
  <2> QED
    BY <2>2, <2>3, <2>4
<1> DEFINE f == CHOOSE g : g = Body(g)
<1>8. f = Body(f)
  <2> HIDE DEF Body
  <2> QED
    BY <1>7
<1> HIDE DEF f
<1>9. f[{}] = 0
  BY <1>8
<1>10. ASSUME NEW n \in 1..Len(q) PROVE f[1..n] = op(q[n], f[1..(n - 1)])
  <2>1. 1..n \in (SUBSET S) \ {{}}
    BY <1>2
  <2>2. Max(1..n) = n /\ (1..n) \ {n} = 1..(n - 1)
    BY MaxOfInterval
  <2>3. f[1..n] = op(q[Max(1..n)], f[(1..n) \ {Max(1..n)}])
    <3> HIDE DEF S, op
    <3> QED
      BY <1>8, <2>1
  <2> HIDE DEF op
  <2> QED
    BY <2>2, <2>3
<1> DEFINE Bad == {n \in Nat : n <= Len(q) /\ f[1..n] # T[n]}
<1>11. 0 \notin Bad
  BY <1>9 DEF SumsOf
<1>12. ASSUME NEW n \in Nat, n \notin Bad PROVE n + 1 \notin Bad
  <2> SUFFICES ASSUME n + 1 <= Len(q) PROVE f[1..(n + 1)] = T[n + 1]
    OBVIOUS
  <2>1. n + 1 \in 1..Len(q) /\ n + 1 - 1 = n
    BY <1>2
  <2>2. f[1..n] = T[n] /\ T[n] \in Int
    BY <1>2, <1>12 DEF SumsOf
  <2>3. f[1..(n + 1)] = op(q[n + 1], T[n])
    BY <1>10, <2>1, <2>2
  <2>4. T[n + 1] = T[n] + Share(b, q[n + 1])
    BY <2>1 DEF SumsOf, Shares
  <2>5. q[n + 1] \in OrderId
    BY <1>2, <2>1
  <2> QED
    BY <1>2, <2>2, <2>3, <2>4, <2>5 DEF Share
<1> HIDE DEF Bad
<1>13. Bad = {}
  <2>1. Bad \subseteq Nat
    BY DEF Bad
  <2> QED
    BY <1>11, <1>12, <2>1, NoLeastExample
<1>14. f[1..Len(q)] = T[Len(q)]
  BY <1>2, <1>13 DEF Bad
<1> HIDE DEF Body, S
<1> QED
  BY <1>1, <1>2, <1>14 DEF f

\* One step of the sum of a queue.
LEMMA DepthStep ==
    ASSUME NEW b \in Book, NEW q \in Seq(OrderId), NEW T, SumsOf(T, Shares(b, q), Len(q)),
           NEW i \in 1..Len(q)
    PROVE  T[i] = T[i - 1] + Share(b, q[i]) /\ {T[i], T[i - 1], Share(b, q[i])} \subseteq Int
<1>1. Len(q) \in Nat /\ Shares(b, q) \in [1..Len(q) -> Int] /\ Shares(b, q)[i] = Share(b, q[i])
  BY SharesType DEF Shares
<1> QED
  BY <1>1, SumsStep

\* A queue's depth is at most that of one in which it lies in order.
LEMMA DepthBelow ==
    ASSUME NEW b \in Book, NEW q \in Seq(OrderId), NEW c \in Book, NEW r \in Seq(OrderId),
           NEW h \in [1..Len(r) -> 1..Len(q)],
           \A i, j \in 1..Len(r) : i < j => h[i] < h[j],
           \A i \in 1..Len(r) : Share(c, r[i]) <= Share(b, q[h[i]]),
           \A i \in 1..Len(q) : Share(b, q[i]) >= 0
    PROVE  Depth(c, r) <= Depth(b, q)
<1>1. /\ Len(q) \in Nat /\ Shares(b, q) \in [1..Len(q) -> Int]
      /\ Len(r) \in Nat /\ Shares(c, r) \in [1..Len(r) -> Int]
  BY SharesType
<1>2. PICK T : SumsOf(T, Shares(b, q), Len(q))
  BY <1>1, SumsExist
<1>3. PICK U : SumsOf(U, Shares(c, r), Len(r))
  BY <1>1, SumsExist
<1>4. \A i \in 1..Len(q) : Shares(b, q)[i] >= 0
  BY DEF Shares
<1>5. \A i, j \in 0..Len(q) : i <= j => T[i] <= T[j]
  BY <1>1, <1>2, <1>4, SumsGrow
<1> DEFINE at(i) == IF i = 0 THEN 0 ELSE h[i]
           Bad == {i \in Nat : i <= Len(r) /\ ~(U[i] <= T[at(i)])}
<1>6. 0 \notin Bad
  BY <1>2, <1>3 DEF SumsOf
<1>7. ASSUME NEW i \in Nat, i \notin Bad PROVE i + 1 \notin Bad
  <2> SUFFICES ASSUME i + 1 <= Len(r) PROVE U[i + 1] <= T[h[i + 1]]
    OBVIOUS
  <2>1. i + 1 \in 1..Len(r) /\ i + 1 - 1 = i /\ i \in 0..Len(r)
    BY <1>1
  <2>2. h[i + 1] \in 1..Len(q) /\ h[i + 1] - 1 \in 0..Len(q)
    <3>1. h[i + 1] \in 1..Len(q)
      BY <2>1
    <3> QED
      BY <1>1, <3>1
  <2>3. at(i) \in 0..Len(q) /\ at(i) <= h[i + 1] - 1
    <3>1. CASE i = 0
      BY <1>1, <2>2, <3>1
    <3>2. CASE i # 0
      <4>1. i \in 1..Len(r)
        BY <2>1, <3>2
      <4>2. h[i] < h[i + 1] /\ h[i] \in 1..Len(q)
        BY <2>1, <4>1
      <4> QED
        BY <1>1, <2>2, <3>2, <4>2
    <3> QED
      BY <3>1, <3>2
  <2>4. U[i] <= T[at(i)]
    BY <1>7, <2>1
  <2>5. T[at(i)] <= T[h[i + 1] - 1]
    BY <1>5, <2>2, <2>3
  <2>6. U[i + 1] = U[i] + Share(c, r[i + 1])
    BY <1>3, <2>1 DEF SumsOf, Shares
  <2>7. T[h[i + 1]] = T[h[i + 1] - 1] + Share(b, q[h[i + 1]])
    BY <1>2, <2>2 DEF SumsOf, Shares
  <2>8. /\ U[i] \in Int /\ T[at(i)] \in Int /\ T[h[i + 1] - 1] \in Int
    BY <1>2, <1>3, <2>1, <2>2, <2>3 DEF SumsOf
  <2>9. Share(c, r[i + 1]) \in Int /\ Share(b, q[h[i + 1]]) \in Int
    BY <1>1, <2>1, <2>2 DEF Shares
  <2>10. Share(c, r[i + 1]) <= Share(b, q[h[i + 1]])
    BY <2>1
  <2> HIDE DEF at
  <2> QED
    BY <2>4, <2>5, <2>6, <2>7, <2>8, <2>9, <2>10
<1> HIDE DEF Bad
<1>8. Bad = {}
  <2>1. Bad \subseteq Nat
    BY DEF Bad
  <2> QED
    BY <1>6, <1>7, <2>1, NoLeastExample
<1>9. U[Len(r)] <= T[at(Len(r))]
  <2>1. Len(r) \notin Bad
    BY <1>8
  <2> QED
    BY <1>1, <2>1 DEF Bad
<1>10. at(Len(r)) \in 0..Len(q)
  BY <1>1
<1>11. T[at(Len(r))] <= T[Len(q)]
  BY <1>1, <1>5, <1>10
<1>12. U[Len(r)] \in Int /\ T[at(Len(r))] \in Int /\ T[Len(q)] \in Int
  <2>1. Len(r) \in 0..Len(r) /\ Len(q) \in 0..Len(q)
    BY <1>1
  <2> HIDE DEF at
  <2> QED
    BY <1>2, <1>3, <1>10, <2>1 DEF SumsOf
<1> HIDE DEF at
<1> QED
  BY <1>2, <1>3, <1>9, <1>11, <1>12, DepthIsSum

\* The depths of a queue in two books that differ by d in the share of one order.
LEMMA DepthLess ==
    ASSUME NEW b \in Book, NEW c \in Book, NEW q \in Seq(OrderId), NEW k \in 1..Len(q),
           NEW d \in Int, Share(c, q[k]) = Share(b, q[k]) - d,
           \A i \in 1..Len(q) : i # k => Share(c, q[i]) = Share(b, q[i])
    PROVE  Depth(c, q) = Depth(b, q) - d
<1>1. Len(q) \in Nat /\ Shares(b, q) \in [1..Len(q) -> Int]
  BY SharesType
<1>2. PICK T : SumsOf(T, Shares(b, q), Len(q))
  BY <1>1, SumsExist
<1> DEFINE U == [i \in 0..Len(q) |-> IF i < k THEN T[i] ELSE T[i] - d]
<1>3. SumsOf(U, Shares(c, q), Len(q))
  <2>1. U \in [0..Len(q) -> Int] /\ U[0] = 0
    BY <1>1, <1>2 DEF SumsOf
  <2>2. ASSUME NEW i \in 1..Len(q) PROVE U[i] = U[i - 1] + Shares(c, q)[i]
    <3>1. /\ i - 1 \in 0..Len(q) /\ T[i] = T[i - 1] + Share(b, q[i])
          /\ T[i - 1] \in Int /\ Share(b, q[i]) \in Int
      BY <1>1, <1>2, DepthStep
    <3>2. Shares(c, q)[i] = Share(c, q[i])
      BY DEF Shares
    <3>3. CASE i < k
      BY <1>1, <3>1, <3>2, <3>3
    <3>4. CASE i = k
      BY <1>1, <3>1, <3>2, <3>4
    <3>5. CASE i > k
      BY <1>1, <3>1, <3>2, <3>5
    <3> QED
      BY <1>1, <3>3, <3>4, <3>5
  <2> HIDE DEF U
  <2> QED
    BY <2>1, <2>2 DEF SumsOf
<1>4. U[Len(q)] = T[Len(q)] - d
  BY <1>1
<1> HIDE DEF U
<1> QED
  BY <1>2, <1>3, <1>4, DepthIsSum

\* What taking one order out of a queue takes from its depth.
LEMMA DepthWithout ==
    ASSUME NEW b \in Book, NEW c \in Book, NEW q \in Seq(OrderId), NEW r \in Seq(OrderId),
           NEW k \in 1..Len(q), LeftOut(r, q, k),
           \A i \in 1..Len(q) : i # k => Share(c, q[i]) = Share(b, q[i])
    PROVE  Depth(c, r) = Depth(b, q) - Share(b, q[k])
<1>1. Len(q) \in Nat /\ Shares(b, q) \in [1..Len(q) -> Int] /\ Len(r) \in Nat
  BY SharesType
<1>2. PICK T : SumsOf(T, Shares(b, q), Len(q))
  BY <1>1, SumsExist
<1>3. \A j \in 1..Len(q) : T[j] = T[j - 1] + Share(b, q[j])
                            /\ {T[j], T[j - 1], Share(b, q[j])} \subseteq Int
  <2> TAKE j \in 1..Len(q)
  <2> QED
    BY <1>2, DepthStep
<1> USE DEF LeftOut
<1>4. PICK d \in Int : d = Share(b, q[k])
  BY <1>3
<1> DEFINE U == [i \in 0..Len(r) |-> IF i < k THEN T[i] ELSE T[i + 1] - d]
<1>5. SumsOf(U, Shares(c, r), Len(r))
  <2>1. U[0] = 0 /\ U \in [0..Len(r) -> Int]
    <3>1. \A i \in 0..Len(r) : i \in 0..Len(q) /\ i + 1 \in 0..Len(q)
      BY <1>1
    <3> QED
      BY <1>1, <1>2, <3>1 DEF SumsOf
  <2>2. ASSUME NEW i \in 1..Len(r) PROVE U[i] = U[i - 1] + Shares(c, r)[i]
    <3>1. /\ i - 1 \in 0..Len(r) /\ i \in 1..Len(q) /\ i + 1 \in 1..Len(q)
          /\ i + 1 - 1 = i /\ i - 1 + 1 = i
      BY <1>1
    <3>2. /\ T[i] = T[i - 1] + Share(b, q[i]) /\ T[i + 1] = T[i] + Share(b, q[i + 1])
          /\ T[i - 1] \in Int /\ Share(b, q[i]) \in Int /\ Share(b, q[i + 1]) \in Int
      <4>1. T[i] = T[i - 1] + Share(b, q[i]) /\ {T[i], T[i - 1], Share(b, q[i])} \subseteq Int
        BY <1>3, <3>1
      <4>2. /\ T[i + 1] = T[i + 1 - 1] + Share(b, q[i + 1])
            /\ {T[i + 1], T[i + 1 - 1], Share(b, q[i + 1])} \subseteq Int
        BY <1>3, <3>1
      <4> QED
        BY <3>1, <4>1, <4>2
    <3>3. Shares(c, r)[i] = Share(c, r[i])
      BY DEF Shares
    <3>4. CASE i < k
      <4>1. r[i] = q[i] /\ Share(c, q[i]) = Share(b, q[i])
        <5>1. i # k /\ (IF i < k THEN i ELSE i + 1) = i
          BY <1>1, <3>1, <3>4
        <5> QED
          BY <3>1, <5>1
      <4> QED
        BY <3>1, <3>2, <3>3, <3>4, <4>1
    <3>5. CASE i = k
      <4>1. r[i] = q[i + 1] /\ Share(c, q[i + 1]) = Share(b, q[i + 1])
        <5>1. i + 1 # k /\ (IF i < k THEN i ELSE i + 1) = i + 1
          BY <1>1, <3>1, <3>5
        <5> QED
          BY <3>1, <5>1
      <4> QED
        BY <1>4, <3>1, <3>2, <3>3, <3>5, <4>1
    <3>6. CASE i > k
      <4>1. r[i] = q[i + 1] /\ Share(c, q[i + 1]) = Share(b, q[i + 1])
        <5>1. i + 1 # k /\ (IF i < k THEN i ELSE i + 1) = i + 1
          BY <1>1, <3>1, <3>6
        <5> QED
          BY <3>1, <5>1
      <4> QED
        BY <1>4, <3>1, <3>2, <3>3, <3>6, <4>1
    <3> QED
      BY <1>1, <3>4, <3>5, <3>6
  <2> HIDE DEF U
  <2> QED
    BY <2>1, <2>2 DEF SumsOf
<1>6. U[Len(r)] = T[Len(q)] - d
  <2>1. CASE Len(r) < k
    <3>1. k = Len(q) /\ k - 1 = Len(r) /\ T[k] = T[k - 1] + Share(b, q[k])
      BY <1>1, <1>2, <2>1 DEF SumsOf, Shares
    <3>2. T[k - 1] \in Int
      BY <1>1, <1>2 DEF SumsOf
    <3> QED
      BY <1>1, <1>4, <2>1, <3>1, <3>2
  <2>2. CASE ~(Len(r) < k)
    BY <1>1, <2>2
  <2> QED
    BY <2>1, <2>2
<1> HIDE DEF U
<1> QED
  BY <1>2, <1>4, <1>5, <1>6, DepthIsSum

-----------------------------------------------------------------------------
(* Sound, by what is queued rather than where in the queue it is *)

Queue(b, s, p) == b.level[s][p]

QueuesSound(b) ==
    \A s \in Sides, p \in Prices :
        /\ NoRepeats(Queue(b, s, p))
        /\ \A id : Queued(Queue(b, s, p), id) =>
              /\ id \in b.keys
              /\ b.tag[id] = s
              /\ b.orders[id].limit = p
              /\ b.orders[id].filled < b.orders[id].qty

TagsSound(b) ==
    \A id \in OrderId : Resting(b, id) =>
        /\ id \in b.keys
        /\ b.orders[id].side = b.tag[id]
        /\ b.orders[id].limit \in Prices
        /\ Queued(Queue(b, b.tag[id], b.orders[id].limit), id)

\* Sound, the agreement of queues, tags and nodes (order_book.hpp 132-140),
\* said queue by queue and tag by tag, as the proofs use it.
LEMMA SoundByQueues ==
    ASSUME NEW b \in Book
    PROVE  Sound(b) <=> QueuesSound(b) /\ TagsSound(b) /\ FilledWithinQty(b)
<1>1. QueuedIsResting(b) <=> QueuesSound(b)
  BY DEF QueuedIsResting, QueuesSound, Queue, Queued, NoRepeats
<1>2. RestingIsQueued(b) <=> TagsSound(b)
  BY DEF RestingIsQueued, TagsSound, Queue, Queued
<1> QED
  BY <1>1, <1>2 DEF Sound

\* Besides: a key's node is of that id, and has a price it can be queued at.
KeysSound(b) == \A id \in b.keys : b.orders[id].id = id /\ b.orders[id].limit \in Prices

BookOK(b) == b \in Book /\ Sound(b) /\ KeysSound(b)

\* A new OrderBook is consistent.
LEMMA EmptyBookOK == BookOK(EmptyBook)
<1>1. NoOrder \in Order
  BY BookAssumption DEF NoOrder, Order, AnyId, AnyPrice, Sides, Types, Tif, Status
<1>2. EmptyBook \in Book
  BY <1>1 DEF EmptyBook, Book
<1>3. QueuesSound(EmptyBook)
  BY DEF EmptyBook, QueuesSound, Queue, Queued, NoRepeats
<1>4. TagsSound(EmptyBook) /\ FilledWithinQty(EmptyBook) /\ KeysSound(EmptyBook)
  BY DEF EmptyBook, TagsSound, FilledWithinQty, KeysSound, Resting
<1> QED
  BY <1>2, <1>3, <1>4, SoundByQueues DEF BookOK

-----------------------------------------------------------------------------
(* Shares ahead *)

\* The orders in front of the one at n.
LEMMA FrontPart ==
    ASSUME NEW q \in Seq(OrderId), NEW n \in 1..Len(q)
    PROVE  /\ SubSeq(q, 1, n - 1) \in Seq(OrderId)
           /\ Len(SubSeq(q, 1, n - 1)) = n - 1
           /\ \A i \in 1..(n - 1) : SubSeq(q, 1, n - 1)[i] = q[i]
<1>1. n \in Nat /\ Len(q) \in Nat /\ \A i \in 1..(n - 1) : q[i] \in OrderId
  BY LenProperties, ElementOfSeq
<1> QED
  BY <1>1, SubSeqProperties

\* A depth is a number.
LEMMA DepthType ==
    ASSUME NEW b \in Book, NEW q \in Seq(OrderId)
    PROVE  Depth(b, q) \in Int
<1>1. Len(q) \in Nat /\ Shares(b, q) \in [1..Len(q) -> Int]
  BY SharesType
<1>2. PICK T : SumsOf(T, Shares(b, q), Len(q))
  BY <1>1, SumsExist
<1> QED
  BY <1>1, <1>2, DepthIsSum DEF SumsOf

\* The orders of r are orders of q, in their order.
Embedded(r, q, h) ==
    /\ h \in [1..Len(r) -> 1..Len(q)]
    /\ \A i, j \in 1..Len(r) : i < j => h[i] < h[j]
    /\ \A i \in 1..Len(r) : r[i] = q[h[i]]

\* No share grows from b to c, and none is negative in b.
SharesFall(b, c) ==
    \A i \in OrderId : Share(c, i) <= Share(b, i) /\ Share(b, i) >= 0

\* In front of an order there are no more shares than there were.
LEMMA FrontPartFalls ==
    ASSUME NEW b \in Book, NEW c \in Book, SharesFall(b, c),
           NEW q \in Seq(OrderId), NEW r \in Seq(OrderId), NEW h, Embedded(r, q, h),
           NEW n \in 1..Len(r)
    PROVE  Depth(c, SubSeq(r, 1, n - 1)) <= Depth(b, SubSeq(q, 1, h[n] - 1))
<1> DEFINE rr == SubSeq(r, 1, n - 1)
           qq == SubSeq(q, 1, h[n] - 1)
           hh == [i \in 1..(n - 1) |-> h[i]]
<1>1. h[n] \in 1..Len(q) /\ n \in Nat /\ Len(q) \in Nat /\ Len(r) \in Nat
  BY LenProperties DEF Embedded
<1>2. rr \in Seq(OrderId) /\ Len(rr) = n - 1 /\ \A i \in 1..(n - 1) : rr[i] = r[i]
  BY FrontPart
<1>3. qq \in Seq(OrderId) /\ Len(qq) = h[n] - 1 /\ \A i \in 1..(h[n] - 1) : qq[i] = q[i]
  BY <1>1, FrontPart
<1>4. \A i \in 1..(n - 1) : i \in 1..Len(r) /\ i < n
  BY <1>1
<1>5. \A i \in 1..(n - 1) : h[i] \in 1..(h[n] - 1)
  <2> TAKE i \in 1..(n - 1)
  <2>1. h[i] \in 1..Len(q) /\ h[i] < h[n]
    BY <1>4 DEF Embedded
  <2> QED
    BY <1>1, <2>1
<1> HIDE DEF rr, qq
<1>6. hh \in [1..Len(rr) -> 1..Len(qq)]
  BY <1>2, <1>3, <1>5
<1>7. \A i, j \in 1..Len(rr) : i < j => hh[i] < hh[j]
  BY <1>2, <1>4 DEF Embedded
<1>8. \A i \in 1..Len(rr) : Share(c, rr[i]) <= Share(b, qq[hh[i]])
  <2> TAKE i \in 1..Len(rr)
  <2>1. i \in 1..(n - 1) /\ hh[i] = h[i] /\ rr[i] = r[i] /\ qq[hh[i]] = q[h[i]] /\ r[i] = q[h[i]]
    BY <1>2, <1>3, <1>4, <1>5 DEF Embedded
  <2>2. r[i] \in OrderId
    BY <1>4, <2>1, ElementOfSeq
  <2> QED
    BY <2>1, <2>2 DEF SharesFall
<1>9. \A i \in 1..Len(qq) : Share(b, qq[i]) >= 0
  BY <1>3, ElementOfSeq DEF SharesFall
<1> HIDE DEF hh
<1> QED
  BY <1>2, <1>3, <1>6, <1>7, <1>8, <1>9, DepthBelow DEF rr, qq

\* A queue lies in itself, and what an order was taken out of in what it was.
LEMMA EmbeddedOrders ==
    ASSUME NEW q \in Seq(OrderId), NEW r \in Seq(OrderId),
           r = q \/ \E k \in 1..Len(q) : LeftOut(r, q, k)
    PROVE  \E h : Embedded(r, q, h)
<1>1. Len(q) \in Nat /\ Len(r) \in Nat
  BY LenProperties
<1>2. CASE r = q
  <2>1. Embedded(r, q, [i \in 1..Len(r) |-> i])
    BY <1>1, <1>2 DEF Embedded
  <2> QED
    BY <2>1
<1>3. CASE \E k \in 1..Len(q) : LeftOut(r, q, k)
  <2>1. PICK k \in 1..Len(q) : LeftOut(r, q, k)
    BY <1>3
  <2> DEFINE h == [i \in 1..Len(r) |-> IF i < k THEN i ELSE i + 1]
  <2>2. h \in [1..Len(r) -> 1..Len(q)]
    BY <1>1, <2>1 DEF LeftOut
  <2>3. \A i, j \in 1..Len(r) : i < j => h[i] < h[j]
    BY <1>1
  <2>4. \A i \in 1..Len(r) : r[i] = q[h[i]]
    BY <2>1 DEF LeftOut
  <2> HIDE DEF h
  <2>5. Embedded(r, q, h)
    BY <2>2, <2>3, <2>4 DEF Embedded
  <2> QED
    BY <2>5
<1> QED
  BY <1>2, <1>3

\* Where an order that rests has its place, and what is in front of it.
LEMMA PlaceOfResting ==
    ASSUME NEW b, BookOK(b), NEW id \in OrderId, Resting(b, id),
           NEW n \in DOMAIN Queue(b, b.tag[id], b.orders[id].limit),
           Queue(b, b.tag[id], b.orders[id].limit)[n] = id
    PROVE  SharesAhead(b, id) = Depth(b, SubSeq(Queue(b, b.tag[id], b.orders[id].limit), 1, n - 1))
<1> DEFINE q == Queue(b, b.tag[id], b.orders[id].limit)
<1>1. b \in Book /\ QueuesSound(b) /\ TagsSound(b)
  BY SoundByQueues DEF BookOK
<1>2. b.tag[id] \in Sides /\ b.orders[id].limit \in Prices /\ b.orders[id].side = b.tag[id]
  BY <1>1 DEF TagsSound, Resting, Book
<1>3. NoRepeats(q)
  BY <1>1, <1>2 DEF QueuesSound
<1>4. \A i \in DOMAIN q : q[i] = id => i = n
  BY <1>3 DEF NoRepeats
<1>5. (CHOOSE i \in DOMAIN q : q[i] = id) = n
  BY <1>4
<1>6. SharesAhead(b, id) = Depth(b, SubSeq(q, 1, (CHOOSE i \in DOMAIN q : q[i] = id) - 1))
  BY <1>2 DEF SharesAhead, Queue
<1> QED
  BY <1>5, <1>6

\* Where an order rests, it has a place.
LEMMA RestingPlace ==
    ASSUME NEW b, BookOK(b), NEW id \in OrderId, Resting(b, id)
    PROVE  /\ b.tag[id] \in Sides /\ b.orders[id].limit \in Prices
           /\ Queue(b, b.tag[id], b.orders[id].limit) \in Seq(OrderId)
           /\ NoRepeats(Queue(b, b.tag[id], b.orders[id].limit))
           /\ \E n \in 1..Len(Queue(b, b.tag[id], b.orders[id].limit)) :
                 Queue(b, b.tag[id], b.orders[id].limit)[n] = id
<1>1. b \in Book /\ QueuesSound(b) /\ TagsSound(b)
  BY SoundByQueues DEF BookOK
<1>2. b.tag[id] \in Sides /\ b.orders[id].limit \in Prices
  BY <1>1 DEF TagsSound, Resting, Book
<1>3. Queue(b, b.tag[id], b.orders[id].limit) \in Seq(OrderId)
  BY <1>1, <1>2 DEF Queue, Book
<1>4. NoRepeats(Queue(b, b.tag[id], b.orders[id].limit))
  BY <1>1, <1>2 DEF QueuesSound
<1>5. DOMAIN Queue(b, b.tag[id], b.orders[id].limit) = 1..Len(Queue(b, b.tag[id], b.orders[id].limit))
  BY <1>3
<1>6. Queued(Queue(b, b.tag[id], b.orders[id].limit), id)
  BY <1>1 DEF TagsSound
<1> QED
  BY <1>2, <1>3, <1>4, <1>5, <1>6 DEF Queued

\* The shares ahead are a number.
LEMMA SharesAheadType ==
    ASSUME NEW b, BookOK(b), NEW id \in OrderId, Resting(b, id)
    PROVE  SharesAhead(b, id) \in Int
<1> DEFINE q == Queue(b, b.tag[id], b.orders[id].limit)
<1>1. q \in Seq(OrderId) /\ b \in Book
  BY RestingPlace DEF BookOK
<1>2. PICK n \in 1..Len(q) : q[n] = id
  BY RestingPlace
<1>3. n \in DOMAIN q
  BY <1>1, <1>2
<1>4. SharesAhead(b, id) = Depth(b, SubSeq(q, 1, n - 1))
  BY <1>2, <1>3, PlaceOfResting
<1> HIDE DEF q
<1>5. SubSeq(q, 1, n - 1) \in Seq(OrderId)
  BY <1>1, FrontPart
<1> QED
  BY <1>1, <1>4, <1>5, DepthType

\* Nobody moves ahead of an order when its queue keeps its order and shares fall.
LEMMA AheadFalls ==
    ASSUME NEW b, BookOK(b), NEW c, BookOK(c), SharesFall(b, c), NEW id \in OrderId,
           Resting(b, id), Resting(c, id), c.tag[id] = b.tag[id],
           c.orders[id].limit = b.orders[id].limit,
           NEW h, Embedded(Queue(c, c.tag[id], c.orders[id].limit),
                           Queue(b, b.tag[id], b.orders[id].limit), h)
    PROVE  SharesAhead(c, id) <= SharesAhead(b, id)
<1> DEFINE q == Queue(b, b.tag[id], b.orders[id].limit)
           r == Queue(c, c.tag[id], c.orders[id].limit)
<1>1. q \in Seq(OrderId) /\ r \in Seq(OrderId) /\ b \in Book /\ c \in Book
  BY RestingPlace DEF BookOK
<1>2. PICK n \in 1..Len(r) : r[n] = id
  BY RestingPlace
<1>3. h[n] \in 1..Len(q) /\ q[h[n]] = id
  BY <1>2 DEF Embedded
<1>4. n \in DOMAIN r /\ h[n] \in DOMAIN q
  BY <1>1, <1>2, <1>3
<1>5. SharesAhead(c, id) = Depth(c, SubSeq(r, 1, n - 1))
  BY <1>2, <1>4, PlaceOfResting
<1>6. SharesAhead(b, id) = Depth(b, SubSeq(q, 1, h[n] - 1))
  BY <1>3, <1>4, PlaceOfResting
<1>7. Embedded(r, q, h)
  OBVIOUS
<1> HIDE DEF q, r
<1> QED
  BY <1>1, <1>2, <1>5, <1>6, <1>7, FrontPartFalls

\* The shares of an order of a consistent book are not negative.
LEMMA ShareType ==
    ASSUME NEW b, BookOK(b), NEW id \in OrderId
    PROVE  Share(b, id) \in Nat
<1>1. b \in Book /\ FilledWithinQty(b)
  BY SoundByQueues DEF BookOK
<1>2. b.orders[id].filled \in Nat /\ b.orders[id].qty \in Nat
  BY <1>1 DEF Book, Order
<1> QED
  BY <1>1, <1>2 DEF Share, Leaves, FilledWithinQty

\* remove_order takes at most one order out of one queue.
LEMMA RemovedQueues ==
    ASSUME NEW b, BookOK(b), NEW c, NEW s \in Sides, NEW p \in Prices, NEW id \in OrderId,
           c.level = Removed(b.level, s, p, id), NEW t \in Sides, NEW u \in Prices
    PROVE  \/ Queue(c, t, u) = Queue(b, t, u)
           \/ \E k \in 1..Len(Queue(b, t, u)) : LeftOut(Queue(c, t, u), Queue(b, t, u), k)
<1> DEFINE q == Queue(b, s, p)
<1>1. b \in Book /\ QueuesSound(b)
  BY SoundByQueues DEF BookOK
<1>2. b.level \in [Sides -> [Prices -> Seq(OrderId)]]
  BY <1>1 DEF Book
<1>3. Queue(c, t, u) = IF t = s /\ u = p THEN RemoveFirst(q, id) ELSE Queue(b, t, u)
  BY <1>2 DEF Queue, Removed
<1>4. q \in Seq(OrderId) /\ NoRepeats(q)
  BY <1>1, <1>2 DEF Queue, QueuesSound
<1>5. CASE t = s /\ u = p /\ Queued(q, id)
  <2>1. PICK k \in 1..Len(q) : q[k] = id
    BY <1>4, <1>5 DEF Queued
  <2> HIDE DEF q
  <2>2. LeftOut(RemoveFirst(q, id), q, k)
    BY <1>4, <2>1, RemoveFirstLeavesOut
  <2> QED
    BY <1>3, <1>5, <2>1, <2>2 DEF q
<1>6. CASE t = s /\ u = p /\ ~Queued(q, id)
  <2>1. RemoveFirst(q, id) = q
    BY <1>6 DEF RemoveFirst, Queued
  <2> QED
    BY <1>3, <1>6, <2>1
<1>7. CASE ~(t = s /\ u = p)
  BY <1>3, <1>7
<1> QED
  BY <1>5, <1>6, <1>7

\* A queue that one order is not in is as deep as before what happened to it.
LEMMA OthersDepth ==
    ASSUME NEW b \in Book, NEW c \in Book, NEW q \in Seq(OrderId), NEW x, ~Queued(q, x),
           \A i \in OrderId : i # x => Share(c, i) = Share(b, i) /\ Share(b, i) \in Nat
    PROVE  Depth(c, q) <= Depth(b, q)
<1> DEFINE h == [i \in 1..Len(q) |-> i]
<1>1. /\ DOMAIN q = 1..Len(q) /\ Len(q) \in Nat
      /\ \A i \in 1..Len(q) : q[i] \in OrderId /\ q[i] # x
  BY ElementOfSeq, LenProperties DEF Queued
<1>2. h \in [1..Len(q) -> 1..Len(q)]
  OBVIOUS
<1>3. \A i, j \in 1..Len(q) : i < j => h[i] < h[j]
  OBVIOUS
<1>4. \A i \in 1..Len(q) : Share(c, q[i]) <= Share(b, q[h[i]]) /\ Share(b, q[i]) >= 0
  <2> TAKE i \in 1..Len(q)
  <2>1. Share(c, q[i]) = Share(b, q[i]) /\ Share(b, q[i]) \in Nat /\ h[i] = i
    BY <1>1
  <2> QED
    BY <2>1
<1> HIDE DEF h
<1> QED
  BY <1>2, <1>3, <1>4, DepthBelow

\* add gives an order the queue_pos it has, and moves nobody.
LEMMA AddAhead ==
    ASSUME NEW b, BookOK(b), NEW o \in Order, o.id \in OrderId, o.limit \in Prices,
           ~Resting(b, o.id), NEW c, c = Add(b, o), BookOK(c)
    PROVE  /\ SharesAhead(c, o.id) <= Ahead(b, o)
           /\ \A i \in OrderId : i # o.id /\ Resting(c, i) =>
                 Resting(b, i) /\ SharesAhead(c, i) <= SharesAhead(b, i)
<1>1. b \in Book /\ c \in Book /\ QueuesSound(b) /\ o.side \in Sides
  BY SoundByQueues DEF BookOK, Order
<1>2. /\ b.level \in [Sides -> [Prices -> Seq(OrderId)]] /\ b.orders \in [OrderId -> Order]
      /\ b.tag \in [OrderId -> Sides \cup {"None"}]
  BY <1>1 DEF Book
<1>3. ASSUME NEW t \in Sides, NEW u \in Prices
      PROVE  /\ Queue(b, t, u) \in Seq(OrderId)
             /\ ~Queued(Queue(b, t, u), o.id)
             /\ Queue(c, t, u) = IF t = o.side /\ u = o.limit
                                 THEN Append(Queue(b, t, u), o.id) ELSE Queue(b, t, u)
  <2>1. Queue(b, t, u) \in Seq(OrderId)
    BY <1>2 DEF Queue
  <2>2. ~Queued(Queue(b, t, u), o.id)
    BY <1>1 DEF QueuesSound, Resting, Sides
  <2>3. Queue(c, t, u) = IF t = o.side /\ u = o.limit
                         THEN Append(Queue(b, t, u), o.id) ELSE Queue(b, t, u)
    BY <1>1, <1>2 DEF Queue, Add
  <2> QED
    BY <2>1, <2>2, <2>3
<1>4. /\ c.tag[o.id] = o.side /\ c.orders[o.id] = o
      /\ \A i \in OrderId : i # o.id => c.tag[i] = b.tag[i] /\ c.orders[i] = b.orders[i]
                                /\ (i \in c.keys <=> i \in b.keys)
  BY <1>2 DEF Add
<1>5. \A i \in OrderId : i # o.id => Share(c, i) = Share(b, i) /\ Share(b, i) \in Nat
  BY <1>4, ShareType DEF Share
<1>6. SharesAhead(c, o.id) <= Ahead(b, o)
  <2> DEFINE q == Queue(b, o.side, o.limit)
             r == Queue(c, o.side, o.limit)
  <2>1. q \in Seq(OrderId) /\ ~Queued(q, o.id) /\ r = Append(q, o.id) /\ Len(q) \in Nat
    BY <1>1, <1>3, LenProperties
  <2>2. Resting(c, o.id)
    BY <1>1, <1>4 DEF Resting, Sides
  <2>3. r = Queue(c, c.tag[o.id], c.orders[o.id].limit)
    BY <1>4
  <2>4. Ahead(b, o) = Depth(b, q)
    BY DEF Ahead, Queue
  <2> HIDE DEF q, r
  <2>5. /\ r \in Seq(OrderId) /\ Len(r) = Len(q) + 1 /\ DOMAIN r = 1..Len(r)
        /\ r[Len(q) + 1] = o.id /\ \A i \in 1..Len(q) : r[i] = q[i]
    BY <2>1, AppendProperties, LenProperties
  <2>6. Len(q) + 1 \in 1..Len(r) /\ Len(q) + 1 - 1 = Len(q)
    BY <2>1, <2>5
  <2>7. SharesAhead(c, o.id) = Depth(c, SubSeq(r, 1, Len(q)))
    <3>1. PICK n : n = Len(q) + 1
      OBVIOUS
    <3>2. n \in DOMAIN r /\ r[n] = o.id
      BY <2>5, <2>6, <3>1
    <3>3. SharesAhead(c, o.id) = Depth(c, SubSeq(r, 1, n - 1))
      BY <2>2, <2>3, <3>2, PlaceOfResting
    <3> QED
      BY <2>6, <3>1, <3>3
  <2>8. SubSeq(r, 1, Len(q)) = q
    <3>1. /\ SubSeq(r, 1, Len(q)) \in Seq(OrderId) /\ Len(SubSeq(r, 1, Len(q))) = Len(q)
          /\ \A i \in 1..Len(q) : SubSeq(r, 1, Len(q))[i] = q[i]
      BY <2>5, <2>6, FrontPart
    <3>2. q \in Seq(OrderId)
      BY <2>1
    <3> QED
      BY <3>1, <3>2, SeqEqual
  <2> QED
    BY <1>1, <1>5, <2>1, <2>4, <2>7, <2>8, OthersDepth
<1>7. ASSUME NEW i \in OrderId, i # o.id, Resting(c, i)
      PROVE  Resting(b, i) /\ SharesAhead(c, i) <= SharesAhead(b, i)
  <2>1. Resting(b, i) /\ c.tag[i] = b.tag[i] /\ c.orders[i] = b.orders[i]
    BY <1>4, <1>7 DEF Resting
  <2> DEFINE q == Queue(b, b.tag[i], b.orders[i].limit)
             r == Queue(c, c.tag[i], c.orders[i].limit)
  <2>2. /\ b.tag[i] \in Sides /\ b.orders[i].limit \in Prices
        /\ q \in Seq(OrderId) /\ r \in Seq(OrderId)
    BY <1>7, <2>1, RestingPlace
  <2>3. PICK m \in 1..Len(q) : q[m] = i
    BY <2>1, RestingPlace
  <2>4. r = q \/ r = Append(q, o.id)
    BY <1>3, <2>1, <2>2
  <2>5. ~Queued(q, o.id)
    BY <1>3, <2>2
  <2> HIDE DEF q, r
  <2>6. m \in Nat /\ Len(q) \in Nat /\ m \in 1..Len(r) /\ \A j \in 1..Len(q) : r[j] = q[j]
    BY <2>2, <2>4, AppendProperties, LenProperties
  <2>7. m \in DOMAIN r /\ m \in DOMAIN q /\ r[m] = i
    BY <2>2, <2>3, <2>6
  <2>8. SharesAhead(c, i) = Depth(c, SubSeq(r, 1, m - 1))
    BY <1>7, <2>7, PlaceOfResting DEF r
  <2>9. SharesAhead(b, i) = Depth(b, SubSeq(q, 1, m - 1))
    BY <2>1, <2>3, <2>7, PlaceOfResting DEF q
  <2> DEFINE front == SubSeq(q, 1, m - 1)
  <2>10. /\ front \in Seq(OrderId) /\ Len(front) = m - 1
         /\ \A j \in 1..(m - 1) : front[j] = q[j]
    BY <2>2, FrontPart
  <2>11. SubSeq(r, 1, m - 1) = front
    <3>1. /\ SubSeq(r, 1, m - 1) \in Seq(OrderId) /\ Len(SubSeq(r, 1, m - 1)) = m - 1
          /\ \A j \in 1..(m - 1) : SubSeq(r, 1, m - 1)[j] = r[j]
      BY <2>2, <2>6, FrontPart
    <3> HIDE DEF front
    <3>2. \A j \in 1..(m - 1) : j \in 1..Len(q)
      BY <2>3, <2>6
    <3> QED
      BY <2>6, <2>10, <3>1, <3>2, SeqEqual
  <2>12. ~Queued(front, o.id)
    <3> HIDE DEF front
    <3>1. \A j \in 1..(m - 1) : j \in DOMAIN q
      BY <2>2, <2>3, <2>6
    <3>2. DOMAIN front = 1..(m - 1)
      BY <2>10
    <3> QED
      BY <2>5, <2>10, <3>1, <3>2 DEF Queued
  <2> HIDE DEF front
  <2> QED
    BY <1>1, <1>5, <2>1, <2>8, <2>9, <2>10, <2>11, <2>12, OthersDepth DEF front
<1> QED
  BY <1>6, <1>7

-----------------------------------------------------------------------------
(* What the updates preserve *)

\* add keeps a book consistent when the order has shares left and does not rest yet.
LEMMA AddOK ==
    ASSUME NEW b, BookOK(b), NEW o \in Order, o.id \in OrderId,
           ~Resting(b, o.id), o.limit \in Prices, o.filled < o.qty
    PROVE  BookOK(Add(b, o))
<1> DEFINE c  == Add(b, o)
           id == o.id
           q  == Queue(b, o.side, o.limit)
<1>1. b \in Book /\ QueuesSound(b) /\ TagsSound(b) /\ FilledWithinQty(b) /\ KeysSound(b)
  BY SoundByQueues DEF BookOK
<1>2. b.keys \subseteq OrderId /\ b.tag \in [OrderId -> Sides \cup {"None"}]
  BY <1>1 DEF Book
<1>3. o.side \in Sides /\ o.filled \in Nat /\ o.qty \in Nat
  BY DEF Order
<1>4. q \in Seq(OrderId)
  BY <1>1, <1>3 DEF Queue, Book
<1>5. /\ Append(q, id) \in Seq(OrderId)
      /\ Len(Append(q, id)) = Len(q) + 1
      /\ \A i \in 1..Len(q) : Append(q, id)[i] = q[i]
      /\ Append(q, id)[Len(q) + 1] = id
  BY <1>4, AppendProperties
<1>6. c \in Book
  <2>1. [b.level EXCEPT ![o.side][o.limit] = Append(@, id)]
            \in [Sides -> [Prices -> Seq(OrderId)]]
    BY <1>1, <1>3, <1>5 DEF Book, Queue
  <2>2. [b.tag EXCEPT ![id] = o.side] \in [OrderId -> Sides \cup {"None"}]
    BY <1>1, <1>3 DEF Book
  <2>3. [b.orders EXCEPT ![id] = o] \in [OrderId -> Order]
    BY <1>1 DEF Book
  <2> QED
    BY <1>1, <2>1, <2>2, <2>3 DEF Add, Book
<1>7. \A s \in Sides, p \in Prices :
          Queue(c, s, p) = IF s = o.side /\ p = o.limit THEN Append(q, id)
                           ELSE Queue(b, s, p)
  BY <1>1, <1>3 DEF Add, Queue, Book
<1>8. /\ c.keys = b.keys \cup {id}
      /\ c.tag[id] = o.side
      /\ c.orders[id] = o
      /\ \A i \in OrderId : i # id => c.tag[i] = b.tag[i]
      /\ \A i \in OrderId : i # id => c.orders[i] = b.orders[i]
  BY <1>1 DEF Add, Book
<1> HIDE DEF c
<1>9. \A x : Queued(Append(q, id), x) <=> Queued(q, x) \/ x = id
  BY <1>4, <1>5 DEF Queued
<1>10. \A s \in Sides, p \in Prices : ~Queued(Queue(b, s, p), id)
  BY <1>1 DEF QueuesSound, Resting, Sides
<1>11. NoRepeats(Append(q, id))
  <2> SUFFICES ASSUME NEW i \in 1..Len(q) + 1, NEW j \in 1..Len(q) + 1,
                      Append(q, id)[i] = Append(q, id)[j]
               PROVE  i = j
    BY <1>4, <1>5 DEF NoRepeats
  <2>1. \A k \in 1..Len(q) : q[k] # id
    BY <1>3, <1>4, <1>10 DEF Queued
  <2>2. NoRepeats(q)
    BY <1>1, <1>3 DEF QueuesSound
  <2> QED
    BY <1>4, <1>5, <2>1, <2>2 DEF NoRepeats
<1>12. QueuesSound(c)
  <2> SUFFICES ASSUME NEW s \in Sides, NEW p \in Prices
               PROVE  /\ NoRepeats(Queue(c, s, p))
                      /\ \A x : Queued(Queue(c, s, p), x) =>
                            /\ x \in c.keys
                            /\ c.tag[x] = s
                            /\ c.orders[x].limit = p
                            /\ c.orders[x].filled < c.orders[x].qty
    BY DEF QueuesSound
  <2>1. NoRepeats(Queue(c, s, p))
    BY <1>1, <1>7, <1>11 DEF QueuesSound
  <2>2. ASSUME NEW x, Queued(Queue(c, s, p), x)
        PROVE  /\ x \in c.keys
               /\ c.tag[x] = s
               /\ c.orders[x].limit = p
               /\ c.orders[x].filled < c.orders[x].qty
    <3>1. CASE x = id
      <4>1. s = o.side /\ p = o.limit
        BY <3>1, <2>2, <1>7, <1>10
      <4> QED
        BY <3>1, <4>1, <1>8
    <3>2. CASE x # id
      <4>1. Queued(Queue(b, s, p), x)
        BY <3>2, <2>2, <1>7, <1>9
      <4>2. /\ x \in b.keys
            /\ b.tag[x] = s
            /\ b.orders[x].limit = p
            /\ b.orders[x].filled < b.orders[x].qty
        BY <4>1, <1>1 DEF QueuesSound
      <4>3. x \in OrderId
        BY <4>2, <1>1 DEF Book
      <4> QED
        BY <3>2, <4>2, <4>3, <1>8
    <3> QED
      BY <3>1, <3>2
  <2> QED
    BY <2>1, <2>2
<1>13. TagsSound(c)
  <2> SUFFICES ASSUME NEW x \in OrderId, Resting(c, x)
               PROVE  /\ x \in c.keys
                      /\ c.orders[x].side = c.tag[x]
                      /\ c.orders[x].limit \in Prices
                      /\ Queued(Queue(c, c.tag[x], c.orders[x].limit), x)
    BY DEF TagsSound
  <2>1. CASE x = id
    BY <2>1, <1>3, <1>7, <1>8, <1>9
  <2>2. CASE x # id
    <3>1. c.tag[x] = b.tag[x] /\ c.orders[x] = b.orders[x] /\ c.tag[x] # "None"
      BY <2>2, <1>8 DEF Resting
    <3>2. Resting(b, x)
      BY <3>1 DEF Resting
    <3>3. /\ x \in b.keys
          /\ b.orders[x].side = b.tag[x]
          /\ b.orders[x].limit \in Prices
          /\ Queued(Queue(b, b.tag[x], b.orders[x].limit), x)
      BY <3>2, <1>1 DEF TagsSound
    <3>4. b.tag[x] \in Sides
      BY <3>1, <1>2
    <3>5. Queued(Queue(c, b.tag[x], b.orders[x].limit), x)
      BY <3>3, <3>4, <1>7, <1>9
    <3> QED
      BY <3>1, <3>3, <3>5, <1>8
  <2> QED
    BY <2>1, <2>2
<1>14. FilledWithinQty(c) /\ KeysSound(c)
  <2> SUFFICES ASSUME NEW x \in c.keys
               PROVE  /\ c.orders[x].filled <= c.orders[x].qty
                      /\ c.orders[x].id = x /\ c.orders[x].limit \in Prices
    BY DEF FilledWithinQty, KeysSound
  <2>1. CASE x = id
    BY <2>1, <1>3, <1>8
  <2>2. CASE x # id
    <3>1. x \in b.keys /\ x \in OrderId
      BY <2>2, <1>8, <1>2
    <3>2. c.orders[x] = b.orders[x]
      BY <3>1, <2>2, <1>8
    <3> QED
      BY <3>1, <3>2, <1>1 DEF FilledWithinQty, KeysSound
  <2> QED
    BY <2>1, <2>2
<1> QED
  BY <1>6, <1>12, <1>13, <1>14, SoundByQueues DEF BookOK, c

\* An id that leaves its queue and its tag, and perhaps orders_.
LEMMA TakenOutOK ==
    ASSUME NEW b, BookOK(b), NEW id \in OrderId,
           NEW s \in Sides, NEW p \in Prices,
           Resting(b, id) => b.tag[id] = s /\ b.orders[id].limit = p,
           NEW c \in Book,
           c.level = Removed(b.level, s, p, id),
           c.tag = [b.tag EXCEPT ![id] = "None"],
           c.keys \subseteq b.keys,
           b.keys \ {id} \subseteq c.keys,
           \A i \in OrderId : i # id => c.orders[i] = b.orders[i],
           id \in c.keys => /\ c.orders[id].id = id
                            /\ c.orders[id].limit \in Prices
                            /\ c.orders[id].filled <= c.orders[id].qty
    PROVE  BookOK(c)
<1> DEFINE q == Queue(b, s, p)
           r == RemoveFirst(q, id)
<1>1. b \in Book /\ QueuesSound(b) /\ TagsSound(b) /\ FilledWithinQty(b) /\ KeysSound(b)
  BY SoundByQueues DEF BookOK
<1>2. b.keys \subseteq OrderId /\ b.tag \in [OrderId -> Sides \cup {"None"}]
  BY <1>1 DEF Book
<1>3. q \in Seq(OrderId) /\ NoRepeats(q)
  BY <1>1 DEF Queue, Book, QueuesSound
<1>4. NoRepeats(r) /\ \A x : Queued(r, x) <=> Queued(q, x) /\ x # id
  BY <1>3, RemoveFirstTakesOut
<1>5. \A t \in Sides, u \in Prices :
          Queue(c, t, u) = IF t = s /\ u = p THEN r ELSE Queue(b, t, u)
  BY <1>1 DEF Removed, Queue, Book
<1>6. /\ c.tag[id] = "None"
      /\ \A i \in OrderId : i # id => c.tag[i] = b.tag[i]
  BY <1>2
<1> HIDE DEF q, r
<1>7. \A t \in Sides, u \in Prices : \A x :
          Queued(Queue(c, t, u), x) => Queued(Queue(b, t, u), x) /\ x # id
  <2> SUFFICES ASSUME NEW t \in Sides, NEW u \in Prices, NEW x,
                      Queued(Queue(c, t, u), x)
               PROVE  Queued(Queue(b, t, u), x) /\ x # id
    OBVIOUS
  <2>1. CASE t = s /\ u = p
    BY <2>1, <1>4, <1>5 DEF q
  <2>2. CASE ~(t = s /\ u = p)
    <3>1. Queued(Queue(b, t, u), x)
      BY <2>2, <1>5
    <3>2. b.tag[x] = t /\ b.orders[x].limit = u
      BY <3>1, <1>1 DEF QueuesSound
    <3>3. x # id
      BY <2>2, <3>2 DEF Resting, Sides
    <3> QED
      BY <3>1, <3>3
  <2> QED
    BY <2>1, <2>2
<1>8. QueuesSound(c)
  <2> SUFFICES ASSUME NEW t \in Sides, NEW u \in Prices
               PROVE  /\ NoRepeats(Queue(c, t, u))
                      /\ \A x : Queued(Queue(c, t, u), x) =>
                            /\ x \in c.keys
                            /\ c.tag[x] = t
                            /\ c.orders[x].limit = u
                            /\ c.orders[x].filled < c.orders[x].qty
    BY DEF QueuesSound
  <2>1. NoRepeats(Queue(c, t, u))
    BY <1>1, <1>4, <1>5 DEF QueuesSound
  <2>2. ASSUME NEW x, Queued(Queue(c, t, u), x)
        PROVE  /\ x \in c.keys
               /\ c.tag[x] = t
               /\ c.orders[x].limit = u
               /\ c.orders[x].filled < c.orders[x].qty
    <3>1. Queued(Queue(b, t, u), x) /\ x # id
      BY <2>2, <1>7
    <3>2. /\ x \in b.keys
          /\ b.tag[x] = t
          /\ b.orders[x].limit = u
          /\ b.orders[x].filled < b.orders[x].qty
      BY <3>1, <1>1 DEF QueuesSound
    <3>3. x \in c.keys /\ x \in OrderId
      BY <3>1, <3>2, <1>2
    <3> QED
      BY <3>1, <3>2, <3>3, <1>6
  <2> QED
    BY <2>1, <2>2
<1>9. TagsSound(c)
  <2> SUFFICES ASSUME NEW x \in OrderId, Resting(c, x)
               PROVE  /\ x \in c.keys
                      /\ c.orders[x].side = c.tag[x]
                      /\ c.orders[x].limit \in Prices
                      /\ Queued(Queue(c, c.tag[x], c.orders[x].limit), x)
    BY DEF TagsSound
  <2>1. x # id
    BY <1>6 DEF Resting
  <2>2. c.tag[x] = b.tag[x] /\ c.orders[x] = b.orders[x] /\ Resting(b, x)
    BY <2>1, <1>6 DEF Resting
  <2>3. /\ x \in b.keys
        /\ b.orders[x].side = b.tag[x]
        /\ b.orders[x].limit \in Prices
        /\ Queued(Queue(b, b.tag[x], b.orders[x].limit), x)
    BY <2>2, <1>1 DEF TagsSound
  <2>4. b.tag[x] \in Sides
    BY <2>2, <1>2 DEF Resting
  <2>5. Queued(Queue(c, b.tag[x], b.orders[x].limit), x)
    BY <2>1, <2>3, <2>4, <1>4, <1>5 DEF q
  <2> QED
    BY <2>1, <2>2, <2>3, <2>5
<1>10. FilledWithinQty(c) /\ KeysSound(c)
  <2> SUFFICES ASSUME NEW x \in c.keys
               PROVE  /\ c.orders[x].filled <= c.orders[x].qty
                      /\ c.orders[x].id = x /\ c.orders[x].limit \in Prices
    BY DEF FilledWithinQty, KeysSound
  <2>1. CASE x = id
    BY <2>1
  <2>2. CASE x # id
    <3>1. x \in b.keys /\ x \in OrderId /\ c.orders[x] = b.orders[x]
      BY <2>2, <1>2
    <3> QED
      BY <3>1, <1>1 DEF FilledWithinQty, KeysSound
  <2> QED
    BY <2>1, <2>2
<1> QED
  BY <1>8, <1>9, <1>10, SoundByQueues DEF BookOK

\* Nodes that are written and stay where they are.
LEMMA RelabelledOK ==
    ASSUME NEW b, BookOK(b), NEW orders \in [OrderId -> Order],
           \A i \in b.keys :
              /\ orders[i].id = b.orders[i].id
              /\ orders[i].side = b.orders[i].side
              /\ orders[i].limit = b.orders[i].limit
              /\ orders[i].filled <= orders[i].qty
              /\ Resting(b, i) => orders[i].filled < orders[i].qty
    PROVE  BookOK([b EXCEPT !.orders = orders])
<1> DEFINE c == [b EXCEPT !.orders = orders]
<1>1. b \in Book /\ QueuesSound(b) /\ TagsSound(b) /\ FilledWithinQty(b) /\ KeysSound(b)
  BY SoundByQueues DEF BookOK
<1>2. /\ c \in Book
      /\ c.level = b.level /\ c.tag = b.tag /\ c.keys = b.keys /\ c.orders = orders
  BY <1>1 DEF Book
<1> HIDE DEF c
<1>3. \A t, u : Queue(c, t, u) = Queue(b, t, u)
  BY <1>2 DEF Queue
<1>4. QueuesSound(c)
  <2> SUFFICES ASSUME NEW t \in Sides, NEW u \in Prices
               PROVE  /\ NoRepeats(Queue(b, t, u))
                      /\ \A x : Queued(Queue(b, t, u), x) =>
                            /\ x \in b.keys
                            /\ b.tag[x] = t
                            /\ orders[x].limit = u
                            /\ orders[x].filled < orders[x].qty
    BY <1>2, <1>3 DEF QueuesSound
  <2>1. NoRepeats(Queue(b, t, u))
    BY <1>1 DEF QueuesSound
  <2>2. ASSUME NEW x, Queued(Queue(b, t, u), x)
        PROVE  /\ x \in b.keys
               /\ b.tag[x] = t
               /\ orders[x].limit = u
               /\ orders[x].filled < orders[x].qty
    <3>1. x \in b.keys /\ b.tag[x] = t /\ b.orders[x].limit = u
      BY <2>2, <1>1 DEF QueuesSound
    <3>2. Resting(b, x)
      BY <3>1 DEF Resting, Sides
    <3> QED
      BY <3>1, <3>2
  <2> QED
    BY <2>1, <2>2
<1>5. TagsSound(c)
  BY <1>1, <1>2, <1>3 DEF TagsSound, Resting
<1>6. FilledWithinQty(c) /\ KeysSound(c)
  BY <1>1, <1>2 DEF FilledWithinQty, KeysSound
<1> QED
  BY <1>2, <1>4, <1>5, <1>6, SoundByQueues DEF BookOK, c

\* No order comes to rest, is requeued elsewhere or becomes a limit order.
StayPut(b, c) ==
    /\ c.keys \subseteq b.keys
    /\ \A i \in OrderId : Resting(c, i) =>
          /\ c.tag[i] = b.tag[i]
          /\ c.orders[i].limit = b.orders[i].limit
          /\ c.orders[i].type = "Limit" => b.orders[i].type = "Limit"

\* Besides, nothing moves ahead of an order that rests.
Settled(b, c) ==
    /\ StayPut(b, c)
    /\ \A i \in OrderId : Resting(c, i) => SharesAhead(c, i) <= SharesAhead(b, i)

\* Nothing moves ahead where queues keep their order and no order grows.
LEMMA QueuesSettle ==
    ASSUME NEW b, BookOK(b), NEW c, BookOK(c), StayPut(b, c),
           \A i \in OrderId : Share(c, i) <= Share(b, i),
           \A s \in Sides, p \in Prices :
               \/ Queue(c, s, p) = Queue(b, s, p)
               \/ \E k \in 1..Len(Queue(b, s, p)) : LeftOut(Queue(c, s, p), Queue(b, s, p), k)
    PROVE  Settled(b, c)
<1>1. SharesFall(b, c)
  BY ShareType DEF SharesFall
<1>2. ASSUME NEW i \in OrderId, Resting(c, i)
      PROVE  SharesAhead(c, i) <= SharesAhead(b, i)
  <2>1. c.tag[i] = b.tag[i] /\ c.orders[i].limit = b.orders[i].limit /\ Resting(b, i)
    BY <1>2 DEF StayPut, Resting
  <2> DEFINE q == Queue(b, b.tag[i], b.orders[i].limit)
             r == Queue(c, c.tag[i], c.orders[i].limit)
  <2>2. /\ q \in Seq(OrderId) /\ r \in Seq(OrderId)
        /\ b.tag[i] \in Sides /\ b.orders[i].limit \in Prices
    BY <1>2, <2>1, RestingPlace
  <2>3. r = q \/ \E k \in 1..Len(q) : LeftOut(r, q, k)
    BY <2>1, <2>2
  <2>4. \E h : Embedded(r, q, h)
    <3> HIDE DEF q, r
    <3> QED
      BY <2>2, <2>3, EmbeddedOrders
  <2> QED
    BY <1>1, <1>2, <2>1, <2>4, AheadFalls
<1> QED
  BY <1>2 DEF Settled

\* Nothing moves in a book that stays as it is.
LEMMA SettledRefl ==
    ASSUME NEW b, BookOK(b)
    PROVE  Settled(b, b)
BY SharesAheadType DEF Settled, StayPut

\* Two steps in which nothing moves ahead are one.
LEMMA SettledTrans ==
    ASSUME NEW a, BookOK(a), NEW b, BookOK(b), NEW c, BookOK(c), Settled(a, b), Settled(b, c)
    PROVE  Settled(a, c)
<1>1. StayPut(a, c)
  BY DEF Settled, StayPut, Resting
<1>2. ASSUME NEW i \in OrderId, Resting(c, i)
      PROVE  SharesAhead(c, i) <= SharesAhead(a, i)
  <2>1. Resting(b, i) /\ Resting(a, i)
    BY <1>2 DEF Settled, StayPut, Resting
  <2>2. /\ SharesAhead(c, i) <= SharesAhead(b, i)
        /\ SharesAhead(b, i) <= SharesAhead(a, i)
    BY <1>2, <2>1 DEF Settled
  <2> QED
    BY <1>2, <2>1, <2>2, SharesAheadType
<1> QED
  BY <1>1, <1>2 DEF Settled

\* A write through an Order* that leaves id, side and limit alone, and the ledger
\* within the quantity, keeps a book consistent and makes nothing rest.
LEMMA NodeWrittenOK ==
    ASSUME NEW b, BookOK(b), NEW id \in OrderId, NEW o \in Order,
           o.id = b.orders[id].id,
           o.side = b.orders[id].side,
           o.limit = b.orders[id].limit,
           id \in b.keys => o.filled <= o.qty /\ (Resting(b, id) => o.filled < o.qty),
           id \in b.keys => Leaves(o) <= Leaves(b.orders[id]),
           o.type = "Limit" => b.orders[id].type = "Limit"
    PROVE  /\ BookOK(Written(b, id, o))
           /\ Settled(b, Written(b, id, o))
<1> DEFINE orders == [b.orders EXCEPT ![id] = o]
           c      == [b EXCEPT !.orders = orders]
<1>1. b \in Book /\ QueuesSound(b) /\ FilledWithinQty(b)
  BY SoundByQueues DEF BookOK
<1>2. b.orders \in [OrderId -> Order] /\ b.keys \subseteq OrderId
  BY <1>1 DEF Book
<1>3. /\ orders \in [OrderId -> Order]
      /\ orders[id] = o
      /\ \A i \in OrderId : i # id => orders[i] = b.orders[i]
  BY <1>2
<1>4. /\ c = Written(b, id, o)
      /\ c.keys = b.keys /\ c.tag = b.tag /\ c.orders = orders
  BY <1>1 DEF Book, Written
<1> HIDE DEF orders
<1>5. \A i \in b.keys : Resting(b, i) => b.orders[i].filled < b.orders[i].qty
  <2> SUFFICES ASSUME NEW i \in b.keys, Resting(b, i)
               PROVE  b.orders[i].filled < b.orders[i].qty
    OBVIOUS
  <2>1. b.tag[i] \in Sides
    BY <1>1, <1>2 DEF Resting, Book
  <2>2. TagsSound(b)
    BY SoundByQueues DEF BookOK
  <2> QED
    BY <1>1, <1>2, <2>1, <2>2 DEF TagsSound, QueuesSound
<1>6. ASSUME NEW i \in b.keys
      PROVE  /\ orders[i].id = b.orders[i].id
             /\ orders[i].side = b.orders[i].side
             /\ orders[i].limit = b.orders[i].limit
             /\ orders[i].filled <= orders[i].qty
             /\ Resting(b, i) => orders[i].filled < orders[i].qty
  <2>1. CASE i = id
    BY <2>1, <1>3
  <2>2. CASE i # id
    BY <2>2, <1>1, <1>2, <1>3, <1>5 DEF FilledWithinQty
  <2> QED
    BY <2>1, <2>2
<1>7. BookOK(c)
  BY <1>3, <1>6, RelabelledOK
<1>8. Settled(b, c)
  <2>1. StayPut(b, c)
    BY <1>3, <1>4 DEF StayPut
  <2>2. \A t \in Sides, u \in Prices : Queue(c, t, u) = Queue(b, t, u)
    BY <1>1, <1>4 DEF Queue, Book, Written
  <2>3. \A i \in OrderId : Share(c, i) <= Share(b, i)
    <3> TAKE i \in OrderId
    <3>1. CASE i = id
      BY <1>2, <1>3, <1>4, <3>1 DEF Share, Leaves, Order
    <3>2. CASE i # id
      <4>1. Share(c, i) = Share(b, i)
        BY <1>3, <1>4, <3>2 DEF Share
      <4> QED
        BY <4>1, ShareType
    <3> QED
      BY <3>1, <3>2
  <2> QED
    BY <1>7, <2>1, <2>2, <2>3, QueuesSettle
<1> QED
  BY <1>4, <1>7, <1>8

\* cancel keeps a book consistent and leaves its order out of it.
LEMMA CancelledOK ==
    ASSUME NEW b, BookOK(b), NEW id \in OrderId, CanCancel(b, id)
    PROVE  /\ BookOK(Cancelled(b, id))
           /\ Settled(b, Cancelled(b, id))
           /\ ~Resting(Cancelled(b, id), id)
           /\ Cancelled(b, id).orders[id].id = b.orders[id].id
<1> DEFINE c == Cancelled(b, id)
           o == b.orders[id]
           n == [o EXCEPT !.status = "Cancelled"]
<1>1. b \in Book /\ TagsSound(b)
  BY SoundByQueues DEF BookOK
<1>2. b.tag[id] \in Sides /\ o.limit \in Prices
  BY <1>1 DEF CanCancel, Resting, Book, TagsSound
<1>3. b.level[b.tag[id]][o.limit] \in Seq(OrderId) /\ NoRepeats(b.level[b.tag[id]][o.limit])
  BY <1>1, <1>2, SoundByQueues DEF Book, BookOK, QueuesSound, Queue
<1>4. RemoveFirst(b.level[b.tag[id]][o.limit], id) \in Seq(OrderId)
  BY <1>3, RemoveFirstTakesOut
<1>5. o \in Order /\ n \in Order /\ n.id = o.id
  BY <1>1 DEF Book, Order, Status
<1>6. Removed(b.level, b.tag[id], o.limit, id) \in [Sides -> [Prices -> Seq(OrderId)]]
  BY <1>1, <1>2, <1>4 DEF Removed, Book
<1>7. [b.orders EXCEPT ![id].status = "Cancelled"] = [b.orders EXCEPT ![id] = n]
  OBVIOUS
<1>8. /\ c.level  = Removed(b.level, b.tag[id], o.limit, id)
      /\ c.tag    = [b.tag EXCEPT ![id] = "None"]
      /\ c.keys   = b.keys \ {id}
      /\ c.orders = [b.orders EXCEPT ![id] = n]
  BY <1>7 DEF Cancelled
<1>9. c \in Book
  <2>1. c.orders \in [OrderId -> Order]
    BY <1>1, <1>5, <1>8 DEF Book
  <2>2. c.tag \in [OrderId -> Sides \cup {"None"}]
    BY <1>1, <1>8 DEF Book
  <2>3. c.keys \in SUBSET OrderId
    BY <1>1, <1>8 DEF Book
  <2>4. c = [level |-> c.level, tag |-> c.tag, keys |-> c.keys, orders |-> c.orders]
    BY DEF Cancelled
  <2> QED
    BY <1>6, <1>8, <2>1, <2>2, <2>3, <2>4 DEF Book
<1>10. b.orders \in [OrderId -> Order] /\ b.tag \in [OrderId -> Sides \cup {"None"}]
  BY <1>1 DEF Book
<1>11. /\ c.orders[id] = n /\ c.tag[id] = "None"
       /\ \A i \in OrderId : i # id => c.orders[i] = b.orders[i]
       /\ \A i \in OrderId : i # id => c.tag[i] = b.tag[i]
  BY <1>8, <1>10
<1> HIDE DEF c, n
<1>12. BookOK(c)
  <2>1. id \notin c.keys /\ c.keys \subseteq b.keys /\ b.keys \ {id} \subseteq c.keys
    BY <1>8
  <2>2. PICK s \in Sides, p \in Prices : s = b.tag[id] /\ p = o.limit
    BY <1>2
  <2>3. c.level = Removed(b.level, s, p, id)
    BY <1>8, <2>2
  <2>4. Resting(b, id) => b.tag[id] = s /\ b.orders[id].limit = p
    BY <2>2
  <2>5. c.tag = [b.tag EXCEPT ![id] = "None"] /\ c \in Book
    BY <1>8, <1>9
  <2>6. id \in c.keys => /\ c.orders[id].id = id
                         /\ c.orders[id].limit \in Prices
                         /\ c.orders[id].filled <= c.orders[id].qty
    BY <2>1
  <2>7. \A i \in OrderId : i # id => c.orders[i] = b.orders[i]
    BY <1>11
  <2> QED
    BY <2>1, <2>3, <2>4, <2>5, <2>6, <2>7, TakenOutOK
<1>13. Settled(b, c)
  <2>1. StayPut(b, c)
    BY <1>8, <1>11 DEF StayPut, Resting
  <2>2. PICK s \in Sides, p \in Prices : s = b.tag[id] /\ p = o.limit
    BY <1>2
  <2>3. c.level = Removed(b.level, s, p, id)
    BY <1>8, <2>2
  <2>4. \A i \in OrderId : Share(c, i) <= Share(b, i)
    <3> TAKE i \in OrderId
    <3>1. Share(b, i) \in Nat
      BY ShareType
    <3>2. CASE i = id
      <4>1. Share(c, i) = 0
        BY <1>8, <3>2 DEF Share
      <4> QED
        BY <3>1, <4>1
    <3>3. CASE i # id
      <4>1. Share(c, i) = Share(b, i)
        BY <1>8, <1>11, <3>3 DEF Share
      <4> QED
        BY <3>1, <4>1
    <3> QED
      BY <3>2, <3>3
  <2> HIDE DEF o
  <2> QED
    BY <1>12, <2>1, <2>3, <2>4, RemovedQueues, QueuesSettle
<1> QED
  BY <1>5, <1>11, <1>12, <1>13 DEF c, Resting

\* reduce_qty keeps a book consistent, however much it is told was executed.
LEMMA ReducedOK ==
    ASSUME NEW b, BookOK(b), NEW id \in OrderId, NEW executed \in Nat
    PROVE  /\ BookOK(Reduced(b, id, executed))
           /\ Settled(b, Reduced(b, id, executed))
<1> DEFINE o      == b.orders[id]
           sum    == o.filled + executed
           filled == IF sum < o.qty THEN sum ELSE o.qty
           full   == [o EXCEPT !.filled = filled, !.status = "Filled"]
           part   == [o EXCEPT !.filled = filled, !.status = "PartiallyFilled"]
           c      == Reduced(b, id, executed)
<1>1. /\ b \in Book /\ QueuesSound(b) /\ TagsSound(b)
      /\ FilledWithinQty(b) /\ KeysSound(b)
  BY SoundByQueues DEF BookOK
<1>2. /\ b.orders \in [OrderId -> Order]
      /\ b.tag \in [OrderId -> Sides \cup {"None"}]
      /\ o \in Order
  BY <1>1 DEF Book
<1>3. o.qty \in Nat /\ o.filled \in Nat /\ filled \in Nat /\ filled <= o.qty
  BY <1>2 DEF Order
<1>4. /\ full \in Order
      /\ full.id = o.id /\ full.side = o.side /\ full.limit = o.limit
      /\ full.type = o.type /\ full.filled = filled /\ full.qty = o.qty
  BY <1>2, <1>3 DEF Order, Status
<1>5. /\ part \in Order
      /\ part.id = o.id /\ part.side = o.side /\ part.limit = o.limit
      /\ part.type = o.type /\ part.filled = filled /\ part.qty = o.qty
  BY <1>2, <1>3 DEF Order, Status
<1>6. CASE id \notin b.keys
  <2>1. c = b
    BY <1>6 DEF Reduced
  <2> QED
    BY <2>1, SettledRefl
<1>7. CASE id \in b.keys /\ filled >= o.qty
  <2>1. c = [level  |-> Removed(b.level, o.side, o.limit, id),
             tag    |-> [b.tag EXCEPT ![id] = "None"],
             keys   |-> b.keys,
             orders |-> [b.orders EXCEPT ![id] = full]]
    BY <1>7 DEF Reduced
  <2>2. PICK s \in Sides, p \in Prices : s = o.side /\ p = o.limit
    BY <1>1, <1>2, <1>7 DEF Order, KeysSound
  <2>3. b.level[s][p] \in Seq(OrderId) /\ NoRepeats(b.level[s][p])
    BY <1>1 DEF Book, QueuesSound, Queue
  <2>4. RemoveFirst(b.level[s][p], id) \in Seq(OrderId)
    BY <2>3, RemoveFirstTakesOut
  <2>5. Removed(b.level, s, p, id) \in [Sides -> [Prices -> Seq(OrderId)]]
    BY <1>1, <2>4 DEF Removed, Book
  <2>6. Resting(b, id) => b.tag[id] = s /\ b.orders[id].limit = p
    BY <1>1, <2>2 DEF TagsSound
  <2> HIDE DEF full, filled, c
  <2>7. /\ [b.orders EXCEPT ![id] = full] \in [OrderId -> Order]
        /\ [b.tag EXCEPT ![id] = "None"] \in [OrderId -> Sides \cup {"None"}]
        /\ b.keys \in SUBSET OrderId
    BY <1>1, <1>2, <1>4 DEF Book
  <2>8. c \in Book
    BY <2>1, <2>2, <2>5, <2>7 DEF Book
  <2>9. /\ c.level = Removed(b.level, s, p, id)
        /\ c.tag = [b.tag EXCEPT ![id] = "None"]
        /\ c.keys \subseteq b.keys
        /\ b.keys \ {id} \subseteq c.keys
    BY <2>1, <2>2
  <2>10. c.orders = [b.orders EXCEPT ![id] = full]
    BY <2>1
  <2>11. c.orders[id] = full /\ \A i \in OrderId : i # id => c.orders[i] = b.orders[i]
    BY <2>10, <1>2
  <2>12. id \in c.keys => /\ c.orders[id].id = id
                          /\ c.orders[id].limit \in Prices
                          /\ c.orders[id].filled <= c.orders[id].qty
    BY <1>1, <1>3, <1>4, <1>7, <2>11 DEF KeysSound
  <2>13. \A i \in OrderId : i # id => c.orders[i] = b.orders[i]
    BY <2>11
  <2>14. BookOK(c)
    BY <2>6, <2>8, <2>9, <2>12, <2>13, TakenOutOK
  <2>15. c.tag[id] = "None" /\ \A i \in OrderId : i # id => c.tag[i] = b.tag[i]
    BY <1>2, <2>9
  <2>16. Settled(b, c)
    <3>1. StayPut(b, c)
      BY <2>9, <2>13, <2>15 DEF StayPut, Resting
    <3>2. \A i \in OrderId : Share(c, i) <= Share(b, i)
      <4> TAKE i \in OrderId
      <4>1. Share(b, i) \in Nat
        BY ShareType
      <4>2. CASE i = id
        <5>1. Share(c, i) = 0
          BY <1>3, <1>4, <1>7, <2>11, <4>2 DEF Share, Leaves
        <5> QED
          BY <4>1, <5>1
      <4>3. CASE i # id
        <5>1. Share(c, i) = Share(b, i)
          BY <2>1, <2>11, <4>3 DEF Share
        <5> QED
          BY <4>1, <5>1
      <4> QED
        BY <4>2, <4>3
    <3> QED
      BY <2>9, <2>14, <3>1, <3>2, RemovedQueues, QueuesSettle
  <2> QED
    BY <2>14, <2>16 DEF c
<1>8. CASE id \in b.keys /\ ~(filled >= o.qty)
  <2>1. c = Written(b, id, part)
    BY <1>8, <1>1 DEF Reduced, Book, Written
  <2>2. filled < o.qty
    BY <1>3, <1>8
  <2> HIDE DEF part, filled, c
  <2>3. /\ BookOK(Written(b, id, part))
        /\ Settled(b, Written(b, id, part))
    <3>1. o.filled <= filled
      BY <1>1, <1>3, <1>8 DEF filled, FilledWithinQty
    <3>2. Leaves(part) <= Leaves(o)
      BY <1>3, <1>5, <3>1 DEF Leaves
    <3> QED
      BY <1>3, <1>5, <2>2, <3>2, NodeWrittenOK
  <2> QED
    BY <2>1, <2>3 DEF c
<1> QED
  BY <1>6, <1>7, <1>8

-----------------------------------------------------------------------------
(* What a sweep finds at the front of a level *)

\* The front of an occupied level (sweep_contra's front order) is a known order with
\* shares left.
LEMMA FrontOK ==
    ASSUME NEW b, BookOK(b), NEW s \in Sides, NEW p \in Occupied(b, s)
    PROVE  /\ p \in Prices
           /\ Head(b.level[s][p]) \in b.keys
           /\ b.orders[Head(b.level[s][p])] \in Order
           /\ Leaves(b.orders[Head(b.level[s][p])]) > 0
<1>1. b \in Book /\ QueuesSound(b)
  BY SoundByQueues DEF BookOK
<1>2. p \in Prices /\ b.level[s][p] \in Seq(OrderId) /\ b.level[s][p] # << >>
  BY <1>1 DEF Occupied, Book
<1>3. Head(b.level[s][p]) = b.level[s][p][1] /\ 1 \in DOMAIN b.level[s][p]
  BY <1>2
<1> DEFINE id == Head(b.level[s][p])
<1>4. Queued(Queue(b, s, p), id)
  BY <1>3 DEF Queued, Queue
<1> HIDE DEF id
<1>5. id \in b.keys /\ b.orders[id].filled < b.orders[id].qty
  BY <1>1, <1>2, <1>4 DEF QueuesSound
<1>6. b.orders[id] \in Order
  BY <1>1, <1>5 DEF Book
<1>7. Leaves(b.orders[id]) > 0
  BY <1>5, <1>6 DEF Leaves, Order
<1> QED
  BY <1>2, <1>5, <1>6, <1>7 DEF id

-----------------------------------------------------------------------------
(* No update but add can make limit orders cross *)

\* Where nothing new rests, no new limit orders cross.
LEMMA SettledUncrossed ==
    ASSUME NEW b, NEW c, LimitsUncrossed(b), Settled(b, c)
    PROVE  LimitsUncrossed(c)
BY DEF LimitsUncrossed, Settled, StayPut, Resting

\* Resting an order that crosses no occupied contra level crosses no limit order.
LEMMA AddUncrossed ==
    ASSUME NEW b, BookOK(b), LimitsUncrossed(b),
           NEW o \in Order, o.id \in OrderId, o.limit \in Prices,
           o.type = "Limit" =>
               \A p \in Occupied(b, Contra(o.side)) : ~Crosses(o.side, o.limit, p)
    PROVE  LimitsUncrossed(Add(b, o))
<1> DEFINE c == Add(b, o)
           id == o.id
<1>1. b \in Book /\ TagsSound(b)
  BY SoundByQueues DEF BookOK
<1>2. b.tag \in [OrderId -> Sides \cup {"None"}] /\ b.orders \in [OrderId -> Order]
  BY <1>1 DEF Book
<1>3. /\ c.tag[id] = o.side /\ c.orders[id] = o
      /\ \A i \in OrderId : i # id => c.tag[i] = b.tag[i]
      /\ \A i \in OrderId : i # id => c.orders[i] = b.orders[i]
  BY <1>2 DEF Add
<1> HIDE DEF c
<1>4. ASSUME NEW i \in OrderId, Resting(b, i), b.tag[i] = Contra(o.side), o.type = "Limit"
      PROVE  b.orders[i].limit \in Prices /\ ~Crosses(o.side, o.limit, b.orders[i].limit)
  <2>1. /\ b.orders[i].limit \in Prices
        /\ Queued(Queue(b, b.tag[i], b.orders[i].limit), i)
    BY <1>1, <1>4 DEF TagsSound
  <2>2. b.level[Contra(o.side)][b.orders[i].limit] # << >>
    BY <1>4, <2>1 DEF Queued, Queue
  <2> QED
    BY <1>4, <2>1, <2>2 DEF Occupied
<1>5. Prices \subseteq Nat \ {0}
  BY BookAssumption
<1> SUFFICES ASSUME NEW i \in OrderId, NEW j \in OrderId,
                    c.tag[i] = "Buy", c.orders[i].type = "Limit",
                    c.tag[j] = "Sell", c.orders[j].type = "Limit"
             PROVE  c.orders[i].limit < c.orders[j].limit
  BY DEF LimitsUncrossed, c
<1>6. CASE i # id /\ j # id
  BY <1>3, <1>6 DEF LimitsUncrossed
<1>7. CASE i = id
  <2>1. j # id /\ o.side = "Buy" /\ o.type = "Limit"
    BY <1>3, <1>7
  <2>2. Resting(b, j) /\ b.tag[j] = Contra(o.side) /\ c.orders[j] = b.orders[j]
    BY <1>3, <2>1 DEF Resting, Contra
  <2>3. b.orders[j].limit \in Prices /\ ~Crosses(o.side, o.limit, b.orders[j].limit)
    BY <1>4, <2>1, <2>2
  <2>4. o.limit \in Nat /\ b.orders[j].limit \in Nat
    BY <1>5, <2>3
  <2>5. o.limit < b.orders[j].limit
    BY <2>1, <2>3, <2>4 DEF Crosses
  <2> QED
    BY <1>3, <1>7, <2>2, <2>5
<1>8. CASE j = id
  <2>1. i # id /\ o.side = "Sell" /\ o.type = "Limit"
    BY <1>3, <1>8
  <2>2. Resting(b, i) /\ b.tag[i] = Contra(o.side) /\ c.orders[i] = b.orders[i]
    BY <1>3, <2>1 DEF Resting, Contra
  <2>3. b.orders[i].limit \in Prices /\ ~Crosses(o.side, o.limit, b.orders[i].limit)
    BY <1>4, <2>1, <2>2
  <2>4. o.limit \in Nat /\ b.orders[i].limit \in Nat
    BY <1>5, <2>3
  <2>5. b.orders[i].limit < o.limit
    BY <2>1, <2>3, <2>4 DEF Crosses
  <2> QED
    BY <1>3, <1>8, <2>2, <2>5
<1> QED
  BY <1>6, <1>7, <1>8

-----------------------------------------------------------------------------
(* What a sweep could fill *)

\* The shares that an order of this side and limit could be filled with.
Supply(b, side, limit) ==
    MapThenSumSet(LAMBDA p : Depth(b, b.level[Contra(side)][p]), Reachable(b, side, limit))

\* sweep_contra's check counts the depths of the levels that the order may reach.
LEMMA AvailableOf ==
    ASSUME NEW b, NEW side, NEW limit, NEW need
    PROVE  Available(b, side, limit, need) = IF Supply(b, side, limit) < need
                                             THEN Supply(b, side, limit) ELSE need
BY Zenon DEF Available, Supply

\* The prices at which orders wait are finitely many.
LEMMA OccupiedFinite ==
    ASSUME NEW b, BookOK(b), NEW side \in Sides
    PROVE  IsFiniteSet(Occupied(b, side))
<1>1. b \in Book /\ QueuesSound(b)
  BY SoundByQueues DEF BookOK
<1> DEFINE limits == {b.orders[id].limit : id \in OrderId}
           f == [id \in OrderId |-> b.orders[id].limit]
<1>2. IsFiniteSet(OrderId)
  BY BookAssumption, FS_Interval DEF OrderId
<1>3. IsFiniteSet(limits)
  <2>1. f \in [OrderId -> limits] /\ \A p \in limits : \E id \in OrderId : f[id] = p
    OBVIOUS
  <2> HIDE DEF f, limits
  <2>2. f \in Surjection(OrderId, limits)
    BY <2>1 DEF Surjection
  <2> QED
    BY <1>2, <2>2, FS_Surjection
<1>4. ASSUME NEW p \in Occupied(b, side) PROVE p \in limits
  <2>1. p \in Prices /\ Queue(b, side, p) \in Seq(OrderId) /\ Queue(b, side, p) # << >>
    BY <1>1 DEF Occupied, Book, Queue
  <2>2. 1 \in DOMAIN Queue(b, side, p) /\ Queue(b, side, p)[1] \in OrderId
    BY <2>1
  <2>3. b.orders[Queue(b, side, p)[1]].limit = p
    BY <1>1, <2>1, <2>2 DEF QueuesSound, Queued
  <2> QED
    BY <2>2, <2>3
<1> QED
  BY <1>3, <1>4, FS_Subset

\* So are those that an order may reach.
LEMMA ReachableFinite ==
    ASSUME NEW b, BookOK(b), NEW side \in Sides, NEW limit
    PROVE  IsFiniteSet(Reachable(b, side, limit)) /\ Reachable(b, side, limit) \subseteq Prices
<1>1. IsFiniteSet(Occupied(b, Contra(side)))
  BY OccupiedFinite DEF Contra, Sides
<1>2. Reachable(b, side, limit) \subseteq Occupied(b, Contra(side))
  BY DEF Reachable
<1> QED
  BY <1>1, <1>2, FS_Subset DEF Occupied

Depths(b, side, S) == [p \in S |-> Depth(b, Queue(b, side, p))]

\* The depths of levels are numbers.
LEMMA DepthsType ==
    ASSUME NEW b, BookOK(b), NEW side \in Sides, NEW S, S \subseteq Prices
    PROVE  Depths(b, side, S) \in [S -> Int]
<1>1. ASSUME NEW p \in S PROVE Depth(b, Queue(b, side, p)) \in Int
  <2>1. b \in Book /\ Queue(b, side, p) \in Seq(OrderId)
    BY DEF BookOK, Book, Queue
  <2> QED
    BY <2>1, DepthType
<1> QED
  BY <1>1 DEF Depths

\* What could be filled is the total of the depths.
LEMMA SupplyIsTotal ==
    ASSUME NEW b, BookOK(b), NEW side \in Sides, NEW limit,
           NEW S, Reachable(b, side, limit) \subseteq S, IsFiniteSet(S), S \subseteq Prices,
           NEW T, TotalsOf(T, Depths(b, Contra(side), S), S)
    PROVE  Supply(b, side, limit) = T[Reachable(b, side, limit)]
<1> DEFINE R == Reachable(b, side, limit)
           c == Contra(side)
           Body(g) == [s \in SUBSET R |->
                         IF s = {} THEN 0
                         ELSE Depth(b, b.level[c][CHOOSE x \in s : TRUE])
                                  + g[s \ {CHOOSE x \in s : TRUE}]]
           f == CHOOSE g : g = Body(g)
           it == [s \in SUBSET R |-> T[s]]
           pick == [s \in (SUBSET R) \ {{}} |-> CHOOSE x \in s : TRUE]
<1>1. Supply(b, side, limit) = f[R]
  BY Zenon DEF Supply, MapThenSumSet, MapThenFoldSet
<1>2. c \in Sides
  BY DEF Contra, Sides
<1>3. ASSUME NEW s \in (SUBSET R) \ {{}}
      PROVE  /\ (CHOOSE x \in s : TRUE) \in s
             /\ T[s] = Depth(b, b.level[c][CHOOSE x \in s : TRUE]) + T[s \ {CHOOSE x \in s : TRUE}]
  <2>1. (CHOOSE x \in s : TRUE) \in s
    OBVIOUS
  <2>2. PICK x \in s : x = CHOOSE y \in s : TRUE
    BY <2>1
  <2>3. s \in SUBSET S /\ x \in S
    OBVIOUS
  <2>4. T[s] = Depths(b, c, S)[x] + T[s \ {x}]
    BY <2>3 DEF TotalsOf
  <2>5. Depths(b, c, S)[x] = Depth(b, b.level[c][x])
    BY <2>3 DEF Depths, Queue
  <2> QED
    BY <2>1, <2>2, <2>4, <2>5
<1>4. it = Body(it)
  <2> HIDE DEF R, c
  <2>1. \A s \in SUBSET R : it[s] = Body(it)[s]
    <3> TAKE s \in SUBSET R
    <3>1. CASE s = {}
      BY <3>1 DEF TotalsOf
    <3>2. CASE s # {}
      BY <1>3, <3>2
    <3> QED
      BY <3>1, <3>2
  <2> QED
    BY <2>1
<1>5. f = Body(f)
  <2> HIDE DEF Body, it
  <2> QED
    BY <1>4
<1> HIDE DEF f
<1>6. Picks(pick, R)
  BY DEF Picks
<1>7. \A s \in (SUBSET R) \ {{}} :
          f[s] = Depth(b, b.level[c][CHOOSE x \in s : TRUE]) + f[s \ {CHOOSE x \in s : TRUE}]
  <2> HIDE DEF R
  <2> QED
    BY <1>5
<1>8. AgreeStepwise(f, T, R, pick)
  <2>1. f[{}] = T[{}]
    BY <1>5 DEF TotalsOf
  <2> HIDE DEF R
  <2>2. ASSUME NEW s \in (SUBSET R) \ {{}}, f[s \ {pick[s]}] = T[s \ {pick[s]}]
        PROVE  f[s] = T[s]
    <3>1. pick[s] = CHOOSE x \in s : TRUE
      OBVIOUS
    <3>2. T[s] = Depth(b, b.level[c][pick[s]]) + T[s \ {pick[s]}]
      BY Zenon, <1>3, <3>1
    <3>3. f[s] = Depth(b, b.level[c][pick[s]]) + f[s \ {pick[s]}]
      BY Zenon, <1>7, <3>1
    <3> HIDE DEF pick
    <3> QED
      BY <2>2, <3>2, <3>3
  <2> QED
    BY <2>1, <2>2 DEF AgreeStepwise
<1> HIDE DEF pick, Body
<1>9. IsFiniteSet(R)
  BY FS_Subset
<1>10. \A s \in SUBSET R : f[s] = T[s]
  BY <1>6, <1>8, <1>9, FoldUnique
<1>11. f[R] = T[R]
  <2>1. R \in SUBSET R
    OBVIOUS
  <2> HIDE DEF R
  <2> QED
    BY <1>10, <2>1
<1> QED
  BY <1>1, <1>11 DEF f, Body

\* Queues whose orders have the same shares are equally deep.
LEMMA DepthSame ==
    ASSUME NEW b \in Book, NEW c \in Book, NEW q \in Seq(OrderId),
           \A i \in 1..Len(q) : Share(c, q[i]) = Share(b, q[i])
    PROVE  Depth(c, q) = Depth(b, q)
<1>1. Len(q) \in Nat /\ Shares(b, q) \in [1..Len(q) -> Int]
  BY SharesType
<1>2. PICK T : SumsOf(T, Shares(b, q), Len(q))
  BY <1>1, SumsExist
<1>3. Shares(c, q) = Shares(b, q)
  BY DEF Shares
<1> QED
  BY <1>2, <1>3, DepthIsSum

\* An empty level has no depth.
LEMMA EmptyDepth ==
    ASSUME NEW b \in Book
    PROVE  Depth(b, << >>) = 0
<1>1. << >> \in Seq(OrderId) /\ Len(<< >>) = 0
  OBVIOUS
<1>2. PICK q \in Seq(OrderId) : q = << >> /\ Len(q) = 0
  BY <1>1
<1>3. Shares(b, q) \in [1..Len(q) -> Int]
  BY SharesType
<1>4. PICK T : SumsOf(T, Shares(b, q), Len(q))
  BY <1>2, <1>3, SumsExist
<1>5. T[0] = 0
  BY <1>4 DEF SumsOf
<1> QED
  BY <1>2, <1>4, <1>5, DepthIsSum

\* What can be filled is a number.
LEMMA SupplyType ==
    ASSUME NEW b, BookOK(b), NEW side \in Sides, NEW limit
    PROVE  Supply(b, side, limit) \in Int
<1> DEFINE S == Reachable(b, side, limit)
<1>1. Contra(side) \in Sides
  BY DEF Contra, Sides
<1>2. IsFiniteSet(S) /\ S \subseteq Prices /\ S \subseteq S
  BY ReachableFinite
<1> HIDE DEF S
<1>3. PICK T : TotalsOf(T, Depths(b, Contra(side), S), S)
  BY <1>1, <1>2, DepthsType, TotalsExist
<1>4. Supply(b, side, limit) = T[S]
  BY <1>2, <1>3, SupplyIsTotal DEF S
<1> QED
  BY <1>3, <1>4 DEF TotalsOf

\* Nothing can be filled where nothing can be reached.
LEMMA SupplyEmpty ==
    ASSUME NEW b, BookOK(b), NEW side \in Sides, NEW limit, Reachable(b, side, limit) = {}
    PROVE  Supply(b, side, limit) = 0
<1> DEFINE S == Reachable(b, side, limit)
<1>1. Contra(side) \in Sides
  BY DEF Contra, Sides
<1>2. IsFiniteSet(S) /\ S \subseteq Prices /\ S \subseteq S /\ S = {}
  BY FS_EmptySet
<1> HIDE DEF S
<1>3. PICK T : TotalsOf(T, Depths(b, Contra(side), S), S)
  BY <1>1, <1>2, DepthsType, TotalsExist
<1>4. Supply(b, side, limit) = T[S]
  BY <1>2, <1>3, SupplyIsTotal DEF S
<1> QED
  BY <1>2, <1>3, <1>4 DEF TotalsOf

\* What leaves the depth of one level d less, and other levels alone, leaves at
\* most d less to fill.
LEMMA SupplyLoses ==
    ASSUME NEW b, BookOK(b), NEW c, BookOK(c), NEW side \in Sides, NEW limit,
           NEW p0 \in Prices, NEW d \in Nat,
           \A p \in Prices : Queue(b, Contra(side), p) = << >> => Queue(c, Contra(side), p) = << >>,
           \A p \in Prices \ {p0} : Depth(c, Queue(c, Contra(side), p))
                                        = Depth(b, Queue(b, Contra(side), p)),
           Depth(c, Queue(c, Contra(side), p0)) = Depth(b, Queue(b, Contra(side), p0)) - d
    PROVE  Supply(c, side, limit) >= Supply(b, side, limit) - d
<1> DEFINE S == Reachable(b, side, limit)
           R == Reachable(c, side, limit)
           k == Contra(side)
           D == Depths(b, k, S)
           E == Depths(c, k, S)
<1>1. k \in Sides /\ b \in Book /\ c \in Book
  BY DEF Contra, Sides, BookOK
<1>2. IsFiniteSet(S) /\ S \subseteq Prices /\ S \subseteq S
  BY ReachableFinite
<1>3. R \subseteq S
  BY DEF Reachable, Occupied, Queue
<1>4. \A p \in S \ R : Queue(c, k, p) = << >>
  BY DEF Reachable, Occupied, Queue
<1> HIDE DEF S, R, k
<1>5. D \in [S -> Int] /\ E \in [S -> Int]
  BY <1>1, <1>2, DepthsType
<1>6. /\ \A p \in S : D[p] = Depth(b, Queue(b, k, p)) /\ E[p] = Depth(c, Queue(c, k, p))
  BY DEF Depths
<1>7. \A p \in S \ R : E[p] = 0
  BY <1>1, <1>4, <1>6, EmptyDepth
<1> HIDE DEF D, E
<1>8. PICK T : TotalsOf(T, D, S)
  BY <1>2, <1>5, TotalsExist
<1>9. PICK U : TotalsOf(U, E, S)
  BY <1>2, <1>5, TotalsExist
<1>10. Supply(b, side, limit) = T[S]
  BY <1>2, <1>8, SupplyIsTotal DEF S, D, k
<1>11. Supply(c, side, limit) = U[R]
  <2>1. TotalsOf(U, Depths(c, Contra(side), S), S)
    BY <1>9 DEF E, k
  <2> QED
    BY <1>2, <1>3, <2>1, SupplyIsTotal DEF R
<1>12. U[R] = U[S]
  BY <1>2, <1>3, <1>5, <1>7, <1>9, TotalWithout
<1>13. T[S] \in Int /\ U[S] \in Int
  BY <1>2, <1>8, <1>9 DEF TotalsOf
<1>14. U[S] >= T[S] - d
  <2>1. CASE p0 \in S
    <3>1. \A p \in S \ {p0} : E[p] = D[p]
      BY <1>2, <1>6 DEF k
    <3>2. U[S] = T[S] - D[p0] + E[p0]
      BY <1>2, <1>5, <1>8, <1>9, <2>1, <3>1, TotalLess
    <3>3. E[p0] = D[p0] - d /\ D[p0] \in Int
      BY <1>5, <1>6, <2>1 DEF k
    <3> QED
      BY <1>13, <3>2, <3>3
  <2>2. CASE p0 \notin S
    <3>1. \A p \in S : E[p] = D[p]
      BY <1>2, <1>6, <2>2 DEF k
    <3>2. T[S] = U[S]
      BY <1>2, <1>5, <1>8, <1>9, <3>1, TotalsSame
    <3> QED
      BY <1>13, <3>2
  <2> QED
    BY <2>1, <2>2
<1> QED
  BY <1>10, <1>11, <1>12, <1>14

\* What reduce_qty does to an order that rests with the shares that it takes.
LEMMA ReducedNode ==
    ASSUME NEW b, BookOK(b), NEW id \in OrderId, Resting(b, id),
           NEW qty \in Nat, qty <= Leaves(b.orders[id]),
           NEW c, c = Reduced(b, id, qty)
    PROVE  /\ id \in b.keys /\ c.keys = b.keys
           /\ c.orders[id].filled = b.orders[id].filled + qty
           /\ c.orders[id].qty = b.orders[id].qty
           /\ \A i \in OrderId : i # id => c.orders[i] = b.orders[i] /\ c.tag[i] = b.tag[i]
           /\ qty < Leaves(b.orders[id]) => c.tag = b.tag /\ c.level = b.level
           /\ qty = Leaves(b.orders[id]) =>
                 c.tag[id] = "None" /\ c.level = Removed(b.level, b.tag[id], b.orders[id].limit, id)
<1> DEFINE o == b.orders[id]
           sum == o.filled + qty
           filled == IF sum < o.qty THEN sum ELSE o.qty
           node(status) == [o EXCEPT !.filled = filled, !.status = status]
<1>1. /\ b \in Book /\ id \in b.keys /\ o.side = b.tag[id]
      /\ b.orders \in [OrderId -> Order] /\ b.tag \in [OrderId -> Sides \cup {"None"}] /\ o \in Order
  BY SoundByQueues DEF BookOK, TagsSound, Book
<1>2. o.qty \in Nat /\ o.filled \in Nat /\ Leaves(o) = o.qty - o.filled
  BY <1>1 DEF Order, Leaves
<1>3. filled = o.filled + qty /\ (filled >= o.qty <=> qty = Leaves(o))
  BY <1>2
<1>4. \A status : node(status).filled = filled /\ node(status).qty = o.qty
  BY <1>1 DEF Order
<1>5. CASE qty = Leaves(o)
  <2>1. c = [level  |-> Removed(b.level, o.side, o.limit, id),
             tag    |-> [b.tag EXCEPT ![id] = "None"],
             keys   |-> b.keys,
             orders |-> [b.orders EXCEPT ![id] = node("Filled")]]
    BY <1>1, <1>3, <1>5 DEF Reduced
  <2> HIDE DEF node, filled
  <2> QED
    BY <1>1, <1>2, <1>3, <1>4, <1>5, <2>1
<1>6. CASE qty < Leaves(o)
  <2>1. c = [b EXCEPT !.orders = [b.orders EXCEPT ![id] = node("PartiallyFilled")]]
    BY <1>1, <1>2, <1>3, <1>6 DEF Reduced, Book
  <2> HIDE DEF node, filled
  <2> QED
    BY <1>1, <1>2, <1>3, <1>4, <1>6, <2>1 DEF Book
<1> QED
  BY <1>2, <1>5, <1>6

\* It takes them off the depth of its level, and no other.
LEMMA ReducedDepths ==
    ASSUME NEW b, BookOK(b), NEW id \in OrderId, Resting(b, id),
           NEW qty \in Nat, qty <= Leaves(b.orders[id]),
           NEW c, c = Reduced(b, id, qty)
    PROVE  \A s \in Sides, p \in Prices :
             /\ Queue(b, s, p) = << >> => Queue(c, s, p) = << >>
             /\ Depth(c, Queue(c, s, p)) = Depth(b, Queue(b, s, p))
                   - (IF s = b.tag[id] /\ p = b.orders[id].limit THEN qty ELSE 0)
<1> DEFINE t == b.tag[id]
           u == b.orders[id].limit
<1>1. b \in Book /\ QueuesSound(b) /\ TagsSound(b) /\ BookOK(c) /\ c \in Book
  BY SoundByQueues, ReducedOK DEF BookOK
<1>2. t \in Sides /\ u \in Prices /\ Queued(Queue(b, t, u), id)
  BY <1>1 DEF TagsSound, Book, Resting
<1>3. /\ id \in b.keys /\ c.keys = b.keys
      /\ c.orders[id].filled = b.orders[id].filled + qty
      /\ c.orders[id].qty = b.orders[id].qty
      /\ \A i \in OrderId : i # id => c.orders[i] = b.orders[i]
  BY ReducedNode
<1>4. /\ qty < Leaves(b.orders[id]) => c.level = b.level
      /\ qty = Leaves(b.orders[id]) => c.level = Removed(b.level, t, u, id)
  BY ReducedNode
<1>5. qty = Leaves(b.orders[id]) =>
          \A s \in Sides, p \in Prices :
              Queue(c, s, p) = IF s = t /\ p = u THEN RemoveFirst(Queue(b, s, p), id)
                               ELSE Queue(b, s, p)
  <2> HIDE DEF t, u
  <2>1. b.level \in [Sides -> [Prices -> Seq(OrderId)]]
    BY <1>1 DEF Book
  <2> DEFINE L == Removed(b.level, t, u, id)
             w == [b.level[t] EXCEPT ![u] = RemoveFirst(b.level[t][u], id)]
  <2>2. L = [b.level EXCEPT ![t] = w]
    BY DEF Removed
  <2>3. \A p \in Prices : w[p] = IF p = u THEN RemoveFirst(b.level[t][u], id) ELSE b.level[t][p]
    BY <1>2, <2>1
  <2> HIDE DEF w
  <2>4. \A s \in Sides, p \in Prices :
            L[s][p] = IF s = t /\ p = u THEN RemoveFirst(b.level[s][p], id) ELSE b.level[s][p]
    BY <1>2, <2>1, <2>2, <2>3
  <2> HIDE DEF L
  <2> QED
    BY <1>4, <2>4 DEF Queue, L
<1>6. \A i \in OrderId : i # id => Share(c, i) = Share(b, i)
  BY <1>3 DEF Share
<1>7. Share(c, id) = Share(b, id) - qty /\ Share(b, id) = Leaves(b.orders[id]) /\ Share(b, id) \in Nat
  <2>1. b.orders[id].qty \in Nat /\ b.orders[id].filled \in Nat /\ Share(b, id) \in Nat
    BY <1>1, ShareType DEF Book, Order
  <2> QED
    BY <1>3, <2>1 DEF Share, Leaves
<1> SUFFICES ASSUME NEW s \in Sides, NEW p \in Prices
             PROVE  /\ Queue(b, s, p) = << >> => Queue(c, s, p) = << >>
                    /\ Depth(c, Queue(c, s, p)) = Depth(b, Queue(b, s, p))
                          - (IF s = t /\ p = u THEN qty ELSE 0)
  OBVIOUS
<1> DEFINE q == Queue(b, s, p)
           r == Queue(c, s, p)
<1>8. /\ q \in Seq(OrderId) /\ r \in Seq(OrderId) /\ NoRepeats(q)
      /\ DOMAIN q = 1..Len(q) /\ \A i \in 1..Len(q) : q[i] \in OrderId
  BY <1>1, ElementOfSeq, LenProperties DEF Book, Queue, QueuesSound
<1>9. Depth(b, q) \in Int
  BY <1>1, <1>8, DepthType
<1>10. CASE s = t /\ p = u
  <2>1. PICK k \in 1..Len(q) : q[k] = id
    BY <1>2, <1>8, <1>10 DEF Queued
  <2>2. \A i \in 1..Len(q) : i # k => q[i] # id
    BY <1>8, <2>1 DEF NoRepeats
  <2>3. \A i \in 1..Len(q) : i # k => Share(c, q[i]) = Share(b, q[i])
    BY <1>6, <1>8, <2>2
  <2>4. q # << >>
    BY <2>1
  <2>5. CASE qty < Leaves(b.orders[id])
    <3>1. r = q
      BY <1>4, <2>5 DEF Queue
    <3>2. Depth(c, q) = Depth(b, q) - qty
      BY <1>1, <1>7, <1>8, <2>1, <2>3, DepthLess
    <3> QED
      BY <1>10, <2>4, <3>1, <3>2
  <2>6. CASE qty = Leaves(b.orders[id])
    <3>1. r = RemoveFirst(q, q[k])
      BY <1>10, <1>5, <2>1, <2>6
    <3>2. LeftOut(r, q, k)
      BY <1>8, <3>1, RemoveFirstLeavesOut
    <3>3. Depth(c, r) = Depth(b, q) - Share(b, q[k])
      BY <1>1, <1>8, <2>3, <3>2, DepthWithout
    <3> QED
      BY <1>7, <1>10, <2>1, <2>4, <2>6, <3>3
  <2>7. qty < Leaves(b.orders[id]) \/ qty = Leaves(b.orders[id])
    BY <1>7
  <2> QED
    BY <2>5, <2>6, <2>7
<1>11. CASE ~(s = t /\ p = u)
  <2>1. r = q
    <3>1. CASE qty < Leaves(b.orders[id])
      BY <1>4, <3>1 DEF Queue
    <3>2. CASE qty = Leaves(b.orders[id])
      BY <1>11, <1>5, <3>2
    <3>3. qty < Leaves(b.orders[id]) \/ qty = Leaves(b.orders[id])
      BY <1>7
    <3> QED
      BY <3>1, <3>2, <3>3
  <2>2. \A i \in 1..Len(q) : q[i] # id
    BY <1>1, <1>8, <1>11 DEF QueuesSound, Queued
  <2>3. \A i \in 1..Len(q) : Share(c, q[i]) = Share(b, q[i])
    BY <1>6, <1>8, <2>2
  <2>4. Depth(c, q) = Depth(b, q)
    BY <1>1, <1>8, <2>3, DepthSame
  <2>5. Depth(b, q) - (IF s = t /\ p = u THEN qty ELSE 0) = Depth(b, q)
    BY <1>9, <1>11
  <2> QED
    BY <2>1, <2>4, <2>5
<1> QED
  BY <1>10, <1>11

\* So it leaves at most that less to fill.
LEMMA ReducedSupply ==
    ASSUME NEW b, BookOK(b), NEW id \in OrderId, Resting(b, id),
           NEW qty \in Nat, qty <= Leaves(b.orders[id]),
           NEW side \in Sides, NEW limit
    PROVE  Supply(Reduced(b, id, qty), side, limit) >= Supply(b, side, limit) - qty
<1> DEFINE c == Reduced(b, id, qty)
           k == Contra(side)
           u == b.orders[id].limit
<1>1. BookOK(c) /\ k \in Sides /\ b.tag[id] \in Sides /\ u \in Prices
  BY ReducedOK, RestingPlace DEF Contra, Sides
<1>2. /\ \A p \in Prices : Queue(b, k, p) = << >> => Queue(c, k, p) = << >>
      /\ \A p \in Prices : Depth(c, Queue(c, k, p)) = Depth(b, Queue(b, k, p))
             - (IF k = b.tag[id] /\ p = u THEN qty ELSE 0)
  BY <1>1, ReducedDepths
<1>3. \A p \in Prices : Depth(b, Queue(b, k, p)) \in Int
  <2>1. b \in Book
    BY DEF BookOK
  <2> QED
    BY <1>1, <2>1, DepthType DEF Queue, Book
<1>4. PICK d \in Nat : d = IF k = b.tag[id] THEN qty ELSE 0
  OBVIOUS
<1>5. \A p \in Prices \ {u} : Depth(c, Queue(c, k, p)) = Depth(b, Queue(b, k, p))
  BY <1>2, <1>3
<1>6. Depth(c, Queue(c, k, u)) = Depth(b, Queue(b, k, u)) - d
  BY <1>1, <1>2, <1>4
<1> HIDE DEF c, u
<1>7. Supply(c, side, limit) >= Supply(b, side, limit) - d
  BY <1>1, <1>2, <1>5, <1>6, SupplyLoses DEF k
<1>8. Supply(c, side, limit) \in Int /\ Supply(b, side, limit) \in Int /\ d <= qty
  BY <1>1, <1>4, SupplyType
<1> QED
  BY <1>7, <1>8 DEF c

\* A write through an Order* that leaves quantities alone leaves as much to fill.
LEMMA WrittenSupply ==
    ASSUME NEW b, BookOK(b), NEW id \in OrderId, NEW n, BookOK(Written(b, id, n)),
           n.filled = b.orders[id].filled, n.qty = b.orders[id].qty,
           NEW side \in Sides, NEW limit
    PROVE  Supply(Written(b, id, n), side, limit) >= Supply(b, side, limit)
<1> DEFINE c == Written(b, id, n)
           k == Contra(side)
<1>1. k \in Sides /\ b \in Book /\ c \in Book
  BY DEF Contra, Sides, BookOK
<1>2. c.level = b.level /\ c.keys = b.keys /\ c.orders = [b.orders EXCEPT ![id] = n]
  BY <1>1 DEF Written, Book
<1> HIDE DEF c
<1>3. \A i \in OrderId : Share(c, i) = Share(b, i)
  BY <1>1, <1>2 DEF Share, Leaves, Book
<1>4. \A p \in Prices : Queue(c, k, p) = Queue(b, k, p)
  BY <1>2 DEF Queue
<1>5. ASSUME NEW p \in Prices
      PROVE  Depth(c, Queue(c, k, p)) = Depth(b, Queue(b, k, p)) /\ Depth(b, Queue(b, k, p)) \in Int
  <2>1. PICK q \in Seq(OrderId) : q = Queue(b, k, p)
    BY <1>1 DEF Queue, Book
  <2>2. \A i \in 1..Len(q) : q[i] \in OrderId
    BY ElementOfSeq
  <2>3. Depth(c, q) = Depth(b, q)
    BY <1>1, <1>3, <2>2, DepthSame
  <2> QED
    BY <1>1, <1>4, <2>1, <2>3, DepthType
<1>6. CASE \E p \in Prices : TRUE
  <2>1. PICK u \in Prices : TRUE
    BY <1>6
  <2>2. PICK d \in Nat : d = 0
    OBVIOUS
  <2>3. Depth(c, Queue(c, k, u)) = Depth(b, Queue(b, k, u)) - d
    BY <1>5, <2>2
  <2>4. Supply(c, side, limit) >= Supply(b, side, limit) - d
    BY <1>4, <1>5, <2>3, SupplyLoses DEF k, c
  <2>5. Supply(b, side, limit) \in Int
    BY SupplyType
  <2> QED
    BY <2>2, <2>4, <2>5 DEF c
<1>7. CASE Prices = {}
  <2>1. Reachable(b, side, limit) = {} /\ Reachable(c, side, limit) = {}
    BY <1>7 DEF Reachable, Occupied
  <2>2. Supply(b, side, limit) = 0 /\ Supply(c, side, limit) = 0
    BY <2>1, SupplyEmpty DEF c
  <2> QED
    BY <2>2 DEF c
<1> QED
  BY <1>6, <1>7

-----------------------------------------------------------------------------
(* What the calls in progress hold, and the theorems *)

\* Nothing got ahead of an order since it came to rest in a book.
InLine(b, pos) == \A id \in OrderId : Resting(b, id) => SharesAhead(b, id) <= pos[id]

\* Every book is consistent, uncrossed, knows only ids handed out, and lets
\* nothing jump a queue.
BooksInv ==
    /\ queuePos \in [OrderId -> Int]
    /\ \A s \in Symbols :
          /\ BookOK(book[s])
          /\ LimitsUncrossed(book[s])
          /\ \A id \in book[s].keys : id < nextId
          /\ InLine(book[s], queuePos)

\* A limit order that is being matched has an id of its own, and rests nowhere.
LimitFrameOK(f) ==
    /\ f.o.id \in OrderId
    /\ f.o.id < nextId
    /\ f.o.type = "Limit"
    /\ f.o.limit \in Prices
    /\ f.o.sym = f.sym
    /\ \A s \in Symbols : ~Resting(book[s], f.o.id)

FrameOK(f) ==
    /\ f.pc \in {"rest", "reduce"} => f.rest \in OrderId
    /\ f.pc = "activate" => f.o.id \in OrderId
    /\ f.pc \in {"trigger", "activate", "settled"} => f.op = "Tick"
    /\ f.op = "Limit" => LimitFrameOK(f)

Distinct(st) ==
    \A i, j \in 1..Len(st) :
        (st[i].op = "Limit" /\ st[j].op = "Limit" /\ st[i].o.id = st[j].o.id) => i = j

FramesOf(st) == {st[i] : i \in 1..Len(st)}

StackInv == (\A f \in FramesOf(stack) : FrameOK(f)) /\ Distinct(stack)

IInv == TypeOK /\ BooksInv /\ StackInv

-----------------------------------------------------------------------------
(* Initially *)

\* A default-constructed Order has the type of an order.
LEMMA NoOrderType == NoOrder \in Order
BY BookAssumption DEF NoOrder, Order, AnyId, AnyPrice, Sides, Types, Tif, Status

\* The invariant holds before any call.
LEMMA InitIInv == Init => IInv
<1> SUFFICES ASSUME Init PROVE IInv
  OBVIOUS
<1> USE DEF Init, EngineInit
<1>1. BooksInv
  <2>1. LimitsUncrossed(EmptyBook)
    BY DEF LimitsUncrossed, EmptyBook
  <2>2. EmptyBook.keys = {}
    BY DEF EmptyBook
  <2> QED
    BY <2>1, <2>2, EmptyBookOK DEF BooksInv, InLine, Resting, EmptyBook
<1>2. StackInv
  BY DEF StackInv, Distinct, FramesOf
<1>3. TypeOK
  <2>1. EmptyBook \in Book
    BY EmptyBookOK DEF BookOK
  <2>2. nextId \in 1..(MaxOrders + 1)
    BY BookAssumption
  <2> QED
    BY <2>1, <2>2, NoOrderType DEF TypeOK, Status
<1> QED
  BY <1>1, <1>2, <1>3 DEF IInv

-----------------------------------------------------------------------------
(* The call stack *)

\* The innermost call of a non-empty stack is a frame.
LEMMA TopType ==
    ASSUME TypeOK, stack # << >>
    PROVE  /\ Len(stack) \in Nat \ {0}
           /\ Top \in Frame
BY DEF TypeOK, Top

\* SetTop changes the innermost frame and no other.
LEMMA SetTopType ==
    ASSUME TypeOK, stack # << >>, NEW g \in Frame
    PROVE  /\ SetTop(g) \in Seq(Frame)
           /\ Len(SetTop(g)) = Len(stack)
           /\ SetTop(g)[Len(stack)] = g
           /\ \A i \in 1..Len(stack) : i # Len(stack) => SetTop(g)[i] = stack[i]
BY DEF TypeOK, SetTop

\* A return drops the innermost frame and keeps the others.
LEMMA ReturnType ==
    ASSUME TypeOK, stack # << >>
    PROVE  /\ Return \in Seq(Frame)
           /\ Len(Return) = Len(stack) - 1
           /\ \A i \in 1..Len(Return) : Return[i] = stack[i]
<1>1. stack \in Seq(Frame) /\ Len(stack) \in Nat \ {0}
  BY DEF TypeOK
<1>2. PICK n \in Nat : n = Len(stack) - 1
  BY <1>1
<1>3. \A i \in 1..n : stack[i] \in Frame
  BY <1>1, <1>2
<1>4. /\ SubSeq(stack, 1, n) \in Seq(Frame)
      /\ Len(SubSeq(stack, 1, n)) = IF 1 <= n THEN n - 1 + 1 ELSE 0
      /\ \A i \in 1..(n - 1 + 1) : SubSeq(stack, 1, n)[i] = stack[1 + i - 1]
  BY <1>3, SubSeqProperties
<1>5. Len(SubSeq(stack, 1, n)) = n /\ \A i \in 1..n : SubSeq(stack, 1, n)[i] = stack[i]
  BY <1>4
<1> QED
  BY <1>2, <1>4, <1>5 DEF Return

\* Books in which nothing comes to rest leave the calls in progress as they were.
BooksSettle == \A s \in Symbols : Settled(book[s], book'[s])

\* A frame stays good when ids grow and its limit order does not come to rest.
LEMMA FrameKept ==
    ASSUME NEW f, f \in Frame, FrameOK(f), nextId \in Nat, nextId' \in Nat, nextId <= nextId',
           f.op = "Limit" => \A s \in Symbols :
               Resting(book'[s], f.o.id) => Resting(book[s], f.o.id)
    PROVE  FrameOK(f)'
<1>1. OrderId \subseteq Nat
  BY BookAssumption DEF OrderId
<1>2. ASSUME f.op = "Limit"
      PROVE  LimitFrameOK(f)'
  <2>1. LimitFrameOK(f)
    BY <1>2 DEF FrameOK
  <2>2. f.o.id < nextId'
    BY <1>1, <2>1 DEF LimitFrameOK
  <2> QED
    BY <1>2, <2>1, <2>2 DEF LimitFrameOK
<1> QED
  BY <1>2 DEF FrameOK

\* Where no book lets anything new rest, what rests now rested before.
LEMMA SettledRests ==
    ASSUME BooksSettle, BooksInv, NEW id \in OrderId, NEW s \in Symbols, Resting(book'[s], id)
    PROVE  Resting(book[s], id)
BY DEF BooksSettle, Settled, StayPut, Resting

\* A frame stays good when no book lets anything new rest.
LEMMA SettledFrame ==
    ASSUME NEW f, f \in Frame, FrameOK(f), BooksInv, BooksSettle,
           nextId \in Nat, nextId' = nextId
    PROVE  FrameOK(f)'
<1>1. f.op = "Limit" => \A s \in Symbols : Resting(book'[s], f.o.id) => Resting(book[s], f.o.id)
  BY SettledRests DEF FrameOK, LimitFrameOK
<1> QED
  BY <1>1, FrameKept

\* The next order id is a number.
LEMMA NextIdType == ASSUME TypeOK PROVE nextId \in Nat
BY BookAssumption DEF TypeOK

\* All frames stay good when no book lets anything new rest.
LEMMA FramesKept ==
    ASSUME TypeOK, BooksInv, StackInv, BooksSettle, nextId' = nextId
    PROVE  \A f \in FramesOf(stack) : FrameOK(f)'
<1> SUFFICES ASSUME NEW f \in FramesOf(stack)
             PROVE  FrameOK(f)'
  OBVIOUS
<1>1. f \in Frame
  BY DEF TypeOK, FramesOf
<1>2. FrameOK(f)
  BY DEF StackInv
<1> QED
  BY <1>1, <1>2, SettledFrame, NextIdType

\* The stack stays good in a step that neither calls nor returns.
LEMMA StackUnchanged ==
    ASSUME TypeOK, BooksInv, StackInv, BooksSettle, nextId' = nextId, stack' = stack
    PROVE  StackInv' /\ stack' \in Seq(Frame)
<1>1. \A f \in FramesOf(stack) : FrameOK(f)'
  BY FramesKept
<1>2. FramesOf(stack') = FramesOf(stack) /\ Distinct(stack')
  BY DEF StackInv
<1>3. \A f \in FramesOf(stack') : FrameOK(f)'
  BY <1>1, <1>2
<1> QED
  BY <1>2, <1>3 DEF StackInv, TypeOK

\* The stack stays good in a return.
LEMMA StackReturns ==
    ASSUME TypeOK, BooksInv, StackInv, BooksSettle, nextId' = nextId,
           stack # << >>, stack' = Return
    PROVE  StackInv' /\ stack' \in Seq(Frame)
<1>1. \A f \in FramesOf(stack) : FrameOK(f)'
  BY FramesKept
<1>2. /\ stack' \in Seq(Frame) /\ Len(stack') \in Nat /\ Len(stack) \in Nat
      /\ Len(stack') <= Len(stack)
      /\ \A i \in 1..Len(stack') : stack'[i] = stack[i]
  BY ReturnType, TopType
<1>3. Distinct(stack')
  BY <1>2 DEF StackInv, Distinct
<1>4. FramesOf(stack') \subseteq FramesOf(stack)
  BY <1>2 DEF FramesOf
<1>5. \A f \in FramesOf(stack') : FrameOK(f)'
  BY <1>1, <1>4
<1> QED
  BY <1>2, <1>3, <1>5 DEF StackInv

\* The stack stays good when the innermost call moves on with the same order.
LEMMA StackSetTop ==
    ASSUME TypeOK, BooksInv, StackInv, BooksSettle, nextId' = nextId,
           stack # << >>, NEW g, g \in Frame, stack' = SetTop(g), FrameOK(g),
           g.op = "Limit" => Top.op = "Limit" /\ g.o.id = Top.o.id
    PROVE  StackInv' /\ stack' \in Seq(Frame)
<1>1. \A f \in FramesOf(stack) : FrameOK(f)'
  BY FramesKept
<1>2. FrameOK(g)'
  BY SettledFrame, NextIdType
<1>3. /\ stack' \in Seq(Frame) /\ Len(stack') = Len(stack) /\ Len(stack) \in Nat \ {0}
      /\ stack'[Len(stack)] = g
      /\ \A i \in 1..Len(stack) : i # Len(stack) => stack'[i] = stack[i]
  BY SetTopType, TopType
<1>4. FramesOf(stack') \subseteq FramesOf(stack) \cup {g}
  BY <1>3 DEF FramesOf
<1>5. \A f \in FramesOf(stack') : FrameOK(f)'
  BY <1>1, <1>2, <1>4
<1>6. \A i \in 1..Len(stack) : stack'[i].op = "Limit" =>
          stack[i].op = "Limit" /\ stack'[i].o.id = stack[i].o.id
  BY <1>3 DEF Top
<1>7. Distinct(stack')
  BY <1>3, <1>6 DEF StackInv, Distinct
<1> QED
  BY <1>3, <1>5, <1>7 DEF StackInv

-----------------------------------------------------------------------------
(* The books, and what callbacks tell *)

\* Where nothing moves ahead, nothing jumps the queue.
LEMMA SettledInLine ==
    ASSUME NEW b, BookOK(b), NEW c, BookOK(c), Settled(b, c),
           NEW pos \in [OrderId -> Int], InLine(b, pos)
    PROVE  InLine(c, pos)
<1> SUFFICES ASSUME NEW id \in OrderId, Resting(c, id)
             PROVE  SharesAhead(c, id) <= pos[id]
  BY DEF InLine
<1>1. Resting(b, id)
  BY DEF Settled, StayPut, Resting
<1>2. SharesAhead(b, id) <= pos[id] /\ SharesAhead(c, id) <= SharesAhead(b, id)
  BY <1>1 DEF InLine, Settled
<1>3. SharesAhead(b, id) \in Int /\ SharesAhead(c, id) \in Int
  BY <1>1, SharesAheadType
<1> QED
  BY <1>2, <1>3

\* The books stay good when one is replaced by a good one in which nothing new rests.
LEMMA BookSet ==
    ASSUME TypeOK, BooksInv, NEW s \in Symbols, NEW c, BookOK(c), Settled(book[s], c),
           book' = [book EXCEPT ![s] = c], nextId' = nextId, queuePos' = queuePos
    PROVE  BooksInv' /\ BooksSettle /\ book' \in [Symbols -> Book]
<1>1. book \in [Symbols -> Book]
  BY DEF TypeOK
<1>2. book'[s] = c /\ \A t \in Symbols : t # s => book'[t] = book[t]
  BY <1>1
<1>3. c \in Book /\ BookOK(book[s])
  BY DEF BookOK, BooksInv
<1>4. BooksSettle
  <2> SUFFICES ASSUME NEW t \in Symbols PROVE Settled(book[t], book'[t])
    BY DEF BooksSettle
  <2>1. CASE t = s
    BY <1>2, <2>1
  <2>2. CASE t # s
    BY <1>2, <2>2, SettledRefl DEF BooksInv
  <2> QED
    BY <2>1, <2>2
<1>5. LimitsUncrossed(c)
  BY SettledUncrossed DEF BooksInv
<1>6. \A id \in c.keys : id < nextId
  BY DEF BooksInv, Settled, StayPut
<1>7. InLine(c, queuePos)
  BY <1>3, SettledInLine DEF BooksInv
<1>8. ASSUME NEW t \in Symbols
      PROVE  BookOK(book'[t]) /\ LimitsUncrossed(book'[t])
                 /\ (\A id \in book'[t].keys : id < nextId') /\ InLine(book'[t], queuePos')
  <2>1. CASE t = s
    BY <1>2, <1>5, <1>6, <1>7, <2>1
  <2>2. CASE t # s
    BY <1>2, <2>2 DEF BooksInv
  <2> QED
    BY <2>1, <2>2
<1>9. BooksInv'
  BY <1>8 DEF BooksInv
<1> QED
  BY <1>1, <1>3, <1>4, <1>9

\* The books stay good in a step that leaves them alone.
LEMMA BooksSame ==
    ASSUME TypeOK, BooksInv, book' = book, nextId' = nextId, queuePos' = queuePos
    PROVE  BooksInv' /\ BooksSettle /\ book' \in [Symbols -> Book]
<1>1. BooksInv' /\ book' \in [Symbols -> Book]
  BY DEF TypeOK, BooksInv
<1>2. BooksSettle
  BY SettledRefl DEF BooksInv, BooksSettle
<1> QED
  BY <1>1, <1>2

\* A report keeps the type of what was reported.
LEMMA ReportType ==
    ASSUME TypeOK, NEW id, NEW status \in Status, Report(id, status)
    PROVE  reported' \in [OrderId -> Status \cup {"None"}]
BY DEF TypeOK, Report

\* A fill keeps the type of what was traded.
LEMMA FillType ==
    ASSUME TypeOK, NEW id, NEW qty \in Nat, FillEvent(id, qty)
    PROVE  traded' \in [OrderId -> Nat]
BY DEF TypeOK, FillEvent

\* What a step of the engine finds in the innermost frame, and in its book.
LEMMA TopOK ==
    ASSUME IInv, stack # << >>
    PROVE  Top \in Frame /\ FrameOK(Top) /\ Top.sym \in Symbols /\ Top.o \in Order
               /\ BookOK(book[Top.sym])
<1>1. Top \in Frame /\ Len(stack) \in Nat \ {0}
  BY TopType DEF IInv
<1>2. Top \in FramesOf(stack)
  BY <1>1 DEF Top, FramesOf
<1> QED
  BY <1>1, <1>2 DEF IInv, StackInv, BooksInv, Frame

-----------------------------------------------------------------------------
(* The engine's steps *)

\* The front order of a level a sweep may match has shares left, and so has the
\* aggressor: a match is never for 0 shares.
LEMMA MatchableFront ==
    ASSUME IInv, stack # << >>, NEW p \in Matchable(Top)
    PROVE  LET b == book[Top.sym]
               rest == Head(b.level[Contra(Top.o.side)][p])
           IN  /\ Leaves(Top.o) > 0
               /\ p \in Prices
               /\ rest \in OrderId
               /\ b.orders[rest] \in Order
               /\ Leaves(b.orders[rest]) > 0
<1> DEFINE b == book[Top.sym]
           c == Contra(Top.o.side)
<1>1. BookOK(b) /\ Top.o \in Order
  BY TopOK
<1>2. c \in Sides
  BY DEF Contra, Sides
<1>3. Leaves(Top.o) > 0 /\ p \in Occupied(b, c)
  BY DEF Matchable, Reachable
<1>4. b.keys \subseteq OrderId
  BY <1>1 DEF BookOK, Book
<1> QED
  BY <1>1, <1>2, <1>3, <1>4, FrontOK

\* The quantities of an order are numbers.
LEMMA OrderNumbers ==
    ASSUME NEW o \in Order
    PROVE  o.filled \in Nat /\ o.qty \in Nat /\ Leaves(o) \in Int
BY DEF Order, Leaves

\* Another status changes nothing else of an order.
LEMMA MarkedOK ==
    ASSUME NEW o \in Order, NEW status \in Status
    PROVE  LET n == Marked(o, status)
           IN  /\ n \in Order /\ n.id = o.id /\ n.side = o.side /\ n.limit = o.limit
               /\ n.type = o.type /\ n.filled = o.filled /\ n.qty = o.qty
               /\ n.status = status
BY DEF Marked, Order

\* A triggered stop keeps its id, side, limit and ledger.
LEMMA AsMarketOK ==
    ASSUME NEW o \in Order
    PROVE  LET n == AsMarket(o)
           IN  /\ n \in Order /\ n.id = o.id /\ n.side = o.side /\ n.limit = o.limit
               /\ n.type = "Market" /\ n.filled = o.filled /\ n.qty = o.qty
BY DEF AsMarket, Order, Types, Status

\* emit_fill adds to the ledger of an order and sets its status, nothing else.
LEMMA TradedOK ==
    ASSUME NEW o \in Order, NEW qty \in Nat
    PROVE  /\ Traded(o, qty) \in Order
           /\ Traded(o, qty).id = o.id /\ Traded(o, qty).limit = o.limit
           /\ Traded(o, qty).side = o.side
           /\ Traded(o, qty).status = IF o.filled + qty >= o.qty THEN "Filled"
                                       ELSE "PartiallyFilled"
           /\ Traded(o, qty).type = o.type /\ Traded(o, qty).sym = o.sym
           /\ Traded(o, qty).status \in Status
           /\ Traded(o, qty).filled = o.filled + qty /\ Traded(o, qty).qty = o.qty
<1> DEFINE status == IF o.filled + qty >= o.qty THEN "Filled" ELSE "PartiallyFilled"
           sum    == o.filled + qty
<1>1. Traded(o, qty) = [o EXCEPT !.filled = sum, !.status = status]
  BY DEF Traded, Order
<1>2. status \in Status
  BY DEF Status
<1>3. sum \in Nat
  BY OrderNumbers
<1>4. /\ Traded(o, qty) \in Order
      /\ Traded(o, qty).id = o.id /\ Traded(o, qty).limit = o.limit
      /\ Traded(o, qty).side = o.side /\ Traded(o, qty).status = status
      /\ Traded(o, qty).type = o.type /\ Traded(o, qty).sym = o.sym
      /\ Traded(o, qty).filled = sum /\ Traded(o, qty).qty = o.qty
  <2> HIDE DEF status, sum
  <2> QED
    BY <1>1, <1>2, <1>3 DEF Order
<1> QED
  BY <1>2, <1>4

\* A frame that enters a match keeps its call, with the order that traded.
LEMMA MatchedOK ==
    ASSUME NEW f \in Frame, NEW o \in Order, NEW rest \in OrderId, NEW px \in Prices,
           NEW qty \in Nat
    PROVE  LET g == Matched(f, o, rest, px, qty)
           IN  /\ g \in Frame /\ g.pc = "rest" /\ g.o = o /\ g.rest = rest
               /\ g.px = px /\ g.qty = qty
               /\ g.op = f.op /\ g.sym = f.sym /\ g.todo = f.todo
<1>1. rest \in AnyId /\ px \in AnyPrice /\ "rest" \in Pcs
  BY BookAssumption DEF AnyId, OrderId, AnyPrice, Pcs
<1> QED
  BY <1>1 DEF Frame, Matched

\* A frame that leaves a match keeps its call and its order.
LEMMA AfterMatchOK ==
    ASSUME NEW f \in Frame
    PROVE  LET g == AfterMatch(f)
           IN  /\ g \in Frame /\ g.pc = "sweep" /\ g.o = f.o
               /\ g.op = f.op /\ g.sym = f.sym /\ g.todo = f.todo
<1>1. 0 \in AnyId /\ 0 \in AnyPrice /\ "sweep" \in Pcs
  BY BookAssumption DEF AnyId, AnyPrice, Pcs
<1> QED
  BY <1>1 DEF Frame, AfterMatch

\* A frame that moves to another point keeps everything else.
LEMMA AtOK ==
    ASSUME NEW f \in Frame, NEW pc \in Pcs
    PROVE  LET g == At(f, pc)
           IN  /\ g \in Frame /\ g.pc = pc /\ g.o = f.o /\ g.rest = f.rest
               /\ g.px = f.px /\ g.qty = f.qty
               /\ g.op = f.op /\ g.sym = f.sym /\ g.todo = f.todo
BY DEF Frame, At

\* A frame that moves on with another order keeps its call.
LEMMA WithOK ==
    ASSUME NEW f \in Frame, NEW pc \in Pcs, NEW o \in Order
    PROVE  LET g == With(f, pc, o)
           IN  /\ g \in Frame /\ g.pc = pc /\ g.o = o /\ g.rest = f.rest
               /\ g.op = f.op /\ g.sym = f.sym /\ g.todo = f.todo
BY DEF Frame, With

\* A frame that is done with one stop keeps everything else.
LEMMA WithoutOK ==
    ASSUME NEW f \in Frame, NEW id
    PROVE  LET g == Without(f, id)
           IN  /\ g \in Frame /\ g.pc = f.pc /\ g.o = f.o /\ g.rest = f.rest
               /\ g.op = f.op /\ g.sym = f.sym /\ g.todo = f.todo \ {id}
BY DEF Frame, Without

\* A key's ledger: filled to at most its quantity, and less while it rests.
LEMMA LedgerOfKey ==
    ASSUME NEW b, BookOK(b), NEW id \in b.keys
    PROVE  /\ b.orders[id].filled <= b.orders[id].qty
           /\ Resting(b, id) => b.orders[id].filled < b.orders[id].qty
<1>1. b \in Book /\ QueuesSound(b) /\ TagsSound(b) /\ FilledWithinQty(b)
  BY SoundByQueues DEF BookOK
<1>2. id \in OrderId /\ (Resting(b, id) => b.tag[id] \in Sides)
  BY <1>1 DEF Resting, Book
<1> QED
  BY <1>1, <1>2 DEF FilledWithinQty, TagsSound, QueuesSound

\* What leaves the ledger alone leaves the shares left.
LEMMA SameLeaves ==
    ASSUME NEW m \in Order, NEW n \in Order, m.filled = n.filled, m.qty = n.qty
    PROVE  Leaves(m) <= Leaves(n)
BY DEF Order, Leaves

\* The aggressor's half of a match keeps the invariant.
LEMMA AggressorFillIInv ==
    ASSUME IInv, Continue(AggressorFill)
    PROVE  IInv'
<1> DEFINE f == Top
           b == book[f.sym]
<1>1. Running("sweep") /\ UNCHANGED <<book, stops, queuePos>> /\ UNCHANGED routerVars
  BY DEF Continue, AggressorFill
<1>2. stack # << >> /\ f.pc = "sweep"
  BY <1>1 DEF Running
<1>3. f \in Frame /\ FrameOK(f) /\ f.o \in Order
  BY <1>2, TopOK
<1> DEFINE rest(p) == Head(b.level[Contra(f.o.side)][p])
           room(p) == Leaves(b.orders[rest(p)])
           qty(p)  == IF Leaves(f.o) < room(p) THEN Leaves(f.o) ELSE room(p)
           g(p)    == Matched(f, Traded(f.o, qty(p)), rest(p), p, qty(p))
<1>4. PICK p \in Matchable(f) :
          /\ stack' = SetTop(g(p))
          /\ FillEvent(Traded(f.o, qty(p)).id, qty(p))
          /\ Report(Traded(f.o, qty(p)).id, Traded(f.o, qty(p)).status)
  BY DEF Continue, AggressorFill
<1>5. /\ Leaves(f.o) > 0 /\ p \in Prices /\ rest(p) \in OrderId
      /\ b.orders[rest(p)] \in Order /\ room(p) > 0
  BY <1>2, <1>4, MatchableFront
<1>6. Leaves(f.o) \in Int /\ room(p) \in Int
  BY <1>3, <1>5, OrderNumbers
<1> HIDE DEF room
<1>7. qty(p) \in Nat
  BY <1>5, <1>6
<1> HIDE DEF rest, qty
<1>8. /\ Traded(f.o, qty(p)) \in Order
      /\ Traded(f.o, qty(p)).id = f.o.id /\ Traded(f.o, qty(p)).limit = f.o.limit
      /\ Traded(f.o, qty(p)).type = f.o.type /\ Traded(f.o, qty(p)).sym = f.o.sym
      /\ Traded(f.o, qty(p)).status \in Status
  BY <1>3, <1>7, TradedOK
<1>9. /\ g(p) \in Frame /\ g(p).pc = "rest" /\ g(p).o = Traded(f.o, qty(p))
      /\ g(p).rest = rest(p) /\ g(p).op = f.op /\ g(p).sym = f.sym
  BY <1>3, <1>5, <1>7, <1>8, MatchedOK
<1> HIDE DEF g
<1>10. FrameOK(g(p))
  BY <1>3, <1>5, <1>8, <1>9 DEF FrameOK, LimitFrameOK
<1>11. BooksInv' /\ BooksSettle /\ book' \in [Symbols -> Book] /\ nextId' = nextId
  BY <1>1, BooksSame DEF IInv, routerVars
<1>12. StackInv' /\ stack' \in Seq(Frame)
  BY <1>2, <1>4, <1>8, <1>9, <1>10, <1>11, StackSetTop DEF IInv
<1>13. /\ reported' \in [OrderId -> Status \cup {"None"}]
       /\ traded' \in [OrderId -> Nat]
  BY <1>4, <1>7, <1>8, ReportType, FillType DEF IInv
<1> QED
  BY <1>1, <1>11, <1>12, <1>13 DEF IInv, TypeOK, routerVars

\* The resting half keeps it, even when it works on freed memory.
LEMMA RestingFillIInv ==
    ASSUME IInv, Continue(RestingFill)
    PROVE  IInv'
<1> DEFINE f == Top
           b == book[f.sym]
           node == b.orders[f.rest]
<1>1. /\ Running("rest") /\ UNCHANGED <<stops, queuePos>> /\ UNCHANGED routerVars
      /\ stack' = SetTop(At(f, "reduce"))
  BY DEF Continue, RestingFill
<1>2. stack # << >> /\ f.pc = "rest"
  BY <1>1 DEF Running
<1>3. f \in Frame /\ FrameOK(f) /\ f.sym \in Symbols /\ BookOK(b)
  BY <1>2, TopOK
<1>4. f.rest \in OrderId /\ f.qty \in Nat
  BY <1>2, <1>3 DEF FrameOK, Frame
<1>5. node \in Order
  BY <1>3, <1>4 DEF BookOK, Book
<1>6. PICK r \in IF f.rest \in b.keys THEN {node} ELSE DanglingRead(node) :
          /\ book' = [book EXCEPT ![f.sym] =
                        Written(@, f.rest, Marked(node, Traded(r, f.qty).status))]
          /\ FillEvent(r.id, f.qty)
          /\ Report(r.id, Traded(r, f.qty).status)
  BY DEF Continue, RestingFill
<1>7. r \in Order
  BY <1>5, <1>6, GarbageAssumption DEF DanglingRead
<1>8. PICK status \in Status : status = Traded(r, f.qty).status
  BY <1>4, <1>7, TradedOK
<1>9. PICK n \in Order : /\ n = Marked(node, status)
                         /\ n.id = node.id /\ n.side = node.side /\ n.limit = node.limit
                         /\ n.type = node.type /\ n.filled = node.filled /\ n.qty = node.qty
  BY <1>5, MarkedOK
<1>10. book' = [book EXCEPT ![f.sym] = Written(b, f.rest, n)]
  BY <1>6, <1>8, <1>9
<1>11. f.rest \in b.keys => n.filled <= n.qty /\ (Resting(b, f.rest) => n.filled < n.qty)
  BY <1>3, <1>4, <1>9, LedgerOfKey
<1>12. BookOK(Written(b, f.rest, n)) /\ Settled(b, Written(b, f.rest, n))
  BY <1>3, <1>4, <1>5, <1>9, <1>11, SameLeaves, NodeWrittenOK
<1>13. nextId' = nextId /\ queuePos' = queuePos
  BY <1>1 DEF routerVars
<1>14. BooksInv' /\ BooksSettle /\ book' \in [Symbols -> Book]
  BY <1>3, <1>10, <1>12, <1>13, BookSet DEF IInv
<1>15. PICK g \in Frame : /\ g = At(f, "reduce")
                          /\ g.pc = "reduce" /\ g.o = f.o /\ g.rest = f.rest
                          /\ g.op = f.op /\ g.sym = f.sym
  BY <1>3, AtOK DEF Pcs
<1>16. FrameOK(g)
  BY <1>3, <1>4, <1>15 DEF FrameOK, LimitFrameOK
<1>17. StackInv' /\ stack' \in Seq(Frame)
  BY <1>1, <1>2, <1>13, <1>14, <1>15, <1>16, StackSetTop DEF IInv
<1>18. /\ reported' \in [OrderId -> Status \cup {"None"}]
       /\ traded' \in [OrderId -> Nat]
  BY <1>4, <1>6, <1>8, ReportType, FillType DEF IInv
<1> QED
  BY <1>1, <1>14, <1>17, <1>18 DEF IInv, TypeOK, routerVars

\* The reduce_qty after a match keeps it, whatever the callbacks did.
LEMMA ReduceRestingIInv ==
    ASSUME IInv, Continue(ReduceResting)
    PROVE  IInv'
<1> DEFINE f == Top
           b == book[f.sym]
           c == Reduced(b, f.rest, f.qty)
<1>1. /\ Running("reduce") /\ UNCHANGED <<stops, queuePos, traded, reported>>
      /\ UNCHANGED routerVars
      /\ stack' = SetTop(AfterMatch(f))
      /\ book' = [book EXCEPT ![f.sym] = c]
  BY DEF Continue, ReduceResting
<1>2. stack # << >> /\ f.pc = "reduce"
  BY <1>1 DEF Running
<1>3. f \in Frame /\ FrameOK(f) /\ f.sym \in Symbols /\ BookOK(b)
  BY <1>2, TopOK
<1>4. f.rest \in OrderId /\ f.qty \in Nat
  BY <1>2, <1>3 DEF FrameOK, Frame
<1>5. BookOK(c) /\ Settled(b, c)
  BY <1>3, <1>4, ReducedOK
<1>6. nextId' = nextId /\ queuePos' = queuePos
  BY <1>1 DEF routerVars
<1> HIDE DEF c
<1>7. BooksInv' /\ BooksSettle /\ book' \in [Symbols -> Book]
  BY <1>1, <1>3, <1>5, <1>6, BookSet DEF IInv
<1>8. PICK g \in Frame : /\ g = AfterMatch(f) /\ g.pc = "sweep" /\ g.o = f.o
                         /\ g.op = f.op /\ g.sym = f.sym
  BY <1>3, AfterMatchOK
<1>9. FrameOK(g)
  BY <1>3, <1>8 DEF FrameOK, LimitFrameOK
<1>10. StackInv' /\ stack' \in Seq(Frame)
  BY <1>1, <1>2, <1>6, <1>7, <1>8, <1>9, StackSetTop DEF IInv
<1> QED
  BY <1>1, <1>7, <1>10 DEF IInv, TypeOK, routerVars

\* The ends of a call that leave the books alone.
LEMMA ReturnIInv ==
    ASSUME IInv, stack # << >>, stack' = Return,
           UNCHANGED <<book, stops, queuePos, traded>>, UNCHANGED routerVars,
           reported' \in [OrderId -> Status \cup {"None"}]
    PROVE  IInv'
<1>1. BooksInv' /\ BooksSettle /\ book' \in [Symbols -> Book] /\ nextId' = nextId
  BY BooksSame DEF IInv, routerVars
<1>2. StackInv' /\ stack' \in Seq(Frame)
  BY <1>1, StackReturns DEF IInv
<1> QED
  BY <1>1, <1>2 DEF IInv, TypeOK, routerVars

\* The end of match_market keeps it.
LEMMA FinishMarketIInv ==
    ASSUME IInv, Continue(FinishMarket)
    PROVE  IInv'
<1> DEFINE f == Top
<1>1. PICK status : /\ Report(f.o.id, status)
                    /\ status = IF Leaves(f.o) > 0 THEN "Cancelled" ELSE f.o.status
  BY DEF Continue, FinishMarket
<1>2. /\ SweepOver /\ f.op \in {"Market", "Tick"}
      /\ stack' = IF f.op = "Market" THEN Return ELSE SetTop(At(f, "settled"))
      /\ UNCHANGED <<book, stops, queuePos, traded>> /\ UNCHANGED routerVars
  BY DEF Continue, FinishMarket
<1>3. stack # << >>
  BY <1>2 DEF SweepOver, Running
<1>4. f \in Frame /\ FrameOK(f) /\ f.o \in Order
  BY <1>3, TopOK
<1>5. status \in Status
  BY <1>1, <1>4 DEF Order, Status
<1>6. reported' \in [OrderId -> Status \cup {"None"}]
  BY <1>1, <1>5, ReportType DEF IInv
<1>7. CASE f.op = "Market"
  BY <1>2, <1>3, <1>6, <1>7, ReturnIInv
<1>8. CASE f.op = "Tick"
  <2>1. BooksInv' /\ BooksSettle /\ book' \in [Symbols -> Book] /\ nextId' = nextId
    BY <1>2, BooksSame DEF IInv, routerVars
  <2>2. PICK g \in Frame : g = At(f, "settled") /\ g.pc = "settled" /\ g.op = f.op
    BY <1>4, AtOK DEF Pcs
  <2>3. FrameOK(g)
    BY <1>8, <2>2 DEF FrameOK
  <2>4. stack' = SetTop(g) /\ g.op # "Limit"
    BY <1>2, <1>8, <2>2
  <2>5. StackInv' /\ stack' \in Seq(Frame)
    BY <1>3, <2>1, <2>2, <2>3, <2>4, StackSetTop DEF IInv
  <2> QED
    BY <1>2, <1>6, <2>1, <2>5 DEF IInv, TypeOK, routerVars
<1> QED
  BY <1>2, <1>7, <1>8

\* The ends of IOC, FOK, filled limit orders and ticks keep it.
LEMMA FinishIInv ==
    ASSUME IInv, \/ Continue(FinishSilently) \/ Continue(FinishFok) \/ Continue(FinishTick)
    PROVE  IInv'
<1>1. CASE Continue(FinishSilently)
  BY <1>1, ReturnIInv DEF Continue, FinishSilently, SweepOver, Running, IInv, TypeOK
<1>2. CASE Continue(FinishFok)
  <2>1. stack # << >> /\ stack' = Return /\ Report(Top.o.id, Top.o.status)
        /\ UNCHANGED <<book, stops, queuePos, traded>> /\ UNCHANGED routerVars
    BY <1>2 DEF Continue, FinishFok, SweepOver, Running
  <2>2. Top.o.status \in Status
    BY <2>1, TopOK DEF Order
  <2>3. reported' \in [OrderId -> Status \cup {"None"}]
    BY <2>1, <2>2, ReportType DEF IInv
  <2> QED
    BY <2>1, <2>3, ReturnIInv
<1>3. CASE Continue(FinishTick)
  BY <1>3, ReturnIInv DEF Continue, FinishTick, AtTrigger, Running, IInv, TypeOK
<1> QED
  BY <1>1, <1>2, <1>3

\* Taking a stop off the watch list keeps it.
LEMMA TriggerStopIInv ==
    ASSUME IInv, Continue(TriggerStop)
    PROVE  IInv'
<1> DEFINE f == Top
           b == book[f.sym]
<1>1. PICK id \in f.todo :
          /\ stops' = [stops EXCEPT ![f.sym] = @ \ {id}]
          /\ IF id \in b.keys
             THEN /\ book'  = [book EXCEPT ![f.sym] = Written(@, id, AsMarket(b.orders[id]))]
                  /\ stack' = SetTop(With(Without(f, id), "activate", AsMarket(b.orders[id])))
                  /\ Report(id, "Triggered")
             ELSE /\ stack' = SetTop(At(Without(f, id), "trigger"))
                  /\ UNCHANGED <<book, reported>>
          /\ UNCHANGED <<queuePos, traded>>
  BY DEF Continue, TriggerStop
<1>2. AtTrigger /\ UNCHANGED routerVars
  BY DEF Continue, TriggerStop
<1>3. stack # << >> /\ f.pc \in {"trigger", "settled"}
  BY <1>2 DEF AtTrigger, Running
<1>4. f \in Frame /\ FrameOK(f) /\ f.sym \in Symbols /\ BookOK(b)
  BY <1>3, TopOK
<1>5. id \in OrderId /\ f.op = "Tick"
  BY <1>3, <1>4 DEF FrameOK, Frame
<1>6. stops' \in [Symbols -> SUBSET OrderId]
  BY <1>1 DEF IInv, TypeOK
<1>7. nextId' = nextId /\ queuePos' = queuePos
  BY <1>1, <1>2 DEF routerVars
<1>8. PICK h \in Frame : h = Without(f, id) /\ h.op = f.op /\ h.sym = f.sym
  BY <1>4, WithoutOK
<1>9. CASE id \in b.keys
  <2>1. b.orders[id] \in Order /\ b.orders[id].id = id
    BY <1>4, <1>5, <1>9 DEF BookOK, Book, KeysSound
  <2>2. PICK o \in Order : /\ o = AsMarket(b.orders[id])
                           /\ o.id = id /\ o.side = b.orders[id].side
                           /\ o.limit = b.orders[id].limit /\ o.type = "Market"
                           /\ o.filled = b.orders[id].filled /\ o.qty = b.orders[id].qty
    BY <2>1, AsMarketOK
  <2>3. /\ book'  = [book EXCEPT ![f.sym] = Written(b, id, o)]
        /\ stack' = SetTop(With(h, "activate", o))
        /\ Report(id, "Triggered")
        /\ UNCHANGED traded
    BY <1>1, <1>8, <1>9, <2>2
  <2>4. o.filled <= o.qty /\ (Resting(b, id) => o.filled < o.qty)
    BY <1>4, <1>9, <2>2, LedgerOfKey
  <2>5. BookOK(Written(b, id, o)) /\ Settled(b, Written(b, id, o))
    BY <1>4, <1>5, <2>1, <2>2, <2>4, SameLeaves, NodeWrittenOK
  <2>6. BooksInv' /\ BooksSettle /\ book' \in [Symbols -> Book]
    BY <1>4, <1>7, <2>3, <2>5, BookSet DEF IInv
  <2>7. PICK g \in Frame : g = With(h, "activate", o) /\ g.pc = "activate" /\ g.o = o
                              /\ g.op = h.op /\ g.sym = h.sym
    <3>1. "activate" \in Pcs
      BY DEF Pcs
    <3> QED
      BY <3>1, WithOK
  <2>8. FrameOK(g)
    BY <1>5, <1>8, <2>2, <2>7 DEF FrameOK
  <2>9. stack' = SetTop(g) /\ g.op # "Limit"
    BY <1>5, <1>8, <2>3, <2>7
  <2>10. StackInv' /\ stack' \in Seq(Frame)
    BY <1>3, <1>7, <2>6, <2>7, <2>8, <2>9, StackSetTop DEF IInv
  <2>11. reported' \in [OrderId -> Status \cup {"None"}]
    <3>1. "Triggered" \in Status
      BY DEF Status
    <3> QED
      BY <2>3, <3>1, ReportType DEF IInv
  <2> QED
    BY <1>2, <1>6, <2>3, <2>6, <2>10, <2>11 DEF IInv, TypeOK, routerVars
<1>10. CASE id \notin b.keys
  <2>1. stack' = SetTop(At(h, "trigger")) /\ UNCHANGED <<book, traded, reported>>
    BY <1>1, <1>8, <1>10
  <2>2. BooksInv' /\ BooksSettle /\ book' \in [Symbols -> Book]
    BY <1>7, <2>1, BooksSame DEF IInv
  <2>3. PICK g \in Frame : g = At(h, "trigger") /\ g.pc = "trigger" /\ g.op = h.op
    BY <1>8, AtOK DEF Pcs
  <2>4. FrameOK(g) /\ g.op # "Limit"
    BY <1>5, <1>8, <2>3 DEF FrameOK
  <2>5. stack' = SetTop(g)
    BY <2>1, <2>3
  <2>6. StackInv' /\ stack' \in Seq(Frame)
    BY <1>3, <1>7, <2>2, <2>3, <2>4, <2>5, StackSetTop DEF IInv
  <2> QED
    BY <1>2, <1>6, <2>1, <2>2, <2>6 DEF IInv, TypeOK, routerVars
<1> QED
  BY <1>9, <1>10

\* Taking a triggered stop out of the book keeps it, cancelled or not.
LEMMA ActivateStopIInv ==
    ASSUME IInv, Continue(ActivateStop)
    PROVE  IInv'
<1> DEFINE f  == Top
           id == f.o.id
           a  == book[f.sym]
           b  == IF CanCancel(a, id) THEN Cancelled(a, id) ELSE a
           o  == Marked(b.orders[id], "New")
<1>1. /\ Running("activate") /\ UNCHANGED <<stops, queuePos, traded, reported>>
      /\ UNCHANGED routerVars
      /\ book' = [book EXCEPT ![f.sym] = Written(b, id, o)]
      /\ \E r \in IF id \in b.keys THEN {o} ELSE DanglingRead(o) :
            stack' = SetTop(With(f, "sweep", r))
  BY DEF Continue, ActivateStop
<1>2. stack # << >> /\ f.pc = "activate"
  BY <1>1 DEF Running
<1>3. f \in Frame /\ FrameOK(f) /\ f.sym \in Symbols /\ BookOK(a)
  BY <1>2, TopOK
<1>4. id \in OrderId /\ f.op = "Tick"
  BY <1>2, <1>3 DEF FrameOK
<1> HIDE DEF id, a
<1>5. BookOK(b) /\ Settled(a, b)
  <2>1. CASE CanCancel(a, id)
    BY <1>3, <1>4, <2>1, CancelledOK
  <2>2. CASE ~CanCancel(a, id)
    BY <1>3, <2>2, SettledRefl
  <2> QED
    BY <2>1, <2>2
<1> HIDE DEF b
<1>6. b.orders[id] \in Order
  BY <1>4, <1>5 DEF BookOK, Book
<1>7. /\ o \in Order /\ o.id = b.orders[id].id /\ o.side = b.orders[id].side
      /\ o.limit = b.orders[id].limit /\ o.type = b.orders[id].type
      /\ o.filled = b.orders[id].filled /\ o.qty = b.orders[id].qty
  BY <1>6, MarkedOK DEF Status
<1>8. PICK r \in Order : stack' = SetTop(With(f, "sweep", r))
  BY <1>1, <1>7, GarbageAssumption DEF DanglingRead
<1> HIDE DEF o
<1>9. id \in b.keys => o.filled <= o.qty /\ (Resting(b, id) => o.filled < o.qty)
  BY <1>5, <1>7, LedgerOfKey
<1>10. BookOK(Written(b, id, o)) /\ Settled(b, Written(b, id, o))
  BY <1>4, <1>5, <1>6, <1>7, <1>9, SameLeaves, NodeWrittenOK
<1>11. Settled(a, Written(b, id, o))
  BY <1>3, <1>5, <1>10, SettledTrans DEF a
<1>12. nextId' = nextId /\ queuePos' = queuePos
  BY <1>1 DEF routerVars
<1>13. BooksInv' /\ BooksSettle /\ book' \in [Symbols -> Book]
  BY <1>1, <1>3, <1>10, <1>11, <1>12, BookSet DEF IInv, a
<1>14. PICK g \in Frame : g = With(f, "sweep", r) /\ g.pc = "sweep" /\ g.op = f.op
  BY <1>3, WithOK DEF Pcs
<1>15. FrameOK(g) /\ g.op # "Limit"
  BY <1>4, <1>14 DEF FrameOK
<1>16. StackInv' /\ stack' \in Seq(Frame)
  BY <1>2, <1>8, <1>12, <1>13, <1>14, <1>15, StackSetTop DEF IInv
<1> QED
  BY <1>1, <1>13, <1>16 DEF IInv, TypeOK, routerVars

-----------------------------------------------------------------------------
(* An order comes to rest *)

\* o is put into its book under an id that rests nowhere yet.
MayRest(o) ==
    /\ o \in Order
    /\ o.id \in OrderId
    /\ o.limit \in Prices
    /\ o.filled < o.qty
    /\ \A t \in Symbols : ~Resting(book[t], o.id)
    /\ o.type = "Limit" =>
          \A p \in Occupied(book[o.sym], Contra(o.side)) : ~Crosses(o.side, o.limit, p)

\* Queueing an order that crosses nothing keeps the books good; only it comes to rest.
LEMMA BookAdd ==
    ASSUME TypeOK, BooksInv, NEW o, MayRest(o), QueueUp(o),
           nextId' \in Nat, nextId <= nextId', o.id < nextId'
    PROVE  /\ BooksInv'
           /\ book' \in [Symbols -> Book]
           /\ \A t \in Symbols, id \in OrderId :
                 id # o.id /\ Resting(book'[t], id) => Resting(book[t], id)
<1> DEFINE s == o.sym
           c == Add(book[s], o)
<1>1. book \in [Symbols -> Book] /\ s \in Symbols
  BY DEF TypeOK, MayRest, Order
<1>2. BookOK(book[s]) /\ LimitsUncrossed(book[s])
  BY <1>1 DEF BooksInv
<1>3. BookOK(c)
  <2>1. /\ o \in Order /\ o.id \in OrderId /\ o.limit \in Prices /\ o.filled < o.qty
        /\ ~Resting(book[s], o.id)
    BY <1>1 DEF MayRest
  <2> QED
    BY <1>2, <2>1, AddOK
<1>4. LimitsUncrossed(c)
  BY <1>2, AddUncrossed DEF MayRest
<1>5. c.keys = book[s].keys \cup {o.id}
  BY DEF Add
<1>6. c.tag = [book[s].tag EXCEPT ![o.id] = o.side]
  BY DEF Add
<1>7. book' = [book EXCEPT ![s] = c]
  BY DEF QueueUp
<1> HIDE DEF c
<1>8. book'[s] = c /\ \A t \in Symbols : t # s => book'[t] = book[t]
  BY <1>1, <1>7
<1>9. c \in Book
  BY <1>3 DEF BookOK
<1>10. ASSUME NEW t \in Symbols, NEW id \in OrderId, id # o.id, Resting(book'[t], id)
       PROVE  Resting(book[t], id)
  <2>1. CASE t = s
    <3>1. book[s].tag \in [OrderId -> Sides \cup {"None"}]
      BY <1>1 DEF Book
    <3>2. c.tag[id] = book[s].tag[id]
      BY <1>6, <1>10, <3>1
    <3> QED
      BY <1>8, <1>10, <2>1, <3>2 DEF Resting
  <2>2. CASE t # s
    BY <1>8, <1>10, <2>2
  <2> QED
    BY <2>1, <2>2
<1>11. nextId \in Nat
  BY NextIdType
<1>12. /\ queuePos' \in [OrderId -> Int] /\ queuePos'[o.id] = Ahead(book[s], o)
       /\ \A id \in OrderId : id # o.id => queuePos'[id] = queuePos[id]
  <2>1. /\ queuePos' = [queuePos EXCEPT ![o.id] = Ahead(book[s], o)]
        /\ queuePos \in [OrderId -> Int] /\ o.id \in OrderId
    BY DEF QueueUp, BooksInv, MayRest
  <2>2. Ahead(book[s], o) \in Int
    <3>1. book[s].level \in [Sides -> [Prices -> Seq(OrderId)]] /\ book[s] \in Book
      BY <1>1 DEF Book
    <3>2. o.side \in Sides /\ o.limit \in Prices
      BY DEF MayRest, Order
    <3>3. book[s].level[o.side][o.limit] \in Seq(OrderId)
      BY <3>1, <3>2
    <3> QED
      BY <3>1, <3>3, DepthType DEF Ahead
  <2> QED
    BY <2>1, <2>2
<1>13. InLine(c, queuePos')
  <2>1. c = Add(book[s], o) /\ ~Resting(book[s], o.id)
    BY <1>1 DEF c, MayRest
  <2>2. /\ SharesAhead(c, o.id) <= Ahead(book[s], o)
        /\ \A i \in OrderId : i # o.id /\ Resting(c, i) =>
              Resting(book[s], i) /\ SharesAhead(c, i) <= SharesAhead(book[s], i)
    BY <1>2, <1>3, <2>1, AddAhead DEF MayRest
  <2>3. ASSUME NEW i \in OrderId, Resting(c, i)
        PROVE  SharesAhead(c, i) <= queuePos'[i]
    <3>1. CASE i = o.id
      BY <1>12, <2>2, <3>1
    <3>2. CASE i # o.id
      <4>1. /\ SharesAhead(c, i) <= SharesAhead(book[s], i)
            /\ SharesAhead(book[s], i) <= queuePos[i] /\ Resting(book[s], i)
        BY <1>1, <2>2, <2>3, <3>2 DEF BooksInv, InLine
      <4>2. SharesAhead(c, i) \in Int /\ SharesAhead(book[s], i) \in Int /\ queuePos[i] \in Int
        BY <1>2, <1>3, <2>3, <4>1, SharesAheadType DEF BooksInv
      <4> QED
        BY <1>12, <3>2, <4>1, <4>2
    <3> QED
      BY <3>1, <3>2
  <2> QED
    BY <2>3 DEF InLine
<1>14. ASSUME NEW t \in Symbols, t # s
       PROVE  InLine(book[t], queuePos')
  <2>1. ~Resting(book[t], o.id) /\ InLine(book[t], queuePos)
    BY DEF MayRest, BooksInv
  <2> QED
    BY <1>12, <2>1 DEF InLine
<1>15. ASSUME NEW t \in Symbols
       PROVE  BookOK(book'[t]) /\ LimitsUncrossed(book'[t])
                  /\ (\A id \in book'[t].keys : id < nextId') /\ InLine(book'[t], queuePos')
  <2>1. BookOK(book[t]) /\ LimitsUncrossed(book[t]) /\ \A id \in book[t].keys : id < nextId
    BY DEF BooksInv
  <2>2. \A id \in book[t].keys : id \in Nat
    BY <2>1, BookAssumption DEF BookOK, Book, OrderId
  <2>3. \A id \in book[t].keys : id < nextId'
    BY <1>11, <2>1, <2>2
  <2>4. CASE t = s
    BY <1>3, <1>4, <1>5, <1>8, <1>13, <2>3, <2>4
  <2>5. CASE t # s
    BY <1>8, <1>14, <2>1, <2>3, <2>5
  <2> QED
    BY <2>4, <2>5
<1>16. BooksInv'
  BY <1>12, <1>15 DEF BooksInv
<1> QED
  BY <1>1, <1>7, <1>9, <1>10, <1>16

\* Resting the residual of a limit order keeps the invariant.
LEMMA RestResidualIInv ==
    ASSUME IInv, Continue(RestResidual)
    PROVE  IInv'
<1> DEFINE f == Top
           o == f.o
<1>1. /\ Running("sweep") /\ Matchable(f) = {} /\ f.op = "Limit" /\ Leaves(o) > 0
      /\ QueueUp(o) /\ Report(o.id, o.status) /\ stack' = Return
      /\ UNCHANGED <<stops, traded>> /\ UNCHANGED routerVars
  BY DEF Continue, RestResidual, SweepOver
<1>2. stack # << >>
  BY <1>1 DEF Running
<1>3. f \in Frame /\ FrameOK(f) /\ f.sym \in Symbols /\ o \in Order
  BY <1>2, TopOK
<1>4. LimitFrameOK(f)
  BY <1>1, <1>3 DEF FrameOK
<1>5. Reachable(book[o.sym], o.side, o.limit) = {}
  BY <1>1, <1>4 DEF Matchable, PriceLimit, LimitFrameOK
<1>6. \A p \in Occupied(book[o.sym], Contra(o.side)) : ~Crosses(o.side, o.limit, p)
  BY <1>5 DEF Reachable
<1>7. o.filled < o.qty
  BY <1>1, <1>3 DEF Leaves, Order
<1>8. MayRest(o)
  BY <1>3, <1>4, <1>6, <1>7 DEF MayRest, LimitFrameOK
<1>9. nextId' = nextId /\ nextId \in Nat /\ o.id < nextId
  BY <1>1, <1>4, NextIdType DEF IInv, LimitFrameOK, routerVars
<1>10. /\ BooksInv'
       /\ book' \in [Symbols -> Book]
       /\ \A t \in Symbols, id \in OrderId :
             id # o.id /\ Resting(book'[t], id) => Resting(book[t], id)
  BY <1>1, <1>8, <1>9, BookAdd DEF IInv
<1>11. /\ stack' \in Seq(Frame) /\ Len(stack') = Len(stack) - 1 /\ Len(stack) \in Nat \ {0}
       /\ \A i \in 1..Len(stack') : stack'[i] = stack[i]
  BY <1>1, <1>2, ReturnType, TopType DEF IInv
<1>12. ASSUME NEW g \in FramesOf(stack')
       PROVE  FrameOK(g)'
  <2>1. PICK i \in 1..Len(stack') : g = stack'[i]
    BY DEF FramesOf
  <2>2. i \in 1..Len(stack) /\ i # Len(stack) /\ g = stack[i] /\ f = stack[Len(stack)]
    BY <1>11, <2>1 DEF Top
  <2>3. g \in Frame /\ FrameOK(g)
    BY <2>2 DEF IInv, TypeOK, StackInv, FramesOf
  <2>4. g.op = "Limit" => g.o.id # o.id
    BY <1>1, <1>11, <2>2 DEF IInv, StackInv, Distinct
  <2>5. g.op = "Limit" => g.o.id \in OrderId
    BY <2>3 DEF FrameOK, LimitFrameOK
  <2>6. g.op = "Limit" =>
            \A t \in Symbols : Resting(book'[t], g.o.id) => Resting(book[t], g.o.id)
    BY <1>10, <2>4, <2>5
  <2> QED
    BY <1>9, <2>3, <2>6, FrameKept
<1>13. Distinct(stack')
  BY <1>11 DEF IInv, StackInv, Distinct
<1>14. StackInv'
  BY <1>12, <1>13 DEF StackInv
<1>15. reported' \in [OrderId -> Status \cup {"None"}]
  BY <1>1, <1>3, ReportType DEF IInv, Order
<1> QED
  BY <1>1, <1>10, <1>11, <1>14, <1>15 DEF IInv, TypeOK, routerVars

-----------------------------------------------------------------------------
(* The client's steps *)

\* A step that only registers or reports keeps it.
LEMMA IdleIInv ==
    ASSUME IInv, UNCHANGED <<book, stops, queuePos, stack, traded, nextId, symbolOf, sent>>,
           registered' \in SUBSET Symbols, reported' \in [OrderId -> Status \cup {"None"}]
    PROVE  IInv'
<1>1. BooksInv' /\ BooksSettle /\ book' \in [Symbols -> Book]
  BY BooksSame DEF IInv
<1>2. StackInv' /\ stack' \in Seq(Frame)
  BY <1>1, StackUnchanged DEF IInv
<1> QED
  BY <1>1, <1>2 DEF IInv, TypeOK

\* Registering a symbol keeps it.
LEMMA RegisterSymbolIInv ==
    ASSUME IInv, NEW s \in Symbols, RegisterSymbol(s)
    PROVE  IInv'
BY IdleIInv DEF RegisterSymbol, IInv, TypeOK

\* Rejecting an invalid order keeps it.
LEMMA SubmitInvalidIInv ==
    ASSUME IInv, SubmitInvalid
    PROVE  IInv'
<1>1. Report(0, "Rejected") /\ "Rejected" \in Status
  BY DEF SubmitInvalid, Status
<1>2. reported' \in [OrderId -> Status \cup {"None"}]
  BY <1>1, ReportType DEF IInv
<1> QED
  BY <1>2, IdleIInv DEF SubmitInvalid, IInv, TypeOK

\* Whatever the submit_* overloads build is an order that has not traded.
LEMMA RequestType ==
    ASSUME NEW o \in Requests
    PROVE  o \in Order /\ o.filled = 0 /\ o.stop \in AnyPrice /\ o.limit \in AnyPrice
<1>1. 0..MaxQty \subseteq Nat /\ Tifs \subseteq Tif /\ 0 \in AnyPrice
  BY BookAssumption, RouterAssumption DEF AnyPrice
<1>2. ASSUME NEW s \in Symbols, NEW d \in Sides, NEW p \in AnyPrice, NEW q \in 0..MaxQty,
             NEW tif \in Tif
      PROVE  /\ MarketOrder(s, d, q) \in Order /\ MarketOrder(s, d, q).filled = 0
             /\ LimitOrder(s, d, p, q, tif) \in Order /\ LimitOrder(s, d, p, q, tif).filled = 0
             /\ StopOrder(s, d, p, q) \in Order /\ StopOrder(s, d, p, q).filled = 0
             /\ IocOrder(s, d, p, q) \in Order /\ IocOrder(s, d, p, q).filled = 0
             /\ FokOrder(s, d, p, q) \in Order /\ FokOrder(s, d, p, q).filled = 0
  <2>1. q \in Nat
    BY <1>1
  <2>2. NoOrder \in Order /\ NoOrder.filled = 0
    BY NoOrderType DEF NoOrder
  <2>3. {"Market", "Limit", "Stop", "IOC", "FOK"} \subseteq Types
    BY DEF Types
  <2>4. {"IOC", "FOK"} \subseteq Tif
    BY DEF Tif
  <2> HIDE DEF NoOrder
  <2>5. MarketOrder(s, d, q) \in Order /\ MarketOrder(s, d, q).filled = 0
    BY <2>1, <2>2, <2>3 DEF MarketOrder, Order
  <2>6. LimitOrder(s, d, p, q, tif) \in Order /\ LimitOrder(s, d, p, q, tif).filled = 0
    BY <2>1, <2>2, <2>3 DEF LimitOrder, Order
  <2>7. StopOrder(s, d, p, q) \in Order /\ StopOrder(s, d, p, q).filled = 0
    BY <2>1, <2>2, <2>3 DEF StopOrder, Order
  <2>8. IocOrder(s, d, p, q) \in Order /\ IocOrder(s, d, p, q).filled = 0
    BY <2>1, <2>2, <2>3, <2>4 DEF IocOrder, Order
  <2>9. FokOrder(s, d, p, q) \in Order /\ FokOrder(s, d, p, q).filled = 0
    BY <2>1, <2>2, <2>3, <2>4 DEF FokOrder, Order
  <2> QED
    BY <2>5, <2>6, <2>7, <2>8, <2>9
<1>3. o \in Order /\ o.filled = 0
  <2>1. \/ \E s \in Symbols, d \in Sides, q \in 0..MaxQty : o = MarketOrder(s, d, q)
        \/ \E s \in Symbols, d \in Sides, p \in AnyPrice, q \in 0..MaxQty, tif \in Tifs :
              o = LimitOrder(s, d, p, q, tif)
        \/ \E s \in Symbols, d \in Sides, p \in AnyPrice, q \in 0..MaxQty :
              \/ o = StopOrder(s, d, p, q)
              \/ o = IocOrder(s, d, p, q)
              \/ o = FokOrder(s, d, p, q)
    BY DEF Requests
  <2>2. Tifs \subseteq Tif /\ Tif # {} /\ 0 \in AnyPrice
    BY <1>1 DEF Tif
  <2>3. CASE \E s \in Symbols, d \in Sides, q \in 0..MaxQty : o = MarketOrder(s, d, q)
    BY <1>2, <2>2, <2>3
  <2>4. CASE \E s \in Symbols, d \in Sides, p \in AnyPrice, q \in 0..MaxQty, tif \in Tifs :
                o = LimitOrder(s, d, p, q, tif)
    BY <1>2, <2>2, <2>4
  <2>5. CASE \E s \in Symbols, d \in Sides, p \in AnyPrice, q \in 0..MaxQty :
                \/ o = StopOrder(s, d, p, q)
                \/ o = IocOrder(s, d, p, q)
                \/ o = FokOrder(s, d, p, q)
    BY <1>2, <2>2, <2>5
  <2> QED
    BY <2>1, <2>3, <2>4, <2>5
<1> QED
  BY <1>3 DEF Order

\* A positive price is one of the prices.
LEMMA PositivePrice ==
    ASSUME NEW p \in AnyPrice, p > 0
    PROVE  p \in Prices
BY DEF AnyPrice

\* A fresh id rests nowhere: books only know ids handed out.
LEMMA FreshRestsNowhere ==
    ASSUME TypeOK, BooksInv, NEW s \in Symbols, nextId \in OrderId
    PROVE  ~Resting(book[s], nextId)
<1>1. BookOK(book[s]) /\ \A id \in book[s].keys : id < nextId
  BY DEF BooksInv
<1>2. TagsSound(book[s])
  BY <1>1, SoundByQueues DEF BookOK
<1>3. nextId \notin book[s].keys
  BY <1>1, NextIdType
<1> QED
  BY <1>2, <1>3 DEF TagsSound

\* Only the books and the ids change, under an id that no call in progress has.
LEMMA FreshFrames ==
    ASSUME TypeOK, StackInv, nextId' = nextId + 1,
           \A t \in Symbols, id \in OrderId :
               id # nextId /\ Resting(book'[t], id) => Resting(book[t], id)
    PROVE  \A f \in FramesOf(stack) : FrameOK(f)'
<1> SUFFICES ASSUME NEW f \in FramesOf(stack)
             PROVE  FrameOK(f)'
  OBVIOUS
<1>1. f \in Frame /\ FrameOK(f)
  BY DEF TypeOK, StackInv, FramesOf
<1>2. nextId \in Nat /\ nextId' \in Nat /\ nextId <= nextId'
  BY NextIdType
<1>3. f.op = "Limit" => f.o.id \in OrderId /\ f.o.id # nextId
  BY <1>1, <1>2 DEF FrameOK, LimitFrameOK
<1>4. f.op = "Limit" =>
          \A s \in Symbols : Resting(book'[s], f.o.id) => Resting(book[s], f.o.id)
  BY <1>3
<1> QED
  BY <1>1, <1>2, <1>4, FrameKept

\* What a submission is given: a valid order under the next id.
Accepts(o) ==
    /\ o \in Order
    /\ o.id = nextId /\ nextId \in OrderId
    /\ o.filled = 0 /\ o.qty > 0
    /\ o.type \in {"Limit", "IOC", "FOK"} => o.limit \in Prices
    /\ o.type = "Stop" => o.stop \in Prices

\* Resting a stop at its stop price keeps books and stack good.
LEMMA RegisterStopIInv ==
    ASSUME IInv, NEW o, Accepts(o), o.type = "Stop", RegisterStop(o),
           nextId' = nextId + 1
    PROVE  /\ BooksInv' /\ book' \in [Symbols -> Book]
           /\ StackInv' /\ stack' \in Seq(Frame)
           /\ stops' \in [Symbols -> SUBSET OrderId]
           /\ reported' \in [OrderId -> Status \cup {"None"}]
           /\ traded' = traded
<1> DEFINE r == [o EXCEPT !.limit = o.stop]
<1>1. /\ QueueUp(r) /\ Report(o.id, o.status)
      /\ stops' = [stops EXCEPT ![o.sym] = @ \cup {o.id}]
      /\ UNCHANGED <<stack, traded>>
  BY DEF RegisterStop
<1>2. o.stop \in AnyPrice /\ o.stop \in Prices /\ o \in Order /\ o.id \in OrderId
  BY DEF Accepts, AnyPrice
<1>3. /\ r \in Order /\ r.id = nextId /\ r.limit \in Prices /\ r.sym = o.sym
      /\ r.filled = 0 /\ r.qty = o.qty /\ r.type = "Stop"
  BY <1>2 DEF Order, Accepts
<1> HIDE DEF r
<1>4. r.filled < r.qty /\ r.sym \in Symbols
  BY <1>2, <1>3 DEF Accepts, Order
<1>5. \A t \in Symbols : ~Resting(book[t], r.id)
  BY <1>2, <1>3, <1>4, FreshRestsNowhere DEF IInv, Accepts
<1>6. MayRest(r)
  BY <1>2, <1>3, <1>4, <1>5 DEF MayRest, Accepts
<1>7. nextId \in Nat /\ nextId' \in Nat /\ nextId <= nextId' /\ r.id < nextId'
  BY <1>3, NextIdType DEF IInv
<1>8. /\ BooksInv' /\ book' \in [Symbols -> Book]
      /\ \A t \in Symbols, id \in OrderId :
            id # r.id /\ Resting(book'[t], id) => Resting(book[t], id)
  BY <1>1, <1>6, <1>7, BookAdd DEF IInv
<1>9. \A f \in FramesOf(stack) : FrameOK(f)'
  BY <1>3, <1>8, FreshFrames DEF IInv
<1>10. StackInv' /\ stack' \in Seq(Frame)
  <2>1. FramesOf(stack') = FramesOf(stack) /\ Distinct(stack') /\ stack' \in Seq(Frame)
    BY <1>1 DEF IInv, StackInv, TypeOK
  <2>2. \A f \in FramesOf(stack') : FrameOK(f)'
    BY <1>9, <2>1
  <2> QED
    BY <2>1, <2>2 DEF StackInv
<1>11. stops' \in [Symbols -> SUBSET OrderId]
  BY <1>1, <1>2 DEF IInv, TypeOK
<1>12. reported' \in [OrderId -> Status \cup {"None"}]
  BY <1>1, <1>2, ReportType DEF IInv, Order
<1> QED
  BY <1>1, <1>8, <1>10, <1>11, <1>12

\* The stack stays good in a call under a fresh order.
LEMMA StackCalls ==
    ASSUME TypeOK, StackInv, \A f \in FramesOf(stack) : FrameOK(f)',
           NEW g, g \in Frame, FrameOK(g)', stack' = Append(stack, g),
           g.op = "Limit" =>
               \A f \in FramesOf(stack) : f.op = "Limit" => f.o.id # g.o.id
    PROVE  StackInv' /\ stack' \in Seq(Frame)
<1>1. /\ stack \in Seq(Frame) /\ Len(stack) \in Nat
      /\ stack' \in Seq(Frame) /\ Len(stack') = Len(stack) + 1
      /\ stack'[Len(stack) + 1] = g
      /\ \A i \in 1..Len(stack) : stack'[i] = stack[i]
  BY AppendProperties DEF TypeOK
<1>2. \A i \in 1..Len(stack') : stack'[i] = g \/ stack'[i] \in FramesOf(stack)
  BY <1>1 DEF FramesOf
<1>3. \A f \in FramesOf(stack') : FrameOK(f)'
  BY <1>2 DEF FramesOf
<1>4. Distinct(stack')
  <2> SUFFICES ASSUME NEW i \in 1..Len(stack'), NEW j \in 1..Len(stack'),
                      stack'[i].op = "Limit", stack'[j].op = "Limit",
                      stack'[i].o.id = stack'[j].o.id
               PROVE  i = j
    BY DEF Distinct
  <2>1. CASE i <= Len(stack) /\ j <= Len(stack)
    BY <1>1, <2>1 DEF StackInv, Distinct
  <2>2. CASE i <= Len(stack) /\ j = Len(stack) + 1
    <3>1. stack'[i] \in FramesOf(stack) /\ stack'[j] = g
      BY <1>1, <2>2 DEF FramesOf
    <3> QED
      BY <3>1
  <2>3. CASE j <= Len(stack) /\ i = Len(stack) + 1
    <3>1. stack'[j] \in FramesOf(stack) /\ stack'[i] = g
      BY <1>1, <2>3 DEF FramesOf
    <3> QED
      BY <3>1
  <2>4. CASE i = Len(stack) + 1 /\ j = Len(stack) + 1
    BY <2>4
  <2> QED
    BY <1>1, <2>1, <2>2, <2>3, <2>4
<1> QED
  BY <1>1, <1>3, <1>4 DEF StackInv

\* A new frame has the call it was made for.
LEMMA NewFrameOK ==
    ASSUME NEW s \in Symbols, NEW op \in Ops, NEW pc \in Pcs, NEW o \in Order,
           NEW todo \in SUBSET OrderId
    PROVE  LET g == NewFrame(s, op, pc, o, todo)
           IN  /\ g \in Frame /\ g.sym = s /\ g.op = op /\ g.pc = pc /\ g.o = o
               /\ g.todo = todo
<1>1. 0 \in AnyId /\ 0 \in AnyPrice
  BY BookAssumption DEF AnyId, AnyPrice
<1> QED
  BY <1>1 DEF NewFrame, Frame

\* Starting a sweep keeps books and stack good.
LEMMA StartSweepIInv ==
    ASSUME IInv, NEW o, Accepts(o), o.type \in {"Market", "Limit", "IOC", "FOK"},
           StartSweep(o), nextId' = nextId + 1
    PROVE  /\ BooksInv' /\ book' \in [Symbols -> Book]
           /\ StackInv' /\ stack' \in Seq(Frame)
           /\ stops' = stops /\ reported' = reported /\ traded' = traded
<1>1. /\ stack' = Append(stack, NewFrame(o.sym, o.type, "sweep", o, {}))
      /\ UNCHANGED <<book, stops, queuePos, traded, reported>>
  BY DEF StartSweep, Call
<1>2. o \in Order /\ o.sym \in Symbols /\ o.type \in Ops /\ "sweep" \in Pcs
  BY DEF Accepts, Order, Ops, Pcs
<1>3. PICK g \in Frame : /\ g = NewFrame(o.sym, o.type, "sweep", o, {})
                         /\ g.sym = o.sym /\ g.op = o.type /\ g.pc = "sweep" /\ g.o = o
  BY <1>2, NewFrameOK
<1>4. nextId \in Nat /\ nextId' \in Nat /\ nextId <= nextId' /\ nextId < nextId'
  BY NextIdType DEF IInv
<1>5. \A f \in FramesOf(stack) : FrameOK(f)'
  BY <1>1, FreshFrames DEF IInv
<1>6. FrameOK(g)'
  <2>1. ASSUME g.op = "Limit"
        PROVE  LimitFrameOK(g)'
    <3>1. o.type = "Limit" /\ o.limit \in Prices /\ o.id = nextId /\ o.id \in OrderId
      BY <1>3, <2>1 DEF Accepts
    <3>2. \A s \in Symbols : ~Resting(book[s], o.id)
      BY <3>1, FreshRestsNowhere DEF IInv
    <3> QED
      BY <1>1, <1>3, <1>4, <3>1, <3>2 DEF LimitFrameOK
  <2> QED
    BY <1>3, <2>1 DEF FrameOK
<1>7. g.op = "Limit" => \A f \in FramesOf(stack) : f.op = "Limit" => f.o.id # g.o.id
  <2> SUFFICES ASSUME NEW f \in FramesOf(stack), f.op = "Limit"
               PROVE  f.o.id # g.o.id
    OBVIOUS
  <2>1. f.o.id \in Nat /\ f.o.id < nextId
    BY BookAssumption DEF IInv, StackInv, FrameOK, LimitFrameOK, OrderId
  <2>2. g.o.id = nextId
    BY <1>3 DEF Accepts
  <2> QED
    BY <1>4, <2>1, <2>2
<1>8. StackInv' /\ stack' \in Seq(Frame)
  BY <1>1, <1>3, <1>5, <1>6, <1>7, StackCalls DEF IInv
<1>9. \A s \in Symbols : \A id \in book[s].keys : id < nextId'
  <2>1. \A s \in Symbols : \A id \in book[s].keys : id < nextId /\ id \in Nat
    BY BookAssumption DEF IInv, BooksInv, BookOK, Book, OrderId
  <2> QED
    BY <1>4, <2>1
<1>10. BooksInv' /\ book' \in [Symbols -> Book]
  BY <1>1, <1>9 DEF IInv, BooksInv, TypeOK
<1> QED
  BY <1>1, <1>8, <1>10

\* Rejecting a FOK order keeps books and stack good.
LEMMA RejectFokIInv ==
    ASSUME IInv, NEW o, RejectFok(o), nextId' = nextId + 1
    PROVE  /\ BooksInv' /\ book' \in [Symbols -> Book]
           /\ StackInv' /\ stack' \in Seq(Frame)
           /\ stops' = stops /\ traded' = traded
           /\ reported' \in [OrderId -> Status \cup {"None"}]
<1>1. Report(o.id, "Rejected") /\ UNCHANGED <<book, stops, queuePos, stack, traded>>
  BY DEF RejectFok
<1>2. reported' \in [OrderId -> Status \cup {"None"}]
  <2>1. "Rejected" \in Status
    BY DEF Status
  <2> QED
    BY <1>1, <2>1, ReportType DEF IInv
<1>3. \A f \in FramesOf(stack) : FrameOK(f)'
  BY <1>1, FreshFrames DEF IInv
<1>4. StackInv' /\ stack' \in Seq(Frame)
  <2>1. FramesOf(stack') = FramesOf(stack) /\ Distinct(stack') /\ stack' \in Seq(Frame)
    BY <1>1 DEF IInv, StackInv, TypeOK
  <2>2. \A f \in FramesOf(stack') : FrameOK(f)'
    BY <1>3, <2>1
  <2> QED
    BY <2>1, <2>2 DEF StackInv
<1>5. \A s \in Symbols : \A id \in book[s].keys : id < nextId'
  <2>1. \A s \in Symbols : \A id \in book[s].keys : id < nextId /\ id \in Nat
    BY BookAssumption DEF IInv, BooksInv, BookOK, Book, OrderId
  <2>2. nextId \in Nat
    BY NextIdType DEF IInv
  <2> QED
    BY <2>1, <2>2
<1>6. BooksInv' /\ book' \in [Symbols -> Book]
  BY <1>1, <1>5 DEF IInv, BooksInv, TypeOK
<1> QED
  BY <1>1, <1>2, <1>4, <1>6

\* A submission keeps the invariant.
LEMMA SubmitIInv ==
    ASSUME IInv, NEW request \in Requests, Submit(request)
    PROVE  IInv'
<1> DEFINE o == [request EXCEPT !.id = nextId, !.status = "New"]
<1>1. /\ Valid(request) /\ nextId <= MaxOrders
      /\ nextId' = nextId + 1
      /\ symbolOf' = [symbolOf EXCEPT ![o.id] = o.sym]
      /\ sent' = [sent EXCEPT ![o.id] = o]
      /\ Process(o)
      /\ UNCHANGED registered
  BY DEF Submit
<1>2. request \in Order /\ request.filled = 0
  BY RequestType
<1>3. nextId \in OrderId /\ nextId \in Nat
  BY <1>1, BookAssumption DEF IInv, TypeOK, OrderId
<1>4. /\ o \in Order /\ o.id = nextId /\ o.filled = 0 /\ o.qty = request.qty
      /\ o.type = request.type /\ o.limit = request.limit /\ o.stop = request.stop
  <2>1. nextId \in AnyId /\ "New" \in Status
    BY <1>3 DEF AnyId, OrderId, Status
  <2> QED
    BY <1>2, <2>1 DEF Order
<1> HIDE DEF o
<1>5. /\ o.qty \in Nat /\ o.qty # 0
      /\ o.type \in {"Limit", "IOC", "FOK"} => o.limit > 0
      /\ o.type = "Stop" => o.stop > 0
  BY <1>1, <1>4 DEF Valid, Order
<1>6. o.limit \in AnyPrice /\ o.stop \in AnyPrice /\ o.type \in Types /\ o.sym \in Symbols
  BY <1>4 DEF Order
<1>7. Accepts(o)
  BY <1>3, <1>4, <1>5, <1>6, PositivePrice DEF Accepts
<1>8. /\ BooksInv' /\ book' \in [Symbols -> Book]
      /\ StackInv' /\ stack' \in Seq(Frame)
      /\ stops' \in [Symbols -> SUBSET OrderId]
      /\ traded' \in [OrderId -> Nat]
      /\ reported' \in [OrderId -> Status \cup {"None"}]
  <2>1. /\ stops \in [Symbols -> SUBSET OrderId]
        /\ traded \in [OrderId -> Nat]
        /\ reported \in [OrderId -> Status \cup {"None"}]
    BY DEF IInv, TypeOK
  <2>2. CASE o.type = "Stop" /\ RegisterStop(o)
    BY <1>1, <1>7, <2>1, <2>2, RegisterStopIInv
  <2>3. CASE o.type = "FOK" /\ RejectFok(o)
    BY <1>1, <2>1, <2>3, RejectFokIInv
  <2>4. CASE o.type \in {"Market", "Limit", "IOC", "FOK"} /\ StartSweep(o)
    BY <1>1, <1>7, <2>1, <2>4, StartSweepIInv
  <2> QED
    BY <1>1, <2>2, <2>3, <2>4 DEF Process
<1>9. nextId' \in 1..(MaxOrders + 1)
  BY <1>1, <1>3, BookAssumption
<1>10. /\ symbolOf' \in [OrderId -> Symbols \cup {NoSymbol}]
       /\ sent' \in [OrderId -> Order]
       /\ registered' \in SUBSET Symbols
  BY <1>1, <1>4, <1>6 DEF IInv, TypeOK
<1> QED
  BY <1>8, <1>9, <1>10 DEF IInv, TypeOK

\* A cancel keeps it, also from a callback.
LEMMA CancelOrderIInv ==
    ASSUME IInv, NEW id \in OrderId, CancelOrder(id)
    PROVE  IInv'
<1> DEFINE s == symbolOf[id]
           c == Cancelled(book[s], id)
<1>1. /\ s # NoSymbol /\ CanCancel(book[s], id)
      /\ book' = [book EXCEPT ![s] = c]
      /\ symbolOf' = [symbolOf EXCEPT ![id] = NoSymbol]
      /\ Report(id, "Cancelled")
      /\ UNCHANGED <<stops, queuePos, stack, traded, registered, nextId, sent>>
  BY DEF CancelOrder
<1>2. s \in Symbols
  BY <1>1 DEF IInv, TypeOK
<1>3. BookOK(c) /\ Settled(book[s], c)
  BY <1>1, <1>2, CancelledOK DEF IInv, BooksInv
<1> HIDE DEF c
<1>4. BooksInv' /\ BooksSettle /\ book' \in [Symbols -> Book]
  BY <1>1, <1>2, <1>3, BookSet DEF IInv
<1>5. StackInv' /\ stack' \in Seq(Frame)
  BY <1>1, <1>4, StackUnchanged DEF IInv
<1>6. reported' \in [OrderId -> Status \cup {"None"}]
  <2>1. "Cancelled" \in Status
    BY DEF Status
  <2> QED
    BY <1>1, <2>1, ReportType DEF IInv
<1>7. symbolOf' \in [OrderId -> Symbols \cup {NoSymbol}]
  BY <1>1 DEF IInv, TypeOK
<1> QED
  BY <1>1, <1>4, <1>5, <1>6, <1>7 DEF IInv, TypeOK

\* A tick keeps it.
LEMMA FeedTickIInv ==
    ASSUME IInv, NEW s \in Symbols, NEW last, FeedTick(s, last)
    PROVE  IInv'
<1>1. /\ stack' = Append(stack, NewFrame(s, "Tick", "trigger", NoOrder, Triggered(s, last)))
      /\ UNCHANGED <<book, stops, queuePos, traded, reported>> /\ UNCHANGED routerVars
  BY DEF FeedTick, Tick, Call
<1>2. Triggered(s, last) \in SUBSET OrderId
  BY DEF Triggered, IInv, TypeOK
<1>3. "Tick" \in Ops /\ "trigger" \in Pcs
  BY DEF Ops, Pcs
<1>4. PICK g \in Frame : /\ g = NewFrame(s, "Tick", "trigger", NoOrder, Triggered(s, last))
                         /\ g.op = "Tick" /\ g.pc = "trigger"
  BY <1>2, <1>3, NewFrameOK, NoOrderType
<1>5. stack' = Append(stack, g)
  BY <1>1, <1>4
<1>6. FrameOK(g)'
  BY <1>4 DEF FrameOK
<1>7. BooksInv' /\ BooksSettle /\ book' \in [Symbols -> Book] /\ nextId' = nextId
  BY <1>1, BooksSame DEF IInv, routerVars
<1>8. \A f \in FramesOf(stack) : FrameOK(f)'
  BY <1>7, FramesKept DEF IInv
<1>9. StackInv' /\ stack' \in Seq(Frame)
  BY <1>4, <1>5, <1>6, <1>8, StackCalls DEF IInv
<1> QED
  BY <1>1, <1>7, <1>9 DEF IInv, TypeOK, routerVars

-----------------------------------------------------------------------------
(* Theorems *)

\* The invariant is inductive.
LEMMA NextIInv == IInv /\ [Next]_vars => IInv'
<1> SUFFICES ASSUME IInv, [Next]_vars
             PROVE  IInv'
  OBVIOUS
<1>1. CASE ClientStep
  BY <1>1, RegisterSymbolIInv, SubmitInvalidIInv, SubmitIInv, CancelOrderIInv,
     FeedTickIInv DEF ClientStep
<1>2. CASE Continue(AggressorFill) \/ Continue(RestingFill) \/ Continue(ReduceResting)
  BY <1>2, AggressorFillIInv, RestingFillIInv, ReduceRestingIInv
<1>3. CASE \/ Continue(FinishMarket) \/ Continue(RestResidual)
           \/ Continue(FinishSilently) \/ Continue(FinishFok)
  BY <1>3, FinishMarketIInv, RestResidualIInv, FinishIInv
<1>4. CASE Continue(TriggerStop) \/ Continue(ActivateStop) \/ Continue(FinishTick)
  BY <1>4, TriggerStopIInv, ActivateStopIInv, FinishIInv
<1>5. CASE UNCHANGED vars
  BY <1>5, IdleIInv DEF vars, IInv, TypeOK
<1> QED
  BY <1>1, <1>2, <1>3, <1>4, <1>5 DEF Next

\* The strengthened invariant holds in every reachable state.
THEOREM Invariant == Spec => []IInv
BY InitIInv, NextIInv, PTL DEF Spec

\* Every variable of the exchange keeps its type.
THEOREM TypeCorrect == Spec => []TypeOK
<1>1. IInv => TypeOK
  BY DEF IInv
<1> QED
  BY <1>1, Invariant, PTL

\* Queues, order_side_ and orders_ of every book agree in every state that a
\* callback sees, however deep the calls from callbacks go.
THEOREM BooksAgree == Spec => []BooksSound
<1>1. IInv => BooksSound
  BY DEF IInv, BooksInv, BookOK, BooksSound
<1> QED
  BY <1>1, Invariant, PTL

\* Resting limit orders never cross, however deep the calls go.
THEOREM NeverCrossed == Spec => []Uncrossed
<1>1. IInv => Uncrossed
  BY DEF IInv, BooksInv, Uncrossed
<1> QED
  BY <1>1, Invariant, PTL

\* Time priority: nothing gets ahead of an order between the queue_pos that add
\* gave it and its turn, whatever fills, cancels and callbacks come between.
THEOREM TimePriority == Spec => []NoQueueJumping
<1>1. IInv => NoQueueJumping
  BY DEF IInv, BooksInv, InLine, NoQueueJumping
<1> QED
  BY <1>1, Invariant, PTL

-----------------------------------------------------------------------------
(* Progress of the innermost call *)

\* An innermost frame that advances is progress of the stack.
LEMMA TopAdvances ==
    ASSUME IInv, stack # << >>, NEW g \in Frame, stack' = SetTop(g), Advanced(Top, g)
    PROVE  Len(stack') = Len(stack) /\ Advanced(Top, stack'[Len(stack)])
BY SetTopType DEF IInv

\* A match uses up shares of the aggressor.
LEMMA AggressorFillAdvances ==
    ASSUME IInv, AggressorFill
    PROVE  Len(stack') = Len(stack) /\ Advanced(Top, stack'[Len(stack)])
<1> DEFINE f == Top
           b == book[f.sym]
<1>1. stack # << >> /\ f.pc = "sweep"
  BY DEF AggressorFill, Running
<1>2. f \in Frame /\ f.o \in Order
  BY <1>1, TopOK
<1> DEFINE rest(p) == Head(b.level[Contra(f.o.side)][p])
           room(p) == Leaves(b.orders[rest(p)])
           qty(p)  == IF Leaves(f.o) < room(p) THEN Leaves(f.o) ELSE room(p)
           g(p)    == Matched(f, Traded(f.o, qty(p)), rest(p), p, qty(p))
<1>3. PICK p \in Matchable(f) : stack' = SetTop(g(p))
  BY DEF AggressorFill
<1>4. /\ Leaves(f.o) > 0 /\ p \in Prices /\ rest(p) \in OrderId
      /\ b.orders[rest(p)] \in Order /\ room(p) > 0
  BY <1>1, <1>3, MatchableFront
<1>5. Leaves(f.o) \in Int /\ room(p) \in Int
  BY <1>2, <1>4, OrderNumbers
<1> HIDE DEF room
<1>6. qty(p) \in Nat /\ qty(p) > 0
  BY <1>4, <1>5
<1> HIDE DEF rest, qty
<1>7. PICK o \in Order : /\ o = Traded(f.o, qty(p))
                         /\ o.filled = f.o.filled + qty(p) /\ o.qty = f.o.qty
  BY <1>2, <1>6, TradedOK
<1>8. PICK h \in Frame : h = g(p) /\ h.pc = "rest" /\ h.o = o /\ h.todo = f.todo
  BY <1>2, <1>4, <1>6, <1>7, MatchedOK
<1>9. Leaves(h.o) < Leaves(f.o)
  BY <1>2, <1>6, <1>7, <1>8, OrderNumbers DEF Leaves
<1>10. Advanced(f, h)
  BY <1>1, <1>8, <1>9 DEF Advanced, Phase
<1> QED
  BY <1>1, <1>3, <1>8, <1>10, TopAdvances

\* The later halves of a match come nearer to its end.
LEMMA MatchAdvances ==
    ASSUME IInv, RestingFill \/ ReduceResting
    PROVE  Len(stack') = Len(stack) /\ Advanced(Top, stack'[Len(stack)])
<1> DEFINE f == Top
<1>1. stack # << >>
  BY DEF RestingFill, ReduceResting, Running
<1>2. f \in Frame
  BY <1>1, TopOK
<1>3. CASE RestingFill
  <2>1. f.pc = "rest" /\ stack' = SetTop(At(f, "reduce"))
    BY <1>3 DEF RestingFill, Running
  <2>2. PICK g \in Frame : g = At(f, "reduce") /\ g.pc = "reduce" /\ g.o = f.o /\ g.todo = f.todo
    BY <1>2, AtOK DEF Pcs
  <2>3. Advanced(f, g)
    BY <2>1, <2>2 DEF Advanced, Phase, Match
  <2> QED
    BY <1>1, <2>1, <2>2, <2>3, TopAdvances
<1>4. CASE ReduceResting
  <2>1. f.pc = "reduce" /\ stack' = SetTop(AfterMatch(f))
    BY <1>4 DEF ReduceResting, Running
  <2>2. PICK g \in Frame : g = AfterMatch(f) /\ g.pc = "sweep" /\ g.o = f.o /\ g.todo = f.todo
    BY <1>2, AfterMatchOK
  <2>3. Advanced(f, g)
    BY <2>1, <2>2 DEF Advanced, Phase, Match
  <2> QED
    BY <1>1, <2>1, <2>2, <2>3, TopAdvances
<1> QED
  BY <1>3, <1>4

\* The end of a sweep returns, or settles an activated stop.
LEMMA FinishAdvances ==
    ASSUME IInv,
           \/ FinishMarket \/ RestResidual \/ FinishSilently \/ FinishFok \/ FinishTick
    PROVE  \/ stack' = Return
           \/ Len(stack') = Len(stack) /\ Advanced(Top, stack'[Len(stack)])
<1>1. CASE FinishMarket /\ Top.op # "Market"
  <2>1. stack # << >> /\ Top.pc = "sweep" /\ stack' = SetTop(At(Top, "settled"))
    BY <1>1 DEF FinishMarket, SweepOver, Running
  <2>2. Top \in Frame
    BY <2>1, TopOK
  <2>3. PICK g \in Frame : g = At(Top, "settled") /\ g.pc = "settled" /\ g.todo = Top.todo
    BY <2>2, AtOK DEF Pcs
  <2>4. Advanced(Top, g)
    BY <2>1, <2>3 DEF Advanced, Phase
  <2> QED
    BY <2>1, <2>3, <2>4, TopAdvances
<1>2. CASE ~(FinishMarket /\ Top.op # "Market")
  BY <1>2 DEF FinishMarket, RestResidual, FinishSilently, FinishFok, FinishTick
<1> QED
  BY <1>1, <1>2

\* Each step of a tick's loop comes nearer to the end of its stops.
LEMMA StopAdvances ==
    ASSUME IInv, TriggerStop \/ ActivateStop
    PROVE  Len(stack') = Len(stack) /\ Advanced(Top, stack'[Len(stack)])
<1> DEFINE f == Top
           b == book[f.sym]
<1>1. stack # << >>
  BY DEF TriggerStop, ActivateStop, AtTrigger, Running
<1>2. f \in Frame /\ FrameOK(f) /\ BookOK(b)
  BY <1>1, TopOK
<1>3. CASE TriggerStop
  <2>1. PICK id \in f.todo :
            IF id \in b.keys
            THEN stack' = SetTop(With(Without(f, id), "activate", AsMarket(b.orders[id])))
            ELSE stack' = SetTop(At(Without(f, id), "trigger"))
    BY <1>3 DEF TriggerStop
  <2>2. PICK h \in Frame : h = Without(f, id) /\ h.todo = f.todo \ {id}
    BY <1>2, WithoutOK
  <2>3. \E g \in Frame : stack' = SetTop(g) /\ g.todo = h.todo
    <3>1. CASE id \in b.keys
      <4>1. AsMarket(b.orders[id]) \in Order
        BY <1>2, <3>1, AsMarketOK DEF BookOK, Book
      <4>2. "activate" \in Pcs
        BY DEF Pcs
      <4> QED
        BY <2>1, <2>2, <3>1, <4>1, <4>2, WithOK
    <3>2. CASE id \notin b.keys
      <4>1. "trigger" \in Pcs
        BY DEF Pcs
      <4> QED
        BY <2>1, <2>2, <3>2, <4>1, AtOK
    <3> QED
      BY <3>1, <3>2
  <2>4. PICK g \in Frame : stack' = SetTop(g) /\ g.todo = f.todo \ {id}
    BY <2>2, <2>3
  <2>5. Advanced(f, g)
    BY <2>1, <2>4 DEF Advanced
  <2> QED
    BY <1>1, <2>4, <2>5, TopAdvances
<1>4. CASE ActivateStop
  <2> DEFINE id == f.o.id
             a  == IF CanCancel(b, id) THEN Cancelled(b, id) ELSE b
             o  == Marked(a.orders[id], "New")
  <2>1. /\ f.pc = "activate"
        /\ \E r \in IF id \in a.keys THEN {o} ELSE DanglingRead(o) :
              stack' = SetTop(With(f, "sweep", r))
    BY <1>4 DEF ActivateStop, Running
  <2>2. id \in OrderId
    BY <1>2, <2>1 DEF FrameOK
  <2> HIDE DEF id
  <2>3. a \in Book
    BY <1>2, <2>2, CancelledOK DEF BookOK
  <2> HIDE DEF a
  <2>4. o \in Order
    BY <2>2, <2>3, MarkedOK DEF Book, Status
  <2>5. PICK r \in Order : stack' = SetTop(With(f, "sweep", r))
    BY <2>1, <2>4, GarbageAssumption DEF DanglingRead
  <2>6. PICK g \in Frame : g = With(f, "sweep", r) /\ g.pc = "sweep" /\ g.todo = f.todo
    BY <1>2, WithOK DEF Pcs
  <2>7. Advanced(f, g)
    BY <2>1, <2>6 DEF Advanced, Phase
  <2> QED
    BY <1>1, <2>5, <2>6, <2>7, TopAdvances
<1> QED
  BY <1>3, <1>4

\* Every step of an engine brings the innermost call nearer to its return: no
\* sweep loops in place, whatever callbacks did to the book in between.
THEOREM CallsProgress == Spec => StepsProgress
<1>1. IInv /\ EngineStep => \/ stack' = Return
                            \/ /\ Len(stack') = Len(stack)
                               /\ Advanced(Top, stack'[Len(stack)])
  BY AggressorFillAdvances, MatchAdvances, FinishAdvances, StopAdvances DEF EngineStep
<1> QED
  BY <1>1, Invariant, PTL DEF StepsProgress
=============================================================================
