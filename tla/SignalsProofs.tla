---------------------------- MODULE SignalsProofs ----------------------------
(***************************************************************************)
(* What is promised of a stock's signals, for any calendar of days, closes *)
(* and lookbacks: the Scanner's bands are the weeks its rule marks, the    *)
(* backtest's trades run over exactly those, and the verdicts agree with   *)
(* both.  The code cuts the rows into segments and slides a deque over     *)
(* each; the proof takes it back to the closes of the weeks: the deque     *)
(* holds the greatest close of a window, a segment is a stretch of rows    *)
(* one week apart that an empty week precedes, and so a row of a segment   *)
(* passes exactly if the rule, read off the closes alone, marks its week.  *)
(***************************************************************************)
EXTENDS WeeklySignals, SequenceTheorems, WellFoundedInduction, TLAPS

-----------------------------------------------------------------------------
(* Least elements, induction and recursion *)

LesserPairs == {p \in Nat \X Nat : p[1] < p[2]}

\* A set of naturals with an element has a least one.
LEMMA LeastIs ==
    ASSUME NEW S \in SUBSET Nat, S # {}
    PROVE  Min(S) \in S /\ \A y \in S : Min(S) <= y
<1>1. IsWellFoundedOn(LesserPairs, Nat)
    BY NatLessThanWellFounded DEF OpToRel, LesserPairs
<1>2. \A x, y \in Nat : x < y => <<x, y>> \in LesserPairs
  <2> SUFFICES ASSUME NEW x \in Nat, NEW y \in Nat, x < y PROVE <<x, y>> \in LesserPairs
      OBVIOUS
  <2>1. <<x, y>> \in Nat \X Nat
      OBVIOUS
  <2>q. QED
      BY <2>1 DEF LesserPairs
<1>3. PICK m \in S : \A y \in S : <<y, m>> \notin LesserPairs
    BY <1>1, WFMin
<1>4. ASSUME NEW y \in S PROVE m <= y
  <2>1. m \in Nat /\ y \in Nat
      OBVIOUS
  <2>2. ~(y < m)
      BY <1>2, <1>3, <2>1
  <2>q. QED
      BY <2>1, <2>2
<1>q. QED
    BY <1>4 DEF Min

\* Whatever is in a set of integers and not less than any of them is its maximum.
LEMMA GreatestIs ==
    ASSUME NEW S \in SUBSET Int, NEW m \in S, \A y \in S : y <= m
    PROVE  Max(S) = m
<1>1. \E x \in S : \A y \in S : x >= y
    OBVIOUS
<1>2. Max(S) \in S /\ \A y \in S : Max(S) >= y
    BY <1>1 DEF Max
<1>3. Max(S) \in Int /\ m \in Int /\ Max(S) >= m /\ Max(S) <= m
    BY <1>2
<1>q. QED
    BY <1>3

\* A set of integers that has a bound has a greatest one.
LEMMA MaxIsGreatest ==
    ASSUME NEW S \in SUBSET Int, S # {}, NEW bound \in Int, \A y \in S : y <= bound
    PROVE  Max(S) \in S /\ \A y \in S : y <= Max(S)
<1> DEFINE back == {bound - y : y \in S}
<1>1. back \in SUBSET Nat /\ back # {}
    OBVIOUS
<1>2. Min(back) \in back /\ \A z \in back : Min(back) <= z
    BY <1>1, LeastIs
<1>3. PICK m \in S : Min(back) = bound - m
    BY <1>2
<1>4. \A y \in S : y <= m
  <2> SUFFICES ASSUME NEW y \in S PROVE y <= m
      OBVIOUS
  <2>1. bound - m <= bound - y
      BY <1>2, <1>3
  <2>q. QED
      BY <2>1
<1>5. Max(S) = m
    BY <1>4, GreatestIs
<1>q. QED
    BY <1>4, <1>5

\* A set of naturals with 0 and with the successor of each of its elements has all of them.
LEMMA SetInduction ==
    ASSUME NEW S \in SUBSET Nat, 0 \in S, \A n \in S : n + 1 \in S
    PROVE  \A n \in Nat : n \in S
<1> SUFFICES ASSUME NEW k \in Nat, k \notin S PROVE FALSE
    OBVIOUS
<1>1. Nat \ S \in SUBSET Nat /\ Nat \ S # {}
    OBVIOUS
<1>2. PICK m \in Nat \ S : \A y \in Nat \ S : m <= y
    BY <1>1, LeastIs
<1>3. m # 0 /\ m - 1 \in Nat /\ (m - 1) + 1 = m
    OBVIOUS
<1>q. QED
    BY <1>2, <1>3

\* What is defined by its first value and by a step exists.
Courses(N, V, start, step) ==
    {g \in [0..N -> V] : g[0] = start /\ \A i \in 1..N : g[i] = step[i][g[i - 1]]}

LEMMA RecursionExists ==
    ASSUME NEW N, NEW V, NEW start, NEW step,
           N \in Nat, start \in V, step \in [1..N -> [V -> V]]
    PROVE  Courses(N, V, start, step) # {}
<1> DEFINE Begun(n) == \E g \in [0..n -> V] : g[0] = start /\ \A i \in 1..n : g[i] = step[i][g[i - 1]]
           S == {n \in Nat : n <= N => Begun(n)}
<1>1. 0 \in S
  <2> DEFINE g == [i \in 0..0 |-> start]
  <2>1. g \in [0..0 -> V] /\ g[0] = start /\ 1..0 = {}
      OBVIOUS
  <2> HIDE DEF g
  <2>2. Begun(0)
      BY <2>1
  <2>q. QED
      BY <2>2
<1>2. ASSUME NEW n \in S PROVE n + 1 \in S
  <2> SUFFICES ASSUME n + 1 <= N PROVE Begun(n + 1)
      OBVIOUS
  <2>1. PICK g \in [0..n -> V] : g[0] = start /\ \A i \in 1..n : g[i] = step[i][g[i - 1]]
      OBVIOUS
  <2> DEFINE h == [i \in 0..(n + 1) |-> IF i = n + 1 THEN step[n + 1][g[n]] ELSE g[i]]
  <2>2. n \in Nat /\ n + 1 \in 1..N /\ g[n] \in V
      OBVIOUS
  <2>3. h \in [0..(n + 1) -> V]
      BY <2>2
  <2>4. h[0] = start
      BY <2>1, <2>2
  <2>5. ASSUME NEW i \in 1..(n + 1) PROVE h[i] = step[i][h[i - 1]]
    <3>1. i - 1 \in 0..n /\ i - 1 # n + 1 /\ i \in 0..(n + 1) /\ i - 1 \in 0..(n + 1)
        BY <2>2
    <3>2. h[i - 1] = g[i - 1]
        BY <3>1
    <3>3. CASE i = n + 1
        BY <2>2, <3>1, <3>2, <3>3
    <3>4. CASE i # n + 1
      <4>1. i \in 1..n /\ h[i] = g[i]
          BY <2>2, <3>1, <3>4
      <4>q. QED
          BY <2>1, <3>2, <4>1
    <3>q. QED
        BY <3>3, <3>4
  <2>q. QED
      BY <2>3, <2>4, <2>5
<1>3. N \in S
  <2>1. S \in SUBSET Nat
      OBVIOUS
  <2> HIDE DEF S
  <2>q. QED
      BY <1>1, <1>2, <2>1, SetInduction
<1>q. QED
    BY <1>3 DEF Courses

-----------------------------------------------------------------------------
(* The sliding maximum *)

\* The positions of a window that ends with the i-th.
Window(i, window) == {k \in 1..i : k > i - window}

\* A deque: positions of the window with ever smaller values, and for each position of the window
\* one at or after it with no smaller value.
IsDeque(q, values, i, window) ==
    /\ q \subseteq Window(i, window)
    /\ \A j, k \in q : j < k => values[j] > values[k]
    /\ \A k \in Window(i, window) : \E j \in q : j >= k /\ values[j] >= values[k]

\* One step of the loop keeps the deque.
LEMMA DequeGoesOn ==
    ASSUME NEW values, NEW window \in Nat \ {0}, NEW i \in Nat, NEW q, IsDeque(q, values, i, window),
           \A k \in 1..(i + 1) : values[k] \in Int
    PROVE  IsDeque({j \in q : values[j] > values[i + 1] /\ j >= (i + 1) - window + 1} \union {i + 1},
                   values, i + 1, window)
<1> DEFINE r == {j \in q : values[j] > values[i + 1] /\ j >= (i + 1) - window + 1} \union {i + 1}
<1>1. \A j \in q : j \in 1..i /\ j \in 1..(i + 1)
    BY DEF IsDeque, Window
<1>2. r \subseteq Window(i + 1, window)
    BY <1>1 DEF Window
<1>3. ASSUME NEW j \in r, NEW k \in r, j < k PROVE values[j] > values[k]
    BY <1>1, <1>3 DEF IsDeque
<1>4. ASSUME NEW k \in Window(i + 1, window) PROVE \E j \in r : j >= k /\ values[j] >= values[k]
  <2>1. CASE k = i + 1
    <3>1. k \in r /\ k \in Int /\ values[k] \in Int
        BY <2>1
    <3>q. QED
        BY <3>1
  <2>2. CASE k # i + 1
    <3>1. k \in Window(i, window) /\ k \in 1..(i + 1) /\ k >= (i + 1) - window + 1
        BY <2>2 DEF Window
    <3>2. PICK j \in q : j >= k /\ values[j] >= values[k]
        BY <3>1 DEF IsDeque
    <3>3. j \in 1..(i + 1) /\ values[j] \in Int /\ values[k] \in Int /\ values[i + 1] \in Int
        BY <1>1, <3>1
    <3>4. CASE values[j] > values[i + 1]
      <4>1. j \in r
          BY <3>1, <3>2, <3>3, <3>4
      <4>q. QED
          BY <3>2, <4>1
    <3>5. CASE ~(values[j] > values[i + 1])
      <4>1. i + 1 \in r /\ i + 1 >= k /\ values[i + 1] >= values[k]
          BY <3>1, <3>2, <3>3, <3>5
      <4>q. QED
          BY <4>1
    <3>q. QED
        BY <3>4, <3>5
  <2>q. QED
      BY <2>1, <2>2
<1> HIDE DEF r
<1>5. IsDeque(r, values, i + 1, window)
    BY <1>2, <1>3, <1>4 DEF IsDeque
<1>q. QED
    BY <1>5 DEF r

\* The deque computes the greatest value of each window, for any series (weekly-strong-evaluator.ts:38-59).
THEOREM RollingMaxIsMax ==
    ASSUME NEW values \in Seq(Int), NEW window \in Nat \ {0}, NEW i \in DOMAIN values
    PROVE  RollingMax(values, window)[i] = Max({values[j] : j \in {k \in 1..i : k > i - window}})
<1> DEFINE N == Len(values)
           Next(k, q) == {j \in q : values[j] > values[k] /\ j >= k - window + 1} \union {k}
           step == [k \in 1..N |-> [q \in SUBSET Int |-> Next(k, q)]]
           Deques(f) == f = [k \in 0..N |-> IF k = 0 THEN {} ELSE Next(k, f[k - 1])]
           deque == CHOOSE f : Deques(f)
<1>0. N \in Nat /\ DOMAIN values = 1..N /\ \A k \in 1..N : values[k] \in Int
    OBVIOUS
<1>1. \E f : Deques(f)
  <2>0. ASSUME NEW k \in 1..N, NEW q \in SUBSET Int PROVE Next(k, q) \in SUBSET Int
    <3>1. \A j \in Next(k, q) : j \in Int
        BY <1>0
    <3> HIDE DEF Next
    <3>q. QED
        BY <3>1
  <2> HIDE DEF Next
  <2>1. step \in [1..N -> [SUBSET Int -> SUBSET Int]]
      BY <2>0
  <2>2. {} \in SUBSET Int
      OBVIOUS
  <2> DEFINE V == SUBSET Int
             start == {}
  <2> HIDE DEF step, V, N, start
  <2>2a. N \in Nat /\ start \in V /\ step \in [1..N -> [V -> V]]
      BY <1>0, <2>1, <2>2 DEF V, start
  <2>2b. Courses(N, V, start, step) # {}
      BY <2>2a, RecursionExists
  <2>3. PICK g \in [0..N -> SUBSET Int] : g[0] = {} /\ \A k \in 1..N : g[k] = step[k][g[k - 1]]
      BY <2>2b DEF V, start, Courses
  <2>4. \A k \in 1..N : g[k - 1] \in SUBSET Int
      BY <1>0
  <2>5. \A k \in 1..N : g[k] = Next(k, g[k - 1])
      BY <2>3, <2>4 DEF step
  <2>6. Deques(g)
      BY <1>0, <2>3, <2>5
  <2>q. QED
      BY <2>6
<1>2. Deques(deque)
    BY <1>1
<1>3. RollingMax(values, window)[i] = values[Min(deque[i])]
    BY DEF RollingMax
<1> HIDE DEF deque
<1>4. deque[0] = {} /\ \A k \in 1..N : deque[k] = Next(k, deque[k - 1])
  <2> HIDE DEF Next
  <2>1. deque = [k \in 0..N |-> IF k = 0 THEN {} ELSE Next(k, deque[k - 1])]
      BY <1>2
  <2>2. 0 \in 0..N /\ \A k \in 1..N : k \in 0..N /\ k # 0
      BY <1>0
  <2> HIDE DEF N
  <2>q. QED
      BY <2>1, <2>2
<1> DEFINE S == {n \in Nat : n <= N => IsDeque(deque[n], values, n, window)}
<1>5. 0 \in S
    BY <1>0, <1>4 DEF IsDeque, Window
<1>6. ASSUME NEW n \in S PROVE n + 1 \in S
  <2> SUFFICES ASSUME n + 1 <= N PROVE IsDeque(deque[n + 1], values, n + 1, window)
      OBVIOUS
  <2>1. n \in Nat /\ n <= N /\ n + 1 \in 1..N /\ (n + 1) - 1 = n
      BY <1>0
  <2>2. IsDeque(deque[n], values, n, window)
      BY <2>1
  <2>3. \A k \in 1..(n + 1) : values[k] \in Int
      BY <1>0, <2>1
  <2>4. deque[n + 1] = Next(n + 1, deque[n])
      BY <1>4, <2>1
  <2>q. QED
      BY <2>1, <2>2, <2>3, <2>4, DequeGoesOn
<1>7. IsDeque(deque[i], values, i, window)
  <2>1. S \in SUBSET Nat
      OBVIOUS
  <2> HIDE DEF S
  <2>2. \A n \in Nat : n \in S
      BY <1>5, <1>6, <2>1, SetInduction
  <2>3. i \in Nat /\ i <= N
      BY <1>0
  <2>q. QED
      BY <2>2, <2>3 DEF S
<1> DEFINE m == Min(deque[i])
           W == {values[j] : j \in {k \in 1..i : k > i - window}}
<1>7a. deque[i] \subseteq Window(i, window) /\ \A j \in Window(i, window) : j \in Nat /\ values[j] \in Int
    BY <1>0, <1>7 DEF IsDeque, Window
<1>8. deque[i] \in SUBSET Nat /\ deque[i] # {}
  <2>1. i \in Window(i, window)
      BY <1>0 DEF Window
  <2>q. QED
      BY <1>7, <2>1 DEF IsDeque, Window
<1>9. m \in deque[i] /\ \A j \in deque[i] : m <= j
    BY <1>8, LeastIs
<1> HIDE DEF m
<1>10. ASSUME NEW k \in Window(i, window) PROVE values[k] <= values[m]
  <2>1. PICK j \in deque[i] : j >= k /\ values[j] >= values[k]
      BY <1>7 DEF IsDeque
  <2>2. values[m] \in Int /\ values[j] \in Int /\ values[k] \in Int /\ m \in Int /\ j \in Int
      BY <1>7a, <1>9, <2>1
  <2>3. m = j \/ values[m] > values[j]
      BY <1>7, <1>9, <2>2 DEF IsDeque
  <2>q. QED
      BY <2>1, <2>2, <2>3
<1>11. W \in SUBSET Int /\ values[m] \in W /\ \A y \in W : y <= values[m]
  <2>1. W = {values[j] : j \in Window(i, window)}
      BY DEF Window
  <2>2. m \in Window(i, window)
      BY <1>7a, <1>9
  <2> HIDE DEF W
  <2>q. QED
      BY <1>7a, <1>10, <2>1, <2>2
<1> HIDE DEF W
<1>12. Max(W) = values[m]
    BY <1>11, GreatestIs
<1>q. QED
    BY <1>3, <1>12 DEF W, m

-----------------------------------------------------------------------------
(* Days in order *)

\* The elements of S, each once and in order.
InOrder(s, S) ==
    /\ s \in Seq(S)
    /\ \A i, j \in DOMAIN s : i < j => s[i] < s[j]
    /\ \A d \in S : \E i \in DOMAIN s : s[i] = d

\* The next day comes last.
LEMMA OrderGoesOn ==
    ASSUME NEW days \in SUBSET Nat, NEW n \in Nat, NEW q, InOrder(q, {d \in days : d < n})
    PROVE  InOrder(IF n \in days THEN Append(q, n) ELSE q, {d \in days : d < n + 1})
<1> DEFINE before == {d \in days : d < n}
           after == {d \in days : d < n + 1}
           r == IF n \in days THEN Append(q, n) ELSE q
<1>0. /\ \A d : d \in before <=> d \in days /\ d < n
      /\ \A d : d \in after <=> d \in days /\ d < n + 1
      /\ \A d \in days : d \in Nat
    OBVIOUS
<1>1. /\ q \in Seq(before) /\ Len(q) \in Nat /\ DOMAIN q = 1..Len(q)
      /\ \A i, j \in DOMAIN q : i < j => q[i] < q[j]
      /\ \A d \in before : \E i \in DOMAIN q : q[i] = d
    BY DEF InOrder
<1> HIDE DEF before, after
<1>2. ASSUME NEW i \in DOMAIN q PROVE q[i] \in before /\ q[i] \in Nat /\ q[i] < n
  <2>1. q[i] \in before
      BY <1>1
  <2>q. QED
      BY <1>0, <2>1
<1>3. before \subseteq after /\ \A d \in after : d \in Nat /\ (d \in before \/ (d = n /\ n \in days))
  <2>1. ASSUME NEW d \in before PROVE d \in after
    <3>1. d \in days /\ d \in Nat /\ d < n
        BY <1>0
    <3>2. d < n + 1
        BY <3>1
    <3>q. QED
        BY <1>0, <3>1, <3>2
  <2>2. ASSUME NEW d \in after PROVE d \in Nat /\ (d \in before \/ (d = n /\ n \in days))
    <3>1. d \in days /\ d \in Nat /\ d < n + 1
        BY <1>0
    <3>2. d < n \/ d = n
        BY <3>1
    <3>q. QED
        BY <1>0, <3>1, <3>2
  <2>q. QED
      BY <2>1, <2>2
<1>4. CASE n \notin days
  <2>1. after = before
      BY <1>3, <1>4
  <2>q. QED
      BY <1>4, <2>1 DEF before, after
<1>5. CASE n \in days
  <2>1. n \in after
      BY <1>0, <1>5
  <2>2. q \in Seq(after)
    <3>1. \A i \in 1..Len(q) : q[i] \in after
        BY <1>1, <1>2, <1>3
    <3>q. QED
        BY <1>1, <3>1
  <2>3. /\ r \in Seq(after) /\ Len(r) = Len(q) + 1 /\ DOMAIN r = 1..(Len(q) + 1)
        /\ \A i \in 1..Len(q) : r[i] = q[i]
        /\ r[Len(q) + 1] = n
      BY <1>5, <2>1, <2>2, AppendProperties
  <2> HIDE DEF r
  <2>4. ASSUME NEW i \in DOMAIN r, NEW j \in DOMAIN r, i < j PROVE r[i] < r[j]
    <3>1. i \in 1..Len(q)
        BY <1>1, <2>3, <2>4
    <3>2. CASE j = Len(q) + 1
        BY <1>1, <1>2, <2>3, <3>1, <3>2
    <3>3. CASE j # Len(q) + 1
      <4>1. j \in 1..Len(q)
          BY <1>1, <2>3, <3>3
      <4>q. QED
          BY <1>1, <2>3, <2>4, <3>1, <4>1
    <3>q. QED
        BY <3>2, <3>3
  <2>5. ASSUME NEW d \in after PROVE \E i \in DOMAIN r : r[i] = d
    <3>1. CASE d \in before
      <4>1. PICK i \in DOMAIN q : q[i] = d
          BY <1>1, <3>1
      <4>2. i \in DOMAIN r /\ r[i] = d
          BY <1>1, <2>3, <4>1
      <4>q. QED
          BY <4>2
    <3>2. CASE d = n
        BY <1>1, <2>3, <3>2
    <3>q. QED
        BY <1>3, <3>1, <3>2
  <2>6. InOrder(r, after)
      BY <2>3, <2>4, <2>5 DEF InOrder
  <2>q. QED
      BY <2>6 DEF r, after
<1>q. QED
    BY <1>4, <1>5

\* The days of the calendar, each once and in order.
LEMMA AscendingIs ==
    ASSUME NEW days \in SUBSET (0..LastDay)
    PROVE  InOrder(Ascending(days), days)
<1> DEFINE N == LastDay + 1
           Longer(k, q) == IF k - 1 \in days THEN Append(q, k - 1) ELSE q
           step == [k \in 1..N |-> [q \in Seq(Int) |-> Longer(k, q)]]
           IsUpTo(f) == f = [n \in 0..(LastDay + 1) |-> IF n = 0 THEN <<>>
                                        ELSE IF n - 1 \in days THEN Append(f[n - 1], n - 1)
                                        ELSE f[n - 1]]
           upTo == CHOOSE f : IsUpTo(f)
<1>0. N \in Nat /\ LastDay \in Nat
    BY SignalsAssumption
<1>1. \E f : IsUpTo(f)
  <2>0. ASSUME NEW k \in 1..N, NEW q \in Seq(Int) PROVE Longer(k, q) \in Seq(Int)
    <3>1. k - 1 \in Int
        BY <1>0
    <3>q. QED
        BY <3>1
  <2> HIDE DEF Longer
  <2>1. step \in [1..N -> [Seq(Int) -> Seq(Int)]]
      BY <2>0
  <2> DEFINE V == Seq(Int)
             start == <<>>
  <2>2. start \in V
      OBVIOUS
  <2> HIDE DEF step, V, N, start
  <2>3. N \in Nat /\ start \in V /\ step \in [1..N -> [V -> V]]
      BY <1>0, <2>1, <2>2 DEF V
  <2>4. Courses(N, V, start, step) # {}
      BY <2>3, RecursionExists
  <2>5. PICK g \in [0..N -> V] : g[0] = start /\ \A k \in 1..N : g[k] = step[k][g[k - 1]]
      BY <2>4 DEF Courses
  <2>6. \A k \in 1..N : k \in 0..N /\ k - 1 \in 0..N /\ k # 0 /\ g[k - 1] \in Seq(Int)
      BY <1>0 DEF V
  <2>7. \A k \in 1..N : g[k] = Longer(k, g[k - 1])
      BY <2>5, <2>6 DEF step
  <2>8. g = [n \in 0..N |-> IF n = 0 THEN <<>> ELSE Longer(n, g[n - 1])]
    <3>1. g[0] = <<>>
        BY <2>5 DEF start
    <3>2. \A n \in 0..N : n = 0 \/ n \in 1..N
        BY <1>0
    <3>3. \A n \in 0..N : g[n] = IF n = 0 THEN <<>> ELSE Longer(n, g[n - 1])
        BY <2>7, <3>1, <3>2
    <3>q. QED
        BY <3>3
  <2>9. IsUpTo(g)
      BY <2>8 DEF N, Longer
  <2>q. QED
      BY <2>9
<1>2. IsUpTo(upTo)
    BY <1>1
<1>3. Ascending(days) = upTo[LastDay + 1]
    BY DEF Ascending
<1> HIDE DEF upTo
<1>4. upTo[0] = <<>> /\ \A k \in 1..N : upTo[k] = Longer(k, upTo[k - 1])
  <2>1. upTo = [n \in 0..N |-> IF n = 0 THEN <<>> ELSE Longer(n, upTo[n - 1])]
      BY <1>2
  <2> HIDE DEF N, Longer
  <2>2. 0 \in 0..N /\ \A k \in 1..N : k \in 0..N /\ k # 0
      BY <1>0
  <2>q. QED
      BY <2>1, <2>2
<1> DEFINE S == {n \in Nat : n <= N => InOrder(upTo[n], {d \in days : d < n})}
<1>5. 0 \in S
  <2>1. {d \in days : d < 0} = {}
    <3>1. \A d \in days : d \in 0..LastDay /\ ~(d < 0)
        BY <1>0
    <3>q. QED
        BY <3>1
  <2>2. InOrder(<<>>, {})
      BY DEF InOrder
  <2>q. QED
      BY <1>4, <2>1, <2>2
<1>6. ASSUME NEW n \in S PROVE n + 1 \in S
  <2> SUFFICES ASSUME n + 1 <= N PROVE InOrder(upTo[n + 1], {d \in days : d < n + 1})
      OBVIOUS
  <2>1. n \in Nat /\ n <= N /\ n + 1 \in 1..N /\ (n + 1) - 1 = n
      BY <1>0
  <2>2. InOrder(upTo[n], {d \in days : d < n})
      BY <2>1
  <2>3. upTo[n + 1] = IF n \in days THEN Append(upTo[n], n) ELSE upTo[n]
      BY <1>4, <2>1
  <2>4. days \in SUBSET Nat
      BY <1>0
  <2>q. QED
      BY <2>1, <2>2, <2>3, <2>4, OrderGoesOn
<1>7. InOrder(upTo[N], {d \in days : d < N})
  <2>1. S \in SUBSET Nat
      OBVIOUS
  <2> HIDE DEF S, N
  <2>2. N \in S
      BY <1>0, <1>5, <1>6, <2>1, SetInduction
  <2>q. QED
      BY <1>0, <2>2 DEF S
<1>8. {d \in days : d < N} = days
  <2>1. \A d \in days : d \in 0..LastDay /\ d < N
      BY <1>0
  <2> HIDE DEF N
  <2>q. QED
      BY <2>1
<1>q. QED
    BY <1>3, <1>7, <1>8

-----------------------------------------------------------------------------
(* The calendar *)

\* A week starts on the Monday at most six days back.
LEMMA IsoWeekBounds ==
    ASSUME NEW d \in Int
    PROVE  /\ IsoWeekStart(d) \in Int
           /\ IsoWeekStart(d) <= d /\ d <= IsoWeekStart(d) + 6
           /\ IsoWeekStart(d) % 7 = 0
  BY SMT DEF IsoWeekStart

\* Days in order are in weeks in order.
LEMMA IsoWeeksInOrder ==
    ASSUME NEW d \in Int, NEW e \in Int, d <= e
    PROVE  IsoWeekStart(d) <= IsoWeekStart(e)
  BY SMT DEF IsoWeekStart

\* Two weeks are the same or at least seven days apart.
LEMMA IsoWeeksApart ==
    ASSUME NEW d \in Int, NEW e \in Int, IsoWeekStart(d) < IsoWeekStart(e)
    PROVE  IsoWeekStart(d) + 7 <= IsoWeekStart(e)
  BY SMT DEF IsoWeekStart

\* The last weekday up to a day is one, and only a weekend lies between.
LEMMA WeekdayUpToDay ==
    ASSUME NEW d \in Int
    PROVE  /\ WeekdayUpTo(d) \in Int
           /\ WeekdayUpTo(d) <= d /\ d <= WeekdayUpTo(d) + 2
           /\ WeekdayUpTo(d) <= IsoWeekStart(d) + 4
           /\ IsoWeekStart(WeekdayUpTo(d)) = IsoWeekStart(d)
           /\ WeekdayUpTo(d) < d => WeekdayUpTo(d) = IsoWeekStart(d) + 4
  BY SMT DEF WeekdayUpTo, IsoWeekStart

\* A day whose candle is expected is a weekday, never later than the date.
THEOREM ExpectedDayIsATradingDay ==
    ASSUME NEW date \in Int, NEW isClosed \in BOOLEAN
    PROVE  LET day == LatestExpectedTradingDay(date, isClosed)
           IN  day \in Int /\ day <= date /\ date <= day + 3 /\ day <= WeekEndingFriday(day)
<1>1. CASE isClosed
  BY <1>1, WeekdayUpToDay DEF LatestExpectedTradingDay, WeekEndingFriday
<1>2. CASE ~isClosed
  <2>1. date - 1 \in Int
    OBVIOUS
  <2> QED
    BY <1>2, <2>1, WeekdayUpToDay DEF LatestExpectedTradingDay, WeekEndingFriday
<1> QED
  BY <1>1, <1>2

\* The expected day never goes back as time passes: what has been expected
\* once, and a week that has been complete once, stays so.
THEOREM ExpectedDayNeverGoesBack ==
    ASSUME NEW date \in Int, NEW isClosed \in BOOLEAN,
           NEW later \in Int, NEW closedLater \in BOOLEAN,
           date < later \/ (date = later /\ (isClosed => closedLater))
    PROVE  LatestExpectedTradingDay(date, isClosed)
             <= LatestExpectedTradingDay(later, closedLater)
<1>1. ASSUME NEW d \in Int, NEW e \in Int, d <= e
      PROVE  WeekdayUpTo(d) <= WeekdayUpTo(e)
  BY <1>1, SMT DEF WeekdayUpTo
<1>2. PICK d \in Int : d = IF isClosed THEN date ELSE date - 1
  OBVIOUS
<1>3. PICK e \in Int : e = IF closedLater THEN later ELSE later - 1
  OBVIOUS
<1>4. d <= e
  BY <1>2, <1>3
<1> QED
  BY <1>1, <1>2, <1>3, <1>4 DEF LatestExpectedTradingDay

\* The two readings of the rule, by a week's candle and by the label of the
\* latest finished week, always agree: the Scanner takes its freshness from
\* one and its completed weeks from the other.
THEOREM CompletedWeeksAgree ==
    ASSUME NEW d \in Int, NEW date \in Int, NEW isClosed \in BOOLEAN
    PROVE  IsCompletedTradingWeek(d, date, isClosed)
             <=> WeekEndingFriday(d) <= LatestCompletedWeekEnding(date, isClosed)
<1>1. PICK day \in Int : day = LatestExpectedTradingDay(date, isClosed)
  BY ExpectedDayIsATradingDay
<1>2. /\ IsoWeekStart(day) \in Int /\ IsoWeekStart(d) \in Int
      /\ IsoWeekStart(day) <= day /\ day <= IsoWeekStart(day) + 4
  BY <1>1, IsoWeekBounds, ExpectedDayIsATradingDay DEF WeekEndingFriday
<1>3. /\ IsoWeekStart(d) < IsoWeekStart(day) => IsoWeekStart(d) + 7 <= IsoWeekStart(day)
      /\ IsoWeekStart(day) < IsoWeekStart(d) => IsoWeekStart(day) + 7 <= IsoWeekStart(d)
  BY IsoWeeksApart
<1> QED
  BY <1>1, <1>2, <1>3 DEF IsCompletedTradingWeek, LatestCompletedWeekEnding,
                          CompletedWeekEndingFromTradingDay, WeekEndingFriday

-----------------------------------------------------------------------------
(* The invariant, and the close of a week *)

\* The days with a close.
Stored == {d \in TradingDay : closes[d] # 0}

\* No close is stored before its day is expected.
SignalsTypeOK ==
    /\ today \in Int /\ closed \in BOOLEAN
    /\ closes \in [TradingDay -> Close \union {0}]
    /\ \A d \in Stored : d <= LatestExpectedTradingDay(today, closed)

\* The stored days, and what is stored for them.
LEMMA StoredIs ==
    ASSUME SignalsTypeOK
    PROVE  /\ Stored \in SUBSET (0..LastDay) /\ LastDay \in Nat
           /\ \A d \in Stored : d \in Int /\ d \in TradingDay /\ closes[d] \in Int /\ closes[d] # 0
<1>1. TradingDay \subseteq 0..LastDay /\ LastDay \in Nat /\ Close \subseteq Nat
    BY SignalsAssumption
<1>2. \A d \in Stored : d \in TradingDay /\ closes[d] # 0 /\ closes[d] \in Close \union {0}
    BY DEF SignalsTypeOK, Stored
<1>3. ASSUME NEW d \in Stored PROVE d \in 0..LastDay /\ closes[d] \in Int
  <2>1. d \in TradingDay /\ closes[d] \in Close \union {0}
      BY <1>2
  <2>2. d \in 0..LastDay
      BY <1>1, <2>1
  <2>3. \A c \in Close : c \in Int
      BY <1>1
  <2>4. 0 \in Int
      OBVIOUS
  <2>5. closes[d] \in Int
      BY <2>1, <2>3, <2>4, Zenon
  <2>q. QED
      BY <2>2, <2>5
<1>4. \A d \in 0..LastDay : d \in Int
    BY <1>1
<1>q. QED
    BY <1>1, <1>2, <1>3, <1>4

\* A week closes with its last stored day.
LEMMA WeekCloseIs ==
    ASSUME SignalsTypeOK, NEW w, NEW d \in Stored, IsoWeekStart(d) = w,
           \A e \in Stored : IsoWeekStart(e) = w => e <= d
    PROVE  WeekClose(w) = closes[d] /\ WeekClose(w) # 0 /\ WeekClose(w) \in Int
<1> DEFINE D == {e \in TradingDay : closes[e] # 0 /\ IsoWeekStart(e) = w}
<1>1. \A e : e \in D <=> e \in Stored /\ IsoWeekStart(e) = w
    BY DEF Stored
<1>2. WeekClose(w) = IF D = {} THEN 0 ELSE closes[Max(D)]
    BY DEF WeekClose
<1>3. D \in SUBSET Int /\ d \in D /\ \A e \in D : e <= d
  <2> HIDE DEF D
  <2>q. QED
      BY <1>1, StoredIs
<1> HIDE DEF D
<1>4. Max(D) = d /\ D # {}
    BY <1>3, GreatestIs
<1>q. QED
    BY <1>2, <1>4, StoredIs

\* A week has a close if a day of it is stored.
LEMMA WeekHasClose ==
    ASSUME SignalsTypeOK, NEW w
    PROVE  /\ WeekClose(w) # 0 <=> \E d \in Stored : IsoWeekStart(d) = w
           /\ WeekClose(w) \in Int
           /\ WeekClose(w) # 0 => w \in Int /\ IsoWeekStart(w) = w
<1> DEFINE D == {e \in TradingDay : closes[e] # 0 /\ IsoWeekStart(e) = w}
<1>1. \A e : e \in D <=> e \in Stored /\ IsoWeekStart(e) = w
    BY DEF Stored
<1>2. WeekClose(w) = IF D = {} THEN 0 ELSE closes[Max(D)]
    BY DEF WeekClose
<1> HIDE DEF D
<1>3. CASE D = {}
    BY <1>1, <1>2, <1>3
<1>4. CASE D # {}
  <2>1. D \in SUBSET Int /\ LastDay \in Int /\ \A e \in D : e <= LastDay
      BY <1>1, StoredIs
  <2>2. Max(D) \in D
      BY <1>4, <2>1, MaxIsGreatest
  <2>3. WeekClose(w) # 0 /\ WeekClose(w) \in Int
      BY <1>1, <1>2, <1>4, <2>2, StoredIs
  <2>4. Max(D) \in Stored /\ IsoWeekStart(Max(D)) = w /\ Max(D) \in Int
      BY <1>1, <2>1, <2>2
  <2>5. w \in Int /\ IsoWeekStart(w) = w
      BY <2>4, SMT DEF IsoWeekStart
  <2>q. QED
      BY <2>3, <2>4, <2>5
<1>q. QED
    BY <1>3, <1>4

-----------------------------------------------------------------------------
(* Daily and weekly rows *)

Row == [time : Int, close : Int]

Rising(rows) ==
    /\ rows \in Seq(Row)
    /\ \A i, j \in DOMAIN rows : i < j => rows[i].time < rows[j].time

\* One row for each stored day, in order.
LEMMA DailyClosesAre ==
    ASSUME SignalsTypeOK
    PROVE  /\ Rising(DailyCloses)
           /\ \A i \in DOMAIN DailyCloses :
                 DailyCloses[i].time \in Stored /\ DailyCloses[i].close = closes[DailyCloses[i].time]
           /\ \A d \in Stored : \E i \in DOMAIN DailyCloses : DailyCloses[i].time = d
<1> DEFINE days == Ascending(Stored)
           n == Len(days)
<1>1. DailyCloses = [i \in DOMAIN days |-> [time |-> days[i], close |-> closes[days[i]]]]
    BY DEF DailyCloses, Stored
<1>2. InOrder(days, Stored)
    BY StoredIs, AscendingIs
<1> HIDE DEF days
<1>3. /\ n \in Nat /\ DOMAIN days = 1..n /\ \A i \in 1..n : days[i] \in Stored
      /\ \A i, j \in 1..n : i < j => days[i] < days[j]
      /\ \A d \in Stored : \E i \in 1..n : days[i] = d
    BY <1>2 DEF InOrder
<1> HIDE DEF n
<1>4. DOMAIN DailyCloses = 1..n
    BY <1>1, <1>3
<1>5. \A i \in 1..n : DailyCloses[i] = [time |-> days[i], close |-> closes[days[i]]]
    BY <1>1, <1>3
<1>6. \A i \in 1..n : DailyCloses[i] \in Row
  <2> SUFFICES ASSUME NEW i \in 1..n PROVE DailyCloses[i] \in Row
      OBVIOUS
  <2>1. days[i] \in Int /\ closes[days[i]] \in Int
      BY <1>3, StoredIs
  <2>2. [time |-> days[i], close |-> closes[days[i]]] \in Row
      BY <2>1 DEF Row
  <2>q. QED
      BY <1>5, <2>2
<1>7. DailyCloses \in Seq(Row)
  <2>1. DailyCloses = [i \in 1..n |-> DailyCloses[i]]
      BY <1>1, <1>3, <1>4
  <2>q. QED
      BY <1>3, <1>6, <2>1
<1>q. QED
    BY <1>3, <1>4, <1>5, <1>7 DEF Rising

\* The weeks with a close, in order, each with the close of its last day.
Weekly(rows) ==
    /\ Rising(rows)
    /\ \A i \in DOMAIN rows : rows[i].close = WeekClose(rows[i].time) /\ rows[i].close # 0
    /\ \A v : \A i \in DOMAIN rows :
          WeekClose(v) # 0 /\ v <= rows[i].time => \E j \in DOMAIN rows : rows[j].time = v

\* One row for each week with a stored day, in order, with the close of that week.
LEMMA WeeklyClosesAre ==
    ASSUME SignalsTypeOK
    PROVE  /\ Weekly(WeeklyCloses(DailyCloses))
           /\ \A v : WeekClose(v) # 0 =>
                \E j \in DOMAIN WeeklyCloses(DailyCloses) : WeeklyCloses(DailyCloses)[j].time = v
<1> DEFINE daily == DailyCloses
           S == {IsoWeekStart(daily[i].time) : i \in DOMAIN daily}
           weeks == Ascending(S)
           In(w) == {i \in DOMAIN daily : IsoWeekStart(daily[i].time) = w}
           last(w) == Max(In(w))
           rows == WeeklyCloses(daily)
           n == Len(weeks)
           m == Len(daily)
<1>1. rows = [k \in DOMAIN weeks |-> [time |-> weeks[k], close |-> daily[last(weeks[k])].close]]
    BY DEF WeeklyCloses
<1>2. /\ m \in Nat /\ DOMAIN daily = 1..m
      /\ \A i \in 1..m : daily[i].time \in Stored /\ daily[i].close = closes[daily[i].time]
      /\ \A i, j \in 1..m : i < j => daily[i].time < daily[j].time
      /\ \A d \in Stored : \E i \in 1..m : daily[i].time = d
    BY DailyClosesAre DEF Rising
<1> HIDE DEF daily, m, rows
<1>3. \A w : w \in S <=> \E i \in 1..m : w = IsoWeekStart(daily[i].time)
    BY <1>2
<1>4. S \in SUBSET (0..LastDay)
  <2> SUFFICES ASSUME NEW i \in 1..m PROVE IsoWeekStart(daily[i].time) \in 0..LastDay
      BY <1>2
  <2>1. daily[i].time \in 0..LastDay /\ LastDay \in Nat
      BY <1>2, StoredIs
  <2>q. QED
      BY <2>1, SMT DEF IsoWeekStart
<1> HIDE DEF S
<1>5. InOrder(weeks, S)
    BY <1>4, AscendingIs
<1> HIDE DEF weeks
<1>6. /\ n \in Nat /\ DOMAIN weeks = 1..n /\ \A k \in 1..n : weeks[k] \in S
      /\ \A j, k \in 1..n : j < k => weeks[j] < weeks[k]
      /\ \A w \in S : \E k \in 1..n : weeks[k] = w
    BY <1>5 DEF InOrder
<1> HIDE DEF n
<1>7. \A w : WeekClose(w) # 0 <=> w \in S
  <2> SUFFICES ASSUME NEW w PROVE WeekClose(w) # 0 <=> w \in S
      OBVIOUS
  <2>1. WeekClose(w) # 0 <=> \E d \in Stored : IsoWeekStart(d) = w
      BY WeekHasClose
  <2>q. QED
      BY <1>2, <1>3, <2>1
<1>8. ASSUME NEW w \in S PROVE daily[last(w)].close = WeekClose(w)
  <2>1. In(w) \in SUBSET Int /\ m \in Int /\ \A i \in In(w) : i <= m
      BY <1>2
  <2>2. In(w) # {}
      BY <1>2, <1>3
  <2>3. last(w) \in In(w) /\ \A i \in In(w) : i <= last(w)
    <3> HIDE DEF In
    <3>q. QED
        BY <2>1, <2>2, MaxIsGreatest
  <2> DEFINE d == daily[last(w)].time
  <2>4. last(w) \in 1..m /\ d \in Stored /\ IsoWeekStart(d) = w
      BY <1>2, <2>3
  <2>5. ASSUME NEW e \in Stored, IsoWeekStart(e) = w PROVE e <= d
    <3>1. PICK i \in 1..m : daily[i].time = e
        BY <1>2
    <3>2. i \in In(w)
        BY <1>2, <2>5, <3>1
    <3>3. i <= last(w)
        BY <2>3, <3>2
    <3> HIDE DEF last
    <3>4. i = last(w) \/ i < last(w)
        BY <2>4, <3>3
    <3>5. e \in Int /\ d \in Int
        BY <2>4, StoredIs
    <3>q. QED
        BY <1>2, <2>4, <3>1, <3>4, <3>5
  <2> HIDE DEF last
  <2>6. daily[last(w)].close = closes[d]
      BY <1>2, <2>4
  <2> HIDE DEF d
  <2>7. WeekClose(w) = closes[d]
      BY <2>4, <2>5, WeekCloseIs
  <2>q. QED
      BY <2>6, <2>7
<1> HIDE DEF last
<1>9. DOMAIN rows = 1..n
    BY <1>1, <1>6
<1>10. \A k \in 1..n : rows[k] = [time |-> weeks[k], close |-> WeekClose(weeks[k])]
  <2> SUFFICES ASSUME NEW k \in 1..n PROVE rows[k] = [time |-> weeks[k], close |-> WeekClose(weeks[k])]
      OBVIOUS
  <2>1. rows[k] = [time |-> weeks[k], close |-> daily[last(weeks[k])].close]
      BY <1>1, <1>6
  <2>q. QED
      BY <1>6, <1>8, <2>1
<1>11. \A k \in 1..n : rows[k] \in Row
  <2> SUFFICES ASSUME NEW k \in 1..n PROVE rows[k] \in Row
      OBVIOUS
  <2>1. weeks[k] \in Int /\ WeekClose(weeks[k]) \in Int
      BY <1>6, <1>7, WeekHasClose
  <2>2. [time |-> weeks[k], close |-> WeekClose(weeks[k])] \in Row
      BY <2>1 DEF Row
  <2>q. QED
      BY <1>10, <2>2
<1>12. rows \in Seq(Row)
  <2>1. rows = [k \in 1..n |-> rows[k]]
      BY <1>1, <1>6, <1>9
  <2>q. QED
      BY <1>6, <1>11, <2>1
<1>13. Rising(rows)
    BY <1>6, <1>9, <1>10, <1>12 DEF Rising
<1>14. \A i \in DOMAIN rows : rows[i].close = WeekClose(rows[i].time) /\ rows[i].close # 0
    BY <1>6, <1>7, <1>9, <1>10
<1>15. \A v : WeekClose(v) # 0 => \E j \in DOMAIN rows : rows[j].time = v
    BY <1>6, <1>7, <1>9, <1>10
<1>16. Weekly(rows)
    BY <1>13, <1>14, <1>15 DEF Weekly
<1>q. QED
    BY <1>15, <1>16 DEF rows, daily

\* Types of rows in order.
LEMMA RowIs ==
    ASSUME NEW rows, Rising(rows)
    PROVE  /\ rows \in Seq(Row) /\ Len(rows) \in Nat /\ DOMAIN rows = 1..Len(rows)
           /\ \A i \in 1..Len(rows) : rows[i].time \in Int /\ rows[i].close \in Int
           /\ \A i, j \in 1..Len(rows) : i < j => rows[i].time < rows[j].time
<1>1. rows \in Seq(Row) /\ Len(rows) \in Nat /\ DOMAIN rows = 1..Len(rows)
    BY DEF Rising
<1>2. ASSUME NEW i \in 1..Len(rows) PROVE rows[i].time \in Int /\ rows[i].close \in Int
  <2>1. rows[i] \in Row
      BY <1>1
  <2>q. QED
      BY <2>1 DEF Row
<1>q. QED
    BY <1>1, <1>2 DEF Rising

\* A row is a Monday with a close, later rows are whole weeks later.
LEMMA WeeksOfRows ==
    ASSUME SignalsTypeOK, NEW rows, Weekly(rows)
    PROVE  /\ Rising(rows)
           /\ \A i \in 1..Len(rows) : /\ WeekClose(rows[i].time) # 0
                                      /\ rows[i].close = WeekClose(rows[i].time)
                                      /\ IsoWeekStart(rows[i].time) = rows[i].time
           /\ \A i, j \in 1..Len(rows) : i < j => rows[i].time + 7 <= rows[j].time
<1>1. Rising(rows) /\ DOMAIN rows = 1..Len(rows)
    BY RowIs DEF Weekly
<1>2. \A i \in 1..Len(rows) : /\ WeekClose(rows[i].time) # 0
                              /\ rows[i].close = WeekClose(rows[i].time)
                              /\ rows[i].time \in Int /\ IsoWeekStart(rows[i].time) = rows[i].time
  <2> SUFFICES ASSUME NEW i \in 1..Len(rows)
               PROVE  /\ WeekClose(rows[i].time) # 0
                      /\ rows[i].close = WeekClose(rows[i].time)
                      /\ rows[i].time \in Int /\ IsoWeekStart(rows[i].time) = rows[i].time
      OBVIOUS
  <2>1. WeekClose(rows[i].time) # 0 /\ rows[i].close = WeekClose(rows[i].time)
      BY <1>1 DEF Weekly
  <2>q. QED
      BY <2>1, WeekHasClose
<1>3. ASSUME NEW i \in 1..Len(rows), NEW j \in 1..Len(rows), i < j
      PROVE  rows[i].time + 7 <= rows[j].time
  <2> DEFINE a == rows[i].time
             b == rows[j].time
  <2>1. a \in Int /\ b \in Int /\ a < b /\ IsoWeekStart(a) = a /\ IsoWeekStart(b) = b
      BY <1>1, <1>2, <1>3, RowIs
  <2> HIDE DEF a, b
  <2>2. a + 7 <= b
      BY <2>1, IsoWeeksApart
  <2>q. QED
      BY <2>2 DEF a, b
<1>q. QED
    BY <1>1, <1>2, <1>3

\* The expected day is a day.
LEMMA ExpectedIs ==
    ASSUME SignalsTypeOK
    PROVE  LatestExpectedTradingDay(today, closed) \in Int
  BY SMT DEF SignalsTypeOK, LatestExpectedTradingDay, WeekdayUpTo

\* Only the last row can be of a week that is not over.
LEMMA CompletedWeeksAre ==
    ASSUME SignalsTypeOK
    PROVE  LET all == WeeklyCloses(DailyCloses)
           IN  /\ Weekly(CompletedWeeks)
               /\ \A v : (\E j \in 1..Len(CompletedWeeks) : CompletedWeeks[j].time = v)
                            <=> WeekClose(v) # 0 /\ IsCompletedTradingWeek(v, today, closed)
               /\ Len(CompletedWeeks) <= Len(all) /\ Len(all) <= Len(CompletedWeeks) + 1
               /\ \A i \in 1..Len(CompletedWeeks) : CompletedWeeks[i] = all[i]
<1> DEFINE all == WeeklyCloses(DailyCloses)
           n == Len(all)
           L == LatestExpectedTradingDay(today, closed)
           Over(v) == IsCompletedTradingWeek(v, today, closed)
<1>1. Weekly(all) /\ \A v : WeekClose(v) # 0 => \E j \in DOMAIN all : all[j].time = v
    BY WeeklyClosesAre
<1>2. CompletedWeeks = IF all = <<>> \/ Over(Last(all).time) THEN all ELSE Front(all)
    BY DEF CompletedWeeks, ExcludeIncompleteTradingWeek
<1> HIDE DEF all
<1>3. Rising(all) /\ all \in Seq(Row) /\ n \in Nat /\ DOMAIN all = 1..n
    BY <1>1, RowIs DEF Weekly
<1>4. \A i \in 1..n : /\ all[i].time \in Int /\ WeekClose(all[i].time) # 0
                      /\ IsoWeekStart(all[i].time) = all[i].time
    BY <1>1, <1>3, WeeksOfRows, RowIs
<1>5. \A i, j \in 1..n : i < j => all[i].time + 7 <= all[j].time
    BY <1>1, WeeksOfRows
<1>6. L \in Int
    BY ExpectedIs
<1> HIDE DEF n
<1>7. \A i \in 1..n : Over(all[i].time) <=> L >= all[i].time + 4
    BY <1>4 DEF IsCompletedTradingWeek, WeekEndingFriday
<1> HIDE DEF Over, L
<1>8. ASSUME NEW i \in 1..n, i < n PROVE Over(all[i].time)
  <2>1. n \in 1..n
      BY <1>3
  <2>2. PICK d \in Stored : IsoWeekStart(d) = all[n].time
      BY <1>4, <2>1, WeekHasClose
  <2>3. d \in Int /\ d <= L
      BY <2>2, StoredIs DEF SignalsTypeOK, L
  <2>4. all[n].time <= d
      BY <2>2, <2>3, IsoWeekBounds
  <2>5. all[i].time + 7 <= all[n].time /\ all[i].time \in Int /\ all[n].time \in Int
      BY <1>4, <1>5, <1>8, <2>1
  <2>q. QED
      BY <1>6, <1>7, <2>3, <2>4, <2>5
<1>9. CASE all = <<>> \/ Over(Last(all).time)
  <2>1. CompletedWeeks = all
      BY <1>2, <1>9
  <2>2. ASSUME NEW i \in 1..n PROVE Over(all[i].time)
    <3>1. n # 0 /\ all # <<>>
        BY <1>3 DEF n
    <3>2. Over(all[n].time)
        BY <1>9, <3>1 DEF Last, n
    <3>q. QED
        BY <1>3, <1>8, <3>2
  <2>3. \A v : (\E j \in 1..n : all[j].time = v) <=> WeekClose(v) # 0 /\ Over(v)
      BY <1>1, <1>3, <1>4, <2>2
  <2>4. n <= n + 1 /\ n <= n
      BY <1>3
  <2>q. QED
      BY <1>1, <2>1, <2>3, <2>4 DEF n, Over, all
<1>10. CASE ~(all = <<>> \/ Over(Last(all).time))
  <2> DEFINE rows == CompletedWeeks
  <2>1. rows = Front(all) /\ all # <<>>
      BY <1>2, <1>10
  <2>2. n \in 1..n /\ ~Over(all[n].time) /\ n - 1 \in Nat
      BY <1>3, <1>10 DEF Last, n
  <2>3. rows \in Seq(Row) /\ Len(rows) = n - 1 /\ \A i \in 1..(n - 1) : rows[i] = all[i]
    <3>1. rows = SubSeq(all, 1, n - 1)
        BY <2>1 DEF Front, n
    <3> HIDE DEF rows
    <3>q. QED
        BY <1>3, <2>2, <3>1 DEF n
  <2>4. DOMAIN rows = 1..(n - 1)
      BY <2>2, <2>3
  <2> HIDE DEF rows
  <2>5. \A i \in 1..(n - 1) : i \in 1..n /\ i < n
      BY <1>3
  <2>6. Rising(rows)
      BY <1>3, <2>3, <2>4, <2>5 DEF Rising
  <2>7. \A i \in DOMAIN rows : rows[i].close = WeekClose(rows[i].time) /\ rows[i].close # 0
      BY <1>1, <1>3, <2>3, <2>4, <2>5 DEF Weekly
  <2>8. ASSUME NEW v, NEW i \in DOMAIN rows, WeekClose(v) # 0, v <= rows[i].time
        PROVE  \E j \in DOMAIN rows : rows[j].time = v
    <3>1. PICK j \in 1..n : all[j].time = v
        BY <1>1, <1>3, <2>8
    <3>2. i \in 1..n /\ i < n /\ v <= all[i].time
        BY <2>3, <2>4, <2>5, <2>8
    <3>3. j # n
        BY <1>4, <1>5, <2>2, <3>1, <3>2
    <3>4. j \in 1..(n - 1)
        BY <1>3, <3>3
    <3>q. QED
        BY <2>3, <2>4, <3>1, <3>4
  <2>9. Weekly(rows)
      BY <2>6, <2>7, <2>8 DEF Weekly
  <2>10. \A v : (\E j \in 1..(n - 1) : rows[j].time = v) <=> WeekClose(v) # 0 /\ Over(v)
    <3>1. ASSUME NEW j \in 1..(n - 1) PROVE WeekClose(rows[j].time) # 0 /\ Over(rows[j].time)
        BY <1>4, <1>8, <2>3, <2>5
    <3>2. ASSUME NEW v, WeekClose(v) # 0, Over(v) PROVE \E j \in 1..(n - 1) : rows[j].time = v
      <4>1. PICK j \in 1..n : all[j].time = v
          BY <1>1, <1>3, <3>2
      <4>2. j # n
          BY <2>2, <3>2, <4>1
      <4>3. j \in 1..(n - 1)
          BY <1>3, <4>2
      <4>q. QED
          BY <2>3, <4>1, <4>3
    <3>q. QED
        BY <3>1, <3>2
  <2>11. Len(rows) <= n /\ n <= Len(rows) + 1
      BY <1>3, <2>3
  <2>q. QED
      BY <2>3, <2>9, <2>10, <2>11 DEF rows, Over, n, all
<1>q. QED
    BY <1>9, <1>10

-----------------------------------------------------------------------------
(* Stretches of weeks without a gap *)

\* A stretch begins, or the week before has no row.
Gap(rows, i) == i = 1 \/ rows[i].time # rows[i - 1].time + 7

Stretch(rows, i, e) ==
    /\ i \in 1..Len(rows) /\ e \in i..Len(rows)
    /\ Gap(rows, i)
    /\ \A k \in (i + 1)..e : ~Gap(rows, k)
    /\ e = Len(rows) \/ Gap(rows, e + 1)

EndOf(rows, i) == Min({j \in i..Len(rows) : j = Len(rows) \/ Gap(rows, j + 1)})

\* From where a stretch begins it reaches to the next gap, or to the last row.
LEMMA StretchEnds ==
    ASSUME NEW rows, Len(rows) \in Nat, NEW i \in 1..Len(rows), Gap(rows, i)
    PROVE  Stretch(rows, i, EndOf(rows, i))
<1> DEFINE n == Len(rows)
           E == {j \in i..n : j = n \/ Gap(rows, j + 1)}
           e == EndOf(rows, i)
<1>1. E \in SUBSET Nat /\ n \in E
    OBVIOUS
<1>2. e \in E /\ \A j \in E : e <= j
  <2>1. e = Min(E)
      BY DEF EndOf
  <2> HIDE DEF E, e
  <2>q. QED
      BY <1>1, <2>1, LeastIs
<1> HIDE DEF e, n
<1>3. ASSUME NEW k \in (i + 1)..e PROVE ~Gap(rows, k)
  <2>1. e \in i..n /\ i \in Int /\ n \in Int
      BY <1>2 DEF n
  <2>2. k - 1 \in i..n /\ (k - 1) + 1 = k /\ k - 1 < e
      BY <2>1
  <2>3. k - 1 \notin E
      BY <1>2, <2>1, <2>2
  <2>q. QED
      BY <2>2, <2>3
<1>q. QED
    BY <1>2, <1>3 DEF Stretch, n, e

\* Two stretches with a common row are the same.
LEMMA StretchesApart ==
    ASSUME NEW rows, Len(rows) \in Nat, NEW i, NEW e, NEW a, NEW b, Stretch(rows, i, e), Stretch(rows, a, b),
           NEW k \in Int, i <= k, k <= e, a <= k, k <= b
    PROVE  i = a /\ e = b
<1>1. i \in Int /\ e \in Int /\ a \in Int /\ b \in Int /\ e <= Len(rows) /\ b <= Len(rows)
    BY DEF Stretch
<1>2. ~(i < a)
  <2>1. i < a => a \in (i + 1)..e
      BY <1>1
  <2>q. QED
      BY <2>1 DEF Stretch
<1>3. ~(a < i)
  <2>1. a < i => i \in (a + 1)..b
      BY <1>1
  <2>q. QED
      BY <2>1 DEF Stretch
<1>4. ~(e < b)
  <2>1. e < b => e + 1 \in (a + 1)..b /\ e # Len(rows)
      BY <1>1
  <2>q. QED
      BY <2>1 DEF Stretch
<1>5. ~(b < e)
  <2>1. b < e => b + 1 \in (i + 1)..e /\ b # Len(rows)
      BY <1>1
  <2>q. QED
      BY <2>1 DEF Stretch
<1>q. QED
    BY <1>1, <1>2, <1>3, <1>4, <1>5

\* Every row is in a stretch.
LEMMA StretchThrough ==
    ASSUME NEW rows, Len(rows) \in Nat, NEW k \in 1..Len(rows)
    PROVE  \E i, e \in 1..Len(rows) : Stretch(rows, i, e) /\ k \in i..e
<1> DEFINE I == {j \in 1..k : Gap(rows, j)}
           i == Max(I)
           e == EndOf(rows, i)
<1>1. I \in SUBSET Int /\ 1 \in I /\ k \in Int /\ \A j \in I : j <= k
    BY DEF Gap
<1>2. i \in I /\ \A j \in I : j <= i
  <2> HIDE DEF I
  <2>q. QED
      BY <1>1, MaxIsGreatest
<1> HIDE DEF i
<1>3. i \in 1..Len(rows) /\ Gap(rows, i) /\ i <= k
    BY <1>2
<1>4. Stretch(rows, i, e)
    BY <1>3, StretchEnds
<1> HIDE DEF e
<1>5. e \in i..Len(rows) /\ (e = Len(rows) \/ Gap(rows, e + 1))
    BY <1>4 DEF Stretch
<1>6. ~(e < k)
  <2>1. e < k => e # Len(rows) /\ e + 1 \in 1..k /\ e + 1 > i
      BY <1>3, <1>5
  <2>2. e < k => e + 1 \in I
      BY <1>5, <2>1
  <2>q. QED
      BY <1>2, <1>3, <1>5, <2>1, <2>2
<1>7. k \in i..e /\ e \in 1..Len(rows)
    BY <1>3, <1>5, <1>6
<1>q. QED
    BY <1>3, <1>4, <1>7

Piece(rows, i, e) == SubSeq(rows, i, e)

\* What the code cuts are the stretches.
LEMMA SegmentsAre ==
    ASSUME SignalsTypeOK, NEW rows, Weekly(rows), NEW s
    PROVE  s \in Segments(rows) <=> \E i, e \in 1..Len(rows) : Stretch(rows, i, e) /\ s = Piece(rows, i, e)
<1> DEFINE n == Len(rows)
           cut(i) == i = 1 \/ WeekEndingFriday(rows[i].time) - WeekEndingFriday(rows[i - 1].time) > 7
           E(i) == {j \in i..n : j = n \/ cut(j + 1)}
           end(i) == Min(E(i))
<1>1. n \in Nat /\ DOMAIN rows = 1..n
    BY RowIs DEF Weekly
<1>2. Segments(rows) = {Piece(rows, i, end(i)) : i \in {k \in 1..n : cut(k)}}
    BY <1>1 DEF Segments, Piece
<1>3. ASSUME NEW i \in 1..n PROVE cut(i) <=> Gap(rows, i)
  <2>1. CASE i = 1
      BY <2>1 DEF Gap
  <2>2. CASE i # 1
    <3>1. i - 1 \in 1..n /\ i - 1 < i
        BY <1>1, <2>2
    <3> DEFINE t == rows[i].time
               u == rows[i - 1].time
    <3>2. t \in Int /\ u \in Int /\ IsoWeekStart(t) = t /\ IsoWeekStart(u) = u /\ u + 7 <= t
        BY <3>1, WeeksOfRows, RowIs
    <3>3. cut(i) <=> (t + 4) - (u + 4) > 7
        BY <2>2, <3>2 DEF WeekEndingFriday
    <3>4. Gap(rows, i) <=> t # u + 7
        BY <2>2 DEF Gap
    <3> HIDE DEF t, u
    <3>q. QED
        BY <3>2, <3>3, <3>4
  <2>q. QED
      BY <2>1, <2>2
<1> HIDE DEF cut
<1>4. ASSUME NEW i \in 1..n PROVE end(i) = EndOf(rows, i)
  <2>1. \A j \in i..n : (j = n \/ cut(j + 1)) <=> (j = n \/ Gap(rows, j + 1))
    <3>1. ASSUME NEW j \in i..n, j # n PROVE cut(j + 1) <=> Gap(rows, j + 1)
      <4>1. i \in Int /\ i >= 1 /\ n \in Int /\ j \in Int /\ i <= j /\ j <= n
          BY <1>1
      <4>2. j + 1 \in 1..n
          BY <3>1, <4>1
      <4>q. QED
          BY <1>3, <4>2
    <3>q. QED
        BY <3>1
  <2>2. E(i) = {j \in i..n : j = n \/ Gap(rows, j + 1)}
      BY <2>1
  <2> HIDE DEF E
  <2>q. QED
      BY <2>2 DEF EndOf
<1> HIDE DEF end
<1>5. ASSUME s \in Segments(rows)
      PROVE  \E i, e \in 1..n : Stretch(rows, i, e) /\ s = Piece(rows, i, e)
  <2>1. PICK i \in 1..n : cut(i) /\ s = Piece(rows, i, end(i))
      BY <1>2, <1>5
  <2>2. Stretch(rows, i, end(i))
      BY <1>1, <1>3, <1>4, <2>1, StretchEnds
  <2>3. end(i) \in 1..n
      BY <1>1, <2>2 DEF Stretch
  <2>q. QED
      BY <2>1, <2>2, <2>3
<1>6. ASSUME NEW i \in 1..n, NEW e \in 1..n, Stretch(rows, i, e), s = Piece(rows, i, e)
      PROVE  s \in Segments(rows)
  <2>1. Gap(rows, i) /\ i \in Int /\ i <= e
      BY <1>6 DEF Stretch
  <2>2. Stretch(rows, i, EndOf(rows, i))
      BY <1>1, <2>1, StretchEnds
  <2>3. i <= EndOf(rows, i)
      BY <2>2 DEF Stretch
  <2>4. EndOf(rows, i) = e
      BY <1>1, <1>6, <2>1, <2>2, <2>3, StretchesApart
  <2>q. QED
      BY <1>2, <1>3, <1>4, <1>6, <2>1, <2>4
<1>q. QED
    BY <1>5, <1>6

\* Within a stretch each row is a week after the one before.
LEMMA TimesInStretch ==
    ASSUME SignalsTypeOK, NEW rows, Weekly(rows), NEW i, NEW e, Stretch(rows, i, e), NEW k \in i..e
    PROVE  rows[k].time = rows[i].time + 7 * (k - i)
<1> DEFINE S == {n \in Nat : i + n <= e => rows[i + n].time = rows[i].time + 7 * n}
<1>1. /\ i \in 1..Len(rows) /\ e \in i..Len(rows) /\ Len(rows) \in Nat
      /\ \A j \in (i + 1)..e : ~Gap(rows, j)
    BY RowIs DEF Stretch, Weekly
<1>2. \A j \in 1..Len(rows) : rows[j].time \in Int
    BY RowIs DEF Weekly
<1>3. 0 \in S
  <2>1. rows[i + 0].time = rows[i].time + 7 * 0
    <3>1. i + 0 = i /\ rows[i].time \in Int
        BY <1>1, <1>2
    <3>q. QED
        BY <3>1
  <2>q. QED
      BY <2>1
<1>4. ASSUME NEW n \in S PROVE n + 1 \in S
  <2> SUFFICES ASSUME i + (n + 1) <= e PROVE rows[i + (n + 1)].time = rows[i].time + 7 * (n + 1)
      OBVIOUS
  <2>1. n \in Nat /\ i + n <= e /\ i + (n + 1) \in (i + 1)..e /\ (i + (n + 1)) - 1 = i + n
        /\ i + (n + 1) # 1
      BY <1>1
  <2>2. rows[i + (n + 1)].time = rows[i + n].time + 7
      BY <1>1, <2>1 DEF Gap
  <2>3. rows[i + n].time = rows[i].time + 7 * n /\ rows[i].time \in Int
      BY <1>1, <1>2, <2>1
  <2>q. QED
      BY <2>1, <2>2, <2>3
<1>5. k - i \in S
  <2>1. S \in SUBSET Nat /\ k - i \in Nat
      BY <1>1
  <2> HIDE DEF S
  <2>q. QED
      BY <1>3, <1>4, <2>1, SetInduction
<1>q. QED
  <2>1. i + (k - i) = k /\ i + (k - i) <= e
      BY <1>1
  <2>q. QED
      BY <1>5, <2>1

\* Before a stretch there is a week without a close.
LEMMA BeforeStretch ==
    ASSUME SignalsTypeOK, NEW rows, Weekly(rows), NEW i, NEW e, Stretch(rows, i, e)
    PROVE  WeekClose(rows[i].time - 7) = 0
<1>1. SUFFICES ASSUME WeekClose(rows[i].time - 7) # 0 PROVE FALSE
    OBVIOUS
<1>2. i \in 1..Len(rows) /\ Len(rows) \in Nat /\ DOMAIN rows = 1..Len(rows) /\ Gap(rows, i)
    BY RowIs DEF Stretch, Weekly
<1>3. \A j \in 1..Len(rows) : rows[j].time \in Int
    BY RowIs DEF Weekly
<1>4. PICK j \in 1..Len(rows) : rows[j].time = rows[i].time - 7
  <2>1. rows[i].time - 7 <= rows[i].time
      BY <1>2, <1>3
  <2>q. QED
      BY <1>1, <1>2, <2>1 DEF Weekly
<1>5. \A a, b \in 1..Len(rows) : a < b => rows[a].time + 7 <= rows[b].time
    BY WeeksOfRows
<1>6. j < i
  <2>1. j = i \/ i < j \/ j < i
      BY <1>2
  <2>q. QED
      BY <1>2, <1>3, <1>4, <1>5, <2>1
<1>7. i # 1 /\ i - 1 \in 1..Len(rows) /\ i - 1 < i
    BY <1>2, <1>6
<1>8. rows[i].time # rows[i - 1].time + 7 /\ rows[i - 1].time + 7 <= rows[i].time
    BY <1>2, <1>5, <1>7 DEF Gap
<1>9. rows[j].time <= rows[i - 1].time
  <2>1. j = i - 1 \/ j < i - 1
      BY <1>2, <1>6
  <2>q. QED
      BY <1>3, <1>5, <1>7, <2>1
<1>q. QED
    BY <1>2, <1>3, <1>4, <1>7, <1>8, <1>9

\* A piece of the rows, with closes, and week by week.
LaidOut(s, rows, i, e) ==
    Len(s) = e - i + 1 /\ \A j \in 1..Len(s) : i + j - 1 \in i..e /\ s[j] = rows[i + j - 1]

HaveCloses(s) == \A j \in 1..Len(s) : /\ s[j].time \in Int /\ s[j].close \in Int
                                      /\ s[j].close = WeekClose(s[j].time) /\ s[j].close # 0

WeekByWeek(s) == \A j, k \in 1..Len(s) : s[j].time = s[k].time + 7 * (j - k)

\* A segment's rows are those of its stretch, one for each week.
LEMMA StretchRows ==
    ASSUME SignalsTypeOK, NEW rows, Weekly(rows), NEW i, NEW e, Stretch(rows, i, e), NEW s, s = Piece(rows, i, e)
    PROVE  /\ DOMAIN s = 1..Len(s) /\ Len(s) \in Nat \ {0}
           /\ LaidOut(s, rows, i, e) /\ HaveCloses(s) /\ WeekByWeek(s)
<1>1. /\ i \in 1..Len(rows) /\ e \in i..Len(rows) /\ Len(rows) \in Nat /\ rows \in Seq(Row)
      /\ DOMAIN rows = 1..Len(rows)
    BY RowIs DEF Stretch, Weekly
<1>2. \A j \in 1..Len(rows) : /\ rows[j].time \in Int /\ rows[j].close \in Int
                              /\ rows[j].close = WeekClose(rows[j].time) /\ rows[j].close # 0
    BY <1>1, RowIs DEF Weekly
<1>3. /\ s \in Seq(Row) /\ Len(s) = e - i + 1
      /\ \A j \in 1..(e - i + 1) : s[j] = rows[i + j - 1]
  <2>1. i \in Int /\ e \in Int /\ i <= e /\ \A j \in i..e : rows[j] \in Row
      BY <1>1
  <2>q. QED
      BY <2>1, SubSeqProperties DEF Piece
<1>4. DOMAIN s = 1..Len(s) /\ Len(s) \in Nat \ {0}
    BY <1>1, <1>3
<1>5. \A j \in 1..Len(s) : i + j - 1 \in i..e /\ i + j - 1 \in 1..Len(rows)
    BY <1>1, <1>3
<1>6. ASSUME NEW j \in 1..Len(s) PROVE s[j].time = rows[i].time + 7 * (j - 1)
  <2>1. rows[i + j - 1].time = rows[i].time + 7 * ((i + j - 1) - i)
      BY <1>5, TimesInStretch
  <2>2. (i + j - 1) - i = j - 1
      BY <1>1
  <2>q. QED
      BY <1>3, <2>1, <2>2
<1>7. ASSUME NEW j \in 1..Len(s), NEW k \in 1..Len(s) PROVE s[j].time = s[k].time + 7 * (j - k)
  <2>1. s[j].time = rows[i].time + 7 * (j - 1) /\ s[k].time = rows[i].time + 7 * (k - 1)
      BY <1>6
  <2>2. rows[i].time \in Int /\ j \in Int /\ k \in Int
      BY <1>1, <1>2
  <2>q. QED
      BY <2>1, <2>2
<1>q. QED
  <2>1. LaidOut(s, rows, i, e)
      BY <1>3, <1>5 DEF LaidOut
  <2>2. HaveCloses(s)
      BY <1>2, <1>3, <1>5 DEF HaveCloses
  <2>3. WeekByWeek(s)
      BY <1>7 DEF WeekByWeek
  <2>q. QED
      BY <1>4, <2>1, <2>2, <2>3

-----------------------------------------------------------------------------
(* The rule *)

\* The weeks of the lookback up to a week, and the rule for them.
WindowOf(w) == {w - 7 * k : k \in 0..(RequestedWeeks - 1)}

ByRule(w) ==
    /\ \A v \in WindowOf(w) : WeekClose(v) # 0
    /\ Near(WeekClose(w), Max({WeekClose(v) : v \in WindowOf(w)}))

\* The lookback asked for is positive.
LEMMA RequestedIs ==
    RequestedWeeks \in Nat \ {0}
  BY SignalsAssumption

\* A row of a stretch passes exactly by the rule.
LEMMA PassesByRule ==
    ASSUME SignalsTypeOK, NEW rows, Weekly(rows), NEW i, NEW e, Stretch(rows, i, e),
           NEW s, s = Piece(rows, i, e), NEW q \in DOMAIN s
    PROVE  ScannerSeries(s, RequestedWeeks)[q] <=> ByRule(s[q].time)
<1> DEFINE n == Len(s)
           values == ClosesOf(s)
           w == s[q].time
           W == {values[j] : j \in {k \in 1..q : k > q - RequestedWeeks}}
           C == {WeekClose(v) : v \in WindowOf(w)}
<1>0. /\ DOMAIN s = 1..Len(s) /\ Len(s) \in Nat \ {0}
      /\ LaidOut(s, rows, i, e) /\ HaveCloses(s) /\ WeekByWeek(s)
    BY StretchRows
<1>1. /\ n \in Nat /\ DOMAIN s = 1..n /\ q \in 1..n
      /\ \A j \in 1..n : /\ s[j].time \in Int /\ s[j].close \in Int /\ s[j] = rows[i + j - 1]
                         /\ s[j].close = WeekClose(s[j].time) /\ s[j].close # 0
      /\ \A j, k \in 1..n : s[j].time = s[k].time + 7 * (j - k)
    BY <1>0, Zenon DEF LaidOut, HaveCloses, WeekByWeek
<1>2. values \in Seq(Int) /\ DOMAIN values = 1..n /\ \A j \in 1..n : values[j] = WeekClose(s[j].time)
  <2>1. values = [j \in 1..n |-> s[j].close]
      BY <1>1 DEF ClosesOf
  <2> HIDE DEF values, n
  <2>2. \A j \in 1..n : s[j].close \in Int /\ s[j].close = WeekClose(s[j].time)
      BY <1>1
  <2>3. n \in Nat
      BY <1>1
  <2>4. DOMAIN values = 1..n /\ \A j \in 1..n : values[j] = s[j].close
      BY <2>1
  <2>5. values \in [1..n -> Int]
      BY <2>1, <2>2
  <2>6. values \in Seq(Int)
      BY <2>3, <2>5
  <2>q. QED
      BY <2>2, <2>4, <2>6
<1> HIDE DEF values
<1>3. ScannerSeries(s, RequestedWeeks)[q]
        <=> q >= RequestedWeeks /\ Near(s[q].close, RollingMax(values, RequestedWeeks)[q])
  <2>1. ScannerSeries(s, RequestedWeeks)
          = [j \in 1..n |-> j >= RequestedWeeks /\ Near(s[j].close, RollingMax(values, RequestedWeeks)[j])]
      BY <1>1 DEF ScannerSeries, values
  <2>q. QED
      BY <1>1, <2>1
<1>4. RollingMax(values, RequestedWeeks)[q] = Max(W)
  <2>1. values \in Seq(Int) /\ q \in DOMAIN values
      BY <1>1, <1>2
  <2>q. QED
      BY <2>1, RequestedIs, RollingMaxIsMax
<1> HIDE DEF n
<1>5. CASE q >= RequestedWeeks
  <2>1. \A v \in WindowOf(w) : \E j \in 1..q : j > q - RequestedWeeks /\ s[j].time = v
    <3> SUFFICES ASSUME NEW k \in 0..(RequestedWeeks - 1)
                 PROVE  \E j \in 1..q : j > q - RequestedWeeks /\ s[j].time = w - 7 * k
        BY DEF WindowOf
    <3>0. /\ q \in Int /\ k \in Int /\ RequestedWeeks \in Int /\ n \in Int
          /\ 0 <= k /\ k <= RequestedWeeks - 1 /\ 1 <= q /\ q <= n /\ RequestedWeeks <= q
        BY <1>1, <1>5, RequestedIs
    <3>1. q - k \in 1..q /\ q - k > q - RequestedWeeks /\ q - k \in 1..n /\ (q - k) - q = 0 - k
        BY <3>0
    <3>2. s[q - k].time = w + 7 * ((q - k) - q) /\ w \in Int
        BY <1>1, <3>1
    <3> DEFINE t == s[q - k].time
    <3>3. t = w + 7 * (0 - k) /\ w \in Int /\ k \in Int
        BY <3>0, <3>1, <3>2
    <3> HIDE DEF t, w
    <3>4. t = w - 7 * k
        BY <3>3
    <3>q. QED
        BY <3>1, <3>4 DEF t, w
  <2>2. \A j \in 1..q : j > q - RequestedWeeks => s[j].time \in WindowOf(w)
    <3> SUFFICES ASSUME NEW j \in 1..q, j > q - RequestedWeeks PROVE s[j].time \in WindowOf(w)
        OBVIOUS
    <3>1. q - j \in 0..(RequestedWeeks - 1) /\ j \in 1..n /\ j - q = 0 - (q - j)
        BY <1>1, RequestedIs
    <3>2. s[j].time = w + 7 * (j - q) /\ w \in Int
        BY <1>1, <3>1
    <3> DEFINE t == s[j].time
    <3>3. t = w + 7 * (j - q) /\ w \in Int
        BY <3>2
    <3>3a. j \in Int /\ q \in Int
        BY <1>1
    <3> HIDE DEF t, w
    <3>4. t = w - 7 * (q - j)
        BY <3>3, <3>3a
    <3>q. QED
        BY <3>1, <3>4 DEF WindowOf, t, w
  <2>3. \A j \in 1..q : j \in 1..n
      BY <1>1
  <2>4. ASSUME NEW v \in WindowOf(w) PROVE WeekClose(v) # 0
    <3>1. PICK j \in 1..q : s[j].time = v
        BY <2>1
    <3>q. QED
        BY <1>1, <2>3, <3>1
  <2>5. W = C
    <3>1. \A x : x \in W <=> \E j \in 1..q : j > q - RequestedWeeks /\ x = WeekClose(s[j].time)
        BY <1>2, <2>3
    <3>2. \A x : x \in C <=> \E v \in WindowOf(w) : x = WeekClose(v)
        OBVIOUS
    <3> HIDE DEF W, C
    <3>3. \A x : x \in W <=> x \in C
        BY <2>1, <2>2, <3>1, <3>2
    <3>q. QED
        BY <3>3
  <2>6. s[q].close = WeekClose(w)
      BY <1>1
  <2> HIDE DEF W, C, w
  <2>7. ScannerSeries(s, RequestedWeeks)[q] <=> Near(WeekClose(w), Max(C))
      BY <1>3, <1>4, <1>5, <2>5, <2>6
  <2>q. QED
      BY <2>4, <2>7 DEF ByRule, C, w
<1>6. CASE ~(q >= RequestedWeeks)
  <2>1. q \in 0..(RequestedWeeks - 1) /\ 1 \in 1..n /\ 1 - q = 0 - (q - 1)
      BY <1>1, <1>6, RequestedIs
  <2>2. s[1].time = w + 7 * (1 - q) /\ w \in Int /\ s[1] = rows[i + 1 - 1]
      BY <1>1, <2>1
  <2>3. rows[i].time - 7 = w - 7 * q
    <3>1. i + 1 - 1 = i
        BY DEF Stretch
    <3> DEFINE t == rows[i].time
    <3>2. t = w + 7 * (1 - q) /\ w \in Int
        BY <2>2, <3>1
    <3>2a. q \in Int
        BY <1>1
    <3> HIDE DEF t, w
    <3>3. t - 7 = w - 7 * q
        BY <3>2, <3>2a
    <3>q. QED
        BY <3>3 DEF t, w
  <2>4. w - 7 * q \in WindowOf(w)
      BY <2>1 DEF WindowOf
  <2>5. WeekClose(w - 7 * q) = 0
      BY <2>3, BeforeStretch
  <2>q. QED
      BY <1>3, <1>6, <2>4, <2>5 DEF ByRule
<1>q. QED
    BY <1>5, <1>6

\* The series is false where the window is not full.
LEMMA SeriesIs ==
    ASSUME NEW s, NEW lookback, NEW q \in DOMAIN s, ScannerSeries(s, lookback)[q]
    PROVE  q >= lookback
  BY DEF ScannerSeries

\* What HighlightTimes takes from a segment.
Passing(s) ==
    LET lookback == EffectiveLookbackWeeks(Len(s), TRUE)
    IN  IF lookback = 0 THEN {}
        ELSE LET passes == ScannerSeries(s, lookback)
             IN  {s[i].time : i \in {k \in DOMAIN s : passes[k]}}

\* A segment gives the weeks of its rows that the rule admits.
LEMMA PassingIs ==
    ASSUME SignalsTypeOK, NEW rows, Weekly(rows), NEW i, NEW e, Stretch(rows, i, e),
           NEW s, s = Piece(rows, i, e), NEW w
    PROVE  w \in Passing(s) <=> \E q \in 1..Len(s) : w = s[q].time /\ ByRule(w)
<1>1. DOMAIN s = 1..Len(s) /\ Len(s) \in Nat
    BY StretchRows
<1>2. \A q \in 1..Len(s) : ScannerSeries(s, RequestedWeeks)[q] <=> ByRule(s[q].time)
    BY <1>1, PassesByRule
<1>3. CASE Len(s) >= RequestedWeeks
  <2>1. EffectiveLookbackWeeks(Len(s), TRUE) = RequestedWeeks /\ RequestedWeeks # 0
      BY <1>3, RequestedIs DEF EffectiveLookbackWeeks
  <2> DEFINE passes == ScannerSeries(s, RequestedWeeks)
  <2>2. Passing(s) = {s[q].time : q \in {k \in 1..Len(s) : passes[k]}}
      BY <1>1, <2>1 DEF Passing
  <2> HIDE DEF passes
  <2>3. w \in Passing(s) <=> \E q \in 1..Len(s) : passes[q] /\ w = s[q].time
      BY <2>2
  <2>q. QED
      BY <1>2, <2>3 DEF passes
<1>4. CASE ~(Len(s) >= RequestedWeeks)
  <2>1. EffectiveLookbackWeeks(Len(s), TRUE) = 0
      BY <1>4 DEF EffectiveLookbackWeeks
  <2>2. Passing(s) = {}
      BY <2>1 DEF Passing
  <2>3. ASSUME NEW q \in 1..Len(s) PROVE ~ByRule(s[q].time)
    <3>1. q < RequestedWeeks
        BY <1>1, <1>4, RequestedIs
    <3>2. ~ScannerSeries(s, RequestedWeeks)[q]
        BY <1>1, <3>1, RequestedIs, SeriesIs
    <3>q. QED
        BY <1>2, <3>2
  <2>q. QED
      BY <2>2, <2>3
<1>q. QED
    BY <1>3, <1>4

\* The bands are the completed rows that the rule admits.
LEMMA HighlightsAre ==
    ASSUME SignalsTypeOK, NEW w
    PROVE  w \in HighlightTimes <=> \E k \in 1..Len(CompletedWeeks) : w = CompletedWeeks[k].time /\ ByRule(w)
<1> DEFINE rows == CompletedWeeks
<1>1. HighlightTimes = UNION {Passing(s) : s \in Segments(rows)}
    BY DEF HighlightTimes, Passing
<1>2. Weekly(rows)
    BY CompletedWeeksAre
<1> HIDE DEF rows
<1>3. Len(rows) \in Nat
    BY <1>2, RowIs DEF Weekly
<1>4. ASSUME w \in HighlightTimes PROVE \E k \in 1..Len(rows) : w = rows[k].time /\ ByRule(w)
  <2>1. PICK s \in Segments(rows) : w \in Passing(s)
      BY <1>1, <1>4
  <2>2. PICK i \in 1..Len(rows), e \in 1..Len(rows) : Stretch(rows, i, e) /\ s = Piece(rows, i, e)
      BY <1>2, <2>1, SegmentsAre
  <2>3. PICK q \in 1..Len(s) : w = s[q].time /\ ByRule(w)
      BY <1>2, <2>1, <2>2, PassingIs
  <2>4. i + q - 1 \in i..e /\ s[q] = rows[i + q - 1]
    <3>1. LaidOut(s, rows, i, e)
        BY <1>2, <2>2, StretchRows
    <3>q. QED
        BY <3>1 DEF LaidOut
  <2>5. i + q - 1 \in 1..Len(rows)
      BY <1>3, <2>4
  <2>q. QED
      BY <2>3, <2>4, <2>5
<1>5. ASSUME NEW k \in 1..Len(rows), w = rows[k].time, ByRule(w) PROVE w \in HighlightTimes
  <2>1. PICK i \in 1..Len(rows), e \in 1..Len(rows) : Stretch(rows, i, e) /\ k \in i..e
      BY <1>3, StretchThrough
  <2> DEFINE s == Piece(rows, i, e)
  <2>2. s \in Segments(rows)
      BY <1>2, <2>1, SegmentsAre
  <2>3. Len(s) = e - i + 1 /\ \A j \in 1..Len(s) : s[j] = rows[i + j - 1]
    <3>1. LaidOut(s, rows, i, e)
        BY <1>2, <2>1, StretchRows
    <3> HIDE DEF s
    <3>q. QED
        BY <3>1 DEF LaidOut
  <2> HIDE DEF s
  <2>4. (k - i) + 1 \in 1..Len(s) /\ i + ((k - i) + 1) - 1 = k
      BY <1>3, <2>1, <2>3
  <2>5. s[(k - i) + 1].time = w
      BY <1>5, <2>3, <2>4
  <2>6. w \in Passing(s)
      BY <1>2, <1>5, <2>1, <2>4, <2>5, PassingIs DEF s
  <2>q. QED
      BY <1>1, <2>2, <2>6
<1>q. QED
    BY <1>4, <1>5 DEF rows

Mondays == {IsoWeekStart(d) : d \in TradingDay}

\* The weeks of the calendar, those with a close among them.
LEMMA MondaysAre ==
    ASSUME SignalsTypeOK, NEW w
    PROVE  /\ w \in Mondays => w \in Int /\ IsoWeekStart(w) = w
           /\ WeekClose(w) # 0 => w \in Mondays
<1>1. ASSUME NEW d \in TradingDay, w = IsoWeekStart(d) PROVE w \in Int /\ IsoWeekStart(w) = w
  <2>1. d \in Int
      BY SignalsAssumption
  <2>q. QED
      BY <1>1, <2>1, SMT DEF IsoWeekStart
<1>2. ASSUME WeekClose(w) # 0 PROVE w \in Mondays
  <2>1. PICK d \in Stored : IsoWeekStart(d) = w
      BY <1>2, WeekHasClose
  <2>q. QED
      BY <2>1 DEF Stored, Mondays
<1>q. QED
    BY <1>1, <1>2 DEF Mondays

\* A week is in its own window.
LEMMA RuleNeedsClose ==
    ASSUME NEW w \in Int, ByRule(w)
    PROVE  WeekClose(w) # 0
<1>1. 0 \in 0..(RequestedWeeks - 1) /\ w - 7 * 0 = w
    BY RequestedIs
<1>2. w \in WindowOf(w)
    BY <1>1 DEF WindowOf
<1>q. QED
    BY <1>2 DEF ByRule

\* The bands are the marked weeks.
LEMMA BandsAre ==
    ASSUME SignalsTypeOK
    PROVE  BandsAreRight
<1> DEFINE Over(w) == WeekEndingFriday(w) <= LatestCompletedWeekEnding(today, closed)
<1>1. Marked = {w \in Mondays : Over(w) /\ ByRule(w)}
    BY DEF Marked, Mondays, ByRule, WindowOf
<1>2. ASSUME NEW w \in Int PROVE Over(w) <=> IsCompletedTradingWeek(w, today, closed)
    BY CompletedWeeksAgree DEF SignalsTypeOK
<1> HIDE DEF Over
<1>3. ASSUME NEW w \in HighlightTimes PROVE w \in Marked
  <2>1. PICK k \in 1..Len(CompletedWeeks) : w = CompletedWeeks[k].time /\ ByRule(w)
      BY HighlightsAre
  <2>2. WeekClose(w) # 0 /\ IsCompletedTradingWeek(w, today, closed)
      BY <2>1, CompletedWeeksAre
  <2>3. w \in Mondays /\ w \in Int
      BY <2>2, MondaysAre
  <2>q. QED
      BY <1>1, <1>2, <2>1, <2>2, <2>3
<1>4. ASSUME NEW w \in Marked PROVE w \in HighlightTimes
  <2>1. w \in Mondays /\ Over(w) /\ ByRule(w)
      BY <1>1
  <2>2. w \in Int
      BY <2>1, MondaysAre
  <2>3. WeekClose(w) # 0 /\ IsCompletedTradingWeek(w, today, closed)
      BY <1>2, <2>1, <2>2, RuleNeedsClose
  <2>4. \E k \in 1..Len(CompletedWeeks) : CompletedWeeks[k].time = w
      BY <2>3, CompletedWeeksAre
  <2>q. QED
      BY <2>1, <2>4, HighlightsAre
<1>q. QED
    BY <1>3, <1>4 DEF BandsAreRight

-----------------------------------------------------------------------------
(* The backtest *)

\* The stock is held from the a-th row, the first of its kind, up to the x-th.
Holds(s, a, x) ==
    /\ a \in 1..Len(s) /\ x \in a..Len(s)
    /\ a = 1 \/ ~ByRule(s[a - 1].time)
    /\ ByRule(s[a].time)
    /\ \A k \in a..(x - 1) : ByRule(s[k].time)
    /\ x = Len(s) \/ ~ByRule(s[x].time)

TradeOf(s, a, x) == [entry |-> s[a].time, exit |-> s[x].time, open |-> ScannerSeries(s, RequestedWeeks)[x]]

ExitOf(s, a) == Min({Len(s)} \union {k \in (a + 1)..Len(s) : ~ByRule(s[k].time)})

\* A trade runs from its entry to the first row that does not pass.
LEMMA ExitIs ==
    ASSUME NEW s, Len(s) \in Nat, NEW a \in 1..Len(s), ByRule(s[a].time),
           a = 1 \/ ~ByRule(s[a - 1].time)
    PROVE  Holds(s, a, ExitOf(s, a))
<1> DEFINE n == Len(s)
           X == {n} \union {k \in (a + 1)..n : ~ByRule(s[k].time)}
           x == ExitOf(s, a)
<1>1. X \in SUBSET Nat /\ n \in X /\ a \in Nat
    OBVIOUS
<1>2. x \in X /\ \A k \in X : x <= k
  <2>1. x = Min(X)
      BY DEF ExitOf
  <2> HIDE DEF X, x
  <2>q. QED
      BY <1>1, <2>1, LeastIs
<1> HIDE DEF x
<1>3. x \in a..n /\ x \in Nat /\ n \in Nat /\ a <= n
    BY <1>1, <1>2
<1>4. x = n \/ ~ByRule(s[x].time)
    BY <1>2
<1>5. ASSUME NEW k \in a..(x - 1) PROVE ByRule(s[k].time)
  <2>1. CASE k = a
      BY <2>1
  <2>2. CASE k # a
    <3>1. k \in (a + 1)..n /\ k < x
        BY <1>1, <1>3, <2>2
    <3>2. ~(x <= k)
        BY <1>1, <1>3, <3>1
    <3>q. QED
        BY <1>2, <3>1, <3>2
  <2>q. QED
      BY <2>1, <2>2
<1>q. QED
    BY <1>3, <1>4, <1>5 DEF Holds, n, x

\* Trades of a segment that hold in the same row are one.
LEMMA HoldsOnce ==
    ASSUME NEW s, Len(s) \in Nat, NEW a, NEW x, NEW b, NEW y, Holds(s, a, x), Holds(s, b, y),
           NEW k \in Int, a <= k, k <= x, b <= k, k <= y, ByRule(s[k].time)
    PROVE  a = b /\ x = y
<1>1. /\ a \in Int /\ b \in Int /\ x \in Int /\ y \in Int /\ x <= Len(s) /\ y <= Len(s)
      /\ 1 <= a /\ 1 <= b
    BY DEF Holds
<1>2. ASSUME NEW u, NEW v, Holds(s, u, v), u <= k, k <= v, NEW l \in Int, u <= l, l <= k
      PROVE  ByRule(s[l].time)
  <2>1. CASE l = k
      BY <2>1
  <2>2. CASE l # k
    <3>1. u \in Int /\ v \in Int
        BY <1>2 DEF Holds
    <3>2. l \in u..(v - 1)
        BY <1>2, <2>2, <3>1
    <3>q. QED
        BY <1>2, <3>2 DEF Holds
  <2>q. QED
      BY <2>1, <2>2
<1>3. ~(a < b)
  <2>1. a < b => b - 1 \in Int /\ a <= b - 1 /\ b - 1 <= k /\ b # 1
      BY <1>1
  <2>2. a < b => ByRule(s[b - 1].time)
      BY <1>2, <2>1
  <2>q. QED
      BY <2>1, <2>2 DEF Holds
<1>4. ~(b < a)
  <2>1. b < a => a - 1 \in Int /\ b <= a - 1 /\ a - 1 <= k /\ a # 1
      BY <1>1
  <2>2. b < a => ByRule(s[a - 1].time)
      BY <1>2, <2>1
  <2>q. QED
      BY <2>1, <2>2 DEF Holds
<1>5. ~(x < y)
  <2>1. x < y => x \in b..(y - 1) /\ x # Len(s)
      BY <1>1
  <2>q. QED
      BY <2>1 DEF Holds
<1>6. ~(y < x)
  <2>1. y < x => y \in a..(x - 1) /\ y # Len(s)
      BY <1>1
  <2>q. QED
      BY <2>1 DEF Holds
<1>q. QED
    BY <1>1, <1>3, <1>4, <1>5, <1>6

\* Every row that passes is held.
LEMMA HeldFrom ==
    ASSUME NEW s, Len(s) \in Nat, NEW q \in 1..Len(s), ByRule(s[q].time)
    PROVE  \E a \in 1..q : \E x \in q..Len(s) : Holds(s, a, x)
<1> DEFINE J == {j \in 1..q : \A l \in j..q : ByRule(s[l].time)}
           a == Min(J)
           x == ExitOf(s, a)
<1>1. J \in SUBSET Nat /\ q \in J
    OBVIOUS
<1>2. a \in J /\ \A j \in J : a <= j
  <2> HIDE DEF J
  <2>q. QED
      BY <1>1, LeastIs
<1> HIDE DEF a
<1>3. a \in 1..q /\ \A l \in a..q : ByRule(s[l].time)
    BY <1>2
<1>4. a = 1 \/ ~ByRule(s[a - 1].time)
  <2> SUFFICES ASSUME a # 1, ByRule(s[a - 1].time) PROVE FALSE
      OBVIOUS
  <2>1. a - 1 \in 1..q /\ a - 1 < a
      BY <1>3
  <2>2. \A l \in (a - 1)..q : l = a - 1 \/ l \in a..q
      BY <1>3
  <2>3. a - 1 \in J
      BY <1>3, <2>1, <2>2
  <2>q. QED
      BY <1>2, <1>3, <2>1, <2>3
<1>5. a \in 1..Len(s) /\ ByRule(s[a].time)
  <2>1. a \in a..q /\ a \in 1..Len(s)
      BY <1>3
  <2>q. QED
      BY <1>3, <2>1
<1>6. Holds(s, a, x)
    BY <1>4, <1>5, ExitIs
<1> HIDE DEF x
<1>7. x \in a..Len(s) /\ (x = Len(s) \/ ~ByRule(s[x].time))
    BY <1>6 DEF Holds
<1>8. ~(x < q)
  <2>1. x < q => x \in a..q /\ x # Len(s)
      BY <1>3, <1>7
  <2>q. QED
      BY <1>3, <1>7, <2>1
<1>9. x \in q..Len(s)
    BY <1>3, <1>7, <1>8
<1>q. QED
    BY <1>3, <1>6, <1>9

\* The trades of a segment are its runs of rows that pass.
LEMMA TradesAre ==
    ASSUME SignalsTypeOK, NEW rows, Weekly(rows), NEW i, NEW e, Stretch(rows, i, e),
           NEW s, s = Piece(rows, i, e), NEW t
    PROVE  t \in BreakoutTrades(s) <=> \E a, x \in 1..Len(s) : Holds(s, a, x) /\ t = TradeOf(s, a, x)
<1> DEFINE n == Len(s)
           passes == ScannerSeries(s, RequestedWeeks)
           entries == {j \in 1..n : passes[j] /\ ~(j > 1 /\ passes[j - 1])}
           X(a) == {n} \union {k \in (a + 1)..n : ~passes[k]}
           exit(a) == Min(X(a))
<1>1. DOMAIN s = 1..n /\ n \in Nat
    BY StretchRows
<1>2. \A q \in 1..n : passes[q] <=> ByRule(s[q].time)
    BY <1>1, PassesByRule
<1>3. BreakoutTrades(s) = {[entry |-> s[a].time, exit |-> s[exit(a)].time, open |-> passes[exit(a)]] : a \in entries}
    BY <1>1 DEF BreakoutTrades
<1>4. ASSUME NEW a \in 1..n PROVE exit(a) = ExitOf(s, a)
  <2>1. \A k \in (a + 1)..n : k \in 1..n
      BY <1>1
  <2> HIDE DEF passes
  <2>2. {k \in (a + 1)..n : ~passes[k]} = {k \in (a + 1)..n : ~ByRule(s[k].time)}
      BY <1>2, <2>1
  <2>q. QED
      BY <2>2 DEF ExitOf
<1> HIDE DEF passes, exit
<1>5. \A a \in entries : a \in 1..n /\ TradeOf(s, a, ExitOf(s, a))
                                   = [entry |-> s[a].time, exit |-> s[exit(a)].time, open |-> passes[exit(a)]]
    BY <1>4 DEF TradeOf, passes
<1>6. \A a \in 1..n : a \in entries <=> ByRule(s[a].time) /\ (a = 1 \/ ~ByRule(s[a - 1].time))
  <2> SUFFICES ASSUME NEW a \in 1..n
               PROVE  a \in entries <=> ByRule(s[a].time) /\ (a = 1 \/ ~ByRule(s[a - 1].time))
      OBVIOUS
  <2>1. CASE a = 1
      BY <1>2, <2>1
  <2>2. CASE a # 1
    <3>1. a > 1 /\ a - 1 \in 1..n
        BY <1>1, <2>2
    <3>q. QED
        BY <1>2, <2>2, <3>1
  <2>q. QED
      BY <2>1, <2>2
<1> HIDE DEF entries
<1>7. ASSUME t \in BreakoutTrades(s) PROVE \E a, x \in 1..n : Holds(s, a, x) /\ t = TradeOf(s, a, x)
  <2>1. PICK a \in entries : t = TradeOf(s, a, ExitOf(s, a))
      BY <1>3, <1>5, <1>7
  <2>2. a \in 1..n /\ Holds(s, a, ExitOf(s, a))
      BY <1>1, <1>5, <1>6, ExitIs
  <2>3. ExitOf(s, a) \in 1..n
      BY <1>1, <2>2 DEF Holds
  <2>q. QED
      BY <2>1, <2>2, <2>3
<1>8. ASSUME NEW a \in 1..n, NEW x \in 1..n, Holds(s, a, x), t = TradeOf(s, a, x)
      PROVE  t \in BreakoutTrades(s)
  <2> DEFINE y == ExitOf(s, a)
  <2>1. ByRule(s[a].time) /\ (a = 1 \/ ~ByRule(s[a - 1].time)) /\ a <= x
      BY <1>8 DEF Holds
  <2>2. Holds(s, a, y)
      BY <1>1, <2>1, ExitIs
  <2> HIDE DEF y
  <2>3. a <= y /\ a \in Int /\ a <= a
    <3>1. y \in a..n /\ a \in 1..n
        BY <2>2 DEF Holds
    <3>q. QED
        BY <1>1, <3>1
  <2>4. x = y
      BY <1>1, <1>8, <2>1, <2>2, <2>3, HoldsOnce
  <2>5. a \in entries
      BY <1>6, <2>1
  <2>6. t = [entry |-> s[a].time, exit |-> s[exit(a)].time, open |-> passes[exit(a)]]
      BY <1>5, <1>8, <2>4, <2>5 DEF y
  <2>q. QED
      BY <1>3, <2>5, <2>6
<1>q. QED
    BY <1>7, <1>8

\* The weeks in which a trade holds the stock.
HeldIn(t) == {w \in Mondays : t.entry <= w /\ (w < t.exit \/ (t.open /\ w = t.exit))}

\* A trade holds in the rows of its run that pass, and in no other week.
LEMMA HeldInIs ==
    ASSUME SignalsTypeOK, NEW rows, Weekly(rows), NEW i, NEW e, Stretch(rows, i, e),
           NEW s, s = Piece(rows, i, e), NEW a, NEW x, Holds(s, a, x), NEW w
    PROVE  w \in HeldIn(TradeOf(s, a, x)) <=> \E k \in a..x : w = s[k].time /\ ByRule(w)
<1> DEFINE n == Len(s)
           t == TradeOf(s, a, x)
<1>1. /\ DOMAIN s = 1..n /\ n \in Nat
      /\ \A j \in 1..n : s[j].time \in Int /\ s[j].close = WeekClose(s[j].time) /\ s[j].close # 0
      /\ WeekByWeek(s)
  <2>1. DOMAIN s = 1..Len(s) /\ Len(s) \in Nat \ {0} /\ HaveCloses(s) /\ WeekByWeek(s)
      BY StretchRows
  <2>q. QED
      BY <2>1 DEF HaveCloses
<1>2. /\ a \in 1..n /\ x \in a..n /\ x \in 1..n
      /\ \A k \in a..(x - 1) : ByRule(s[k].time)
  <2>1. a \in 1..n /\ x \in a..n /\ \A k \in a..(x - 1) : ByRule(s[k].time)
      BY DEF Holds
  <2>2. x \in 1..n
      BY <1>1, <2>1
  <2>q. QED
      BY <2>1, <2>2
<1>3. t.entry = s[a].time /\ t.exit = s[x].time /\ (t.open <=> ByRule(s[x].time))
  <2>1. t.entry = s[a].time /\ t.exit = s[x].time /\ t.open = ScannerSeries(s, RequestedWeeks)[x]
      BY DEF TradeOf
  <2>q. QED
      BY <1>1, <1>2, <2>1, PassesByRule
<1> HIDE DEF t
<1>4. w \in HeldIn(t) <=> w \in Mondays /\ t.entry <= w /\ (w < t.exit \/ (t.open /\ w = t.exit))
    BY DEF HeldIn
<1>4a. \A j, k \in 1..n : s[j].time = s[k].time + 7 * (j - k)
    BY <1>1 DEF WeekByWeek
<1> DEFINE u == s[a].time
           v == s[x].time
<1>5. v = u + 7 * (x - a) /\ u \in Int /\ v \in Int
    BY <1>1, <1>2, <1>4a
<1> HIDE DEF n
<1>6. ASSUME w \in HeldIn(t) PROVE \E k \in a..x : w = s[k].time /\ ByRule(w)
  <2>1. w \in Int /\ IsoWeekStart(w) = w
      BY <1>4, <1>6, MondaysAre
  <2>2. IsoWeekStart(u) = u
      BY <1>1, <1>2, WeekHasClose
  <2>3. u <= w /\ w <= v
    <3> HIDE DEF u, v
    <3>1. u <= w /\ (w < v \/ w = v)
        BY <1>3, <1>4, <1>6 DEF u, v
    <3>q. QED
        BY <1>5, <2>1, <3>1
  <2>4. PICK m \in Int : w = u + 7 * m
    <3> HIDE DEF u
    <3>1. w % 7 = 0 /\ u % 7 = 0
        BY <1>5, <2>1, <2>2 DEF IsoWeekStart
    <3>2. w = 7 * (w \div 7) /\ u = 7 * (u \div 7) /\ (w \div 7) - (u \div 7) \in Int
        BY <1>5, <2>1, <3>1
    <3>3. w = u + 7 * ((w \div 7) - (u \div 7))
        BY <1>5, <2>1, <3>2
    <3>q. QED
        BY <3>2, <3>3
  <2>5. a \in Int /\ x \in Int
      BY <1>1, <1>2
  <2>6. 0 <= m /\ m <= x - a
    <3> HIDE DEF u, v
    <3>q. QED
        BY <1>5, <2>3, <2>4, <2>5
  <2>7. a + m \in a..x /\ (a + m) - a = m /\ a + m \in 1..n
      BY <1>1, <1>2, <2>5, <2>6
  <2>8. s[a + m].time = w
      BY <1>2, <1>4a, <2>4, <2>7
  <2>9. ByRule(w)
    <3>1. CASE a + m = x
      <4>1. w = v /\ ~(w < v)
          BY <1>5, <2>1, <2>8, <3>1
      <4>2. t.open
          BY <1>3, <1>4, <1>6, <4>1
      <4>q. QED
          BY <1>3, <2>8, <3>1, <4>2
    <3>2. CASE a + m # x
      <4>1. a + m \in a..(x - 1)
          BY <2>5, <2>7, <3>2
      <4>q. QED
          BY <1>2, <2>8, <4>1
    <3>q. QED
        BY <3>1, <3>2
  <2>q. QED
      BY <2>7, <2>8, <2>9
<1>7. ASSUME NEW k \in a..x, w = s[k].time, ByRule(w) PROVE w \in HeldIn(t)
  <2>1. k \in 1..n /\ k \in Int /\ a \in Int /\ x \in Int /\ a <= k /\ k <= x
      BY <1>1, <1>2
  <2>2. w \in Int /\ w \in Mondays
      BY <1>1, <1>7, <2>1, MondaysAre
  <2>3. w = u + 7 * (k - a) /\ w = v + 7 * (k - x)
      BY <1>2, <1>4a, <1>7, <2>1
  <2>4. u <= w /\ (w < v \/ k = x)
    <3> HIDE DEF u, v
    <3>q. QED
        BY <1>5, <2>1, <2>2, <2>3
  <2>5. CASE k = x
      BY <1>3, <1>4, <1>7, <2>2, <2>4, <2>5
  <2>6. CASE k # x
      BY <1>3, <1>4, <2>2, <2>4, <2>6
  <2>q. QED
      BY <2>5, <2>6
<1>q. QED
    BY <1>6, <1>7 DEF t

\* A trade of the backtest, in the stretch it runs over.
LEMMA TradeIs ==
    ASSUME SignalsTypeOK, NEW t
    PROVE  t \in SymbolBreakoutBacktest <=>
             \E i, e \in 1..Len(CompletedWeeks) :
                /\ Stretch(CompletedWeeks, i, e)
                /\ \E a, x \in 1..Len(Piece(CompletedWeeks, i, e)) :
                      /\ Holds(Piece(CompletedWeeks, i, e), a, x)
                      /\ t = TradeOf(Piece(CompletedWeeks, i, e), a, x)
<1> DEFINE rows == CompletedWeeks
<1>1. Weekly(rows)
    BY CompletedWeeksAre
<1>2. SymbolBreakoutBacktest = UNION {BreakoutTrades(s) : s \in Segments(rows)}
    BY DEF SymbolBreakoutBacktest
<1> HIDE DEF rows
<1>3. ASSUME t \in SymbolBreakoutBacktest
      PROVE  \E i, e \in 1..Len(rows) :
                /\ Stretch(rows, i, e)
                /\ \E a, x \in 1..Len(Piece(rows, i, e)) :
                      Holds(Piece(rows, i, e), a, x) /\ t = TradeOf(Piece(rows, i, e), a, x)
  <2>1. PICK s \in Segments(rows) : t \in BreakoutTrades(s)
      BY <1>2, <1>3
  <2>2. PICK i \in 1..Len(rows), e \in 1..Len(rows) : Stretch(rows, i, e) /\ s = Piece(rows, i, e)
      BY <1>1, <2>1, SegmentsAre
  <2>3. PICK a \in 1..Len(s), x \in 1..Len(s) : Holds(s, a, x) /\ t = TradeOf(s, a, x)
      BY <1>1, <2>1, <2>2, TradesAre
  <2>q. QED
      BY <2>2, <2>3
<1>4. ASSUME NEW i \in 1..Len(rows), NEW e \in 1..Len(rows), Stretch(rows, i, e),
             NEW a \in 1..Len(Piece(rows, i, e)), NEW x \in 1..Len(Piece(rows, i, e)),
             Holds(Piece(rows, i, e), a, x), t = TradeOf(Piece(rows, i, e), a, x)
      PROVE  t \in SymbolBreakoutBacktest
  <2> DEFINE s == Piece(rows, i, e)
  <2>1. s \in Segments(rows)
      BY <1>1, <1>4, SegmentsAre
  <2>2. t \in BreakoutTrades(s)
      BY <1>1, <1>4, TradesAre
  <2>q. QED
      BY <1>2, <2>1, <2>2
<1>q. QED
    BY <1>3, <1>4 DEF rows

\* The trades are apart and hold in the marked weeks.
LEMMA TradesAreBands ==
    ASSUME SignalsTypeOK
    PROVE  TradesAreTheBands
<1> DEFINE rows == CompletedWeeks
           T == SymbolBreakoutBacktest
           s(i, e) == Piece(rows, i, e)
<1>1. Weekly(rows)
    BY CompletedWeeksAre
<1>2. \A t : t \in T <=> \E i, e \in 1..Len(rows) :
                            /\ Stretch(rows, i, e)
                            /\ \E a, x \in 1..Len(Piece(rows, i, e)) :
                                  Holds(Piece(rows, i, e), a, x) /\ t = TradeOf(Piece(rows, i, e), a, x)
    BY TradeIs
<1>3. \A w : w \in HighlightTimes <=> \E k \in 1..Len(rows) : w = rows[k].time /\ ByRule(w)
    BY HighlightsAre
<1> HIDE DEF rows, T
<1>4. /\ Len(rows) \in Nat
      /\ \A k \in 1..Len(rows) : rows[k].time \in Int
      /\ \A j, k \in 1..Len(rows) : j < k => rows[j].time < rows[k].time
    BY <1>1, RowIs DEF Weekly
<1>4b. ASSUME NEW i \in 1..Len(rows), NEW e \in 1..Len(rows), Stretch(rows, i, e)
       PROVE  Len(s(i, e)) = e - i + 1 /\ \A j \in 1..Len(s(i, e)) : s(i, e)[j] = rows[i + j - 1]
  <2>1. LaidOut(s(i, e), rows, i, e)
      BY <1>1, <1>4b, StretchRows
  <2> HIDE DEF s
  <2>q. QED
      BY <2>1 DEF LaidOut
<1>5. ASSUME NEW t \in T, NEW w \in HeldIn(t)
      PROVE  \E i, e \in 1..Len(rows) : \E a, x \in 1..Len(s(i, e)) : \E k \in a..x :
                /\ Stretch(rows, i, e) /\ Holds(s(i, e), a, x) /\ t = TradeOf(s(i, e), a, x)
                /\ i + k - 1 \in i..e /\ k \in 1..Len(s(i, e)) /\ s(i, e)[k] = rows[i + k - 1]
                /\ w = s(i, e)[k].time /\ ByRule(w)
  <2>1. PICK i \in 1..Len(rows), e \in 1..Len(rows) :
                /\ Stretch(rows, i, e)
                /\ \E a, x \in 1..Len(s(i, e)) : Holds(s(i, e), a, x) /\ t = TradeOf(s(i, e), a, x)
      BY <1>2
  <2>2. PICK a \in 1..Len(s(i, e)), x \in 1..Len(s(i, e)) : Holds(s(i, e), a, x) /\ t = TradeOf(s(i, e), a, x)
      BY <2>1
  <2>3. PICK k \in a..x : w = s(i, e)[k].time /\ ByRule(w)
      BY <1>1, <1>5, <2>1, <2>2, HeldInIs
  <2>4. Len(s(i, e)) \in Nat
      BY <1>1, <2>1, StretchRows
  <2>4a. Len(s(i, e)) = e - i + 1 /\ \A j \in 1..Len(s(i, e)) : s(i, e)[j] = rows[i + j - 1]
    BY <1>4b, <2>1
  <2>5. k \in 1..Len(s(i, e)) /\ i + k - 1 \in i..e
    <3>1. k \in 1..Len(s(i, e))
        BY <2>4
    <3>q. QED
        BY <1>4, <2>4a, <3>1
  <2>q. QED
      BY <2>1, <2>2, <2>3, <2>4, <2>4a, <2>5
<1>6. ASSUME NEW w \in HighlightTimes PROVE \E t \in T : w \in HeldIn(t)
  <2>1. PICK k \in 1..Len(rows) : w = rows[k].time /\ ByRule(w)
      BY <1>3
  <2>2. PICK i \in 1..Len(rows), e \in 1..Len(rows) : Stretch(rows, i, e) /\ k \in i..e
      BY <1>4, StretchThrough
  <2> DEFINE p == s(i, e)
  <2>3. Len(p) = e - i + 1 /\ \A j \in 1..Len(p) : p[j] = rows[i + j - 1]
      BY <1>4b, <2>2
  <2>3a. Len(p) \in Nat
      BY <1>1, <2>2, StretchRows
  <2> DEFINE q == (k - i) + 1
  <2> HIDE DEF p
  <2>4. q \in 1..Len(p) /\ i + q - 1 = k
      BY <1>4, <2>2, <2>3
  <2> HIDE DEF q
  <2>5. p[q].time = w /\ ByRule(p[q].time)
      BY <2>1, <2>3, <2>4
  <2>6. PICK a \in 1..q, x \in q..Len(p) : Holds(p, a, x)
      BY <2>3a, <2>4, <2>5, HeldFrom
  <2>7. a \in 1..Len(p) /\ x \in 1..Len(p) /\ q \in a..x
      BY <2>3a, <2>4
  <2>8. w \in HeldIn(TradeOf(p, a, x))
      BY <1>1, <2>2, <2>5, <2>6, <2>7, HeldInIs DEF p
  <2>9. TradeOf(p, a, x) \in T
      BY <1>2, <2>2, <2>6, <2>7 DEF p
  <2>q. QED
      BY <2>8, <2>9
<1>7. UNION {HeldIn(t) : t \in T} = HighlightTimes
  <2>1. ASSUME NEW t \in T, NEW w \in HeldIn(t) PROVE w \in HighlightTimes
    <3>1. PICK i \in 1..Len(rows), e \in 1..Len(rows) : \E a, x \in 1..Len(s(i, e)) : \E k \in a..x :
                /\ Stretch(rows, i, e) /\ i + k - 1 \in i..e /\ s(i, e)[k] = rows[i + k - 1]
                /\ w = s(i, e)[k].time /\ ByRule(w)
        BY <1>5, <2>1
    <3>2. PICK k : i + k - 1 \in i..e /\ w = rows[i + k - 1].time /\ ByRule(w)
        BY <3>1
    <3>3. i + k - 1 \in 1..Len(rows)
        BY <1>4, <3>2
    <3>q. QED
        BY <1>3, <3>2, <3>3
  <2>q. QED
      BY <1>6, <2>1
<1>8. ASSUME NEW t \in T, NEW u \in T, NEW w \in HeldIn(t), w \in HeldIn(u) PROVE t = u
  <2>1. PICK i \in 1..Len(rows), e \in 1..Len(rows) : \E a, x \in 1..Len(s(i, e)) : \E k \in a..x :
                /\ Stretch(rows, i, e) /\ Holds(s(i, e), a, x) /\ t = TradeOf(s(i, e), a, x)
                /\ i + k - 1 \in i..e /\ k \in 1..Len(s(i, e)) /\ s(i, e)[k] = rows[i + k - 1]
                /\ w = s(i, e)[k].time /\ ByRule(w)
      BY <1>5
  <2>2. PICK a \in 1..Len(s(i, e)), x \in 1..Len(s(i, e)) : \E k \in a..x :
                /\ Stretch(rows, i, e) /\ Holds(s(i, e), a, x) /\ t = TradeOf(s(i, e), a, x)
                /\ i + k - 1 \in i..e /\ k \in 1..Len(s(i, e)) /\ s(i, e)[k] = rows[i + k - 1]
                /\ w = s(i, e)[k].time /\ ByRule(w)
      BY <2>1
  <2>3. PICK k \in a..x :
                /\ Stretch(rows, i, e) /\ Holds(s(i, e), a, x) /\ t = TradeOf(s(i, e), a, x)
                /\ i + k - 1 \in i..e /\ k \in 1..Len(s(i, e)) /\ s(i, e)[k] = rows[i + k - 1]
                /\ w = s(i, e)[k].time /\ ByRule(w)
      BY <2>2
  <2>4. PICK i2 \in 1..Len(rows), e2 \in 1..Len(rows) : \E a2, x2 \in 1..Len(s(i2, e2)) : \E k2 \in a2..x2 :
                /\ Stretch(rows, i2, e2) /\ Holds(s(i2, e2), a2, x2) /\ u = TradeOf(s(i2, e2), a2, x2)
                /\ i2 + k2 - 1 \in i2..e2 /\ k2 \in 1..Len(s(i2, e2)) /\ s(i2, e2)[k2] = rows[i2 + k2 - 1]
                /\ w = s(i2, e2)[k2].time /\ ByRule(w)
      BY <1>5, <1>8
  <2>5. PICK a2 \in 1..Len(s(i2, e2)), x2 \in 1..Len(s(i2, e2)) : \E k2 \in a2..x2 :
                /\ Stretch(rows, i2, e2) /\ Holds(s(i2, e2), a2, x2) /\ u = TradeOf(s(i2, e2), a2, x2)
                /\ i2 + k2 - 1 \in i2..e2 /\ k2 \in 1..Len(s(i2, e2)) /\ s(i2, e2)[k2] = rows[i2 + k2 - 1]
                /\ w = s(i2, e2)[k2].time /\ ByRule(w)
      BY <2>4
  <2>6. PICK k2 \in a2..x2 :
                /\ Stretch(rows, i2, e2) /\ Holds(s(i2, e2), a2, x2) /\ u = TradeOf(s(i2, e2), a2, x2)
                /\ i2 + k2 - 1 \in i2..e2 /\ k2 \in 1..Len(s(i2, e2)) /\ s(i2, e2)[k2] = rows[i2 + k2 - 1]
                /\ w = s(i2, e2)[k2].time /\ ByRule(w)
      BY <2>5
  <2> HIDE DEF s
  <2> DEFINE r == i + k - 1
             r2 == i2 + k2 - 1
  <2>7. rows[r].time = w /\ rows[r2].time = w /\ r \in i..e /\ r2 \in i2..e2
      BY <2>3, <2>6
  <2> HIDE DEF r, r2
  <2>8. r \in 1..Len(rows) /\ r2 \in 1..Len(rows)
      BY <1>4, <2>7
  <2>9. r = r2
    <3>1. r < r2 \/ r2 < r \/ r = r2
        BY <1>4, <2>8
    <3>2. w \in Int /\ ~(w < w)
        BY <1>4, <2>7, <2>8
    <3>3. ~(r < r2)
      <4>1. r < r2 => rows[r].time < rows[r2].time
          BY <1>4, <2>8
      <4>q. QED
          BY <2>7, <3>2, <4>1
    <3>4. ~(r2 < r)
      <4>1. r2 < r => rows[r2].time < rows[r].time
          BY <1>4, <2>8
      <4>q. QED
          BY <2>7, <3>2, <4>1
    <3>q. QED
        BY <3>1, <3>3, <3>4
  <2>10. r \in Int /\ i <= r /\ r <= e /\ i2 <= r /\ r <= e2
      BY <1>4, <2>7, <2>8, <2>9
  <2>11. i = i2 /\ e = e2
      BY <1>4, <2>3, <2>6, <2>10, StretchesApart
  <2>12. Len(s(i, e)) \in Nat
      BY <1>1, <2>3, StretchRows DEF s
  <2>13. k \in Int /\ k2 \in Int /\ a <= k /\ k <= x /\ a2 <= k2 /\ k2 <= x2
      BY <2>3, <2>6, <2>11, <2>12
  <2>14. k = k2
      BY <1>4, <2>9, <2>11, <2>13 DEF r, r2
  <2>15. a = a2 /\ x = x2
      BY <2>3, <2>6, <2>11, <2>12, <2>13, <2>14, HoldsOnce
  <2>q. QED
      BY <2>3, <2>6, <2>11, <2>15
<1>9. \A t, u \in T : t # u => HeldIn(t) \cap HeldIn(u) = {}
    BY <1>8
<1>q. QED
    BY <1>7, <1>9 DEF TradesAreTheBands, HeldIn, Mondays, T

-----------------------------------------------------------------------------
(* The verdicts *)

\* The latest segment is the stretch that ends with the last row.
LEMMA LatestSegmentIs ==
    ASSUME SignalsTypeOK, NEW rows, Weekly(rows), rows # <<>>
    PROVE  /\ Len(rows) \in Nat \ {0}
           /\ \E i \in 1..Len(rows) : /\ Stretch(rows, i, Len(rows))
                                      /\ LatestSegment(rows) = Piece(rows, i, Len(rows))
<1> DEFINE n == Len(rows)
<1>1. n \in Nat /\ rows \in Seq(Row)
    BY RowIs DEF Weekly
<1>2. n \in 1..n
    BY <1>1
<1>3. \A j, k \in 1..n : j < k => rows[j].time < rows[k].time
    BY RowIs DEF Weekly
<1>4. \A j \in 1..n : rows[j].time \in Int
    BY RowIs DEF Weekly
<1> HIDE DEF n
<1>5. ASSUME NEW i \in 1..n, NEW e \in 1..n, Stretch(rows, i, e) PROVE Last(Piece(rows, i, e)) = rows[e]
  <2> DEFINE s == Piece(rows, i, e)
  <2>1. Len(s) = e - i + 1 /\ \A j \in 1..Len(s) : s[j] = rows[i + j - 1]
    <3>1. LaidOut(s, rows, i, e)
        BY <1>5, StretchRows
    <3> HIDE DEF s
    <3>q. QED
        BY <3>1 DEF LaidOut
  <2> HIDE DEF s
  <2>2. i \in 1..e
      BY <1>1, <1>5 DEF Stretch
  <2>3. Len(s) \in 1..Len(s) /\ i + Len(s) - 1 = e
      BY <1>1, <2>1, <2>2
  <2>4. Last(s) = s[Len(s)]
      BY DEF Last
  <2>q. QED
      BY <2>1, <2>3, <2>4 DEF s
<1>6. Last(rows) = rows[n]
    BY DEF Last, n
<1>7. \E s \in Segments(rows) : Last(s) = Last(rows)
  <2>1. PICK i \in 1..n, e \in 1..n : Stretch(rows, i, e) /\ n \in i..e
      BY <1>1, <1>2, StretchThrough DEF n
  <2>2. e = n
      BY <1>1, <2>1
  <2>3. Piece(rows, i, e) \in Segments(rows)
      BY <2>1, SegmentsAre DEF n
  <2>4. Last(Piece(rows, i, e)) = rows[n]
      BY <1>5, <2>1, <2>2
  <2>q. QED
      BY <1>6, <2>3, <2>4
<1> DEFINE latest == LatestSegment(rows)
<1>8. latest \in Segments(rows) /\ Last(latest) = Last(rows)
  <2>1. latest = CHOOSE s \in Segments(rows) : Last(s) = Last(rows)
      BY DEF LatestSegment
  <2> HIDE DEF latest
  <2>q. QED
      BY <1>7, <2>1
<1> HIDE DEF latest
<1>9. PICK i \in 1..n, e \in 1..n : Stretch(rows, i, e) /\ latest = Piece(rows, i, e)
    BY <1>8, SegmentsAre DEF n
<1>10. rows[e] = rows[n]
    BY <1>5, <1>6, <1>8, <1>9
<1>11. e = n
  <2>1. e < n \/ e = n
      BY <1>1
  <2>2. rows[e].time = rows[n].time
      BY <1>10
  <2>q. QED
      BY <1>2, <1>3, <1>4, <2>1, <2>2
<1>q. QED
    BY <1>1, <1>2, <1>9, <1>11 DEF n, latest

StreakOf(s) == Min({i \in 1..Len(s) : \A k \in i..Len(s) : ByRule(s[k].time)})

\* A verdict with the whole lookback is the rule's.
LEMMA SignalIs ==
    ASSUME SignalsTypeOK, NEW rows, Weekly(rows), NEW strict,
           CurrentSignal(rows, strict).lookback = RequestedWeeks
    PROVE  /\ Len(rows) \in Nat \ {0}
           /\ \E i \in 1..Len(rows) : \E s : LET n == Len(s) signal == CurrentSignal(rows, strict) IN
                 /\ Stretch(rows, i, Len(rows)) /\ s = Piece(rows, i, Len(rows))
                 /\ signal.matched <=> ByRule(s[n].time)
                 /\ signal.matched => signal.entry = s[StreakOf(s)].time
                 /\ signal.previousMatched => n > 1 /\ ByRule(s[n - 1].time) /\ signal.previous = s[n - 1].time
<1> DEFINE signal == CurrentSignal(rows, strict)
           s == LatestSegment(rows)
           lookback == EffectiveLookbackWeeks(Len(s), strict)
           n == Len(s)
           passes == ScannerSeries(s, lookback)
           streak == Min({i \in 1..n : \A k \in i..n : passes[k]})
           Told == [matched |-> passes[n],
                    lookback |-> lookback,
                    current |-> s[n].time,
                    entry |-> IF passes[n] THEN s[streak].time ELSE NoClose,
                    previousMatched |-> n > 1 /\ passes[n - 1],
                    previous |-> IF n > 1 THEN s[n - 1].time ELSE NoClose]
<1>1. signal = IF ~IsLatestWeekFresh(rows) THEN NoSignal
               ELSE IF lookback = 0 THEN [NoSignal EXCEPT !.current = s[n].time]
               ELSE Told
    BY DEF CurrentSignal
<1>2. signal.lookback = RequestedWeeks /\ RequestedWeeks # 0
    BY RequestedIs
<1>3. NoSignal.lookback = 0 /\ [NoSignal EXCEPT !.current = s[n].time].lookback = 0
    BY DEF NoSignal
<1> HIDE DEF signal
<1>4. IsLatestWeekFresh(rows) /\ signal = Told
    BY <1>1, <1>2, <1>3
<1>5. lookback = RequestedWeeks
    BY <1>2, <1>4
<1>6. rows # <<>>
    BY <1>4 DEF IsLatestWeekFresh
<1>7. PICK i \in 1..Len(rows) : Stretch(rows, i, Len(rows)) /\ s = Piece(rows, i, Len(rows))
    BY <1>6, LatestSegmentIs
<1>7a. Len(rows) \in Nat \ {0}
    BY <1>6, LatestSegmentIs
<1> HIDE DEF lookback, s
<1>8. n \in Nat \ {0} /\ DOMAIN s = 1..n
  <2>1. Len(s) \in Nat \ {0} /\ DOMAIN s = 1..Len(s)
      BY <1>7, StretchRows
  <2>q. QED
      BY <2>1
<1>9. \A q \in 1..n : passes[q] <=> ByRule(s[q].time)
  <2>1. \A q \in DOMAIN s : ScannerSeries(s, RequestedWeeks)[q] <=> ByRule(s[q].time)
      BY <1>7, PassesByRule
  <2>q. QED
      BY <1>5, <1>8, <2>1
<1> HIDE DEF passes
<1>10. streak = StreakOf(s)
  <2>1. \A j \in 1..n : \A k \in j..n : k \in 1..n
      BY <1>8
  <2>2. {j \in 1..n : \A k \in j..n : passes[k]} = {j \in 1..n : \A k \in j..n : ByRule(s[k].time)}
      BY <1>9, <2>1
  <2>q. QED
      BY <2>2 DEF StreakOf
<1> HIDE DEF streak
<1>11. /\ signal.matched = passes[n]
       /\ signal.entry = IF passes[n] THEN s[streak].time ELSE NoClose
       /\ signal.previousMatched = (n > 1 /\ passes[n - 1])
       /\ signal.previous = IF n > 1 THEN s[n - 1].time ELSE NoClose
    BY <1>4
<1> HIDE DEF Told
<1>12. n \in 1..n /\ (n > 1 => n - 1 \in 1..n)
    BY <1>8
<1>13. /\ signal.matched <=> ByRule(s[n].time)
       /\ signal.matched => signal.entry = s[StreakOf(s)].time
       /\ signal.previousMatched => n > 1 /\ ByRule(s[n - 1].time) /\ signal.previous = s[n - 1].time
  <2>1. signal.matched <=> ByRule(s[n].time)
      BY <1>9, <1>11, <1>12
  <2>2. signal.matched => signal.entry = s[StreakOf(s)].time
      BY <1>10, <1>11
  <2>3. signal.previousMatched => n > 1 /\ ByRule(s[n - 1].time)
      BY <1>9, <1>11, <1>12
  <2>4. n > 1 => signal.previous = s[n - 1].time
      BY <1>11
  <2>q. QED
      BY <2>1, <2>2, <2>3, <2>4
<1>q. QED
    BY <1>7, <1>7a, <1>13 DEF signal

\* An unbroken end of a segment is an open trade.
LEMMA StreakIsHeld ==
    ASSUME NEW s, Len(s) \in Nat \ {0}, ByRule(s[Len(s)].time)
    PROVE  Holds(s, StreakOf(s), Len(s)) /\ StreakOf(s) \in 1..Len(s)
<1> DEFINE n == Len(s)
           J == {j \in 1..n : \A k \in j..n : ByRule(s[k].time)}
           a == StreakOf(s)
<1>1. J \in SUBSET Nat /\ n \in J
    OBVIOUS
<1>2. a \in J /\ \A j \in J : a <= j
  <2>1. a = Min(J)
      BY DEF StreakOf
  <2> HIDE DEF J, a
  <2>q. QED
      BY <1>1, <2>1, LeastIs
<1> HIDE DEF a
<1>3. a \in 1..n /\ (\A k \in a..n : ByRule(s[k].time)) /\ a \in a..n /\ n \in a..n
    BY <1>2
<1>4. a = 1 \/ ~ByRule(s[a - 1].time)
  <2> SUFFICES ASSUME a # 1, ByRule(s[a - 1].time) PROVE FALSE
      OBVIOUS
  <2>1. a - 1 \in 1..n /\ a - 1 < a
      BY <1>3
  <2>2. \A l \in (a - 1)..n : l = a - 1 \/ l \in a..n
      BY <1>3
  <2>3. a - 1 \in J
      BY <1>3, <2>1, <2>2
  <2>q. QED
      BY <1>2, <1>3, <2>1, <2>3
<1>5. \A k \in a..(n - 1) : ByRule(s[k].time)
  <2>1. \A k \in a..(n - 1) : k \in a..n
      BY <1>3
  <2>q. QED
      BY <1>3, <2>1
<1>q. QED
    BY <1>3, <1>4, <1>5 DEF Holds, n, a

\* A verdict that refuses a short history has the whole lookback or none.
LEMMA StrictIs ==
    ASSUME NEW rows, CurrentSignal(rows, TRUE).matched
    PROVE  CurrentSignal(rows, TRUE).lookback = RequestedWeeks
<1> DEFINE signal == CurrentSignal(rows, TRUE)
           s == LatestSegment(rows)
           n == Len(s)
           lookback == EffectiveLookbackWeeks(n, TRUE)
           passes == ScannerSeries(s, lookback)
           streak == Min({i \in 1..n : \A k \in i..n : passes[k]})
           Told == [matched |-> passes[n],
                    lookback |-> lookback,
                    current |-> s[n].time,
                    entry |-> IF passes[n] THEN s[streak].time ELSE NoClose,
                    previousMatched |-> n > 1 /\ passes[n - 1],
                    previous |-> IF n > 1 THEN s[n - 1].time ELSE NoClose]
<1>1. signal = IF ~IsLatestWeekFresh(rows) THEN NoSignal
               ELSE IF lookback = 0 THEN [NoSignal EXCEPT !.current = s[n].time]
               ELSE Told
    BY DEF CurrentSignal
<1>2. ~NoSignal.matched /\ ~[NoSignal EXCEPT !.current = s[n].time].matched
    BY DEF NoSignal
<1>3. signal.matched
    OBVIOUS
<1> HIDE DEF signal, passes, streak, s
<1>4. signal = Told /\ lookback # 0
    BY <1>1, <1>2, <1>3
<1>5. lookback = RequestedWeeks
    BY <1>4 DEF EffectiveLookbackWeeks
<1> HIDE DEF n, lookback
<1>6. signal.lookback = lookback
    BY <1>4
<1>q. QED
    BY <1>5, <1>6 DEF signal

\* A verdict that matches names a band and the entry of an open trade.
LEMMA MatchedIsHeld ==
    ASSUME SignalsTypeOK, CompletedSignal(TRUE).matched
    PROVE  /\ Last(CompletedWeeks).time \in HighlightTimes
           /\ \E t \in SymbolBreakoutBacktest :
                 t.open /\ t.entry = CompletedSignal(TRUE).entry /\ t.exit = Last(CompletedWeeks).time
<1> DEFINE rows == CompletedWeeks
           signal == CurrentSignal(rows, TRUE)
           N == Len(rows)
<1>1. Weekly(rows)
    BY CompletedWeeksAre
<1>2. signal = CompletedSignal(TRUE)
    BY DEF CompletedSignal
<1>3. signal.lookback = RequestedWeeks
    BY <1>2, StrictIs
<1>4. N \in Nat \ {0}
    BY <1>1, <1>3, SignalIs
<1>i. PICK i \in 1..N : \E s :
            /\ Stretch(rows, i, N) /\ s = Piece(rows, i, N)
            /\ signal.matched <=> ByRule(s[Len(s)].time)
            /\ signal.matched => signal.entry = s[StreakOf(s)].time
    BY <1>1, <1>3, SignalIs
<1>5. PICK s :
            /\ Stretch(rows, i, N) /\ s = Piece(rows, i, N)
            /\ signal.matched <=> ByRule(s[Len(s)].time)
            /\ signal.matched => signal.entry = s[StreakOf(s)].time
    BY <1>i
<1> HIDE DEF signal
<1>6. ByRule(s[Len(s)].time) /\ signal.entry = s[StreakOf(s)].time
    BY <1>2, <1>5
<1>7. Len(s) \in Nat \ {0} /\ DOMAIN s = 1..Len(s)
    BY <1>1, <1>5, StretchRows
<1>8. Len(s) = N - i + 1 /\ \A j \in 1..Len(s) : s[j] = rows[i + j - 1]
  <2>1. LaidOut(s, rows, i, N)
      BY <1>1, <1>5, StretchRows
  <2>q. QED
      BY <2>1 DEF LaidOut
<1>9. s[Len(s)] = rows[N]
  <2>1. Len(s) \in 1..Len(s) /\ i + Len(s) - 1 = N
      BY <1>4, <1>7, <1>8
  <2>q. QED
      BY <1>8, <2>1
<1>10. Last(rows) = rows[N]
    BY DEF Last
<1>11. Last(rows).time \in HighlightTimes
  <2>1. N \in 1..N
      BY <1>4
  <2>q. QED
      BY <1>6, <1>9, <1>10, <2>1, HighlightsAre
<1> DEFINE a == StreakOf(s)
           t == TradeOf(s, a, Len(s))
<1>12. Holds(s, a, Len(s)) /\ a \in 1..Len(s) /\ Len(s) \in 1..Len(s)
  <2>1. Len(s) \in 1..Len(s)
      BY <1>7
  <2>q. QED
      BY <1>6, <1>7, <2>1, StreakIsHeld
<1> HIDE DEF a
<1>13. t \in SymbolBreakoutBacktest
  <2>1. N \in 1..N
      BY <1>4
  <2> HIDE DEF t
  <2>2. \E e \in 1..N : /\ Stretch(rows, i, e)
                        /\ \E b, x \in 1..Len(Piece(rows, i, e)) :
                              Holds(Piece(rows, i, e), b, x) /\ t = TradeOf(Piece(rows, i, e), b, x)
      BY <1>5, <1>12, <2>1 DEF t
  <2>q. QED
      BY <2>2, TradeIs
<1>14. t.open /\ t.entry = signal.entry /\ t.exit = Last(rows).time
  <2>1. t.open = ScannerSeries(s, RequestedWeeks)[Len(s)] /\ t.entry = s[a].time /\ t.exit = s[Len(s)].time
      BY DEF TradeOf
  <2>2. ScannerSeries(s, RequestedWeeks)[Len(s)] <=> ByRule(s[Len(s)].time)
      BY <1>1, <1>5, <1>7, <1>12, PassesByRule
  <2>q. QED
      BY <1>6, <1>9, <1>10, <2>1, <2>2 DEF a
<1> HIDE DEF t
<1>q. QED
    BY <1>2, <1>11, <1>13, <1>14

\* What leaves during the forming week was in a band of the completed ones.
LEMMA ExitedWasIn ==
    ASSUME SignalsTypeOK, LiveSignal(FALSE).previousMatched, LiveSignal(FALSE).lookback = RequestedWeeks
    PROVE  LiveSignal(FALSE).previous \in HighlightTimes
<1> DEFINE all == WeeklyCloses(DailyCloses)
           rows == CompletedWeeks
           signal == CurrentSignal(all, FALSE)
           N == Len(all)
<1>1. Weekly(all)
    BY WeeklyClosesAre
<1>2. signal = LiveSignal(FALSE)
    BY DEF LiveSignal
<1>3. /\ Len(rows) <= N /\ N <= Len(rows) + 1
      /\ \A j \in 1..Len(rows) : rows[j] = all[j]
      /\ Weekly(rows)
    BY CompletedWeeksAre
<1>3a. \A v : v \in HighlightTimes <=> \E k \in 1..Len(rows) : v = rows[k].time /\ ByRule(v)
    BY HighlightsAre
<1> HIDE DEF all, rows
<1>4. N \in Nat \ {0} /\ Len(rows) \in Nat
  <2>1. N \in Nat \ {0}
      BY <1>1, <1>2, SignalIs
  <2>2. Len(rows) \in Nat
      BY <1>3, RowIs DEF Weekly
  <2>q. QED
      BY <2>1, <2>2
<1>i. PICK i \in 1..N : \E s :
            /\ Stretch(all, i, N) /\ s = Piece(all, i, N)
            /\ signal.previousMatched =>
                 Len(s) > 1 /\ ByRule(s[Len(s) - 1].time) /\ signal.previous = s[Len(s) - 1].time
    BY <1>1, <1>2, SignalIs
<1>5. PICK s :
            /\ Stretch(all, i, N) /\ s = Piece(all, i, N)
            /\ signal.previousMatched =>
                 Len(s) > 1 /\ ByRule(s[Len(s) - 1].time) /\ signal.previous = s[Len(s) - 1].time
    BY <1>i
<1> HIDE DEF signal
<1>6. Len(s) > 1 /\ ByRule(s[Len(s) - 1].time) /\ signal.previous = s[Len(s) - 1].time
    BY <1>2, <1>5
<1>7. Len(s) = N - i + 1 /\ \A j \in 1..Len(s) : s[j] = all[i + j - 1]
  <2>1. LaidOut(s, all, i, N)
      BY <1>1, <1>5, StretchRows
  <2>q. QED
      BY <2>1 DEF LaidOut
<1>8. Len(s) - 1 \in 1..Len(s) /\ i + (Len(s) - 1) - 1 = N - 1 /\ N - 1 \in 1..Len(rows)
    BY <1>3, <1>4, <1>6, <1>7
<1>9. s[Len(s) - 1] = rows[N - 1]
  <2>1. s[Len(s) - 1] = all[i + (Len(s) - 1) - 1]
      BY <1>7, <1>8
  <2>q. QED
      BY <1>3, <1>8, <2>1
<1>10. signal.previous \in HighlightTimes
    BY <1>3a, <1>6, <1>8, <1>9
<1>q. QED
    BY <1>2, <1>10

\* The verdicts agree with the bands and the trades.
LEMMA VerdictsAre ==
    ASSUME SignalsTypeOK
    PROVE  VerdictsAgree
<1>1. CompletedSignal(TRUE).matched =>
        /\ Last(CompletedWeeks).time \in HighlightTimes
        /\ \E t \in SymbolBreakoutBacktest :
              t.open /\ t.entry = CompletedSignal(TRUE).entry /\ t.exit = Last(CompletedWeeks).time
    BY MatchedIsHeld
<1>2. CompletedWeeks = WeeklyCloses(DailyCloses) => LiveSignal(TRUE) = CompletedSignal(TRUE)
    BY DEF LiveSignal, CompletedSignal
<1>3. MembershipChanges.exited => LiveSignal(FALSE).previousMatched
    BY DEF MembershipChanges
<1>4. MembershipChanges.exited /\ LiveSignal(FALSE).lookback = RequestedWeeks
        => LiveSignal(FALSE).previous \in HighlightTimes
    BY <1>3, ExitedWasIn
<1>q. QED
    BY <1>1, <1>2, <1>4 DEF VerdictsAgree

-----------------------------------------------------------------------------
(* The invariant in every step *)

\* Types, and no close before its day is expected, in every step.
LEMMA SignalsTypeHolds ==
    SignalsSpec => []SignalsTypeOK
<1>1. SignalsInit => SignalsTypeOK
  <2> SUFFICES ASSUME SignalsInit PROVE SignalsTypeOK
      OBVIOUS
  <2>1. today \in Int /\ closed \in BOOLEAN
      BY SignalsAssumption DEF SignalsInit
  <2>2. Stored = {} /\ closes \in [TradingDay -> Close \union {0}]
      BY DEF SignalsInit, Stored
  <2>q. QED
      BY <2>1, <2>2 DEF SignalsTypeOK
<1>2. SignalsTypeOK /\ [SignalsNext]_signalVars => SignalsTypeOK'
  <2> SUFFICES ASSUME SignalsTypeOK, [SignalsNext]_signalVars PROVE SignalsTypeOK'
      OBVIOUS
  <2> DEFINE L(d, c) == LatestExpectedTradingDay(d, c)
  <2>0. /\ today \in Int /\ closed \in BOOLEAN /\ closes \in [TradingDay -> Close \union {0}]
        /\ \A d \in Stored : d <= L(today, closed)
      BY DEF SignalsTypeOK
  <2>1. CASE HalfDayPasses
    <3>1. closes' = closes /\ closed' = ~closed /\ today' = IF closed THEN today + 1 ELSE today
        BY <2>1 DEF HalfDayPasses
    <3>2. today' \in Int /\ closed' \in BOOLEAN
        BY <2>0, <3>1
    <3>3. today < today' \/ (today = today' /\ (closed => closed'))
        BY <2>0, <3>1
    <3>4. L(today, closed) <= L(today', closed')
        BY <2>0, <3>2, <3>3, ExpectedDayNeverGoesBack
    <3>5. L(today, closed) \in Int /\ L(today', closed') \in Int
        BY <2>0, <3>2, ExpectedDayIsATradingDay
    <3> HIDE DEF L
    <3>6. Stored' = Stored
        BY <3>1 DEF Stored
    <3>7. ASSUME NEW d \in Stored' PROVE d <= L(today', closed')
      <4>1. d \in Stored /\ d \in Int
          BY <3>6, StoredIs
      <4>q. QED
          BY <2>0, <3>4, <3>5, <4>1
    <3>q. QED
        BY <2>0, <3>1, <3>2, <3>7 DEF SignalsTypeOK, L
  <2>2. CASE \E d \in TradingDay, c \in Close : CloseStored(d, c)
    <3>1. PICK d \in TradingDay, c \in Close : CloseStored(d, c)
        BY <2>2
    <3>2. /\ d <= L(today, closed) /\ closes' = [closes EXCEPT ![d] = c]
          /\ today' = today /\ closed' = closed
        BY <3>1 DEF CloseStored
    <3> HIDE DEF L
    <3>3. closes' \in [TradingDay -> Close \union {0}]
        BY <2>0, <3>2
    <3>4. ASSUME NEW x \in Stored' PROVE x <= L(today, closed)
      <4>1. x = d \/ x \in Stored
          BY <2>0, <3>2, <3>4 DEF Stored
      <4>q. QED
          BY <2>0, <3>2, <4>1
    <3>q. QED
        BY <2>0, <3>2, <3>3, <3>4 DEF SignalsTypeOK, L
  <2>3. CASE UNCHANGED signalVars
    <3>1. today' = today /\ closed' = closed /\ closes' = closes
        BY <2>3 DEF signalVars
    <3>2. Stored' = Stored
        BY <3>1 DEF Stored
    <3>q. QED
        BY <2>0, <3>1, <3>2 DEF SignalsTypeOK
  <2>q. QED
      BY <2>1, <2>2, <2>3 DEF SignalsNext
<1>q. QED
    BY <1>1, <1>2, PTL DEF SignalsSpec

\* Bands, trades and verdicts are those of the rule over the weeks' closes, whatever days are missing,
\* late or corrected (scanner.service.ts, scanner.backtest.ts, scanner-current-signal.ts).
THEOREM SignalsFollowTheRule == SignalsSpec => []SignalsAreRight
<1>1. SignalsTypeOK => SignalsAreRight
    BY BandsAre, TradesAreBands, VerdictsAre DEF SignalsAreRight
<1>q. QED
    BY <1>1, SignalsTypeHolds, PTL
=============================================================================
