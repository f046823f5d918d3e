-------------------------- MODULE AlgorithmsProofs --------------------------
(***************************************************************************)
(* Theorems about the parts of Algorithms: the sample of a chain stays     *)
(* between the bounds, its temperature is that of a recent ladder, a job   *)
(* goes to the worker that will be done first, and what is kept of the     *)
(* states logged is what the log says.                                     *)
(*                                                                         *)
(* Each part has an invariant of its own, which the other parts leave      *)
(* alone.  What a loop computes is a function defined by recursion; such   *)
(* functions are reasoned about by induction, which LeastNumber provides.  *)
(***************************************************************************)
EXTENDS Algorithms, FiniteSetTheorems, SequenceTheorems, TLAPS

-----------------------------------------------------------------------------
(* Induction and recursion *)

\* A nonempty set of numbers has a smallest one.
LEMMA LeastNumber ==
    ASSUME NEW T \in SUBSET Nat, T # {}
    PROVE  \E n \in T : \A m \in T : n <= m
<1> DEFINE Downs == {0..n : n \in T}
           R     == StrictSubsetOrdering(Nat)
<1>1. ASSUME NEW n \in T
      PROVE  0..n \in FiniteSubsetsOf(Nat)
  <2>1. IsFiniteSet(0..n)
    BY FS_Interval
  <2> QED
    BY <2>1 DEF FiniteSubsetsOf
<1>2. Downs \subseteq FiniteSubsetsOf(Nat) /\ Downs # {}
  BY <1>1
<1>3. IsWellFoundedOn(R, FiniteSubsetsOf(Nat))
  BY FS_StrictSubsetOrderingWellFounded
<1>4. \E x \in Downs : \A y \in Downs : ~ (<<y, x>> \in R)
  <2> HIDE DEF Downs, R
  <2> QED
    BY <1>2, <1>3, WFMin
<1>5. PICK n \in T : \A m \in T : ~ (<<0..m, 0..n>> \in R)
  BY <1>4
<1>6. ASSUME NEW m \in T, ~ (n <= m)
      PROVE  FALSE
  <2>1. 0..m \subseteq 0..n /\ n \in 0..n /\ n \notin 0..m
    BY <1>6
  <2>2. <<0..m, 0..n>> \in R
    BY <2>1 DEF StrictSubsetOrdering
  <2> QED
    BY <1>5, <2>2
<1> QED
  BY <1>6

\* Induction over the numbers up to n: what holds of 0 and is handed on holds of all.
LEMMA Induction ==
    ASSUME NEW n \in Nat, NEW T, 0 \in T,
           \A i \in 0..n : i \in T /\ i < n => i + 1 \in T
    PROVE  0..n \subseteq T
<1> DEFINE Rest == {i \in 0..n : i \notin T}
<1>1. SUFFICES ASSUME Rest # {}
               PROVE  FALSE
  OBVIOUS
<1>2. PICK i \in Rest : \A j \in Rest : i <= j
  <2>1. Rest \in SUBSET Nat
    OBVIOUS
  <2> HIDE DEF Rest
  <2> QED
    BY <1>1, <2>1, LeastNumber
<1>3. i # 0 /\ i - 1 \in 0..n /\ i - 1 < n
  BY <1>2
<1>4. i - 1 \in T
  BY <1>2, <1>3
<1> QED
  BY <1>2, <1>3, <1>4

\* The functions that start with base and make a step from each value to the next.
Stepwise(n, V, base, step) ==
    {g \in [0..n -> V] : g[0] = base /\ \A i \in 1..n : g[i] = step[i][g[i - 1]]}

\* There always is one.
LEMMA Recursion ==
    ASSUME NEW n \in Nat, NEW V, NEW base \in V, NEW step \in [1..n -> [V -> V]]
    PROVE  Stepwise(n, V, base, step) # {}
<1> DEFINE UpTo(k) == Stepwise(k, V, base, step)
           T == {k \in 0..n : UpTo(k) # {}}
<1>1. 0 \in T
  <2>1. [i \in 0..0 |-> base] \in UpTo(0)
    BY DEF Stepwise
  <2> QED
    BY <2>1
<1>2. ASSUME NEW k \in 0..n, k \in T, k < n
      PROVE  k + 1 \in T
  <2>1. PICK g \in [0..k -> V] :
            g[0] = base /\ \A i \in 1..k : g[i] = step[i][g[i - 1]]
    BY <1>2 DEF Stepwise
  <2>2. k \in Nat /\ k + 1 \in 1..n /\ k \in 0..k /\ g \in [0..k -> V]
    BY <1>2, <2>1
  <2>3. step[k + 1][g[k]] \in V
    BY <2>2
  <2> DEFINE h == [i \in 0..(k + 1) |-> IF i <= k THEN g[i] ELSE step[k + 1][g[k]]]
  <2>4. h \in [0..(k + 1) -> V]
    BY <2>2, <2>3
  <2>5. h[0] = base
    BY <2>1, <2>2
  <2>6. ASSUME NEW i \in 1..(k + 1)
        PROVE  h[i] = step[i][h[i - 1]]
    <3>1. i - 1 \in 0..(k + 1) /\ i - 1 <= k /\ i \in 0..(k + 1)
      BY <2>2
    <3>2. h[i - 1] = g[i - 1]
      BY <3>1
    <3>3. CASE i <= k
      <4>1. h[i] = g[i] /\ i \in 1..k
        BY <3>1, <3>3
      <4> HIDE DEF h
      <4> QED
        BY <2>1, <3>2, <4>1
    <3>4. CASE i = k + 1
      <4>1. h[i] = step[k + 1][g[k]] /\ i - 1 = k
        BY <2>2, <3>1, <3>4
      <4> HIDE DEF h
      <4> QED
        BY <3>2, <3>4, <4>1
    <3> QED
      BY <2>2, <3>3, <3>4
  <2> HIDE DEF h
  <2>7. h \in UpTo(k + 1)
    BY <2>4, <2>5, <2>6 DEF Stepwise
  <2> QED
    BY <2>2, <2>7
<1>3. 0..n \subseteq T
  <2> HIDE DEF T
  <2> QED
    BY <1>1, <1>2, Induction
<1>4. n \in 0..n
  OBVIOUS
<1> QED
  BY <1>3, <1>4

\* Min of a pair (FiniteSetsExt) is the smaller of the two.
LEMMA SmallerOfTwo ==
    ASSUME NEW a \in Int, NEW b \in Int
    PROVE  Min({a, b}) = IF a <= b THEN a ELSE b
BY DEF Min

\* Max of a pair is the larger of the two.
LEMMA LargerOfTwo ==
    ASSUME NEW a \in Int, NEW b \in Int
    PROVE  Max({a, b}) = IF a >= b THEN a ELSE b
BY DEF Max

-----------------------------------------------------------------------------
(* Totals *)

\* f[i] is the sum of the first i numbers of q.
Sums(f, q) ==
    /\ f \in [0..Len(q) -> Int] /\ f[0] = 0
    /\ \A i \in 1..Len(q) : f[i] = f[i - 1] + q[i]

\* The running sums of a sequence are determined by it.
LEMMA SumsAreUnique ==
    ASSUME NEW q \in Seq(Int), NEW f, NEW g, Sums(f, q), Sums(g, q)
    PROVE  f = g
<1> DEFINE T == {i \in 0..Len(q) : f[i] = g[i]}
<1>0. Len(q) \in Nat
  OBVIOUS
<1>1. 0 \in T
  BY <1>0 DEF Sums
<1>2. ASSUME NEW i \in 0..Len(q), i \in T, i < Len(q)
      PROVE  i + 1 \in T
  <2>1. i + 1 \in 1..Len(q) /\ (i + 1) - 1 = i
    BY <1>0, <1>2
  <2>2. f[i + 1] = f[i] + q[i + 1] /\ g[i + 1] = g[i] + q[i + 1]
    BY <2>1 DEF Sums
  <2> QED
    BY <1>0, <1>2, <2>1, <2>2
<1>3. 0..Len(q) \subseteq T
  <2> HIDE DEF T
  <2> QED
    BY <1>0, <1>1, <1>2, Induction
<1> QED
  BY <1>3 DEF Sums

\* Total is the last of the running sums: its recursive function exists.
LEMMA TotalIsSum ==
    ASSUME NEW q \in Seq(Int)
    PROVE  \E f : Sums(f, q) /\ Total(q) = f[Len(q)]
<1> DEFINE n    == Len(q)
           step == [i \in 1..n |-> [x \in Int |-> x + q[i]]]
           v    == CHOOSE f : f = [i \in 0..n |-> IF i = 0 THEN 0 ELSE f[i - 1] + q[i]]
<1>0. n \in Nat /\ \A i \in 1..n : q[i] \in Int
  OBVIOUS
<1>1. step \in [1..n -> [Int -> Int]]
  BY <1>0
<1>2. PICK g \in [0..n -> Int] :
          g[0] = 0 /\ \A i \in 1..n : g[i] = step[i][g[i - 1]]
  <2>1. 0 \in Int
    OBVIOUS
  <2> HIDE DEF step, n
  <2>2. Stepwise(n, Int, 0, step) # {}
    BY <1>0, <1>1, <2>1, Recursion
  <2> QED
    BY <2>2 DEF Stepwise
<1>3. ASSUME NEW i \in 1..n
      PROVE  g[i] = g[i - 1] + q[i]
  <2>1. i - 1 \in 0..n
    BY <1>0
  <2> QED
    BY <1>2, <2>1
<1>4. g = [i \in 0..n |-> IF i = 0 THEN 0 ELSE g[i - 1] + q[i]]
  BY <1>0, <1>2, <1>3
<1>5. v = [i \in 0..n |-> IF i = 0 THEN 0 ELSE v[i - 1] + q[i]]
  BY <1>4
<1>6. Total(q) = v[n]
  BY DEF Total
<1> HIDE DEF v
<1>7. v[0] = 0 /\ \A i \in 1..n : v[i] = v[i - 1] + q[i]
  BY <1>0, <1>5, SMTT(30)
<1> DEFINE T == {i \in 0..n : v[i] \in Int}
<1>8. ASSUME NEW i \in 0..n, i \in T, i < n
      PROVE  i + 1 \in T
  <2>1. i + 1 \in 1..n /\ (i + 1) - 1 = i
    BY <1>0, <1>8
  <2>2. v[i + 1] = v[i] + q[i + 1] /\ q[i + 1] \in Int
    BY <1>0, <1>7, <2>1
  <2>3. i + 1 \in 0..n /\ v[i] \in Int
    BY <1>0, <1>8
  <2> HIDE DEF n
  <2> QED
    BY <2>2, <2>3
<1>9. 0..n \subseteq T
  <2>1. 0 \in T
    BY <1>0, <1>7
  <2> HIDE DEF T, n
  <2> QED
    BY <1>0, <1>8, <2>1, Induction
<1>10. Sums(v, q)
  BY <1>5, <1>7, <1>9 DEF Sums
<1> QED
  BY <1>6, <1>10

\* A total of integers is an integer.
LEMMA TotalIsInt ==
    ASSUME NEW q \in Seq(Int)
    PROVE  Total(q) \in Int
BY TotalIsSum DEF Sums

\* A total of numbers that are not negative is no less than each of them.
LEMMA TotalIsLargest ==
    ASSUME NEW q \in Seq(Nat)
    PROVE  Total(q) \in Nat /\ \A j \in 1..Len(q) : q[j] <= Total(q)
<1> DEFINE n == Len(q)
<1>0. q \in Seq(Int) /\ n \in Nat /\ \A i \in 1..n : q[i] \in Nat
  OBVIOUS
<1>1. PICK f : Sums(f, q) /\ Total(q) = f[n]
  BY <1>0, TotalIsSum
<1> DEFINE T == {i \in 0..n : f[i] \in Nat /\ \A j \in 1..i : q[j] <= f[i]}
<1>2. 0 \in T
  BY <1>0, <1>1 DEF Sums
<1>3. ASSUME NEW i \in 0..n, i \in T, i < n
      PROVE  i + 1 \in T
  <2>1. i + 1 \in 1..n /\ (i + 1) - 1 = i /\ f[i + 1] = f[i] + q[i + 1]
    BY <1>0, <1>1, <1>3 DEF Sums
  <2>2. q[i + 1] \in Nat /\ f[i] \in Nat
    BY <1>0, <1>3, <2>1
  <2>3. ASSUME NEW j \in 1..(i + 1)
        PROVE  q[j] <= f[i + 1]
    <3>1. CASE j = i + 1
      BY <2>1, <2>2, <3>1
    <3>2. CASE j # i + 1
      <4>1. j \in 1..i /\ j \in 1..n
        BY <1>0, <1>3, <3>2
      <4>2. q[j] \in Nat /\ q[j] <= f[i]
        BY <1>0, <1>3, <4>1
      <4> QED
        BY <2>1, <2>2, <4>2
    <3> QED
      BY <3>1, <3>2
  <2>4. f[i + 1] \in Nat
    BY <2>1, <2>2
  <2> QED
    BY <1>0, <2>1, <2>3, <2>4
<1>4. n \in T
  <2>1. n \in 0..n
    BY <1>0
  <2> HIDE DEF T, n
  <2> QED
    BY <1>0, <1>2, <1>3, <2>1, Induction
<1> QED
  BY <1>1, <1>4

\* A total of natural numbers is one.
LEMMA TotalIsNat ==
    ASSUME NEW q \in Seq(Nat)
    PROVE  Total(q) \in Nat
BY TotalIsLargest

\* Zeros at the head of a sequence add nothing to its total.
LEMMA LeadingZeros ==
    ASSUME NEW q \in Seq(Int), NEW k \in 0..Len(q), \A i \in 1..k : q[i] = 0
    PROVE  Total(q) = Total(SubSeq(q, k + 1, Len(q)))
<1> DEFINE n == Len(q)
           r == SubSeq(q, k + 1, n)
<1>0. n \in Nat /\ k \in Nat /\ k <= n
  OBVIOUS
<1>1. r \in Seq(Int) /\ Len(r) = n - k /\ \A i \in 1..(n - k) : r[i] = q[k + i]
  BY <1>0
<1>2. PICK f : Sums(f, q) /\ Total(q) = f[n]
  BY TotalIsSum
<1> DEFINE T == {i \in 0..k : f[i] = 0}
<1>3. 0..k \subseteq T
  <2>1. 0 \in T
    BY <1>0, <1>2 DEF Sums
  <2>2. ASSUME NEW i \in 0..k, i \in T, i < k
        PROVE  i + 1 \in T
    <3>1. i + 1 \in 1..k /\ i + 1 \in 1..n /\ (i + 1) - 1 = i
      BY <1>0, <2>2
    <3> QED
      BY <1>2, <2>2, <3>1, SMTT(30) DEF Sums
  <2> HIDE DEF T
  <2> QED
    BY <1>0, <2>1, <2>2, Induction
<1>4. f[k] = 0
  BY <1>0, <1>3
<1> DEFINE g == [i \in 0..(n - k) |-> f[i + k]]
<1>5. Sums(g, r)
  <2> HIDE DEF r
  <2>1. g \in [0..Len(r) -> Int] /\ g[0] = 0
    BY <1>0, <1>1, <1>2, <1>4 DEF Sums
  <2>2. ASSUME NEW i \in 1..Len(r)
        PROVE  g[i] = g[i - 1] + r[i]
    <3>1. i \in 1..(n - k) /\ i + k \in 1..n /\ i - 1 \in 0..(n - k) /\ i \in 0..(n - k)
      BY <1>0, <1>1
    <3>2. (i + k) - 1 = (i - 1) + k /\ k + i = i + k
      BY <1>0, <3>1
    <3>3. f[i + k] = f[(i - 1) + k] + q[i + k]
      BY <1>2, <3>1, <3>2 DEF Sums
    <3> QED
      BY <1>1, <3>1, <3>2, <3>3
  <2> QED
    BY <2>1, <2>2 DEF Sums
<1>6. PICK h : Sums(h, r) /\ Total(r) = h[Len(r)]
  BY <1>1, TotalIsSum
<1>7. h = g
  BY <1>1, <1>5, <1>6, SumsAreUnique
<1>8. g[n - k] = f[n]
  <2>1. n - k \in 0..(n - k) /\ (n - k) + k = n
    BY <1>0
  <2> QED
    BY <2>1
<1> QED
  BY <1>1, <1>2, <1>6, <1>7, <1>8

\* Nothing adds up to zero.
LEMMA TotalOfNone == Total(<<>>) = 0
<1> DEFINE q == <<>>
<1>1. q \in Seq(Int) /\ Len(q) = 0
  OBVIOUS
<1> HIDE DEF q
<1>2. PICK f : Sums(f, q) /\ Total(q) = f[Len(q)]
  BY <1>1, TotalIsSum
<1> QED
  BY <1>1, <1>2 DEF Sums, q

\* Zeros add up to zero.
LEMMA TotalOfZeros ==
    ASSUME NEW q \in Seq(Int), \A i \in 1..Len(q) : q[i] = 0
    PROVE  Total(q) = 0
<1>1. Len(q) \in 0..Len(q) /\ Len(q) \in Nat
  OBVIOUS
<1>2. Total(q) = Total(SubSeq(q, Len(q) + 1, Len(q)))
  BY <1>1, LeadingZeros
<1>3. SubSeq(q, Len(q) + 1, Len(q)) = <<>>
  BY <1>1, SubSeqEmpty
<1> QED
  BY <1>2, <1>3, TotalOfNone

\* A sequence with a number appended: its length, and what is where.
LEMMA OneMore ==
    ASSUME NEW q \in Seq(Int), NEW x \in Int
    PROVE  /\ Append(q, x) \in Seq(Int) /\ Append(q, x) # <<>>
           /\ Len(Append(q, x)) = Len(q) + 1
           /\ Append(q, x)[Len(q) + 1] = x
           /\ \A i \in 1..Len(q) : Append(q, x)[i] = q[i]
OBVIOUS

\* One more number at the end adds that number.
LEMMA TotalOfAppend ==
    ASSUME NEW q \in Seq(Int), NEW x \in Int
    PROVE  Total(Append(q, x)) = Total(q) + x
<1> DEFINE n == Len(q)
           r == Append(q, x)
<1>0. n \in Nat
  OBVIOUS
<1>1. r \in Seq(Int) /\ Len(r) = n + 1 /\ r[n + 1] = x /\ \A i \in 1..n : r[i] = q[i]
  BY <1>0
<1>2. PICK f : Sums(f, q) /\ Total(q) = f[n]
  BY TotalIsSum
<1>3. f \in [0..n -> Int] /\ f[0] = 0 /\ \A i \in 1..n : f[i] = f[i - 1] + q[i]
  BY <1>2 DEF Sums
<1> DEFINE g == [i \in 0..(n + 1) |-> IF i <= n THEN f[i] ELSE f[n] + x]
<1> HIDE DEF r
<1>4. g \in [0..(n + 1) -> Int] /\ g[0] = 0 /\ g[n + 1] = f[n] + x
  BY <1>0, <1>3, SMTT(30)
<1>5. ASSUME NEW i \in 1..(n + 1)
      PROVE  g[i] = g[i - 1] + r[i]
  <2>1. i \in 0..(n + 1) /\ i - 1 \in 0..n /\ g[i - 1] = f[i - 1]
    BY <1>0
  <2>2. CASE i = n + 1
    BY <1>0, <1>1, <1>4, <2>1, <2>2
  <2>3. CASE i # n + 1
    <3>1. i \in 1..n /\ g[i] = f[i]
      BY <1>0, <2>1, <2>3
    <3> HIDE DEF g
    <3> QED
      BY <1>1, <1>3, <2>1, <3>1
  <2> QED
    BY <2>2, <2>3
<1> HIDE DEF g
<1>6. Sums(g, r)
  BY <1>1, <1>4, <1>5 DEF Sums
<1>7. PICK h : Sums(h, r) /\ Total(r) = h[Len(r)]
  BY <1>1, TotalIsSum
<1>8. h = g
  BY <1>1, <1>6, <1>7, SumsAreUnique
<1> QED
  BY <1>1, <1>2, <1>4, <1>7, <1>8 DEF r

\* One number less at the head subtracts it.
LEMMA TotalOfTail ==
    ASSUME NEW q \in Seq(Int), q # <<>>
    PROVE  Total(Tail(q)) = Total(q) - Head(q)
<1> DEFINE n == Len(q)
           r == Tail(q)
           x == Head(q)
<1>0. n \in Nat \ {0} /\ x = q[1] /\ x \in Int
  OBVIOUS
<1>1. r \in Seq(Int) /\ Len(r) = n - 1 /\ \A i \in 1..(n - 1) : r[i] = q[i + 1]
  BY <1>0
<1>2. PICK f : Sums(f, q) /\ Total(q) = f[n]
  BY TotalIsSum
<1>3. f \in [0..n -> Int] /\ f[0] = 0 /\ \A i \in 1..n : f[i] = f[i - 1] + q[i]
  BY <1>2 DEF Sums
<1> DEFINE g == [i \in 0..(n - 1) |-> f[i + 1] - x]
<1> HIDE DEF r, x
<1>4. g \in [0..(n - 1) -> Int] /\ g[n - 1] = f[n] - x
  BY <1>0, <1>3
<1>5. g[0] = 0
  <2>1. 1 \in 1..n /\ 1 - 1 = 0 /\ q[1] \in Int
    BY <1>0
  <2>2. f[1] = q[1]
    BY <1>3, <2>1
  <2> QED
    BY <1>0, <2>1, <2>2
<1>6. ASSUME NEW i \in 1..(n - 1)
      PROVE  g[i] = g[i - 1] + r[i]
  <2>1. i \in 0..(n - 1) /\ i - 1 \in 0..(n - 1) /\ (i - 1) + 1 = i /\ (i + 1) - 1 = i
        /\ i + 1 \in 1..n /\ i \in 0..n
    BY <1>0
  <2>2. g[i] = f[i + 1] - x /\ g[i - 1] = f[i] - x
    BY <2>1
  <2>3. f[i + 1] = f[i] + q[i + 1] /\ f[i] \in Int /\ q[i + 1] \in Int
    BY <1>3, <2>1, SMTT(30)
  <2> HIDE DEF g
  <2> QED
    BY <1>0, <1>1, <2>2, <2>3, SMTT(30)
<1> HIDE DEF g
<1>7. Sums(g, r)
  BY <1>1, <1>4, <1>5, <1>6 DEF Sums
<1>8. PICK h : Sums(h, r) /\ Total(r) = h[Len(r)]
  BY <1>1, TotalIsSum
<1>9. h = g
  BY <1>1, <1>7, <1>8, SumsAreUnique
<1> QED
  BY <1>1, <1>2, <1>4, <1>8, <1>9 DEF r, x

-----------------------------------------------------------------------------
(* Proposals *)

\* What is left over of an overshoot is shorter than the interval.
LEMMA Remainder ==
    ASSUME NEW a \in Nat, NEW d \in Nat \ {0}
    PROVE  /\ a \div d \in Nat
           /\ a - (a \div d) * d \in 0..(d - 1)
BY Z3

\* The number of whole widths is even or odd.
LEMMA Halves ==
    ASSUME NEW n \in Nat
    PROVE  \E m \in Nat : \/ n % 2 = 0 /\ n = 2 * m
                          \/ n % 2 # 0 /\ n = 2 * m + 1
<1>1. n \div 2 \in Nat /\ (n = 2 * (n \div 2) \/ n = 2 * (n \div 2) + 1)
  BY Z3
<1>2. n % 2 = n - 2 * (n \div 2)
  BY Z3
<1> QED
  BY <1>1, <1>2

\* A multiple of a period leaves no remainder.
LEMMA Multiple ==
    ASSUME NEW k \in Int, NEW d \in Nat \ {0}
    PROVE  (k * d) % d = 0
BY Z3

\* The same, of the period that Mirrored uses.
LEMMA WholePeriods ==
    ASSUME NEW k \in Int, NEW d \in Nat \ {0}, NEW z \in Int, z = 2 * (k * d)
    PROVE  z % (2 * d) = 0
<1>1. 2 * d \in Nat \ {0}
  OBVIOUS
<1>2. k * (2 * d) = 2 * (k * d)
  BY Z3
<1> QED
  BY <1>1, <1>2, Multiple

-----------------------------------------------------------------------------
\* bouncyBounds ends between the bounds, whatever the value (sampler.cpp:23-56).
LEMMA BouncesInside ==
    ASSUME NEW val \in Int, NEW min \in Int, NEW max \in Int, min < max
    PROVE  bouncyBounds(val, min, max) \in min..max
<1> DEFINE d == max - min
<1>0. d \in Nat \ {0}
  OBVIOUS
<1>1. CASE val > max
  <2> DEFINE o == val - max
             s == o - (o \div d) * d
  <2>1. o \in Nat
    BY <1>1
  <2>2. s \in 0..(d - 1)
    BY <1>0, <2>1, Remainder
  <2>3. bouncyBounds(val, min, max)
          = IF (o \div d) % 2 = 0 THEN max + (-1) * s ELSE min - (-1) * s
    BY <1>1 DEF bouncyBounds, Fold
  <2> HIDE DEF s
  <2> QED
    BY <1>0, <2>2, <2>3
<1>2. CASE ~(val > max) /\ val < min
  <2> DEFINE u == min - val
             s == u - (u \div d) * d
  <2>1. u \in Nat
    BY <1>2
  <2>2. s \in 0..(d - 1)
    BY <1>0, <2>1, Remainder
  <2>3. bouncyBounds(val, min, max)
          = IF (u \div d) % 2 = 0 THEN min + 1 * s ELSE max - 1 * s
    BY <1>2 DEF bouncyBounds, Fold
  <2> HIDE DEF s
  <2> QED
    BY <1>0, <2>2, <2>3
<1>3. CASE ~(val > max) /\ ~(val < min)
  BY <1>3 DEF bouncyBounds
<1> QED
  BY <1>1, <1>2, <1>3

\* It ends at an image of the value in the two mirrors.
LEMMA BouncesLikeMirrors ==
    ASSUME NEW val \in Int, NEW min \in Int, NEW max \in Int, min < max
    PROVE  Mirrored(val, bouncyBounds(val, min, max), min, max)
<1> DEFINE d == max - min
           y == bouncyBounds(val, min, max)
<1>0. d \in Nat \ {0} /\ y \in Int
  BY BouncesInside
<1> SUFFICES ASSUME NEW k \in Int,
                    val - y = 2 * (k * d) \/ val + y - 2 * min = 2 * (k * d)
             PROVE  Mirrored(val, y, min, max)
  <2>1. \E k \in Int : val - y = 2 * (k * d) \/ val + y - 2 * min = 2 * (k * d)
    <3>1. CASE val > max
      <4> DEFINE o == val - max
                 n == o \div d
      <4>1. o \in Nat /\ n \in Nat
        BY <1>0, <3>1, Remainder
      <4>2. y = IF n % 2 = 0 THEN max + (-1) * (o - n * d) ELSE min - (-1) * (o - n * d)
        BY <3>1 DEF bouncyBounds, Fold
      <4>3. PICK m \in Nat : (n % 2 = 0 /\ n = 2 * m) \/ (n % 2 # 0 /\ n = 2 * m + 1)
        BY <4>1, Halves
      <4> HIDE DEF n
      <4>4. CASE n % 2 = 0
        <5>1. val + y - 2 * min = 2 * d + n * d
          BY <1>0, <4>1, <4>2, <4>4, Z3
        <5>2. n = 2 * m
          BY <4>3, <4>4
        <5>3. val + y - 2 * min = 2 * ((m + 1) * d)
          BY <1>0, <5>1, <5>2, Z3
        <5> WITNESS (m + 1) \in Int
        <5> QED
          BY <5>3
      <4>5. CASE n % 2 # 0
        <5>1. val - y = d + n * d
          BY <1>0, <4>1, <4>2, <4>5, Z3
        <5>2. n = 2 * m + 1
          BY <4>3, <4>5
        <5>3. val - y = 2 * ((m + 1) * d)
          BY <1>0, <5>1, <5>2, Z3
        <5> WITNESS (m + 1) \in Int
        <5> QED
          BY <5>3
      <4> QED
        BY <4>4, <4>5
    <3>2. CASE ~(val > max) /\ val < min
      <4> DEFINE u == min - val
                 n == u \div d
      <4>1. u \in Nat /\ n \in Nat
        BY <1>0, <3>2, Remainder
      <4>2. y = IF n % 2 = 0 THEN min + 1 * (u - n * d) ELSE max - 1 * (u - n * d)
        BY <3>2 DEF bouncyBounds, Fold
      <4>3. PICK m \in Nat : (n % 2 = 0 /\ n = 2 * m) \/ (n % 2 # 0 /\ n = 2 * m + 1)
        BY <4>1, Halves
      <4> HIDE DEF n
      <4>4. CASE n % 2 = 0
        <5>1. val + y - 2 * min = -(n * d)
          BY <1>0, <4>1, <4>2, <4>4, Z3
        <5>2. n = 2 * m
          BY <4>3, <4>4
        <5>3. val + y - 2 * min = 2 * ((-m) * d)
          BY <1>0, <5>1, <5>2, Z3
        <5> WITNESS (-m) \in Int
        <5> QED
          BY <5>3
      <4>5. CASE n % 2 # 0
        <5>1. val - y = -(d + n * d)
          BY <1>0, <4>1, <4>2, <4>5, Z3
        <5>2. n = 2 * m + 1
          BY <4>3, <4>5
        <5>3. val - y = 2 * ((-m - 1) * d)
          BY <1>0, <5>1, <5>2, Z3
        <5> WITNESS (-m - 1) \in Int
        <5> QED
          BY <5>3
      <4> QED
        BY <4>4, <4>5
    <3>3. CASE ~(val > max) /\ ~(val < min)
      <4>1. y = val
        BY <3>3 DEF bouncyBounds
      <4>2. val - y = 2 * (0 * d)
        BY <1>0, <4>1
      <4> QED
        BY <4>2
    <3> QED
      BY <3>1, <3>2, <3>3
  <2> QED
    BY <2>1
<1>1. CASE val - y = 2 * (k * d)
  <2> DEFINE z == val - y
  <2>1. z \in Int /\ z = 2 * (k * d)
    BY <1>0, <1>1
  <2> HIDE DEF z, d, y
  <2>2. z % (2 * d) = 0
    BY <1>0, <2>1, WholePeriods
  <2> USE DEF z, d, y
  <2> QED
    BY <2>2 DEF Mirrored
<1>2. CASE val + y - 2 * min = 2 * (k * d)
  <2> DEFINE z == val + y - 2 * min
  <2>1. z \in Int /\ z = 2 * (k * d)
    BY <1>0, <1>2
  <2> HIDE DEF z, d, y
  <2>2. z % (2 * d) = 0
    BY <1>0, <2>1, WholePeriods
  <2> USE DEF z, d, y
  <2> QED
    BY <2>2 DEF Mirrored
<1> QED
  BY <1>1, <1>2

-----------------------------------------------------------------------------
\* The property, and that it is about numbers.
ProposalsInv ==
    /\ bounds \in Bounds
    /\ sample # NoSample => sample \in Int /\ reached \in Int
    /\ ReflectedIntoBounds

\* What both operations do to the sample keeps the invariant.
LEMMA Bounced ==
    ASSUME bounds \in Bounds, UNCHANGED bounds,
           NEW val \in Int, reached' = val,
           sample' = bouncyBounds(val, bounds[1], bounds[2])
    PROVE  ProposalsInv'
<1>1. bounds[1] \in Int /\ bounds[2] \in Int /\ bounds[1] < bounds[2]
  BY ProposalsAssumption
<1>2. sample' \in bounds[1]..bounds[2]
  BY <1>1, BouncesInside
<1>3. Mirrored(val, sample', bounds[1], bounds[2])
  BY <1>1, BouncesLikeMirrors
<1> QED
  BY <1>1, <1>2, <1>3 DEF ProposalsInv, ReflectedIntoBounds

\* The invariant holds before a sample is made,
LEMMA ProposalsStart == ProposalsIdle => ProposalsInv
BY DEF ProposalsIdle, ProposalsInv, ReflectedIntoBounds

\* is kept by each sample that is made,
LEMMA ProposalsStep ==
    ASSUME ProposalsInv, ProposalsNext
    PROVE  ProposalsInv'
<1>1. ASSUME NEW step \in -Reach..Reach, generateInitialSample(step)
      PROVE  ProposalsInv'
  BY <1>1, Bounced, ProposalsAssumption DEF generateInitialSample, ProposalsInv
<1>2. ASSUME NEW step \in -Reach..Reach, boundedPropose(step)
      PROVE  ProposalsInv'
  <2>1. sample \in Int /\ sample + step \in Int
    BY <1>2, ProposalsAssumption DEF boundedPropose, ProposalsInv
  <2>2. CASE UNCHANGED <<sample, reached>>
    BY <1>2, <2>2 DEF boundedPropose, ProposalsInv, ReflectedIntoBounds
  <2>3. CASE /\ reached' = sample + step
             /\ sample' = bouncyBounds(sample + step, bounds[1], bounds[2])
    BY <1>2, <2>1, <2>3, Bounced DEF boundedPropose, ProposalsInv
  <2> QED
    BY <1>2, <2>2, <2>3 DEF boundedPropose
<1> QED
  BY <1>1, <1>2 DEF ProposalsNext

\* and by the steps of the other parts.
LEMMA ProposalsRest ==
    ASSUME ProposalsInv, UNCHANGED proposalVars
    PROVE  ProposalsInv'
BY DEF ProposalsInv, ReflectedIntoBounds, proposalVars

-----------------------------------------------------------------------------
(* Adaptation *)

\* A predicted increment of beta is between zero and the cap (adaptive.cpp:94-106).
LEMMA PredictIsClamped ==
    ASSUME NEW estimate \in Int
    PROVE  predict(estimate) \in 0..MaxCap
<1>1. Max({estimate, 0}) \in Nat
  BY LargerOfTwo
<1> DEFINE most == Max({estimate, 0})
<1> HIDE DEF most
<1>2. Min({most, MaxCap}) \in 0..MaxCap
  BY <1>1, SmallerOfTwo, AdaptationAssumption DEF most
<1> QED
  BY <1>2 DEF predict, most

AllLadders ==
    {v \in [0..Hottest -> Int] :
        v[0] = 0 /\ \A c \in 1..Hottest : v[c] - v[c - 1] \in 0..MaxCap}

\* What computeBetaStack returns is a ladder: it starts at zero and rises by at most the
\* cap per rung, for any number of rungs.
LEMMA StackIsLadder ==
    ASSUME NEW estimates \in [1..Hottest -> Int]
    PROVE  computeBetaStack(estimates) \in AllLadders
<1> DEFINE step == [c \in 1..Hottest |-> [x \in Int |-> x + predict(estimates[c])]]
           v    == computeBetaStack(estimates)
<1>0. Hottest \in Nat \ {0}
  BY AdaptationAssumption DEF Hottest
<1>1. ASSUME NEW c \in 1..Hottest
      PROVE  predict(estimates[c]) \in 0..MaxCap /\ predict(estimates[c]) \in Int
  <2>1. estimates[c] \in Int
    OBVIOUS
  <2>2. predict(estimates[c]) \in 0..MaxCap
    BY <2>1, PredictIsClamped
  <2> QED
    BY <2>2, AdaptationAssumption
<1>2. step \in [1..Hottest -> [Int -> Int]]
  BY <1>1
<1>3. PICK g \in [0..Hottest -> Int] :
          g[0] = 0 /\ \A c \in 1..Hottest : g[c] = step[c][g[c - 1]]
  <2>1. 0 \in Int /\ Hottest \in Nat
    BY <1>0
  <2> HIDE DEF step
  <2>2. Stepwise(Hottest, Int, 0, step) # {}
    BY <1>2, <2>1, Recursion
  <2> QED
    BY <2>2 DEF Stepwise
<1>4. ASSUME NEW c \in 1..Hottest
      PROVE  g[c] = g[c - 1] + predict(estimates[c])
  <2>1. c - 1 \in 0..Hottest
    BY <1>0
  <2> QED
    BY <1>3, <2>1
<1>5. g = [c \in 0..Hottest |-> IF c = 0 THEN 0 ELSE g[c - 1] + predict(estimates[c])]
  BY <1>0, <1>3, <1>4
<1>6. v = CHOOSE f : f = [c \in 0..Hottest |->
                             IF c = 0 THEN 0 ELSE f[c - 1] + predict(estimates[c])]
  BY DEF computeBetaStack
<1>7. v = [c \in 0..Hottest |-> IF c = 0 THEN 0 ELSE v[c - 1] + predict(estimates[c])]
  BY <1>5, <1>6
<1> HIDE DEF v
<1>8. v[0] = 0 /\ \A c \in 1..Hottest : v[c] = v[c - 1] + predict(estimates[c])
  BY <1>0, <1>7
<1> DEFINE T == {c \in 0..Hottest : v[c] \in Int}
<1>9. ASSUME NEW c \in 0..Hottest, c \in T, c < Hottest
      PROVE  c + 1 \in T
  <2>1. c + 1 \in 1..Hottest /\ (c + 1) - 1 = c
    BY <1>0, <1>9
  <2> QED
    BY <1>1, <1>8, <1>9, <2>1
<1>10. 0..Hottest \subseteq T
  <2>1. 0 \in T
    BY <1>0, <1>8
  <2> HIDE DEF T
  <2> QED
    BY <1>0, <1>9, <2>1, Induction
<1>11. v \in [0..Hottest -> Int]
  BY <1>7, <1>10
<1>12. ASSUME NEW c \in 1..Hottest
       PROVE  v[c] - v[c - 1] \in 0..MaxCap
  <2>1. v[c] = v[c - 1] + predict(estimates[c]) /\ predict(estimates[c]) \in 0..MaxCap
    BY <1>1, <1>8
  <2>2. v[c - 1] \in Int
    BY <1>0, <1>11
  <2> QED
    BY <2>1, <2>2, AdaptationAssumption
<1> QED
  BY <1>8, <1>11, <1>12 DEF AllLadders, v

-----------------------------------------------------------------------------
\* The cascades that are on their way below chain c.
Below(c) == locked \cap 0..(c - 2)

\* Each of them will make the rung of chain c one ladder older, and no other will.
OldEnough(c) ==
    \E k \in DOMAIN Ladders :
        heat[c] = Ladders[k][c] /\ k + Cardinality(Below(c)) <= c

AdaptationInv ==
    /\ values \in AllLadders
    /\ earlier \in Seq(AllLadders) /\ Len(earlier) <= NTemps - 2
    /\ heat \in [0..Hottest -> Int] /\ heat[0] = 0
    /\ locked \subseteq 0..(Hottest - 1)
    /\ \A c \in 1..Hottest : OldEnough(c)

\* A set of cascades below chain c has fewer than c members.
LEMMA BelowIsFinite ==
    ASSUME NEW c \in 1..Hottest, NEW Some \in SUBSET (0..(c - 2))
    PROVE  IsFiniteSet(Some) /\ Cardinality(Some) \in 0..(c - 1)
<1>0. Hottest \in Nat \ {0}
  BY AdaptationAssumption DEF Hottest
<1>1. IsFiniteSet(0..(c - 2)) /\ Cardinality(0..(c - 2)) = IF 0 > c - 2 THEN 0 ELSE c - 2 - 0 + 1
  BY <1>0, FS_Interval
<1>2. IsFiniteSet(Some) /\ Cardinality(Some) <= Cardinality(0..(c - 2))
  BY <1>1, FS_Subset
<1>3. Cardinality(Some) \in Nat
  BY <1>2, FS_CardinalityType
<1> QED
  BY <1>0, <1>1, <1>2, <1>3

\* The invariant holds when every chain has its rung of the initial ladder,
LEMMA AdaptationStarts == AdaptationIdle => AdaptationInv
<1> SUFFICES ASSUME AdaptationIdle
             PROVE  AdaptationInv
  OBVIOUS
<1>0. Hottest \in Nat \ {0} /\ NTemps - 2 \in Nat
  BY AdaptationAssumption DEF Hottest
<1>1. values \in AllLadders
  <2>1. PICK estimates \in [1..Hottest -> Estimates] : values = computeBetaStack(estimates)
    BY DEF AdaptationIdle
  <2>2. estimates \in [1..Hottest -> Int]
    BY AdaptationAssumption
  <2> QED
    BY <2>1, <2>2, StackIsLadder
<1>2. heat \in [0..Hottest -> Int] /\ heat[0] = 0 /\ heat = values
  BY <1>1 DEF AdaptationIdle, AllLadders
<1>3. ASSUME NEW c \in 1..Hottest
      PROVE  OldEnough(c)
  <2>1. Below(c) = {}
    BY DEF Below, AdaptationIdle
  <2>2. Cardinality(Below(c)) = 0
    BY <2>1, FS_EmptySet
  <2>3. 1 \in DOMAIN Ladders /\ Ladders[1] = values
    BY DEF Ladders, AdaptationIdle
  <2> QED
    BY <1>0, <1>2, <2>2, <2>3 DEF OldEnough
<1> QED
  BY <1>0, <1>1, <1>2, <1>3 DEF AdaptationInv, AdaptationIdle

\* A new ladder makes all others one older; the oldest is dropped.
LEMMA RecomputeAges ==
    ASSUME AdaptationInv, Recompute
    PROVE  /\ values' \in AllLadders
           /\ earlier' \in Seq(AllLadders) /\ (Len(earlier) <= NTemps - 2)'
           /\ 1 \in DOMAIN (Ladders') /\ (Ladders[1])' = values'
           /\ \A k \in DOMAIN Ladders :
                 k <= NTemps - 2 => k + 1 \in DOMAIN (Ladders') /\ (Ladders')[k + 1] = Ladders[k]
<1>0. Hottest \in Nat \ {0} /\ NTemps - 2 \in Nat
  BY AdaptationAssumption DEF Hottest
<1>1. values' \in AllLadders
  <2>1. PICK estimates \in [1..Hottest -> Estimates] : values' = computeBetaStack(estimates)
    BY DEF Recompute
  <2>2. estimates \in [1..Hottest -> Int]
    BY AdaptationAssumption
  <2> QED
    BY <2>1, <2>2, StackIsLadder
<1> DEFINE all == Ladders
           n   == Min({Len(earlier) + 1, NTemps - 2})
<1>2. all \in Seq(AllLadders) /\ Len(all) = Len(earlier) + 1
  BY DEF Ladders, AdaptationInv
<1>3. n \in 0..Len(all) /\ n <= NTemps - 2 /\ (n = Len(all) \/ n = NTemps - 2)
  <2>1. Len(earlier) + 1 \in Nat /\ Len(earlier) <= NTemps - 2
    BY DEF AdaptationInv
  <2>2. n = IF Len(earlier) + 1 <= NTemps - 2 THEN Len(earlier) + 1 ELSE NTemps - 2
    BY <1>0, <2>1, SmallerOfTwo
  <2> QED
    BY <1>0, <1>2, <2>1, <2>2
<1>4. earlier' = SubSeq(all, 1, n)
  BY DEF Recompute, Ladders
<1> HIDE DEF all, n
<1>5. earlier' \in Seq(AllLadders) /\ Len(earlier') = n /\ \A i \in 1..n : (earlier')[i] = all[i]
  BY <1>2, <1>3, <1>4
<1> DEFINE e == earlier'
           v == values'
<1>6. Ladders' = <<v>> \o e
  BY DEF Ladders
<1>7. e \in Seq(AllLadders) /\ Len(e) = n /\ \A i \in 1..n : e[i] = all[i]
  BY <1>5
<1> HIDE DEF e, v
<1> DEFINE w == <<v>> \o e
<1>8. DOMAIN w = 1..(n + 1) /\ w[1] = v /\ \A k \in 1..n : w[k + 1] = e[k]
  BY <1>3, <1>7
<1>9. \A k \in DOMAIN all : k <= NTemps - 2 => k \in 1..n
  BY <1>0, <1>2, <1>3
<1> HIDE DEF w
<1>10. \A k \in DOMAIN all : k <= NTemps - 2 => k + 1 \in DOMAIN w /\ w[k + 1] = all[k]
  BY <1>3, <1>7, <1>8, <1>9
<1>11. 1 \in DOMAIN w
  BY <1>3, <1>8
<1> QED
  BY <1>1, <1>3, <1>5, <1>6, <1>8, <1>10, <1>11 DEF w, v, all

\* A step of a cascade at d gives chain d + 1 a rung of the last ladder.
LEMMA CascadeAges ==
    ASSUME AdaptationInv, NEW d \in 0..(Hottest - 1), CascadeStep(d)
    PROVE  AdaptationInv'
<1>0. Hottest \in Nat \ {0} /\ NTemps - 2 = Hottest - 1 /\ NTemps - 2 \in Nat
  BY AdaptationAssumption DEF Hottest
<1>1. /\ d \in locked /\ d - 1 \notin locked
      /\ locked' = (locked \ {d}) \cup ({d - 1} \cap (0..Hottest))
      /\ locked \subseteq 0..(Hottest - 1)
  BY DEF CascadeStep, AdaptationInv
<1>2. locked' \subseteq 0..(Hottest - 1)
  BY <1>0, <1>1
<1>3. values' \in AllLadders /\ earlier' \in Seq(AllLadders) /\ (Len(earlier) <= NTemps - 2)'
  BY RecomputeAges DEF CascadeStep, Swap, AdaptationInv
<1>4. heat' = [heat EXCEPT ![d + 1] = (values')[d + 1]]
  BY DEF CascadeStep, Swap
<1> DEFINE v == values'
<1>5. v \in [0..Hottest -> Int]
  BY <1>3 DEF AllLadders
<1>6. heat' \in [0..Hottest -> Int] /\ (heat')[0] = 0
  <2> HIDE DEF v
  <2>1. heat' = [heat EXCEPT ![d + 1] = v[d + 1]]
    BY <1>4 DEF v
  <2> QED
    BY <1>0, <1>5, <2>1 DEF AdaptationInv
<1>7. ASSUME NEW c \in 1..Hottest
      PROVE  OldEnough(c)'
  <2> DEFINE below == locked' \cap 0..(c - 2)
             lads  == Ladders'
             h     == heat'
  <2>0. /\ c \in Int /\ IsFiniteSet(below) /\ Cardinality(below) \in 0..(c - 1)
    BY <1>0, BelowIsFinite
  <2>1. SUFFICES \E k \in DOMAIN lads : h[c] = lads[k][c] /\ k + Cardinality(below) <= c
    BY DEF OldEnough, Below
  <2>2. CASE c = d + 1
    <3>1. 1 \in DOMAIN lads /\ lads[1] = v
      BY DEF Ladders
    <3>2. h[c] = v[c]
      BY <1>0, <1>4, <2>2 DEF AdaptationInv
    <3>3. 1 + Cardinality(below) <= c
      BY <2>0
    <3> HIDE DEF lads, h, v, below
    <3> QED
      BY <3>1, <3>2, <3>3
  <2>3. CASE c # d + 1
    <3> DEFINE before == locked \cap 0..(c - 2)
    <3>1. PICK k \in DOMAIN Ladders :
              heat[c] = Ladders[k][c] /\ k + Cardinality(before) <= c
      BY DEF AdaptationInv, OldEnough, Below
    <3>2. IsFiniteSet(before) /\ Cardinality(before) \in 0..(c - 1)
      BY BelowIsFinite
    <3>3. h[c] = heat[c]
      BY <1>0, <1>4, <2>3 DEF AdaptationInv
    <3>4. k \in Nat \ {0}
      BY <3>1 DEF Ladders, AdaptationInv
    <3>5. CASE d # 0
      <4>1. lads = Ladders
        BY <3>5 DEF CascadeStep, Swap, Ladders
      <4>2. Cardinality(below) = Cardinality(before)
        <5>1. CASE d <= c - 2
          <6>1. below = (before \ {d}) \cup {d - 1} /\ d \in before /\ d - 1 \notin before \ {d}
            BY <1>0, <1>1, <2>0, <3>5, <5>1
          <6> DEFINE less == before \ {d}
          <6>2. IsFiniteSet(less) /\ Cardinality(less) = Cardinality(before) - 1
            BY <3>2, <6>1, FS_RemoveElement, ZenonT(30)
          <6> HIDE DEF less
          <6>3. Cardinality(less \cup {d - 1}) = Cardinality(less) + 1
            BY <6>1, <6>2, FS_AddElement DEF less
          <6> QED
            BY <3>2, <6>1, <6>2, <6>3 DEF less
        <5>2. CASE ~ (d <= c - 2)
          <6>1. below = before
            BY <1>0, <1>1, <2>0, <2>3, <3>5, <5>2
          <6> QED
            BY <6>1
        <5> QED
          BY <5>1, <5>2
      <4> HIDE DEF lads, h, below, before
      <4> QED
        BY <3>1, <3>3, <4>1, <4>2
    <3>6. CASE d = 0
      <4>1. below = before \ {0} /\ 0 \in before
        BY <1>0, <1>1, <2>0, <2>3, <3>6
      <4>2. Cardinality(below) = Cardinality(before) - 1
        <5> HIDE DEF below, before
        <5> QED
          BY <3>2, <4>1, FS_RemoveElement, ZenonT(30)
      <4>3. Cardinality(before) # 0
        BY <3>2, <4>1, FS_EmptySet
      <4>4. k <= NTemps - 2
        BY <1>0, <2>0, <3>1, <3>2, <3>4, <4>3
      <4>5. k + 1 \in DOMAIN lads /\ lads[k + 1] = Ladders[k]
        BY <3>1, <3>6, <4>4, RecomputeAges DEF CascadeStep, Swap
      <4> HIDE DEF lads, h, below, before
      <4>6. k + 1 + Cardinality(below) <= c
        BY <2>0, <3>1, <3>2, <3>4, <4>2
      <4> QED
        BY <3>1, <3>3, <4>5, <4>6
    <3> QED
      BY <3>5, <3>6
  <2> QED
    BY <2>2, <2>3
<1> QED
  BY <1>2, <1>3, <1>6, <1>7 DEF AdaptationInv

\* is kept by a new cascade and by each step of one,
LEMMA AdaptationStep ==
    ASSUME AdaptationInv, AdaptationNext
    PROVE  AdaptationInv'
<1>1. CASE StartCascade
  <2>0. Hottest \in Nat \ {0}
    BY AdaptationAssumption DEF Hottest
  <2>1. locked' \subseteq 0..(Hottest - 1)
    BY <1>1, <2>0 DEF StartCascade, AdaptationInv
  <2>2. ASSUME NEW c \in 1..Hottest
        PROVE  OldEnough(c)'
    <3>1. Below(c)' = Below(c)
      BY <1>1, <2>0 DEF StartCascade, Below
    <3>2. Ladders' = Ladders /\ heat' = heat
      BY <1>1 DEF StartCascade, Ladders
    <3> QED
      BY <3>1, <3>2 DEF OldEnough, AdaptationInv
  <2> QED
    BY <1>1, <2>1, <2>2 DEF StartCascade, AdaptationInv
<1> QED
  BY <1>1, CascadeAges DEF AdaptationNext

\* and by the steps of the other parts.
LEMMA AdaptationRests ==
    ASSUME AdaptationInv, UNCHANGED adaptationVars
    PROVE  AdaptationInv'
BY DEF adaptationVars, AdaptationInv, OldEnough, Below, Ladders

\* A rung that is old enough is of one of the last c ladders.
LEMMA AdaptationInvImpliesLag == AdaptationInv => TemperaturesLag
<1> SUFFICES ASSUME AdaptationInv
             PROVE  TemperaturesLag
  OBVIOUS
<1>1. \A k \in DOMAIN Ladders : Ladders[k] \in AllLadders
  <2>1. Ladders \in Seq(AllLadders)
    BY DEF Ladders, AdaptationInv
  <2> QED
    BY <2>1
<1>2. ASSUME NEW c \in 1..Hottest
      PROVE  \E k \in (1..c) \cap DOMAIN Ladders : heat[c] = Ladders[k][c]
  <2>1. PICK k \in DOMAIN Ladders : heat[c] = Ladders[k][c] /\ k + Cardinality(Below(c)) <= c
    BY DEF AdaptationInv, OldEnough
  <2>2. Cardinality(Below(c)) \in Nat
    BY BelowIsFinite DEF Below
  <2>3. k \in Nat \ {0}
    BY <2>1 DEF Ladders, AdaptationInv
  <2>4. k \in 1..c
    BY <2>1, <2>2, <2>3
  <2> QED
    BY <2>1, <2>4
<1> QED
  BY <1>1, <1>2 DEF TemperaturesLag, AllLadders, AdaptationInv

-----------------------------------------------------------------------------
\* A ring has the last of all times, after zeros while there are too few.
RingHasLast(ring, all) ==
    /\ ring \in Seq(Nat) /\ Len(ring) = Capacity
    /\ \A i \in 1..Capacity :
          ring[i] = IF Len(all) + i > Capacity THEN all[Len(all) + i - Capacity] ELSE 0

\* A new buffer holds zeros.
LEMMA NewRing == RingHasLast(CircularBuffer, <<>>)
<1>1. Capacity \in Nat
  BY SchedulingAssumption
<1>2. CircularBuffer \in Seq(Nat) /\ Len(CircularBuffer) = Capacity
  BY <1>1 DEF CircularBuffer
<1>3. \A i \in 1..Capacity : CircularBuffer[i] = 0 /\ ~ (Len(<<>>) + i > Capacity)
  BY <1>1 DEF CircularBuffer
<1> QED
  BY <1>2, <1>3 DEF RingHasLast

\* PushBack drops the oldest time and keeps the others in order (circularbuffer.hpp:34-39).
LEMMA PushKeepsLast ==
    ASSUME NEW all \in Seq(Nat), NEW ring, RingHasLast(ring, all), NEW val \in Nat
    PROVE  RingHasLast(PushBack(ring, val), Append(all, val))
<1> DEFINE longer == Append(ring, val)
           more   == Append(all, val)
<1>0. Capacity \in Nat \ {0} /\ Len(all) \in Nat
  BY SchedulingAssumption
<1>1. /\ longer \in Seq(Nat) /\ Len(longer) = Capacity + 1
      /\ \A i \in 1..Capacity : longer[i] = ring[i]
      /\ longer[Capacity + 1] = val
  BY <1>0 DEF RingHasLast
<1>2. /\ more \in Seq(Nat) /\ Len(more) = Len(all) + 1
      /\ \A i \in 1..Len(all) : more[i] = all[i]
      /\ more[Len(all) + 1] = val
  BY <1>0
<1> HIDE DEF longer, more
<1>3. PushBack(ring, val) = Tail(longer)
  BY <1>0, <1>1 DEF PushBack, longer
<1> DEFINE next == Tail(longer)
<1>4. /\ next \in Seq(Nat) /\ Len(next) = Capacity
      /\ \A i \in 1..Capacity : next[i] = longer[i + 1]
  BY <1>0, <1>1
<1> HIDE DEF next
<1>5. ASSUME NEW i \in 1..Capacity
      PROVE  next[i] = IF Len(more) + i > Capacity THEN more[Len(more) + i - Capacity] ELSE 0
  <2>1. CASE i = Capacity
    <3>1. next[i] = val
      BY <1>0, <1>1, <1>4, <2>1
    <3>2. Len(more) + i > Capacity /\ Len(more) + i - Capacity = Len(all) + 1
      BY <1>0, <1>2, <2>1
    <3> QED
      BY <1>2, <3>1, <3>2
  <2>2. CASE i # Capacity
    <3>1. i + 1 \in 1..Capacity /\ next[i] = ring[i + 1]
      BY <1>0, <1>1, <1>4, <2>2, SMTT(30)
    <3>2. ring[i + 1] = IF Len(all) + (i + 1) > Capacity
                        THEN all[Len(all) + (i + 1) - Capacity] ELSE 0
      BY <3>1 DEF RingHasLast
    <3>3. CASE Len(all) + (i + 1) > Capacity
      <4>1. Len(all) + (i + 1) - Capacity \in 1..Len(all)
        BY <1>0, <3>1, <3>3
      <4>2. Len(more) + i > Capacity
            /\ Len(more) + i - Capacity = Len(all) + (i + 1) - Capacity
        BY <1>0, <1>2, <3>3
      <4> QED
        BY <1>2, <3>1, <3>2, <3>3, <4>1, <4>2
    <3>4. CASE ~ (Len(all) + (i + 1) > Capacity)
      <4>1. ~ (Len(more) + i > Capacity)
        BY <1>0, <1>2, <3>4
      <4> QED
        BY <3>1, <3>2, <3>4, <4>1
    <3> QED
      BY <3>3, <3>4
  <2> QED
    BY <2>1, <2>2
<1> QED
  BY <1>3, <1>4, <1>5 DEF RingHasLast, next, more

\* A ring adds up to the last Capacity times measured.
LEMMA RingTotal ==
    ASSUME NEW all \in Seq(Nat), NEW ring, RingHasLast(ring, all)
    PROVE  Total(SubSeq(all, Max({1, Len(all) - Capacity + 1}), Len(all))) = Total(ring)
<1> DEFINE n     == Len(all)
           first == Max({1, n - Capacity + 1})
           k     == IF n >= Capacity THEN 0 ELSE Capacity - n
           q     == SubSeq(ring, k + 1, Capacity)
           r     == SubSeq(all, first, n)
<1>0. Capacity \in Nat \ {0} /\ n \in Nat
  BY SchedulingAssumption
<1>1. first = IF n >= Capacity THEN n - Capacity + 1 ELSE 1
  BY <1>0, LargerOfTwo
<1>2. ring \in Seq(Nat) /\ Len(ring) = Capacity /\ k \in 0..Capacity
  BY <1>0 DEF RingHasLast
<1>3. Total(ring) = Total(q)
  <2>1. ASSUME NEW i \in 1..k
        PROVE  ring[i] = 0
    <3>1. i \in 1..Capacity /\ ~ (n + i > Capacity)
      BY <1>0
    <3> QED
      BY <3>1 DEF RingHasLast
  <2> HIDE DEF k
  <2> QED
    BY <1>2, <2>1, LeadingZeros, SMTT(30)
<1>4. q \in Seq(Nat) /\ Len(q) = Capacity - k /\ \A i \in 1..(Capacity - k) : q[i] = ring[k + i]
  <2> HIDE DEF k
  <2> QED
    BY <1>0, <1>2
<1>5. r \in Seq(Nat) /\ Len(r) = n - first + 1 /\ \A i \in 1..(n - first + 1) : r[i] = all[first + i - 1]
  <2>1. first \in 1..(n + 1)
    BY <1>0, <1>1
  <2> HIDE DEF first
  <2> QED
    BY <1>0, <2>1
<1>6. Capacity - k = n - first + 1
  BY <1>0, <1>1
<1>7. ASSUME NEW i \in 1..(Capacity - k)
      PROVE  q[i] = r[i]
  <2>1. k + i \in 1..Capacity /\ n + (k + i) > Capacity /\ n + (k + i) - Capacity = first + i - 1
    <3>1. k = IF n >= Capacity THEN 0 ELSE Capacity - n
      OBVIOUS
    <3> HIDE DEF first, k, n
    <3>2. n \in Nat /\ i \in Nat /\ i >= 1 /\ i <= Capacity - k
      BY <1>0, <1>2
    <3> QED
      BY <1>0, <1>1, <3>1, <3>2
  <2>2. ring[k + i] = all[first + i - 1]
    BY <2>1 DEF RingHasLast
  <2> HIDE DEF q, r, k, first
  <2> QED
    BY <1>4, <1>5, <1>6, <2>2
<1>8. q = r
  <2> HIDE DEF q, r, k, first
  <2> QED
    BY <1>4, <1>5, <1>6, <1>7, SeqEqual
<1> QED
  <2>1. Total(q) = Total(r)
    BY <1>8
  <2> QED
    BY <1>3, <2>1

-----------------------------------------------------------------------------
SchedulingInv ==
    /\ DOMAIN inProgress = Worker /\ DOMAIN times = Worker /\ DOMAIN measured = Worker
    /\ \A w \in Worker :
          /\ inProgress[w] \in Seq(TypesOf[w])
          /\ DOMAIN times[w] = TypesOf[w] /\ DOMAIN measured[w] = TypesOf[w]
          /\ \A t \in TypesOf[w] :
                measured[w][t] \in Seq(Nat) /\ RingHasLast(times[w][t], measured[w][t])

\* unsigned arithmetic stays below Unsigned and is exact below it.
LEMMA Wraps ==
    ASSUME NEW n \in Nat, NEW d \in Nat \ {0}
    PROVE  n % d \in 0..(d - 1) /\ (n < d => n % d = n)
OBVIOUS

\* A mean is a natural number.
LEMMA Shares ==
    ASSUME NEW n \in Nat, NEW d \in Nat \ {0}
    PROVE  n \div d \in Nat
OBVIOUS

\* The mean time of a type is an unsigned number.
LEMMA TimesAreUnsigned ==
    ASSUME SchedulingInv, NEW w \in Worker, NEW type \in TypesOf[w]
    PROVE  /\ Total(times[w][type]) \in Nat
           /\ timeForJob(w, type) \in Nat
<1>1. Total(times[w][type]) \in Nat
  BY TotalIsNat DEF SchedulingInv, RingHasLast
<1> DEFINE n == Total(times[w][type])
<1> HIDE DEF n
<1>2. n % Unsigned \in Nat
  BY <1>1, Wraps, SchedulingAssumption DEF n
<1> DEFINE m == n % Unsigned
<1> HIDE DEF m
<1>3. m \div Capacity \in Nat
  BY <1>2, Shares, SchedulingAssumption DEF m
<1> QED
  BY <1>1, <1>3 DEF timeForJob, m, n

\* So is the estimate of a worker, the largest uint included.
LEMMA EstimatesAreUnsigned ==
    ASSUME SchedulingInv, NEW w \in Worker, NEW type \in TypesOf[w]
    PROVE  usTillDone(w, type) \in 0..(Unsigned - 1)
<1> DEFINE each == [i \in DOMAIN inProgress[w] |-> timeForJob(w, inProgress[w][i])]
           mine == timeForJob(w, type)
<1>1. each \in Seq(Nat)
  <2>1. inProgress[w] \in Seq(TypesOf[w])
    BY DEF SchedulingInv
  <2>2. \A i \in DOMAIN inProgress[w] : timeForJob(w, inProgress[w][i]) \in Nat
    BY <2>1, TimesAreUnsigned
  <2>3. DOMAIN inProgress[w] = 1..Len(inProgress[w]) /\ Len(inProgress[w]) \in Nat
    BY <2>1
  <2> QED
    BY <2>2, <2>3
<1>2. mine \in Nat
  BY TimesAreUnsigned
<1> DEFINE sum == Total(each)
<1>3. sum \in Nat
  BY <1>1, TotalIsNat
<1> HIDE DEF each, mine, sum
<1>4. sum + mine \in Nat
  BY <1>2, <1>3
<1>5. (sum + mine) % Unsigned \in 0..(Unsigned - 1)
  BY <1>4, Wraps, SchedulingAssumption
<1> QED
  BY <1>5 DEF usTillDone, sum, each, mine

\* What best of bestWorker is after the first i workers.
BestAmong(x, i, type) ==
    /\ x.time \in 0..(Unsigned - 1)
    /\ x.worker = NoWorker => x.time = Unsigned - 1
    /\ x.worker # NoWorker =>
          x.worker \in Candidates(type) /\ x.time = usTillDone(x.worker, type)
    /\ \A j \in 1..i :
          Workers[j] \in Candidates(type) => x.time <= usTillDone(Workers[j], type)

\* The loop of bestWorker ends with the least estimate of all workers that it looked at.
LEMMA BestIsBest ==
    ASSUME SchedulingInv, NEW type
    PROVE  \E x \in [worker : Worker \cup {NoWorker}, time : 0..(Unsigned - 1)] :
               x.worker = bestWorker(type) /\ BestAmong(x, Len(Workers), type)
<1> DEFINE n    == Len(Workers)
           V    == [worker : Worker \cup {NoWorker}, time : 0..(Unsigned - 1)]
           none == [worker |-> NoWorker, time |-> Unsigned - 1]
           Better(i, x) == Workers[i] \in Candidates(type)
                                /\ usTillDone(Workers[i], type) < x.time
           this(i) == [worker |-> Workers[i], time |-> usTillDone(Workers[i], type)]
           step == [i \in 1..n |-> [x \in V |-> IF Better(i, x) THEN this(i) ELSE x]]
           v    == CHOOSE f : f = [i \in 0..n |-> IF i = 0 THEN none
                                     ELSE IF Better(i, f[i - 1]) THEN this(i) ELSE f[i - 1]]
<1>0. n \in Nat /\ Unsigned \in Nat \ {0} /\ \A i \in 1..n : Workers[i] \in Worker
  BY SchedulingAssumption DEF Worker
<1>a. NoWorker \notin Worker
  BY SchedulingAssumption DEF Worker
<1>1. none \in V
  BY <1>0
<1>2. ASSUME NEW w \in Candidates(type)
      PROVE  w \in Worker /\ usTillDone(w, type) \in 0..(Unsigned - 1)
  BY EstimatesAreUnsigned DEF Candidates
<1>3. ASSUME NEW i \in 1..n, Workers[i] \in Candidates(type)
      PROVE  this(i) \in V
  BY <1>2, <1>3
<1>4. step \in [1..n -> [V -> V]]
  BY <1>3
<1>5. PICK g \in [0..n -> V] :
          g[0] = none /\ \A i \in 1..n : g[i] = step[i][g[i - 1]]
  <2> HIDE DEF step, n, V, none
  <2>1. Stepwise(n, V, none, step) # {}
    BY <1>0, <1>1, <1>4, Recursion
  <2> QED
    BY <2>1 DEF Stepwise
<1>6. ASSUME NEW i \in 1..n
      PROVE  g[i] = IF Better(i, g[i - 1]) THEN this(i) ELSE g[i - 1]
  <2>1. i - 1 \in 0..n
    BY <1>0
  <2>2. g[i - 1] \in V
    BY <1>5, <2>1
  <2>3. step[i][g[i - 1]] = IF Better(i, g[i - 1]) THEN this(i) ELSE g[i - 1]
    <3> HIDE DEF V, Better, this
    <3> QED
      BY <2>2
  <2> HIDE DEF step, Better, this
  <2> QED
    BY <1>5, <2>3
<1>7. g = [i \in 0..n |-> IF i = 0 THEN none
                          ELSE IF Better(i, g[i - 1]) THEN this(i) ELSE g[i - 1]]
  <2> HIDE DEF none, Better, this, step, V, n
  <2> QED
    BY <1>0, <1>5, <1>6
<1>8. v = [i \in 0..n |-> IF i = 0 THEN none
                          ELSE IF Better(i, v[i - 1]) THEN this(i) ELSE v[i - 1]]
  BY <1>7
<1>9. bestWorker(type) = v[n].worker
  BY DEF bestWorker
<1> HIDE DEF v
<1>10. v[0] = none /\ \A i \in 1..n : v[i] = IF Better(i, v[i - 1]) THEN this(i) ELSE v[i - 1]
  <2> HIDE DEF none, Better, this
  <2> QED
    BY <1>0, <1>8
<1> DEFINE T == {i \in 0..n : v[i] \in V /\ BestAmong(v[i], i, type)}
<1>11. 0 \in T
  BY <1>0, <1>1, <1>10 DEF BestAmong
<1>12. ASSUME NEW i \in 0..n, i \in T, i < n
       PROVE  i + 1 \in T
  <2> DEFINE x == v[i]
             y == v[i + 1]
  <2>1. i \in Nat /\ i + 1 \in 1..n /\ (i + 1) - 1 = i
    BY <1>0, <1>12
  <2>2. y = IF Better(i + 1, x) THEN this(i + 1) ELSE x
    BY <1>10, <2>1
  <2>3. x \in V /\ BestAmong(x, i, type)
    BY <1>12
  <2> HIDE DEF x, y
  <2>4. CASE Better(i + 1, x)
    <3> DEFINE w == Workers[i + 1]
    <3>1. y = [worker |-> w, time |-> usTillDone(w, type)] /\ w \in Candidates(type)
          /\ usTillDone(w, type) < x.time
      BY <2>2, <2>4
    <3>2. w \in Worker /\ w # NoWorker /\ usTillDone(w, type) \in 0..(Unsigned - 1)
      BY <1>2, <1>a, <3>1
    <3>3. y \in V /\ y.worker = w /\ y.time = usTillDone(w, type)
      BY <3>1, <3>2
    <3>4. ASSUME NEW j \in 1..(i + 1), Workers[j] \in Candidates(type)
          PROVE  y.time <= usTillDone(Workers[j], type)
      <4>1. CASE j = i + 1
        BY <3>2, <3>3, <4>1
      <4>2. CASE j # i + 1
        <5>1. j \in 1..i
          BY <2>1, <4>2
        <5>2. x.time <= usTillDone(Workers[j], type)
          BY <2>3, <3>4, <5>1 DEF BestAmong
        <5>3. usTillDone(Workers[j], type) \in Nat /\ x.time \in Nat
          BY <1>0, <1>2, <2>3, <3>4
        <5> QED
          BY <3>1, <3>2, <3>3, <5>2, <5>3
      <4> QED
        BY <4>1, <4>2
    <3>5. BestAmong(y, i + 1, type)
      <4> HIDE DEF w
      <4> QED
        BY <3>1, <3>2, <3>3, <3>4 DEF BestAmong
    <3> QED
      BY <2>1, <3>3, <3>5 DEF y
  <2>5. CASE ~ Better(i + 1, x)
    <3>1. y = x
      BY <2>2, <2>5
    <3>2. ASSUME NEW j \in 1..(i + 1), Workers[j] \in Candidates(type)
          PROVE  x.time <= usTillDone(Workers[j], type)
      <4>1. usTillDone(Workers[j], type) \in Nat /\ x.time \in Nat
        BY <1>0, <1>2, <2>3, <3>2
      <4>2. CASE j = i + 1
        BY <2>5, <3>2, <4>1, <4>2
      <4>3. CASE j # i + 1
        <5>1. j \in 1..i
          BY <2>1, <4>3
        <5> QED
          BY <2>3, <3>2, <5>1 DEF BestAmong
      <4> QED
        BY <4>2, <4>3
    <3>3. BestAmong(x, i + 1, type)
      BY <2>3, <3>2 DEF BestAmong
    <3> QED
      BY <2>1, <2>3, <3>1, <3>3 DEF y
  <2> QED
    BY <2>4, <2>5
<1>13. n \in T
  <2>1. n \in 0..n
    BY <1>0
  <2> HIDE DEF T, n
  <2> QED
    BY <1>0, <1>11, <1>12, <2>1, Induction
<1> QED
  BY <1>9, <1>13

\* bestWorker returns a candidate that no other is better than, and none only when no
\* estimate is less than the largest uint.
LEMMA BestWorker ==
    ASSUME SchedulingInv, NEW type
    PROVE  /\ bestWorker(type) # NoWorker =>
                 /\ bestWorker(type) \in Candidates(type)
                 /\ \A w \in Candidates(type) :
                       usTillDone(bestWorker(type), type) <= usTillDone(w, type)
           /\ bestWorker(type) = NoWorker =>
                 \A w \in Candidates(type) : usTillDone(w, type) = Unsigned - 1
<1>1. PICK x \in [worker : Worker \cup {NoWorker}, time : 0..(Unsigned - 1)] :
          x.worker = bestWorker(type) /\ BestAmong(x, Len(Workers), type)
  BY BestIsBest
<1>2. ASSUME NEW w \in Candidates(type)
      PROVE  x.time <= usTillDone(w, type) /\ usTillDone(w, type) \in 0..(Unsigned - 1)
  <2>1. w \in Worker /\ usTillDone(w, type) \in 0..(Unsigned - 1)
    BY EstimatesAreUnsigned DEF Candidates
  <2>2. PICK j \in 1..Len(Workers) : Workers[j] = w
    BY <2>1, SchedulingAssumption DEF Worker, ToSet
  <2> QED
    BY <1>1, <2>1, <2>2 DEF BestAmong
<1>3. CASE x.worker = NoWorker
  <2>1. x.time = Unsigned - 1
    BY <1>1, <1>3 DEF BestAmong
  <2> QED
    BY <1>1, <1>2, <1>3, <2>1, SchedulingAssumption
<1>4. CASE x.worker # NoWorker
  BY <1>1, <1>2, <1>4 DEF BestAmong
<1> QED
  BY <1>3, <1>4

\* The invariant holds before a job is given to anyone,
LEMMA SchedulingStarts == SchedulingIdle => SchedulingInv
<1> SUFFICES ASSUME SchedulingIdle
             PROVE  SchedulingInv
  OBVIOUS
<1>1. ASSUME NEW w \in Worker
      PROVE  /\ inProgress[w] \in Seq(TypesOf[w])
             /\ DOMAIN times[w] = TypesOf[w] /\ DOMAIN measured[w] = TypesOf[w]
             /\ \A t \in TypesOf[w] : times[w][t] = CircularBuffer /\ measured[w][t] = <<>>
  BY DEF SchedulingIdle
<1>2. <<>> \in Seq(Nat)
  OBVIOUS
<1>3. DOMAIN inProgress = Worker /\ DOMAIN times = Worker /\ DOMAIN measured = Worker
  BY DEF SchedulingIdle
<1> QED
  BY <1>1, <1>2, <1>3, NewRing DEF SchedulingInv

\* is kept by each job given and each time measured,
LEMMA SchedulingStep ==
    ASSUME SchedulingInv, SchedulingNext
    PROVE  SchedulingInv'
<1>1. ASSUME NEW type, AssignToBest(type)
      PROVE  SchedulingInv'
  <2> DEFINE b == bestWorker(type)
  <2>1. b \in Worker /\ type \in TypesOf[b]
    BY <1>1, BestWorker DEF AssignToBest, Candidates
  <2>2. inProgress' = [inProgress EXCEPT ![b] = Append(inProgress[b], type)]
    BY <1>1 DEF AssignToBest
  <2> HIDE DEF b
  <2>3. Append(inProgress[b], type) \in Seq(TypesOf[b])
    BY <2>1 DEF SchedulingInv
  <2>4. DOMAIN (inProgress') = Worker
        /\ \A w \in Worker : (inProgress')[w] \in Seq(TypesOf[w])
    BY <2>1, <2>2, <2>3 DEF SchedulingInv
  <2> QED
    BY <1>1, <2>4 DEF AssignToBest, SchedulingInv
<1>2. ASSUME NEW w \in Worker, NEW usecs \in Elapsed, NEW i \in DOMAIN inProgress[w],
             Measure(w, i, usecs)
      PROVE  SchedulingInv'
  <2> DEFINE type == inProgress[w][i]
             left == RemoveAt(inProgress[w], i)
             ring == PushBack(times[w][type], usecs)
             all  == Append(measured[w][type], usecs)
  <2>0. inProgress[w] \in Seq(TypesOf[w])
    BY DEF SchedulingInv
  <2>1. type \in TypesOf[w]
    BY <2>0
  <2>2. left \in Seq(TypesOf[w])
    <3> DEFINE q     == inProgress[w]
               types == TypesOf[w]
               front == SubSeq(q, 1, i - 1)
               back  == SubSeq(q, i + 1, Len(q))
    <3>1. i \in 1..Len(q) /\ q \in Seq(types) /\ Len(q) \in Nat
      BY <2>0
    <3> HIDE DEF q, types
    <3>2. front \in Seq(types)
      BY <3>1, SubSeqProperties
    <3>3. back \in Seq(types)
      BY <3>1, SubSeqProperties
    <3> HIDE DEF front, back
    <3>4. front \o back \in Seq(types)
      BY <3>2, <3>3
    <3>5. left = front \o back
      BY DEF RemoveAt, q, front, back
    <3> HIDE DEF left
    <3> QED
      BY <3>4, <3>5 DEF types
  <2>3. all \in Seq(Nat) /\ RingHasLast(ring, all)
    <3>1. usecs \in Nat
      BY SchedulingAssumption
    <3>2. measured[w][type] \in Seq(Nat) /\ RingHasLast(times[w][type], measured[w][type])
      BY <2>1 DEF SchedulingInv
    <3> HIDE DEF type
    <3> QED
      BY <3>1, <3>2, PushKeepsLast
  <2>4. /\ inProgress' = [inProgress EXCEPT ![w] = left]
        /\ times' = [times EXCEPT ![w] = [times[w] EXCEPT ![type] = ring]]
        /\ measured' = [measured EXCEPT ![w] = [measured[w] EXCEPT ![type] = all]]
    BY <1>2 DEF Measure
  <2> HIDE DEF type, left, ring, all
  <2>5. DOMAIN (inProgress') = Worker /\ DOMAIN (times') = Worker /\ DOMAIN (measured') = Worker
    BY <2>4 DEF SchedulingInv
  <2>6. ASSUME NEW u \in Worker
        PROVE  /\ (inProgress')[u] \in Seq(TypesOf[u])
               /\ DOMAIN ((times')[u]) = TypesOf[u] /\ DOMAIN ((measured')[u]) = TypesOf[u]
               /\ \A t \in TypesOf[u] :
                     /\ (measured')[u][t] \in Seq(Nat)
                     /\ RingHasLast((times')[u][t], (measured')[u][t])
    <3>1. CASE u # w
      <4>1. /\ (inProgress')[u] = inProgress[u] /\ (times')[u] = times[u]
            /\ (measured')[u] = measured[u]
        BY <2>4, <3>1 DEF SchedulingInv
      <4> QED
        BY <4>1 DEF SchedulingInv
    <3>2. CASE u = w
      <4>1. /\ (inProgress')[u] = left
            /\ (times')[u] = [times[w] EXCEPT ![type] = ring]
            /\ (measured')[u] = [measured[w] EXCEPT ![type] = all]
        BY <2>4, <3>2 DEF SchedulingInv
      <4>2. DOMAIN times[w] = TypesOf[w] /\ DOMAIN measured[w] = TypesOf[w]
        BY DEF SchedulingInv
      <4>3. DOMAIN ((times')[u]) = TypesOf[u] /\ DOMAIN ((measured')[u]) = TypesOf[u]
        BY <3>2, <4>1, <4>2
      <4>4. ASSUME NEW t \in TypesOf[u]
            PROVE  /\ (measured')[u][t] \in Seq(Nat)
                   /\ RingHasLast((times')[u][t], (measured')[u][t])
        <5>1. CASE t = type
          <6>1. (times')[u][t] = ring /\ (measured')[u][t] = all
            BY <2>1, <4>1, <4>2, <5>1
          <6> QED
            BY <2>3, <6>1
        <5>2. CASE t # type
          <6>1. (times')[u][t] = times[w][t] /\ (measured')[u][t] = measured[w][t]
            BY <3>2, <4>1, <4>2, <5>2
          <6> QED
            BY <3>2, <6>1 DEF SchedulingInv
        <5> QED
          BY <5>1, <5>2
      <4> QED
        BY <2>2, <3>2, <4>1, <4>3, <4>4
    <3> QED
      BY <3>1, <3>2
  <2> QED
    BY <2>5, <2>6 DEF SchedulingInv
<1> QED
  BY <1>1, <1>2 DEF SchedulingNext

\* and by the steps of the other parts.
LEMMA SchedulingRests ==
    ASSUME SchedulingInv, UNCHANGED schedulingVars
    PROVE  SchedulingInv'
BY DEF schedulingVars, SchedulingInv

\* While no sum is too large, the ring and unsigned arithmetic give the true estimate.
LEMMA EstimateIsExact ==
    ASSUME SchedulingInv, NEW type, NEW w \in Worker, type \in TypesOf[w],
           NoOverflow(w, type)
    PROVE  usTillDone(w, type) = TimeTillDone(w, type) /\ TimeTillDone(w, type) \in 0..(Unsigned - 2)
<1>0. Unsigned \in Nat \ {0} /\ Capacity \in Nat \ {0}
  BY SchedulingAssumption
<1>1. ASSUME NEW t \in TypesOf[w]
      PROVE  timeForJob(w, t) = MeanTime(w, t) /\ timeForJob(w, t) \in Nat
  <2> DEFINE n == Total(times[w][t])
  <2>1. LastTimes(w, t) = n
    BY RingTotal DEF LastTimes, SchedulingInv
  <2>2. n \in Nat /\ timeForJob(w, t) \in Nat
    BY TimesAreUnsigned
  <2>3. n < Unsigned
    BY <2>1 DEF NoOverflow
  <2>4. timeForJob(w, t) = (n % Unsigned) \div Capacity /\ MeanTime(w, t) = n \div Capacity
    BY <2>1 DEF timeForJob, MeanTime
  <2> HIDE DEF n
  <2>5. n % Unsigned = n
    BY <1>0, <2>2, <2>3, Wraps
  <2> QED
    BY <2>2, <2>4, <2>5
<1> DEFINE q    == inProgress[w]
           each == [i \in DOMAIN q |-> timeForJob(w, q[i])]
           mine == timeForJob(w, type)
<1>2. q \in Seq(TypesOf[w]) /\ \A i \in DOMAIN q : q[i] \in TypesOf[w]
  BY DEF SchedulingInv
<1>3. each = [i \in DOMAIN q |-> MeanTime(w, q[i])] /\ mine = MeanTime(w, type)
  BY <1>1, <1>2
<1>4. each \in Seq(Nat)
  <2>1. DOMAIN q = 1..Len(q) /\ Len(q) \in Nat /\ \A i \in DOMAIN q : timeForJob(w, q[i]) \in Nat
    BY <1>1, <1>2
  <2> HIDE DEF q
  <2> QED
    BY <2>1
<1> DEFINE sum == Total(each)
<1>5. sum \in Nat /\ mine \in Nat
  BY <1>1, <1>4, TotalIsNat
<1>6. usTillDone(w, type) = (sum + mine) % Unsigned
  BY DEF usTillDone
<1>7. TimeTillDone(w, type) = sum + mine
  <2> HIDE DEF mine, each
  <2> QED
    BY <1>3 DEF TimeTillDone, q
<1> HIDE DEF sum, mine
<1>8. sum + mine \in Nat /\ sum + mine < Unsigned - 1 /\ sum + mine < Unsigned
  BY <1>0, <1>5, <1>7 DEF NoOverflow
<1>9. (sum + mine) % Unsigned = sum + mine
  BY <1>0, <1>8, Wraps
<1> QED
  BY <1>0, <1>6, <1>7, <1>8, <1>9

\* The best of the exact estimates is the best of the mean times.
LEMMA SchedulingInvImpliesQuickest == SchedulingInv => QuickestEligible
<1> SUFFICES ASSUME SchedulingInv, NEW type
             PROVE  LET best == bestWorker(type) IN
                    /\ best = NoWorker =>
                          \A w \in Candidates(type) : usTillDone(w, type) = Unsigned - 1
                    /\ best # NoWorker => best \in Candidates(type)
                    /\ (\A w \in Candidates(type) : NoOverflow(w, type)) /\ Candidates(type) # {} =>
                          \A w \in Candidates(type) :
                             TimeTillDone(best, type) <= TimeTillDone(w, type)
  BY DEF QuickestEligible
<1> DEFINE best == bestWorker(type)
<1>1. best = NoWorker => \A w \in Candidates(type) : usTillDone(w, type) = Unsigned - 1
  BY BestWorker
<1>2. best # NoWorker =>
          /\ best \in Candidates(type)
          /\ \A w \in Candidates(type) : usTillDone(best, type) <= usTillDone(w, type)
  BY BestWorker
<1> HIDE DEF best
<1>3. ASSUME \A w \in Candidates(type) : NoOverflow(w, type), Candidates(type) # {},
             NEW w \in Candidates(type)
      PROVE  TimeTillDone(best, type) <= TimeTillDone(w, type)
  <2>1. ASSUME NEW u \in Candidates(type)
        PROVE  /\ usTillDone(u, type) = TimeTillDone(u, type)
               /\ usTillDone(u, type) # Unsigned - 1
    <3>1. u \in Worker /\ type \in TypesOf[u]
      BY DEF Candidates
    <3> QED
      BY <1>3, <3>1, EstimateIsExact, SchedulingAssumption
  <2>2. best # NoWorker
    BY <1>1, <2>1
  <2> QED
    BY <1>2, <2>1, <2>2
<1> QED
  BY <1>1, <1>2, <1>3 DEF best

-----------------------------------------------------------------------------
(* Statistics: the counters *)

Accepted == {s \in State : s.accepted}
SwapAccepted == {s \in State : s.swapType = "Accept"}
Attempted == {s \in State : s.swapType # "NoAttempt"}

CountIn(h, some) == Cardinality({i \in DOMAIN h : h[i] \in some})

\* Counting a longer log.
LEMMA CountOfAppend ==
    ASSUME NEW h \in Seq(State), NEW s \in State, NEW some
    PROVE  /\ CountIn(h, some) \in Nat
           /\ CountIn(Append(h, s), some) = CountIn(h, some) + One(s \in some)
<1> DEFINE n     == Len(h)
           found == {i \in DOMAIN h : h[i] \in some}
           more  == {i \in DOMAIN Append(h, s) : Append(h, s)[i] \in some}
<1>0. n \in Nat /\ DOMAIN h = 1..n /\ DOMAIN Append(h, s) = 1..(n + 1)
  OBVIOUS
<1>1. IsFiniteSet(found) /\ Cardinality(found) \in Nat
  <2>1. IsFiniteSet(1..n) /\ found \in SUBSET (1..n)
    BY <1>0, FS_Interval
  <2> HIDE DEF found
  <2>2. IsFiniteSet(found)
    BY <2>1, FS_Subset
  <2> QED
    BY <2>2, FS_CardinalityType
<1>2. Append(h, s)[n + 1] = s /\ \A i \in 1..n : Append(h, s)[i] = h[i]
  BY <1>0
<1>3. n + 1 \notin found
  BY <1>0
<1>4. CASE s \in some
  <2>1. more = found \cup {n + 1}
    BY <1>0, <1>2, <1>4
  <2> HIDE DEF found, more
  <2>2. Cardinality(more) = Cardinality(found) + 1
    BY <1>1, <1>3, <2>1, FS_AddElement
  <2> QED
    BY <1>1, <1>4, <2>2 DEF CountIn, One, found, more
<1>5. CASE s \notin some
  <2>1. more = found
    BY <1>0, <1>2, <1>5
  <2> HIDE DEF found, more
  <2>2. CountIn(h, some) = Cardinality(found) /\ CountIn(Append(h, s), some) = Cardinality(more)
    BY DEF CountIn, found, more
  <2>3. One(s \in some) = 0
    BY <1>5 DEF One
  <2> QED
    BY <1>1, <2>1, <2>2, <2>3
<1>6. CountIn(h, some) \in Nat
  BY <1>1 DEF CountIn
<1> QED
  BY <1>4, <1>5, <1>6

IsLeast(m, some) == m \in some /\ \A x \in some : m <= x

\* The least number of a set is its Min.
LEMMA LeastIsMin ==
    ASSUME NEW some \in SUBSET Int, NEW m, IsLeast(m, some)
    PROVE  Min(some) = m
<1>1. Min(some) = CHOOSE x \in some : \A y \in some : x <= y
  BY DEF Min
<1>2. \E x \in some : \A y \in some : x <= y
  BY DEF IsLeast
<1>3. Min(some) \in some /\ \A y \in some : Min(some) <= y
  <2> DEFINE low == Min(some)
  <2>1. low = CHOOSE x \in some : \A y \in some : x <= y
    BY <1>1
  <2> HIDE DEF low
  <2>2. low \in some /\ \A y \in some : low <= y
    BY <1>2, <2>1
  <2> QED
    BY <2>2 DEF low
<1> DEFINE low == Min(some)
<1>4. low \in Int /\ m \in Int /\ low <= m /\ m <= low
  BY <1>3 DEF IsLeast
<1> HIDE DEF low
<1>5. low = m
  BY <1>4
<1> QED
  BY <1>5 DEF low

Energies(h) == {Infinity} \cup {Energy[s.sample] : s \in ToSet(h)}

\* The energies of a longer log.
LEMMA EnergiesOfAppend ==
    ASSUME NEW h \in Seq(State), NEW s \in State
    PROVE  /\ Energies(h) \subseteq Int /\ Energy[s.sample] \in Int
           /\ Energies(Append(h, s)) = Energies(h) \cup {Energy[s.sample]}
<1>1. \A x \in State : x.sample \in Samples /\ Energy[x.sample] \in Int
  BY StatisticsAssumption DEF State
<1>2. \A x \in ToSet(h) : x \in State
  BY DEF ToSet
<1>3. ToSet(Append(h, s)) = ToSet(h) \cup {s}
  <2> DEFINE r == Append(h, s)
             n == Len(h)
  <2>1. n \in Nat /\ DOMAIN h = 1..n /\ DOMAIN r = 1..(n + 1) /\ r[n + 1] = s
        /\ \A i \in 1..n : r[i] = h[i]
    OBVIOUS
  <2> HIDE DEF r, n
  <2>2. ToSet(r) \subseteq ToSet(h) \cup {s}
    BY <2>1 DEF ToSet
  <2>3. ToSet(h) \subseteq ToSet(r)
    BY <2>1 DEF ToSet
  <2>4. s \in ToSet(r)
    BY <2>1 DEF ToSet
  <2> QED
    BY <2>2, <2>3, <2>4 DEF r
<1>4. Energies(h) \subseteq Int
  BY <1>1, <1>2, StatisticsAssumption DEF Energies
<1> QED
  BY <1>1, <1>3, <1>4 DEF Energies

\* What TableMatches says, in a form that an update keeps.
TableInv(c) ==
    /\ lengths[c] = 1 + Len(history[c])
    /\ IsLeast(minEnergies[c], Energies(history[c]))
    /\ nAccepts[c] = 1 + CountIn(history[c], Accepted)
    /\ nSwaps[c] = CountIn(history[c], SwapAccepted)
    /\ nSwapAttempts[c] = 1 + CountIn(history[c], Attempted)

TableDomains ==
    /\ DOMAIN lengths = Chain /\ DOMAIN minEnergies = Chain /\ DOMAIN nAccepts = Chain
    /\ DOMAIN nSwaps = Chain /\ DOMAIN nSwapAttempts = Chain

HistoryType == DOMAIN history = Chain /\ \A c \in Chain : history[c] \in Seq(State)

\* Log appends the state to the log of its chain and leaves the others alone.
LEMMA HistoryGrows ==
    ASSUME HistoryType, NEW id \in Chain, NEW s \in State, Log(id, s)
    PROVE  /\ HistoryType'
           /\ (history')[id] = Append(history[id], s)
           /\ \A c \in Chain \ {id} : (history')[c] = history[c]
<1>1. history' = [history EXCEPT ![id] = Append(history[id], s)]
  BY DEF Log
<1>2. Append(history[id], s) \in Seq(State)
  BY DEF HistoryType
<1> DEFINE more == Append(history[id], s)
<1> HIDE DEF more
<1>3. history' = [history EXCEPT ![id] = more] /\ more \in Seq(State)
  BY <1>1, <1>2 DEF more
<1>4. (history')[id] = more /\ \A c \in Chain \ {id} : (history')[c] = history[c]
  BY <1>3 DEF HistoryType
<1>5. HistoryType'
  BY <1>3, <1>4 DEF HistoryType
<1> QED
  BY <1>4, <1>5 DEF more

\* TableLoggerUpdate keeps every counter that of the log.
LEMMA TableUpdated ==
    ASSUME HistoryType, TableDomains, \A c \in Chain : TableInv(c),
           NEW id \in Chain, NEW s \in State, Log(id, s)
    PROVE  TableDomains' /\ \A c \in Chain : TableInv(c)'
<1> DEFINE e == Energy[s.sample]
           h == history[id]
<1>0. h \in Seq(State) /\ Len(Append(h, s)) = Len(h) + 1 /\ Len(h) \in Nat
  BY DEF HistoryType
<1>1. /\ lengths' = [lengths EXCEPT ![id] = lengths[id] + 1]
      /\ minEnergies' = [minEnergies EXCEPT ![id] = Min({minEnergies[id], e})]
      /\ nAccepts' = [nAccepts EXCEPT ![id] = nAccepts[id] + One(s.accepted)]
      /\ nSwaps' = [nSwaps EXCEPT ![id] = nSwaps[id] + One(s.swapType = "Accept")]
      /\ nSwapAttempts' = [nSwapAttempts EXCEPT
                              ![id] = nSwapAttempts[id] + One(s.swapType # "NoAttempt")]
  BY DEF Log, TableLoggerUpdate
<1>2. TableDomains'
  BY <1>1 DEF TableDomains
<1>3. ASSUME NEW c \in Chain, c # id
      PROVE  TableInv(c)'
  <2>1. /\ (lengths')[c] = lengths[c] /\ (minEnergies')[c] = minEnergies[c]
        /\ (nAccepts')[c] = nAccepts[c] /\ (nSwaps')[c] = nSwaps[c]
        /\ (nSwapAttempts')[c] = nSwapAttempts[c] /\ (history')[c] = history[c]
    BY <1>1, <1>3, HistoryGrows DEF TableDomains
  <2> QED
    BY <2>1 DEF TableInv
<1>4. TableInv(id)'
  <2>0. (history')[id] = Append(h, s) /\ TableInv(id)
    BY HistoryGrows
  <2>1. (lengths')[id] = 1 + Len((history')[id])
    BY <1>0, <1>1, <2>0 DEF TableDomains, TableInv
  <2>2. IsLeast((minEnergies')[id], Energies((history')[id]))
    <3> DEFINE m == minEnergies[id]
    <3>1. Energies(h) \subseteq Int /\ e \in Int
          /\ Energies(Append(h, s)) = Energies(h) \cup {e}
      BY <1>0, EnergiesOfAppend
    <3>2. IsLeast(m, Energies(h)) /\ m \in Int
      BY <2>0, <3>1 DEF TableInv, IsLeast
    <3>3. (minEnergies')[id] = Min({m, e})
      BY <1>1 DEF TableDomains
    <3> HIDE DEF m, e, h
    <3>4. Min({m, e}) = IF m <= e THEN m ELSE e
      BY <3>1, <3>2, SmallerOfTwo
    <3>5. IsLeast(Min({m, e}), Energies(h) \cup {e})
      BY <3>1, <3>2, <3>4 DEF IsLeast
    <3> QED
      BY <2>0, <3>1, <3>3, <3>5
  <2>3. s \in Accepted <=> s.accepted
    BY DEF Accepted
  <2>4. s \in SwapAccepted <=> s.swapType = "Accept"
    BY DEF SwapAccepted
  <2>5. s \in Attempted <=> s.swapType # "NoAttempt"
    BY DEF Attempted
  <2> HIDE DEF h
  <2>6. (nAccepts')[id] = 1 + CountIn(Append(h, s), Accepted)
    <3>1. (nAccepts')[id] = nAccepts[id] + One(s \in Accepted)
      BY <1>1, <2>3 DEF TableDomains, One
    <3>2. nAccepts[id] = 1 + CountIn(h, Accepted) /\ One(s \in Accepted) \in Int
      BY <2>0 DEF TableInv, h, One
    <3> QED
      BY <1>0, <3>1, <3>2, CountOfAppend
  <2>7. (nSwaps')[id] = CountIn(Append(h, s), SwapAccepted)
    <3>1. (nSwaps')[id] = nSwaps[id] + One(s \in SwapAccepted)
      BY <1>1, <2>4 DEF TableDomains, One
    <3>2. nSwaps[id] = CountIn(h, SwapAccepted)
      BY <2>0 DEF TableInv, h
    <3> QED
      BY <1>0, <3>1, <3>2, CountOfAppend
  <2>8. (nSwapAttempts')[id] = 1 + CountIn(Append(h, s), Attempted)
    <3>1. (nSwapAttempts')[id] = nSwapAttempts[id] + One(s \in Attempted)
      BY <1>1, <2>5 DEF TableDomains, One
    <3>2. nSwapAttempts[id] = 1 + CountIn(h, Attempted) /\ One(s \in Attempted) \in Int
      BY <2>0 DEF TableInv, h, One
    <3> QED
      BY <1>0, <3>1, <3>2, CountOfAppend
  <2> QED
    BY <2>0, <2>1, <2>2, <2>6, <2>7, <2>8 DEF TableInv
<1> QED
  BY <1>2, <1>3, <1>4

\* The counters that the invariant speaks of are those of the property.
LEMMA TableInvImpliesMatch ==
    ASSUME HistoryType, NEW c \in Chain, TableInv(c)
    PROVE  TableMatches(c)
<1> DEFINE h == history[c]
<1>0. h \in Seq(State) /\ \A i \in DOMAIN h : h[i] \in State
  BY DEF HistoryType
<1>1. minEnergies[c] = Min(Energies(h))
  <2>1. Energies(h) \subseteq Int
    <3>1. \A x \in ToSet(h) : x.sample \in Samples /\ Energy[x.sample] \in Int
      BY <1>0, StatisticsAssumption DEF ToSet, State
    <3> QED
      BY <3>1, StatisticsAssumption DEF Energies
  <2> QED
    BY <2>1, LeastIsMin DEF TableInv
<1>2. {i \in DOMAIN h : h[i].accepted} = {i \in DOMAIN h : h[i] \in Accepted}
  BY <1>0 DEF Accepted
<1>3. {i \in DOMAIN h : h[i].swapType = "Accept"} = {i \in DOMAIN h : h[i] \in SwapAccepted}
  BY <1>0 DEF SwapAccepted
<1>4. {i \in DOMAIN h : h[i].swapType \in {"Accept", "Reject"}}
        = {i \in DOMAIN h : h[i] \in Attempted}
  BY <1>0 DEF Attempted, State
<1> QED
  BY <1>1, <1>2, <1>3, <1>4 DEF TableMatches, TableInv, Count, CountIn, Energies

-----------------------------------------------------------------------------
(* Statistics: the window *)

\* What WindowMatches says, in a form that an update keeps.
WindowInv(c) ==
    LET h == history[c]
        w == window[c]
        n == Len(h)
    IN  /\ w \in Seq(Int)
        /\ Len(w) = IF n < Window THEN n ELSE Window - 1
        /\ \A i \in 1..Len(w) : w[i] = One(h[n - Len(w) + i].accepted)
        /\ windowSum[c] = Total(w)
        /\ h # <<>> => rates[c] = <<Total(w), IF n < Window THEN n ELSE Window>>

WindowDomains ==
    DOMAIN window = Chain /\ DOMAIN windowSum = Chain /\ DOMAIN rates = Chain

\* The window of a log that is one state longer.
LEMMA WindowSlides ==
    ASSUME NEW h \in Seq(State), NEW s \in State, NEW w \in Seq(Int),
           Len(w) = IF Len(h) < Window THEN Len(h) ELSE Window - 1,
           \A i \in 1..Len(w) : w[i] = One(h[Len(h) - Len(w) + i].accepted)
    PROVE  LET longer == Append(w, One(s.accepted))
               more   == Append(h, s)
               new    == IF Len(longer) >= Window THEN Tail(longer) ELSE longer
           IN  /\ new \in Seq(Int)
               /\ Len(new) = IF Len(more) < Window THEN Len(more) ELSE Window - 1
               /\ \A i \in 1..Len(new) : new[i] = One(more[Len(more) - Len(new) + i].accepted)
               /\ Total(new) = Total(w) + One(s.accepted)
                                   - (IF Len(longer) >= Window THEN Head(longer) ELSE 0)
               /\ Len(longer) = IF Len(more) < Window THEN Len(more) ELSE Window
<1> DEFINE x      == One(s.accepted)
           longer == Append(w, x)
           more   == Append(h, s)
           new    == IF Len(longer) >= Window THEN Tail(longer) ELSE longer
           n      == Len(h)
           m      == Len(w)
<1>0. n \in Nat /\ m \in Nat /\ Window \in Nat \ {0} /\ x \in Int
      /\ m = (IF n < Window THEN n ELSE Window - 1)
  BY StatisticsAssumption DEF One
<1>1. /\ Len(more) = n + 1 /\ more[n + 1] = s
      /\ \A i \in 1..n : more[i] = h[i]
  OBVIOUS
<1>2. /\ longer \in Seq(Int) /\ longer # <<>> /\ Len(longer) = m + 1 /\ longer[m + 1] = x
      /\ \A i \in 1..m : longer[i] = w[i]
  <2>1. w \in Seq(Int) /\ x \in Int /\ m = Len(w)
    BY <1>0
  <2> HIDE DEF x, m
  <2>2. /\ longer \in Seq(Int) /\ longer # <<>> /\ Len(longer) = Len(w) + 1
        /\ longer[Len(w) + 1] = x /\ \A i \in 1..Len(w) : longer[i] = w[i]
    BY <2>1, OneMore, Zenon
  <2> QED
    BY <2>1, <2>2
<1>3. Total(longer) = Total(w) + x
  BY <1>0, TotalOfAppend
<1>4. \A i \in 1..m : w[i] = One(h[n - m + i].accepted)
  OBVIOUS
<1>x. x = One(s.accepted)
  OBVIOUS
<1> DEFINE full   == Len(longer) >= Window
           oldest == IF full THEN Head(longer) ELSE 0
<1>y. new = (IF full THEN Tail(longer) ELSE longer)
  OBVIOUS
<1> HIDE DEF x, longer, more, n, m, new
<1>5. ASSUME NEW i \in 1..(m + 1)
      PROVE  longer[i] = One(more[n - m + i].accepted)
  <2>1. CASE i = m + 1
    <3>1. n - m + i = n + 1
      BY <1>0, <2>1
    <3> QED
      BY <1>1, <1>2, <1>x, <2>1, <3>1
  <2>2. CASE i # m + 1
    <3>1. i \in 1..m /\ n - m + i \in 1..n
      BY <1>0, <2>2
    <3> QED
      BY <1>1, <1>2, <1>4, <3>1
  <2> QED
    BY <2>1, <2>2
<1>6. Len(longer) = IF Len(more) < Window THEN Len(more) ELSE Window
  BY <1>0, <1>1, <1>2
<1> DEFINE Slid == /\ new \in Seq(Int)
                   /\ Len(new) = IF Len(more) < Window THEN Len(more) ELSE Window - 1
                   /\ \A i \in 1..Len(new) :
                         new[i] = One(more[Len(more) - Len(new) + i].accepted)
                   /\ Total(new) = Total(w) + x - oldest
<1>7. ASSUME full PROVE Slid
  <2>1. /\ Tail(longer) \in Seq(Int) /\ Len(Tail(longer)) = m
        /\ \A i \in 1..m : Tail(longer)[i] = longer[i + 1]
    BY <1>0, <1>2
  <2>2. Total(Tail(longer)) = Total(longer) - Head(longer)
    BY <1>2, TotalOfTail
  <2>3. new = Tail(longer) /\ oldest = Head(longer)
    BY <1>y, <1>7
  <2>4. ASSUME NEW i \in 1..m
        PROVE  Tail(longer)[i] = One(more[Len(more) - m + i].accepted)
    <3>1. i + 1 \in 1..(m + 1) /\ n - m + (i + 1) = Len(more) - m + i
      BY <1>0, <1>1
    <3> QED
      BY <1>5, <2>1, <3>1
  <2>5. m = IF Len(more) < Window THEN Len(more) ELSE Window - 1
    BY <1>0, <1>1, <1>2, <1>7
  <2>6. Total(new) = Total(w) + x - oldest
    <3>1. Total(new) = Total(longer) - oldest
      BY <2>2, <2>3
    <3>2. Total(longer) = Total(w) + x
      BY <1>3
    <3>3. Total(w) \in Int /\ x \in Int /\ oldest \in Int
      BY <1>0, <1>2, <2>3, TotalIsInt
    <3> DEFINE old == Total(w)
               all == Total(longer)
    <3> HIDE DEF oldest, full, old, all
    <3>4. Total(new) = all - oldest /\ all = old + x /\ old \in Int
      BY <3>1, <3>2, <3>3 DEF old, all
    <3>5. Total(new) = old + x - oldest
      BY <3>3, <3>4
    <3> QED
      BY <3>5 DEF old
  <2> QED
    BY <2>1, <2>3, <2>4, <2>5, <2>6
<1>8. ASSUME ~full PROVE Slid
  <2>1. new = longer /\ oldest = 0
    BY <1>y, <1>8
  <2>2. ASSUME NEW i \in 1..(m + 1)
        PROVE  longer[i] = One(more[Len(more) - (m + 1) + i].accepted)
    <3>1. n - m + i = Len(more) - (m + 1) + i
      BY <1>0, <1>1
    <3> QED
      BY <1>5, <3>1
  <2>3. m + 1 = IF Len(more) < Window THEN Len(more) ELSE Window - 1
    BY <1>0, <1>1, <1>2, <1>8
  <2>4. Total(w) \in Int
    BY TotalIsInt
  <2>5. Total(new) = Total(w) + x - oldest
    <3> HIDE DEF oldest
    <3> QED
      BY <1>0, <1>3, <2>1, <2>4
  <2> QED
    BY <1>2, <2>1, <2>2, <2>3, <2>5
<1>9. Slid
  BY <1>7, <1>8
<1> QED
  BY <1>6, <1>9 DEF x, longer, more, new

\* WindowUpdate keeps every window that of the log, and its sum and rate with it.
LEMMA WindowUpdated ==
    ASSUME HistoryType, WindowDomains, \A c \in Chain : WindowInv(c),
           NEW id \in Chain, NEW s \in State, Log(id, s)
    PROVE  WindowDomains' /\ \A c \in Chain : WindowInv(c)'
<1> DEFINE x      == One(s.accepted)
           h      == history[id]
           w      == window[id]
           longer == Append(w, x)
           more   == Append(h, s)
           new    == IF Len(longer) >= Window THEN Tail(longer) ELSE longer
           sum    == windowSum[id] + x - (IF Len(longer) >= Window THEN Head(longer) ELSE 0)
           rate   == <<sum, Len(longer)>>
<1>1. /\ window' = [window EXCEPT ![id] = new]
      /\ windowSum' = [windowSum EXCEPT ![id] = sum]
      /\ rates' = [rates EXCEPT ![id] = rate]
  BY DEF Log, WindowUpdate
<1>2. /\ h \in Seq(State) /\ w \in Seq(Int) /\ windowSum[id] = Total(w)
      /\ Len(w) = IF Len(h) < Window THEN Len(h) ELSE Window - 1
      /\ \A i \in 1..Len(w) : w[i] = One(h[Len(h) - Len(w) + i].accepted)
  BY DEF HistoryType, WindowInv
<1>3. /\ new \in Seq(Int)
      /\ Len(new) = IF Len(more) < Window THEN Len(more) ELSE Window - 1
      /\ \A i \in 1..Len(new) : new[i] = One(more[Len(more) - Len(new) + i].accepted)
      /\ Total(new) = Total(w) + x - (IF Len(longer) >= Window THEN Head(longer) ELSE 0)
      /\ Len(longer) = IF Len(more) < Window THEN Len(more) ELSE Window
  <2> HIDE DEF h, w
  <2> QED
    BY <1>2, WindowSlides
<1>4. sum = Total(new)
  BY <1>2, <1>3
<1>5. rate = <<Total(new), IF Len(more) < Window THEN Len(more) ELSE Window>>
  BY <1>3, <1>4
<1>6. (history')[id] = more /\ \A c \in Chain \ {id} : (history')[c] = history[c]
  BY HistoryGrows
<1> HIDE DEF new, more, sum, rate
<1>7. WindowDomains'
  BY <1>1 DEF WindowDomains
<1>8. /\ (window')[id] = new /\ (windowSum')[id] = sum /\ (rates')[id] = rate
      /\ \A c \in Chain \ {id} : /\ (window')[c] = window[c] /\ (windowSum')[c] = windowSum[c]
                                 /\ (rates')[c] = rates[c]
  BY <1>1 DEF WindowDomains
<1>9. WindowInv(id)'
  <2>1. (history')[id] = more /\ (window')[id] = new /\ (windowSum')[id] = Total(new)
        /\ (rates')[id] = <<Total(new), IF Len(more) < Window THEN Len(more) ELSE Window>>
    BY <1>4, <1>5, <1>6, <1>8
  <2>2. /\ (window')[id] \in Seq(Int) /\ (windowSum')[id] = Total((window')[id])
        /\ Len((window')[id]) = IF Len((history')[id]) < Window THEN Len((history')[id])
                                                            ELSE Window - 1
        /\ (rates')[id] = <<Total((window')[id]), IF Len((history')[id]) < Window
                                                    THEN Len((history')[id]) ELSE Window>>
    BY <1>3, <2>1
  <2>3. \A i \in 1..Len((window')[id]) :
           (window')[id][i] = One((history')[id][Len((history')[id]) - Len((window')[id]) + i].accepted)
    BY <1>3, <2>1
  <2> QED
    BY <2>2, <2>3 DEF WindowInv
<1>10. ASSUME NEW c \in Chain, c # id
       PROVE  WindowInv(c)'
  <2>1. /\ (history')[c] = history[c] /\ (window')[c] = window[c]
        /\ (windowSum')[c] = windowSum[c] /\ (rates')[c] = rates[c]
    BY <1>6, <1>8, <1>10
  <2>2. WindowInv(c)
    OBVIOUS
  <2> QED
    BY <2>1, <2>2 DEF WindowInv
<1> QED
  BY <1>7, <1>9, <1>10

\* A window that ends where the log does holds its last outcomes.
LEMMA WindowInvImpliesMatch ==
    ASSUME HistoryType, NEW c \in Chain, WindowInv(c)
    PROVE  WindowMatches(c)
<1> DEFINE h == history[c]
           w == window[c]
           n == Len(h)
           m == Len(w)
           last == LastOf(h, Window - 1)
<1>0. /\ h \in Seq(State) /\ w \in Seq(Int) /\ n \in Nat /\ m \in Nat /\ Window \in Nat \ {0}
      /\ m = IF n < Window THEN n ELSE Window - 1
      /\ \A i \in 1..m : w[i] = One(h[n - m + i].accepted)
      /\ h # <<>> => rates[c] = <<Total(w), IF n < Window THEN n ELSE Window>>
  <2>1. h \in Seq(State) /\ w \in Seq(Int) /\ Window \in Nat \ {0}
    BY StatisticsAssumption DEF HistoryType, WindowInv
  <2>2. n \in Nat /\ m \in Nat
    BY <2>1
  <2>3. m = IF n < Window THEN n ELSE Window - 1
    BY DEF WindowInv
  <2>4. \A i \in 1..m : w[i] = One(h[n - m + i].accepted)
    BY DEF WindowInv
  <2>5. h # <<>> => rates[c] = <<Total(w), IF n < Window THEN n ELSE Window>>
    BY DEF WindowInv
  <2> QED
    BY <2>1, <2>2, <2>3, <2>4, <2>5
<1>1. Min({Window - 1, n}) = m /\ Min({Window, n}) = IF n < Window THEN n ELSE Window
  <2> HIDE DEF n, m
  <2>1. Min({Window - 1, n}) = IF Window - 1 <= n THEN Window - 1 ELSE n
    BY <1>0, SmallerOfTwo, SMTT(30)
  <2>2. Min({Window, n}) = IF Window <= n THEN Window ELSE n
    BY <1>0, SmallerOfTwo
  <2> QED
    BY <1>0, <2>1, <2>2
<1>2. last = SubSeq(h, n - m + 1, n)
  BY <1>1 DEF LastOf
<1>x. n = Len(h)
  OBVIOUS
<1>y. m = Len(w) /\ w = [i \in 1..m |-> w[i]]
  <2> HIDE DEF w
  <2> QED
    BY <1>0
<1> HIDE DEF h, w, n, m, last
<1>3. n - m + 1 \in 1..(n + 1) /\ n - m \in Nat /\ m \in 0..n
  BY <1>0
<1>4. DOMAIN last = 1..m /\ \A i \in 1..m : last[i] = h[n - m + i]
  <2> DEFINE first == n - m + 1
  <2>0. first \in Int /\ n \in Int /\ \A i \in first..n : h[i] \in State
    BY <1>0, <1>3, <1>x
  <2>1. DOMAIN last = 1..(n - (n - m + 1) + 1)
        /\ \A i \in 1..(n - (n - m + 1) + 1) : last[i] = h[n - m + 1 + i - 1]
    <3> HIDE DEF first
    <3>1. /\ SubSeq(h, first, n) \in Seq(State)
          /\ Len(SubSeq(h, first, n)) = IF first <= n THEN n - first + 1 ELSE 0
          /\ \A i \in 1..(n - first + 1) : SubSeq(h, first, n)[i] = h[first + i - 1]
      BY <2>0, SubSeqProperties
    <3>2. DOMAIN last = 1..Len(last) /\ last = SubSeq(h, first, n)
      BY <1>2, <3>1 DEF first
    <3>3. n - first + 1 >= 0 /\ first <= n + 1 
      BY <1>0, <1>3 DEF first
    <3>4. Len(last) = n - first + 1
      BY <2>0, <3>1, <3>2, <3>3
    <3> QED
      BY <3>1, <3>2, <3>4 DEF first
  <2>2. n - (n - m + 1) + 1 = m /\ \A i \in 1..m : n - m + 1 + i - 1 = n - m + i
    BY <1>0
  <2> QED
    BY <2>1, <2>2
<1>5. w = [i \in DOMAIN last |-> One(last[i].accepted)]
  BY <1>0, <1>4, <1>y
<1>6. SumOver(last, LAMBDA s : One(s.accepted)) = Total(w)
  BY <1>5 DEF SumOver
<1> QED
  BY <1>0, <1>1, <1>5, <1>6 DEF WindowMatches, h, w, n, m, last

-----------------------------------------------------------------------------
(* Statistics: the convergence test *)

SamplesOf(q) == [i \in DOMAIN q |-> q[i].sample]
SquaresOf(q) == [i \in DOMAIN q |-> q[i].sample * q[i].sample]

\* The samples of a log and their squares are integers.
LEMMA LogsAreNumbers ==
    ASSUME NEW q \in Seq(State)
    PROVE  /\ SamplesOf(q) \in Seq(Int) /\ Len(SamplesOf(q)) = Len(q)
           /\ SquaresOf(q) \in Seq(Int) /\ Len(SquaresOf(q)) = Len(q)
<1> DEFINE n == Len(q)
<1>1. n \in Nat /\ DOMAIN q = 1..n /\ \A i \in 1..n : q[i] \in State
  OBVIOUS
<1>2. \A x \in State : x.sample \in Int /\ x.sample * x.sample \in Int
  <2>1. \A x \in State : x.sample \in Int
    BY StatisticsAssumption DEF State
  <2>2. \A y \in Int : y * y \in Int
    OBVIOUS
  <2> QED
    BY <2>1, <2>2
<1> DEFINE a == SamplesOf(q)
           b == SquaresOf(q)
<1> HIDE DEF n
<1>3. a \in [1..n -> Int] /\ b \in [1..n -> Int]
  BY <1>1, <1>2 DEF SamplesOf, SquaresOf
<1> HIDE DEF a, b
<1>4. a \in Seq(Int) /\ b \in Seq(Int) /\ Len(a) = n /\ Len(b) = n
  BY <1>1, <1>3
<1> QED
  BY <1>4 DEF a, b, n

\* The samples of a longer log, and their squares.
LEMMA SamplesOfAppend ==
    ASSUME NEW q \in Seq(State), NEW s \in State
    PROVE  /\ s.sample \in Int /\ s.sample * s.sample \in Int
           /\ SamplesOf(Append(q, s)) = Append(SamplesOf(q), s.sample)
           /\ SquaresOf(Append(q, s)) = Append(SquaresOf(q), s.sample * s.sample)
<1> DEFINE n  == Len(q)
           r  == Append(q, s)
           a  == SamplesOf(q)
           b  == SquaresOf(q)
           x  == s.sample
           xx == s.sample * s.sample
<1>1. /\ n \in Nat /\ DOMAIN q = 1..n /\ DOMAIN r = 1..(n + 1) /\ r[n + 1] = s
      /\ \A i \in 1..n : r[i] = q[i] /\ q[i] \in State
  OBVIOUS
<1>2. x \in Int
  BY StatisticsAssumption DEF State
<1>3. x \in Int /\ xx \in Int
  BY <1>2
<1>4. a \in Seq(Int) /\ b \in Seq(Int) /\ Len(a) = n /\ Len(b) = n
  BY LogsAreNumbers
<1> HIDE DEF n, r
<1>5. /\ SamplesOf(r) = [i \in 1..(n + 1) |-> IF i <= n THEN a[i] ELSE x]
      /\ SquaresOf(r) = [i \in 1..(n + 1) |-> IF i <= n THEN b[i] ELSE xx]
  <2>1. \A i \in 1..(n + 1) : i <= n \/ i = n + 1
    BY <1>1
  <2>2. \A i \in 1..(n + 1) : /\ r[i].sample = IF i <= n THEN a[i] ELSE x
                              /\ r[i].sample * r[i].sample = IF i <= n THEN b[i] ELSE xx
    BY <1>1, <2>1 DEF SamplesOf, SquaresOf
  <2> QED
    BY <1>1, <2>2 DEF SamplesOf, SquaresOf
<1> HIDE DEF a, b, x, xx
<1>6. ASSUME NEW f \in Seq(Int), Len(f) = n, NEW y \in Int
      PROVE  Append(f, y) = [i \in 1..(n + 1) |-> IF i <= n THEN f[i] ELSE y]
  <2> DEFINE g == [i \in 1..(n + 1) |-> IF i <= n THEN f[i] ELSE y]
             h == Append(f, y)
  <2>0. n \in Nat /\ \A i \in 1..n : f[i] \in Int
    BY <1>1, <1>6
  <2>1. h \in Seq(Int) /\ Len(h) = n + 1
        /\ \A i \in 1..(n + 1) : h[i] = IF i <= n THEN f[i] ELSE y
    BY <1>1, <1>6
  <2>2. g \in [1..(n + 1) -> Int]
    BY <2>0
  <2> HIDE DEF g, h
  <2>3. g \in Seq(Int) /\ Len(g) = n + 1
    BY <2>0, <2>2
  <2>4. \A i \in 1..(n + 1) : g[i] = IF i <= n THEN f[i] ELSE y
    BY DEF g
  <2>5. h = g
    BY <2>1, <2>3, <2>4, SeqEqual
  <2> QED
    BY <2>5 DEF g, h
<1> QED
  BY <1>3, <1>4, <1>5, <1>6 DEF a, b, x, xx, r

\* The chain of stack k that is diagnosed,
LEMMA ColdestChains ==
    ASSUME NEW k \in Stack
    PROVE  /\ k * NChains \in Chain /\ k \in Nat
           /\ (k * NChains) % NChains = 0 /\ (k * NChains) \div NChains = k
<1>1. k \in Nat /\ k <= NStacks - 1 /\ NStacks \in Nat \ {0} /\ NChains \in Nat \ {0}
  BY StatisticsAssumption DEF Stack
<1>2. k * NChains \in Nat /\ NStacks * NChains \in Nat
  BY <1>1
<1>3. k * NChains <= NStacks * NChains - NChains
  BY <1>1
<1>4. k * NChains \in 0..(NStacks * NChains - 1)
  BY <1>1, <1>2, <1>3
<1>5. (k * NChains) % NChains = 0 /\ (k * NChains) \div NChains = k
  BY <1>1
<1> QED
  BY <1>1, <1>4, <1>5 DEF Chain

\* and the stack of a chain that is.
LEMMA StackOfChain ==
    ASSUME NEW id \in Chain, id % NChains = 0
    PROVE  id \div NChains \in Stack /\ id = (id \div NChains) * NChains
<1>1. NStacks \in Nat \ {0} /\ NChains \in Nat \ {0} /\ id \in Nat /\ id < NStacks * NChains
  BY StatisticsAssumption DEF Chain
<1> DEFINE k == id \div NChains
<1>2. k \in Nat /\ id = k * NChains + (id % NChains)
  BY <1>1
<1>3. id = k * NChains
  BY <1>1, <1>2
<1> HIDE DEF k
<1>4. k < NStacks
  <2>1. SUFFICES ASSUME k >= NStacks PROVE FALSE
    BY <1>1, <1>2
  <2>2. k * NChains >= NStacks * NChains
    BY <1>1, <1>2, <2>1
  <2> QED
    BY <1>1, <1>3, <2>2
<1> QED
  BY <1>1, <1>2, <1>3, <1>4 DEF Stack, k

\* What the mean and the squares of n samples are, if T is the total of the samples and
\* Q that of their squares.
Moments(n, M, S, T, Q) == T = n * M /\ S = Q - n * M * M /\ S >= 0

\* A step of DiagnosticUpdate, the new mean a whole number.
Welford(n, M, S, T, Q, x, more, newM, newS, newT, newQ) ==
    /\ more = n + 1 /\ newT = T + x /\ newQ = Q + x * x
    /\ (x - M) % (n + 1) = 0
    /\ newM = M + (x - M) \div (n + 1)
    /\ newS = S + (x - M) * (x - newM)

\* Such a step gives the moments of one more sample; if no sample differs from the new
\* mean, none did from the old one, which it is unless there was no sample before.
LEMMA WelfordStep ==
    ASSUME NEW n \in Nat, NEW M \in Int, NEW S \in Int, NEW T \in Int, NEW Q \in Int,
           Moments(n, M, S, T, Q), NEW x \in Int,
           NEW more, NEW newM \in Int, NEW newS \in Int, NEW newT, NEW newQ,
           Welford(n, M, S, T, Q, x, more, newM, newS, newT, newQ)
    PROVE  /\ Moments(more, newM, newS, newT, newQ)
           /\ newS = 0 => S = 0 /\ (n = 0 => newM = x) /\ (n > 0 => newM = M)
<1>w. more = n + 1 /\ newT = T + x /\ newQ = Q + x * x
  BY DEF Welford
<1>0. T = n * M /\ S = Q - n * M * M /\ S >= 0
  BY DEF Moments
<1> DEFINE d == (x - M) \div (n + 1)
<1>1. d \in Int /\ x - M = (n + 1) * d
  <2>1. (x - M) % (n + 1) = 0
    BY DEF Welford
  <2> QED
    BY <2>1
<1>d. newM = M + d /\ newS = S + (x - M) * (x - (M + d))
  BY DEF Welford
<1> HIDE DEF d
<1> DEFINE p == n * d
           M2 == n * M
<1>2. p \in Int /\ M2 \in Int /\ x = M + p + d
  BY <1>1
<1>3. T + x = (n + 1) * (M + d)
  <2>1. (n + 1) * (M + d) = M2 + p + (M + d)
    BY <1>1, Z3
  <2> HIDE DEF p, M2
  <2> QED
    BY <1>0, <1>1, <1>2, <2>1 DEF M2
<1>4. x - (M + d) = n * d
  <2> HIDE DEF p
  <2>1. x - (M + d) = p
    BY <1>1, <1>2
  <2> QED
    BY <2>1 DEF p
<1>5. (x - M) * (x - (M + d)) = (n * d + d) * (n * d)
  <2>1. x - M = n * d + d
    BY <1>1
  <2> QED
    BY <1>4, <2>1
<1>6. newS = Q + x * x - (n + 1) * (M + d) * (M + d)
  <2>1. \A y \in Int : y = M + n * d + d =>
           (Q - n * M * M) + (n * d + d) * (n * d) = Q + y * y - (n + 1) * (M + d) * (M + d)
    BY <1>1, Z3
  <2>2. x = M + n * d + d
    BY <1>2
  <2> QED
    BY <1>0, <1>5, <1>d, <2>1, <2>2
<1>7. d * d >= 0 /\ d * d \in Int /\ (d * d = 0 => d = 0)
  BY <1>1
<1>8. (n * d + d) * (n * d) = n * ((n + 1) * (d * d))
  BY <1>1
<1>9. n * ((n + 1) * (d * d)) \in Int /\ n * ((n + 1) * (d * d)) >= 0
  BY <1>7
<1>10. n * ((n + 1) * (d * d)) = 0 => n = 0 \/ d = 0
  BY <1>7
<1>11. newS \in Int /\ newS >= 0 /\ (newS = 0 => S = 0 /\ (n = 0 \/ d = 0))
  BY <1>0, <1>5, <1>8, <1>9, <1>10, <1>d
<1>12. newS = 0 => S = 0 /\ (n = 0 => newM = x) /\ (n > 0 => newM = M)
  <2>1. n = 0 => M + d = x
    BY <1>1, <1>2
  <2>2. d = 0 => M + d = M
    BY <1>1
  <2> QED
    BY <1>11, <1>d, <2>1, <2>2
<1>13. newT = more * newM /\ newS = newQ - more * newM * newM
  <2>1. newM = M + d
    BY <1>d
  <2>2. T + x = (n + 1) * newM
    BY <1>3, <2>1, Zenon
  <2>3. newS = (Q + x * x) - (n + 1) * newM * newM
    BY <1>6, <2>1
  <2> QED
    BY <1>w, <2>2, <2>3, Zenon
<1>14. Moments(more, newM, newS, newT, newQ)
  BY <1>11, <1>13 DEF Moments
<1> QED
  BY <1>12, <1>14

\* What DiagnosticMatches says, in a form that an update keeps; and a stack of which no
\* sample differs from the mean has not moved since its first.
DiagnosticInv(k) ==
    LET q == history[k * NChains]
        n == Len(q)
    IN  /\ numSamples[k] = n /\ M_[k] \in Int /\ S_[k] \in Int
        /\ Moments(n, M_[k], S_[k], Total(SamplesOf(q)), Total(SquaresOf(q)))
        /\ n > 0 /\ S_[k] = 0 => q[1].sample = M_[k]

DiagnosticDomains ==
    DOMAIN M_ = Stack /\ DOMAIN S_ = Stack /\ DOMAIN numSamples = Stack

\* DiagnosticUpdate keeps the mean and the squares of every stack those of its log.
LEMMA DiagnosticUpdated ==
    ASSUME HistoryType, DiagnosticDomains, \A k \in Stack : DiagnosticInv(k),
           NEW id \in Chain, NEW s \in State, MeanIsWhole(id, s.sample), Log(id, s)
    PROVE  DiagnosticDomains' /\ \A k \in Stack : DiagnosticInv(k)'
<1>1. (history')[id] = Append(history[id], s)
      /\ \A c \in Chain \ {id} : (history')[c] = history[c]
  BY HistoryGrows
<1>2. CASE id % NChains # 0
  <2>1. M_' = M_ /\ S_' = S_ /\ numSamples' = numSamples
    BY <1>2 DEF Log, DiagnosticUpdate, diagnosticVars
  <2>2. ASSUME NEW k \in Stack
        PROVE  DiagnosticInv(k)'
    <3>1. k * NChains \in Chain /\ k * NChains # id
      BY <1>2, ColdestChains
    <3>2. (history')[k * NChains] = history[k * NChains]
      BY <1>1, <3>1
    <3>3. DiagnosticInv(k)
      OBVIOUS
    <3> QED
      BY <2>1, <3>2, <3>3 DEF DiagnosticInv
  <2> QED
    BY <2>1, <2>2 DEF DiagnosticDomains
<1>3. CASE id % NChains = 0
  <2> DEFINE j == id \div NChains
             n == numSamples[j]
             x == s.sample
             M == M_[j]
             S == S_[j]
             newM == M + (x - M) \div (n + 1)
             newS == S + (x - M) * (x - newM)
             q == history[id]
             more == Append(q, s)
             T == Total(SamplesOf(q))
             Q == Total(SquaresOf(q))
  <2>1. j \in Stack /\ id = j * NChains
    BY <1>3, StackOfChain
  <2>2. /\ M_' = [M_ EXCEPT ![j] = newM] /\ S_' = [S_ EXCEPT ![j] = newS]
        /\ numSamples' = [numSamples EXCEPT ![j] = n + 1]
    BY <1>3 DEF Log, DiagnosticUpdate
  <2>3. q \in Seq(State) /\ n = Len(q) /\ n \in Nat
    <3>1. q \in Seq(State)
      BY DEF HistoryType
    <3>2. n = Len(q)
      BY <2>1 DEF DiagnosticInv
    <3> HIDE DEF q, n
    <3> QED
      BY <3>1, <3>2
  <2>4. /\ M \in Int /\ S \in Int /\ Moments(n, M, S, T, Q)
        /\ n > 0 /\ S = 0 => q[1].sample = M
    <3> HIDE DEF j
    <3> QED
      BY <2>1 DEF DiagnosticInv
  <2>5. /\ SamplesOf(q) \in Seq(Int) /\ SquaresOf(q) \in Seq(Int) /\ x \in Int /\ x * x \in Int
        /\ SamplesOf(more) = Append(SamplesOf(q), x)
        /\ SquaresOf(more) = Append(SquaresOf(q), x * x)
    <3> HIDE DEF q
    <3> QED
      BY <2>3, SamplesOfAppend, LogsAreNumbers
  <2>6. T \in Int /\ Q \in Int
    BY <2>5, TotalIsInt
  <2>7. Total(SamplesOf(more)) = T + x /\ Total(SquaresOf(more)) = Q + x * x
    <3> DEFINE a == SamplesOf(q)
               b == SquaresOf(q)
               y == x * x
    <3>1. a \in Seq(Int) /\ b \in Seq(Int) /\ x \in Int /\ y \in Int
      BY <2>5
    <3>2. SamplesOf(more) = Append(a, x) /\ SquaresOf(more) = Append(b, y)
      BY <2>5
    <3> HIDE DEF a, b, y, x
    <3>3. Total(Append(a, x)) = Total(a) + x /\ Total(Append(b, y)) = Total(b) + y
      BY <3>1, TotalOfAppend
    <3> QED
      BY <3>2, <3>3 DEF a, b, y
  <2>8. Welford(n, M, S, T, Q, x, Len(more), newM, newS,
                Total(SamplesOf(more)), Total(SquaresOf(more)))
    <3>1. (x - M) % (n + 1) = 0 /\ Len(more) = n + 1
      BY <1>3, <2>3 DEF MeanIsWhole
    <3> QED
      BY <2>7, <3>1 DEF Welford
  <2> HIDE DEF j, n, x, M, S, T, Q, newM, newS, more, q
  <2>9. /\ newM \in Int /\ newS \in Int
        /\ Moments(Len(more), newM, newS, Total(SamplesOf(more)), Total(SquaresOf(more)))
        /\ newS = 0 => S = 0 /\ (n = 0 => newM = x) /\ (n > 0 => newM = M)
    <3>1. n \in Nat /\ M \in Int /\ S \in Int /\ T \in Int /\ Q \in Int /\ x \in Int
      BY <2>3, <2>4, <2>5, <2>6
    <3>2. Moments(n, M, S, T, Q)
      BY <2>4
    <3>3. newM \in Int /\ newS \in Int
      <4>1. (x - M) \div (n + 1) \in Int
        BY <3>1
      <4>2. newM \in Int
        BY <3>1, <4>1 DEF newM
      <4>3. newS = S + (x - M) * (x - newM)
        BY DEF newS
      <4> QED
        BY <3>1, <4>2, <4>3
    <3>4. /\ Moments(Len(more), newM, newS, Total(SamplesOf(more)), Total(SquaresOf(more)))
          /\ newS = 0 => S = 0 /\ (n = 0 => newM = x) /\ (n > 0 => newM = M)
      <4> DEFINE len == Len(more)
                 T2 == Total(SamplesOf(more))
                 Q2 == Total(SquaresOf(more))
      <4>1. Welford(n, M, S, T, Q, x, len, newM, newS, T2, Q2)
        BY <2>8
      <4> HIDE DEF len, T2, Q2
      <4>2. /\ Moments(len, newM, newS, T2, Q2)
            /\ newS = 0 => S = 0 /\ (n = 0 => newM = x) /\ (n > 0 => newM = M)
        BY <3>1, <3>2, <3>3, <4>1, WelfordStep, SMTT(30)
      <4> QED
        BY <4>2 DEF len, T2, Q2
    <3> QED
      BY <3>3, <3>4
  <2>10. Len(more) = n + 1 /\ n + 1 > 0
         /\ more[1] = IF n = 0 THEN s ELSE q[1]
    BY <2>3 DEF more
  <2> HIDE DEF more, q
  <2>11. newS = 0 => more[1].sample = newM
    BY <2>3, <2>4, <2>9, <2>10 DEF x
  <2>12. DiagnosticDomains'
    BY <2>2 DEF DiagnosticDomains
  <2>13. /\ (M_')[j] = newM /\ (S_')[j] = newS /\ (numSamples')[j] = n + 1
         /\ \A k \in Stack \ {j} : /\ (M_')[k] = M_[k] /\ (S_')[k] = S_[k]
                                   /\ (numSamples')[k] = numSamples[k]
    BY <2>1, <2>2 DEF DiagnosticDomains
  <2>14. DiagnosticInv(j)'
    <3>1. (history')[j * NChains] = more
      BY <1>1, <2>1 DEF more, q
    <3>2. /\ (numSamples')[j] = Len(more) /\ (M_')[j] \in Int /\ (S_')[j] \in Int
          /\ Moments(Len(more), (M_')[j], (S_')[j], Total(SamplesOf(more)), Total(SquaresOf(more)))
          /\ Len(more) > 0 /\ (S_')[j] = 0 => more[1].sample = (M_')[j]
      <4>1. (M_')[j] = newM /\ (S_')[j] = newS /\ (numSamples')[j] = n + 1
        BY <2>13
      <4>2. Moments(Len(more), newM, newS, Total(SamplesOf(more)), Total(SquaresOf(more)))
        BY <2>9
      <4> QED
        BY <2>9, <2>10, <2>11, <4>1, <4>2
    <3> QED
      BY <3>1, <3>2 DEF DiagnosticInv
  <2>15. ASSUME NEW k \in Stack, k # j
         PROVE  DiagnosticInv(k)'
    <3>1. k * NChains \in Chain /\ k * NChains # id
      BY <2>15, ColdestChains DEF j
    <3>2. (history')[k * NChains] = history[k * NChains]
      BY <1>1, <3>1
    <3>3. DiagnosticInv(k)
      OBVIOUS
    <3> QED
      BY <2>13, <2>15, <3>2, <3>3 DEF DiagnosticInv
  <2> QED
    BY <2>12, <2>14, <2>15
<1> QED
  BY <1>2, <1>3

\* The moments are what two passes over the log compute.
LEMMA DiagnosticInvImpliesMatch ==
    ASSUME HistoryType, NEW k \in Stack, DiagnosticInv(k)
    PROVE  DiagnosticMatches(k)
<1> DEFINE q == history[k * NChains]
           n == Len(q)
           M == M_[k]
           S == S_[k]
           T == Total(SamplesOf(q))
           Q == Total(SquaresOf(q))
<1>1. q \in Seq(State)
  BY ColdestChains DEF HistoryType
<1>2. n \in Nat /\ T \in Int /\ Q \in Int
  <2> HIDE DEF q
  <2>1. SamplesOf(q) \in Seq(Int) /\ SquaresOf(q) \in Seq(Int)
    BY <1>1, LogsAreNumbers
  <2> QED
    BY <1>1, <2>1, TotalIsInt
<1>3. numSamples[k] = n /\ M \in Int /\ S \in Int /\ T = n * M /\ S = Q - n * M * M
  BY DEF DiagnosticInv, Moments
<1>4. SumOver(q, LAMBDA s : s.sample) = T
  BY DEF SumOver, SamplesOf
<1>5. SumOver(q, LAMBDA s : s.sample * s.sample) = Q
  BY DEF SumOver, SquaresOf
<1>6. n * M = T /\ n * S = n * Q - T * T
  <2> HIDE DEF n, M, S, T, Q
  <2>1. n * (Q - n * M * M) = n * Q - (n * M) * (n * M)
    BY <1>2, <1>3, Z3
  <2> QED
    BY <1>3, <2>1
<1> HIDE DEF n, M, S, T, Q
<1> QED
  BY <1>3, <1>4, <1>5, <1>6 DEF DiagnosticMatches, q, n, M, S

\* The least of finitely many counts is one of them, and none is smaller.
LEMMA FewestSamples ==
    ASSUME HistoryType, \A k \in Stack : DiagnosticInv(k)
    PROVE  /\ Min({numSamples[j] : j \in Stack}) \in Nat
           /\ \A k \in Stack : Min({numSamples[j] : j \in Stack}) <= numSamples[k]
<1> DEFINE all == {numSamples[j] : j \in Stack}
<1>1. all \in SUBSET Nat
  <2> SUFFICES ASSUME NEW j \in Stack PROVE numSamples[j] \in Nat
    OBVIOUS
  <2>1. history[j * NChains] \in Seq(State)
    BY ColdestChains DEF HistoryType
  <2>2. Len(history[j * NChains]) \in Nat
    BY <2>1
  <2> QED
    BY <2>2 DEF DiagnosticInv
<1>2. 0 \in Stack
  BY StatisticsAssumption DEF Stack
<1>3. all # {}
  BY <1>2
<1> HIDE DEF all
<1>4. PICK n \in all : \A m \in all : n <= m
  BY <1>1, <1>3, LeastNumber
<1>5. Min(all) = n
  BY <1>1, <1>4, LeastIsMin DEF IsLeast
<1> QED
  BY <1>1, <1>4, <1>5 DEF all

\* Stacks that have not moved converge only to the same sample.
LEMMA EqualMeans ==
    ASSUME \A k \in Stack : M_[k] \in Int /\ S_[k] \in Int,
           \A k \in Stack : S_[k] = 0, hasConverged,
           NEW k \in Stack, NEW l \in Stack
    PROVE  M_[k] = M_[l]
<1> DEFINE m       == NStacks
           sumM    == OfStacks(LAMBDA j : M_[j])
           gap(j)  == m * M_[j] - sumM
           gaps    == [i \in 1..m |-> gap(i - 1) * gap(i - 1)]
           squares == [i \in 1..m |-> S_[i - 1]]
           means   == [i \in 1..m |-> M_[i - 1]]
<1>0. m \in Nat \ {0} /\ \A i \in 1..m : i - 1 \in Stack
  BY StatisticsAssumption DEF Stack
<1>1. Total(squares) = 0
  <2>1. squares \in Seq(Int) /\ Len(squares) = m /\ \A i \in 1..m : squares[i] = 0
    BY <1>0
  <2> HIDE DEF squares
  <2> QED
    BY <2>1, TotalOfZeros
<1>2. Total(gaps) = 0
  BY <1>1 DEF hasConverged, OfStacks
<1>3. sumM \in Int
  <2>1. means \in Seq(Int) /\ sumM = Total(means)
    BY <1>0 DEF OfStacks
  <2> HIDE DEF means
  <2> QED
    BY <2>1, TotalIsInt
<1> HIDE DEF sumM
<1>4. \A j \in Stack : gap(j) \in Int
  BY <1>0, <1>3
<1> HIDE DEF gap
<1>5. \A y \in Int : y * y \in Nat /\ (y * y = 0 => y = 0)
  BY Z3
<1>6. gaps \in Seq(Nat) /\ Len(gaps) = m
  <2>1. \A i \in 1..m : gap(i - 1) * gap(i - 1) \in Nat
    BY <1>0, <1>4, <1>5
  <2> QED
    BY <1>0, <2>1
<1>7. ASSUME NEW j \in Stack PROVE gap(j) = 0
  <2>1. j + 1 \in 1..m /\ (j + 1) - 1 = j
    BY <1>0 DEF Stack
  <2>2. gaps[j + 1] = gap(j) * gap(j) /\ gap(j) * gap(j) \in Nat
    BY <1>4, <1>5, <2>1
  <2> HIDE DEF gaps
  <2>3. gaps[j + 1] <= Total(gaps)
    BY <1>6, <2>1, TotalIsLargest
  <2>4. gap(j) * gap(j) = 0
    BY <1>2, <2>2, <2>3
  <2> QED
    BY <1>4, <1>5, <2>4
<1>8. m * M_[k] = sumM /\ m * M_[l] = sumM
  <2>1. gap(k) = 0 /\ gap(l) = 0
    BY <1>7
  <2> DEFINE a == m * M_[k]
             b == m * M_[l]
  <2>2. a \in Int /\ b \in Int
    BY <1>0
  <2> HIDE DEF a, b
  <2>3. a - sumM = 0 /\ b - sumM = 0
    BY <2>1 DEF gap, a, b
  <2>4. a = sumM /\ b = sumM
    BY <1>3, <2>2, <2>3
  <2> QED
    BY <2>4 DEF a, b
<1>9. \A a, b \in Int : m * a = m * b => a = b
  BY <1>0, Z3
<1> QED
  BY <1>8, <1>9

ConvergedRightly ==
    hasConverged =>
        /\ NStacks > 1
        /\ \A k \in Stack : Len(history[k * NChains]) > 1
        /\ \/ \A k, l \in Stack : history[k * NChains][1].sample = history[l * NChains][1].sample
           \/ \E k \in Stack : S_[k] > 0

\* Convergence is not claimed of too little, nor of stacks that stand still apart.
LEMMA DiagnosticInvImpliesConvergence ==
    ASSUME HistoryType, \A k \in Stack : DiagnosticInv(k)
    PROVE  ConvergedRightly
<1> SUFFICES ASSUME hasConverged
             PROVE  /\ NStacks > 1
                    /\ \A k \in Stack : Len(history[k * NChains]) > 1
                    /\ \/ \A k, l \in Stack : history[k * NChains][1].sample
                                                  = history[l * NChains][1].sample
                       \/ \E k \in Stack : S_[k] > 0
  BY DEF ConvergedRightly
<1> DEFINE n == Min({numSamples[k] : k \in Stack})
<1>1. NStacks > 1 /\ n > 1
  BY DEF hasConverged
<1>2. ASSUME NEW k \in Stack
      PROVE  /\ Len(history[k * NChains]) > 1
             /\ M_[k] \in Int /\ S_[k] \in Int /\ S_[k] >= 0
             /\ S_[k] = 0 => history[k * NChains][1].sample = M_[k]
  <2> DEFINE len == Len(history[k * NChains])
  <2>1. history[k * NChains] \in Seq(State)
    BY ColdestChains DEF HistoryType
  <2>2. len \in Nat /\ numSamples[k] = len
    BY <2>1 DEF DiagnosticInv
  <2>3. n \in Nat /\ n <= numSamples[k]
    BY FewestSamples
  <2>5. len > 1
    <3> HIDE DEF len, n
    <3> QED
      BY <1>1, <2>2, <2>3
  <2>6. /\ M_[k] \in Int /\ S_[k] \in Int /\ S_[k] >= 0
        /\ len > 0 /\ S_[k] = 0 => history[k * NChains][1].sample = M_[k]
    BY DEF DiagnosticInv, Moments
  <2> QED
    BY <2>2, <2>5, <2>6
<1>3. CASE \A k \in Stack : S_[k] = 0
  BY <1>1, <1>2, <1>3, EqualMeans
<1>4. CASE ~ \A k \in Stack : S_[k] = 0
  <2>1. PICK k \in Stack : S_[k] # 0
    BY <1>4
  <2>2. S_[k] > 0
    BY <1>2, <2>1
  <2> QED
    BY <1>1, <1>2, <2>1, <2>2
<1> QED
  BY <1>3, <1>4

-----------------------------------------------------------------------------
(* Statistics: the invariant *)

StatisticsInv ==
    /\ HistoryType /\ TableDomains /\ WindowDomains /\ DiagnosticDomains
    /\ \A c \in Chain : TableInv(c) /\ WindowInv(c)
    /\ \A k \in Stack : DiagnosticInv(k)

\* The invariant holds before anything is logged,
LEMMA StatisticsStart == StatisticsIdle => StatisticsInv
<1> SUFFICES ASSUME StatisticsIdle PROVE StatisticsInv
  OBVIOUS
<1>1. HistoryType /\ TableDomains /\ WindowDomains /\ DiagnosticDomains
  BY DEF StatisticsIdle, Every, HistoryType, TableDomains, WindowDomains, DiagnosticDomains
<1>2. ASSUME NEW some PROVE CountIn(<<>>, some) = 0
  <2>1. {i \in DOMAIN <<>> : <<>>[i] \in some} = {}
    OBVIOUS
  <2> QED
    BY <2>1, FS_EmptySet DEF CountIn
<1>3. Energies(<<>>) = {Infinity}
  BY DEF Energies, ToSet
<1>4. ASSUME NEW c \in Chain PROVE TableInv(c)
  <2>1. /\ lengths[c] = 1 /\ minEnergies[c] = Infinity /\ nAccepts[c] = 1 /\ nSwaps[c] = 0
        /\ nSwapAttempts[c] = 1 /\ history[c] = <<>>
    BY DEF StatisticsIdle, Every
  <2> QED
    BY <1>2, <1>3, <2>1, StatisticsAssumption DEF TableInv, IsLeast
<1>5. ASSUME NEW c \in Chain PROVE WindowInv(c)
  <2>1. window[c] = <<>> /\ windowSum[c] = 0 /\ history[c] = <<>>
    BY DEF StatisticsIdle, Every
  <2> QED
    BY <2>1, TotalOfNone, StatisticsAssumption DEF WindowInv
<1>6. ASSUME NEW k \in Stack PROVE DiagnosticInv(k)
  <2>1. M_[k] = 0 /\ S_[k] = 0 /\ numSamples[k] = 0 /\ history[k * NChains] = <<>>
    BY ColdestChains DEF StatisticsIdle, Every
  <2>2. SamplesOf(<<>>) = <<>> /\ SquaresOf(<<>>) = <<>>
    BY DEF SamplesOf, SquaresOf
  <2> QED
    BY <2>1, <2>2, TotalOfNone DEF DiagnosticInv, Moments
<1> QED
  BY <1>1, <1>4, <1>5, <1>6 DEF StatisticsInv

\* is kept by every state that is logged,
LEMMA StatisticsStep ==
    ASSUME StatisticsInv, StatisticsNext
    PROVE  StatisticsInv'
<1>1. PICK id \in Chain, s \in State : MeanIsWhole(id, s.sample) /\ Log(id, s)
  BY DEF StatisticsNext
<1>2. HistoryType'
  BY <1>1, HistoryGrows DEF StatisticsInv
<1>3. TableDomains' /\ \A c \in Chain : TableInv(c)'
  BY <1>1, TableUpdated DEF StatisticsInv
<1>4. WindowDomains' /\ \A c \in Chain : WindowInv(c)'
  BY <1>1, WindowUpdated DEF StatisticsInv
<1>5. DiagnosticDomains' /\ \A k \in Stack : DiagnosticInv(k)'
  BY <1>1, DiagnosticUpdated DEF StatisticsInv
<1> QED
  BY <1>2, <1>3, <1>4, <1>5 DEF StatisticsInv

\* and by the steps of the other parts.
LEMMA StatisticsRests ==
    ASSUME StatisticsInv, UNCHANGED statisticsVars
    PROVE  StatisticsInv'
<1>1. /\ UNCHANGED <<history, lengths, minEnergies, nAccepts, nSwaps, nSwapAttempts>>
      /\ UNCHANGED <<window, windowSum, rates>> /\ UNCHANGED <<M_, S_, numSamples>>
  BY DEF statisticsVars, tableVars, windowVars, diagnosticVars
<1>2. HistoryType' /\ TableDomains' /\ WindowDomains' /\ DiagnosticDomains'
  BY <1>1 DEF StatisticsInv, HistoryType, TableDomains, WindowDomains, DiagnosticDomains
<1>3. ASSUME NEW c \in Chain PROVE TableInv(c)' /\ WindowInv(c)'
  BY <1>1 DEF StatisticsInv, TableInv, WindowInv
<1>4. ASSUME NEW k \in Stack PROVE DiagnosticInv(k)'
  BY <1>1 DEF StatisticsInv, DiagnosticInv
<1> QED
  BY <1>2, <1>3, <1>4 DEF StatisticsInv

\* Its parts together are the property.
LEMMA StatisticsInvImpliesMatch == StatisticsInv => StatisticsMatchLog
<1> SUFFICES ASSUME StatisticsInv PROVE StatisticsMatchLog
  OBVIOUS
<1>1. \A c \in Chain : TableMatches(c) /\ WindowMatches(c)
  BY TableInvImpliesMatch, WindowInvImpliesMatch DEF StatisticsInv
<1>2. \A k \in Stack : DiagnosticMatches(k)
  BY DiagnosticInvImpliesMatch DEF StatisticsInv
<1>3. ConvergedRightly
  BY DiagnosticInvImpliesConvergence DEF StatisticsInv
<1> QED
  BY <1>1, <1>2, <1>3 DEF StatisticsMatchLog, ConvergedRightly

-----------------------------------------------------------------------------
(* The theorems *)

\* A predicate on the variables of one part is an invariant of all of them.
algorithmsVars ==
    <<running, routingVars, schedulingVars, proposalVars, adaptationVars, statisticsVars,
      storeVars>>

\* Every sample of a chain, the initial one and each that boundedPropose makes of the
\* last one, lies between the bounds, where a walk that bounces off both of them ends
\* (sampler.cpp:30-53), for all bounds with min < max and steps of any length.
THEOREM AlwaysReflected == Spec => []ReflectedIntoBounds
<1>1. Init => ProposalsInv
  BY ProposalsStart DEF Init
<1>2. ProposalsInv /\ [Next]_algorithmsVars => ProposalsInv'
  BY ProposalsStep, ProposalsRest
     DEF Next, RoutingRuns, SchedulingRuns, ProposalsRun, AdaptationRuns, StatisticsRun,
         ChainArrayRuns, algorithmsVars
<1>3. ProposalsInv => ReflectedIntoBounds
  BY DEF ProposalsInv
<1> QED
  BY <1>1, <1>2, <1>3, PTL DEF Spec, algorithmsVars

\* Every ladder rises by at most the cap per rung, and chain c has its rung of one of the
\* last c ladders, however many cascades are under way and however the ladders change
\* (sampler.cpp:169-186, adaptive.cpp:118-132), for stacks of any height.
THEOREM HeatNeverFarBehind == Spec => []TemperaturesLag
<1>1. Init => AdaptationInv
  BY AdaptationStarts DEF Init
<1>2. AdaptationInv /\ [Next]_algorithmsVars => AdaptationInv'
  BY AdaptationStep, AdaptationRests
     DEF Next, RoutingRuns, SchedulingRuns, ProposalsRun, AdaptationRuns, StatisticsRun,
         ChainArrayRuns, algorithmsVars
<1> QED
  BY <1>1, <1>2, AdaptationInvImpliesLag, PTL DEF Spec, algorithmsVars

\* bestWorker chooses, among the workers with room, one that will be done first by the
\* means of its last times, as long as no sum of them wraps around, and chooses one
\* unless nobody has room or every estimate is the largest uint (delegator.cpp:204-224).
THEOREM QuickestWorkerGetsJob == Spec => []QuickestEligible
<1>1. Init => SchedulingInv
  BY SchedulingStarts DEF Init
<1>2. SchedulingInv /\ [Next]_algorithmsVars => SchedulingInv'
  BY SchedulingStep, SchedulingRests
     DEF Next, RoutingRuns, SchedulingRuns, ProposalsRun, AdaptationRuns, StatisticsRun,
         ChainArrayRuns, algorithmsVars
<1> QED
  BY <1>1, <1>2, SchedulingInvImpliesQuickest, PTL DEF Spec, algorithmsVars

\* The counters of each chain, the rate of its last outcomes, the mean and the squares of
\* each coldest chain are those of the states logged, and convergence is claimed of
\* several stacks of several samples, that moved or agree (adaptive.cpp:81-90,
\* logging.cpp:42-48, diagnostics.cpp:36-75), for windows and logs of any length.
THEOREM StatisticsAreThoseOfLog == Spec => []StatisticsMatchLog
<1>1. Init => StatisticsInv
  BY StatisticsStart DEF Init
<1>2. StatisticsInv /\ [Next]_algorithmsVars => StatisticsInv'
  BY StatisticsStep, StatisticsRests
     DEF Next, RoutingRuns, SchedulingRuns, ProposalsRun, AdaptationRuns, StatisticsRun,
         ChainArrayRuns, algorithmsVars
<1> QED
  BY <1>1, <1>2, StatisticsInvImpliesMatch, PTL DEF Spec, algorithmsVars
=============================================================================
