---------------------------- MODULE ProjectionSafety ----------------------------
(***************************************************************************)
(* Proofs about the projection for any plan, balance, histories and days:  *)
(* income comes once, the days a forecast walks along cut the time without *)
(* gap or overlap, simulated blocks are months that were observed, and a   *)
(* backtest learns from the past only.  They rest on what is proved of the *)
(* calendar first: YearOf and MonthOf find the year and month of a day.    *)
(* Sums over finite sets and induction, which is the smallest of a set of  *)
(* counterexamples here, are stated for ForecastSafety too.                *)
(***************************************************************************)
EXTENDS Projection, FiniteSetTheorems, TLAPS
-----------------------------------------------------------------------------
(* The calendar *)

Leap(y) == IF y % 4 = 0 THEN 1 ELSE 0

\* Month m of year y is month k, and begins some days after the year.
InYear(k, y, m) ==
  LET at(n, from, to) == m = n /\ MonthStart(k) = YearStart(y) + from /\ MonthStart(k + 1) = YearStart(y) + to
      l == Leap(y)
  IN  /\ y \in Int /\ k = 12 * y + m
      /\ YearStart(y) \in Int /\ l \in 0..1 /\ YearStart(y + 1) = YearStart(y) + 365 + l
      /\ \/ at(0, 0, 31) \/ at(1, 31, 59 + l) \/ at(2, 59 + l, 90 + l) \/ at(3, 90 + l, 120 + l)
         \/ at(4, 120 + l, 151 + l) \/ at(5, 151 + l, 181 + l) \/ at(6, 181 + l, 212 + l)
         \/ at(7, 212 + l, 243 + l) \/ at(8, 243 + l, 273 + l) \/ at(9, 273 + l, 304 + l)
         \/ at(10, 304 + l, 334 + l) \/ at(11, 334 + l, 365 + l)

\* Day d is in year y exactly when the division of YearOf says so.
LEMMA YearFacts ==
  ASSUME NEW y \in Int
  PROVE  /\ YearStart(y) \in Int /\ Leap(y) \in 0..1
         /\ YearStart(y + 1) = YearStart(y) + 365 + Leap(y)
         /\ \A d \in Int : YearOf(d) \in Int /\ (YearOf(d) = y <=> YearStart(y) <= d /\ d < YearStart(y + 1))
<1>1. YearStart(y) \in Int /\ Leap(y) \in 0..1
  BY DEF YearStart, Leap
<1>2. YearStart(y + 1) = YearStart(y) + 365 + Leap(y)
  BY DEF YearStart, Leap
<1>3. ASSUME NEW d \in Int
      PROVE  YearOf(d) \in Int /\ (YearOf(d) = y <=> YearStart(y) <= d /\ d < YearStart(y + 1))
  BY DEF YearStart, YearOf
<1> QED
  BY <1>1, <1>2, <1>3

LEMMA YearOfDay ==
  ASSUME NEW d \in Int
  PROVE  YearOf(d) \in Int /\ YearStart(YearOf(d)) <= d /\ d < YearStart(YearOf(d) + 1)
BY DEF YearStart, YearOf

LEMMA YearOrder ==
  ASSUME NEW x \in Int, NEW y \in Int, x < y
  PROVE  YearStart(x + 1) <= YearStart(y)
BY DEF YearStart

LEMMA MonthTable ==
  ASSUME NEW k \in Int, NEW y \in Int, NEW m \in 0..11, k = 12 * y + m
  PROVE  InYear(k, y, m)
<1>1. /\ DaysBefore[1] = 0 /\ DaysBefore[2] = 31 /\ DaysBefore[3] = 59 /\ DaysBefore[4] = 90
      /\ DaysBefore[5] = 120 /\ DaysBefore[6] = 151 /\ DaysBefore[7] = 181 /\ DaysBefore[8] = 212
      /\ DaysBefore[9] = 243 /\ DaysBefore[10] = 273 /\ DaysBefore[11] = 304 /\ DaysBefore[12] = 334
  BY DEF DaysBefore
<1>2. /\ YearStart(y) \in Int /\ Leap(y) \in 0..1 /\ YearStart(y + 1) = YearStart(y) + 365 + Leap(y)
      /\ YearStart(y + 1) \in Int
  BY YearFacts
<1>3. k \div 12 = y /\ k % 12 = m /\ m \in {0, 1, 2, 3, 4, 5, 6, 7, 8, 9, 10, 11}
  OBVIOUS
<1>4. MonthStart(k) = YearStart(y) + DaysBefore[m + 1] + (IF m >= 2 THEN Leap(y) ELSE 0)
  BY <1>1, <1>2, <1>3 DEF MonthStart, Leap
<1>5. CASE m = 11
  <2>1. (k + 1) \div 12 = y + 1 /\ (k + 1) % 12 = 0
    BY <1>5
  <2>2. MonthStart(k + 1) = YearStart(y + 1)
    BY <1>1, <1>2, <2>1 DEF MonthStart
  <2> QED
    BY <1>1, <1>2, <1>4, <1>5, <2>2 DEF InYear
<1>6. CASE m # 11
  <2>1. (k + 1) \div 12 = y /\ (k + 1) % 12 = m + 1
    BY <1>6
  <2>2. MonthStart(k + 1) = YearStart(y) + DaysBefore[m + 2] + (IF m + 1 >= 2 THEN Leap(y) ELSE 0)
    BY <1>1, <1>2, <1>3, <1>6, <2>1 DEF MonthStart, Leap
  <2> QED
    BY <1>1, <1>2, <1>3, <1>4, <1>6, <2>2 DEF InYear
<1> QED
  BY <1>5, <1>6

LEMMA YearOfMonth ==
  ASSUME NEW k \in Int
  PROVE  InYear(k, k \div 12, k % 12)
<1> DEFINE y == k \div 12
           m == k % 12
<1>1. y \in Int /\ m \in 0..11 /\ k = 12 * y + m
  OBVIOUS
<1> QED
  BY <1>1, MonthTable

\* Day d is in month k exactly when MonthOf, which guesses from months of 31 days, says so.
LEMMA MonthFacts ==
  ASSUME NEW k \in Int
  PROVE  /\ MonthStart(k) \in Int /\ MonthStart(k + 1) - MonthStart(k) \in 28..31
         /\ \A d \in Int : MonthStart(k) <= d /\ d < MonthStart(k + 1) =>
              MonthOf(d) = k /\ YearOf(d) = k \div 12
<1> DEFINE y == k \div 12
           m == k % 12
<1>1. InYear(k, y, m)
  BY YearOfMonth
<1> HIDE DEF y, m
<1>2. /\ MonthStart(k) \in Int /\ MonthStart(k + 1) \in Int /\ MonthStart(k + 1) - MonthStart(k) \in 28..31
      /\ YearStart(y) <= MonthStart(k) /\ MonthStart(k + 1) <= YearStart(y + 1)
  BY <1>1 DEF InYear
<1>3. ASSUME NEW d \in Int, MonthStart(k) <= d, d < MonthStart(k + 1)
      PROVE  MonthOf(d) = k /\ YearOf(d) = y
  <2>1. y \in Int /\ YearStart(y) <= d /\ d < YearStart(y + 1)
    BY <1>1, <1>2, <1>3 DEF InYear
  <2>2. YearOf(d) = y
    BY <2>1, YearFacts
  <2> DEFINE e == d - YearStart(y)
             n == e \div 31
  <2>3. e \in Int /\ e \in 0..365
    BY <1>1, <1>2, <1>3 DEF InYear
  <2>4. n \in Int /\ 31 * n <= e /\ e < 31 * n + 31
    BY <2>3
  <2>5. MonthOf(d) = IF MonthStart(12 * y + n + 1) <= d THEN 12 * y + n + 1 ELSE 12 * y + n
    BY <2>2 DEF MonthOf
  <2> HIDE DEF n
  <2>6. n \in {m - 1, m} /\ m \in Int
    BY <1>1, <1>3, <2>4 DEF InYear
  <2>7. k = 12 * y + m
    BY <1>1 DEF InYear
  <2>8. CASE n = m
    BY <1>2, <1>3, <2>1, <2>2, <2>5, <2>6, <2>7, <2>8
  <2>9. CASE n = m - 1
    <3>1. 12 * y + n + 1 = k
      BY <2>1, <2>6, <2>7, <2>9
    <3> QED
      BY <1>3, <2>2, <2>5, <3>1
  <2> QED
    BY <2>6, <2>8, <2>9
<1> QED
  BY <1>2, <1>3 DEF y

\* The month that is found for a day is the one it lies in, and so is the year.
THEOREM MonthOfDay ==
  ASSUME NEW d \in Int
  PROVE  /\ MonthOf(d) \in Int /\ YearOf(d) = MonthOf(d) \div 12
         /\ MonthStart(MonthOf(d)) <= d /\ d < MonthStart(MonthOf(d) + 1)
<1> DEFINE y == YearOf(d)
<1>1. y \in Int /\ YearStart(y) <= d /\ d < YearStart(y + 1)
  BY YearOfDay
<1> HIDE DEF y
<1>2. YearStart(y) \in Int /\ Leap(y) \in 0..1 /\ YearStart(y + 1) = YearStart(y) + 365 + Leap(y)
  BY <1>1, YearFacts
<1> DEFINE e == d - YearStart(y)
           l == Leap(y)
           m == IF e < 31 THEN 0 ELSE IF e < 59 + l THEN 1 ELSE IF e < 90 + l THEN 2 ELSE IF e < 120 + l THEN 3
                ELSE IF e < 151 + l THEN 4 ELSE IF e < 181 + l THEN 5 ELSE IF e < 212 + l THEN 6
                ELSE IF e < 243 + l THEN 7 ELSE IF e < 273 + l THEN 8 ELSE IF e < 304 + l THEN 9
                ELSE IF e < 334 + l THEN 10 ELSE 11
           k == 12 * y + m
<1>3. m \in 0..11
  OBVIOUS
<1>4. k \in Int /\ k = 12 * y + m
  BY <1>1, <1>3
<1> HIDE DEF m, k
<1>5. InYear(k, y, m)
  BY <1>1, <1>3, <1>4, MonthTable
<1>6. MonthStart(k) <= d /\ d < MonthStart(k + 1)
  BY <1>1, <1>2, <1>5 DEF InYear, m
<1>7. MonthOf(d) = k /\ YearOf(d) = k \div 12
  BY <1>4, <1>6, MonthFacts
<1> QED
  BY <1>4, <1>6, <1>7

LEMMA MonthOrder ==
  ASSUME NEW j \in Int, NEW k \in Int, j < k
  PROVE  MonthStart(j + 1) <= MonthStart(k)
<1> DEFINE x == j \div 12
           y == k \div 12
           a == j % 12
           b == k % 12
<1>1. InYear(j, x, a) /\ InYear(k, y, b)
  BY YearOfMonth
<1>2. x \in Int /\ y \in Int /\ (x < y \/ (x = y /\ a < b))
  OBVIOUS
<1> HIDE DEF x, y, a, b
<1>3. CASE x < y
  <2>1. YearStart(x + 1) <= YearStart(y)
    BY <1>2, <1>3, YearOrder
  <2>2. MonthStart(j + 1) <= YearStart(x + 1) /\ MonthStart(j + 1) \in Int /\ YearStart(x + 1) \in Int
    BY <1>1 DEF InYear
  <2>3. YearStart(y) <= MonthStart(k) /\ MonthStart(k) \in Int /\ YearStart(y) \in Int
    BY <1>1 DEF InYear
  <2> QED
    BY <2>1, <2>2, <2>3
<1>4. CASE x = y /\ a < b
  BY <1>1, <1>4 DEF InYear
<1> QED
  BY <1>2, <1>3, <1>4

-----------------------------------------------------------------------------
(* Numbers in order *)

Rank(S, x) == Cardinality({y \in S : y <= x})

LEMMA RankFacts ==
  ASSUME NEW S, IsFiniteSet(S), S \subseteq Int, NEW x \in S
  PROVE  /\ Rank(S, x) \in 1..Cardinality(S)
         /\ \A z \in S : x < z => Rank(S, x) < Rank(S, z)
<1> DEFINE upTo(z) == {y \in S : y <= z}
<1>1. ASSUME NEW z \in S
      PROVE  /\ upTo(z) \in SUBSET S /\ IsFiniteSet(upTo(z)) /\ upTo(z) # {} /\ Rank(S, z) = Cardinality(upTo(z))
             /\ Rank(S, z) \in Nat
  <2>1. upTo(z) \in SUBSET S /\ z \in upTo(z)
    OBVIOUS
  <2> QED
    BY <2>1, FS_Subset, FS_CardinalityType DEF Rank
<1>2. Rank(S, x) \in 1..Cardinality(S)
  <2>1. Cardinality(upTo(x)) # 0 /\ Cardinality(upTo(x)) <= Cardinality(S) /\ Cardinality(S) \in Nat
    BY <1>1, FS_EmptySet, FS_Subset, FS_CardinalityType
  <2> QED
    BY <1>1, <2>1
<1>3. ASSUME NEW z \in S, x < z
      PROVE  Rank(S, x) < Rank(S, z)
  <2>0. x \in Int /\ z \in Int /\ x < z /\ \A y \in S : y \in Int
    BY <1>3
  <2>a. (\A y \in S : y <= x => y <= z) /\ z <= z /\ ~(z <= x)
    BY <2>0
  <2>1. upTo(x) \in SUBSET upTo(z) /\ z \in upTo(z) /\ z \notin upTo(x)
    BY <2>a
  <2>2. upTo(x) # upTo(z)
    BY <2>1
  <2>3. IsFiniteSet(upTo(z)) /\ Rank(S, x) = Cardinality(upTo(x)) /\ Rank(S, z) = Cardinality(upTo(z))
        /\ Rank(S, x) \in Nat /\ Rank(S, z) \in Nat
    BY <1>1
  <2> HIDE DEF upTo
  <2>4. Cardinality(upTo(x)) <= Cardinality(upTo(z)) /\ Cardinality(upTo(x)) # Cardinality(upTo(z))
    BY <2>1, <2>2, <2>3, FS_Subset
  <2> QED
    BY <2>3, <2>4
<1> QED
  BY <1>2, <1>3

\* InOrder lists the numbers of a set from the smallest to the largest, each once.
LEMMA InOrderFacts ==
  ASSUME NEW S, IsFiniteSet(S), S \subseteq Int
  PROVE  LET q == InOrder(S)  n == Cardinality(S)
         IN  /\ n \in Nat /\ q \in [1..n -> S] /\ Len(q) = n
             /\ \A i, j \in 1..n : i < j <=> q[i] < q[j]
             /\ \A x \in S : \E i \in 1..n : q[i] = x
<1> DEFINE q == InOrder(S)
           n == Cardinality(S)
           f == [x \in S |-> Rank(S, x)]
           ranked == {<<Rank(S, x), x>> : x \in S}
<1>1. n \in Nat /\ \A x \in S : Rank(S, x) \in 1..n
  BY FS_CardinalityType, RankFacts
<1>2. ASSUME NEW x \in S, NEW z \in S, Rank(S, x) = Rank(S, z)
      PROVE  x = z
  <2>1. x \in Int /\ z \in Int /\ Rank(S, x) \in Int /\ Rank(S, z) \in Int
    BY <1>1
  <2>2. /\ \A y \in S : x < y => Rank(S, x) < Rank(S, y)
        /\ \A y \in S : z < y => Rank(S, z) < Rank(S, y)
    BY RankFacts
  <2>3. ~(x < z) /\ ~(z < x)
    BY <1>2, <2>1, <2>2
  <2> QED
    BY <2>1, <2>3
<1>3. f \in Injection(S, 1..n)
  BY <1>1, <1>2 DEF Injection, IsInjective
<1>4. \A i \in 1..n : \E x \in S : Rank(S, x) = i
  <2>1. IsFiniteSet(1..n) /\ Cardinality(1..n) = n
    BY <1>1, FS_Interval
  <2>2. f \in Surjection(S, 1..n)
    BY <1>3, <2>1, FS_Injection
  <2> QED
    BY <2>2 DEF Surjection
<1>5. q = [i \in 1..n |-> (CHOOSE r \in ranked : r[1] = i)[2]]
  BY DEF InOrder, Rank
<1>6. ASSUME NEW i \in 1..n
      PROVE  q[i] \in S /\ Rank(S, q[i]) = i
  <2>1. PICK x \in S : Rank(S, x) = i
    BY <1>4
  <2>2. <<Rank(S, x), x>> \in ranked /\ <<Rank(S, x), x>>[1] = i
    BY <2>1
  <2> DEFINE r == CHOOSE r \in ranked : r[1] = i
  <2>3. r \in ranked /\ r[1] = i
    BY <2>2
  <2>4. q[i] = r[2]
    BY <1>5
  <2> HIDE DEF r
  <2> QED
    BY <2>3, <2>4
<1> HIDE DEF q, n, f, ranked
<1>7. q \in [1..n -> S]
  BY <1>5, <1>6
<1>8. Len(q) = n
  BY <1>1, <1>7
<1>9. ASSUME NEW i \in 1..n, NEW j \in 1..n
      PROVE  i < j <=> q[i] < q[j]
  <2>1. q[i] \in S /\ q[j] \in S /\ q[i] \in Int /\ q[j] \in Int /\ Rank(S, q[i]) = i /\ Rank(S, q[j]) = j
    BY <1>6
  <2>2. q[i] < q[j] => i < j
    BY <2>1, RankFacts
  <2>3. q[j] < q[i] => j < i
    BY <2>1, RankFacts
  <2>4. q[i] = q[j] => i = j
    BY <2>1
  <2> QED
    BY <2>1, <2>2, <2>3, <2>4
<1>10. ASSUME NEW x \in S
       PROVE  \E i \in 1..n : q[i] = x
  <2>1. Rank(S, x) \in 1..n
    BY <1>1
  <2> QED
    BY <1>2, <1>6, <2>1
<1> QED
  BY <1>1, <1>7, <1>8, <1>9, <1>10 DEF q, n

LEMMA MaxFacts ==
  ASSUME NEW S, IsFiniteSet(S), S \subseteq Int, S # {}
  PROVE  /\ Max(S) \in S /\ \A x \in S : x <= Max(S)
         /\ Min(S) \in S /\ \A x \in S : Min(S) <= x
<1> DEFINE q == InOrder(S)
           n == Cardinality(S)
<1>1. /\ n \in Nat /\ q \in [1..n -> S]
      /\ \A i, j \in 1..n : i < j <=> q[i] < q[j]
      /\ \A x \in S : \E i \in 1..n : q[i] = x
  BY InOrderFacts
<1> HIDE DEF q, n
<1>2. 1 \in 1..n /\ n \in 1..n
  <2>1. PICK x \in S, i \in 1..n : q[i] = x
    BY <1>1
  <2> QED
    BY <1>1, <2>1
<1>3. ASSUME NEW x \in S
      PROVE  q[1] <= x /\ x <= q[n]
  <2>1. PICK i \in 1..n : q[i] = x
    BY <1>1
  <2>2. x \in Int /\ q[1] \in Int /\ q[n] \in Int
    BY <1>1, <1>2
  <2>3. ~(i < 1) /\ ~(n < i)
    BY <1>1
  <2> QED
    BY <1>1, <1>2, <2>1, <2>2, <2>3
<1>4. q[1] \in S /\ q[n] \in S
  BY <1>1, <1>2
<1>5. \E x \in S : \A y \in S : x >= y
  BY <1>3, <1>4
<1>6. \E x \in S : \A y \in S : x =< y
  BY <1>3, <1>4
<1> QED
  BY <1>5, <1>6 DEF Max, Min

-----------------------------------------------------------------------------
(* Induction *)

\* What a set holds if it holds the next number with every number.
LEMMA UpTo ==
  ASSUME NEW n \in Nat, NEW P, 0 \in P, \A i \in 0..n : i < n /\ i \in P => i + 1 \in P
  PROVE  0..n \subseteq P
<1> DEFINE out == (0..n) \ P
<1>1. SUFFICES ASSUME out # {} PROVE FALSE
  OBVIOUS
<1>2. out \in SUBSET (0..n) /\ IsFiniteSet(0..n) /\ out \subseteq Int
  BY FS_Interval
<1>3. IsFiniteSet(out)
  BY <1>2, FS_Subset
<1>4. Min(out) \in out /\ \A x \in out : Min(out) <= x
  BY <1>1, <1>2, <1>3, MaxFacts
<1> DEFINE i == Min(out) - 1
<1>5. i \in 0..n /\ i < n /\ i + 1 = Min(out)
  BY <1>4
<1>6. i \notin out
  BY <1>4, <1>5
<1> QED
  BY <1>4, <1>5, <1>6

\* What a set holds if it holds every set of which it holds all smaller parts.
LEMMA SmallerFirst ==
  ASSUME NEW S, IsFiniteSet(S), NEW P,
         \A T \in SUBSET S : (\A U \in SUBSET S : U \subseteq T /\ U # T => U \in P) => T \in P
  PROVE  SUBSET S \subseteq P
<1> DEFINE out == (SUBSET S) \ P
           sizes == {Cardinality(T) : T \in out}
<1>1. SUFFICES ASSUME out # {} PROVE FALSE
  OBVIOUS
<1>2. \A T \in SUBSET S : IsFiniteSet(T) /\ Cardinality(T) \in Nat
  BY FS_Subset, FS_CardinalityType
<1>3. sizes \in SUBSET (0..Cardinality(S)) /\ sizes # {} /\ sizes \subseteq Int
  <2>1. \A T \in SUBSET S : Cardinality(T) <= Cardinality(S)
    BY FS_Subset
  <2>2. Cardinality(S) \in Nat
    BY FS_CardinalityType
  <2>3. \A T \in SUBSET S : Cardinality(T) \in 0..Cardinality(S)
    BY <1>2, <2>1, <2>2
  <2>4. sizes \subseteq 0..Cardinality(S)
    BY <2>3
  <2> QED
    BY <1>1, <2>2, <2>4
<1>4. IsFiniteSet(sizes)
  <2>1. IsFiniteSet(0..Cardinality(S))
    BY FS_CardinalityType, FS_Interval
  <2> HIDE DEF sizes
  <2> QED
    BY <1>3, <2>1, FS_Subset
<1>5. Min(sizes) \in sizes /\ \A x \in sizes : Min(sizes) <= x
  <2> HIDE DEF sizes
  <2> QED
    BY <1>3, <1>4, MaxFacts
<1>6. PICK T \in out : Cardinality(T) = Min(sizes)
  BY <1>5
<1>7. ASSUME NEW U \in SUBSET S, U \subseteq T, U # T
      PROVE  U \in P
  <2>1. IsFiniteSet(T) /\ Cardinality(T) \in Nat /\ Cardinality(U) \in Nat
    BY <1>2, <1>6
  <2>2. Cardinality(U) <= Cardinality(T) /\ Cardinality(U) # Cardinality(T)
    BY <1>7, <2>1, FS_Subset
  <2>3. ~(Min(sizes) <= Cardinality(U))
    BY <1>6, <2>1, <2>2
  <2>4. U \in out => Cardinality(U) \in sizes
    OBVIOUS
  <2> QED
    BY <1>5, <2>3, <2>4
<1>8. T \in SUBSET S /\ T \notin P
  BY <1>6
<1> QED
  BY <1>7, <1>8

-----------------------------------------------------------------------------
(* Sums *)

First(s) == CHOOSE x \in s : TRUE
Sums(f, T, g) == g = [s \in SUBSET T |-> IF s = {} THEN 0 ELSE f[First(s)] + g[s \ {First(s)}]]

LEMMA SumsAt ==
  ASSUME NEW f, NEW T, NEW g, Sums(f, T, g), NEW s \in SUBSET T
  PROVE  (s = {} => g[s] = 0) /\ (s # {} => g[s] = f[First(s)] + g[s \ {First(s)}])
<1>1. g = [x \in SUBSET T |-> IF x = {} THEN 0 ELSE f[First(x)] + g[x \ {First(x)}]]
  BY DEF Sums
<1> QED
  BY <1>1, Zenon

LEMMA Rest ==
  ASSUME NEW T, T # {}
  PROVE  First(T) \in T /\ T \ {First(T)} \subseteq T /\ T \ {First(T)} # T
BY DEF First

\* Two sums of the same numbers agree.
LEMMA SumsAgree ==
  ASSUME NEW f, NEW T, NEW U, IsFiniteSet(T), U \subseteq T, NEW g, NEW h, Sums(f, T, g), Sums(f, U, h)
  PROVE  \A V \in SUBSET U : g[V] = h[V]
<1> DEFINE P == {V \in SUBSET U : g[V] = h[V]}
<1>1. IsFiniteSet(U)
  BY FS_Subset
<1>2. ASSUME NEW V \in SUBSET U, \A W \in SUBSET U : W \subseteq V /\ W # V => W \in P
      PROVE  V \in P
  <2>1. V \in SUBSET T
    OBVIOUS
  <2>2. (V = {} => g[V] = 0) /\ (V # {} => g[V] = f[First(V)] + g[V \ {First(V)}])
    BY <2>1, SumsAt
  <2>a. (V = {} => h[V] = 0) /\ (V # {} => h[V] = f[First(V)] + h[V \ {First(V)}])
    BY SumsAt
  <2>3. V # {} => V \ {First(V)} \in P
    <3>1. SUFFICES ASSUME V # {} PROVE V \ {First(V)} \in P
      OBVIOUS
    <3>2. V \ {First(V)} \subseteq V /\ V \ {First(V)} # V
      BY <3>1, Rest
    <3> QED
      BY <1>2, <3>2
  <2> QED
    BY <2>2, <2>3, <2>a
<1> HIDE DEF P
<1>3. SUBSET U \subseteq P
  BY <1>1, <1>2, SmallerFirst
<1> QED
  BY <1>3 DEF P

\* There is a sum of finitely many numbers.
LEMMA SumsExist ==
  ASSUME NEW f, NEW S, IsFiniteSet(S)
  PROVE  \E g : Sums(f, S, g)
<1> DEFINE P == {T \in SUBSET S : \E g : Sums(f, T, g)}
           G(T) == CHOOSE g : Sums(f, T, g)
<1>1. ASSUME NEW T \in SUBSET S, \A U \in SUBSET S : U \subseteq T /\ U # T => U \in P
      PROVE  T \in P
  <2> DEFINE rest(s) == s \ {First(s)}
             h == [s \in SUBSET T |-> IF s = {} THEN 0 ELSE f[First(s)] + G(rest(s))[rest(s)]]
  <2>1. ASSUME NEW U \in SUBSET T, U # T
        PROVE  Sums(f, U, G(U)) /\ IsFiniteSet(U)
    <3>1. U \in P
      BY <1>1, <2>1
    <3> QED
      BY <3>1, FS_Subset
  <2>2. ASSUME NEW U \in SUBSET T, U # T
        PROVE  h[U] = G(U)[U]
    <3>1. G(U)[U] = IF U = {} THEN 0 ELSE f[First(U)] + G(U)[rest(U)]
      <4>1. Sums(f, U, G(U)) /\ U \in SUBSET U
        BY <2>1, <2>2
      <4> QED
        BY <4>1, SumsAt
    <3>2. ASSUME U # {}
          PROVE  G(U)[rest(U)] = G(rest(U))[rest(U)]
      <4>1. rest(U) \subseteq U /\ rest(U) # T /\ rest(U) \in SUBSET T
        BY <2>2, <3>2, Rest
      <4>2. Sums(f, U, G(U)) /\ Sums(f, rest(U), G(rest(U))) /\ IsFiniteSet(U)
        BY <2>1, <2>2, <4>1
      <4> HIDE DEF G, rest
      <4>3. rest(U) \in SUBSET rest(U)
        OBVIOUS
      <4> QED
        BY <4>1, <4>2, <4>3, SumsAgree
    <3>3. h[U] = IF U = {} THEN 0 ELSE f[First(U)] + G(rest(U))[rest(U)]
      OBVIOUS
    <3> QED
      BY <3>1, <3>2, <3>3
  <2>3. ASSUME NEW s \in SUBSET T, s # {}
        PROVE  h[rest(s)] = G(rest(s))[rest(s)]
    <3>1. rest(s) \in SUBSET T /\ rest(s) # T
      BY <2>3, Rest
    <3> QED
      BY <2>2, <3>1
  <2> DEFINE before(s) == IF s = {} THEN 0 ELSE f[First(s)] + G(rest(s))[rest(s)]
             after(s) == IF s = {} THEN 0 ELSE f[First(s)] + h[rest(s)]
  <2>4. h = [s \in SUBSET T |-> before(s)]
    OBVIOUS
  <2> HIDE DEF h
  <2>a. \A s \in SUBSET T : before(s) = after(s)
    <3>1. ASSUME NEW s \in SUBSET T
          PROVE  before(s) = after(s)
      <4>1. s # {} => h[rest(s)] = G(rest(s))[rest(s)]
        BY <2>3
      <4> HIDE DEF rest, G
      <4> QED
        BY <4>1
    <3> QED
      BY <3>1
  <2> HIDE DEF before
  <2>b. h = [s \in SUBSET T |-> after(s)]
    BY <2>4, <2>a
  <2>5. Sums(f, T, h)
    BY <2>b DEF Sums
  <2> QED
    BY <2>5
<1> HIDE DEF P
<1>2. SUBSET S \subseteq P
  BY <1>1, SmallerFirst
<1> QED
  BY <1>2 DEF P

Total(f, S) == SumFunctionOnSet(f, S)

LEMMA TotalIsSum ==
  ASSUME NEW f, NEW S, IsFiniteSet(S)
  PROVE  \E g : Sums(f, S, g) /\ Total(f, S) = g[S]
<1> DEFINE g == CHOOSE g : Sums(f, S, g)
<1>1. Sums(f, S, g)
  BY SumsExist
<1>2. Total(f, S) = g[S]
  BY Zenon DEF Total, SumFunctionOnSet, FoldFunctionOnSet, MapThenFoldSet, Sums, First
<1> QED
  BY <1>1, <1>2

LEMMA TotalStep ==
  ASSUME NEW f, NEW S, IsFiniteSet(S)
  PROVE  Total(f, S) = IF S = {} THEN 0 ELSE f[First(S)] + Total(f, S \ {First(S)})
<1> DEFINE R == S \ {First(S)}
<1>1. PICK g : Sums(f, S, g) /\ Total(f, S) = g[S]
  BY TotalIsSum
<1>2. Total(f, S) = IF S = {} THEN 0 ELSE f[First(S)] + g[R]
  <2>1. S \in SUBSET S
    OBVIOUS
  <2> QED
    BY <1>1, <2>1, SumsAt
<1>3. IsFiniteSet(R) /\ R \subseteq S
  BY FS_Subset
<1> HIDE DEF R
<1>4. PICK h : Sums(f, R, h) /\ Total(f, R) = h[R]
  BY <1>3, TotalIsSum
<1>5. g[R] = h[R]
  <2>1. R \in SUBSET R
    OBVIOUS
  <2> QED
    BY <1>1, <1>3, <1>4, <2>1, SumsAgree
<1> QED
  BY <1>2, <1>4, <1>5 DEF R

\* Whichever number of a sum comes first, the sum is the same.
LEMMA TotalFacts ==
  ASSUME NEW f, NEW S, IsFiniteSet(S), \A x \in S : f[x] \in Int
  PROVE  \A T \in SUBSET S : /\ Total(f, T) \in Int /\ (T = {} => Total(f, T) = 0)
                             /\ \A x \in T : Total(f, T) = f[x] + Total(f, T \ {x})
<1> DEFINE Fact(T) == /\ Total(f, T) \in Int /\ (T = {} => Total(f, T) = 0)
                      /\ \A x \in T : Total(f, T) = f[x] + Total(f, T \ {x})
           P == {T \in SUBSET S : Fact(T)}
<1>1. ASSUME NEW T \in SUBSET S, \A U \in SUBSET S : U \subseteq T /\ U # T => U \in P
      PROVE  T \in P
  <2>1. IsFiniteSet(T)
    BY FS_Subset
  <2>2. CASE T = {}
    <3>1. Total(f, T) = 0
      BY <2>1, <2>2, TotalStep
    <3> QED
      BY <2>2, <3>1
  <2>3. CASE T # {}
    <3> DEFINE y == First(T)
    <3>1. y \in T /\ Total(f, T) = f[y] + Total(f, T \ {y})
      BY <2>1, <2>3, TotalStep, Rest
    <3> HIDE DEF y
    <3>2. Fact(T \ {y}) /\ f[y] \in Int
      BY <1>1, <3>1
    <3>3. ASSUME NEW x \in T, x # y
          PROVE  Total(f, T) = f[x] + Total(f, T \ {x})
      <4>1. Fact(T \ {x}) /\ f[x] \in Int /\ y \in T \ {x} /\ x \in T \ {y}
        BY <1>1, <3>1, <3>3
      <4>2. Fact((T \ {x}) \ {y})
        BY <1>1, <3>1
      <4>3. (T \ {x}) \ {y} = (T \ {y}) \ {x}
        OBVIOUS
      <4>4. /\ Total(f, T \ {x}) = f[y] + Total(f, (T \ {x}) \ {y})
            /\ Total(f, T \ {y}) = f[x] + Total(f, (T \ {x}) \ {y})
        BY <3>2, <4>1, <4>3
      <4>5. Total(f, (T \ {x}) \ {y}) \in Int
        BY <4>2
      <4> QED
        BY <3>1, <3>2, <4>1, <4>4, <4>5
    <3>4. f[y] + Total(f, T \ {y}) \in Int
      BY <3>2
    <3>5. \A x \in T : Total(f, T) = f[x] + Total(f, T \ {x})
      BY <3>1, <3>3
    <3> QED
      BY <2>3, <3>1, <3>4, <3>5
  <2> QED
    BY <2>2, <2>3
<1> HIDE DEF P
<1>2. SUBSET S \subseteq P
  BY <1>1, SmallerFirst
<1> QED
  BY <1>2 DEF P

LEMMA TotalSame ==
  ASSUME NEW S, IsFiniteSet(S), NEW f, NEW g, \A x \in S : f[x] = g[x]
  PROVE  Total(f, S) = Total(g, S)
<1> DEFINE P == {T \in SUBSET S : Total(f, T) = Total(g, T)}
<1>1. ASSUME NEW T \in SUBSET S, \A U \in SUBSET S : U \subseteq T /\ U # T => U \in P
      PROVE  T \in P
  <2>1. IsFiniteSet(T)
    BY FS_Subset
  <2>2. CASE T = {}
    <3>1. Total(f, T) = 0 /\ Total(g, T) = 0
      BY <2>1, <2>2, TotalStep
    <3> QED
      BY <3>1
  <2>3. CASE T # {}
    <3> DEFINE y == First(T)
    <3>1. /\ y \in T /\ Total(f, T) = f[y] + Total(f, T \ {y})
          /\ Total(g, T) = g[y] + Total(g, T \ {y})
      BY <2>1, <2>3, TotalStep, Rest
    <3> HIDE DEF y
    <3>2. T \ {y} \in SUBSET S /\ T \ {y} \subseteq T /\ T \ {y} # T
      BY <3>1
    <3>3. T \ {y} \in P
      BY <1>1, <3>2
    <3>4. f[y] = g[y] /\ Total(f, T \ {y}) = Total(g, T \ {y})
      BY <3>1, <3>3
    <3> QED
      BY <3>1, <3>4
  <2> QED
    BY <2>2, <2>3
<1> HIDE DEF P
<1>2. SUBSET S \subseteq P
  BY <1>1, SmallerFirst
<1> QED
  BY <1>2 DEF P

LEMMA TotalNat ==
  ASSUME NEW f, NEW S, IsFiniteSet(S), \A x \in S : f[x] \in Nat
  PROVE  Total(f, S) \in Nat
<1> DEFINE P == {T \in SUBSET S : Total(f, T) \in Nat}
<1>1. \A T \in SUBSET S : (T = {} => Total(f, T) = 0) /\ \A x \in T : Total(f, T) = f[x] + Total(f, T \ {x})
  BY TotalFacts
<1>2. ASSUME NEW T \in SUBSET S, \A U \in SUBSET S : U \subseteq T /\ U # T => U \in P
      PROVE  T \in P
  <2>1. CASE T = {}
    BY <1>1, <2>1
  <2>2. CASE T # {}
    <3>1. PICK x \in T : TRUE
      BY <2>2
    <3>2. T \ {x} \in SUBSET S /\ T \ {x} \subseteq T /\ T \ {x} # T
      BY <3>1
    <3>3. Total(f, T \ {x}) \in Nat /\ f[x] \in Nat
      BY <1>2, <3>1, <3>2
    <3>4. Total(f, T) = f[x] + Total(f, T \ {x})
      BY <1>1, <3>1
    <3> QED
      BY <3>3, <3>4
  <2> QED
    BY <2>1, <2>2
<1> HIDE DEF P
<1>3. SUBSET S \subseteq P
  BY <1>2, SmallerFirst
<1> QED
  BY <1>3 DEF P

\* The sum of two parts.
LEMMA TotalParts ==
  ASSUME NEW f, NEW S, IsFiniteSet(S), \A x \in S : f[x] \in Int,
         NEW A \in SUBSET S, NEW B \in SUBSET S, A \cap B = {}
  PROVE  Total(f, A \cup B) = Total(f, A) + Total(f, B)
<1> DEFINE P == {T \in SUBSET B : Total(f, A \cup T) = Total(f, A) + Total(f, T)}
<1>0. \A T \in SUBSET S : /\ Total(f, T) \in Int /\ (T = {} => Total(f, T) = 0)
                          /\ \A x \in T : Total(f, T) = f[x] + Total(f, T \ {x})
  BY TotalFacts
<1>1. ASSUME NEW T \in SUBSET B, \A U \in SUBSET B : U \subseteq T /\ U # T => U \in P
      PROVE  T \in P
  <2>1. CASE T = {}
    <3>1. A \cup T = A /\ T \in SUBSET S
      BY <2>1
    <3>2. Total(f, T) = 0 /\ Total(f, A) \in Int
      BY <1>0, <2>1, <3>1
    <3>3. Total(f, A \cup T) = Total(f, A)
      BY <3>1, Zenon
    <3>4. Total(f, A) = Total(f, A) + Total(f, T)
      BY <3>2
    <3> QED
      BY <3>3, <3>4
  <2>2. CASE T # {}
    <3>1. PICK y \in T : TRUE
      BY <2>2
    <3>a. T \ {y} \in SUBSET B /\ T \ {y} \subseteq T /\ T \ {y} # T
      BY <3>1
    <3>2. T \ {y} \in P /\ (A \cup T) \ {y} = A \cup (T \ {y})
      BY <1>1, <3>1, <3>a
    <3>b. A \cup T \in SUBSET S /\ y \in A \cup T
      BY <3>1
    <3>c. Total(f, A \cup T) = f[y] + Total(f, (A \cup T) \ {y})
      <4> DEFINE W == A \cup T
      <4> HIDE DEF W
      <4>1. Total(f, W) = f[y] + Total(f, W \ {y})
        BY <1>0, <3>b DEF W
      <4> QED
        BY <4>1 DEF W
    <3>3. Total(f, A \cup T) = f[y] + Total(f, A \cup (T \ {y}))
      BY <3>2, <3>c
    <3>4. Total(f, T) = f[y] + Total(f, T \ {y})
      BY <1>0, <3>1
    <3>5. f[y] \in Int /\ Total(f, A) \in Int /\ Total(f, T \ {y}) \in Int
      BY <1>0, <3>1
    <3> QED
      BY <3>2, <3>3, <3>4, <3>5
  <2> QED
    BY <2>1, <2>2
<1>2. IsFiniteSet(B)
  BY FS_Subset
<1> HIDE DEF P
<1>3. SUBSET B \subseteq P
  BY <1>1, <1>2, SmallerFirst
<1> QED
  BY <1>3 DEF P

-----------------------------------------------------------------------------
(* Income *)

BonusEvent(p, y) ==
  [date |-> PayDate(p.rule, y), amount |-> BonusAmount(p, y), currency |-> "CNY", from |-> BonusOf(y)]
BatchEvent(p, g, b) ==
  LET grant == p.grants[g]
  IN  [date |-> CashDate(grant.batches[b]), amount |-> grant.batches[b].quantity * grant.gain,
       currency |-> grant.currency, from |-> BatchOf(g, b)]

Bonuses(p) ==
  IF p.bonus = 0 \/ p.rule = NoRule THEN {} ELSE {BonusEvent(p, y) : y \in {y \in Int : BonusAmount(p, y) > 0}}
Batches(p) ==
  UNION {{BatchEvent(p, g, b) : b \in {b \in DOMAIN p.grants[g].batches :
            /\ p.grants[g].batches[b].mode # "hold"
            /\ p.grants[g].batches[b].quantity * p.grants[g].gain > 0}} : g \in DOMAIN p.grants}

LEMMA PayDateFacts ==
  ASSUME NEW r, ValidRule(r), NEW y \in Int
  PROVE  /\ PayDate(r, y) \in Int /\ YearOf(PayDate(r, y)) = y
         /\ MonthOf(PayDate(r, y)) % 12 = r.payMonth - 1
<1> DEFINE k == 12 * y + r.payMonth - 1
           d == PayDate(r, y)
<1>1. k \in Int /\ k \div 12 = y /\ k % 12 = r.payMonth - 1 /\ r.payMonth - 1 \in Int
  BY DEF ValidRule
<1>2. MonthStart(k) \in Int /\ MonthStart(k + 1) \in Int /\ MonthStart(k + 1) - MonthStart(k) \in 28..31
  BY <1>1, MonthFacts
<1>3. MonthLength(k) \in 28..31 /\ r.payDay \in Int /\ r.payDay >= 1
  <2>1. MonthLength(r.payMonth - 1) \in Int
    BY <1>1, MonthFacts DEF MonthLength
  <2> QED
    BY <1>2, <2>1 DEF MonthLength, ValidRule
<1>4. d = MonthStart(k) + (IF r.payDay < MonthLength(k) THEN r.payDay ELSE MonthLength(k)) - 1
  BY DEF PayDate
<1>5. MonthStart(k + 1) = MonthStart(k) + MonthLength(k)
  BY <1>2 DEF MonthLength
<1> HIDE DEF k, d
<1>6. d \in Int /\ MonthStart(k) <= d /\ d < MonthStart(k + 1)
  BY <1>2, <1>3, <1>4, <1>5
<1>7. MonthOf(d) = k /\ YearOf(d) = k \div 12
  BY <1>1, <1>6, MonthFacts
<1> QED
  BY <1>1, <1>6, <1>7 DEF d

LEMMA BonusDate ==
  ASSUME NEW p, Valid(p), NEW e \in Bonuses(p)
  PROVE  /\ e.date \in Int /\ e.currency = "CNY" /\ e.from = BonusOf(YearOf(e.date))
         /\ e = BonusEvent(p, YearOf(e.date)) /\ MonthOf(e.date) % 12 = p.rule.payMonth - 1
<1>1. PICK y \in Int : e = BonusEvent(p, y) /\ p.rule # NoRule
  BY DEF Bonuses
<1>2. ValidRule(p.rule)
  BY <1>1 DEF Valid
<1>3. e.date = PayDate(p.rule, y) /\ e.currency = "CNY" /\ e.from = BonusOf(y)
  BY <1>1 DEF BonusEvent
<1> QED
  BY <1>1, <1>2, <1>3, PayDateFacts

LEMMA BatchDate ==
  ASSUME NEW p, Dated(p.grants), NEW e \in Batches(p)
  PROVE  e.date \in Int /\ e.currency \in {"CNY"} \cup Foreign /\ e.from[1] = "option"
<1>0. PICK g \in DOMAIN p.grants : \E b \in DOMAIN p.grants[g].batches : e = BatchEvent(p, g, b)
  BY DEF Batches
<1>1. PICK b \in DOMAIN p.grants[g].batches : e = BatchEvent(p, g, b)
  BY <1>0
<1>2. /\ e.date = CashDate(p.grants[g].batches[b]) /\ e.currency = p.grants[g].currency
      /\ e.from = BatchOf(g, b)
  BY <1>1 DEF BatchEvent
<1> QED
  BY <1>2 DEF Dated, CashDate, BatchOf

\* What comes between two days is what comes at all, on one of these days: the years
\* looked at leave no bonus out.
LEMMA ComesWithin ==
  ASSUME NEW p, Valid(p), Dated(p.grants), NEW start \in Int, NEW end \in Int
  PROVE  CompensationEvents(p, start, end) = {e \in Bonuses(p) \cup Batches(p) : start < e.date /\ e.date <= end}
<1>1. BonusEvents(p, start, end) = {e \in Bonuses(p) : start < e.date /\ e.date <= end}
  <2>1. CASE p.bonus = 0 \/ p.rule = NoRule
    BY <2>1 DEF BonusEvents, Bonuses
  <2>2. CASE p.bonus # 0 /\ p.rule # NoRule
    <3>1. ASSUME NEW y \in Int, start < PayDate(p.rule, y), PayDate(p.rule, y) <= end
          PROVE  y \in YearOf(start)..YearOf(end)
      <4>1. PayDate(p.rule, y) \in Int /\ YearOf(PayDate(p.rule, y)) = y
        BY <2>2, PayDateFacts DEF Valid
      <4> QED
        BY <3>1, <4>1 DEF YearOf
    <3>2. \A y \in YearOf(start)..YearOf(end) : y \in Int
      BY DEF YearOf
    <3>3. BonusYears(p, start, end) =
            {y \in Int : BonusAmount(p, y) > 0 /\ start < PayDate(p.rule, y) /\ PayDate(p.rule, y) <= end}
      BY <3>1, <3>2 DEF BonusYears, Within
    <3>4. BonusEvents(p, start, end) = {BonusEvent(p, y) : y \in BonusYears(p, start, end)}
      BY <2>2 DEF BonusEvents, BonusEvent
    <3>5. Bonuses(p) = {BonusEvent(p, y) : y \in {y \in Int : BonusAmount(p, y) > 0}}
      BY <2>2 DEF Bonuses
    <3>6. \A y : BonusEvent(p, y).date = PayDate(p.rule, y)
      BY DEF BonusEvent
    <3> QED
      BY <3>3, <3>4, <3>5, <3>6
  <2> QED
    BY <2>1, <2>2
<1>2. UNION {GrantEvents(p, g, start, end) : g \in DOMAIN p.grants}
        = {e \in Batches(p) : start < e.date /\ e.date <= end}
  <2>1. \A g, b : BatchEvent(p, g, b).date = CashDate(p.grants[g].batches[b])
    BY DEF BatchEvent
  <2>2. ASSUME NEW g
        PROVE  GrantEvents(p, g, start, end) =
                 {BatchEvent(p, g, b) : b \in {b \in DOMAIN p.grants[g].batches :
                    /\ p.grants[g].batches[b].mode # "hold"
                    /\ start < BatchEvent(p, g, b).date /\ BatchEvent(p, g, b).date <= end
                    /\ p.grants[g].batches[b].quantity * p.grants[g].gain > 0}}
    BY <2>1 DEF GrantEvents, Within, BatchEvent
  <2> QED
    BY <2>2 DEF Batches
<1> QED
  BY <1>1, <1>2 DEF CompensationEvents

\* A plan brings finitely many amounts.
LEMMA FiniteImage ==
  ASSUME NEW S, IsFiniteSet(S), NEW f
  PROVE  IsFiniteSet({f[x] : x \in S})
<1> DEFINE T == {f[x] : x \in S}
           g == [x \in S |-> f[x]]
<1>1. g \in Surjection(S, T)
  BY DEF Surjection
<1> QED
  BY <1>1, FS_Surjection

LEMMA AmountFacts ==
  ASSUME NEW p, Valid(p), Dated(p.grants), Counted(p.grants), p.bonus \in Int, Started(p.rule),
         NEW start \in Int, NEW end \in Int
  PROVE  LET coming == CompensationEvents(p, start, end)
         IN  /\ IsFiniteSet(coming)
             /\ \A e \in coming : e.amount \in Int /\ e.currency \in {"CNY"} \cup Foreign
<1> DEFINE bonuses == BonusEvents(p, start, end)
           batches(g) == GrantEvents(p, g, start, end)
<1>1. IsFiniteSet(bonuses) /\ \A e \in bonuses : e.amount \in Int /\ e.currency = "CNY"
  <2>1. CASE p.bonus = 0 \/ p.rule = NoRule
    BY <2>1, FS_EmptySet DEF BonusEvents
  <2>2. CASE p.bonus # 0 /\ p.rule # NoRule
    <3> DEFINE years == BonusYears(p, start, end)
               f == [y \in years |-> BonusEvent(p, y)]
    <3>1. years \in SUBSET (YearOf(start)..YearOf(end)) /\ YearOf(start) \in Int /\ YearOf(end) \in Int
      BY YearOfDay DEF BonusYears
    <3>2. IsFiniteSet(years)
      BY <3>1, FS_Interval, FS_Subset
    <3>3. bonuses = {f[y] : y \in years}
      BY <2>2 DEF BonusEvents, BonusEvent
    <3>4. IsFiniteSet(bonuses)
      <4> HIDE DEF f, years, bonuses
      <4> QED
        BY <3>2, <3>3, FiniteImage
    <3>5. ASSUME NEW y \in years
          PROVE  BonusAmount(p, y) \in Int
      <4> DEFINE earned == y - p.rule.yearOffset
                 n == DaysIn(earned)
                 w == DaysWorked(p.rule, earned)
      <4>1. earned \in Int /\ p.rule.workStart \in Int
        BY <2>2, <3>1 DEF Valid, ValidRule, Started
      <4> HIDE DEF earned
      <4>2. /\ YearStart(earned) \in Int /\ YearStart(earned + 1) = YearStart(earned) + 365 + Leap(earned)
            /\ Leap(earned) \in 0..1
        BY <4>1, YearFacts
      <4>3. w \in Int
        BY <4>1, <4>2 DEF DaysWorked
      <4>4. n = 365 \/ n = 366
        BY <4>2 DEF DaysIn
      <4>5. BonusAmount(p, y) = (18 * p.bonus * w + 10 * n) \div (20 * n)
        BY DEF BonusAmount, earned
      <4> HIDE DEF n, w
      <4>6. 18 * p.bonus * w + 10 * n \in Int
        BY <4>3, <4>4
      <4> DEFINE m == 18 * p.bonus * w + 10 * n
      <4>7. m \in Int /\ BonusAmount(p, y) = m \div (20 * n)
        BY <4>5, <4>6
      <4> HIDE DEF m
      <4> QED
        BY <4>4, <4>7
    <3>6. \A y \in years : f[y].amount = BonusAmount(p, y) /\ f[y].currency = "CNY"
      BY DEF BonusEvent
    <3> HIDE DEF f, years, bonuses
    <3> QED
      BY <3>3, <3>4, <3>5, <3>6
  <2> QED
    BY <2>1, <2>2
<1>2. ASSUME NEW g \in DOMAIN p.grants
      PROVE  IsFiniteSet(batches(g)) /\ \A e \in batches(g) : e.amount \in Int /\ e.currency \in {"CNY"} \cup Foreign
  <2> DEFINE paid == {b \in DOMAIN p.grants[g].batches :
                        /\ p.grants[g].batches[b].mode # "hold"
                        /\ Within(CashDate(p.grants[g].batches[b]), start, end)
                        /\ p.grants[g].batches[b].quantity * p.grants[g].gain > 0}
             f == [b \in paid |-> BatchEvent(p, g, b)]
  <2>1. paid \in SUBSET (DOMAIN p.grants[g].batches) /\ IsFiniteSet(DOMAIN p.grants[g].batches)
    BY DEF Counted
  <2>2. IsFiniteSet(paid)
    <3> HIDE DEF paid
    <3> QED
      BY <2>1, FS_Subset
  <2>3. batches(g) = {f[b] : b \in paid}
    BY DEF GrantEvents, BatchEvent
  <2>4. \A b \in paid : /\ f[b].amount = p.grants[g].batches[b].quantity * p.grants[g].gain
                        /\ f[b].currency = p.grants[g].currency
    BY DEF BatchEvent
  <2>5. /\ p.grants[g].gain \in Int /\ \A b \in paid : p.grants[g].batches[b].quantity \in Int
        /\ p.grants[g].currency \in {"CNY"} \cup Foreign
    BY <2>1 DEF Counted, Dated
  <2> HIDE DEF f, paid, batches
  <2>6. IsFiniteSet(batches(g))
    BY <2>2, <2>3, FiniteImage
  <2>7. \A b \in paid : f[b].amount \in Int /\ f[b].currency \in {"CNY"} \cup Foreign
    BY <2>4, <2>5
  <2> QED
    BY <2>3, <2>6, <2>7
<1> DEFINE all == {batches(g) : g \in DOMAIN p.grants}
<1>3. IsFiniteSet(all)
  <2> DEFINE f == [g \in DOMAIN p.grants |-> batches(g)]
  <2>1. all = {f[g] : g \in DOMAIN p.grants} /\ IsFiniteSet(DOMAIN p.grants)
    BY DEF Counted
  <2> HIDE DEF f, all
  <2> QED
    BY <2>1, FiniteImage
<1>4. IsFiniteSet(UNION all)
  BY <1>2, <1>3, FS_UNION
<1>5. CompensationEvents(p, start, end) = bonuses \cup UNION all
  BY DEF CompensationEvents
<1> HIDE DEF bonuses, batches
<1>6. IsFiniteSet(bonuses \cup UNION all)
  BY <1>1, <1>4, FS_Union
<1> QED
  BY <1>1, <1>2, <1>5, <1>6

-----------------------------------------------------------------------------
(* The invariant *)

PlanOK ==
  /\ {"savings", "bonus", "rule", "grants"} \subseteq DOMAIN plan
  /\ plan.savings \in Nat /\ plan.bonus \in Nat /\ Started(plan.rule)
  /\ Valid(plan) /\ Dated(plan.grants) /\ Counted(plan.grants)

\* Rates and prices come and go, but what is known are days, and what is shown is what
\* they say.
Known ==
  /\ stocks \in BOOLEAN /\ history \in Histories /\ rates \in Rates
  /\ \A s \in DOMAIN history : IsFiniteSet(history[s])

Money == balance \in Int /\ target \in Int /\ market \in Markets

ProjectionInv ==
  /\ today \in Days /\ PlanOK /\ Known /\ Money
  /\ shown = Look(today, plan, balance, history, rates)

LEMMA DayFacts ==
  /\ Days \subseteq Int /\ Min(Days) \in Days
  /\ \A d \in Days : d < Max(Days) => Min({x \in Days : x > d}) \in Days
<1>1. IsFiniteSet(Days) /\ Days \subseteq Int /\ Days # {}
  BY ProjectionAssumption
<1>2. ASSUME NEW d \in Days, d < Max(Days)
      PROVE  Min({x \in Days : x > d}) \in Days
  <2> DEFINE later == {x \in Days : x > d}
  <2>1. later \in SUBSET Days /\ later # {}
    BY <1>1, <1>2, MaxFacts
  <2>2. IsFiniteSet(later)
    BY <1>1, <2>1, FS_Subset
  <2>3. Min(later) \in later
    BY <1>1, <2>1, <2>2, MaxFacts
  <2> QED
    BY <2>3
<1> QED
  BY <1>1, <1>2, MaxFacts

LEMMA PatchedPlan ==
  ASSUME PlanOK, NEW x \in Patches, Valid(Patched(x))
  PROVE  LET p == Patched(x)
         IN  /\ {"savings", "bonus", "rule", "grants"} \subseteq DOMAIN p
             /\ p.savings \in Nat /\ p.bonus \in Nat /\ Started(p.rule)
             /\ Valid(p) /\ Dated(p.grants) /\ Counted(p.grants)
<1> DEFINE p == Patched(x)
<1>1. DOMAIN p = DOMAIN plan /\ \A f \in DOMAIN plan : p[f] = IF f \in DOMAIN x THEN x[f] ELSE plan[f]
  BY DEF Patched
<1>2. {"savings", "bonus", "rule", "grants"} \subseteq DOMAIN plan
  BY DEF PlanOK
<1> HIDE DEF p
<1>3. /\ p.savings = IF "savings" \in DOMAIN x THEN x.savings ELSE plan.savings
      /\ p.bonus = IF "bonus" \in DOMAIN x THEN x.bonus ELSE plan.bonus
      /\ p.rule = IF "rule" \in DOMAIN x THEN x.rule ELSE plan.rule
      /\ p.grants = IF "grants" \in DOMAIN x THEN x.grants ELSE plan.grants
  BY <1>1, <1>2
<1>4. p.savings \in Nat /\ p.bonus \in Nat /\ Started(p.rule)
  BY <1>3, PlanAssumption DEF PlanOK
<1>5. Dated(p.grants) /\ Counted(p.grants)
  BY <1>3, PlanAssumption DEF PlanOK
<1> QED
  BY <1>1, <1>2, <1>4, <1>5 DEF p

LEMMA MonthEndsFacts ==
  ASSUME NEW from \in Int, NEW to \in Int
  PROVE  IsFiniteSet(MonthEnds(from, to)) /\ Cardinality(MonthEnds(from, to)) \in Nat
<1>1. MonthEnds(from, to) \in SUBSET ((from + 1)..to) /\ IsFiniteSet((from + 1)..to)
  BY FS_Interval DEF MonthEnds
<1> QED
  BY <1>1, FS_Subset, FS_CardinalityType

\* What is paid until a day is the total of the amounts in yuan.
LEMMA ReceiptsFacts ==
  ASSUME PlanOK, NEW from \in Int, NEW to \in Int
  PROVE  LET coming == CompensationEvents(plan, from, to)
             paid == [e \in coming |-> InYuanOf(e)]
         IN  /\ IsFiniteSet(coming) /\ \A e \in coming : InYuanOf(e) \in Int
             /\ Total(paid, coming) \in Int
             /\ Receipts(from, to) = Total(paid, coming) + plan.savings * Cardinality(MonthEnds(from, to))
             /\ Receipts(from, to) \in Int
<1> DEFINE coming == CompensationEvents(plan, from, to)
           paid == [e \in coming |-> InYuanOf(e)]
<1>1. IsFiniteSet(coming) /\ \A e \in coming : e.amount \in Int /\ e.currency \in {"CNY"} \cup Foreign
  BY AmountFacts DEF PlanOK
<1> HIDE DEF coming
<1>2. \A e \in coming : InYuanOf(e) \in Int
  BY <1>1, ProjectionAssumption DEF InYuanOf
<1>3. DOMAIN paid = coming /\ \A e \in coming : paid[e] \in Int
  BY <1>2
<1>4. Receipts(from, to) = SumFunction(paid) + plan.savings * Cardinality(MonthEnds(from, to))
  BY DEF Receipts, coming
<1> HIDE DEF paid
<1>5. Total(paid, coming) \in Int
  BY <1>1, <1>3, TotalFacts
<1>6. SumFunction(paid) = Total(paid, coming)
  BY <1>3 DEF SumFunction, Total
<1>7. plan.savings * Cardinality(MonthEnds(from, to)) \in Int
  BY MonthEndsFacts DEF PlanOK
<1> QED
  BY <1>1, <1>2, <1>4, <1>5, <1>6, <1>7 DEF coming, paid

LEMMA ProjectionInit == Init => ProjectionInv
<1> SUFFICES ASSUME Init PROVE ProjectionInv
  OBVIOUS
<1>1. PlanOK
  <2>1. plan = NoPlan
    BY DEF Init
  <2>2. Started(NoPlan.rule) /\ Valid(NoPlan) /\ Dated(NoPlan.grants)
    BY DEF NoPlan, Valid, Dated, Started
  <2>3. Counted(NoPlan.grants)
    <3>1. DOMAIN NoPlan.grants = {}
      BY DEF NoPlan
    <3> QED
      BY <3>1, FS_EmptySet DEF Counted
  <2>4. {"savings", "bonus", "rule", "grants"} \subseteq DOMAIN NoPlan /\ NoPlan.savings \in Nat /\ NoPlan.bonus \in Nat
    BY DEF NoPlan
  <2> QED
    BY <2>1, <2>2, <2>3, <2>4 DEF PlanOK
<1>2. Known /\ Money
  BY CaseAssumption DEF Init, Known, Money
<1> QED
  BY <1>1, <1>2, DayFacts DEF Init, ProjectionInv

LEMMA ProjectionNext ==
  ASSUME ProjectionInv, [Next]_vars
  PROVE  ProjectionInv'
<1>1. CASE UNCHANGED vars
  BY <1>1 DEF vars, ProjectionInv, PlanOK, Known, Money, Look, Snapshot
<1>2. CASE Next
  <2>1. today' \in Days
    BY <1>2, DayFacts DEF Next, PatchIncome, LiveOn, RatesArrive, PricesArrive, ProjectionInv
  <2>2. PlanOK'
    <3>1. CASE PatchIncome
      <4>1. PICK x \in Patches : plan' = Patched(x) /\ Valid(Patched(x))
        BY <3>1 DEF PatchIncome
      <4>2. PlanOK
        BY DEF ProjectionInv
      <4> DEFINE p == Patched(x)
      <4>3. /\ {"savings", "bonus", "rule", "grants"} \subseteq DOMAIN p
            /\ p.savings \in Nat /\ p.bonus \in Nat /\ Started(p.rule)
            /\ Valid(p) /\ Dated(p.grants) /\ Counted(p.grants)
        BY <4>1, <4>2, PatchedPlan
      <4> HIDE DEF p
      <4>4. plan' = p
        BY <4>1 DEF p
      <4> QED
        BY <4>3, <4>4 DEF PlanOK
    <3>2. CASE plan' = plan
      BY <3>2 DEF ProjectionInv, PlanOK
    <3> QED
      BY <1>2, <3>1, <3>2 DEF Next, LiveOn, RatesArrive, PricesArrive
  <2>3. Known'
    <3>1. stocks' = stocks /\ (history' = history \/ \E c \in Cases : history' = c.history)
      BY <1>2 DEF Next, PatchIncome, LiveOn, RatesArrive, PricesArrive
    <3>2. rates' = rates \/ rates' = Worth
      BY <1>2 DEF Next, PatchIncome, LiveOn, RatesArrive, PricesArrive
    <3>3. Worth \in Rates
      BY ProjectionAssumption DEF Rates
    <3> QED
      BY <3>1, <3>2, <3>3, CaseAssumption DEF ProjectionInv, Known
  <2>4. target' = target /\ stocks' = stocks /\ market' = market
    BY <1>2 DEF Next, PatchIncome, LiveOn, RatesArrive, PricesArrive
  <2>5. shown' = Look(today, plan, balance, history, rates)'
    BY <1>2, <2>4 DEF Next, Look, Snapshot
  <2>6. balance' \in Int
    <3>1. CASE balance' = balance
      BY <3>1 DEF ProjectionInv, Money
    <3>2. CASE LiveOn
      <4>1. today \in Int /\ today' \in Int /\ PlanOK /\ balance \in Int
        BY <2>1, DayFacts DEF ProjectionInv, Money
      <4>2. Receipts(today, today') \in Int
        BY <4>1, ReceiptsFacts
      <4> QED
        BY <3>2, <4>1, <4>2 DEF LiveOn
    <3> QED
      BY <1>2, <3>1, <3>2 DEF Next, PatchIncome, RatesArrive, PricesArrive
  <2>7. Money'
    BY <2>4, <2>6 DEF ProjectionInv, Money
  <2> QED
    BY <2>1, <2>2, <2>3, <2>5, <2>7 DEF ProjectionInv
<1> QED
  BY <1>1, <1>2

LEMMA ProjectionHolds == Spec => []ProjectionInv
<1> QED
  BY ProjectionInit, ProjectionNext, PTL DEF Spec

-----------------------------------------------------------------------------
(* Income comes once *)

LEMMA HorizonIsLater ==
  ASSUME NEW d \in Int, NEW y \in Nat
  PROVE  /\ AddDate(d, y, 0, 0) \in Int /\ AddDate(d, y, 0, 0) >= d
         /\ \A x \in Nat : x < y => AddDate(d, x, 0, 0) < AddDate(d, y, 0, 0)
<1> DEFINE k == MonthOf(d)
           j == d - MonthStart(k)
<1>0. k \in Int /\ MonthStart(k) <= d /\ d < MonthStart(k + 1)
  BY MonthOfDay
<1>1. k \in Int /\ MonthStart(k) \in Int /\ j \in 0..30
  <2>1. MonthStart(k) \in Int /\ MonthStart(k + 1) - MonthStart(k) \in 28..31 /\ MonthStart(k + 1) \in Int
    BY <1>0, MonthFacts
  <2> QED
    BY <1>0, <2>1
<1>2. ASSUME NEW x \in Nat
      PROVE  AddDate(d, x, 0, 0) = MonthStart(k + 12 * x) + j
  <2>1. k + 12 * x + 0 = k + 12 * x
    BY <1>1
  <2>2. AddDate(d, x, 0, 0) = MonthStart(k + 12 * x + 0) + j + 0
    BY DEF AddDate
  <2>3. MonthStart(k + 12 * x) \in Int
    BY <1>1, MonthFacts
  <2> QED
    BY <1>1, <2>1, <2>2, <2>3
<1> HIDE DEF j, k
<1>3. \A x \in Nat : k + 12 * x \in Int /\ MonthStart(k + 12 * x) \in Int
  BY <1>1, MonthFacts
<1>4. ASSUME NEW x \in Nat, x < y
      PROVE  MonthStart(k + 12 * x) < MonthStart(k + 12 * y)
  <2>1. k + 12 * x < k + 12 * y
    BY <1>1, <1>4
  <2>2. MonthStart(k + 12 * x + 1) <= MonthStart(k + 12 * y)
    BY <1>3, <2>1, MonthOrder
  <2> DEFINE n == k + 12 * x
  <2>a. n \in Int /\ n + 1 \in Int
    BY <1>3
  <2> HIDE DEF n
  <2>b. MonthStart(n) < MonthStart(n + 1) /\ MonthStart(n + 1) \in Int
    BY <2>a, MonthFacts
  <2>3. MonthStart(k + 12 * x) < MonthStart(k + 12 * x + 1) /\ MonthStart(k + 12 * x + 1) \in Int
    BY <2>b DEF n
  <2> QED
    BY <1>3, <2>2, <2>3
<1>5. AddDate(d, y, 0, 0) \in Int
  BY <1>1, <1>2, <1>3
<1>6. ASSUME NEW x \in Nat, x < y
      PROVE  AddDate(d, x, 0, 0) < AddDate(d, y, 0, 0)
  BY <1>1, <1>2, <1>3, <1>4, <1>6
<1>7. AddDate(d, 0, 0, 0) = d
  BY <1>1, <1>2 DEF j
<1>8. AddDate(d, y, 0, 0) >= d
  BY <1>5, <1>6, <1>7
<1> QED
  BY <1>5, <1>6, <1>8

\* Nothing is paid twice or left out however often and on whatever days somebody looks,
\* and whatever the plan: no two bonuses fall into a year, each is paid in its month.
THEOREM IncomeOnce == Spec => []IncomeComesOnce
<1>1. ASSUME ProjectionInv
      PROVE  IncomeComesOnce
  <2> DEFINE end == AddDate(today, Years, 0, 0)
             all == CompensationEvents(plan, today, end)
             bonuses == {e \in all : e.from[1] = "bonus"}
             coming == Bonuses(plan) \cup Batches(plan)
  <2>1. today \in Int /\ end \in Int /\ Valid(plan) /\ Dated(plan.grants)
    BY <1>1, DayFacts, ProjectionAssumption, HorizonIsLater DEF ProjectionInv, PlanOK
  <2>2. \A e \in coming : e.date \in Int
    BY <2>1, BonusDate, BatchDate
  <2>3. ASSUME NEW a \in Int, NEW b \in Int
        PROVE  CompensationEvents(plan, a, b) = {e \in coming : a < e.date /\ e.date <= b}
    BY <2>1, ComesWithin
  <2> HIDE DEF end, coming
  <2>4. ASSUME NEW d \in Days, today <= d, d <= end
        PROVE  LET past == CompensationEvents(plan, today, d)
                   future == CompensationEvents(plan, d, end)
               IN  past \cup future = all /\ past \cap future = {}
    <3>1. d \in Int
      BY DayFacts
    <3>2. \A e \in coming : /\ today < e.date /\ e.date <= end <=>
                                 (today < e.date /\ e.date <= d) \/ (d < e.date /\ e.date <= end)
                            /\ ~(e.date <= d /\ d < e.date)
      BY <2>1, <2>2, <2>4, <3>1
    <3> QED
      BY <2>1, <2>3, <3>1, <3>2
  <2>5. \A e \in bonuses : e = BonusEvent(plan, YearOf(e.date)) /\ MonthOf(e.date) % 12 = plan.rule.payMonth - 1
    <3>1. ASSUME NEW e \in bonuses
          PROVE  e \in Bonuses(plan)
      <4>1. e \in Bonuses(plan) \cup Batches(plan)
        BY <2>1, <2>3 DEF coming
      <4> QED
        BY <2>1, <4>1, BatchDate
    <3> QED
      BY <2>1, <3>1, BonusDate
  <2>6. \A e, f \in bonuses : YearOf(e.date) = YearOf(f.date) => e = f
    BY <2>5
  <2> QED
    BY <2>4, <2>5, <2>6 DEF IncomeComesOnce, end
<1> QED
  BY <1>1, ProjectionHolds, PTL

-----------------------------------------------------------------------------
(* Months with returns *)

LEMMA UsableDay ==
  ASSUME NEW at \in Int, NEW H \in SUBSET Int, NEW d \in Usable(H, at)
  PROVE  d \in H /\ d \in Int /\ MonthOf(d) \in Int /\ MonthOf(d) < MonthOf(at) /\ d < at
<1> DEFINE k == MonthOf(at)
           j == MonthOf(d)
<1>1. d \in H /\ d \in Int /\ d < MonthStart(k)
  BY DEF Usable
<1>2. k \in Int /\ MonthStart(k) <= at /\ MonthStart(k) \in Int
  BY MonthOfDay, MonthFacts
<1>3. j \in Int /\ MonthStart(j) <= d /\ MonthStart(j) \in Int
  BY <1>1, MonthOfDay, MonthFacts
<1> HIDE DEF j, k
<1>4. ~(k < j)
  <2>1. SUFFICES ASSUME k < j PROVE FALSE
    OBVIOUS
  <2>2. MonthStart(k + 1) <= MonthStart(j)
    BY <1>2, <1>3, <2>1, MonthOrder
  <2>3. MonthStart(k + 1) - MonthStart(k) \in 28..31 /\ MonthStart(k + 1) \in Int
    BY <1>2, MonthFacts
  <2> QED
    BY <1>1, <1>2, <1>3, <2>2, <2>3
<1>5. k # j
  BY <1>1, <1>2, <1>3
<1> QED
  BY <1>1, <1>2, <1>3, <1>4, <1>5 DEF j, k

\* The history has a price of the last week of month k.
Closing(H, k) == \E d \in H : MonthEnd(k) - 7 <= d /\ d <= MonthEnd(k)

LEMMA EndsFacts ==
  ASSUME NEW at \in Int, NEW H \in SUBSET Int, NEW k, EndsInTime(LastDays(Usable(H, at)), k)
  PROVE  k \in Int /\ k < MonthOf(at) /\ Closing(H, k)
<1> DEFINE days == Usable(H, at)
           seen == (MonthStart(k)..MonthEnd(k)) \cap days
<1>1. PICK d \in days : MonthOf(d) = k
  BY DEF EndsInTime, LastDays
<1>2. d \in Int /\ k \in Int /\ k < MonthOf(at) /\ MonthStart(k) <= d /\ d < MonthStart(k + 1)
  BY <1>1, UsableDay, MonthOfDay
<1>3. MonthStart(k) \in Int /\ MonthStart(k + 1) \in Int /\ MonthEnd(k) \in Int /\ d <= MonthEnd(k)
  BY <1>2, MonthFacts DEF MonthEnd
<1>4. d \in seen /\ seen \subseteq Int /\ seen \subseteq H
  BY <1>1, <1>2, <1>3, UsableDay
<1>5. IsFiniteSet(seen)
  <2>1. seen \in SUBSET (MonthStart(k)..MonthEnd(k)) /\ IsFiniteSet(MonthStart(k)..MonthEnd(k))
    BY <1>3, FS_Interval
  <2> QED
    BY <2>1, FS_Subset
<1>6. Max(seen) \in seen
  BY <1>4, <1>5, MaxFacts
<1>7. MonthEnd(k) - Max(seen) <= 7
  BY <1>1 DEF EndsInTime, LastDays
<1>8. Max(seen) \in H /\ Max(seen) \in Int /\ Max(seen) <= MonthEnd(k)
  BY <1>3, <1>4, <1>6
<1> HIDE DEF seen
<1> QED
  BY <1>2, <1>3, <1>7, <1>8 DEF Closing

LEMMA ReturnFacts ==
  ASSUME NEW at \in Int, NEW H \in SUBSET Int
  PROVE  /\ \A k \in DOMAIN MonthlyReturns(H, at) :
              k \in Int /\ k < MonthOf(at) /\ Closing(H, k) /\ Closing(H, k - 1)
         /\ IsFiniteSet(H) => IsFiniteSet(DOMAIN MonthlyReturns(H, at))
<1> DEFINE days == Usable(H, at)
           last == LastDays(days)
<1>1. /\ DOMAIN MonthlyReturns(H, at) = {k \in DOMAIN last : EndsInTime(last, k) /\ EndsInTime(last, k - 1)}
      /\ DOMAIN last = {MonthOf(d) : d \in days}
  BY DEF MonthlyReturns, Returns, LastDays
<1>2. ASSUME IsFiniteSet(H)
      PROVE  IsFiniteSet(DOMAIN MonthlyReturns(H, at))
  <2> DEFINE f == [d \in days |-> MonthOf(d)]
  <2>1. days \in SUBSET H
    BY DEF Usable
  <2>2. IsFiniteSet(days)
    BY <1>2, <2>1, FS_Subset
  <2>3. f \in Surjection(days, DOMAIN last)
    BY <1>1 DEF Surjection
  <2>4. IsFiniteSet(DOMAIN last)
    BY <2>2, <2>3, FS_Surjection
  <2>5. DOMAIN MonthlyReturns(H, at) \in SUBSET DOMAIN last
    BY <1>1
  <2> QED
    BY <2>4, <2>5, FS_Subset
<1>3. ASSUME NEW k \in DOMAIN MonthlyReturns(H, at)
      PROVE  k \in Int /\ k < MonthOf(at) /\ Closing(H, k) /\ Closing(H, k - 1)
  BY <1>1, EndsFacts
<1> QED
  BY <1>2, <1>3

\* Months with a return in each of some finite functions of months, in order.
LEMMA CommonFacts ==
  ASSUME NEW R, R # {}, \A r \in R : IsFiniteSet(DOMAIN r) /\ DOMAIN r \subseteq Int
  PROVE  LET months == CommonMonths(R)
         IN  /\ Len(months) \in Nat
             /\ \A i \in 1..Len(months) : months[i] \in Int /\ \A r \in R : months[i] \in DOMAIN r
<1> DEFINE S == {k \in DOMAIN (CHOOSE r \in R : TRUE) : \A r \in R : k \in DOMAIN r}
<1>1. CommonMonths(R) = InOrder(S)
  BY DEF CommonMonths
<1>2. (CHOOSE r \in R : TRUE) \in R
  OBVIOUS
<1>3. S \in SUBSET DOMAIN (CHOOSE r \in R : TRUE)
  OBVIOUS
<1>4. IsFiniteSet(S) /\ S \subseteq Int
  BY <1>2, <1>3, FS_Subset
<1>5. \A k \in S : \A r \in R : k \in DOMAIN r
  OBVIOUS
<1> HIDE DEF S
<1>6. /\ Cardinality(S) \in Nat /\ Len(InOrder(S)) = Cardinality(S)
      /\ InOrder(S) \in [1..Cardinality(S) -> S]
  BY <1>4, InOrderFacts
<1> QED
  BY <1>1, <1>4, <1>5, <1>6

LEMMA SnapshotFacts ==
  ASSUME ProjectionInv
  PROVE  /\ today \in Int /\ Now.asOf = today /\ Now.stocks = stocks
         /\ DOMAIN Now.history = DOMAIN history /\ DOMAIN history = {"own", "benchmark"} \cup Foreign
         /\ \A s \in DOMAIN history : /\ history[s] \in SUBSET Int
                                      /\ Now.history[s] = {d \in history[s] : d <= today}
                                      /\ Now.history[s] \in SUBSET Int /\ IsFiniteSet(Now.history[s])
         /\ Needed(Now, Years) \subseteq Foreign
<1>1. today \in Int /\ PlanOK /\ Known
  BY DayFacts DEF ProjectionInv
<1>2. /\ Now.asOf = today /\ Now.stocks = stocks /\ Now.held = (IF stocks THEN Foreign ELSE {})
      /\ Now.events = CompensationEvents(plan, today, AddDate(today, Years, 0, 0))
      /\ Now.history = [s \in DOMAIN history |-> {d \in history[s] : d <= today}]
  BY DEF Now, Snapshot
<1>3. DOMAIN history = {"own", "benchmark"} \cup Foreign /\ \A s \in DOMAIN history : history[s] \in SUBSET Int
  BY <1>1 DEF Known, Histories
<1>4. ASSUME NEW s \in DOMAIN history
      PROVE  Now.history[s] \in SUBSET history[s] /\ IsFiniteSet(Now.history[s])
  <2>1. Now.history[s] \in SUBSET history[s]
    BY <1>2
  <2> QED
    BY <1>1, <2>1, FS_Subset DEF Known
<1>5. Needed(Now, Years) \subseteq Foreign
  <2>1. AddDate(today, Years, 0, 0) \in Int
    BY <1>1, ProjectionAssumption, HorizonIsLater
  <2>2. \A e \in Now.events : e.currency \in {"CNY"} \cup Foreign
    BY <1>1, <1>2, <2>1, ComesWithin, BonusDate, BatchDate DEF PlanOK
  <2> QED
    BY <1>2, <2>2 DEF Needed
<1> QED
  BY <1>1, <1>2, <1>3, <1>4, <1>5

\* A simulated path repeats three months that followed each other and were all observed:
\* the tests of completeness, of the number of months and of the blocks let no gap of a
\* series through, and no month that has not ended.
THEOREM BlocksAreReal == Spec => []BlocksAreRealMonths
<1>1. ASSUME ProjectionInv, shown.state = "ready"
      PROVE  BlocksAreRealMonths
  <2> DEFINE needed == Needed(Now, Years)
             model == PrepareModel(Now.history, stocks, needed, today)
             own == MonthlyReturns(Now.history.own, today)
             base == MonthlyReturns(Now.history.benchmark, today)
             fx == {MonthlyReturns(Now.history[c], today) : c \in needed}
             R == (IF stocks THEN Simulated(own, base) ELSE {}) \cup fx
             months == CommonMonths(R)
             known == TakingPart(Now.history, needed)
             closing(s, k) == \E d \in MonthEnd(k) - 7..MonthEnd(k) : d \in Now.history[s]
  <2>1. model.ready
    <3>1. SimulateForecast(Now, Years, market).state = "ready"
      <4>1. shown = ForecastFromSnapshot(Now, Years, market)
        BY <1>1 DEF ProjectionInv, Look, Now
      <4> QED
        BY <1>1, <4>1 DEF ForecastFromSnapshot, NoForecast
    <3>2. PrepareModel(Now.history, Now.stocks, Needed(Now, Years), Now.asOf).ready
      BY <3>1 DEF SimulateForecast, NoForecast, Possible
    <3> QED
      BY <1>1, <3>2, SnapshotFacts
  <2>2. model = Model(R)
    BY <2>1 DEF PrepareModel, Unavailable
  <2>3. R = {} \/ (model.months = months /\ model.starts = BlockStarts(months))
    BY <2>1, <2>2 DEF Model, Unavailable
  <2>4. R = {} => model.starts = {}
    BY <2>2 DEF Model
  <2>5. \A s \in {"own", "benchmark"} \cup Foreign : Now.history[s] \in SUBSET Int /\ IsFiniteSet(Now.history[s])
    BY <1>1, SnapshotFacts
  <2>6. today \in Int /\ needed \subseteq Foreign
    BY <1>1, SnapshotFacts
  <2>7. ASSUME NEW r \in R
        PROVE  \E s \in {"own", "benchmark"} \cup Foreign : r = MonthlyReturns(Now.history[s], today)
    BY <2>6 DEF Simulated
  <2>8. ASSUME NEW s \in known
        PROVE  s \in {"own", "benchmark"} \cup Foreign /\ MonthlyReturns(Now.history[s], today) \in R
    <3>1. CASE s \in needed
      BY <2>6, <3>1
    <3>2. CASE stocks /\ s = "benchmark"
      BY <3>2 DEF Simulated
    <3>3. CASE stocks /\ s = "own" /\ ~(Shared(own, base) < ModelMonths)
      <4>1. Shared(own, base) \in Nat
        <5>1. IsFiniteSet(DOMAIN own)
          BY <2>5, <2>6, ReturnFacts
        <5> QED
          BY <5>1, FS_Subset, FS_CardinalityType DEF Shared
      <4>2. Shared(own, base) >= ModelMonths
        BY <3>3, <4>1 DEF ModelMonths
      <4> QED
        BY <3>3, <4>2 DEF Simulated
    <3> QED
      BY <2>8, <3>1, <3>2, <3>3 DEF TakingPart
  <2> HIDE DEF R
  <2>9. \A r \in R : IsFiniteSet(DOMAIN r) /\ DOMAIN r \subseteq Int
    BY <2>5, <2>6, <2>7, ReturnFacts
  <2>10. R # {} => /\ Len(months) \in Nat
                   /\ \A i \in 1..Len(months) : months[i] \in Int /\ \A r \in R : months[i] \in DOMAIN r
    BY <2>9, CommonFacts
  <2> HIDE DEF months, needed, own, base, fx
  <2>11. ASSUME R # {}, NEW i \in BlockStarts(months), NEW n \in 0..2
         PROVE  LET k == months[i] + n
                IN  /\ months[i + n] = k /\ k < MonthOf(today)
                    /\ \A s \in known : closing(s, k) /\ closing(s, k - 1)
    <3> DEFINE k == months[i] + n
    <3>1. i \in 1..Len(months) - 2 /\ months[i + 1] = months[i] + 1 /\ months[i + 2] = months[i] + 2
      BY DEF BlockStarts
    <3>2. i + n \in 1..Len(months) /\ months[i] \in Int
      BY <2>10, <2>11, <3>1
    <3>3. months[i + n] = k
      BY <2>10, <2>11, <3>1, <3>2
    <3> HIDE DEF k
    <3>4. \A r \in R : k \in DOMAIN r
      BY <2>10, <2>11, <3>2, <3>3
    <3>5. ASSUME NEW s \in known
          PROVE  k < MonthOf(today) /\ closing(s, k) /\ closing(s, k - 1)
      <4>1. k < MonthOf(today) /\ Closing(Now.history[s], k) /\ Closing(Now.history[s], k - 1)
        BY <2>5, <2>6, <2>8, <3>4, ReturnFacts
      <4>2. k \in Int /\ k - 1 \in Int
        BY <3>2 DEF k
      <4>3. MonthEnd(k) \in Int /\ MonthEnd(k - 1) \in Int
        BY <4>2, MonthFacts DEF MonthEnd
      <4>4. Now.history[s] \subseteq Int
        BY <2>5, <2>8
      <4>5. ASSUME NEW j, MonthEnd(j) \in Int, Closing(Now.history[s], j)
            PROVE  closing(s, j)
        <5>1. PICK d \in Now.history[s] : MonthEnd(j) - 7 <= d /\ d <= MonthEnd(j)
          BY <4>5 DEF Closing
        <5>2. d \in MonthEnd(j) - 7..MonthEnd(j)
          BY <4>4, <4>5, <5>1
        <5> QED
          BY <5>1, <5>2
      <4> HIDE DEF closing
      <4> QED
        BY <4>1, <4>3, <4>5
    <3>6. k < MonthOf(today)
      <4>1. PICK r \in R : k \in DOMAIN r
        BY <2>11, <3>4
      <4> QED
        BY <2>5, <2>6, <2>7, <4>1, ReturnFacts
    <3> QED
      BY <3>3, <3>5, <3>6 DEF k
  <2>12. \A i \in model.starts : R # {} /\ i \in BlockStarts(months) /\ model.months = months
    BY <2>3, <2>4
  <2> HIDE DEF closing, known, model
  <2>13. \A i \in model.starts : \A n \in 0..2 :
           LET k == model.months[i] + n
           IN  /\ model.months[i + n] = k /\ k < MonthOf(today)
               /\ \A s \in known : closing(s, k) /\ closing(s, k - 1)
    BY <2>11, <2>12
  <2> QED
    BY <2>13 DEF BlocksAreRealMonths, needed, closing, known, model
<1>2. ProjectionInv => BlocksAreRealMonths
  BY <1>1 DEF BlocksAreRealMonths
<1> QED
  BY <1>2, ProjectionHolds, PTL

-----------------------------------------------------------------------------
(* The backtest *)

\* A day of the backtest is the first of a month and has passed.
LEMMA BacktestDayFacts ==
  ASSUME NEW at \in Int, NEW years \in Nat, NEW d \in BacktestDays(at, years)
  PROVE  /\ d \in Int /\ d <= at
         /\ AddDate(d, 0, 0, 0) = d /\ AddDate(d, -3, 0, 0) \in Int /\ AddDate(d, -3, 0, 0) < d - 7
<1> DEFINE k == MonthOf(at)
           cutoff == MonthStart(k)
<1>1. k \in Int /\ cutoff <= at /\ cutoff \in Int /\ MonthStart(k + 1) - cutoff \in 28..31
  BY MonthOfDay, MonthFacts
<1>2. ASSUME NEW x \in Int, NEW y \in Int
      PROVE  AddDate(MonthStart(x), y, 0, 0) = MonthStart(x + 12 * y)
  <2>1. /\ MonthStart(x) \in Int /\ MonthStart(x + 1) - MonthStart(x) \in 28..31 /\ x + 12 * y \in Int
        /\ MonthStart(x + 1) \in Int
    BY MonthFacts
  <2>2. MonthOf(MonthStart(x)) = x
    <3>1. MonthStart(x) <= MonthStart(x) /\ MonthStart(x) < MonthStart(x + 1)
      BY <2>1
    <3> QED
      BY <2>1, <3>1, MonthFacts
  <2>3. AddDate(MonthStart(x), y, 0, 0) = MonthStart(x + 12 * y + 0) + (MonthStart(x) - MonthStart(x)) + 0
    BY <2>2 DEF AddDate
  <2>4. x + 12 * y + 0 = x + 12 * y /\ MonthStart(x + 12 * y) \in Int
    BY <2>1, MonthFacts
  <2> QED
    BY <2>1, <2>3, <2>4
<1>3. PICK n \in 0..5 - years : d = AddDate(cutoff, n - 5, 0, 0)
  BY DEF BacktestDays
<1> HIDE DEF k
<1> DEFINE j == k + 12 * (n - 5)
<1>4. n - 5 \in Int /\ n <= 5 /\ j \in Int /\ j <= k
  BY <1>1
<1>5. d = MonthStart(j)
  BY <1>1, <1>2, <1>3, <1>4
<1> HIDE DEF j
<1>6. /\ d \in Int /\ AddDate(d, 0, 0, 0) = MonthStart(j + 12 * 0)
      /\ AddDate(d, -3, 0, 0) = MonthStart(j + 12 * (-3))
  <2>1. AddDate(MonthStart(j), 0, 0, 0) = MonthStart(j + 12 * 0)
    BY <1>2, <1>4
  <2>2. -3 \in Int
    OBVIOUS
  <2>3. AddDate(MonthStart(j), -3, 0, 0) = MonthStart(j + 12 * (-3))
    BY <1>2, <1>4, <2>2
  <2>4. MonthStart(j) \in Int
    BY <1>4, MonthFacts
  <2> QED
    BY <1>5, <2>1, <2>3, <2>4
<1>7. ASSUME NEW x \in Int, NEW y \in Int, x < y
      PROVE  MonthStart(x) < MonthStart(y) - 7 \/ y = x
  <2>1. MonthStart(x + 1) <= MonthStart(y)
    BY <1>7, MonthOrder
  <2>2. /\ MonthStart(x) \in Int /\ MonthStart(y) \in Int /\ MonthStart(x + 1) \in Int
        /\ MonthStart(x + 1) - MonthStart(x) \in 28..31
    BY MonthFacts
  <2> QED
    BY <2>1, <2>2
<1>8. d <= cutoff
  <2>1. CASE j = k
    BY <1>1, <1>5, <2>1
  <2>2. CASE j < k
    BY <1>1, <1>4, <1>5, <1>6, <1>7, <2>2
  <2> QED
    BY <1>1, <1>4, <2>1, <2>2
<1>9. AddDate(d, -3, 0, 0) \in Int /\ AddDate(d, -3, 0, 0) < d - 7
  <2> DEFINE m == j + 12 * (-3)
  <2>1. m \in Int /\ m < j
    BY <1>4
  <2> HIDE DEF m
  <2>2. MonthStart(m) \in Int /\ MonthStart(m) < MonthStart(j) - 7
    BY <1>4, <1>7, <2>1, MonthFacts
  <2> QED
    BY <1>5, <1>6, <2>2 DEF m
<1>10. AddDate(d, 0, 0, 0) = d
  <2>1. j + 12 * 0 = j
    BY <1>4
  <2> QED
    BY <1>5, <1>6, <2>1
<1> QED
  BY <1>1, <1>6, <1>8, <1>9, <1>10

\* Returns at a day are made of earlier days.
LEMMA ReturnsKnowThePast ==
  ASSUME NEW at \in Int, NEW d \in Int, d <= at, NEW H \in SUBSET Int
  PROVE  MonthlyReturns({x \in H : x <= at}, d) = MonthlyReturns({x \in H : x <= d}, d)
<1> DEFINE early(t) == {x \in H : x <= t}
<1>1. ASSUME NEW t \in Int, d <= t
      PROVE  Usable(early(t), d) = Usable(H, d)
  <2>1. \A x \in Usable(H, d) : x \in H /\ x \in Int /\ x < d
    BY UsableDay
  <2>2. \A x \in Usable(H, d) : x <= t
    BY <1>1, <2>1
  <2>3. Usable(early(t), d) = {x \in Usable(H, d) : x <= t}
    BY DEF Usable
  <2> QED
    BY <2>2, <2>3
<1>2. Usable(early(at), d) = Usable(early(d), d)
  BY <1>1
<1> QED
  BY <1>2 DEF MonthlyReturns, Returns

\* A series observed on two days far enough apart has two prices.
LEMMA TwoPrices ==
  ASSUME NEW H, IsFiniteSet(H), NEW x \in H, NEW y \in H, x # y
  PROVE  ~(Cardinality(H) < 2)
<1>1. {x, y} \in SUBSET H /\ {x, y} = {x} \cup {y}
  OBVIOUS
<1>2. IsFiniteSet({x}) /\ Cardinality({x}) = 1
  BY FS_Singleton
<1>3. Cardinality({x} \cup {y}) = 2
  BY <1>2, FS_AddElement
<1>4. 2 <= Cardinality(H) /\ Cardinality(H) \in Nat
  BY <1>1, <1>3, FS_Subset, FS_CardinalityType
<1> QED
  BY <1>4

\* The forecast a backtest makes for a past day is the one that was made on that day: none
\* of the prices stored since then takes part, neither in the returns nor in the tests
\* whether there are enough of them.
THEOREM BacktestIsHonest == Spec => []BacktestKnowsOnlyThePast
<1>1. ASSUME ProjectionInv, stocks, NEW years \in {1, 3, 5},
             NEW c \in Backtest(Now.history, stocks, Foreign, today, years)
      PROVE  c.model = PrepareModel([s \in DOMAIN history |-> {d \in history[s] : d <= c.day}], stocks, Foreign, c.day)
  <2> DEFINE day == c.day
             then == [s \in DOMAIN history |-> {d \in history[s] : d <= day}]
  <2>1. /\ day \in BacktestDays(today, years) /\ Comparable(Now.history, stocks, Foreign, day, years)
        /\ c.model = PrepareModel(Now.history, stocks, Foreign, day) /\ c.model.ready
    <3>1. PICK d \in BacktestDays(today, years) :
            /\ Comparable(Now.history, stocks, Foreign, d, years)
            /\ c = [day |-> d, model |-> PrepareModel(Now.history, stocks, Foreign, d)] /\ c.model.ready
      BY <1>1 DEF Backtest
    <3> QED
      BY <3>1
  <2>2. /\ today \in Int /\ DOMAIN history = {"own", "benchmark"} \cup Foreign
        /\ \A s \in DOMAIN history : /\ history[s] \in SUBSET Int
                                     /\ Now.history[s] = {d \in history[s] : d <= today}
                                     /\ Now.history[s] \in SUBSET Int /\ IsFiniteSet(Now.history[s])
    BY <1>1, SnapshotFacts
  <2>3. /\ day \in Int /\ day <= today
        /\ AddDate(day, 0, 0, 0) = day /\ AddDate(day, -3, 0, 0) \in Int /\ AddDate(day, -3, 0, 0) < day - 7
    BY <2>1, <2>2, BacktestDayFacts
  <2> HIDE DEF day
  <2>4. \A s \in DOMAIN history : then[s] = {d \in history[s] : d <= day} /\ then[s] \in SUBSET Now.history[s]
    BY <2>2, <2>3
  <2>5. ASSUME NEW s \in DOMAIN history
        PROVE  MonthlyReturns(Now.history[s], day) = MonthlyReturns(then[s], day)
    <3>1. /\ history[s] \in SUBSET Int /\ Now.history[s] = {d \in history[s] : d <= today}
          /\ then[s] = {d \in history[s] : d <= day}
      BY <2>2, <2>4
    <3>2. MonthlyReturns({d \in history[s] : d <= today}, day) = MonthlyReturns({d \in history[s] : d <= day}, day)
      BY <2>2, <2>3, <3>1, ReturnsKnowThePast
    <3> QED
      BY <3>1, <3>2
  <2>6. ~(Cardinality(then.own) < 2) /\ ~(Cardinality(Now.history.own) < 2)
    <3>1. Observed(Now.history.own, day) /\ Observed(Now.history.own, AddDate(day, -3, 0, 0))
      BY <1>1, <2>1, <2>3 DEF Comparable
    <3>2. PICK x \in Now.history.own : day - 7 <= x /\ x <= day
      BY <3>1 DEF Observed
    <3>3. PICK y \in Now.history.own : AddDate(day, -3, 0, 0) - 7 <= y /\ y <= AddDate(day, -3, 0, 0)
      BY <3>1 DEF Observed
    <3>4. x \in Int /\ y \in Int /\ x # y /\ y <= day
      BY <2>2, <2>3, <3>2, <3>3
    <3>5. x \in then.own /\ y \in then.own
      BY <2>2, <2>4, <3>2, <3>3, <3>4
    <3>6. IsFiniteSet(then.own)
      BY <2>2, <2>4, FS_Subset
    <3> QED
      BY <2>2, <3>2, <3>3, <3>4, <3>5, <3>6, TwoPrices
  <2> HIDE DEF then
  <2>7. /\ MonthlyReturns(Now.history.own, day) = MonthlyReturns(then.own, day)
        /\ MonthlyReturns(Now.history.benchmark, day) = MonthlyReturns(then.benchmark, day)
        /\ {MonthlyReturns(Now.history[f], day) : f \in Foreign} = {MonthlyReturns(then[f], day) : f \in Foreign}
    BY <2>2, <2>5
  <2>8. PrepareModel(Now.history, stocks, Foreign, day) = PrepareModel(then, stocks, Foreign, day)
    BY <2>6, <2>7 DEF PrepareModel
  <2> QED
    BY <2>1, <2>8 DEF day, then
<1>2. ProjectionInv => BacktestKnowsOnlyThePast
  BY <1>1 DEF BacktestKnowsOnlyThePast
<1> QED
  BY <1>2, ProjectionHolds, PTL

-----------------------------------------------------------------------------
(* Checkpoints *)

LEMMA MonthOfOrder ==
  ASSUME NEW c \in Int, NEW d \in Int, c <= d
  PROVE  MonthOf(c) <= MonthOf(d)
<1> DEFINE j == MonthOf(c)
           k == MonthOf(d)
<1>0. j \in Int /\ MonthStart(j) <= c /\ k \in Int /\ d < MonthStart(k + 1)
  BY MonthOfDay
<1> HIDE DEF j, k
<1>1. /\ j \in Int /\ MonthStart(j) <= c /\ k \in Int /\ d < MonthStart(k + 1)
      /\ MonthStart(j) \in Int /\ MonthStart(k + 1) \in Int
  BY <1>0, MonthFacts
<1>2. ~(k < j)
  <2>1. SUFFICES ASSUME k < j PROVE FALSE
    OBVIOUS
  <2>2. MonthStart(k + 1) <= MonthStart(j)
    BY <1>1, <2>1, MonthOrder
  <2> QED
    BY <1>1, <2>2
<1> QED
  BY <1>1, <1>2 DEF j, k

\* A snapshot a forecast can be calculated from, of the whole plan or of part of it.
Fits(in) ==
  /\ in.asOf \in Int /\ in.balance \in Int /\ in.target \in Int /\ in.savings \in Int
  /\ IsFiniteSet(in.events)
  /\ \A e \in in.events : /\ e.date \in Int /\ in.asOf < e.date /\ e.date <= Horizon(in, Years)
                          /\ InYuan(in, e) \in Int

End(in) == Horizon(in, Years)
Yearly(in) == Anniversaries(in, Years)
Months(in) == {k \in MonthOf(in.asOf)..MonthOf(End(in)) : MonthStart(k) < End(in)}

\* The days of month k on which something happens, as Checkpoints cuts it.
CutsOf(in, k) == {d \in Cuts(in, Yearly(in), End(in), k) : Begin(in, k) < d /\ d <= Stop(End(in), k)}
Previous(in, k, d) == Max({Begin(in, k)} \cup {x \in CutsOf(in, k) : x < d})
Point(in, k, d) ==
  [date |-> d, month |-> k, span |-> d - Previous(in, k, d),
   savings |-> d = MonthEnd(k),
   report |-> d = MonthEnd(k) /\ k = MonthOf(in.asOf),
   years |-> {a.year : a \in {a \in Yearly(in) : a.date = d}},
   events |-> {e \in in.events : e.date = d}]
Points(in) == UNION {{Point(in, k, d) : d \in CutsOf(in, k)} : k \in Months(in)}
PointDays(in) == UNION {CutsOf(in, k) : k \in Months(in)}

LEMMA PointField == \A in, k, d : Point(in, k, d).date = d /\ (Point(in, k, d).savings <=> d = MonthEnd(k))
BY Zenon DEF Point

LEMMA HorizonFacts ==
  ASSUME NEW in, Fits(in)
  PROVE  /\ in.asOf \in Int /\ End(in) \in Int /\ in.asOf < End(in)
         /\ Yearly(in) = {[year |-> y, date |-> AddDate(in.asOf, y, 0, 0)] : y \in 1..Years}
         /\ \A y \in 1..Years : /\ AddDate(in.asOf, y, 0, 0) \in Int /\ in.asOf < AddDate(in.asOf, y, 0, 0)
                                /\ AddDate(in.asOf, y, 0, 0) <= End(in)
         /\ End(in) \in {a.date : a \in Yearly(in)}
         /\ \A e \in in.events : e.date \in Int /\ in.asOf < e.date /\ e.date <= End(in)
<1>1. /\ in.asOf \in Int /\ End(in) = AddDate(in.asOf, Years, 0, 0) /\ Years \in Nat \ {0}
      /\ \A e \in in.events : e.date \in Int /\ in.asOf < e.date /\ e.date <= End(in)
  BY ProjectionAssumption DEF Fits, End, Horizon
<1>2. Yearly(in) = {[year |-> y, date |-> AddDate(in.asOf, y, 0, 0)] : y \in 1..Years}
  BY <1>1 DEF Yearly, Anniversaries
<1>3. End(in) \in Int
  BY <1>1, HorizonIsLater
<1>4. AddDate(in.asOf, 0, 0, 0) >= in.asOf /\ AddDate(in.asOf, 0, 0, 0) \in Int
  BY <1>1, HorizonIsLater
<1>5. ASSUME NEW y \in 1..Years
      PROVE  /\ AddDate(in.asOf, y, 0, 0) \in Int /\ in.asOf < AddDate(in.asOf, y, 0, 0)
             /\ AddDate(in.asOf, y, 0, 0) <= End(in)
  <2>1. y \in Nat /\ 0 \in Nat /\ Years \in Nat
    BY <1>1
  <2>a. /\ AddDate(in.asOf, y, 0, 0) \in Int
        /\ \A x \in Nat : x < y => AddDate(in.asOf, x, 0, 0) < AddDate(in.asOf, y, 0, 0)
    BY <1>1, <2>1, HorizonIsLater
  <2>b. 0 < y
    OBVIOUS
  <2>2. AddDate(in.asOf, y, 0, 0) \in Int /\ AddDate(in.asOf, 0, 0, 0) < AddDate(in.asOf, y, 0, 0)
    BY <2>1, <2>a, <2>b
  <2>3. y < Years => AddDate(in.asOf, y, 0, 0) < AddDate(in.asOf, Years, 0, 0)
    BY <1>1, <2>1, HorizonIsLater
  <2>4. AddDate(in.asOf, y, 0, 0) <= End(in)
    <3>1. CASE y = Years
      BY <1>1, <1>3, <3>1
    <3>2. CASE y < Years
      BY <1>1, <1>3, <2>2, <2>3, <3>2
    <3> QED
      BY <1>1, <3>1, <3>2
  <2> QED
    BY <1>1, <1>4, <2>2, <2>4
<1>6. Years \in 1..Years
  BY <1>1
<1>7. End(in) \in {a.date : a \in Yearly(in)}
  <2>1. [year |-> Years, date |-> AddDate(in.asOf, Years, 0, 0)] \in Yearly(in)
    BY <1>2, <1>6
  <2> QED
    BY <1>1, <2>1
<1>9. in.asOf < End(in)
  BY <1>1, <1>5, <1>6
<1> QED
  BY <1>1, <1>2, <1>3, <1>5, <1>7, <1>9

LEMMA SpanOfMonth ==
  ASSUME NEW in, Fits(in), NEW k \in Months(in)
  PROVE  /\ k \in Int /\ MonthOf(in.asOf) <= k
         /\ MonthStart(k) \in Int /\ MonthStart(k + 1) \in Int /\ MonthStart(k) < End(in)
         /\ MonthStart(k + 1) - MonthStart(k) \in 28..31
         /\ MonthEnd(k) = MonthStart(k + 1) - 1
         /\ Begin(in, k) = (IF MonthStart(k) > in.asOf THEN MonthStart(k) ELSE in.asOf) /\ Begin(in, k) \in Int
         /\ Stop(End(in), k) = (IF MonthStart(k + 1) < End(in) THEN MonthStart(k + 1) ELSE End(in)) /\ Stop(End(in), k) \in Int
         /\ CutsOf(in, k) \subseteq (in.asOf + 1)..End(in)
         /\ \A d \in CutsOf(in, k) : /\ d \in Int /\ MonthStart(k) < d /\ d <= MonthStart(k + 1)
                                     /\ Begin(in, k) < d
<1>1. in.asOf \in Int /\ End(in) \in Int
  BY HorizonFacts
<1>2. k \in Int /\ MonthOf(in.asOf) <= k /\ MonthStart(k) < End(in)
  BY <1>1, MonthOfDay DEF Months
<1>3. /\ MonthStart(k) \in Int /\ MonthStart(k + 1) \in Int
      /\ MonthStart(k + 1) - MonthStart(k) \in 28..31
  BY <1>2, MonthFacts
<1>4. /\ Begin(in, k) = (IF MonthStart(k) > in.asOf THEN MonthStart(k) ELSE in.asOf)
      /\ Stop(End(in), k) = (IF MonthStart(k + 1) < End(in) THEN MonthStart(k + 1) ELSE End(in))
  BY <1>1 DEF Begin, Later, Stop, Earlier
<1>5. Begin(in, k) \in Int /\ Stop(End(in), k) \in Int
  BY <1>1, <1>3, <1>4
<1>6. ASSUME NEW d \in CutsOf(in, k)
      PROVE  d \in Int
  <2>1. d \in {Stop(End(in), k), MonthEnd(k)} \cup {a.date : a \in Yearly(in)} \cup {e.date : e \in in.events}
    BY DEF CutsOf, Cuts
  <2>2. \A a \in Yearly(in) : a.date \in Int
    BY HorizonFacts
  <2>3. \A e \in in.events : e.date \in Int
    BY HorizonFacts
  <2>4. MonthEnd(k) \in Int
    BY <1>3 DEF MonthEnd
  <2> QED
    BY <1>5, <2>1, <2>2, <2>3, <2>4
<1>7. ASSUME NEW d \in CutsOf(in, k)
      PROVE  /\ d \in Int /\ MonthStart(k) < d /\ d <= MonthStart(k + 1)
             /\ Begin(in, k) < d /\ d \in (in.asOf + 1)..End(in)
  <2>1. d \in Int /\ Begin(in, k) < d /\ d <= Stop(End(in), k)
    BY <1>6 DEF CutsOf
  <2> QED
    BY <1>1, <1>3, <1>4, <2>1
<1> QED
  BY <1>2, <1>3, <1>4, <1>5, <1>7 DEF MonthEnd

\* Every day up to the horizon belongs to one month of it.
LEMMA MonthOfPoint ==
  ASSUME NEW in, Fits(in), NEW d \in Int, in.asOf < d, d <= End(in)
  PROVE  \E k \in Months(in) : /\ Begin(in, k) < d /\ d <= Stop(End(in), k)
                               /\ k = MonthOf(d - 1)
<1> DEFINE k == MonthOf(d - 1)
<1>1. in.asOf \in Int /\ End(in) \in Int /\ d - 1 \in Int /\ in.asOf <= d - 1 /\ d - 1 <= End(in)
  BY HorizonFacts
<1>2. MonthOf(in.asOf) \in Int /\ MonthOf(End(in)) \in Int /\ k \in Int /\ MonthStart(k) <= d - 1 /\ d - 1 < MonthStart(k + 1)
  BY <1>1, MonthOfDay
<1>3. MonthOf(in.asOf) <= k /\ k <= MonthOf(End(in))
  BY <1>1, MonthOfOrder
<1>4. MonthStart(k) \in Int /\ MonthStart(k + 1) \in Int
  BY <1>2, MonthFacts
<1> HIDE DEF k
<1>5. k \in Months(in)
  BY <1>1, <1>2, <1>3, <1>4 DEF Months
<1>6. Begin(in, k) < d /\ d <= Stop(End(in), k)
  BY <1>1, <1>2, <1>4, <1>5, SpanOfMonth
<1> QED
  BY <1>5, <1>6 DEF k

LEMMA OneMonth ==
  ASSUME NEW in, Fits(in), NEW j \in Months(in), NEW k \in Months(in), j < k, NEW c \in CutsOf(in, j), NEW d \in CutsOf(in, k)
  PROVE  c <= MonthStart(k) /\ c < d
<1>1. /\ j \in Int /\ k \in Int /\ c \in Int /\ d \in Int /\ c <= MonthStart(j + 1) /\ MonthStart(k) < d
      /\ MonthStart(j + 1) \in Int /\ MonthStart(k) \in Int
  BY SpanOfMonth
<1>2. MonthStart(j + 1) <= MonthStart(k)
  BY <1>1, MonthOrder
<1> QED
  BY <1>1, <1>2

\* A day on which something happens is cut off.
LEMMA CutDays ==
  ASSUME NEW in, Fits(in)
  PROVE  /\ PointDays(in) \subseteq (in.asOf + 1)..End(in) /\ IsFiniteSet(PointDays(in)) /\ End(in) \in PointDays(in)
         /\ \A y \in 1..Years : AddDate(in.asOf, y, 0, 0) \in PointDays(in)
         /\ \A e \in in.events : e.date \in PointDays(in)
         /\ \A d \in MonthEnds(in.asOf, End(in)) : \E k \in Months(in) : d \in CutsOf(in, k) /\ d = MonthEnd(k)
         /\ \A k \in Months(in) : MonthEnd(k) \in CutsOf(in, k) => MonthEnd(k) \in MonthEnds(in.asOf, End(in))
<1>1. in.asOf \in Int /\ End(in) \in Int
  BY HorizonFacts
<1>2. PointDays(in) \subseteq (in.asOf + 1)..End(in)
  BY SpanOfMonth DEF PointDays
<1>3. IsFiniteSet(PointDays(in))
  <2>1. PointDays(in) \in SUBSET ((in.asOf + 1)..End(in)) /\ IsFiniteSet((in.asOf + 1)..End(in))
    BY <1>1, <1>2, FS_Interval
  <2> QED
    BY <2>1, FS_Subset
<1>4. ASSUME NEW d \in {a.date : a \in Yearly(in)} \cup {e.date : e \in in.events}
      PROVE  d \in PointDays(in)
  <2>1. d \in Int /\ in.asOf < d /\ d <= End(in)
    BY <1>4, HorizonFacts
  <2>2. PICK k \in Months(in) : Begin(in, k) < d /\ d <= Stop(End(in), k)
    BY <2>1, MonthOfPoint
  <2> QED
    BY <1>4, <2>2 DEF PointDays, CutsOf, Cuts
<1>5. ASSUME NEW y \in 1..Years
      PROVE  AddDate(in.asOf, y, 0, 0) \in PointDays(in)
  <2>1. [year |-> y, date |-> AddDate(in.asOf, y, 0, 0)] \in Yearly(in)
    BY HorizonFacts
  <2> QED
    BY <1>4, <2>1
<1>6. ASSUME NEW d \in MonthEnds(in.asOf, End(in))
      PROVE  \E k \in Months(in) : d \in CutsOf(in, k) /\ d = MonthEnd(k)
  <2>1. d \in Int /\ in.asOf < d /\ d <= End(in) /\ MonthOf(d + 1) # MonthOf(d)
    BY <1>1 DEF MonthEnds, MonthTurns
  <2> DEFINE k == MonthOf(d)
  <2>2. k \in Int /\ MonthStart(k) <= d /\ d < MonthStart(k + 1)
    BY <2>1, MonthOfDay
  <2>3. MonthStart(k) \in Int /\ MonthStart(k + 1) \in Int /\ MonthStart(k + 1) - MonthStart(k) \in 28..31
    BY <2>2, MonthFacts
  <2>4. d + 1 \in Int /\ ~(MonthStart(k) <= d + 1 /\ d + 1 < MonthStart(k + 1))
    BY <2>1, <2>2, MonthFacts
  <2>5. d = MonthStart(k + 1) - 1
    BY <2>1, <2>2, <2>3, <2>4
  <2>6. d - 1 \in Int /\ MonthStart(k) <= d - 1 /\ d - 1 < MonthStart(k + 1)
    BY <2>1, <2>3, <2>5
  <2>7. MonthOf(d - 1) = k
    BY <2>2, <2>6, MonthFacts
  <2>8. k \in Months(in) /\ Begin(in, k) < d /\ d <= Stop(End(in), k)
    BY <2>1, <2>7, MonthOfPoint
  <2> QED
    BY <2>5, <2>8 DEF CutsOf, Cuts, MonthEnd
<1>7. ASSUME NEW k \in Months(in), MonthEnd(k) \in CutsOf(in, k)
      PROVE  MonthEnd(k) \in MonthEnds(in.asOf, End(in))
  <2> DEFINE d == MonthEnd(k)
  <2>1. /\ d \in (in.asOf + 1)..End(in) /\ d = MonthStart(k + 1) - 1 /\ k \in Int
        /\ MonthStart(k) \in Int /\ MonthStart(k + 1) \in Int /\ MonthStart(k + 1) - MonthStart(k) \in 28..31
    BY <1>7, SpanOfMonth
  <2>2. k + 1 \in Int /\ MonthStart(k + 1 + 1) - MonthStart(k + 1) \in 28..31 /\ MonthStart(k + 1 + 1) \in Int
    BY <2>1, MonthFacts
  <2>3. d + 1 = MonthStart(k + 1) /\ d + 1 \in Int /\ MonthStart(k + 1) <= d + 1 /\ d + 1 < MonthStart(k + 1 + 1)
    BY <2>1, <2>2
  <2>4. d \in Int /\ MonthStart(k) <= d /\ d < MonthStart(k + 1)
    BY <2>1
  <2>5. MonthOf(d + 1) = k + 1 /\ MonthOf(d) = k
    BY <2>1, <2>2, <2>3, <2>4, MonthFacts
  <2> QED
    BY <2>1, <2>5 DEF MonthEnds, MonthTurns
<1> QED
  BY <1>2, <1>3, <1>4, <1>5, <1>6, <1>7, HorizonFacts

\* A point ends the span that the point before it began, or the day of the look.
LEMMA PreviousFacts ==
  ASSUME NEW in, Fits(in), NEW k \in Months(in), NEW d \in CutsOf(in, k)
  PROVE  LET b == Previous(in, k, d)
         IN  /\ b \in Int /\ b < d /\ MonthStart(k) <= b
             /\ b = in.asOf \/ b \in PointDays(in)
             /\ \A x \in PointDays(in) : x < d => x <= b
<1> DEFINE b == Previous(in, k, d)
           M == {Begin(in, k)} \cup {x \in CutsOf(in, k) : x < d}
<1>1. /\ in.asOf \in Int /\ k \in Int /\ MonthStart(k) \in Int /\ MonthStart(k) < End(in) /\ d \in Int /\ Begin(in, k) < d
      /\ Begin(in, k) = (IF MonthStart(k) > in.asOf THEN MonthStart(k) ELSE in.asOf) /\ Begin(in, k) \in Int
      /\ End(in) \in Int /\ MonthOf(in.asOf) <= k
      /\ \A x \in CutsOf(in, k) : x \in Int
  BY HorizonFacts, SpanOfMonth
<1>2. M \subseteq Int /\ M # {} /\ \A x \in M : x < d
  BY <1>1
<1>3. IsFiniteSet(M)
  <2>1. M \in SUBSET (PointDays(in) \cup {Begin(in, k)})
    BY DEF PointDays
  <2>2. IsFiniteSet(PointDays(in) \cup {Begin(in, k)})
    BY CutDays, FS_AddElement
  <2> QED
    BY <2>1, <2>2, FS_Subset
<1>4. b \in M /\ \A x \in M : x <= b
  <2>1. b = Max(M)
    BY DEF Previous
  <2> HIDE DEF M
  <2> QED
    BY <1>2, <1>3, <2>1, MaxFacts
<1>5. b \in Int /\ b < d /\ MonthStart(k) <= b /\ Begin(in, k) <= b
  BY <1>1, <1>2, <1>4
<1>6. MonthStart(k) > in.asOf => MonthStart(k) \in PointDays(in)
  <2>1. SUFFICES ASSUME MonthStart(k) > in.asOf PROVE MonthStart(k) \in PointDays(in)
    OBVIOUS
  <2> DEFINE j == MonthOf(MonthStart(k) - 1)
  <2>2. MonthStart(k) \in Int /\ in.asOf < MonthStart(k) /\ MonthStart(k) <= End(in)
    BY <1>1, <2>1
  <2>3. j \in Months(in) /\ Begin(in, j) < MonthStart(k) /\ MonthStart(k) <= Stop(End(in), j)
    BY <2>2, MonthOfPoint
  <2>4. /\ j \in Int /\ Stop(End(in), j) = (IF MonthStart(j + 1) < End(in) THEN MonthStart(j + 1) ELSE End(in))
        /\ MonthStart(j + 1) \in Int
    BY <2>3, SpanOfMonth
  <2>5. MonthStart(k) - 1 \in Int
    BY <2>2
  <2>6. MonthStart(j) <= MonthStart(k) - 1 /\ MonthStart(k) - 1 < MonthStart(j + 1) /\ MonthStart(j) \in Int
    BY <2>4, <2>5, MonthOfDay, MonthFacts
  <2> HIDE DEF j
  <2>7. ~(k <= j)
    <3>1. CASE k = j
      BY <2>2, <2>6, <3>1
    <3>2. CASE k < j
      <4>1. MonthStart(k + 1) <= MonthStart(j) /\ MonthStart(k + 1) - MonthStart(k) \in 28..31 /\ MonthStart(k + 1) \in Int
        BY <1>1, <2>4, <3>2, MonthOrder, MonthFacts
      <4> QED
        BY <2>2, <2>6, <4>1
    <3> QED
      BY <1>1, <2>4, <3>1, <3>2
  <2>8. MonthStart(j + 1) <= MonthStart(k)
    BY <1>1, <2>4, <2>7, MonthOrder
  <2>9. MonthStart(k) = Stop(End(in), j)
    BY <1>1, <2>2, <2>4, <2>6, <2>8
  <2> QED
    BY <2>3, <2>9 DEF PointDays, CutsOf, Cuts
<1>7. b = in.asOf \/ b \in PointDays(in)
  <2>1. CASE b = Begin(in, k)
    BY <1>1, <1>6, <2>1
  <2>2. CASE b \in CutsOf(in, k)
    BY <2>2 DEF PointDays
  <2> QED
    BY <1>4, <2>1, <2>2
<1>8. ASSUME NEW x \in PointDays(in), x < d
      PROVE  x <= b
  <2>1. PICK j \in Months(in) : x \in CutsOf(in, j)
    BY DEF PointDays
  <2>2. j \in Int /\ x \in Int
    BY <2>1, SpanOfMonth
  <2>3. CASE j = k
    BY <1>4, <1>8, <2>1, <2>3
  <2>4. CASE j < k
    <3>1. x <= MonthStart(k)
      BY <2>1, <2>4, OneMonth
    <3> QED
      BY <1>1, <1>5, <2>2, <3>1
  <2>5. CASE k < j
    <3>1. d < x
      BY <2>1, <2>5, OneMonth
    <3> QED
      BY <1>1, <1>8, <2>2, <3>1
  <2> QED
    BY <1>1, <2>2, <2>3, <2>4, <2>5
<1> QED
  BY <1>5, <1>7, <1>8

\* The points are the cut days in order, each once.
LEMMA PointFacts ==
  ASSUME NEW in, Fits(in)
  PROVE  LET points == Checkpoints(in, Years)  n == Cardinality(PointDays(in))
         IN  /\ n \in Nat /\ n > 0 /\ Len(points) = n /\ DOMAIN points = 1..n
             /\ \A i \in 1..n : \E k \in Months(in) : \E d \in CutsOf(in, k) : points[i] = Point(in, k, d)
             /\ \A i, j \in 1..n : i < j <=> points[i].date < points[j].date
             /\ \A k \in Months(in) : \A d \in CutsOf(in, k) : \E i \in 1..n : points[i] = Point(in, k, d)
             /\ \A i \in 1..n : points[i].date \in PointDays(in) /\ points[i].date \in Int
<1> DEFINE points == Checkpoints(in, Years)
           n == Cardinality(PointDays(in))
           days == InOrder(PointDays(in))
<1>1. IsFiniteSet(PointDays(in)) /\ PointDays(in) \subseteq Int /\ PointDays(in) # {}
  <2>1. in.asOf \in Int /\ End(in) \in Int /\ PointDays(in) \subseteq (in.asOf + 1)..End(in)
    BY CutDays, HorizonFacts
  <2> QED
    BY <2>1, CutDays
<1>2. /\ n \in Nat /\ days \in [1..n -> PointDays(in)]
      /\ \A i, j \in 1..n : i < j <=> days[i] < days[j]
      /\ \A x \in PointDays(in) : \E i \in 1..n : days[i] = x
  BY <1>1, InOrderFacts
<1>3. n > 0
  <2>1. PICK x \in PointDays(in) : TRUE
    BY <1>1
  <2>2. PICK i \in 1..n : days[i] = x
    BY <1>2
  <2> QED
    BY <1>2, <2>2
<1>4. \A k, d : Point(in, k, d).date = d
  BY DEF Point
<1>5. {c.date : c \in Points(in)} = PointDays(in)
  <2>1. ASSUME NEW c \in Points(in)
        PROVE  c.date \in PointDays(in)
    <3>1. PICK k \in Months(in) : c \in {Point(in, k, d) : d \in CutsOf(in, k)}
      BY DEF Points
    <3> QED
      BY <1>4, <3>1 DEF PointDays
  <2>2. ASSUME NEW d \in PointDays(in)
        PROVE  \E c \in Points(in) : c.date = d
    <3>1. PICK k \in Months(in) : d \in CutsOf(in, k)
      BY DEF PointDays
    <3>2. Point(in, k, d) \in Points(in)
      BY <3>1 DEF Points
    <3> QED
      BY <1>4, <3>2
  <2> QED
    BY <2>1, <2>2
<1>6. points = [i \in DOMAIN days |-> CHOOSE c \in Points(in) : c.date = days[i]]
  <2>1. ASSUME NEW k \in Months(in)
        PROVE  MonthPoints(in, Yearly(in), End(in), k) = {Point(in, k, d) : d \in CutsOf(in, k)}
    BY DEF MonthPoints, Point, CutsOf, Previous
  <2>2. UNION {MonthPoints(in, Yearly(in), End(in), k) : k \in Months(in)} = Points(in)
    BY <2>1 DEF Points
  <2>3. Months(in) = {k \in MonthOf(in.asOf)..MonthOf(End(in)) : MonthStart(k) < End(in)}
    BY HorizonFacts DEF Months
  <2>4. points =
          LET ps == UNION {MonthPoints(in, Yearly(in), End(in), k) : k \in {k \in MonthOf(in.asOf)..MonthOf(End(in)) : MonthStart(k) < End(in)}}
              ds == InOrder({c.date : c \in ps})
          IN  [i \in DOMAIN ds |-> CHOOSE c \in ps : c.date = ds[i]]
    BY DEF Checkpoints, Yearly, End
  <2> QED
    BY <1>5, <2>2, <2>3, <2>4
<1> HIDE DEF points, n, days
<1>7. DOMAIN points = 1..n /\ Len(points) = n
  BY <1>2, <1>6
<1>8. ASSUME NEW j \in Months(in), NEW c \in CutsOf(in, j), NEW k \in Months(in), NEW d \in CutsOf(in, k), c = d
      PROVE  Point(in, j, c) = Point(in, k, d)
  <2>1. j \in Int /\ k \in Int /\ c \in Int
    BY SpanOfMonth
  <2>2. ~(j < k) /\ ~(k < j)
    BY <1>8, <2>1, OneMonth
  <2> QED
    BY <1>8, <2>1, <2>2
<1>9. ASSUME NEW k \in Months(in), NEW d \in CutsOf(in, k), NEW i \in 1..n, days[i] = d
      PROVE  points[i] = Point(in, k, d)
  <2>1. Point(in, k, d) \in Points(in) /\ Point(in, k, d).date = days[i]
    BY <1>4, <1>9 DEF Points
  <2> DEFINE c == CHOOSE c \in Points(in) : c.date = days[i]
  <2>2. c \in Points(in) /\ c.date = days[i]
    BY <2>1
  <2>3. points[i] = c
    BY <1>2, <1>6
  <2> HIDE DEF c
  <2>4. PICK j \in Months(in) : \E x \in CutsOf(in, j) : c = Point(in, j, x)
    BY <2>2 DEF Points
  <2>5. PICK x \in CutsOf(in, j) : c = Point(in, j, x)
    BY <2>4
  <2>6. x = d
    BY <1>4, <1>9, <2>2, <2>5
  <2> QED
    BY <1>8, <2>3, <2>5, <2>6
<1>10. ASSUME NEW i \in 1..n
       PROVE  /\ \E k \in Months(in) : \E d \in CutsOf(in, k) : points[i] = Point(in, k, d)
              /\ points[i].date = days[i]
  <2>1. days[i] \in PointDays(in)
    BY <1>2
  <2>2. PICK k \in Months(in) : days[i] \in CutsOf(in, k)
    BY <2>1 DEF PointDays
  <2> QED
    BY <1>4, <1>9, <2>2
<1>11. ASSUME NEW k \in Months(in), NEW d \in CutsOf(in, k)
       PROVE  \E i \in 1..n : points[i] = Point(in, k, d)
  <2>1. d \in PointDays(in)
    BY DEF PointDays
  <2> QED
    BY <1>2, <1>9, <2>1
<1>12. \A i, j \in 1..n : i < j <=> points[i].date < points[j].date
  BY <1>2, <1>10
<1>13. \A i \in 1..n : points[i].date \in PointDays(in) /\ points[i].date \in Int
  BY <1>1, <1>2, <1>10
<1>14. \A i \in 1..n : \E k \in Months(in) : \E d \in CutsOf(in, k) : points[i] = Point(in, k, d)
  BY <1>10
<1> QED
  BY <1>2, <1>3, <1>7, <1>11, <1>12, <1>13, <1>14 DEF points, n

\* Something that is reported on one cut day is reported once.
LEMMA ReportedOnce ==
  ASSUME NEW in, Fits(in), NEW x \in PointDays(in), NEW I,
         I = {i \in 1..Cardinality(PointDays(in)) : Checkpoints(in, Years)[i].date = x}
  PROVE  Cardinality(I) = 1
<1> DEFINE points == Checkpoints(in, Years)
           n == Cardinality(PointDays(in))
<1>1. PICK k \in Months(in) : x \in CutsOf(in, k)
  BY DEF PointDays
<1>2. PICK i \in 1..n : points[i] = Point(in, k, x)
  BY <1>1, PointFacts
<1>3. points[i].date = x
  BY <1>2 DEF Point
<1>4. ASSUME NEW j \in 1..n, points[j].date = x
      PROVE  j = i
  <2>1. ~(i < j) /\ ~(j < i) /\ n \in Nat
    <3>1. ~(points[i].date < points[j].date) /\ ~(points[j].date < points[i].date)
      <4>1. x \in Int
        BY <1>3, PointFacts
      <4> QED
        BY <1>3, <1>4, <4>1
    <3> QED
      BY <3>1, PointFacts
  <2> QED
    BY <2>1
<1> HIDE DEF points, n
<1>5. I = {i}
  BY <1>2, <1>3, <1>4 DEF points, n
<1> QED
  BY <1>5, FS_Singleton

\* What a look takes down is such a snapshot.
LEMMA NowFits ==
  ASSUME ProjectionInv
  PROVE  /\ Fits(Now) /\ Now.asOf = today /\ Now.balance = balance /\ Now.target = target
         /\ Now.savings = plan.savings /\ Now.rates = rates
         /\ End(Now) = AddDate(today, Years, 0, 0) /\ Now.events = CompensationEvents(plan, today, End(Now))
         /\ \A e \in Now.events : e.amount \in Int /\ e.currency \in {"CNY"} \cup Foreign
<1>1. /\ today \in Int /\ Now.asOf = today /\ End(Now) = AddDate(today, Years, 0, 0)
      /\ Now.balance = balance /\ Now.target = target /\ Now.savings = plan.savings /\ Now.rates = rates
      /\ Now.events = CompensationEvents(plan, today, End(Now)) /\ Years \in Nat
  BY DayFacts, ProjectionAssumption DEF ProjectionInv, Now, Snapshot, End, Horizon
<1>2. balance \in Int /\ target \in Int /\ plan.savings \in Int
  BY DEF ProjectionInv, Money, PlanOK
<1>3. End(Now) \in Int
  BY <1>1, HorizonIsLater
<1>4. IsFiniteSet(Now.events) /\ \A e \in Now.events : e.amount \in Int /\ e.currency \in {"CNY"} \cup Foreign
  BY <1>1, <1>3, AmountFacts DEF ProjectionInv, PlanOK
<1>5. \A e \in Now.events : InYuan(Now, e) \in Int
  <2>1. rates \in [Foreign -> Nat]
    BY DEF ProjectionInv, Known, Rates
  <2> QED
    BY <1>1, <1>4, <2>1 DEF InYuan
<1>6. \A e \in Now.events : e.date \in Int /\ today < e.date /\ e.date <= End(Now)
  BY <1>1, <1>3, ComesWithin, BonusDate, BatchDate DEF ProjectionInv, PlanOK
<1> QED
  BY <1>1, <1>2, <1>4, <1>5, <1>6 DEF Fits, End

\* The days a forecast walks along leave no day out and count none twice, whatever the day
\* it starts on, the length of its months and the income that comes meanwhile.
THEOREM CheckpointsExact == Spec => []CheckpointsAreExact
<1>1. ASSUME ProjectionInv
      PROVE  CheckpointsAreExact
  <2> DEFINE points == Checkpoints(Now, Years)
             n == Cardinality(PointDays(Now))
  <2>0. Fits(Now) /\ Now.asOf = today
    BY <1>1, NowFits
  <2>1. /\ n \in Nat /\ n > 0 /\ Len(points) = n /\ DOMAIN points = 1..n
        /\ \A i \in 1..n : \E k \in Months(Now) : \E d \in CutsOf(Now, k) : points[i] = Point(Now, k, d)
        /\ \A i, j \in 1..n : i < j <=> points[i].date < points[j].date
        /\ \A k \in Months(Now) : \A d \in CutsOf(Now, k) : \E i \in 1..n : points[i] = Point(Now, k, d)
        /\ \A i \in 1..n : points[i].date \in PointDays(Now) /\ points[i].date \in Int
    BY <2>0, PointFacts
  <2>2. /\ today \in Int /\ End(Now) \in Int /\ PointDays(Now) \subseteq (today + 1)..End(Now)
        /\ \A x \in PointDays(Now) : x \in Int /\ today < x /\ x <= End(Now)
    BY <2>0, CutDays, HorizonFacts
  <2>3. \A x \in PointDays(Now) : \E i \in 1..n : points[i].date = x
    <3>1. ASSUME NEW x \in PointDays(Now)
          PROVE  \E i \in 1..n : points[i].date = x
      <4>1. PICK k \in Months(Now) : x \in CutsOf(Now, k)
        BY DEF PointDays
      <4>2. PICK i \in 1..n : points[i] = Point(Now, k, x)
        BY <2>1, <4>1
      <4> QED
        BY <4>2 DEF Point
    <3> QED
      BY <3>1
  <2> HIDE DEF points, n
  <2>4. points[n].date = End(Now)
    <3>1. PICK i \in 1..n : points[i].date = End(Now)
      BY <2>0, <2>3, CutDays
    <3>2. n \in 1..n /\ ~(points[i].date < points[n].date)
      BY <2>1, <2>2, <3>1
    <3>3. ~(i < n)
      BY <2>1, <3>2
    <3> QED
      BY <2>1, <3>1, <3>2, <3>3
  <2>5. ASSUME NEW i \in 1..n
        PROVE  /\ points[i].span > 0
               /\ points[i].date - points[i].span = IF i = 1 THEN today ELSE points[i - 1].date
               /\ points[i].date - points[i].span >= MonthStart(points[i].month)
               /\ points[i].date <= MonthStart(points[i].month + 1)
    <3>1. PICK k \in Months(Now) : \E d \in CutsOf(Now, k) : points[i] = Point(Now, k, d)
      BY <2>1
    <3>2. PICK d \in CutsOf(Now, k) : points[i] = Point(Now, k, d)
      BY <3>1
    <3> DEFINE b == Previous(Now, k, d)
    <3>3. points[i].date = d /\ points[i].month = k /\ points[i].span = d - b
      BY <3>2 DEF Point
    <3>4. /\ b \in Int /\ b < d /\ MonthStart(k) <= b
          /\ b = today \/ b \in PointDays(Now)
          /\ \A x \in PointDays(Now) : x < d => x <= b
      BY <2>0, PreviousFacts
    <3>5. d \in Int /\ d <= MonthStart(k + 1) /\ MonthStart(k) \in Int
      BY <2>0, SpanOfMonth
    <3> HIDE DEF b
    <3>6. points[i].date - points[i].span = b
      BY <3>3, <3>4, <3>5
    <3>7. CASE i = 1
      <4>1. SUFFICES ASSUME b \in PointDays(Now) PROVE FALSE
        BY <3>3, <3>4, <3>5, <3>6, <3>7
      <4>2. PICK j \in 1..n : points[j].date = b
        BY <2>3, <4>1
      <4>3. j < i
        BY <2>1, <3>3, <3>4, <4>2
      <4> QED
        BY <3>7, <4>3
    <3>8. CASE i # 1
      <4>1. i - 1 \in 1..n /\ i - 1 < i
        BY <2>1, <3>8
      <4>2. points[i - 1].date \in PointDays(Now) /\ points[i - 1].date < d /\ points[i - 1].date \in Int
        BY <2>1, <3>3, <4>1
      <4>3. points[i - 1].date <= b /\ today < points[i - 1].date
        BY <2>2, <3>4, <4>2
      <4>4. b \in PointDays(Now)
        BY <2>2, <3>4, <4>2, <4>3
      <4>5. PICK j \in 1..n : points[j].date = b
        BY <2>3, <4>4
      <4>6. j < i
        BY <2>1, <3>3, <3>4, <4>5
      <4>7. ~(i - 1 < j)
        BY <2>1, <4>6
      <4>8. ~(points[i - 1].date < points[j].date)
        BY <2>1, <4>1, <4>7
      <4>9. points[i - 1].date = b
        BY <3>4, <4>2, <4>3, <4>5, <4>8
      <4> QED
        BY <3>3, <3>4, <3>5, <3>6, <3>8, <4>9
    <3> QED
      BY <3>3, <3>4, <3>5, <3>6, <3>7, <3>8
  <2>6. ASSUME NEW e \in Now.events
        PROVE  Cardinality({i \in 1..n : points[i].date = e.date /\ e \in points[i].events}) = 1
    <3>1. e.date \in PointDays(Now)
      BY <2>0, CutDays
    <3>2. ASSUME NEW i \in 1..n, points[i].date = e.date
          PROVE  e \in points[i].events
      <4>1. PICK k \in Months(Now) : \E d \in CutsOf(Now, k) : points[i] = Point(Now, k, d)
        BY <2>1
      <4> QED
        BY <3>2, <4>1 DEF Point
    <3>3. {i \in 1..n : points[i].date = e.date /\ e \in points[i].events} = {i \in 1..n : points[i].date = e.date}
      BY <3>2
    <3> QED
      BY <2>0, <3>1, <3>3, ReportedOnce DEF points, n
  <2>7. ASSUME NEW y \in 1..Years
        PROVE  Cardinality({i \in 1..n : y \in points[i].years /\ points[i].date = AddDate(today, y, 0, 0)}) = 1
    <3> DEFINE x == AddDate(today, y, 0, 0)
    <3>1. x \in PointDays(Now)
      BY <2>0, CutDays
    <3>2. ASSUME NEW i \in 1..n, points[i].date = x
          PROVE  y \in points[i].years
      <4>1. PICK k \in Months(Now) : \E d \in CutsOf(Now, k) : points[i] = Point(Now, k, d)
        BY <2>1
      <4>2. points[i].years = {a.year : a \in {a \in Yearly(Now) : a.date = points[i].date}}
        BY <4>1 DEF Point
      <4>3. [year |-> y, date |-> x] \in Yearly(Now)
        BY <2>0, HorizonFacts
      <4> QED
        BY <3>2, <4>2, <4>3
    <3>3. {i \in 1..n : y \in points[i].years /\ points[i].date = x} = {i \in 1..n : points[i].date = x}
      BY <3>2
    <3> QED
      BY <2>0, <3>1, <3>3, ReportedOnce DEF points, n
  <2>8. {c.date : c \in {points[i] : i \in {i \in 1..n : points[i].savings}}} = MonthEnds(today, End(Now))
    <3>1. ASSUME NEW i \in 1..n, points[i].savings
          PROVE  points[i].date \in MonthEnds(today, End(Now))
      <4>1. PICK k \in Months(Now) : \E d \in CutsOf(Now, k) : points[i] = Point(Now, k, d)
        BY <2>1
      <4>2. PICK d \in CutsOf(Now, k) : points[i] = Point(Now, k, d)
        BY <4>1
      <4>3. d = MonthEnd(k) /\ points[i].date = d
        BY <3>1, <4>2, PointField
      <4> QED
        BY <2>0, <4>3, CutDays
    <3>2. ASSUME NEW d \in MonthEnds(today, End(Now))
          PROVE  \E i \in 1..n : points[i].savings /\ points[i].date = d
      <4>1. PICK k \in Months(Now) : d \in CutsOf(Now, k) /\ d = MonthEnd(k)
        BY <2>0, CutDays
      <4>2. PICK i \in 1..n : points[i] = Point(Now, k, d)
        BY <2>1, <4>1
      <4> QED
        BY <4>1, <4>2, PointField
    <3> QED
      BY <3>1, <3>2
  <2>9. Horizon(Now, Years) = End(Now)
    BY DEF End
  <2>10. Len(points) = n /\ DOMAIN points = 1..n
    BY <2>1
  <2> QED
    BY <2>4, <2>5, <2>6, <2>7, <2>8, <2>9, <2>10 DEF CheckpointsAreExact, points
<1> QED
  BY <1>1, ProjectionHolds, PTL
=============================================================================
