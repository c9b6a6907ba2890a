---------------------------- MODULE ForecastSafety ----------------------------
(***************************************************************************)
(* Proofs about what a forecast reports, for any plan, markets and number  *)
(* of paths: the money it counts is the money that comes, its date is the  *)
(* middle of the days on which its paths get there, and the first day on   *)
(* target where nothing grows.  Each walk is followed point by point; the  *)
(* invariant of a walk says what it has seen of the points up to here.     *)
(***************************************************************************)
EXTENDS ProjectionSafety

-----------------------------------------------------------------------------
(* The points of a forecast *)

Line(in) == Checkpoints(in, Years)
Stops(in) == Cardinality(PointDays(in))
Day(in, i) == IF i = 0 THEN in.asOf ELSE Line(in)[i].date
YearDay(in, y) == AddDate(in.asOf, y, 0, 0)
ThisMonth(in) == MonthEnd(MonthOf(in.asOf))

\* A cut day belongs to one month.
LEMMA MonthOfCut ==
  ASSUME NEW in, Fits(in), NEW j \in Months(in), NEW k \in Months(in), NEW d \in CutsOf(in, j), d \in CutsOf(in, k)
  PROVE  j = k
<1>1. j \in Int /\ k \in Int /\ d \in Int
  BY SpanOfMonth
<1>2. ~(j < k) /\ ~(k < j)
  BY <1>1, OneMonth
<1> QED
  BY <1>1, <1>2

LEMMA ThisMonthCut ==
  ASSUME NEW in, Fits(in)
  PROVE  /\ ThisMonth(in) \in Int /\ in.asOf <= ThisMonth(in) /\ ThisMonth(in) <= End(in)
         /\ \A k \in Months(in) : ThisMonth(in) \in CutsOf(in, k) => k = MonthOf(in.asOf) /\ ThisMonth(in) = MonthEnd(k)
<1> DEFINE m == MonthOf(in.asOf)
<1>1. in.asOf \in Int /\ End(in) \in Int /\ in.asOf < End(in)
  BY HorizonFacts
<1>2. m \in Int /\ MonthStart(m) <= in.asOf /\ in.asOf < MonthStart(m + 1)
  BY <1>1, MonthOfDay
<1>3. MonthStart(m) \in Int /\ MonthStart(m + 1) \in Int
  BY <1>2, MonthFacts
<1>4. ThisMonth(in) = MonthStart(m + 1) - 1
  BY DEF ThisMonth, MonthEnd
<1> HIDE DEF m
<1>5. ThisMonth(in) \in Int /\ in.asOf <= ThisMonth(in)
  BY <1>1, <1>2, <1>3, <1>4
<1>6. ThisMonth(in) <= End(in)
  <2>1. End(in) = MonthStart(m + 12 * Years) + (in.asOf - MonthStart(m))
    <3>1. End(in) = MonthStart(m + 12 * Years + 0) + (in.asOf - MonthStart(m)) + 0
      BY <1>1 DEF End, Horizon, AddDate, m
    <3>2. Years \in Nat /\ m + 12 * Years + 0 = m + 12 * Years /\ m + 12 * Years \in Int
      BY <1>2, ProjectionAssumption
    <3>3. MonthStart(m + 12 * Years) \in Int
      BY <3>2, MonthFacts
    <3> QED
      BY <1>1, <1>3, <3>1, <3>2, <3>3
  <2>2. m < m + 12 * Years /\ m + 12 * Years \in Int
    BY <1>2, ProjectionAssumption
  <2>3. MonthStart(m + 1) <= MonthStart(m + 12 * Years) /\ MonthStart(m + 12 * Years) \in Int
    BY <1>2, <2>2, MonthOrder, MonthFacts
  <2> QED
    BY <1>1, <1>2, <1>3, <1>4, <2>1, <2>3
<1>7. ASSUME NEW k \in Months(in), ThisMonth(in) \in CutsOf(in, k)
      PROVE  k = m
  <2>1. /\ k \in Int /\ MonthStart(k) < ThisMonth(in) /\ ThisMonth(in) <= MonthStart(k + 1)
        /\ MonthStart(k) \in Int /\ MonthStart(k + 1) \in Int /\ MonthOf(in.asOf) <= k
    BY <1>7, SpanOfMonth
  <2>2. m <= k
    BY <2>1 DEF m
  <2>3. ~(m < k)
    <3>1. m < k => MonthStart(m + 1) <= MonthStart(k)
      BY <1>2, <2>1, MonthOrder
    <3> QED
      BY <1>3, <1>4, <2>1, <3>1
  <2> QED
    BY <1>2, <2>1, <2>2, <2>3
<1> QED
  BY <1>5, <1>6, <1>7 DEF m, ThisMonth

\* The points name the cut days in order, and what each of these days brings.
LEMMA LineFacts ==
  ASSUME NEW in, Fits(in)
  PROVE  /\ Stops(in) \in Nat /\ Len(Line(in)) = Stops(in) /\ Stops(in) > 0 /\ Day(in, Stops(in)) = End(in)
         /\ \A i \in 0..Stops(in) : Day(in, i) \in Int /\ in.asOf <= Day(in, i) /\ Day(in, i) <= End(in)
         /\ \A i, j \in 0..Stops(in) : i < j <=> Day(in, i) < Day(in, j)
         /\ \A x \in PointDays(in) : \E i \in 1..Stops(in) : Day(in, i) = x
         /\ \A i \in 1..Stops(in) : /\ Line(in)[i].date = Day(in, i) /\ Line(in)[i].month \in Int
                                    /\ Line(in)[i].events = {e \in in.events : e.date = Day(in, i)}
                                    /\ Line(in)[i].years = {y \in 1..Years : YearDay(in, y) = Day(in, i)}
                                    /\ Line(in)[i].savings <=> Day(in, i) \in MonthEnds(in.asOf, End(in))
                                    /\ Line(in)[i].report <=> Day(in, i) = ThisMonth(in)
<1>1. /\ Stops(in) \in Nat /\ Stops(in) > 0 /\ Len(Line(in)) = Stops(in) /\ DOMAIN Line(in) = 1..Stops(in)
      /\ \A i \in 1..Stops(in) : \E k \in Months(in) : \E d \in CutsOf(in, k) : Line(in)[i] = Point(in, k, d)
      /\ \A i, j \in 1..Stops(in) : i < j <=> Line(in)[i].date < Line(in)[j].date
      /\ \A k \in Months(in) : \A d \in CutsOf(in, k) : \E i \in 1..Stops(in) : Line(in)[i] = Point(in, k, d)
      /\ \A i \in 1..Stops(in) : Line(in)[i].date \in PointDays(in) /\ Line(in)[i].date \in Int
  BY PointFacts DEF Line, Stops
<1>2. /\ in.asOf \in Int /\ End(in) \in Int /\ in.asOf < End(in) /\ PointDays(in) \subseteq (in.asOf + 1)..End(in) /\ End(in) \in PointDays(in)
      /\ Yearly(in) = {[year |-> y, date |-> YearDay(in, y)] : y \in 1..Years}
  BY CutDays, HorizonFacts DEF YearDay
<1>3. ASSUME NEW i \in 1..Stops(in)
      PROVE  /\ Day(in, i) = Line(in)[i].date /\ Day(in, i) \in PointDays(in) /\ Day(in, i) \in Int
             /\ in.asOf < Day(in, i) /\ Day(in, i) <= End(in)
  <2>1. Day(in, i) = Line(in)[i].date
    BY DEF Day
  <2> QED
    BY <1>1, <1>2, <2>1
<1>4. Day(in, 0) = in.asOf
  BY DEF Day
<1>5. ASSUME NEW i \in 0..Stops(in)
      PROVE  Day(in, i) \in Int /\ in.asOf <= Day(in, i) /\ Day(in, i) <= End(in)
  <2>1. i = 0 \/ i \in 1..Stops(in)
    BY <1>1
  <2> QED
    BY <1>2, <1>3, <1>4, <2>1
<1>6. ASSUME NEW i \in 0..Stops(in), NEW j \in 0..Stops(in)
      PROVE  i < j <=> Day(in, i) < Day(in, j)
  <2>1. (i = 0 \/ i \in 1..Stops(in)) /\ (j = 0 \/ j \in 1..Stops(in))
    BY <1>1
  <2>2. CASE i \in 1..Stops(in) /\ j \in 1..Stops(in)
    <3>1. Day(in, i) = Line(in)[i].date /\ Day(in, j) = Line(in)[j].date
      BY <1>3, <2>2
    <3>2. i < j <=> Line(in)[i].date < Line(in)[j].date
      BY <1>1, <2>2
    <3> QED
      BY <3>1, <3>2
  <2>3. CASE i = 0 \/ j = 0
    BY <1>2, <1>3, <1>4, <2>1, <2>3
  <2> QED
    BY <2>1, <2>2, <2>3
<1>7. ASSUME NEW x \in PointDays(in)
      PROVE  \E i \in 1..Stops(in) : Day(in, i) = x
  <2>1. PICK k \in Months(in) : x \in CutsOf(in, k)
    BY DEF PointDays
  <2>2. PICK i \in 1..Stops(in) : Line(in)[i] = Point(in, k, x)
    BY <1>1, <2>1
  <2> QED
    BY <1>3, <2>2, PointField
<1>8. Day(in, Stops(in)) = End(in)
  <2>1. PICK i \in 1..Stops(in) : Day(in, i) = End(in)
    BY <1>2, <1>7
  <2>2. Stops(in) \in 0..Stops(in) /\ i \in 0..Stops(in) /\ ~(i < Stops(in))
    BY <1>1, <1>2, <1>5, <1>6, <2>1
  <2> QED
    BY <1>1, <2>1, <2>2
<1>9. ASSUME NEW i \in 1..Stops(in)
      PROVE  /\ Line(in)[i].month \in Int
             /\ Line(in)[i].events = {e \in in.events : e.date = Day(in, i)}
             /\ Line(in)[i].years = {y \in 1..Years : YearDay(in, y) = Day(in, i)}
             /\ Line(in)[i].savings <=> Day(in, i) \in MonthEnds(in.asOf, End(in))
             /\ Line(in)[i].report <=> Day(in, i) = ThisMonth(in)
  <2>1. PICK k \in Months(in) : \E d \in CutsOf(in, k) : Line(in)[i] = Point(in, k, d)
    BY <1>1
  <2>2. PICK d \in CutsOf(in, k) : Line(in)[i] = Point(in, k, d)
    BY <2>1
  <2>3. Day(in, i) = d
    BY <1>3, <2>2, PointField
  <2>4. /\ Line(in)[i].savings <=> d = MonthEnd(k)
        /\ Line(in)[i].report <=> d = MonthEnd(k) /\ k = MonthOf(in.asOf)
    <3>1. /\ Point(in, k, d).savings <=> d = MonthEnd(k)
          /\ Point(in, k, d).report <=> d = MonthEnd(k) /\ k = MonthOf(in.asOf)
      BY Zenon DEF Point
    <3> QED
      BY <1>2, <2>2, <3>1
  <2>a. Line(in)[i].month = k /\ Line(in)[i].events = {e \in in.events : e.date = d}
    BY <2>2 DEF Point
  <2>5. Line(in)[i].years = {y \in 1..Years : YearDay(in, y) = d}
    <3>1. Line(in)[i].years = {a.year : a \in {a \in Yearly(in) : a.date = d}}
      BY <2>2 DEF Point
    <3>2. ASSUME NEW y \in Line(in)[i].years
          PROVE  y \in 1..Years /\ YearDay(in, y) = d
      BY <1>2, <3>1
    <3>3. ASSUME NEW y \in 1..Years, YearDay(in, y) = d
          PROVE  y \in Line(in)[i].years
      <4>1. [year |-> y, date |-> YearDay(in, y)] \in Yearly(in)
        BY <1>2
      <4> QED
        BY <3>1, <3>3, <4>1
    <3> QED
      BY <3>2, <3>3
  <2>6. Line(in)[i].savings <=> d \in MonthEnds(in.asOf, End(in))
    <3>1. d = MonthEnd(k) => d \in MonthEnds(in.asOf, End(in))
      BY CutDays
    <3>2. ASSUME d \in MonthEnds(in.asOf, End(in))
          PROVE  d = MonthEnd(k)
      <4>1. PICK j \in Months(in) : d \in CutsOf(in, j) /\ d = MonthEnd(j)
        BY <3>2, CutDays
      <4> QED
        BY <4>1, MonthOfCut
    <3> QED
      BY <2>4, <3>1, <3>2
  <2>7. Line(in)[i].report <=> d = ThisMonth(in)
    <3>1. d = ThisMonth(in) => k = MonthOf(in.asOf) /\ d = MonthEnd(k)
      BY ThisMonthCut
    <3>2. k = MonthOf(in.asOf) => ThisMonth(in) = MonthEnd(k)
      BY DEF ThisMonth
    <3> QED
      BY <2>4, <3>1, <3>2
  <2>8. k \in Int
    BY SpanOfMonth
  <2> QED
    BY <2>3, <2>a, <2>5, <2>6, <2>7, <2>8
<1> QED
  BY <1>1, <1>3, <1>5, <1>6, <1>7, <1>8, <1>9

\* No cut day lies between a point and the one before it.
LEMMA Between ==
  ASSUME NEW in, Fits(in), NEW i \in 1..Stops(in), NEW x \in PointDays(in), x <= Day(in, i)
  PROVE  x <= Day(in, i - 1) \/ x = Day(in, i)
<1>1. i \in 0..Stops(in) /\ i - 1 \in 0..Stops(in)
  BY LineFacts
<1>2. PICK j \in 1..Stops(in) : Day(in, j) = x
  BY LineFacts
<1>3. j \in 0..Stops(in) /\ x \in Int /\ Day(in, i) \in Int
  BY <1>1, <1>2, LineFacts
<1>4. ~(Day(in, i) < x) /\ ~(i < j)
  BY <1>1, <1>2, <1>3, LineFacts
<1>5. j = i \/ j = i - 1 \/ j < i - 1
  BY <1>4
<1>6. Day(in, i - 1) \in Int
  BY <1>1, LineFacts
<1> QED
  BY <1>1, <1>2, <1>3, <1>5, <1>6, LineFacts

LEMMA MonthEndIsPoint ==
  ASSUME NEW in, Fits(in), NEW d \in MonthEnds(in.asOf, End(in))
  PROVE  d \in PointDays(in)
<1>1. PICK k \in Months(in) : d \in CutsOf(in, k)
  BY CutDays
<1> QED
  BY <1>1 DEF PointDays

LEMMA ThisMonthIsPoint ==
  ASSUME NEW in, Fits(in), in.asOf < ThisMonth(in)
  PROVE  ThisMonth(in) \in PointDays(in)
<1> DEFINE m == MonthOf(in.asOf)
<1>1. in.asOf \in Int /\ End(in) \in Int /\ ThisMonth(in) \in Int /\ ThisMonth(in) <= End(in)
  BY HorizonFacts, ThisMonthCut
<1>2. m \in Int /\ MonthStart(m) <= in.asOf
  BY <1>1, MonthOfDay
<1>3. /\ MonthStart(m) \in Int /\ MonthStart(m + 1) \in Int /\ m + 1 \in Int
      /\ MonthStart(m + 1 + 1) - MonthStart(m + 1) \in 28..31 /\ MonthStart(m + 1 + 1) \in Int
  BY <1>2, MonthFacts
<1>4. ThisMonth(in) = MonthStart(m + 1) - 1
  BY DEF ThisMonth, MonthEnd
<1> HIDE DEF m
<1>5. /\ MonthStart(m) <= ThisMonth(in) /\ ThisMonth(in) < MonthStart(m + 1)
      /\ ThisMonth(in) + 1 \in Int /\ MonthStart(m + 1) <= ThisMonth(in) + 1 /\ ThisMonth(in) + 1 < MonthStart(m + 1 + 1)
  BY <1>1, <1>2, <1>3, <1>4
<1>6. MonthOf(ThisMonth(in)) = m /\ MonthOf(ThisMonth(in) + 1) = m + 1
  BY <1>1, <1>2, <1>3, <1>5, MonthFacts
<1>7. ThisMonth(in) \in MonthEnds(in.asOf, End(in))
  BY <1>1, <1>2, <1>6 DEF MonthEnds, MonthTurns
<1> QED
  BY <1>7, MonthEndIsPoint

-----------------------------------------------------------------------------
(* The money that has come by a day *)

Amount(in) == [e \in in.events |-> InYuan(in, e)]
ComeBy(in, d) == {e \in in.events : e.date <= d}
Cash(in, d) == Total(Amount(in), ComeBy(in, d)) + in.savings * Cardinality(MonthEnds(in.asOf, d))

LEMMA EventFacts ==
  ASSUME NEW in, Fits(in)
  PROVE  /\ in.asOf \in Int /\ IsFiniteSet(in.events) /\ DOMAIN Amount(in) = in.events
         /\ \A e \in in.events : /\ Amount(in)[e] \in Int /\ Amount(in)[e] = InYuan(in, e)
                                 /\ e.date \in Int /\ in.asOf < e.date /\ e.date \in PointDays(in)
BY CutDays DEF Fits, Amount

LEMMA SumOfTotal ==
  ASSUME NEW in, Fits(in), NEW E \in SUBSET in.events
  PROVE  SumOf(in, E) = Total(Amount(in), E)
<1> DEFINE f == [e \in E |-> InYuan(in, e)]
<1>1. IsFiniteSet(E)
  BY EventFacts, FS_Subset
<1>2. DOMAIN f = E /\ \A e \in E : f[e] = Amount(in)[e]
  BY DEF Amount
<1>3. SumOf(in, E) = SumFunction(f)
  BY DEF SumOf
<1> HIDE DEF f
<1>4. SumOf(in, E) = Total(f, E)
  BY <1>2, <1>3 DEF SumFunction, Total
<1> QED
  BY <1>1, <1>2, <1>4, TotalSame

LEMMA CashType ==
  ASSUME NEW in, Fits(in), NEW d \in Int
  PROVE  /\ Cash(in, d) \in Int /\ ComeBy(in, d) \in SUBSET in.events /\ in.savings \in Int
         /\ Total(Amount(in), ComeBy(in, d)) \in Int /\ Cardinality(MonthEnds(in.asOf, d)) \in Nat
         /\ IsFiniteSet(MonthEnds(in.asOf, d))
<1>1. ComeBy(in, d) \in SUBSET in.events
  BY DEF ComeBy
<1>2. Total(Amount(in), ComeBy(in, d)) \in Int
  BY <1>1, EventFacts, TotalFacts
<1>3. Cardinality(MonthEnds(in.asOf, d)) \in Nat /\ IsFiniteSet(MonthEnds(in.asOf, d))
  BY EventFacts, MonthEndsFacts
<1>4. in.savings \in Int
  BY DEF Fits
<1> QED
  BY <1>1, <1>2, <1>3, <1>4 DEF Cash

\* What arrives on a point is what comes after the point before it.
LEMMA CashStep ==
  ASSUME NEW in, Fits(in)
  PROVE  /\ Cash(in, in.asOf) = 0
         /\ \A i \in 1..Stops(in) : /\ Cash(in, Day(in, i)) = Cash(in, Day(in, i - 1)) + Arriving(in, Line(in)[i])
                                    /\ Arriving(in, Line(in)[i]) \in Int
<1>1. Cash(in, in.asOf) = 0
  <2>1. ComeBy(in, in.asOf) = {}
    BY EventFacts DEF ComeBy
  <2>2. MonthEnds(in.asOf, in.asOf) = {}
    BY EventFacts DEF MonthEnds
  <2>3. Total(Amount(in), ComeBy(in, in.asOf)) = 0
    BY <2>1, EventFacts, TotalFacts
  <2>4. in.savings \in Int
    BY EventFacts, CashType
  <2> QED
    BY <2>2, <2>3, <2>4, FS_EmptySet DEF Cash
<1>2. ASSUME NEW i \in 1..Stops(in)
      PROVE  /\ Cash(in, Day(in, i)) = Cash(in, Day(in, i - 1)) + Arriving(in, Line(in)[i])
             /\ Arriving(in, Line(in)[i]) \in Int
  <2> DEFINE c == Day(in, i - 1)
             d == Day(in, i)
             new == {e \in in.events : e.date = d}
  <2>1. i \in 0..Stops(in) /\ i - 1 \in 0..Stops(in) /\ i - 1 < i
    BY LineFacts
  <2>2. c \in Int /\ d \in Int /\ in.asOf <= c /\ c < d /\ d <= End(in)
    BY <2>1, LineFacts
  <2>3. \A x \in PointDays(in) : x <= d => x <= c \/ x = d
    BY Between
  <2>4. ComeBy(in, d) = ComeBy(in, c) \cup new /\ ComeBy(in, c) \cap new = {} /\ new \in SUBSET in.events
    <3>1. \A e \in in.events : e.date \in Int /\ e.date \in PointDays(in)
      BY EventFacts
    <3> QED
      BY <2>2, <2>3, <3>1 DEF ComeBy
  <2> HIDE DEF new
  <2>5. Total(Amount(in), ComeBy(in, d)) = Total(Amount(in), ComeBy(in, c)) + Total(Amount(in), new) /\ Total(Amount(in), new) \in Int
    <3>1. ComeBy(in, c) \in SUBSET in.events
      BY <2>2, CashType
    <3>2. Total(Amount(in), ComeBy(in, c) \cup new) = Total(Amount(in), ComeBy(in, c)) + Total(Amount(in), new)
      BY <2>4, <3>1, EventFacts, TotalParts
    <3>3. Total(Amount(in), new) \in Int
      BY <2>4, EventFacts, TotalFacts
    <3> QED
      BY <2>4, <3>2, <3>3
  <2>6. /\ d \in MonthEnds(in.asOf, End(in)) => MonthEnds(in.asOf, d) = MonthEnds(in.asOf, c) \cup {d}
        /\ d \notin MonthEnds(in.asOf, End(in)) => MonthEnds(in.asOf, d) = MonthEnds(in.asOf, c)
        /\ d \notin MonthEnds(in.asOf, c)
    <3>1. ASSUME NEW x \in MonthEnds(in.asOf, d), x # d
          PROVE  x \in MonthEnds(in.asOf, c)
      <4>1. x \in Int /\ in.asOf < x /\ x <= d /\ MonthTurns(x) /\ in.asOf \in Int /\ End(in) \in Int
        BY <2>2, EventFacts, HorizonFacts DEF MonthEnds
      <4>2. x \in MonthEnds(in.asOf, End(in))
        BY <2>2, <4>1 DEF MonthEnds
      <4>3. x \in PointDays(in)
        BY <4>2, MonthEndIsPoint
      <4>4. x <= c
        BY <2>3, <3>1, <4>1, <4>3
      <4> QED
        BY <2>2, <4>1, <4>4 DEF MonthEnds
    <3>2. in.asOf \in Int /\ End(in) \in Int
      BY HorizonFacts
    <3>3. MonthEnds(in.asOf, c) \subseteq MonthEnds(in.asOf, d) /\ d \notin MonthEnds(in.asOf, c)
      BY <2>2, <3>2 DEF MonthEnds
    <3>4. d \in MonthEnds(in.asOf, End(in)) <=> d \in MonthEnds(in.asOf, d)
      <4>1. in.asOf < d
        BY <2>2, <3>2
      <4> QED
        BY <2>2, <3>2, <4>1 DEF MonthEnds
    <3> QED
      BY <3>1, <3>3, <3>4
  <2> DEFINE saved == IF d \in MonthEnds(in.asOf, End(in)) THEN in.savings ELSE 0
  <2>7. /\ in.savings * Cardinality(MonthEnds(in.asOf, d)) = in.savings * Cardinality(MonthEnds(in.asOf, c)) + saved
        /\ saved \in Int
    <3>1. IsFiniteSet(MonthEnds(in.asOf, c)) /\ Cardinality(MonthEnds(in.asOf, c)) \in Nat /\ in.savings \in Int
      BY <2>2, CashType
    <3>2. CASE d \in MonthEnds(in.asOf, End(in))
      <4>1. Cardinality(MonthEnds(in.asOf, d)) = Cardinality(MonthEnds(in.asOf, c)) + 1
        BY <2>6, <3>1, <3>2, FS_AddElement
      <4> DEFINE n == Cardinality(MonthEnds(in.asOf, c))
      <4>2. n \in Int
        BY <3>1
      <4> HIDE DEF n
      <4>3. in.savings * (n + 1) = in.savings * n + in.savings
        BY <3>1, <4>2
      <4> QED
        BY <3>1, <3>2, <4>1, <4>3 DEF n
    <3>3. CASE d \notin MonthEnds(in.asOf, End(in))
      <4>1. MonthEnds(in.asOf, d) = MonthEnds(in.asOf, c) /\ saved = 0
        BY <2>6, <3>3
      <4>2. in.savings * Cardinality(MonthEnds(in.asOf, c)) \in Int
        BY <3>1
      <4> QED
        BY <4>1, <4>2
    <3> QED
      BY <3>2, <3>3
  <2>8. Arriving(in, Line(in)[i]) = Total(Amount(in), new) + saved
    <3>1. Line(in)[i].events = new /\ (Line(in)[i].savings <=> d \in MonthEnds(in.asOf, End(in)))
      BY LineFacts DEF new
    <3>2. SumOf(in, new) = Total(Amount(in), new)
      BY <2>4, SumOfTotal
    <3> QED
      BY <3>1, <3>2 DEF Arriving
  <2> HIDE DEF saved
  <2>9. /\ Total(Amount(in), ComeBy(in, c)) \in Int
        /\ in.savings * Cardinality(MonthEnds(in.asOf, c)) \in Int
    BY <2>2, CashType
  <2>10. Cash(in, d) = Cash(in, c) + (Total(Amount(in), new) + saved)
    <3>1. Cash(in, d) = Total(Amount(in), ComeBy(in, d)) + in.savings * Cardinality(MonthEnds(in.asOf, d))
      BY DEF Cash
    <3>2. Cash(in, c) = Total(Amount(in), ComeBy(in, c)) + in.savings * Cardinality(MonthEnds(in.asOf, c))
      BY DEF Cash
    <3> QED
      BY <2>5, <2>7, <2>9, <3>1, <3>2
  <2> QED
    BY <2>5, <2>7, <2>8, <2>10
<1> QED
  BY <1>1, <1>2

-----------------------------------------------------------------------------
(* The walk of a path *)

Along(in, level, points, n, at) ==
  at = [i \in 0..n |-> IF i = 0 THEN SetOut(in) ELSE Onward(in, level, at[i - 1], points[i])]

LEMMA AlongAt ==
  ASSUME NEW in, NEW level, NEW points, NEW n \in Nat, NEW at, Along(in, level, points, n, at)
  PROVE  at[0] = SetOut(in) /\ \A i \in 1..n : at[i] = Onward(in, level, at[i - 1], points[i])
<1>1. at = [i \in 0..n |-> IF i = 0 THEN SetOut(in) ELSE Onward(in, level, at[i - 1], points[i])]
  BY DEF Along
<1>2. 0 \in 0..n /\ \A i \in 1..n : i \in 0..n /\ i # 0
  OBVIOUS
<1> QED
  BY <1>1, <1>2

LEMMA AlongExists ==
  ASSUME NEW in, NEW level, NEW points, NEW n \in Nat
  PROVE  \E at : Along(in, level, points, n, at)
<1> DEFINE P == {m \in 0..n : \E at : Along(in, level, points, m, at)}
<1>1. 0 \in P
  <2> DEFINE at == [i \in 0..0 |-> SetOut(in)]
  <2>1. at = [i \in 0..0 |-> IF i = 0 THEN SetOut(in) ELSE Onward(in, level, at[i - 1], points[i])]
    <3> DEFINE after(i) == IF i = 0 THEN SetOut(in) ELSE Onward(in, level, at[i - 1], points[i])
    <3>1. \A i \in 0..0 : after(i) = SetOut(in)
      OBVIOUS
    <3> HIDE DEF after
    <3>2. at = [i \in 0..0 |-> after(i)]
      BY <3>1
    <3> QED
      BY <3>2 DEF after
  <2> HIDE DEF at
  <2> QED
    BY <2>1 DEF Along
<1>2. ASSUME NEW m \in 0..n, m < n, m \in P
      PROVE  m + 1 \in P
  <2>1. PICK f : Along(in, level, points, m, f)
    BY <1>2
  <2>2. f[0] = SetOut(in) /\ \A i \in 1..m : f[i] = Onward(in, level, f[i - 1], points[i])
    BY <2>1, AlongAt
  <2> DEFINE at == [i \in 0..m + 1 |-> IF i <= m THEN f[i] ELSE Onward(in, level, f[m], points[m + 1])]
             after(i) == IF i = 0 THEN SetOut(in) ELSE Onward(in, level, at[i - 1], points[i])
  <2>3. at = [i \in 0..m + 1 |-> at[i]] /\ DOMAIN at = 0..m + 1
    OBVIOUS
  <2>4. /\ \A i \in 0..m : at[i] = f[i]
        /\ at[m + 1] = Onward(in, level, f[m], points[m + 1])
    OBVIOUS
  <2> HIDE DEF at
  <2>5. ASSUME NEW i \in 0..m + 1
        PROVE  at[i] = after(i)
    <3>1. CASE i = 0
      BY <2>2, <2>4, <3>1
    <3>2. CASE i \in 1..m
      <4>1. i - 1 \in 0..m /\ i \in 0..m /\ i # 0
        BY <3>2
      <4> QED
        BY <2>2, <2>4, <3>2, <4>1
    <3>3. CASE i = m + 1
      <4>1. m \in 0..m /\ i # 0 /\ i - 1 = m
        BY <3>3
      <4> QED
        BY <2>4, <3>3, <4>1
    <3>4. i = 0 \/ i \in 1..m \/ i = m + 1
      OBVIOUS
    <3> QED
      BY <3>1, <3>2, <3>3, <3>4
  <2> HIDE DEF after
  <2>6. at = [i \in 0..m + 1 |-> after(i)]
    BY <2>3, <2>5
  <2>7. Along(in, level, points, m + 1, at)
    BY <2>6 DEF Along, after
  <2> QED
    BY <1>2, <2>7
<1> HIDE DEF P
<1>3. 0..n \subseteq P
  BY <1>1, <1>2, UpTo
<1>4. n \in P
  BY <1>3
<1> QED
  BY <1>4 DEF P

Follows(in, level, points, at) ==
  /\ at[0] = SetOut(in)
  /\ \A i \in 1..Len(points) : at[i] = Onward(in, level, at[i - 1], points[i])
  /\ Walk(in, level, points) = at[Len(points)]

LEMMA WalkSteps ==
  ASSUME NEW in, NEW level, NEW points, Len(points) \in Nat
  PROVE  \E at : Follows(in, level, points, at)
<1> DEFINE n == Len(points)
           at == CHOOSE at : Along(in, level, points, n, at)
<1>1. Along(in, level, points, n, at)
  BY AlongExists
<1>2. Walk(in, level, points) = at[n]
  BY Zenon DEF Walk, Along
<1> HIDE DEF at, n
<1>3. at[0] = SetOut(in) /\ \A i \in 1..n : at[i] = Onward(in, level, at[i - 1], points[i])
  BY <1>1, AlongAt DEF n
<1>4. Follows(in, level, points, at)
  BY <1>2, <1>3 DEF n, Follows
<1> QED
  BY <1>4

Levels == [1..2 -> Int]

\* What a path has at a point, and whether that is enough.
Value(in, level, i) == Cash(in, Day(in, i)) + in.balance * level[(Line(in)[i].month % 2) + 1]
OnTarget(in, level, i) == in.target > 0 /\ (IF i = 0 THEN in.balance ELSE Value(in, level, i)) >= in.target

LEMMA ValueType ==
  ASSUME NEW in, Fits(in), NEW level \in Levels, NEW i \in 1..Stops(in)
  PROVE  Value(in, level, i) \in Int
<1>1. i \in 0..Stops(in) /\ Day(in, i) \in Int /\ Line(in)[i].month \in Int
  BY LineFacts
<1>2. Cash(in, Day(in, i)) \in Int
  BY <1>1, CashType
<1>3. (Line(in)[i].month % 2) + 1 \in 1..2
  BY <1>1
<1>4. level[(Line(in)[i].month % 2) + 1] \in Int /\ in.balance \in Int
  BY <1>3 DEF Levels, Fits
<1> DEFINE l == level[(Line(in)[i].month % 2) + 1]
<1> HIDE DEF l
<1>5. Cash(in, Day(in, i)) + in.balance * l \in Int
  BY <1>2, <1>4 DEF l
<1> QED
  BY <1>5 DEF Value, l

\* What a step from a point to the next does to the walk w.
Steps(in, level, i, w, next) ==
  /\ next.cash = Cash(in, Day(in, i))
  /\ next.hit = IF w.hit = Never /\ OnTarget(in, level, i) THEN Day(in, i) ELSE w.hit
  /\ \A y \in 1..Years : YearDay(in, y) = Day(in, i) =>
       next.years[y] = [cash |-> Cash(in, Day(in, i)), value |-> Value(in, level, i)]
  /\ \A y \in DOMAIN w.years : y \notin Line(in)[i].years => next.years[y] = w.years[y]
  /\ DOMAIN next.years = DOMAIN w.years \cup Line(in)[i].years
  /\ next.month = IF Day(in, i) = ThisMonth(in) THEN Cash(in, Day(in, i)) ELSE w.month

LEMMA StepFacts ==
  ASSUME NEW in, Fits(in), NEW level \in Levels, NEW i \in 1..Stops(in), NEW w, w.cash = Cash(in, Day(in, i - 1))
  PROVE  Steps(in, level, i, w, Onward(in, level, w, Line(in)[i]))
<1> DEFINE next == Onward(in, level, w, Line(in)[i])
           cash == w.cash + Arriving(in, Line(in)[i])
           value == cash + in.balance * level[(Line(in)[i].month % 2) + 1]
<1>1. cash = Cash(in, Day(in, i))
  BY CashStep
<1>3. value = Value(in, level, i)
  BY <1>1 DEF Value
<1>4. /\ Line(in)[i].date = Day(in, i) /\ Line(in)[i].years = {y \in 1..Years : YearDay(in, y) = Day(in, i)}
      /\ (Line(in)[i].report <=> Day(in, i) = ThisMonth(in))
  BY LineFacts
<1>5. /\ next.cash = cash
      /\ next.hit = IF w.hit = Never /\ in.target > 0 /\ value >= in.target THEN Line(in)[i].date ELSE w.hit
      /\ next.years = [y \in DOMAIN w.years \cup Line(in)[i].years |->
                         IF y \in Line(in)[i].years THEN [cash |-> cash, value |-> value] ELSE w.years[y]]
      /\ next.month = IF Line(in)[i].report THEN cash ELSE w.month
  BY DEF Onward
<1> HIDE DEF next, cash, value
<1>6. i # 0
  OBVIOUS
<1>7. next.hit = IF w.hit = Never /\ OnTarget(in, level, i) THEN Day(in, i) ELSE w.hit
  BY <1>3, <1>4, <1>5, <1>6 DEF OnTarget
<1>8. /\ \A y \in 1..Years : YearDay(in, y) = Day(in, i) =>
           next.years[y] = [cash |-> Cash(in, Day(in, i)), value |-> Value(in, level, i)]
      /\ \A y \in DOMAIN w.years : y \notin Line(in)[i].years => next.years[y] = w.years[y]
      /\ DOMAIN next.years = DOMAIN w.years \cup Line(in)[i].years
  BY <1>1, <1>3, <1>4, <1>5
<1>9. next.month = IF Day(in, i) = ThisMonth(in) THEN Cash(in, Day(in, i)) ELSE w.month
  BY <1>1, <1>4, <1>5
<1> QED
  BY <1>1, <1>5, <1>7, <1>8, <1>9 DEF next, Steps

Walked(in, level, at) ==
  at[0] = SetOut(in) /\ \A i \in 1..Stops(in) : at[i] = Onward(in, level, at[i - 1], Line(in)[i])

LEMMA WalkedCash ==
  ASSUME NEW in, Fits(in), NEW level \in Levels, NEW at, Walked(in, level, at)
  PROVE  \A i \in 0..Stops(in) : at[i].cash = Cash(in, Day(in, i))
<1> DEFINE P == {i \in 0..Stops(in) : at[i].cash = Cash(in, Day(in, i))}
<1>0. Stops(in) \in Nat
  BY LineFacts
<1>1. 0 \in P
  <2>1. at[0].cash = 0
    BY DEF Walked, SetOut
  <2>2. Cash(in, Day(in, 0)) = 0
    BY CashStep DEF Day
  <2> QED
    BY <1>0, <2>1, <2>2
<1>2. ASSUME NEW i \in 0..Stops(in), i < Stops(in), i \in P
      PROVE  i + 1 \in P
  <2>1. i + 1 \in 1..Stops(in) /\ i + 1 \in 0..Stops(in) /\ (i + 1) - 1 = i
    BY <1>0, <1>2
  <2> DEFINE j == i + 1
  <2> HIDE DEF j
  <2>2. j \in 1..Stops(in) /\ at[j - 1].cash = Cash(in, Day(in, j - 1)) /\ at[j] = Onward(in, level, at[j - 1], Line(in)[j])
    BY <1>2, <2>1 DEF Walked, j
  <2> DEFINE w == at[j - 1]
  <2> HIDE DEF w
  <2>a. j \in 1..Stops(in) /\ w.cash = Cash(in, Day(in, j - 1))
    BY <2>2 DEF w
  <2>b. Steps(in, level, j, w, Onward(in, level, w, Line(in)[j]))
    BY <2>a, StepFacts
  <2>c. Onward(in, level, w, Line(in)[j]).cash = Cash(in, Day(in, j))
    BY <2>b DEF Steps
  <2>3. at[j].cash = Cash(in, Day(in, j))
    BY <2>2, <2>c DEF w
  <2> QED
    BY <2>1, <2>3 DEF j
<1> HIDE DEF P
<1>3. 0..Stops(in) \subseteq P
  BY <1>0, <1>1, <1>2, UpTo
<1> QED
  BY <1>3 DEF P

\* The first point on target is the hit.
LEMMA WalkedHit ==
  ASSUME NEW in, Fits(in), NEW level \in Levels, NEW at, Walked(in, level, at)
  PROVE  LET first(i) == /\ at[Stops(in)].hit = Day(in, i) /\ OnTarget(in, level, i)
                         /\ \A j \in 0..Stops(in) : j < i => ~OnTarget(in, level, j)
         IN  \/ at[Stops(in)].hit = Never /\ \A i \in 0..Stops(in) : ~OnTarget(in, level, i)
             \/ \E i \in 0..Stops(in) : first(i)
<1> DEFINE first(k, i) == /\ at[k].hit = Day(in, i) /\ OnTarget(in, level, i)
                          /\ \A j \in 0..Stops(in) : j < i => ~OnTarget(in, level, j)
           fact(k) == \/ at[k].hit = Never /\ \A i \in 0..k : ~OnTarget(in, level, i)
                      \/ \E i \in 0..k : first(k, i)
           P == {k \in 0..Stops(in) : fact(k)}
<1>0. Stops(in) \in Nat
  BY LineFacts
<1>1. 0 \in P
  <2>1. at[0].hit = IF OnTarget(in, level, 0) THEN Day(in, 0) ELSE Never
    BY DEF Walked, SetOut, OnTarget, Day
  <2> QED
    BY <1>0, <2>1
<1>2. ASSUME NEW k \in 0..Stops(in), k < Stops(in), k \in P
      PROVE  k + 1 \in P
  <2> DEFINE n == k + 1
  <2>1. n \in 1..Stops(in) /\ n \in 0..Stops(in) /\ n - 1 = k /\ \A i \in 0..n : i \in 0..k \/ i = n
    BY <1>0, <1>2
  <2> HIDE DEF n
  <2>2. at[n].hit = IF at[k].hit = Never /\ OnTarget(in, level, n) THEN Day(in, n) ELSE at[k].hit
    <3>1. at[n - 1].cash = Cash(in, Day(in, n - 1)) /\ at[n] = Onward(in, level, at[n - 1], Line(in)[n])
      BY <2>1, WalkedCash DEF Walked
    <3> DEFINE w == at[n - 1]
    <3> HIDE DEF w
    <3>2. n \in 1..Stops(in) /\ w.cash = Cash(in, Day(in, n - 1))
      BY <2>1, <3>1 DEF w
    <3>3. Steps(in, level, n, w, Onward(in, level, w, Line(in)[n]))
      BY <3>2, StepFacts
    <3>4. Onward(in, level, w, Line(in)[n]).hit = IF w.hit = Never /\ OnTarget(in, level, n) THEN Day(in, n) ELSE w.hit
      BY <3>3 DEF Steps
    <3> QED
      BY <2>1, <3>1, <3>4 DEF w
  <2>3. CASE at[k].hit = Never /\ \A i \in 0..k : ~OnTarget(in, level, i)
    <3>1. CASE OnTarget(in, level, n)
      <4>1. \A j \in 0..Stops(in) : j < n => j \in 0..k
        BY <1>0, <2>1
      <4>2. first(n, n) /\ n \in 0..n
        BY <2>1, <2>2, <2>3, <3>1, <4>1
      <4> QED
        BY <2>1, <4>2 DEF n
    <3>2. CASE ~OnTarget(in, level, n)
      <4>1. at[n].hit = Never /\ \A i \in 0..n : ~OnTarget(in, level, i)
        BY <2>1, <2>2, <2>3, <3>2
      <4> QED
        BY <2>1, <4>1 DEF n
    <3> QED
      BY <3>1, <3>2
  <2>4. CASE \E i \in 0..k : first(k, i)
    <3>1. PICK i \in 0..k : first(k, i)
      BY <2>4
    <3>2. Day(in, i) # Never
      BY <3>1, <1>2, LineFacts, ForecastAssumption
    <3>3. at[n].hit = Day(in, i) /\ i \in 0..n
      BY <2>1, <2>2, <3>1, <3>2
    <3>4. first(n, i)
      BY <3>1, <3>3
    <3> QED
      BY <2>1, <3>3, <3>4 DEF n
  <2> QED
    BY <1>2, <2>3, <2>4
<1> HIDE DEF P
<1>3. 0..Stops(in) \subseteq P
  BY <1>0, <1>1, <1>2, UpTo
<1>4. Stops(in) \in P
  BY <1>0, <1>3
<1> QED
  BY <1>4 DEF P

\* A year is reported on its day, and stays as it was reported.
LEMMA WalkedYears ==
  ASSUME NEW in, Fits(in), NEW level \in Levels, NEW at, Walked(in, level, at)
  PROVE  \A y \in 1..Years : \E i \in 1..Stops(in) :
           /\ Day(in, i) = YearDay(in, y)
           /\ at[Stops(in)].years[y] = [cash |-> Cash(in, Day(in, i)), value |-> Value(in, level, i)]
<1> DEFINE said(k, y) == \E i \in 1..Stops(in) : /\ Day(in, i) = YearDay(in, y) /\ y \in DOMAIN at[k].years
                                                 /\ at[k].years[y] = [cash |-> Cash(in, Day(in, i)), value |-> Value(in, level, i)]
           P == {k \in 0..Stops(in) : \A y \in 1..Years : YearDay(in, y) <= Day(in, k) => said(k, y)}
<1>0. Stops(in) \in Nat /\ \A y \in 1..Years : YearDay(in, y) \in Int /\ in.asOf < YearDay(in, y) /\ YearDay(in, y) <= End(in) /\ YearDay(in, y) \in PointDays(in)
  BY LineFacts, HorizonFacts, CutDays DEF YearDay
<1>1. 0 \in P
  <2>1. Day(in, 0) = in.asOf /\ in.asOf \in Int
    BY HorizonFacts DEF Day
  <2>2. \A y \in 1..Years : ~(YearDay(in, y) <= Day(in, 0))
    BY <1>0, <2>1
  <2> QED
    BY <1>0, <2>2
<1>2. ASSUME NEW k \in 0..Stops(in), k < Stops(in), k \in P
      PROVE  k + 1 \in P
  <2> DEFINE n == k + 1
             w == at[n - 1]
             next == Onward(in, level, w, Line(in)[n])
  <2>1. n \in 1..Stops(in) /\ n \in 0..Stops(in) /\ n - 1 = k
    BY <1>0, <1>2
  <2> HIDE DEF n
  <2>2. w.cash = Cash(in, Day(in, n - 1)) /\ at[n] = next /\ w = at[k]
    BY <2>1, WalkedCash DEF Walked
  <2> HIDE DEF w
  <2>3. /\ \A y \in 1..Years : YearDay(in, y) = Day(in, n) =>
             next.years[y] = [cash |-> Cash(in, Day(in, n)), value |-> Value(in, level, n)]
        /\ \A y \in DOMAIN w.years : y \notin Line(in)[n].years => next.years[y] = w.years[y]
        /\ DOMAIN next.years = DOMAIN w.years \cup Line(in)[n].years
    BY <2>1, <2>2, StepFacts DEF Steps
  <2> HIDE DEF next
  <2>4. Line(in)[n].years = {y \in 1..Years : YearDay(in, y) = Day(in, n)}
    BY <2>1, LineFacts
  <2>5. ASSUME NEW y \in 1..Years, YearDay(in, y) <= Day(in, n)
        PROVE  said(n, y)
    <3>1. CASE YearDay(in, y) = Day(in, n)
      <4>1. y \in DOMAIN next.years /\ next.years[y] = [cash |-> Cash(in, Day(in, n)), value |-> Value(in, level, n)]
        BY <2>3, <2>4, <3>1
      <4> QED
        BY <2>1, <2>2, <3>1, <4>1
    <3>2. CASE YearDay(in, y) # Day(in, n)
      <4>1. YearDay(in, y) <= Day(in, k)
        BY <1>0, <2>1, <2>5, <3>2, Between
      <4>2. PICK i \in 1..Stops(in) : /\ Day(in, i) = YearDay(in, y) /\ y \in DOMAIN w.years
                                      /\ w.years[y] = [cash |-> Cash(in, Day(in, i)), value |-> Value(in, level, i)]
        BY <1>2, <2>2, <4>1
      <4>3. y \in DOMAIN next.years /\ next.years[y] = w.years[y]
        BY <2>3, <2>4, <3>2, <4>2
      <4> QED
        BY <2>2, <4>2, <4>3
    <3> QED
      BY <3>1, <3>2
  <2> QED
    BY <2>1, <2>5 DEF n
<1> HIDE DEF P
<1>3. 0..Stops(in) \subseteq P
  BY <1>0, <1>1, <1>2, UpTo
<1>4. Stops(in) \in P
  BY <1>0, <1>3
<1>5. \A y \in 1..Years : YearDay(in, y) <= Day(in, Stops(in))
  BY <1>0, LineFacts
<1> HIDE DEF said
<1>6. \A y \in 1..Years : said(Stops(in), y)
  BY <1>4, <1>5 DEF P
<1> QED
  BY <1>6 DEF said

LEMMA WalkedMonth ==
  ASSUME NEW in, Fits(in), NEW level \in Levels, NEW at, Walked(in, level, at)
  PROVE  at[Stops(in)].month = Cash(in, ThisMonth(in))
<1> DEFINE P == {k \in 0..Stops(in) : at[k].month = IF ThisMonth(in) <= Day(in, k) THEN Cash(in, ThisMonth(in)) ELSE 0}
<1>0. /\ Stops(in) \in Nat /\ ThisMonth(in) \in Int /\ in.asOf \in Int /\ in.asOf <= ThisMonth(in) /\ ThisMonth(in) <= End(in)
      /\ Day(in, 0) = in.asOf
  BY LineFacts, ThisMonthCut, HorizonFacts DEF Day
<1>1. 0 \in P
  <2>1. at[0].month = 0
    BY DEF Walked, SetOut
  <2>2. ThisMonth(in) <= Day(in, 0) => ThisMonth(in) = in.asOf
    BY <1>0
  <2>3. Cash(in, in.asOf) = 0
    BY CashStep
  <2> QED
    BY <1>0, <2>1, <2>2, <2>3
<1>2. ASSUME NEW k \in 0..Stops(in), k < Stops(in), k \in P
      PROVE  k + 1 \in P
  <2> DEFINE n == k + 1
             w == at[n - 1]
             next == Onward(in, level, w, Line(in)[n])
  <2>1. n \in 1..Stops(in) /\ n \in 0..Stops(in) /\ n - 1 = k
    BY <1>0, <1>2
  <2> HIDE DEF n
  <2>2. w.cash = Cash(in, Day(in, n - 1)) /\ at[n] = next /\ w = at[k]
    BY <2>1, WalkedCash DEF Walked
  <2> HIDE DEF w
  <2>a. n \in 1..Stops(in) /\ w.cash = Cash(in, Day(in, n - 1))
    BY <2>1, <2>2
  <2>b. Steps(in, level, n, w, next)
    BY <2>a, StepFacts
  <2>3. next.month = IF Day(in, n) = ThisMonth(in) THEN Cash(in, Day(in, n)) ELSE w.month
    BY <2>b DEF Steps
  <2> HIDE DEF next
  <2>4. Day(in, n) \in Int /\ Day(in, k) \in Int /\ in.asOf <= Day(in, k) /\ Day(in, k) < Day(in, n)
    BY <1>2, <2>1, LineFacts
  <2>5. ASSUME ThisMonth(in) <= Day(in, n), ThisMonth(in) # Day(in, n)
        PROVE  ThisMonth(in) <= Day(in, k)
    <3>1. CASE ThisMonth(in) = in.asOf
      BY <2>4, <3>1
    <3>2. CASE in.asOf < ThisMonth(in)
      BY <2>1, <2>5, <3>2, ThisMonthIsPoint, Between
    <3> QED
      BY <1>0, <3>1, <3>2
  <2>6. w.month = IF ThisMonth(in) <= Day(in, k) THEN Cash(in, ThisMonth(in)) ELSE 0
    BY <1>2, <2>2
  <2>7. next.month = IF ThisMonth(in) <= Day(in, n) THEN Cash(in, ThisMonth(in)) ELSE 0
    BY <1>0, <2>3, <2>4, <2>5, <2>6
  <2> QED
    BY <2>1, <2>2, <2>7 DEF n
<1> HIDE DEF P
<1>3. 0..Stops(in) \subseteq P
  BY <1>0, <1>1, <1>2, UpTo
<1>4. Stops(in) \in P
  BY <1>0, <1>3
<1> QED
  BY <1>0, <1>4, LineFacts DEF P

-----------------------------------------------------------------------------
(* What is shown *)

WalkOf(in, p) == Walk(in, market[p], Line(in))

\* What a path of a forecast is known to have done.
LEMMA PathFacts ==
  ASSUME NEW in, Fits(in), market \in Markets, NEW p \in 1..Paths
  PROVE  /\ market[p] \in Levels
         /\ \A y \in 1..Years : \E i \in 1..Stops(in) :
              /\ Day(in, i) = YearDay(in, y)
              /\ WalkOf(in, p).years[y] = [cash |-> Cash(in, Day(in, i)), value |-> Value(in, market[p], i)]
         /\ WalkOf(in, p).month = Cash(in, ThisMonth(in))
         /\ \/ WalkOf(in, p).hit = Never /\ \A i \in 0..Stops(in) : ~OnTarget(in, market[p], i)
            \/ \E i \in 0..Stops(in) : /\ WalkOf(in, p).hit = Day(in, i) /\ OnTarget(in, market[p], i)
                                       /\ \A j \in 0..Stops(in) : j < i => ~OnTarget(in, market[p], j)
<1> DEFINE level == market[p]
<1>1. level \in Levels
  BY DEF Markets, Levels
<1> HIDE DEF level
<1>2. Len(Line(in)) = Stops(in) /\ Stops(in) \in Nat
  BY LineFacts
<1>3. PICK at : Follows(in, level, Line(in), at)
  BY <1>2, WalkSteps
<1>4. Walked(in, level, at) /\ WalkOf(in, p) = at[Stops(in)]
  BY <1>2, <1>3 DEF Follows, Walked, WalkOf, level
<1>5. /\ \A y \in 1..Years : \E i \in 1..Stops(in) :
           Day(in, i) = YearDay(in, y) /\ at[Stops(in)].years[y] = [cash |-> Cash(in, Day(in, i)), value |-> Value(in, level, i)]
      /\ at[Stops(in)].month = Cash(in, ThisMonth(in))
  BY <1>1, <1>4, WalkedYears, WalkedMonth
<1>6. \/ at[Stops(in)].hit = Never /\ \A i \in 0..Stops(in) : ~OnTarget(in, level, i)
      \/ \E i \in 0..Stops(in) : /\ at[Stops(in)].hit = Day(in, i) /\ OnTarget(in, level, i)
                                 /\ \A j \in 0..Stops(in) : j < i => ~OnTarget(in, level, j)
  BY <1>1, <1>4, WalkedHit
<1> QED
  BY <1>1, <1>4, <1>5, <1>6 DEF level

Walks(in) == [p \in 1..Paths |-> WalkOf(in, p)]

\* A forecast that is shown was simulated, and every rate it needs is known.
LEMMA ShownFacts ==
  ASSUME ProjectionInv, shown.state = "ready"
  PROVE  /\ shown.date = RetirementDate(Walks(Now))
         /\ shown.series = [y \in 1..Years |-> YearReport(Now, Walks(Now), y)]
         /\ shown.month = Walks(Now)[1].month
         /\ shown.hits = {<<p, Walks(Now)[p].hit>> : p \in 1..Paths}
         /\ \A c \in Needed(Now, Years) : rates[c] # 0
<1>1. shown = ForecastFromSnapshot(Now, Years, market)
  BY DEF ProjectionInv, Look, Now
<1>2. shown = SimulateForecast(Now, Years, market)
  <2>1. \/ shown = SimulateForecast(Now, Years, market)
        \/ shown = NoForecast
        \/ \E d : shown = [NoForecast EXCEPT !.state = "partial", !.date = d]
    BY <1>1, Zenon DEF ForecastFromSnapshot
  <2>2. shown # NoForecast
    BY DEF NoForecast
  <2>3. \A d : [NoForecast EXCEPT !.state = "partial", !.date = d].state = "partial"
    BY DEF NoForecast
  <2> QED
    BY <2>1, <2>2, <2>3
<1>3. SimulateForecast(Now, Years, market) # NoForecast
  BY <1>2 DEF NoForecast
<1>4. Now.rates = rates
  BY DEF Now, Snapshot
<1>5. /\ Possible(Now, Years)
      /\ shown = [state |-> "ready", date |-> RetirementDate(Walks(Now)),
                  series |-> [y \in 1..Years |-> YearReport(Now, Walks(Now), y)], month |-> Walks(Now)[1].month,
                  hits |-> {<<p, Walks(Now)[p].hit>> : p \in 1..Paths}]
  BY <1>2, <1>3, Zenon DEF SimulateForecast, Walks, WalkOf, Line
<1>6. \A c \in Needed(Now, Years) : Now.rates[c] # 0
  BY <1>5 DEF Possible
<1> QED
  BY <1>4, <1>5, <1>6

-----------------------------------------------------------------------------
(* Contributions *)

\* When the rates that are needed are known, a forecast values income as it is paid.
LEMMA WorthKnown ==
  ASSUME ProjectionInv, \A c \in Needed(Now, Years) : rates[c] # 0
  PROVE  \A e \in Now.events : InYuan(Now, e) = InYuanOf(e)
<1> SUFFICES ASSUME NEW e \in Now.events PROVE InYuan(Now, e) = InYuanOf(e)
  OBVIOUS
<1>1. Fits(Now) /\ Now.rates = rates /\ e.currency \in {"CNY"} \cup Foreign
  BY NowFits
<1>2. CASE e.currency = "CNY"
  BY <1>2 DEF InYuan, InYuanOf
<1>3. CASE e.currency # "CNY"
  <2>1. Within(e.date, Now.asOf, Horizon(Now, Years))
    BY <1>1, HorizonFacts DEF Within, End
  <2>2. e.currency \in Needed(Now, Years)
    BY <1>3, <2>1 DEF Needed
  <2>3. rates[e.currency] = Worth[e.currency]
    BY <1>1, <1>3, <2>2 DEF ProjectionInv, Known, Rates
  <2> QED
    BY <1>1, <1>3, <2>3 DEF InYuan, InYuanOf
<1> QED
  BY <1>2, <1>3

\* By a day up to the horizon a forecast that values income as it is paid has received what
\* is paid until then.
LEMMA CashIsReceipts ==
  ASSUME ProjectionInv, NEW in, Fits(in), in.asOf = today, in.savings = plan.savings, in.events = Now.events,
         \A e \in in.events : InYuan(in, e) = InYuanOf(e), NEW d \in Int, today <= d, d <= End(Now)
  PROVE  Cash(in, d) = Receipts(today, d)
<1> DEFINE coming == CompensationEvents(plan, today, d)
           paid == [e \in coming |-> InYuanOf(e)]
<1>1. today \in Int /\ End(Now) \in Int /\ Valid(plan) /\ Dated(plan.grants) /\ PlanOK
  BY NowFits, HorizonFacts DEF ProjectionInv, PlanOK
<1>2. coming = ComeBy(in, d)
  <2> DEFINE all == Bonuses(plan) \cup Batches(plan)
  <2>1. /\ coming = {e \in all : today < e.date /\ e.date <= d}
        /\ CompensationEvents(plan, today, End(Now)) = {e \in all : today < e.date /\ e.date <= End(Now)}
        /\ \A e \in all : e.date \in Int
    BY <1>1, ComesWithin, BonusDate, BatchDate
  <2>2. in.events = CompensationEvents(plan, today, End(Now))
    BY NowFits
  <2> HIDE DEF all, coming
  <2> QED
    BY <1>1, <2>1, <2>2 DEF ComeBy
<1>3. Receipts(today, d) = Total(paid, coming) + plan.savings * Cardinality(MonthEnds(today, d))
  BY <1>1, ReceiptsFacts
<1>4. ComeBy(in, d) \in SUBSET in.events /\ IsFiniteSet(ComeBy(in, d))
  <2>1. ComeBy(in, d) \in SUBSET in.events
    BY CashType
  <2> QED
    BY <2>1, EventFacts, FS_Subset
<1>5. \A e \in ComeBy(in, d) : paid[e] = Amount(in)[e]
  <2>1. \A e \in in.events : Amount(in)[e] = InYuan(in, e)
    BY EventFacts
  <2> QED
    BY <1>2, <1>4, <2>1
<1> HIDE DEF paid
<1>6. Total(paid, ComeBy(in, d)) = Total(Amount(in), ComeBy(in, d))
  BY <1>4, <1>5, TotalSame
<1> QED
  BY <1>2, <1>3, <1>6 DEF Cash

\* For every plan, day, balance and market: what a forecast says will have come is what
\* is paid, to the day, for every year and for this month.
THEOREM ContributionsHold == Spec => []ContributionsAddUp
<1>1. ASSUME ProjectionInv, shown.state = "ready"
      PROVE  /\ \A y \in 1..Years : shown.series[y].cash = Receipts(today, shown.series[y].date)
             /\ shown.month = Receipts(today, MonthEnd(MonthOf(today)))
  <2>0. Fits(Now) /\ Now.asOf = today /\ market \in Markets
    BY <1>1, NowFits DEF ProjectionInv, Money
  <2>1. 1 \in 1..Paths
    BY ForecastAssumption
  <2>2. /\ shown.series = [y \in 1..Years |-> YearReport(Now, Walks(Now), y)] /\ shown.month = WalkOf(Now, 1).month
        /\ \A c \in Needed(Now, Years) : rates[c] # 0
    BY <1>1, <2>1, ShownFacts DEF Walks
  <2>a. Now.savings = plan.savings /\ \A e \in Now.events : InYuan(Now, e) = InYuanOf(e)
    BY <1>1, <2>2, NowFits, WorthKnown
  <2>3. ASSUME NEW y \in 1..Years
        PROVE  shown.series[y].cash = Receipts(today, shown.series[y].date)
    <3>1. PICK i \in 1..Stops(Now) : /\ Day(Now, i) = YearDay(Now, y)
                                     /\ WalkOf(Now, 1).years[y] = [cash |-> Cash(Now, Day(Now, i)), value |-> Value(Now, market[1], i)]
      BY <2>0, <2>1, PathFacts
    <3>2. WalkOf(Now, 1).years[y].cash = Cash(Now, YearDay(Now, y))
      BY <3>1
    <3>3. shown.series[y].date = YearDay(Now, y) /\ shown.series[y].cash = WalkOf(Now, 1).years[y].cash
      BY <2>0, <2>1, <2>2, HorizonFacts DEF YearReport, Walks, YearDay
    <3>4. YearDay(Now, y) \in Int /\ today <= YearDay(Now, y) /\ YearDay(Now, y) <= End(Now)
      BY <2>0, <3>1, LineFacts
    <3>5. Cash(Now, YearDay(Now, y)) = Receipts(today, YearDay(Now, y))
      BY <1>1, <2>0, <2>a, <3>4, CashIsReceipts
    <3> QED
      BY <3>2, <3>3, <3>5
  <2>4. shown.month = Cash(Now, ThisMonth(Now))
    BY <2>0, <2>1, <2>2, PathFacts
  <2>5. Cash(Now, ThisMonth(Now)) = Receipts(today, ThisMonth(Now))
    <3>1. ThisMonth(Now) \in Int /\ today <= ThisMonth(Now) /\ ThisMonth(Now) <= End(Now)
      BY <2>0, ThisMonthCut
    <3> QED
      BY <1>1, <2>0, <2>a, <3>1, CashIsReceipts
  <2> QED
    BY <2>0, <2>3, <2>4, <2>5 DEF ThisMonth
<1>2. ProjectionInv => ContributionsAddUp
  BY <1>1 DEF ContributionsAddUp
<1> QED
  BY <1>2, ProjectionHolds, PTL

-----------------------------------------------------------------------------
(* The middle path *)

\* The paths that are not after path p.
UpToPath(hits, p) == {q \in DOMAIN hits : hits[q] < hits[p] \/ (hits[q] = hits[p] /\ q <= p)}

\* Every place is taken by a path: as many paths as the place says are there by its day,
\* fewer before it.
LEMMA PlaceFacts ==
  ASSUME NEW hits, IsFiniteSet(DOMAIN hits), DOMAIN hits \subseteq Int, \A p \in DOMAIN hits : hits[p] \in Int,
         NEW m \in 1..Cardinality(DOMAIN hits)
  PROVE  \E p \in DOMAIN hits : /\ InPlace(hits, m) = hits[p]
                                /\ Cardinality({q \in DOMAIN hits : hits[q] <= hits[p]}) >= m
                                /\ Cardinality({q \in DOMAIN hits : hits[q] < hits[p]}) < m
<1> DEFINE D == DOMAIN hits
           n == Cardinality(D)
           f == [p \in D |-> Place(hits, p)]
<1>0. /\ IsFiniteSet(D) /\ n \in Nat /\ D \subseteq Int /\ \A p \in D : hits[p] \in Int
      /\ \A S \in SUBSET D : IsFiniteSet(S) /\ Cardinality(S) \in Nat /\ Cardinality(S) <= n
  BY FS_CardinalityType, FS_Subset
<1>1. \A p \in D : Place(hits, p) = Cardinality(UpToPath(hits, p)) /\ UpToPath(hits, p) \in SUBSET D
  BY DEF Place, UpToPath
<1> HIDE DEF D, n, f
<1>2. ASSUME NEW p \in D
      PROVE  Place(hits, p) \in 1..n
  <2>1. p \in UpToPath(hits, p)
    BY <1>0 DEF UpToPath, D
  <2>2. Cardinality(UpToPath(hits, p)) # 0
    BY <1>0, <1>1, <2>1, FS_EmptySet
  <2> QED
    BY <1>0, <1>1, <2>2
<1>3. ASSUME NEW p \in D, NEW q \in D, hits[p] < hits[q] \/ (hits[p] = hits[q] /\ p < q)
      PROVE  Place(hits, p) < Place(hits, q)
  <2>1. p \in Int /\ q \in Int /\ hits[p] \in Int /\ hits[q] \in Int
    BY <1>0
  <2>2. ASSUME NEW x \in UpToPath(hits, p)
        PROVE  x \in UpToPath(hits, q)
    <3>1. x \in D /\ x \in Int /\ hits[x] \in Int /\ (hits[x] < hits[p] \/ (hits[x] = hits[p] /\ x <= p))
      BY <1>0 DEF UpToPath, D
    <3>2. hits[x] < hits[q] \/ (hits[x] = hits[q] /\ x <= q)
      BY <1>3, <2>1, <3>1
    <3> QED
      BY <3>1, <3>2 DEF UpToPath, D
  <2>3. q \in UpToPath(hits, q) /\ q \notin UpToPath(hits, p)
    BY <1>3, <2>1 DEF UpToPath, D
  <2>4. UpToPath(hits, p) \in SUBSET UpToPath(hits, q) /\ UpToPath(hits, p) # UpToPath(hits, q)
    BY <2>2, <2>3
  <2>5. Cardinality(UpToPath(hits, p)) <= Cardinality(UpToPath(hits, q))
        /\ Cardinality(UpToPath(hits, p)) # Cardinality(UpToPath(hits, q))
    BY <1>0, <1>1, <2>4, FS_Subset
  <2>6. Cardinality(UpToPath(hits, p)) \in Nat /\ Cardinality(UpToPath(hits, q)) \in Nat
    BY <1>0, <1>1
  <2> QED
    BY <1>1, <2>5, <2>6
<1>4. f \in Injection(D, 1..n)
  <2>1. f \in [D -> 1..n]
    BY <1>2 DEF f
  <2>2. ASSUME NEW p \in D, NEW q \in D, f[p] = f[q]
        PROVE  p = q
    <3>1. /\ p \in Int /\ q \in Int /\ hits[p] \in Int /\ hits[q] \in Int
          /\ Place(hits, p) \in Int /\ Place(hits, q) \in Int /\ Place(hits, p) = Place(hits, q)
      BY <1>0, <1>2, <2>2 DEF f
    <3>2. /\ ~(hits[p] < hits[q] \/ (hits[p] = hits[q] /\ p < q))
          /\ ~(hits[q] < hits[p] \/ (hits[q] = hits[p] /\ q < p))
      BY <1>3, <3>1
    <3> QED
      BY <3>1, <3>2
  <2> QED
    BY <2>1, <2>2 DEF Injection, IsInjective, f
<1>5. \E p \in D : Place(hits, p) = m
  <2>1. IsFiniteSet(1..n) /\ Cardinality(1..n) = n
    BY <1>0, FS_Interval
  <2>2. f \in Surjection(D, 1..n)
    BY <1>0, <1>4, <2>1, FS_Injection DEF n
  <2>3. m \in 1..n
    BY DEF n, D
  <2> QED
    BY <2>2, <2>3 DEF Surjection, f
<1> DEFINE p == CHOOSE p \in D : Place(hits, p) = m
<1>6. p \in D /\ Place(hits, p) = m /\ InPlace(hits, m) = hits[p]
  BY <1>5 DEF InPlace, D
<1> HIDE DEF p
<1>7. Cardinality({q \in D : hits[q] <= hits[p]}) >= m
  <2> DEFINE S == {q \in D : hits[q] <= hits[p]}
  <2>1. UpToPath(hits, p) \in SUBSET S /\ S \in SUBSET D
    BY <1>0, <1>6 DEF UpToPath, D
  <2> HIDE DEF S
  <2>2. IsFiniteSet(S) /\ Cardinality(S) \in Nat
    BY <1>0, <2>1
  <2>3. Cardinality(UpToPath(hits, p)) <= Cardinality(S)
    BY <2>1, <2>2, FS_Subset
  <2> QED
    BY <1>1, <1>6, <2>2, <2>3 DEF S
<1>8. Cardinality({q \in D : hits[q] < hits[p]}) < m
  <2> DEFINE S == {q \in D : hits[q] < hits[p]}
  <2>1. S \in SUBSET UpToPath(hits, p) /\ p \in UpToPath(hits, p) /\ p \notin S
    BY <1>0, <1>6 DEF UpToPath, D
  <2> HIDE DEF S
  <2>2. IsFiniteSet(UpToPath(hits, p)) /\ Cardinality(UpToPath(hits, p)) \in Nat
    BY <1>0, <1>1, <1>6
  <2>3. Cardinality(S) <= Cardinality(UpToPath(hits, p)) /\ Cardinality(S) # Cardinality(UpToPath(hits, p))
    BY <2>1, <2>2, FS_Subset
  <2>4. Cardinality(S) \in Nat
    BY <2>1, <2>2, FS_Subset, FS_CardinalityType
  <2> QED
    BY <1>1, <1>6, <2>2, <2>3, <2>4 DEF S
<1> QED
  BY <1>6, <1>7, <1>8 DEF D

\* Paths are counted one by one.
LEMMA PairsCount ==
  ASSUME NEW S, IsFiniteSet(S), NEW f
  PROVE  Cardinality({<<p, f[p]>> : p \in S}) = Cardinality(S)
<1> DEFINE T == {<<p, f[p]>> : p \in S}
           g == [p \in S |-> <<p, f[p]>>]
<1>1. g \in Surjection(S, T)
  BY DEF Surjection
<1>2. g \in Injection(S, T)
  BY DEF Injection, IsInjective
<1> HIDE DEF T, g
<1>3. Cardinality(T) = Cardinality(S)
  BY <1>1, <1>2, FS_Surjection
<1> QED
  BY <1>3 DEF T

HitPaths(in) == {p \in 1..Paths : WalkOf(in, p).hit # Never}
Hits(in) == [p \in HitPaths(in) |-> WalkOf(in, p).hit]
HitBy(in, d) == {p \in HitPaths(in) : Hits(in)[p] <= d}
Middle == (Paths - 1) \div 2 + 1

LEMMA MiddleFacts ==
  /\ Paths \in Nat /\ Middle \in Nat /\ Middle > 0 /\ Middle = (Paths + 1) \div 2
  /\ 2 * Middle >= Paths /\ \A n \in Nat : n < Middle => 2 * n < Paths
<1>1. Paths \in Nat /\ Paths > 0
  BY ForecastAssumption
<1>2. Middle \in Nat /\ Middle > 0 /\ Middle = (Paths + 1) \div 2 /\ 2 * Middle >= Paths /\ 2 * Middle <= Paths + 1
  BY <1>1 DEF Middle
<1> QED
  BY <1>1, <1>2

LEMMA HitFacts ==
  ASSUME NEW in, Fits(in), market \in Markets
  PROVE  /\ HitPaths(in) \in SUBSET (1..Paths) /\ IsFiniteSet(HitPaths(in)) /\ Cardinality(HitPaths(in)) \in Nat
         /\ DOMAIN Hits(in) = HitPaths(in) /\ \A p \in HitPaths(in) : Hits(in)[p] = WalkOf(in, p).hit /\ Hits(in)[p] \in Int
         /\ \A d : HitBy(in, d) \in SUBSET HitPaths(in) /\ IsFiniteSet(HitBy(in, d)) /\ Cardinality(HitBy(in, d)) \in Nat
<1>1. HitPaths(in) \in SUBSET (1..Paths) /\ IsFiniteSet(1..Paths)
  BY MiddleFacts, FS_Interval DEF HitPaths
<1>2. IsFiniteSet(HitPaths(in)) /\ Cardinality(HitPaths(in)) \in Nat
  BY <1>1, FS_Subset, FS_CardinalityType
<1>3. ASSUME NEW p \in HitPaths(in)
      PROVE  Hits(in)[p] = WalkOf(in, p).hit /\ Hits(in)[p] \in Int
  <2>1. p \in 1..Paths /\ WalkOf(in, p).hit # Never
    BY DEF HitPaths
  <2>2. PICK i \in 0..Stops(in) : WalkOf(in, p).hit = Day(in, i)
    BY <2>1, PathFacts
  <2> QED
    BY <2>2, LineFacts DEF Hits
<1>4. ASSUME NEW d
      PROVE  HitBy(in, d) \in SUBSET HitPaths(in) /\ IsFiniteSet(HitBy(in, d)) /\ Cardinality(HitBy(in, d)) \in Nat
  <2>1. HitBy(in, d) \in SUBSET HitPaths(in)
    BY DEF HitBy
  <2> QED
    BY <1>2, <2>1, FS_Subset, FS_CardinalityType
<1> QED
  BY <1>1, <1>2, <1>3, <1>4 DEF Hits

\* The date is the day by which half of the paths are on target.
LEMMA DateFacts ==
  ASSUME NEW in, Fits(in), market \in Markets
  PROVE  LET r == RetirementDate(Walks(in))
         IN  \/ r = Never /\ 2 * Cardinality(HitPaths(in)) < Paths
             \/ /\ r \in Int /\ r # Never /\ \E p \in HitPaths(in) : r = Hits(in)[p]
                /\ 2 * Cardinality(HitBy(in, r)) >= Paths
                /\ \A d \in Int : d < r => 2 * Cardinality(HitBy(in, d)) < Paths
<1> DEFINE r == RetirementDate(Walks(in))
<1>1. r = IF Cardinality(HitPaths(in)) >= (Paths + 1) \div 2 THEN MiddleHit(Hits(in)) ELSE Never
  <2> DEFINE hits == [p \in {p \in 1..Paths : Walks(in)[p].hit # Never} |-> Walks(in)[p].hit]
  <2>1. r = IF Cardinality(DOMAIN hits) >= (Paths + 1) \div 2 THEN MiddleHit(hits) ELSE Never
    BY DEF RetirementDate
  <2>2. \A p \in 1..Paths : Walks(in)[p] = WalkOf(in, p)
    BY DEF Walks
  <2>3. hits = Hits(in)
    BY <2>2 DEF Hits, HitPaths
  <2>4. DOMAIN hits = HitPaths(in)
    BY <2>3, HitFacts
  <2> HIDE DEF hits
  <2> QED
    BY <2>1, <2>3, <2>4
<1> HIDE DEF r
<1>2. CASE ~(Cardinality(HitPaths(in)) >= (Paths + 1) \div 2)
  <2>1. Cardinality(HitPaths(in)) < Middle
    BY <1>2, MiddleFacts, HitFacts
  <2> QED
    BY <1>1, <1>2, <2>1, MiddleFacts, HitFacts DEF r
<1>3. CASE Cardinality(HitPaths(in)) >= (Paths + 1) \div 2
  <2>1. /\ IsFiniteSet(DOMAIN Hits(in)) /\ DOMAIN Hits(in) \subseteq Int /\ (\A p \in DOMAIN Hits(in) : Hits(in)[p] \in Int)
        /\ DOMAIN Hits(in) = HitPaths(in)
    BY HitFacts
  <2>2. Middle \in 1..Cardinality(DOMAIN Hits(in))
    BY <1>3, <2>1, MiddleFacts, HitFacts
  <2>3. PICK p \in DOMAIN Hits(in) : /\ InPlace(Hits(in), Middle) = Hits(in)[p]
                                     /\ Cardinality({q \in DOMAIN Hits(in) : Hits(in)[q] <= Hits(in)[p]}) >= Middle
                                     /\ Cardinality({q \in DOMAIN Hits(in) : Hits(in)[q] < Hits(in)[p]}) < Middle
    BY <2>1, <2>2, PlaceFacts
  <2>4. r = Hits(in)[p] /\ r \in Int
    BY <1>1, <1>3, <2>1, <2>3 DEF MiddleHit, Middle
  <2>5. 2 * Cardinality(HitBy(in, r)) >= Paths
    <3>1. HitBy(in, r) = {q \in DOMAIN Hits(in) : Hits(in)[q] <= Hits(in)[p]}
      BY <2>1, <2>4 DEF HitBy
    <3>2. Cardinality(HitBy(in, r)) >= Middle /\ Cardinality(HitBy(in, r)) \in Nat
      BY <2>3, <3>1, HitFacts
    <3> QED
      BY <3>2, MiddleFacts
  <2>6. ASSUME NEW d \in Int, d < r
        PROVE  2 * Cardinality(HitBy(in, d)) < Paths
    <3> DEFINE S == {q \in DOMAIN Hits(in) : Hits(in)[q] < Hits(in)[p]}
    <3>1. HitBy(in, d) \in SUBSET S /\ S \in SUBSET HitPaths(in)
      BY <2>1, <2>4, <2>6 DEF HitBy
    <3>2. Cardinality(S) < Middle
      BY <2>3
    <3> HIDE DEF S
    <3>3. IsFiniteSet(S) /\ Cardinality(S) \in Nat
      BY <3>1, HitFacts, FS_Subset, FS_CardinalityType
    <3>4. Cardinality(HitBy(in, d)) <= Cardinality(S) /\ Cardinality(HitBy(in, d)) \in Nat
      BY <3>1, <3>3, HitFacts, FS_Subset
    <3>5. Cardinality(HitBy(in, d)) < Middle
      BY <3>2, <3>3, <3>4, MiddleFacts
    <3> QED
      BY <3>4, <3>5, MiddleFacts
  <2>7. r # Never
    BY <2>4, ForecastAssumption
  <2> QED
    BY <2>1, <2>3, <2>4, <2>5, <2>6, <2>7 DEF r
<1> QED
  BY <1>2, <1>3

\* A path that is on target on a day has been there by that day.
LEMMA OnTargetIsHit ==
  ASSUME NEW in, Fits(in), market \in Markets, NEW p \in 1..Paths, NEW i \in 0..Stops(in), OnTarget(in, market[p], i)
  PROVE  p \in HitBy(in, Day(in, i))
<1>1. WalkOf(in, p).hit # Never /\ \E j \in 0..Stops(in) : WalkOf(in, p).hit = Day(in, j) /\ j <= i
  <2>1. PICK j \in 0..Stops(in) : /\ WalkOf(in, p).hit = Day(in, j)
                                  /\ \A k \in 0..Stops(in) : k < j => ~OnTarget(in, market[p], k)
    BY PathFacts
  <2>2. ~(i < j)
    BY <2>1
  <2>3. Day(in, j) # Never
    BY LineFacts, ForecastAssumption
  <2> QED
    BY <2>1, <2>2, <2>3
<1>2. PICK j \in 0..Stops(in) : WalkOf(in, p).hit = Day(in, j) /\ j <= i
  BY <1>1
<1>3. Day(in, j) <= Day(in, i)
  <2>1. Day(in, j) \in Int /\ Day(in, i) \in Int /\ (j < i => Day(in, j) < Day(in, i))
    BY LineFacts
  <2> QED
    BY <1>2, <2>1
<1>4. p \in HitPaths(in)
  BY <1>1 DEF HitPaths
<1> QED
  BY <1>2, <1>3, <1>4, HitFacts DEF HitBy

\* Whatever the markets of the paths: by the date shown, and on no day before it, half of
\* them have been on target.
THEOREM HalfByDate == Spec => []HalfOfPathsByDate
<1>1. ASSUME ProjectionInv, shown.state = "ready", target > 0
      PROVE  LET by(d) == {h \in shown.hits : h[2] # Never /\ h[2] <= d}
             IN  /\ shown.date # Never =>
                      /\ 2 * Cardinality(by(shown.date)) >= Paths
                      /\ 2 * Cardinality(by(shown.date - 1)) < Paths
                 /\ shown.date = Never => 2 * Cardinality({h \in shown.hits : h[2] # Never}) < Paths
                 /\ \A y \in 1..Years : 2 * shown.series[y].reached >= Paths =>
                      shown.date # Never /\ shown.date <= shown.series[y].date
  <2> DEFINE by(d) == {h \in shown.hits : h[2] # Never /\ h[2] <= d}
             r == shown.date
  <2>0. Fits(Now) /\ Now.asOf = today /\ Now.target = target /\ market \in Markets
    BY <1>1, NowFits DEF ProjectionInv, Money
  <2>1. /\ r = RetirementDate(Walks(Now)) /\ shown.series = [y \in 1..Years |-> YearReport(Now, Walks(Now), y)]
        /\ shown.hits = {<<p, WalkOf(Now, p).hit>> : p \in 1..Paths}
    BY <1>1, ShownFacts DEF Walks
  <2>2. ASSUME NEW d
        PROVE  Cardinality(by(d)) = Cardinality(HitBy(Now, d))
    <3>1. by(d) = {<<p, Hits(Now)[p]>> : p \in HitBy(Now, d)}
      <4>1. \A p \in 1..Paths : p \in HitBy(Now, d) <=> WalkOf(Now, p).hit # Never /\ WalkOf(Now, p).hit <= d
        BY <2>0, HitFacts DEF HitBy, HitPaths
      <4>2. \A p \in HitBy(Now, d) : p \in 1..Paths /\ Hits(Now)[p] = WalkOf(Now, p).hit
        BY <2>0, HitFacts
      <4> QED
        BY <2>1, <4>1, <4>2
    <3>2. IsFiniteSet(HitBy(Now, d))
      BY <1>1, <2>0, HitFacts
    <3> HIDE DEF by
    <3> QED
      BY <3>1, <3>2, PairsCount
  <2>3. Cardinality({h \in shown.hits : h[2] # Never}) = Cardinality(HitPaths(Now))
    <3>1. {h \in shown.hits : h[2] # Never} = {<<p, Hits(Now)[p]>> : p \in HitPaths(Now)}
      <4>1. \A p \in HitPaths(Now) : p \in 1..Paths /\ Hits(Now)[p] = WalkOf(Now, p).hit
        BY <2>0, HitFacts
      <4> QED
        BY <2>1, <4>1 DEF HitPaths
    <3> QED
      BY <1>1, <2>0, <3>1, HitFacts, PairsCount
  <2>4. \/ r = Never /\ 2 * Cardinality(HitPaths(Now)) < Paths
        \/ /\ r \in Int /\ r # Never /\ 2 * Cardinality(HitBy(Now, r)) >= Paths
           /\ \A d \in Int : d < r => 2 * Cardinality(HitBy(Now, d)) < Paths
    BY <1>1, <2>0, <2>1, DateFacts
  <2>5. r # Never => 2 * Cardinality(HitBy(Now, r)) >= Paths /\ 2 * Cardinality(HitBy(Now, r - 1)) < Paths
    <3>1. r \in Int => r - 1 \in Int /\ r - 1 < r
      OBVIOUS
    <3> QED
      BY <2>4, <3>1
  <2>6. ASSUME NEW y \in 1..Years, 2 * shown.series[y].reached >= Paths
        PROVE  r # Never /\ r <= shown.series[y].date
    <3> DEFINE there == {p \in 1..Paths : Walks(Now)[p].years[y].value >= Now.target}
               d == YearDay(Now, y)
    <3>1. shown.series[y].date = d /\ shown.series[y].reached = Cardinality(there)
      BY <1>1, <2>0, <2>1, HorizonFacts DEF YearReport, YearDay
    <3>2. ASSUME NEW p \in there
          PROVE  p \in HitBy(Now, d)
      <4>1. p \in 1..Paths /\ WalkOf(Now, p).years[y].value >= target
        BY <2>0 DEF Walks
      <4>2. PICK i \in 1..Stops(Now) : /\ Day(Now, i) = d
                                       /\ WalkOf(Now, p).years[y] = [cash |-> Cash(Now, Day(Now, i)), value |-> Value(Now, market[p], i)]
        BY <1>1, <2>0, <4>1, PathFacts
      <4>3. i \in 0..Stops(Now) /\ i # 0
        BY <1>1, <2>0, LineFacts
      <4>4. Value(Now, market[p], i) >= target
        BY <4>1, <4>2
      <4>5. OnTarget(Now, market[p], i)
        BY <1>1, <2>0, <4>3, <4>4 DEF OnTarget
      <4> QED
        BY <1>1, <2>0, <4>1, <4>2, <4>3, <4>5, OnTargetIsHit
    <3>3. there \in SUBSET HitBy(Now, d) /\ HitBy(Now, d) \in SUBSET HitPaths(Now) /\ d \in Int
      BY <1>1, <2>0, <3>2, HitFacts, HorizonFacts DEF YearDay
    <3> HIDE DEF there, d
    <3>4. /\ IsFiniteSet(HitBy(Now, d)) /\ IsFiniteSet(HitPaths(Now))
          /\ Cardinality(HitBy(Now, d)) \in Nat /\ Cardinality(HitPaths(Now)) \in Nat
      BY <1>1, <2>0, HitFacts
    <3>5. /\ Cardinality(there) \in Nat /\ Cardinality(there) <= Cardinality(HitBy(Now, d))
          /\ Cardinality(HitBy(Now, d)) <= Cardinality(HitPaths(Now))
      BY <3>3, <3>4, FS_Subset, FS_CardinalityType
    <3>6. 2 * Cardinality(HitBy(Now, d)) >= Paths /\ 2 * Cardinality(HitPaths(Now)) >= Paths
      BY <2>6, <3>1, <3>4, <3>5, MiddleFacts
    <3>7. r # Never /\ r \in Int
      BY <2>4, <3>4, <3>6, MiddleFacts
    <3>8. ~(d < r)
      BY <2>4, <3>3, <3>4, <3>6, <3>7, MiddleFacts
    <3> QED
      BY <3>1, <3>3, <3>7, <3>8
  <2> HIDE DEF by, r
  <2>7. /\ r # Never => 2 * Cardinality(by(r)) >= Paths /\ 2 * Cardinality(by(r - 1)) < Paths
        /\ r = Never => 2 * Cardinality({h \in shown.hits : h[2] # Never}) < Paths
    BY <2>2, <2>3, <2>4, <2>5, HitFacts
  <2> QED
    BY <2>6, <2>7 DEF by, r
<1>2. ProjectionInv => HalfOfPathsByDate
  BY <1>1 DEF HalfOfPathsByDate
<1> QED
  BY <1>2, ProjectionHolds, PTL

-----------------------------------------------------------------------------
(* Money that does not grow *)

\* Between two points no money comes.
LEMMA MoneyRests ==
  ASSUME NEW in, Fits(in), NEW d \in Int, in.asOf < d, d <= End(in), d \notin PointDays(in)
  PROVE  Cash(in, d) = Cash(in, d - 1)
<1>1. in.asOf \in Int /\ End(in) \in Int
  BY HorizonFacts
<1>2. ComeBy(in, d) = ComeBy(in, d - 1)
  <2>1. \A e \in in.events : e.date \in Int /\ e.date # d
    BY EventFacts
  <2> QED
    BY <2>1 DEF ComeBy
<1>3. MonthEnds(in.asOf, d) = MonthEnds(in.asOf, d - 1)
  <2>1. d \notin MonthEnds(in.asOf, End(in))
    BY MonthEndIsPoint
  <2>2. ~MonthTurns(d)
    BY <1>1, <2>1 DEF MonthEnds
  <2> QED
    BY <1>1, <2>2 DEF MonthEnds
<1> QED
  BY <1>2, <1>3 DEF Cash

\* When all paths reach the target on the same point, that is the date.
LEMMA SameHit ==
  ASSUME NEW in, Fits(in), market \in Markets, NEW i \in 0..Stops(in), \A p \in 1..Paths : OnTarget(in, market[p], i),
         \A p \in 1..Paths : \A j \in 0..Stops(in) : j < i => ~OnTarget(in, market[p], j)
  PROVE  RetirementDate(Walks(in)) = Day(in, i)
<1>1. ASSUME NEW p \in 1..Paths
      PROVE  WalkOf(in, p).hit = Day(in, i) /\ p \in HitPaths(in)
  <2>1. PICK k \in 0..Stops(in) : /\ WalkOf(in, p).hit = Day(in, k) /\ OnTarget(in, market[p], k)
                                  /\ \A j \in 0..Stops(in) : j < k => ~OnTarget(in, market[p], j)
    BY PathFacts
  <2>2. ~(i < k) /\ ~(k < i)
    BY <2>1
  <2>3. k = i
    BY <2>2
  <2>4. Day(in, i) # Never
    BY LineFacts, ForecastAssumption
  <2> QED
    BY <2>1, <2>3, <2>4 DEF HitPaths
<1>2. HitPaths(in) = 1..Paths
  BY <1>1 DEF HitPaths
<1>3. Cardinality(HitPaths(in)) = Paths /\ Paths > 0 /\ Paths \in Nat
  BY <1>2, ForecastAssumption, FS_Interval
<1>4. ~(2 * Cardinality(HitPaths(in)) < Paths)
  BY <1>3
<1>5. PICK p \in HitPaths(in) : RetirementDate(Walks(in)) = Hits(in)[p]
  BY <1>4, DateFacts
<1> QED
  BY <1>1, <1>2, <1>5, HitFacts

LEMMA NoHit ==
  ASSUME NEW in, Fits(in), market \in Markets, \A p \in 1..Paths : \A i \in 0..Stops(in) : ~OnTarget(in, market[p], i)
  PROVE  RetirementDate(Walks(in)) = Never
<1>1. \A p \in 1..Paths : WalkOf(in, p).hit = Never
  BY PathFacts
<1>2. HitPaths(in) = {}
  BY <1>1 DEF HitPaths
<1> QED
  BY <1>2, DateFacts

\* The days from tomorrow on which the target is reached, when nothing grows.
Enough(in) == {d \in in.asOf + 1..End(in) : in.balance + Cash(in, d) >= in.target}

LEMMA DayByDay ==
  ASSUME NEW in, Fits(in)
  PROVE  ProjectRetirement(in, End(in)) = IF in.target <= 0 THEN Never
                                       ELSE IF in.balance >= in.target THEN in.asOf
                                       ELSE IF Enough(in) = {} THEN Never ELSE Min(Enough(in))
<1>0. /\ in.asOf \in Int /\ End(in) \in Int /\ in.balance \in Int /\ in.target \in Int /\ Day(in, 0) = in.asOf /\ Stops(in) \in Nat
  BY HorizonFacts, LineFacts DEF Day, Fits
<1> DEFINE savingDays == {d \in in.asOf + 1..End(in) : MonthTurns(d)}
           money(d) == in.balance + SumOf(in, {e \in in.events : e.date <= d})
                                   + in.savings * Cardinality({x \in savingDays : x <= d})
           onTarget == {d \in in.asOf + 1..End(in) : money(d) >= in.target}
<1>1. ProjectRetirement(in, End(in)) = IF in.target <= 0 THEN Never
                                    ELSE IF in.balance >= in.target THEN in.asOf
                                    ELSE IF onTarget = {} THEN Never ELSE Min(onTarget)
  BY DEF ProjectRetirement
<1>2. ASSUME NEW d \in in.asOf + 1..End(in)
      PROVE  money(d) = in.balance + Cash(in, d)
  <2>1. d \in Int /\ in.asOf < d /\ d <= End(in)
    BY <1>0
  <2>2. {x \in savingDays : x <= d} = MonthEnds(in.asOf, d)
    BY <1>0, <2>1 DEF MonthEnds
  <2>3. ComeBy(in, d) \in SUBSET in.events /\ Total(Amount(in), ComeBy(in, d)) \in Int
        /\ in.savings \in Int /\ Cardinality(MonthEnds(in.asOf, d)) \in Nat
    BY <2>1, CashType
  <2>4. SumOf(in, {e \in in.events : e.date <= d}) = Total(Amount(in), ComeBy(in, d))
    BY <2>3, SumOfTotal DEF ComeBy
  <2>5. money(d) = in.balance + Total(Amount(in), ComeBy(in, d)) + in.savings * Cardinality(MonthEnds(in.asOf, d))
    BY <1>0, <2>2, <2>4
  <2> DEFINE saved == in.savings * Cardinality(MonthEnds(in.asOf, d))
  <2>6. saved \in Int
    BY <2>3
  <2>7. Cash(in, d) = Total(Amount(in), ComeBy(in, d)) + saved
    BY DEF Cash
  <2> HIDE DEF saved, money
  <2>8. money(d) = in.balance + Total(Amount(in), ComeBy(in, d)) + saved
    BY <2>5 DEF saved
  <2> QED
    BY <1>0, <2>3, <2>6, <2>7, <2>8
<1> HIDE DEF money
<1>3. onTarget = Enough(in)
  BY <1>0, <1>2 DEF Enough
<1> HIDE DEF onTarget
<1> QED
  BY <1>0, <1>1, <1>3

LEMMA SameDate ==
  ASSUME NEW in, Fits(in), market \in Markets, Steady
  PROVE  RetirementDate(Walks(in)) = ProjectRetirement(in, Horizon(in, Years))
<1> DEFINE rich(d) == in.balance + Cash(in, d) >= in.target
           enough == {d \in in.asOf + 1..End(in) : rich(d)}
<1>1. /\ in.asOf \in Int /\ End(in) \in Int /\ in.balance \in Int /\ in.target \in Int /\ Day(in, 0) = in.asOf /\ Stops(in) \in Nat
  BY HorizonFacts, LineFacts DEF Day, Fits
<1>2. \A d \in Int : Cash(in, d) \in Int
  BY CashType
<1>3. ASSUME NEW p \in 1..Paths, NEW i \in 0..Stops(in)
      PROVE  OnTarget(in, market[p], i) <=> in.target > 0 /\ rich(Day(in, i))
  <2>1. CASE i = 0
    <3>1. Cash(in, Day(in, i)) = 0
      BY <1>1, <2>1, CashStep
    <3> QED
      BY <1>1, <2>1, <3>1 DEF OnTarget
  <2>2. CASE i \in 1..Stops(in)
    <3>1. Line(in)[i].month \in Int /\ Day(in, i) \in Int
      BY <2>2, LineFacts
    <3>2. (Line(in)[i].month % 2) + 1 \in 1..2
      BY <3>1
    <3>3. market[p][(Line(in)[i].month % 2) + 1] = 1
      BY <3>2 DEF Steady
    <3>4. Value(in, market[p], i) = in.balance + Cash(in, Day(in, i))
      BY <1>1, <1>2, <3>1, <3>3 DEF Value
    <3> QED
      BY <2>2, <3>4 DEF OnTarget
  <2> QED
    BY <1>1, <2>1, <2>2
<1>4. ProjectRetirement(in, End(in)) = IF in.target <= 0 THEN Never
                                    ELSE IF in.balance >= in.target THEN in.asOf
                                    ELSE IF enough = {} THEN Never ELSE Min(enough)
  BY DayByDay DEF Enough
<1>6. CASE in.target <= 0
  <2>1. \A p \in 1..Paths : \A i \in 0..Stops(in) : ~OnTarget(in, market[p], i)
    BY <1>1, <1>3, <1>6
  <2> HIDE DEF enough
  <2> QED
    BY <1>4, <1>6, <2>1, NoHit DEF End
<1>7. CASE in.target > 0 /\ in.balance >= in.target
  <2>1. 0 \in 0..Stops(in) /\ rich(Day(in, 0))
    <3>1. Cash(in, Day(in, 0)) = 0
      BY <1>1, CashStep
    <3> QED
      BY <1>1, <1>7, <3>1
  <2>2. /\ \A p \in 1..Paths : OnTarget(in, market[p], 0)
        /\ \A p \in 1..Paths : \A j \in 0..Stops(in) : j < 0 => ~OnTarget(in, market[p], j)
    BY <1>3, <1>7, <2>1
  <2>3. RetirementDate(Walks(in)) = Day(in, 0)
    BY <2>1, <2>2, SameHit
  <2> HIDE DEF enough, rich
  <2>4. ~(in.target <= 0)
    BY <1>1, <1>7
  <2> QED
    BY <1>1, <1>4, <1>7, <2>3, <2>4 DEF End
<1>8. CASE in.target > 0 /\ ~(in.balance >= in.target)
  <2>0. ~(in.target <= 0) /\ ~rich(in.asOf)
    <3>1. Cash(in, in.asOf) = 0
      BY CashStep
    <3> QED
      BY <1>1, <1>8, <3>1
  <2>1. CASE enough = {}
    <3>1. ASSUME NEW p \in 1..Paths, NEW i \in 0..Stops(in)
          PROVE  ~OnTarget(in, market[p], i)
      <4>1. Day(in, i) = in.asOf \/ Day(in, i) \in in.asOf + 1..End(in)
        BY <1>1, LineFacts
      <4>2. ~rich(Day(in, i))
        BY <2>0, <2>1, <4>1
      <4> QED
        BY <1>3, <4>2
    <3> HIDE DEF enough, rich
    <3> QED
      BY <1>4, <1>8, <2>0, <2>1, <3>1, NoHit DEF End
  <2>2. CASE enough # {}
    <3> DEFINE m == Min(enough)
    <3>1. m \in enough /\ \A x \in enough : m <= x
      <4>1. enough \in SUBSET (in.asOf + 1..End(in)) /\ IsFiniteSet(in.asOf + 1..End(in)) /\ enough \subseteq Int
        <5> DEFINE first == in.asOf + 1
                   last == End(in)
        <5>1. first \in Int /\ last \in Int
          BY <1>1
        <5>2. enough \in SUBSET (first..last)
          OBVIOUS
        <5> HIDE DEF enough, first, last
        <5>3. IsFiniteSet(first..last)
          BY <5>1, FS_Interval
        <5>4. enough \subseteq Int
          BY <5>2
        <5> QED
          BY <5>2, <5>3, <5>4 DEF first, last
      <4>2. IsFiniteSet(enough)
        <5> HIDE DEF enough
        <5> QED
          BY <4>1, FS_Subset
      <4> HIDE DEF enough
      <4> QED
        BY <2>2, <4>1, <4>2, MaxFacts
    <3> HIDE DEF m
    <3>2. m \in Int /\ in.asOf < m /\ m <= End(in) /\ rich(m)
      BY <1>1, <3>1
    <3>3. \A d \in Int : in.asOf <= d /\ d < m => ~rich(d)
      <4>1. \A d \in Int : in.asOf < d /\ d < m => d \notin enough
        BY <3>1, <3>2
      <4>2. \A d \in Int : in.asOf < d /\ d < m => ~rich(d)
        BY <1>1, <3>2, <4>1
      <4> HIDE DEF rich
      <4> QED
        BY <1>1, <2>0, <4>2
    <3>4. m \in PointDays(in)
      <4>1. SUFFICES ASSUME m \notin PointDays(in) PROVE FALSE
        OBVIOUS
      <4>2. Cash(in, m) = Cash(in, m - 1)
        BY <3>2, <4>1, MoneyRests
      <4>3. m - 1 \in Int /\ in.asOf <= m - 1 /\ m - 1 < m
        BY <1>1, <3>2
      <4> QED
        BY <3>2, <3>3, <4>2, <4>3
    <3>5. PICK i \in 1..Stops(in) : Day(in, i) = m
      BY <3>4, LineFacts
    <3> HIDE DEF rich, enough
    <3>6. /\ i \in 0..Stops(in)
          /\ \A p \in 1..Paths : OnTarget(in, market[p], i)
          /\ \A p \in 1..Paths : \A j \in 0..Stops(in) : j < i => ~OnTarget(in, market[p], j)
      <4>1. i \in 0..Stops(in)
        BY <1>1
      <4>2. \A j \in 0..Stops(in) : j < i => Day(in, j) \in Int /\ in.asOf <= Day(in, j) /\ Day(in, j) < m
        BY <3>5, <4>1, LineFacts
      <4> QED
        BY <1>3, <1>8, <3>2, <3>3, <3>5, <4>1, <4>2
    <3>7. RetirementDate(Walks(in)) = m
      BY <3>5, <3>6, SameHit
    <3> QED
      BY <1>4, <1>8, <2>0, <2>2, <3>7 DEF End, m
  <2> QED
    BY <2>1, <2>2
<1> QED
  BY <1>1, <1>6, <1>7, <1>8

\* For money that does not grow the forecast, which looks at a few days and at many paths,
\* names the day on which a look at every day finds the target reached.
THEOREM FirstDayOnTarget == Spec => []DateIsFirstDayOnTarget
<1>1. ProjectionInv => DateIsFirstDayOnTarget
  <2>1. ASSUME ProjectionInv, shown.state = "ready", Steady
        PROVE  shown.date = ProjectRetirement(Now, Horizon(Now, Years))
    <3>1. Fits(Now) /\ market \in Markets /\ shown.date = RetirementDate(Walks(Now))
      BY <2>1, NowFits, ShownFacts DEF ProjectionInv, Money
    <3> QED
      BY <2>1, <3>1, SameDate
  <2> QED
    BY <2>1 DEF DateIsFirstDayOnTarget
<1> QED
  BY <1>1, ProjectionHolds, PTL

-----------------------------------------------------------------------------
(* A date that was shown before all was known *)

\* A day a path is looked at, and whether it is on target then.
Seen(in) == {in.asOf} \cup PointDays(in)
Reached(in, level, d) ==
  /\ in.target > 0
  /\ (IF d = in.asOf THEN in.balance ELSE Cash(in, d) + in.balance * level[(MonthOf(d - 1) % 2) + 1]) >= in.target

LEMMA SeenFacts ==
  ASSUME NEW in, Fits(in)
  PROVE  /\ \A d \in Seen(in) : d \in Int /\ \E i \in 0..Stops(in) : Day(in, i) = d
         /\ \A i \in 0..Stops(in) : Day(in, i) \in Seen(in)
         /\ \A level : \A i \in 0..Stops(in) : OnTarget(in, level, i) <=> Reached(in, level, Day(in, i))
<1>1. /\ in.asOf \in Int /\ Stops(in) \in Nat /\ Day(in, 0) = in.asOf
      /\ \A x \in PointDays(in) : \E i \in 1..Stops(in) : Day(in, i) = x
      /\ \A i \in 0..Stops(in) : Day(in, i) \in Int
      /\ \A i, j \in 0..Stops(in) : i < j <=> Day(in, i) < Day(in, j)
  BY HorizonFacts, LineFacts DEF Day
<1>2. ASSUME NEW i \in 1..Stops(in)
      PROVE  /\ Day(in, i) \in PointDays(in) /\ Line(in)[i].month = MonthOf(Day(in, i) - 1)
             /\ Day(in, i) # in.asOf
  <2>1. PICK k \in Months(in) : \E d \in CutsOf(in, k) : Line(in)[i] = Point(in, k, d)
    BY PointFacts DEF Line, Stops
  <2>2. PICK d \in CutsOf(in, k) : Line(in)[i] = Point(in, k, d)
    BY <2>1
  <2>3. Line(in)[i].date = d /\ Line(in)[i].month = k
    BY <2>2 DEF Point
  <2>4. Day(in, i) = d
    BY <2>3 DEF Day
  <2>5. /\ k \in Int /\ d \in Int /\ MonthStart(k) < d /\ d <= MonthStart(k + 1)
        /\ MonthStart(k) \in Int /\ MonthStart(k + 1) \in Int
    BY SpanOfMonth
  <2>6. d - 1 \in Int /\ MonthStart(k) <= d - 1 /\ d - 1 < MonthStart(k + 1)
    BY <2>5
  <2>7. MonthOf(d - 1) = k
    BY <2>5, <2>6, MonthFacts
  <2>8. d \in PointDays(in)
    BY DEF PointDays
  <2>9. Day(in, 0) < Day(in, i)
    BY <1>1
  <2> QED
    BY <1>1, <2>3, <2>4, <2>7, <2>8, <2>9
<1>3. ASSUME NEW i \in 0..Stops(in), NEW level
      PROVE  OnTarget(in, level, i) <=> Reached(in, level, Day(in, i))
  <2>1. CASE i = 0
    BY <1>1, <2>1 DEF OnTarget, Reached
  <2>2. CASE i \in 1..Stops(in)
    <3>1. i # 0 /\ Day(in, i) # in.asOf
      BY <1>2, <2>2
    <3>2. Value(in, level, i) = Cash(in, Day(in, i)) + in.balance * level[(MonthOf(Day(in, i) - 1) % 2) + 1]
      BY <1>2, <2>2 DEF Value
    <3> QED
      BY <3>1, <3>2 DEF OnTarget, Reached
  <2> QED
    BY <1>1, <2>1, <2>2
<1>4. ASSUME NEW d \in Seen(in)
      PROVE  d \in Int /\ \E i \in 0..Stops(in) : Day(in, i) = d
  <2>1. CASE d = in.asOf
    <3>1. 0 \in 0..Stops(in)
      BY <1>1
    <3> QED
      BY <1>1, <2>1, <3>1
  <2>2. CASE d \in PointDays(in)
    <3>1. PICK i \in 1..Stops(in) : Day(in, i) = d
      BY <1>1, <2>2
    <3>2. i \in 0..Stops(in)
      BY <1>1
    <3> QED
      BY <1>1, <3>1, <3>2
  <2> QED
    BY <2>1, <2>2 DEF Seen
<1>5. ASSUME NEW i \in 0..Stops(in)
      PROVE  Day(in, i) \in Seen(in)
  <2>1. i = 0 \/ i \in 1..Stops(in)
    BY <1>1
  <2> QED
    BY <1>1, <1>2, <2>1 DEF Seen
<1> QED
  BY <1>3, <1>4, <1>5

\* The hit of a path is the first day on which it is looked at and on target.
LEMMA FirstDay ==
  ASSUME NEW in, Fits(in), market \in Markets, NEW p \in 1..Paths, NEW d \in Int
  PROVE  WalkOf(in, p).hit = d <=> /\ d \in Seen(in) /\ Reached(in, market[p], d)
                                   /\ \A x \in Seen(in) : x < d => ~Reached(in, market[p], x)
<1> DEFINE hit == WalkOf(in, p).hit
           level == market[p]
<1>1. /\ \A i \in 0..Stops(in) : Day(in, i) \in Int
      /\ \A i, j \in 0..Stops(in) : i < j <=> Day(in, i) < Day(in, j)
  BY LineFacts
<1>2. \/ hit = Never /\ \A i \in 0..Stops(in) : ~OnTarget(in, level, i)
      \/ \E i \in 0..Stops(in) : /\ hit = Day(in, i) /\ OnTarget(in, level, i)
                                 /\ \A j \in 0..Stops(in) : j < i => ~OnTarget(in, level, j)
  BY PathFacts
<1>3. /\ \A x \in Seen(in) : x \in Int /\ \E i \in 0..Stops(in) : Day(in, i) = x
      /\ \A i \in 0..Stops(in) : Day(in, i) \in Seen(in)
      /\ \A i \in 0..Stops(in) : OnTarget(in, level, i) <=> Reached(in, level, Day(in, i))
  BY SeenFacts
<1> HIDE DEF hit, level
<1>4. CASE hit = Never /\ \A i \in 0..Stops(in) : ~OnTarget(in, level, i)
  <2>1. \A x \in Seen(in) : ~Reached(in, level, x)
    BY <1>3, <1>4
  <2> QED
    BY <1>4, <2>1, ForecastAssumption DEF hit, level
<1>5. CASE \E i \in 0..Stops(in) : /\ hit = Day(in, i) /\ OnTarget(in, level, i)
                                   /\ \A j \in 0..Stops(in) : j < i => ~OnTarget(in, level, j)
  <2>1. PICK i \in 0..Stops(in) : /\ hit = Day(in, i) /\ OnTarget(in, level, i)
                                  /\ \A j \in 0..Stops(in) : j < i => ~OnTarget(in, level, j)
    BY <1>5
  <2>2. hit \in Seen(in) /\ Reached(in, level, hit) /\ hit \in Int
    BY <1>1, <1>3, <2>1
  <2>3. ASSUME NEW x \in Seen(in), x < hit
        PROVE  ~Reached(in, level, x)
    <3>1. PICK j \in 0..Stops(in) : Day(in, j) = x
      BY <1>3
    <3>2. j < i
      BY <1>1, <2>1, <2>3, <3>1
    <3> QED
      BY <1>3, <2>1, <3>1, <3>2
  <2>4. ASSUME d \in Seen(in), Reached(in, level, d), \A x \in Seen(in) : x < d => ~Reached(in, level, x)
        PROVE  hit = d
    <3>1. ~(hit < d) /\ ~(d < hit)
      BY <2>2, <2>3, <2>4
    <3> QED
      BY <2>2, <3>1
  <2> QED
    BY <2>2, <2>3, <2>4 DEF hit, level
<1> QED
  BY <1>2, <1>4, <1>5

\* Two snapshots that tell the same up to a day.
Agree(a, b, day) ==
  /\ b.asOf = a.asOf /\ b.balance = a.balance /\ b.target = a.target /\ b.savings = a.savings
  /\ ComeBy(b, day) = ComeBy(a, day)
  /\ \A e \in ComeBy(a, day) : InYuan(b, e) = InYuan(a, e)

LEMMA SeenBoth ==
  ASSUME NEW a, NEW b, NEW day \in Int, Agree(a, b, day), NEW d \in Seen(a), d <= day
  PROVE  d \in Seen(b)
<1>1. CASE d = a.asOf
  BY <1>1 DEF Agree, Seen
<1>2. CASE d \in PointDays(a)
  <2>1. PICK k \in Months(a) : d \in CutsOf(a, k)
    BY <1>2 DEF PointDays
  <2>2. End(b) = End(a) /\ Yearly(b) = Yearly(a) /\ Begin(b, k) = Begin(a, k)
    BY DEF Agree, End, Horizon, Yearly, Anniversaries, Begin
  <2>3. k \in Months(b)
    BY <2>1, <2>2 DEF Agree, Months
  <2>4. d \in Cuts(a, Yearly(a), End(a), k) /\ Begin(a, k) < d /\ d <= Stop(End(a), k)
    BY <2>1 DEF CutsOf
  <2>5. d \in {e.date : e \in a.events} => d \in {e.date : e \in b.events}
    BY DEF Agree, ComeBy
  <2>6. d \in Cuts(b, Yearly(b), End(b), k)
    BY <2>2, <2>4, <2>5 DEF Cuts
  <2>7. d \in CutsOf(b, k)
    BY <2>2, <2>4, <2>6 DEF CutsOf
  <2> QED
    BY <2>3, <2>7 DEF PointDays, Seen
<1> QED
  BY <1>1, <1>2 DEF Seen

LEMMA ReachedBoth ==
  ASSUME NEW a, Fits(a), NEW b, Fits(b), NEW day \in Int, Agree(a, b, day), NEW d \in Int, d <= day
  PROVE  \A level : Reached(a, level, d) <=> Reached(b, level, d)
<1> DEFINE E == ComeBy(a, d)
<1>1. ComeBy(b, d) = E
  <2>1. \A e \in a.events \cup b.events : e.date \in Int
    BY EventFacts
  <2>2. \A e \in a.events : e.date <= day => e \in b.events
    BY DEF Agree, ComeBy
  <2>3. \A e \in b.events : e.date <= day => e \in a.events
    BY DEF Agree, ComeBy
  <2> QED
    BY <2>1, <2>2, <2>3 DEF ComeBy
<1>2. E \in SUBSET ComeBy(a, day) /\ E \in SUBSET a.events /\ E \in SUBSET b.events /\ IsFiniteSet(E)
  <2>1. E \in SUBSET a.events /\ E \in SUBSET b.events
    BY <1>1 DEF ComeBy
  <2>2. IsFiniteSet(a.events)
    BY EventFacts
  <2>3. IsFiniteSet(E)
    BY <2>1, <2>2, FS_Subset
  <2>4. \A e \in E : e.date \in Int /\ e.date <= d
    BY <2>1, EventFacts DEF ComeBy
  <2>5. E \in SUBSET ComeBy(a, day)
    BY <2>1, <2>4 DEF ComeBy
  <2> QED
    BY <2>1, <2>3, <2>5
<1> HIDE DEF E
<1>3. \A e \in E : Amount(a)[e] = Amount(b)[e]
  <2>1. \A e \in E : Amount(a)[e] = InYuan(a, e) /\ Amount(b)[e] = InYuan(b, e)
    BY <1>2, EventFacts
  <2> QED
    BY <1>2, <2>1 DEF Agree
<1>4. Total(Amount(a), E) = Total(Amount(b), E)
  BY <1>2, <1>3, TotalSame
<1>5. Cash(a, d) = Cash(b, d)
  BY <1>1, <1>4 DEF Cash, E, Agree
<1> QED
  BY <1>5 DEF Reached, Agree

LEMMA HitBoth ==
  ASSUME NEW a, Fits(a), NEW b, Fits(b), market \in Markets, NEW day \in Int, Agree(a, b, day), Agree(b, a, day)
  PROVE  \A d \in Int : d <= day => HitBy(a, d) = HitBy(b, d)
<1>1. \A d \in Seen(a) \cup Seen(b) : d \in Int
  BY SeenFacts
<1>2. \A d \in Int : d <= day => (d \in Seen(a) <=> d \in Seen(b))
  BY SeenBoth
<1>3. ASSUME NEW p \in 1..Paths, NEW d \in Int, d <= day
      PROVE  WalkOf(a, p).hit = d <=> WalkOf(b, p).hit = d
  <2>1. \A x \in Int : x < d => x <= day
    BY <1>3
  <2>2. \A x \in Int : x <= day => (Reached(a, market[p], x) <=> Reached(b, market[p], x))
    BY ReachedBoth
  <2>3. WalkOf(a, p).hit = d <=> /\ d \in Seen(a) /\ Reached(a, market[p], d)
                                 /\ \A x \in Seen(a) : x < d => ~Reached(a, market[p], x)
    BY FirstDay
  <2>4. WalkOf(b, p).hit = d <=> /\ d \in Seen(b) /\ Reached(b, market[p], d)
                                 /\ \A x \in Seen(b) : x < d => ~Reached(b, market[p], x)
    BY FirstDay
  <2> QED
    BY <1>1, <1>2, <1>3, <2>1, <2>2, <2>3, <2>4
<1>4. ASSUME NEW d \in Int, d <= day, NEW p
      PROVE  p \in HitBy(a, d) <=> p \in HitBy(b, d)
  <2>1. \A q \in HitPaths(a) : q \in 1..Paths /\ Hits(a)[q] = WalkOf(a, q).hit /\ Hits(a)[q] \in Int
    BY HitFacts
  <2>2. \A q \in HitPaths(b) : q \in 1..Paths /\ Hits(b)[q] = WalkOf(b, q).hit /\ Hits(b)[q] \in Int
    BY HitFacts
  <2>3. \A x \in Int : x <= d => x <= day /\ x # Never
    BY <1>4, ForecastAssumption
  <2>4. ASSUME p \in HitBy(a, d) PROVE p \in HitBy(b, d)
    <3>1. p \in 1..Paths /\ WalkOf(a, p).hit \in Int /\ WalkOf(a, p).hit <= d
      BY <2>1, <2>4 DEF HitBy
    <3>2. WalkOf(b, p).hit = WalkOf(a, p).hit /\ WalkOf(b, p).hit # Never
      BY <1>3, <2>3, <3>1
    <3>3. p \in HitPaths(b)
      BY <3>1, <3>2 DEF HitPaths
    <3> QED
      BY <2>2, <3>1, <3>2, <3>3 DEF HitBy
  <2>5. ASSUME p \in HitBy(b, d) PROVE p \in HitBy(a, d)
    <3>1. p \in 1..Paths /\ WalkOf(b, p).hit \in Int /\ WalkOf(b, p).hit <= d
      BY <2>2, <2>5 DEF HitBy
    <3>2. WalkOf(a, p).hit = WalkOf(b, p).hit /\ WalkOf(a, p).hit # Never
      BY <1>3, <2>3, <3>1
    <3>3. p \in HitPaths(a)
      BY <3>1, <3>2 DEF HitPaths
    <3> QED
      BY <2>1, <3>1, <3>2, <3>3 DEF HitBy
  <2> QED
    BY <2>4, <2>5
<1> QED
  BY <1>4

\* What comes after the date does not move it.
LEMMA DateBoth ==
  ASSUME NEW a, Fits(a), NEW b, Fits(b), market \in Markets,
         NEW day \in Int, RetirementDate(Walks(a)) = day, Agree(a, b, day), Agree(b, a, day)
  PROVE  RetirementDate(Walks(b)) = day
<1> DEFINE r == RetirementDate(Walks(b))
<1>1. \A d \in Int : d <= day => HitBy(a, d) = HitBy(b, d)
  BY HitBoth
<1>2. 2 * Cardinality(HitBy(a, day)) >= Paths /\ \A d \in Int : d < day => 2 * Cardinality(HitBy(a, d)) < Paths
  BY DateFacts, ForecastAssumption
<1>3. \/ r = Never /\ 2 * Cardinality(HitPaths(b)) < Paths
      \/ /\ r \in Int /\ 2 * Cardinality(HitBy(b, r)) >= Paths
         /\ \A d \in Int : d < r => 2 * Cardinality(HitBy(b, d)) < Paths
  BY DateFacts
<1> HIDE DEF r
<1>4. Paths \in Nat /\ 2 * Cardinality(HitBy(b, day)) >= Paths
  BY <1>1, <1>2, MiddleFacts
<1>5. 2 * Cardinality(HitPaths(b)) >= Paths
  <2>1. /\ HitBy(b, day) \in SUBSET HitPaths(b) /\ IsFiniteSet(HitPaths(b)) /\ Cardinality(HitPaths(b)) \in Nat
        /\ Cardinality(HitBy(b, day)) \in Nat
    BY HitFacts
  <2>2. Cardinality(HitBy(b, day)) <= Cardinality(HitPaths(b))
    BY <2>1, FS_Subset
  <2> QED
    BY <1>4, <2>1, <2>2
<1>6. /\ r \in Int /\ 2 * Cardinality(HitBy(b, r)) >= Paths
      /\ \A d \in Int : d < r => 2 * Cardinality(HitBy(b, d)) < Paths
  BY <1>3, <1>4, <1>5, HitFacts
<1>7. ~(r < day)
  <2>1. SUFFICES ASSUME r < day PROVE FALSE
    OBVIOUS
  <2>2. 2 * Cardinality(HitBy(a, r)) < Paths /\ HitBy(a, r) = HitBy(b, r)
    BY <1>1, <1>2, <1>6, <2>1
  <2> QED
    BY <1>4, <1>6, <2>2, HitFacts
<1>8. ~(day < r)
  BY <1>4, <1>6, HitFacts
<1> QED
  BY <1>6, <1>7, <1>8 DEF r

\* More prices never take a month away.
LEMMA MoreReturns ==
  ASSUME NEW at \in Int, NEW H, NEW G \in SUBSET Int, H \subseteq G
  PROVE  DOMAIN MonthlyReturns(H, at) \subseteq DOMAIN MonthlyReturns(G, at)
<1> DEFINE some == Usable(H, at)
           more == Usable(G, at)
<1>1. some \subseteq more
  BY DEF Usable
<1>2. /\ DOMAIN MonthlyReturns(H, at) =
           {k \in DOMAIN LastDays(some) : EndsInTime(LastDays(some), k) /\ EndsInTime(LastDays(some), k - 1)}
      /\ DOMAIN MonthlyReturns(G, at) =
           {k \in DOMAIN LastDays(more) : EndsInTime(LastDays(more), k) /\ EndsInTime(LastDays(more), k - 1)}
      /\ DOMAIN LastDays(some) = {MonthOf(d) : d \in some} /\ DOMAIN LastDays(more) = {MonthOf(d) : d \in more}
  BY DEF MonthlyReturns, Returns, LastDays
<1>3. ASSUME NEW k, EndsInTime(LastDays(some), k)
      PROVE  EndsInTime(LastDays(more), k)
  <2> DEFINE seen(days) == (MonthStart(k)..MonthEnd(k)) \cap days
  <2>0. H \in SUBSET Int
    OBVIOUS
  <2>1. k \in Int /\ MonthStart(k) \in Int /\ MonthEnd(k) \in Int
    <3>1. k \in Int
      BY <1>3, <2>0, EndsFacts
    <3> QED
      BY <3>1, MonthFacts DEF MonthEnd
  <2>2. ASSUME NEW days
        PROVE  IsFiniteSet(seen(days)) /\ seen(days) \subseteq Int
    <3>1. seen(days) \in SUBSET (MonthStart(k)..MonthEnd(k)) /\ IsFiniteSet(MonthStart(k)..MonthEnd(k))
      BY <2>1, FS_Interval
    <3> QED
      BY <2>1, <3>1, FS_Subset
  <2>3. k \in DOMAIN LastDays(some) /\ k \in DOMAIN LastDays(more)
    BY <1>1, <1>2, <1>3 DEF EndsInTime
  <2>4. LastDays(some)[k] = Max(seen(some)) /\ LastDays(more)[k] = Max(seen(more))
    BY <1>2, <2>3 DEF LastDays
  <2>5. seen(some) # {}
    <3>1. PICK d \in some : MonthOf(d) = k
      BY <1>2, <2>3
    <3>2. d \in Int /\ MonthStart(k) <= d /\ d < MonthStart(k + 1) /\ MonthStart(k + 1) \in Int
      <4>1. d \in Int
        BY <2>0, UsableDay
      <4> QED
        BY <2>1, <3>1, <4>1, MonthOfDay, MonthFacts
    <3>3. d \in seen(some)
      BY <2>1, <3>1, <3>2 DEF MonthEnd
    <3> QED
      BY <3>3
  <2>6. seen(some) \subseteq seen(more)
    BY <1>1
  <2> HIDE DEF seen, some, more
  <2>7. Max(seen(some)) \in seen(more) /\ Max(seen(some)) \in Int
    BY <2>2, <2>5, <2>6, MaxFacts
  <2>8. Max(seen(some)) <= Max(seen(more)) /\ Max(seen(more)) \in Int
    BY <2>2, <2>7, MaxFacts
  <2>9. MonthEnd(k) - Max(seen(some)) <= 7
    BY <1>3, <2>4 DEF EndsInTime
  <2> QED
    BY <2>1, <2>3, <2>4, <2>7, <2>8, <2>9 DEF EndsInTime
<1> HIDE DEF some, more
<1> QED
  BY <1>1, <1>2, <1>3

\* The snapshot b is the snapshot a when more is known.
Fields == {"asOf", "balance", "target", "savings", "events", "rates", "history", "stocks", "held"}
KnowsMore(a, b) ==
  /\ DOMAIN a = Fields /\ DOMAIN b = Fields
  /\ \A f \in Fields \ {"rates", "history"} : b[f] = a[f]
  /\ a.held \subseteq Foreign /\ \A e \in a.events : e.currency \in {"CNY"} \cup Foreign
  /\ \A c \in Foreign : /\ a.rates[c] # 0 => b.rates[c] = a.rates[c]
                        /\ a.history[c] \subseteq b.history[c]
                        /\ b.history[c] \in SUBSET Int /\ IsFiniteSet(b.history[c])

LEMMA LessUnknown ==
  ASSUME NEW a, Fits(a), NEW b, KnowsMore(a, b)
  PROVE  Unknown(b) \subseteq Unknown(a)
<1>1. b.events = a.events /\ b.asOf = a.asOf /\ a.asOf \in Int
  BY DEF KnowsMore, Fields, Fits
<1>2. SUFFICES ASSUME NEW e \in Unknown(b) PROVE e \in Unknown(a)
  OBVIOUS
<1> DEFINE c == e.currency
<1>3. /\ e \in b.events /\ c # "CNY"
      /\ \/ b.rates[c] = 0
         \/ Cardinality(DOMAIN MonthlyReturns(b.history[c], b.asOf)) < ModelMonths
  BY DEF Unknown
<1>4. c \in Foreign
  BY <1>1, <1>3 DEF KnowsMore
<1> HIDE DEF c
<1>5. /\ a.rates[c] # 0 => b.rates[c] = a.rates[c]
      /\ a.history[c] \subseteq b.history[c] /\ b.history[c] \in SUBSET Int /\ IsFiniteSet(b.history[c])
  BY <1>4 DEF KnowsMore
<1> DEFINE A == DOMAIN MonthlyReturns(a.history[c], a.asOf)
           B == DOMAIN MonthlyReturns(b.history[c], b.asOf)
<1>6. A \in SUBSET B
  BY <1>1, <1>5, MoreReturns
<1>7. IsFiniteSet(B)
  BY <1>1, <1>5, ReturnFacts
<1> HIDE DEF A, B
<1>8. Cardinality(A) <= Cardinality(B) /\ Cardinality(A) \in Nat /\ Cardinality(B) \in Nat
  BY <1>6, <1>7, FS_Subset, FS_CardinalityType
<1>9. ModelMonths \in Nat
  BY DEF ModelMonths
<1>10. a.rates[c] = 0 \/ Cardinality(A) < ModelMonths
  BY <1>3, <1>5, <1>8, <1>9 DEF B
<1> QED
  BY <1>1, <1>3, <1>10 DEF Unknown, A, c

\* The snapshot with the income that is certain.
LEMMA SureFacts ==
  ASSUME NEW in, DOMAIN in = Fields, Fits(in)
  PROVE  /\ Fits(Sure(in)) /\ Sure(in).events = in.events \ Unknown(in)
         /\ \A f \in Fields \ {"events"} : Sure(in)[f] = in[f]
         /\ \A e \in in.events : InYuan(Sure(in), e) = InYuan(in, e)
<1>1. /\ Sure(in).events = in.events \ Unknown(in)
      /\ \A f \in Fields \ {"events"} : Sure(in)[f] = in[f]
  BY DEF Sure, Fields
<1>2. /\ Sure(in).rates = in.rates /\ Sure(in).asOf = in.asOf /\ Sure(in).balance = in.balance
      /\ Sure(in).target = in.target /\ Sure(in).savings = in.savings
  BY <1>1 DEF Fields
<1>3. \A e : InYuan(Sure(in), e) = InYuan(in, e)
  BY <1>2 DEF InYuan
<1>4. Horizon(Sure(in), Years) = Horizon(in, Years)
  BY <1>2 DEF Horizon
<1>5. IsFiniteSet(Sure(in).events) /\ Sure(in).events \subseteq in.events
  <2>1. Sure(in).events \in SUBSET in.events /\ IsFiniteSet(in.events)
    BY <1>1 DEF Fits
  <2> QED
    BY <2>1, FS_Subset
<1>6. Fits(Sure(in))
  BY <1>2, <1>3, <1>4, <1>5 DEF Fits
<1> QED
  BY <1>1, <1>3, <1>6

\* What a simulation gives.
LEMMA SimulationFacts ==
  ASSUME NEW in
  PROVE  LET f == SimulateForecast(in, Years, market)
         IN  /\ Possible(in, Years) => f.state = "ready" /\ f.date = RetirementDate(Walks(in))
             /\ ~Possible(in, Years) => f.state # "ready" /\ f.date = Never
<1> DEFINE f == SimulateForecast(in, Years, market)
<1>1. CASE ~Possible(in, Years)
  <2>1. f = NoForecast
    BY <1>1, Zenon DEF SimulateForecast
  <2> QED
    BY <1>1, <2>1 DEF NoForecast
<1>2. CASE Possible(in, Years)
  <2>1. f = [state |-> "ready", date |-> RetirementDate(Walks(in)),
             series |-> [y \in 1..Years |-> YearReport(in, Walks(in), y)], month |-> Walks(in)[1].month,
             hits |-> {<<p, Walks(in)[p].hit>> : p \in 1..Paths}]
    BY <1>2, Zenon DEF SimulateForecast, Walks, WalkOf, Line
  <2> QED
    BY <1>2, <2>1
<1> QED
  BY <1>1, <1>2

LEMMA PartialFacts ==
  ASSUME NEW in
  PROVE  LET f == ForecastFromSnapshot(in, Years, market)
             d == SimulateForecast(Sure(in), Years, market).date
             full == SimulateForecast(in, Years, market)
             certain == (\A c \in in.held : in.rates[c] # 0) /\ BeforeUnknown(d, Unknown(in))
         IN  /\ f.state \in {"ready", "partial", "unavailable"}
             /\ f.state = "partial" => certain /\ f.date = d
             /\ (\A c \in in.held : in.rates[c] # 0) /\ full.state = "ready" => f = full
             /\ certain /\ full.state # "ready" => f.state = "partial" /\ f.date = d
<1> DEFINE f == ForecastFromSnapshot(in, Years, market)
           d == SimulateForecast(Sure(in), Years, market).date
           full == SimulateForecast(in, Years, market)
           complete == \A c \in in.held : in.rates[c] # 0
           before == BeforeUnknown(d, Unknown(in))
           some == [NoForecast EXCEPT !.state = "partial", !.date = d]
<1>1. f = IF ~complete THEN NoForecast
          ELSE IF full.state = "ready" THEN full
          ELSE IF before THEN some
          ELSE NoForecast
  BY Zenon DEF ForecastFromSnapshot, Sure
<1>2. NoForecast.state = "unavailable" /\ some.state = "partial" /\ some.date = d
  BY DEF NoForecast
<1> HIDE DEF f, d, full, complete, before, some
<1>3. /\ f.state \in {"ready", "partial", "unavailable"}
      /\ f.state = "partial" => (complete /\ before) /\ f.date = d
      /\ complete /\ full.state = "ready" => f = full
      /\ (complete /\ before) /\ full.state # "ready" => f.state = "partial" /\ f.date = d
  BY <1>1, <1>2
<1> QED
  BY <1>3 DEF f, d, full, complete, before

\* The income before the date is the same in both, and what is paid in a currency with a
\* rate is worth the same.
LEMMA DateKnown ==
  ASSUME NEW a, Fits(a), NEW b, Fits(b), KnowsMore(a, b), market \in Markets,
         ForecastFromSnapshot(a, Years, market).state = "partial"
  PROVE  LET day == ForecastFromSnapshot(a, Years, market).date
         IN  /\ day # Never /\ \A e \in Unknown(a) : day < e.date
             /\ RetirementDate(Walks(b)) = day /\ RetirementDate(Walks(Sure(b))) = day
<1> DEFINE day == ForecastFromSnapshot(a, Years, market).date
<1>1. /\ day = SimulateForecast(Sure(a), Years, market).date
      /\ day # Never /\ \A e \in Unknown(a) : day < e.date
  BY PartialFacts DEF BeforeUnknown
<1> HIDE DEF day
<1>2. day = RetirementDate(Walks(Sure(a)))
  BY <1>1, SimulationFacts
<1>3. DOMAIN a = Fields /\ DOMAIN b = Fields
  BY DEF KnowsMore
<1>4. /\ Fits(Sure(a)) /\ Sure(a).events = a.events \ Unknown(a)
      /\ \A f \in Fields \ {"events"} : Sure(a)[f] = a[f]
      /\ \A e \in a.events : InYuan(Sure(a), e) = InYuan(a, e)
  BY <1>3, SureFacts
<1>5. /\ Fits(Sure(b)) /\ Sure(b).events = b.events \ Unknown(b)
      /\ \A f \in Fields \ {"events"} : Sure(b)[f] = b[f]
      /\ \A e \in b.events : InYuan(Sure(b), e) = InYuan(b, e)
  BY <1>3, SureFacts
<1>6. day \in Int
  BY <1>1, <1>2, <1>4, DateFacts
<1>7. Unknown(b) \subseteq Unknown(a) /\ b.events = a.events
  BY LessUnknown DEF KnowsMore, Fields
<1>8. ASSUME NEW e \in Sure(a).events
      PROVE  InYuan(b, e) = InYuan(a, e)
  <2>1. e \in a.events /\ e \notin Unknown(a) /\ e.currency \in {"CNY"} \cup Foreign
    BY <1>4 DEF KnowsMore
  <2>2. CASE e.currency = "CNY"
    BY <2>2 DEF InYuan
  <2>3. CASE e.currency # "CNY"
    <3>1. a.rates[e.currency] # 0
      BY <2>1, <2>3 DEF Unknown
    <3>2. b.rates[e.currency] = a.rates[e.currency]
      BY <2>1, <2>3, <3>1 DEF KnowsMore
    <3> QED
      BY <2>3, <3>2 DEF InYuan
  <2> QED
    BY <2>2, <2>3
<1>9. ASSUME NEW in, in = b \/ in = Sure(b)
      PROVE  RetirementDate(Walks(in)) = day
  <2>1. /\ Fits(in) /\ in.asOf = a.asOf /\ in.balance = a.balance /\ in.target = a.target /\ in.savings = a.savings
        /\ in.events \subseteq a.events /\ a.events \ Unknown(a) \subseteq in.events
        /\ \A e \in b.events : InYuan(in, e) = InYuan(b, e)
    BY <1>5, <1>7, <1>9 DEF KnowsMore, Fields
  <2>2. /\ Sure(a).asOf = a.asOf /\ Sure(a).balance = a.balance /\ Sure(a).target = a.target
        /\ Sure(a).savings = a.savings
    BY <1>4 DEF Fields
  <2>3. \A e \in Unknown(a) : ~(e.date <= day)
    <3>1. \A e \in Unknown(a) : e.date \in Int
      BY EventFacts DEF Unknown
    <3> QED
      BY <1>1, <1>6, <3>1
  <2>4. ComeBy(in, day) = ComeBy(Sure(a), day)
    BY <1>4, <2>1, <2>3 DEF ComeBy
  <2>5. \A e \in ComeBy(Sure(a), day) : InYuan(in, e) = InYuan(Sure(a), e)
    <3>1. \A e \in ComeBy(Sure(a), day) : e \in Sure(a).events /\ e \in a.events
      BY <1>4 DEF ComeBy
    <3> QED
      BY <1>4, <1>7, <1>8, <2>1, <3>1
  <2>6. Agree(Sure(a), in, day) /\ Agree(in, Sure(a), day)
    BY <2>1, <2>2, <2>4, <2>5 DEF Agree
  <2> QED
    BY <1>2, <1>4, <1>6, <2>1, <2>6, DateBoth
<1> QED
  BY <1>1, <1>9 DEF day

LEMMA DateRemains ==
  ASSUME NEW a, Fits(a), NEW b, Fits(b), KnowsMore(a, b), market \in Markets,
         ForecastFromSnapshot(a, Years, market).state = "partial",
         Possible(Sure(b), Years)
  PROVE  LET new == ForecastFromSnapshot(b, Years, market)
         IN  new.state # "unavailable" /\ new.date = ForecastFromSnapshot(a, Years, market).date
<1> DEFINE day == ForecastFromSnapshot(a, Years, market).date
           new == ForecastFromSnapshot(b, Years, market)
           full == SimulateForecast(b, Years, market)
           sure == SimulateForecast(Sure(b), Years, market)
<1>1. /\ day # Never /\ \A e \in Unknown(a) : day < e.date
      /\ RetirementDate(Walks(b)) = day /\ RetirementDate(Walks(Sure(b))) = day
  BY DateKnown
<1>2. /\ DOMAIN b = Fields /\ b.held = a.held /\ a.held \subseteq Foreign /\ Unknown(b) \subseteq Unknown(a)
      /\ \A c \in Foreign : a.rates[c] # 0 => b.rates[c] = a.rates[c]
  BY LessUnknown DEF KnowsMore, Fields
<1>3. \A c \in b.held : b.rates[c] # 0
  <2>1. \A c \in a.held : a.rates[c] # 0
    BY PartialFacts
  <2> QED
    BY <1>2, <2>1
<1>4. CASE full.state = "ready"
  <2>1. new = full /\ full.date = day
    BY <1>1, <1>3, <1>4, PartialFacts, SimulationFacts
  <2> QED
    BY <1>4, <2>1
<1>5. CASE full.state # "ready"
  <2>1. /\ Sure(b).events = b.events \ Unknown(b) /\ Sure(b).held = b.held /\ Sure(b).rates = b.rates
        /\ Sure(b).history = b.history /\ Sure(b).stocks = b.stocks /\ Sure(b).asOf = b.asOf
    BY <1>2, SureFacts DEF Fields
  <2>3. sure.date = day
    BY <1>1, SimulationFacts
  <2>4. Unknown(b) # {}
    <3>1. SUFFICES ASSUME Unknown(b) = {} PROVE FALSE
      OBVIOUS
    <3>2. Sure(b).events = b.events
      BY <2>1, <3>1
    <3>3. Needed(Sure(b), Years) = Needed(b, Years)
      BY <2>1, <3>2 DEF Needed, Horizon
    <3>4. Possible(b, Years)
      BY <2>1, <3>3 DEF Possible
    <3> QED
      BY <1>5, <3>4, SimulationFacts
  <2>5. BeforeUnknown(sure.date, Unknown(b))
    BY <1>1, <1>2, <2>3, <2>4 DEF BeforeUnknown
  <2>6. new.state = "partial" /\ new.date = sure.date
    BY <1>3, <1>5, <2>5, PartialFacts
  <2> QED
    BY <2>3, <2>6
<1> QED
  BY <1>4, <1>5

\* For every plan, market and number of paths: a date that was shown before all was known
\* is the date that is shown when rates and prices have arrived, as long as something can
\* be forecast from them.
THEOREM PartialDateStays == Spec => PartialDateIsFinal
<1>1. ASSUME ProjectionInv, Next, RatesArrive \/ PricesArrive, shown.state = "partial", ~Patchy(history', rates')
      PROVE  shown'.state # "unavailable" /\ shown'.date = shown.date
  <2> DEFINE b == Snapshot(today, plan, balance, history', rates')
  <2>1. /\ today' = today /\ plan' = plan /\ balance' = balance
        /\ \/ history' = history /\ rates' = Worth
           \/ rates' = rates /\ \E c \in Cases : history' = c.history
        /\ \A s \in DOMAIN history' : s \in DOMAIN history => history[s] \subseteq history'[s]
    BY <1>1 DEF RatesArrive, PricesArrive
  <2>2. shown' = ForecastFromSnapshot(b, Years, market)
    BY <1>1, <2>1 DEF Next, Look
  <2>3. shown = ForecastFromSnapshot(Now, Years, market)
    BY <1>1 DEF ProjectionInv, Look, Now
  <2>4. /\ Now = [asOf |-> today, balance |-> balance, target |-> target, savings |-> plan.savings,
                  events |-> Now.events, rates |-> rates, history |-> [s \in DOMAIN history |-> {d \in history[s] : d <= today}],
                  stocks |-> stocks, held |-> IF stocks THEN Foreign ELSE {}]
        /\ b = [asOf |-> today, balance |-> balance, target |-> target, savings |-> plan.savings,
                events |-> Now.events, rates |-> rates', history |-> [s \in DOMAIN history' |-> {d \in history'[s] : d <= today}],
                stocks |-> stocks, held |-> IF stocks THEN Foreign ELSE {}]
    BY DEF Now, Snapshot
  <2> HIDE DEF b
  <2>5. /\ b.asOf = Now.asOf /\ b.balance = Now.balance /\ b.target = Now.target /\ b.savings = Now.savings
        /\ b.events = Now.events /\ b.stocks = Now.stocks /\ b.held = Now.held
        /\ b.rates = rates' /\ b.history = [s \in DOMAIN history' |-> {d \in history'[s] : d <= today}]
        /\ DOMAIN b = Fields
    BY <2>4 DEF Fields
  <2>6. DOMAIN Now = Fields /\ Now.held \subseteq Foreign /\ Now.rates = rates
    BY <2>4 DEF Fields
  <2>7. /\ rates \in Rates /\ rates' \in Rates
        /\ \A c \in Foreign : rates[c] # 0 => rates'[c] = rates[c]
    <3>1. rates \in Rates /\ Worth \in Rates
      BY <1>1, ProjectionAssumption DEF ProjectionInv, Known, Rates
    <3> QED
      BY <2>1, <3>1 DEF Rates
  <2>8. /\ DOMAIN history' = {"own", "benchmark"} \cup Foreign /\ DOMAIN history = DOMAIN history'
        /\ \A s \in DOMAIN history' : history'[s] \in SUBSET Int /\ IsFiniteSet(history'[s])
    <3>1. history \in Histories /\ \A s \in DOMAIN history : IsFiniteSet(history[s])
      BY <1>1 DEF ProjectionInv, Known
    <3>2. history' \in Histories /\ \A s \in DOMAIN history' : IsFiniteSet(history'[s])
      BY <2>1, <3>1, CaseAssumption
    <3> QED
      BY <3>1, <3>2 DEF Histories
  <2>9. /\ Fits(Now) /\ \A e \in Now.events : e.amount \in Int /\ e.currency \in {"CNY"} \cup Foreign
    BY <1>1, NowFits
  <2>10. Fits(b)
    <3>1. \A e \in b.events : InYuan(b, e) \in Int
      BY <2>5, <2>7, <2>9 DEF InYuan, Rates
    <3>2. Horizon(b, Years) = Horizon(Now, Years)
      BY <2>5 DEF Horizon
    <3> QED
      BY <2>5, <2>9, <3>1, <3>2 DEF Fits
  <2>11. ASSUME NEW c \in Foreign
         PROVE  /\ Now.history[c] \subseteq b.history[c]
                /\ b.history[c] \in SUBSET Int /\ IsFiniteSet(b.history[c])
    <3>1. /\ Now.history[c] = {d \in history[c] : d <= today} /\ b.history[c] = {d \in history'[c] : d <= today}
          /\ history[c] \subseteq history'[c] /\ history'[c] \in SUBSET Int /\ IsFiniteSet(history'[c])
      BY <2>1, <2>4, <2>5, <2>8
    <3>2. b.history[c] \in SUBSET history'[c]
      BY <3>1
    <3> QED
      BY <3>1, <3>2, FS_Subset
  <2>12. KnowsMore(Now, b)
    BY <2>5, <2>6, <2>7, <2>9, <2>11 DEF KnowsMore, Fields
  <2>13. Possible(Sure(b), Years)
    BY <1>1 DEF Patchy, b
  <2>14. market \in Markets
    BY <1>1 DEF ProjectionInv, Money
  <2> QED
    BY <1>1, <2>2, <2>3, <2>9, <2>10, <2>12, <2>13, <2>14, DateRemains
<1>2. ASSUME ProjectionInv, [Next]_vars
      PROVE  [(RatesArrive \/ PricesArrive) /\ shown.state = "partial" =>
                (shown'.state # "unavailable" /\ shown'.date = shown.date) \/ Patchy(history', rates')]_vars
  BY <1>1, <1>2
<1> QED
  BY <1>2, ProjectionHolds, PTL DEF Spec, PartialDateIsFinal

-----------------------------------------------------------------------------
(* A date that was shown stays *)

\* The same month of two years differs by a leap day at most.
LEMMA MonthLengths ==
  ASSUME NEW k \in Int, NEW y \in Nat
  PROVE  MonthStart(k + 1) - MonthStart(k) <= MonthStart(k + 12 * y + 1) - MonthStart(k + 12 * y) + 1
<1> DEFINE x == k \div 12
           m == k % 12
           j == k + 12 * y
<1>1. x \in Int /\ m \in 0..11 /\ k = 12 * x + m /\ j \in Int /\ j = 12 * (x + y) + m /\ x + y \in Int
  OBVIOUS
<1>2. InYear(k, x, m) /\ InYear(j, x + y, m)
  BY <1>1, MonthTable
<1> HIDE DEF x, m, j
<1>3. MonthStart(k + 1) - MonthStart(k) <= MonthStart(j + 1) - MonthStart(j) + 1
  <2> DEFINE z == x + y
  <2>1. InYear(j, z, m) /\ m \in 0..11
    BY <1>1, <1>2
  <2> HIDE DEF z
  <2> QED
    BY <1>2, <2>1 DEF InYear
<1> QED
  BY <1>3 DEF j

\* A year more is a later day, or the same: 29 February and 1 March have one anniversary.
LEMMA YearsKeepOrder ==
  ASSUME NEW d \in Int, NEW x \in Int, d <= x, NEW y \in Nat
  PROVE  AddDate(d, y, 0, 0) <= AddDate(x, y, 0, 0)
<1> DEFINE j == MonthOf(d)
           k == MonthOf(x)
           n == 12 * y
<1>1. /\ j \in Int /\ MonthStart(j) <= d /\ d < MonthStart(j + 1)
      /\ k \in Int /\ MonthStart(k) <= x /\ x < MonthStart(k + 1)
  BY MonthOfDay
<1>2. n \in Int /\ n \div 12 = y /\ n % 12 = 0
  OBVIOUS
<1>3. /\ AddDate(d, y, 0, 0) = MonthStart(j + n + 0) + (d - MonthStart(j)) + 0
      /\ AddDate(x, y, 0, 0) = MonthStart(k + n + 0) + (x - MonthStart(k)) + 0
  BY DEF AddDate
<1> HIDE DEF j, k
<1>4. j + n + 0 = j + n /\ k + n + 0 = k + n /\ j + n \in Int /\ k + n \in Int /\ j + 1 \in Int
  BY <1>1, <1>2
<1>5. ASSUME NEW m \in Int
      PROVE  MonthStart(m) \in Int
  BY MonthFacts
<1>6. CASE j = k
  BY <1>1, <1>3, <1>4, <1>5, <1>6
<1>7. CASE j < k
  <2>1. MonthStart(j + 1) - MonthStart(j) <= MonthStart(j + n + 1) - MonthStart(j + n) + 1
    BY <1>1, MonthLengths
  <2>2. MonthStart(j + n + 1) <= MonthStart(k + n)
    BY <1>4, <1>1, <1>2, <1>7, MonthOrder
  <2> DEFINE a == MonthStart(j)
             b == MonthStart(j + 1)
             c == MonthStart(j + n)
             e == MonthStart(j + n + 1)
             f == MonthStart(k + n)
             g == MonthStart(k)
  <2>3. j + n + 1 \in Int
    BY <1>4
  <2>4. a \in Int /\ b \in Int /\ c \in Int /\ e \in Int /\ f \in Int /\ g \in Int
    BY <1>1, <1>4, <1>5, <2>3
  <2>5. AddDate(d, y, 0, 0) = c + (d - a) /\ AddDate(x, y, 0, 0) = f + (x - g)
    BY <1>3, <1>4, <2>4
  <2>6. b - a <= e - c + 1 /\ e <= f /\ d < b /\ g <= x
    BY <1>1, <2>1, <2>2
  <2> HIDE DEF a, b, c, e, f, g, n
  <2> QED
    BY <2>4, <2>5, <2>6
<1>8. ~(k < j)
  <2>1. SUFFICES ASSUME k < j PROVE FALSE
    OBVIOUS
  <2>2. MonthStart(k + 1) <= MonthStart(j)
    BY <1>1, <2>1, MonthOrder
  <2>3. MonthStart(k + 1) \in Int /\ MonthStart(j) \in Int
    BY <1>1, <1>5
  <2> QED
    BY <1>1, <2>2, <2>3
<1> QED
  BY <1>1, <1>6, <1>7, <1>8

\* What is paid until a day is paid until a day before, and since.
LEMMA ReceiptsParts ==
  ASSUME PlanOK, NEW a \in Int, NEW b \in Int, NEW c \in Int, a <= b, b <= c
  PROVE  Receipts(a, c) = Receipts(a, b) + Receipts(b, c)
<1> DEFINE all == CompensationEvents(plan, a, c)
           past == CompensationEvents(plan, a, b)
           later == CompensationEvents(plan, b, c)
           paid(S) == [e \in S |-> InYuanOf(e)]
           ends(x, y) == Cardinality(MonthEnds(x, y))
<1>1. past \in SUBSET all /\ later \in SUBSET all /\ past \cup later = all /\ past \cap later = {}
  <2> DEFINE comes == Bonuses(plan) \cup Batches(plan)
  <2>1. Valid(plan) /\ Dated(plan.grants)
    BY DEF PlanOK
  <2>2. \A e \in comes : e.date \in Int
    BY <2>1, BonusDate, BatchDate
  <2>3. /\ all = {e \in comes : a < e.date /\ e.date <= c}
        /\ past = {e \in comes : a < e.date /\ e.date <= b}
        /\ later = {e \in comes : b < e.date /\ e.date <= c}
    BY <2>1, ComesWithin
  <2> HIDE DEF comes, all, past, later
  <2> QED
    BY <2>2, <2>3
<1>2. /\ IsFiniteSet(all) /\ \A e \in all : InYuanOf(e) \in Int
      /\ Receipts(a, c) = Total(paid(all), all) + plan.savings * ends(a, c)
      /\ Receipts(a, b) = Total(paid(past), past) + plan.savings * ends(a, b)
      /\ Receipts(b, c) = Total(paid(later), later) + plan.savings * ends(b, c)
      /\ Total(paid(all), all) \in Int /\ Total(paid(past), past) \in Int /\ Total(paid(later), later) \in Int
  BY ReceiptsFacts
<1> HIDE DEF all, past, later
<1>3. Total(paid(all), all) = Total(paid(past), past) + Total(paid(later), later)
  <2> DEFINE f == paid(all)
  <2>1. \A e \in all : f[e] \in Int
    BY <1>2
  <2>2. /\ \A e \in past : f[e] = paid(past)[e]
        /\ \A e \in later : f[e] = paid(later)[e]
    BY <1>1
  <2>3. IsFiniteSet(past) /\ IsFiniteSet(later)
    BY <1>1, <1>2, FS_Subset
  <2> HIDE DEF f, paid
  <2>4. Total(f, past \cup later) = Total(f, past) + Total(f, later)
    BY <1>1, <1>2, <2>1, TotalParts
  <2>5. Total(f, past) = Total(paid(past), past) /\ Total(f, later) = Total(paid(later), later)
    BY <2>2, <2>3, TotalSame
  <2> QED
    BY <1>1, <2>4, <2>5 DEF f
<1>4. ends(a, c) = ends(a, b) + ends(b, c)
  <2> DEFINE A == MonthEnds(a, b)
             B == MonthEnds(b, c)
  <2>1. \A x, y \in Int : MonthEnds(x, y) = {d \in Int : x < d /\ d <= y /\ MonthTurns(d)}
    BY DEF MonthEnds
  <2>2. MonthEnds(a, c) = A \cup B /\ A \cap B = {}
    BY <2>1
  <2>3. IsFiniteSet(A) /\ IsFiniteSet(B) /\ Cardinality(A) \in Nat /\ Cardinality(B) \in Nat
    BY MonthEndsFacts
  <2> HIDE DEF A, B
  <2>4. Cardinality(A \cup B) = Cardinality(A) + Cardinality(B) - Cardinality(A \cap B)
    BY <2>3, FS_Union
  <2>5. Cardinality(A \cap B) = 0
    BY <2>2, FS_EmptySet
  <2> QED
    BY <2>2, <2>3, <2>4, <2>5 DEF A, B
<1>5. ends(a, b) \in Int /\ ends(b, c) \in Int /\ plan.savings \in Int
  <2>1. ends(a, b) \in Nat /\ ends(b, c) \in Nat
    BY MonthEndsFacts
  <2>2. plan.savings \in Nat
    BY DEF PlanOK
  <2> HIDE DEF ends
  <2> QED
    BY <2>1, <2>2
<1> DEFINE s == plan.savings
           m == ends(a, b)
           n == ends(b, c)
<1>6. s * (m + n) = s * m + s * n /\ s * m \in Int /\ s * n \in Int
  <2> HIDE DEF s, m, n
  <2> QED
    BY <1>5 DEF s, m, n
<1>7. plan.savings * ends(a, c) = s * m + s * n
  BY <1>4, <1>6
<1> HIDE DEF paid, ends, s, m, n
<1> QED
  BY <1>2, <1>3, <1>6, <1>7 DEF s, m, n

\* Nobody pays for being paid.
LEMMA ReceiptsGrow ==
  ASSUME PlanOK, NEW a \in Int, NEW b \in Int
  PROVE  Receipts(a, b) \in Nat
<1> DEFINE coming == CompensationEvents(plan, a, b)
           paid == [e \in coming |-> InYuanOf(e)]
<1>1. /\ IsFiniteSet(coming) /\ Total(paid, coming) \in Int
      /\ Receipts(a, b) = Total(paid, coming) + plan.savings * Cardinality(MonthEnds(a, b))
  BY ReceiptsFacts
<1>2. ASSUME NEW e \in coming
      PROVE  InYuanOf(e) \in Nat
  <2>1. Valid(plan) /\ Dated(plan.grants) /\ Counted(plan.grants) /\ plan.bonus \in Int /\ Started(plan.rule)
    BY DEF PlanOK
  <2>2. e.amount \in Int /\ e.currency \in {"CNY"} \cup Foreign
    BY <2>1, AmountFacts
  <2>3. e \in Bonuses(plan) \cup Batches(plan)
    BY <2>1, ComesWithin
  <2>4. e.amount > 0
    <3>1. CASE e \in Bonuses(plan)
      BY <3>1 DEF Bonuses, BonusEvent
    <3>2. CASE e \in Batches(plan)
      BY <3>2 DEF Batches, BatchEvent
    <3> QED
      BY <2>3, <3>1, <3>2
  <2>5. CASE e.currency = "CNY"
    BY <2>2, <2>4, <2>5 DEF InYuanOf
  <2>6. CASE e.currency # "CNY"
    <3> DEFINE x == e.amount
               w == Worth[e.currency]
    <3>1. x \in Nat /\ w \in Nat
      BY <2>2, <2>4, <2>6, ProjectionAssumption
    <3>2. x * w \in Nat
      <4> HIDE DEF x, w
      <4> QED
        BY <3>1
    <3> QED
      BY <2>6, <3>2 DEF InYuanOf
  <2> QED
    BY <2>5, <2>6
<1> HIDE DEF coming
<1>3. \A e \in coming : paid[e] \in Nat
  BY <1>2
<1> HIDE DEF paid
<1>4. Total(paid, coming) \in Nat
  BY <1>1, <1>3, TotalNat
<1>5. plan.savings * Cardinality(MonthEnds(a, b)) \in Nat
  <2> DEFINE s == plan.savings
             n == Cardinality(MonthEnds(a, b))
  <2>1. s \in Nat /\ n \in Nat
    BY MonthEndsFacts DEF PlanOK
  <2> HIDE DEF s, n
  <2>2. s * n \in Nat
    BY <2>1
  <2> QED
    BY <2>2 DEF s, n
<1> QED
  BY <1>1, <1>4, <1>5

\* The days on which the target is reached, for money that does not grow.
FinalDay == AddDate(today, Years, 0, 0)
Rich == {d \in Int : target > 0 /\ balance + Receipts(today, d) >= target}

\* The day is the first on which the target is reached.
FirstRich(date) ==
  /\ date # Never => date \in Int /\ today <= date /\ date <= FinalDay /\ date \in Rich
  /\ \A d \in Int : today <= d /\ d <= FinalDay /\ d \in Rich => date # Never /\ date <= d

LEMMA FirstOfWalks ==
  ASSUME ProjectionInv, Steady, NEW in, Fits(in), in.asOf = today, in.balance = balance, in.target = target,
         \A d \in Int : today <= d /\ d <= FinalDay => Cash(in, d) = Receipts(today, d)
  PROVE  FirstRich(RetirementDate(Walks(in)))
<1> DEFINE date == RetirementDate(Walks(in))
<1>0. End(in) = FinalDay /\ market \in Markets
  BY NowFits DEF ProjectionInv, Money, FinalDay, End, Horizon
<1>1. /\ today \in Int /\ FinalDay \in Int /\ today < FinalDay /\ balance \in Int /\ target \in Int /\ Never \notin Int
  BY <1>0, HorizonFacts, ForecastAssumption DEF ProjectionInv, Money
<1>2. ASSUME NEW d \in Int, today <= d, d <= FinalDay
      PROVE  d \in Rich <=> target > 0 /\ balance + Cash(in, d) >= target
  BY <1>2 DEF Rich
<1>3. date = IF target <= 0 THEN Never
             ELSE IF balance >= target THEN today
             ELSE IF Enough(in) = {} THEN Never ELSE Min(Enough(in))
  BY <1>0, SameDate, DayByDay DEF End
<1> SUFFICES FirstRich(date)
  OBVIOUS
<1> HIDE DEF date
<1>4. /\ \A d \in Int : Cash(in, d) \in Int
      /\ Cash(in, today) = 0
  BY <1>0, CashType, CashStep
<1>5. \A d \in Int : d \in Enough(in) <=> today < d /\ d <= FinalDay /\ balance + Cash(in, d) >= target
  BY <1>0, <1>1 DEF Enough
<1>6. Enough(in) # {} => /\ Min(Enough(in)) \in Enough(in) /\ Min(Enough(in)) \in Int
                          /\ \A x \in Enough(in) : Min(Enough(in)) <= x
  <2>1. Enough(in) \in SUBSET (today + 1..FinalDay) /\ Enough(in) \subseteq Int
    BY <1>0, <1>1 DEF Enough
  <2>2. IsFiniteSet(Enough(in))
    <3>1. today + 1 \in Int
      BY <1>1
    <3>2. IsFiniteSet(today + 1..FinalDay)
      BY <1>1, <3>1, FS_Interval
    <3> QED
      BY <2>1, <3>2, FS_Subset
  <2> QED
    BY <2>1, <2>2, MaxFacts
<1>7. CASE target <= 0
  <2>1. \A d \in Int : today <= d /\ d <= FinalDay => d \notin Rich
    BY <1>1, <1>2, <1>7
  <2> QED
    BY <1>3, <1>7, <2>1 DEF FirstRich
<1>8. CASE target > 0 /\ balance >= target
  <2>1. date = today
    BY <1>1, <1>3, <1>8
  <2>2. today \in Rich
    BY <1>1, <1>2, <1>4, <1>8
  <2> QED
    BY <1>1, <2>1, <2>2 DEF FirstRich
<1>9. CASE target > 0 /\ ~(balance >= target)
  <2>1. date = IF Enough(in) = {} THEN Never ELSE Min(Enough(in))
    BY <1>1, <1>3, <1>9
  <2>2. \A d \in Int : today <= d /\ d <= FinalDay => (d \in Rich <=> d \in Enough(in))
    <3>1. today \notin Rich
      BY <1>1, <1>2, <1>4, <1>9
    <3> QED
      BY <1>1, <1>2, <1>5, <1>9, <3>1
  <2>3. CASE Enough(in) = {}
    BY <1>1, <2>1, <2>2, <2>3 DEF FirstRich
  <2>4. CASE Enough(in) # {}
    <3> DEFINE m == Min(Enough(in))
    <3>1. /\ m \in Int /\ today < m /\ m <= FinalDay /\ m \in Enough(in) /\ date = m
          /\ \A x \in Enough(in) : m <= x
      BY <1>5, <1>6, <2>1, <2>4
    <3> HIDE DEF m
    <3>2. m \in Rich /\ m # Never
      BY <1>1, <2>2, <3>1
    <3>3. \A d \in Int : today <= d /\ d <= FinalDay /\ d \in Rich => m <= d
      BY <2>2, <3>1
    <3> QED
      BY <1>1, <3>1, <3>2, <3>3 DEF FirstRich
  <2> QED
    BY <2>3, <2>4
<1> QED
  BY <1>1, <1>7, <1>8, <1>9

\* The snapshot in which every currency has its rate: income counts as it is paid.
Paid == [Now EXCEPT !.rates = Worth]

LEMMA PaidFacts ==
  ASSUME ProjectionInv
  PROVE  /\ Fits(Paid) /\ KnowsMore(Now, Paid)
         /\ Paid.asOf = today /\ Paid.balance = balance /\ Paid.target = target /\ Paid.savings = plan.savings
         /\ Paid.events = Now.events /\ \A e \in Paid.events : InYuan(Paid, e) = InYuanOf(e)
<1>1. /\ Fits(Now) /\ Now.asOf = today /\ Now.balance = balance /\ Now.target = target
      /\ Now.savings = plan.savings /\ Now.rates = rates
      /\ \A e \in Now.events : e.amount \in Int /\ e.currency \in {"CNY"} \cup Foreign
  BY NowFits
<1>2. DOMAIN Now = Fields /\ Now.held \subseteq Foreign
  BY DEF Now, Snapshot, Fields
<1>3. /\ DOMAIN Paid = Fields /\ Paid.rates = Worth
      /\ \A f \in Fields \ {"rates"} : Paid[f] = Now[f]
  BY <1>2 DEF Paid, Fields
<1>4. /\ Paid.asOf = today /\ Paid.balance = balance /\ Paid.target = target /\ Paid.savings = plan.savings
      /\ Paid.events = Now.events
  BY <1>1, <1>3 DEF Fields
<1>5. \A e \in Paid.events : InYuan(Paid, e) = InYuanOf(e) /\ InYuan(Paid, e) \in Int
  BY <1>1, <1>3, <1>4, ProjectionAssumption DEF InYuan, InYuanOf
<1>6. Fits(Paid)
  <2>1. Horizon(Paid, Years) = Horizon(Now, Years)
    BY <1>1, <1>4 DEF Horizon
  <2> QED
    BY <1>1, <1>4, <1>5, <2>1 DEF Fits
<1>7. ASSUME NEW c \in Foreign
      PROVE  /\ Now.rates[c] # 0 => Paid.rates[c] = Now.rates[c]
             /\ Paid.history[c] = Now.history[c] /\ Paid.history[c] \in SUBSET Int /\ IsFiniteSet(Paid.history[c])
  <2>1. Paid.history = Now.history
    BY <1>3 DEF Fields
  <2>2. c \in DOMAIN history
    BY SnapshotFacts
  <2>3. Now.history[c] \in SUBSET Int /\ IsFiniteSet(Now.history[c])
    BY <2>2, SnapshotFacts
  <2>4. rates[c] # 0 => rates[c] = Worth[c]
    BY DEF ProjectionInv, Known, Rates
  <2> QED
    BY <1>1, <1>3, <2>1, <2>3, <2>4
<1>8. KnowsMore(Now, Paid)
  BY <1>1, <1>2, <1>3, <1>7 DEF KnowsMore
<1> QED
  BY <1>4, <1>5, <1>6, <1>8

\* The date that is shown, of the whole forecast or before all is known, is the first on
\* which the target is reached.
ShownFirst == Steady /\ shown.state # "unavailable" => FirstRich(shown.date)

LEMMA ShownFirstHolds ==
  ASSUME ProjectionInv
  PROVE  ShownFirst
<1> SUFFICES ASSUME Steady, shown.state # "unavailable" PROVE FirstRich(shown.date)
  BY DEF ShownFirst
<1>1. shown = ForecastFromSnapshot(Now, Years, market)
  BY DEF ProjectionInv, Look, Now
<1>2. /\ Fits(Now) /\ Now.asOf = today /\ Now.balance = balance /\ Now.target = target
      /\ Now.savings = plan.savings /\ End(Now) = FinalDay
  BY NowFits DEF FinalDay
<1>3. CASE shown.state = "ready"
  <2>1. \A e \in Now.events : InYuan(Now, e) = InYuanOf(e)
    BY <1>3, ShownFacts, WorthKnown
  <2>2. \A d \in Int : today <= d /\ d <= FinalDay => Cash(Now, d) = Receipts(today, d)
    BY <1>2, <2>1, CashIsReceipts
  <2>3. FirstRich(RetirementDate(Walks(Now)))
    BY <1>2, <2>2, FirstOfWalks
  <2> QED
    BY <1>3, <2>3, ShownFacts
<1>4. CASE shown.state = "partial"
  <2>1. \A d \in Int : today <= d /\ d <= FinalDay => Cash(Paid, d) = Receipts(today, d)
    BY <1>2, PaidFacts, CashIsReceipts
  <2>2. FirstRich(RetirementDate(Walks(Paid)))
    BY <2>1, PaidFacts, FirstOfWalks
  <2>3. RetirementDate(Walks(Paid)) = shown.date
    BY <1>1, <1>2, <1>4, PaidFacts, DateKnown DEF ProjectionInv, Money
  <2> QED
    BY <2>2, <2>3
<1>5. shown.state \in {"ready", "partial", "unavailable"}
  BY <1>1, PartialFacts
<1> QED
  BY <1>3, <1>4, <1>5

\* There is no forecast only where there is no simulation.
Missing == shown.state = "unavailable" => ~Possible(Now, Years)

LEMMA MissingHolds ==
  ASSUME ProjectionInv
  PROVE  Missing
<1> SUFFICES ASSUME Possible(Now, Years) PROVE shown.state = "ready"
  BY DEF Missing
<1>1. shown = ForecastFromSnapshot(Now, Years, market)
  BY DEF ProjectionInv, Look, Now
<1>2. \A c \in Now.held : Now.rates[c] # 0
  BY DEF Possible, Needed
<1> QED
  BY <1>1, <1>2, PartialFacts, SimulationFacts

\* For every plan, day and later day: when income comes as the plan says and is entered as
\* balance, the later look shows the date that was shown before, or the day itself once that
\* is past, and a date that was not in sight comes after the horizon there was; unless there
\* is no forecast then, for want of rates or history.
THEOREM DateStays == Spec => PromiseIsKept
<1>1. ASSUME ProjectionInv, ShownFirst, ProjectionInv', ShownFirst', Next,
             LiveOn, Steady, shown.state # "unavailable", shown'.state # "unavailable"
      PROVE  Promise
  <2>1. /\ plan' = plan /\ target' = target /\ market' = market
        /\ balance' = balance + Receipts(today, today')
    BY <1>1 DEF LiveOn
  <2>2. /\ today \in Int /\ today' \in Int /\ PlanOK /\ balance \in Int /\ target \in Int
    BY <1>1, DayFacts DEF ProjectionInv, Money
  <2>3. today < today'
    <3> DEFINE later == {d \in Days : d > today}
    <3>1. today' = Min(later) /\ today < Max(Days) /\ IsFiniteSet(Days) /\ Days \subseteq Int /\ Days # {}
      BY <1>1, ProjectionAssumption DEF LiveOn
    <3>2. Max(Days) \in Days
      BY <3>1, MaxFacts
    <3>3. later \in SUBSET Days /\ later # {}
      BY <2>2, <3>1, <3>2
    <3>4. IsFiniteSet(later) /\ later \subseteq Int
      BY <3>1, <3>3, FS_Subset
    <3>5. Min(later) \in later
      <4> HIDE DEF later
      <4> QED
        BY <3>3, <3>4, MaxFacts
    <3> QED
      BY <3>1, <3>5
  <2>4. Steady'
    BY <1>1, <2>1 DEF Steady
  <2>5. /\ FinalDay = AddDate(today, Years, 0, 0) /\ FinalDay' = AddDate(today', Years, 0, 0)
        /\ Horizon(Now, Years) = FinalDay /\ Years \in Nat
    BY ProjectionAssumption DEF FinalDay, Horizon, Now, Snapshot
  <2>6. FinalDay \in Int /\ FinalDay' \in Int /\ FinalDay <= FinalDay' /\ today' <= FinalDay'
    BY <2>2, <2>3, <2>5, HorizonIsLater, YearsKeepOrder
  <2>7. ASSUME NEW d \in Int, today' <= d
        PROVE  (d \in Rich') <=> d \in Rich
    <3>1. Receipts(today, d) = Receipts(today, today') + Receipts(today', d)
      BY <2>2, <2>3, <2>7, ReceiptsParts
    <3>2. (d \in Rich') <=> target > 0 /\ balance + Receipts(today, today') + Receipts(today', d) >= target
      BY <2>1 DEF Rich, Receipts
    <3>3. Receipts(today, today') \in Int /\ Receipts(today', d) \in Int
      BY <2>2, ReceiptsFacts
    <3> QED
      BY <2>2, <3>1, <3>2, <3>3 DEF Rich
  <2>8. ASSUME NEW d \in Int, today <= d, d <= today', d \in Rich
        PROVE  today' \in Rich
    <3>1. Receipts(today, today') = Receipts(today, d) + Receipts(d, today')
      BY <2>2, <2>8, ReceiptsParts
    <3>2. Receipts(today, d) \in Int /\ Receipts(d, today') \in Nat
      BY <2>2, ReceiptsFacts, ReceiptsGrow
    <3> QED
      BY <2>2, <2>8, <3>1, <3>2 DEF Rich
  <2> DEFINE a == shown.date
             b == shown'.date
             t == today'
             now == Rich'
  <2>9. /\ a # Never => a \in Int /\ today <= a /\ a <= FinalDay /\ a \in Rich
        /\ \A d \in Int : today <= d /\ d <= FinalDay /\ d \in Rich => a # Never /\ a <= d
    BY <1>1 DEF ShownFirst, FirstRich
  <2>10. /\ b # Never => b \in Int /\ t <= b /\ b <= FinalDay' /\ b \in now
         /\ \A d \in Int : t <= d /\ d <= FinalDay' /\ d \in now => b # Never /\ b <= d
    BY <1>1, <2>4 DEF ShownFirst, FirstRich
  <2>11. \A d \in Int : t <= d => (d \in now <=> d \in Rich)
    BY <2>7
  <2> HIDE DEF a, b, t, now
  <2>12. CASE a # Never
    <3>1. CASE a <= t
      <4>1. t \in now
        BY <2>2, <2>8, <2>9, <2>11, <2>12, <3>1 DEF t
      <4>2. b # Never /\ b <= t
        BY <2>2, <2>6, <2>10, <4>1 DEF t
      <4>3. b \in Int /\ t <= b
        BY <2>10, <4>2
      <4>4. b = t
        BY <2>2, <4>2, <4>3 DEF t
      <4>5. Later(a, t) = t
        BY <2>2, <2>9, <2>12, <3>1 DEF Later, t
      <4> QED
        BY <2>12, <4>4, <4>5 DEF Promise, a, b, t
    <3>2. CASE ~(a <= t)
      <4>1. a \in Int /\ t \in Int /\ t < a /\ a <= FinalDay /\ a \in Rich
        BY <2>2, <2>9, <2>12, <3>2 DEF t
      <4>2. a \in now /\ a <= FinalDay'
        BY <2>6, <2>11, <4>1
      <4>3. b # Never /\ b <= a /\ b \in Int /\ t <= b /\ b \in now
        BY <2>10, <4>1, <4>2
      <4>4. b \in Rich /\ today <= b /\ b <= FinalDay
        BY <2>2, <2>3, <2>6, <2>11, <4>1, <4>3 DEF t
      <4>5. a <= b
        BY <2>9, <4>3, <4>4
      <4>6. b = a
        BY <4>1, <4>3, <4>5
      <4>7. Later(a, t) = a
        BY <4>1 DEF Later
      <4> QED
        BY <2>12, <4>6, <4>7 DEF Promise, a, b, t
    <3> QED
      BY <3>1, <3>2
  <2>13. CASE a = Never
    <3>1. SUFFICES ASSUME b # Never PROVE b > FinalDay
      BY <2>5, <2>13 DEF Promise, a, b
    <3>2. b \in Int /\ t <= b /\ b \in now
      BY <2>10, <3>1
    <3>3. b \in Rich /\ today <= b
      BY <2>2, <2>3, <2>11, <3>2 DEF t
    <3>4. ~(b <= FinalDay)
      BY <2>9, <2>13, <3>2, <3>3
    <3> QED
      BY <2>6, <3>2, <3>4
  <2> QED
    BY <2>12, <2>13
<1>2. ASSUME ProjectionInv, Missing', Next, LiveOn, shown'.state = "unavailable"
      PROVE  Lapses
  <2>1. Now' = Snapshot(today', plan, balance', history, rates)
    BY <1>2 DEF LiveOn, Now, Snapshot
  <2> QED
    BY <1>2, <2>1 DEF Missing, Lapses
<1>3. ProjectionInv => ShownFirst /\ Missing
  BY ShownFirstHolds, MissingHolds
<1>4. ASSUME ProjectionInv, ShownFirst, ProjectionInv', ShownFirst', Missing', [Next]_vars
      PROVE  [LiveOn /\ Steady /\ shown.state # "unavailable" => Promise \/ Lapses]_vars
  BY <1>1, <1>2, <1>4
<1> QED
  BY <1>3, <1>4, ProjectionHolds, PTL DEF Spec, PromiseIsKept

\* Nothing that is held or comes needs a rate or a history.
InYuanOnly == ~stocks /\ \A g \in DOMAIN plan.grants : plan.grants[g].currency = "CNY"

LEMMA ReadyInYuan ==
  ASSUME ProjectionInv, InYuanOnly
  PROVE  shown.state = "ready"
<1>1. shown = ForecastFromSnapshot(Now, Years, market)
  BY DEF ProjectionInv, Look, Now
<1>2. Now.held = {} /\ Now.stocks = FALSE /\ Now.events = CompensationEvents(plan, today, End(Now))
  BY HorizonFacts DEF InYuanOnly, ProjectionInv, Known, Now, Snapshot, End, Horizon
<1>3. \A e \in Now.events : e.currency = "CNY"
  BY <1>2 DEF CompensationEvents, BonusEvents, GrantEvents, InYuanOnly
<1>4. Needed(Now, Years) = {}
  BY <1>2, <1>3 DEF Needed
<1>5. PrepareModel(Now.history, Now.stocks, {}, Now.asOf).ready
  BY <1>2 DEF PrepareModel, Model
<1>6. SimulateForecast(Now, Years, market).state = "ready"
  BY <1>4, <1>5 DEF Possible, SimulateForecast
<1> QED
  BY <1>1, <1>2, <1>6 DEF ForecastFromSnapshot

\* A plan in yuan always has a forecast, and a date that is shown stays: there is no later
\* look at which the promise could lapse.
THEOREM DateStaysInYuan ==
  Spec => [][LiveOn /\ Steady /\ InYuanOnly => shown.state = "ready" /\ shown'.state = "ready" /\ Promise]_vars
<1>1. ProjectionInv => (InYuanOnly => shown.state = "ready")
  BY ReadyInYuan
<1> DEFINE Ready == InYuanOnly => shown.state = "ready"
<1>2. ASSUME Ready, Ready', [Next]_vars,
             [LiveOn /\ Steady /\ shown.state # "unavailable" => Promise \/ Lapses]_vars
      PROVE  [LiveOn /\ Steady /\ InYuanOnly => shown.state = "ready" /\ shown'.state = "ready" /\ Promise]_vars
  <2>1. LiveOn /\ InYuanOnly => InYuanOnly'
    BY DEF LiveOn, InYuanOnly
  <2> HIDE DEF LiveOn
  <2> QED
    BY <1>2, <2>1 DEF Lapses
<1> QED
  BY <1>1, <1>2, ProjectionHolds, DateStays, PTL DEF Spec, PromiseIsKept

===============================================================================
