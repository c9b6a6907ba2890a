-------------------------------- MODULE Sampling --------------------------------
(***************************************************************************)
(* What a forecast learns from market history: the months whose returns    *)
(* are known for every series that takes part, and the blocks of three     *)
(* months a simulated path is put together from.                           *)
(*                                                                         *)
(* A history is the set of days for which a price is stored.  The return   *)
(* of a month is named by the two days it is calculated from.              *)
(***************************************************************************)
EXTENDS Calendar, SequencesExt

\* A set of numbers as a sequence: SetToSortSeq of the community modules tries every
\* permutation.
InOrder(S) ==
  LET ranked == {<<Cardinality({y \in S : y <= x}), x>> : x \in S}
  IN  [i \in 1..Cardinality(S) |-> (CHOOSE r \in ranked : r[1] = i)[2]]

ModelMonths == 36      \* months that must be known, together and in a row
BenchmarkMonths == 60
Blocks == 12           \* beginnings to draw from

\* The days that count at a date: those before its month, ten years back.
Usable_All(history, at) == history
Usable(history, at) ==
  LET cutoff == MonthStart(MonthOf(at))
      from == AddDate(cutoff, -10, 0, -10)
  IN  {d \in history : from <= d /\ d < cutoff}

LastDays(days) ==
  [k \in {MonthOf(d) : d \in days} |-> Max((MonthStart(k)..MonthEnd(k)) \cap days)]

\* The last price of a month must be of its last week.
EndsInTime(last, k) == k \in DOMAIN last /\ MonthEnd(k) - last[k] <= 7

\* MonthlyReturns: from the last price of a month to the last one of the next.
MonthlyReturns_Bridging(history, at) ==
  LET last == LastDays(Usable(history, at))
      before(k) == {j \in DOMAIN last : j < k}
  IN  [k \in {k \in DOMAIN last : before(k) # {} /\ EndsInTime(last, k)} |->
         <<last[Max(before(k))], last[k]>>]
Returns(last) ==
  [k \in {k \in DOMAIN last : EndsInTime(last, k) /\ EndsInTime(last, k - 1)} |-> <<last[k - 1], last[k]>>]
MonthlyReturns(history, at) == Returns(LastDays(Usable(history, at)))

\* EstimateDrift counts the months a security shares with its benchmark; with too
\* few of them it is simulated like the benchmark.
Shared(own, base) == Cardinality(DOMAIN own \cap DOMAIN base)
Simulated_BenchmarkOnly(own, base) == {base}
Simulated(own, base) == IF Shared(own, base) >= ModelMonths THEN {base, own} ELSE {base}

CommonMonths(returns) ==
  InOrder({k \in DOMAIN (CHOOSE r \in returns : TRUE) : \A r \in returns : k \in DOMAIN r})

InARow(months) ==
  \E i \in DOMAIN months : LET j == i + ModelMonths - 1
                           IN  j <= Len(months) /\ months[j] = months[i] + ModelMonths - 1

BlockStarts_TwoMonths(months) ==
  {i \in 1..Len(months) - 2 : months[i + 1] = months[i] + 1}
BlockStarts(months) ==
  {i \in 1..Len(months) - 2 : months[i + 1] = months[i] + 1 /\ months[i + 2] = months[i] + 2}

\* A forecast cannot be made.
Unavailable == [ready |-> FALSE, months |-> <<>>, starts |-> {}]
Model(returns) ==
  LET months == CommonMonths(returns)
  IN  IF returns = {} THEN [ready |-> TRUE, months |-> <<>>, starts |-> {}]
      ELSE IF /\ Len(months) >= ModelMonths
              /\ InARow(months)
              /\ Cardinality(BlockStarts(months)) >= Blocks
           THEN [ready |-> TRUE, months |-> months, starts |-> BlockStarts(months)]
           ELSE Unavailable

\* prepareForecastModel for holdings without a market (stocks = FALSE) or with a
\* security and its benchmark, and for the currencies its money comes in.
PrepareModel(history, stocks, currencies, at) ==
  LET own == MonthlyReturns(history.own, at)
      base == MonthlyReturns(history.benchmark, at)
      fx == {MonthlyReturns(history[c], at) : c \in currencies}
  IN  IF \/ /\ stocks
            /\ \/ Cardinality(DOMAIN base) < BenchmarkMonths
               \/ Cardinality(history.own) < 2
         \/ \E r \in fx : Cardinality(DOMAIN r) < ModelMonths
      THEN Unavailable
      ELSE Model((IF stocks THEN Simulated(own, base) ELSE {}) \cup fx)

\* observationAt: is there a price of the last seven days?
Observed(history, at) == \E d \in history : at - 7 <= d /\ d <= at

\* BacktestForecast: a year apart, the first days of the month from which a forecast
\* over that many years is compared with what came.
BacktestDays(at, years) ==
  LET cutoff == MonthStart(MonthOf(at))
  IN  {AddDate(cutoff, n - 5, 0, 0) : n \in 0..5 - years}

Comparable_Recent(history, stocks, currencies, at, years) ==
  \A s \in currencies \cup (IF stocks THEN {"own"} ELSE {}) :
    \A n \in {0, years} : Observed(history[s], AddDate(at, n, 0, 0))
\* A security needs a price of three years before, for the method it is compared with.
Comparable(history, stocks, currencies, at, years) ==
  /\ \A s \in currencies \cup (IF stocks THEN {"own"} ELSE {}) :
       \A n \in {0, years} : Observed(history[s], AddDate(at, n, 0, 0))
  /\ stocks => \A s \in {"own"} \cup (currencies \cap {"USD"}) : Observed(history[s], AddDate(at, -3, 0, 0))

\* The days of a report and what their forecasts learned from.
Backtest(history, stocks, currencies, at, years) ==
  {c \in {[day |-> d, model |-> PrepareModel(history, stocks, currencies, d)] :
          d \in {d \in BacktestDays(at, years) : Comparable(history, stocks, currencies, d, years)}} :
     c.model.ready}
=============================================================================
