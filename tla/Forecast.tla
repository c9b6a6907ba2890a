-------------------------------- MODULE Forecast --------------------------------
(***************************************************************************)
(* The forecast of a user's money: the days a month is cut into, the walk  *)
(* of every simulated path along them, and what is reported of the paths.  *)
(*                                                                         *)
(* Money is counted in yuan and inflation is zero.  A path multiplies the  *)
(* balance by the level its market has reached in a month; a foreign       *)
(* currency keeps its rate.  A snapshot (ForecastInput) is a record of the *)
(* day asOf, the balance, the target, the plan's savings a month, its      *)
(* events, the rates known, the history of Sampling, stocks (whether a     *)
(* security is held) and held (the foreign currencies of the balance).     *)
(***************************************************************************)
EXTENDS Compensation, Sampling

CONSTANTS Paths,   \* simulated paths are 1..Paths
          Never    \* no date

ASSUME ForecastAssumption == Paths \in Nat \ {0} /\ Never \notin Int

Earlier(a, b) == IF a < b THEN a ELSE b
Later(a, b) == IF a > b THEN a ELSE b

-----------------------------------------------------------------------------
(* forecastCheckpoints *)

Horizon(in, years) == AddDate(in.asOf, years, 0, 0)
Anniversaries(in, years) == {[year |-> y, date |-> AddDate(in.asOf, y, 0, 0)] : y \in 1..years}

\* Where month k of the horizon begins and ends.
Begin_First(in, k) == MonthStart(k)
Begin(in, k) == Later(MonthStart(k), in.asOf)
Stop(end, k) == Earlier(MonthStart(k + 1), end)

\* The days something happens on: the month or the horizon ends, savings come, a
\* year is over, other money comes.
Cuts_Savings(in, yearly, end, k) == {Stop(end, k), MonthEnd(k)} \cup {a.date : a \in yearly}
Cuts(in, yearly, end, k) ==
  {Stop(end, k), MonthEnd(k)} \cup {a.date : a \in yearly} \cup {e.date : e \in in.events}

MonthPoints(in, yearly, end, k) ==
  LET cuts == {d \in Cuts(in, yearly, end, k) : Begin(in, k) < d /\ d <= Stop(end, k)}
  IN  {[date |-> d, month |-> k,
        span |-> d - Max({Begin(in, k)} \cup {x \in cuts : x < d}),
        savings |-> d = MonthEnd(k),
        report |-> d = MonthEnd(k) /\ k = MonthOf(in.asOf),
        years |-> {a.year : a \in {a \in yearly : a.date = d}},
        events |-> {e \in in.events : e.date = d}] : d \in cuts}

\* Day by day, which is month by month too: no two months share a day.
Checkpoints(in, years) ==
  LET yearly == Anniversaries(in, years)
      end == Horizon(in, years)
      months == {k \in MonthOf(in.asOf)..MonthOf(end) : MonthStart(k) < end}
      points == UNION {MonthPoints(in, yearly, end, k) : k \in months}
      days == InOrder({c.date : c \in points})
  IN  [i \in DOMAIN days |-> LET d == days[i] IN CHOOSE c \in points : c.date = d]

-----------------------------------------------------------------------------
(* SimulateForecast *)

InYuan(in, e) == e.amount * (IF e.currency = "CNY" THEN 1 ELSE in.rates[e.currency])

SumOf(in, events) == SumFunction([e \in events |-> InYuan(in, e)])
Arriving(in, c) == SumOf(in, c.events) + (IF c.savings THEN in.savings ELSE 0)

\* The walk of a path: cash received so far, the first day on target, and what it
\* had on the days that are reported.
SetOut(in) == [cash |-> 0, years |-> <<>>, month |-> 0,
               hit |-> IF in.target > 0 /\ in.balance >= in.target THEN in.asOf ELSE Never]

Onward(in, level, w, c) ==
  LET cash == w.cash + Arriving(in, c)
      value == cash + in.balance * level[(c.month % 2) + 1]
  IN  [cash |-> cash,
       hit |-> IF w.hit = Never /\ in.target > 0 /\ value >= in.target THEN c.date ELSE w.hit,
       years |-> [y \in DOMAIN w.years \cup c.years |->
                    IF y \in c.years THEN [cash |-> cash, value |-> value] ELSE w.years[y]],
       month |-> IF c.report THEN cash ELSE w.month]

Walk(in, level, points) ==
  LET at[i \in 0..Len(points)] == IF i = 0 THEN SetOut(in) ELSE Onward(in, level, at[i - 1], points[i])
  IN  at[Len(points)]

\* The hits in order, those of a day by path.
Place(hits, p) == Cardinality({q \in DOMAIN hits : hits[q] < hits[p] \/ (hits[q] = hits[p] /\ q <= p)})
InPlace(hits, i) == hits[CHOOSE p \in DOMAIN hits : Place(hits, p) = i]

\* At least half of the paths must get there; the middle one names the day.
MiddleHit_OfHits(hits) == InPlace(hits, (Cardinality(DOMAIN hits) + 1) \div 2)
MiddleHit(hits) == InPlace(hits, (Paths - 1) \div 2 + 1)
RetirementDate(walks) ==
  LET hits == [p \in {p \in 1..Paths : walks[p].hit # Never} |-> walks[p].hit]
  IN  IF Cardinality(DOMAIN hits) >= (Paths + 1) \div 2 THEN MiddleHit(hits) ELSE Never

\* Foreign currencies a forecast needs: of the balance and of what comes in time.
Needed(in, years) ==
  LET coming == {e \in in.events : Within(e.date, in.asOf, Horizon(in, years))}
  IN  in.held \cup ({e.currency : e \in coming} \ {"CNY"})

\* After year y: the day, the cash received, and how many paths are on target.
YearReport(in, walks, y) ==
  [date |-> AddDate(in.asOf, y, 0, 0), cash |-> walks[1].years[y].cash,
   reached |-> Cardinality({p \in 1..Paths : walks[p].years[y].value >= in.target})]

NoForecast == [state |-> "unavailable", date |-> Never, series |-> <<>>, month |-> 0, hits |-> {}]

\* The rates and the history of all that is needed are there.
Possible(in, years) ==
  LET needed == Needed(in, years)
  IN  /\ \A c \in needed : in.rates[c] # 0
      /\ PrepareModel(in.history, in.stocks, needed, in.asOf).ready

SimulateForecast(in, years, market) ==
  LET points == Checkpoints(in, years)
      walks == [p \in 1..Paths |-> Walk(in, market[p], points)]
  IN  IF ~Possible(in, years) THEN NoForecast
      ELSE [state |-> "ready", date |-> RetirementDate(walks),
            series |-> [y \in 1..years |-> YearReport(in, walks, y)], month |-> walks[1].month,
            hits |-> {<<p, walks[p].hit>> : p \in 1..Paths}]

-----------------------------------------------------------------------------
(* ForecastFromSnapshot *)

\* What comes in a currency without a rate or without history is unknown.
Unknown(in) ==
  LET foreign == {e.currency : e \in in.events} \ {"CNY"}
      lacking == {c \in foreign : \/ in.rates[c] = 0
                                  \/ Cardinality(DOMAIN MonthlyReturns(in.history[c], in.asOf)) < ModelMonths}
  IN  {e \in in.events : e.currency \in lacking}

\* The snapshot with the income that is certain.
Sure(in) == [in EXCEPT !.events = @ \ Unknown(in)]

\* The date that income which is certain leads to counts when it comes before all
\* income that is not.
BeforeUnknown_Always(date, unknown) == unknown # {} /\ date # Never
BeforeUnknown(date, unknown) == /\ unknown # {} /\ date # Never
                                /\ \A e \in unknown : date < e.date

ForecastFromSnapshot(in, years, market) ==
  LET complete == \A c \in in.held : in.rates[c] # 0
      full == SimulateForecast(in, years, market)
      unknown == Unknown(in)
      prefix == SimulateForecast(Sure(in), years, market)
  IN  IF ~complete THEN NoForecast
      ELSE IF full.state = "ready" THEN full
      ELSE IF BeforeUnknown(prefix.date, unknown) THEN [NoForecast EXCEPT !.state = "partial", !.date = prefix.date]
      ELSE NoForecast

-----------------------------------------------------------------------------

\* ProjectRetirement, the same question day by day and without checkpoints.
MonthTurns(d) == MonthOf(d + 1) # MonthOf(d)
ProjectRetirement(in, last) ==
  LET savingDays == {d \in in.asOf + 1..last : MonthTurns(d)}
      money(d) == in.balance + SumOf(in, {e \in in.events : e.date <= d})
                             + in.savings * Cardinality({x \in savingDays : x <= d})
      onTarget == {d \in in.asOf + 1..last : money(d) >= in.target}
  IN  IF in.target <= 0 THEN Never
      ELSE IF in.balance >= in.target THEN in.asOf
      ELSE IF onTarget = {} THEN Never ELSE Min(onTarget)
=============================================================================
