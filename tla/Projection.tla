------------------------------- MODULE Projection -------------------------------
(***************************************************************************)
(* A user looks at the forecast while days pass, the plan is edited, rates *)
(* arrive and market history is stored or turns out to have gaps.          *)
(***************************************************************************)
EXTENDS Forecast

CONSTANTS Days,        \* the days on which somebody looks, in this instance
          Patches,     \* edits of the plan: records with some of its fields
          Cases,       \* where a behaviour starts: balance, target, whether it holds a
                       \* security, the market of each path, prices and rates stored
          Foreign,     \* currencies other than CNY
          Worth,       \* yuan for one of them
          Years        \* of the forecast

ASSUME ProjectionAssumption ==
  /\ IsFiniteSet(Days) /\ Days \subseteq Int /\ Days # {} /\ Years \in Nat \ {0}
  /\ Worth \in [Foreign -> Nat \ {0}]

\* Vesting and cashing days are dates, and a grant pays yuan or a currency with a rate.
Dated(grants) ==
  \A g \in DOMAIN grants : /\ grants[g].currency \in {"CNY"} \cup Foreign
                           /\ \A b \in DOMAIN grants[g].batches : /\ grants[g].batches[b].vest \in Int
                                                                /\ grants[g].batches[b].cash \in Int

\* Amounts are numbers, and so is the day a bonus counts from; a plan is finite.
Counted(grants) ==
  /\ IsFiniteSet(DOMAIN grants)
  /\ \A g \in DOMAIN grants : /\ grants[g].gain \in Int /\ IsFiniteSet(DOMAIN grants[g].batches)
                              /\ \A b \in DOMAIN grants[g].batches : grants[g].batches[b].quantity \in Int
Started(rule) == rule # NoRule => rule.workStart \in Int

ASSUME PlanAssumption ==
  \A x \in Patches : /\ "savings" \in DOMAIN x => x.savings \in Nat
                     /\ "bonus" \in DOMAIN x => x.bonus \in Nat
                     /\ "rule" \in DOMAIN x => Started(x.rule)
                     /\ "grants" \in DOMAIN x => Dated(x.grants) /\ Counted(x.grants)

\* For a security, its benchmark and every currency: the days with a price.
Histories == [{"own", "benchmark"} \cup Foreign -> SUBSET Int]

\* The level of every path in even and in odd months; a rate that is not known is 0.
Markets == [1..Paths -> [1..2 -> Int]]
Rates == {r \in [Foreign -> Nat] : \A c \in Foreign : r[c] \in {0, Worth[c]}}

ASSUME CaseAssumption ==
  \A c \in Cases : /\ c.balance \in Int /\ c.target \in Int /\ c.market \in Markets /\ c.rates \in Rates
                   /\ c.stocks \in BOOLEAN /\ c.history \in Histories
                   /\ \A s \in DOMAIN c.history : IsFiniteSet(c.history[s])

VARIABLES today, plan, balance, target, market, history, stocks, rates,
          shown  \* the forecast as of today

vars == <<today, plan, balance, target, market, history, stocks, rates, shown>>

NoPlan == [savings |-> 0, bonus |-> 0, rule |-> NoRule, grants |-> <<>>]

\* LoadForecastInput: income after the day, prices up to it.
Snapshot(day, p, money, h, r) ==
  [asOf |-> day, balance |-> money, target |-> target, savings |-> p.savings,
   events |-> CompensationEvents(p, day, AddDate(day, Years, 0, 0)),
   rates |-> r, history |-> [s \in DOMAIN h |-> {d \in h[s] : d <= day}],
   stocks |-> stocks, held |-> IF stocks THEN Foreign ELSE {}]
Now == Snapshot(today, plan, balance, history, rates)

\* Every page asks again.
Look(day, p, money, h, r) == ForecastFromSnapshot(Snapshot(day, p, money, h, r), Years, market)

Init ==
  /\ today = Min(Days) /\ plan = NoPlan
  /\ \E c \in Cases : /\ balance = c.balance /\ target = c.target /\ stocks = c.stocks
                      /\ market = c.market /\ history = c.history /\ rates = c.rates
  /\ shown = Look(today, plan, balance, history, rates)

\* PatchIncome: the fields that are given replace those of the plan.
Patched(x) == [f \in DOMAIN plan |-> IF f \in DOMAIN x THEN x[f] ELSE plan[f]]
PatchIncome ==
  /\ today = Min(Days) /\ ~stocks  \* bounds
  /\ \E p \in {Patched(x) : x \in Patches} \ {plan} : Valid(p) /\ plan' = p
  /\ UNCHANGED <<today, balance, target, market, history, stocks, rates>>

InYuanOf(e) == e.amount * (IF e.currency = "CNY" THEN 1 ELSE Worth[e.currency])
MonthEnds(from, to) == {d \in from + 1..to : MonthTurns(d)}
Receipts(from, to) ==
  SumFunction([e \in CompensationEvents(plan, from, to) |-> InYuanOf(e)]) + plan.savings * Cardinality(MonthEnds(from, to))

\* Everything comes as planned, and the user enters it: the next look.
LiveOn ==
  /\ today < Max(Days)
  /\ today' = Min({d \in Days : d > today})
  /\ balance' = balance + Receipts(today, today')
  /\ UNCHANGED <<plan, target, market, history, stocks, rates>>

\* The first answer of the rates source; the currencies' prices of all years.
RatesArrive == /\ rates' = Worth /\ rates' # rates
               /\ UNCHANGED <<today, plan, balance, target, market, history, stocks>>
PricesArrive ==
  /\ \E h \in {c.history : c \in Cases} \ {history} :
       /\ history' = h /\ \A s \in DOMAIN h : history[s] \subseteq h[s]
       /\ h.own = history.own /\ h.benchmark = history.benchmark  \* bound: currencies only
  /\ UNCHANGED <<today, plan, balance, target, market, stocks, rates>>

Next == /\ PatchIncome \/ LiveOn \/ RatesArrive \/ PricesArrive
        /\ shown' = Look(today', plan', balance', history', rates')

\* No path moves: what a fixed deposit without interest is.
Steady == \A p \in 1..Paths : \A n \in 1..2 : market[p][n] = 1

Spec == Init /\ [][Next]_vars

-----------------------------------------------------------------------------
(* Properties *)

\* The checkpoints cut the time from today to the horizon without gap or overlap, each
\* within the month its return is drawn for: no day earns twice.  Every income comes on
\* its day and once, savings once at the end of each month, every year is reported once.
CheckpointsAreExact ==
  LET points == Checkpoints(Now, Years)
      once(P(_)) == Cardinality({i \in DOMAIN points : P(points[i])}) = 1
      end == Horizon(Now, Years)
  IN  /\ points[Len(points)].date = end
      /\ \A i \in DOMAIN points :
           /\ points[i].span > 0
           /\ points[i].date - points[i].span = IF i = 1 THEN today ELSE points[i - 1].date
           /\ points[i].date - points[i].span >= MonthStart(points[i].month)
           /\ points[i].date <= MonthStart(points[i].month + 1)
      /\ \A e \in Now.events : once(LAMBDA c : c.date = e.date /\ e \in c.events)
      /\ {c.date : c \in {points[i] : i \in {i \in DOMAIN points : points[i].savings}}} = MonthEnds(today, end)
      /\ \A y \in 1..Years : once(LAMBDA c : y \in c.years /\ c.date = AddDate(today, y, 0, 0))

\* Seen from any later day, income has either come or is still to come; a bonus
\* comes once a year, in its month.
IncomeComesOnce ==
  LET end == AddDate(today, Years, 0, 0)
      all == CompensationEvents(plan, today, end)
      bonuses == {e \in all : e.from[1] = "bonus"}
  IN  /\ \A d \in Days : today <= d /\ d <= end =>
           LET past == CompensationEvents(plan, today, d)
               future == CompensationEvents(plan, d, end)
           IN  past \cup future = all /\ past \cap future = {}
      /\ \A e, f \in bonuses : YearOf(e.date) = YearOf(f.date) => e = f
      /\ \A e \in bonuses : MonthOf(e.date) % 12 = plan.rule.payMonth - 1

\* What the forecast says will have come after a year, and in this month, is what
\* comes in that time.
ContributionsAddUp ==
  shown.state = "ready" =>
    /\ \A y \in 1..Years : shown.series[y].cash = Receipts(today, shown.series[y].date)
    /\ shown.month = Receipts(today, MonthEnd(MonthOf(today)))

\* For money that does not grow the date is the one a calculation day by day finds.
DateIsFirstDayOnTarget ==
  shown.state = "ready" /\ Steady => shown.date = ProjectRetirement(Now, Horizon(Now, Years))

\* On the date shown half of the paths have been on target, and not before; a year
\* after which half of them are on target is not before it.
HalfOfPathsByDate ==
  shown.state = "ready" /\ target > 0 =>
    LET by(d) == {h \in shown.hits : h[2] # Never /\ h[2] <= d}
    IN  /\ shown.date # Never =>
             /\ 2 * Cardinality(by(shown.date)) >= Paths
             /\ 2 * Cardinality(by(shown.date - 1)) < Paths
        /\ shown.date = Never => 2 * Cardinality({h \in shown.hits : h[2] # Never}) < Paths
        /\ \A y \in 1..Years : 2 * shown.series[y].reached >= Paths =>
             shown.date # Never /\ shown.date <= shown.series[y].date

\* While everything comes as planned the date stays where it was, or is reached, unless
\* rates or history for what has come into sight are missing.
Promise ==
  IF shown.date # Never THEN shown'.date = Later(shown.date, today')
  ELSE shown'.date = Never \/ shown'.date > Horizon(Now, Years)
Lapses == shown'.state = "unavailable" /\ ~Possible(Snapshot(today', plan, balance', history, rates), Years)
PromiseIsKept == [][LiveOn /\ Steady /\ shown.state # "unavailable" => Promise \/ Lapses]_vars

\* Every currency that is certain to come has a rate and months enough, but not together in a row.
Patchy(h, r) == ~Possible(Sure(Snapshot(today, plan, balance, h, r)), Years)

\* A date that was shown although some income had no rate or history stays when rates
\* and history arrive, unless nothing can be forecast from what arrives.
PartialDateIsFinal ==
  [][(RatesArrive \/ PricesArrive) /\ shown.state = "partial" =>
       (shown'.state # "unavailable" /\ shown'.date = shown.date) \/ Patchy(history', rates')]_vars

\* The series a forecast is made from: the benchmark, the security's own once it shares
\* enough months with it, and the currencies.
TakingPart(h, currencies) ==
  LET own == MonthlyReturns(h.own, today)
      base == MonthlyReturns(h.benchmark, today)
  IN  (IF ~stocks THEN {} ELSE IF Shared(own, base) < ModelMonths THEN {"benchmark"} ELSE {"own", "benchmark"})
        \cup currencies

\* A path is made of three months in a row for each of which every series that takes part
\* has a price of its last week and one of the last week of the month before.
BlocksAreRealMonths ==
  shown.state = "ready" =>
    LET in == Now
        model == PrepareModel(in.history, stocks, Needed(in, Years), today)
        known == TakingPart(in.history, Needed(in, Years))
        closing(s, k) == \E d \in MonthEnd(k) - 7..MonthEnd(k) : d \in in.history[s]
    IN  \A i \in model.starts : \A n \in 0..2 :
          LET k == model.months[i] + n
          IN  /\ model.months[i + n] = k /\ k < MonthOf(today)
              /\ \A s \in known : closing(s, k) /\ closing(s, k - 1)

\* A day of the backtest learns nothing from prices that came after it.
BacktestKnowsOnlyThePast ==
  stocks => \A years \in {1, 3, 5} : \A c \in Backtest(Now.history, stocks, Foreign, today, years) :
    c.model = PrepareModel([s \in DOMAIN history |-> {d \in history[s] : d <= c.day}], stocks, Foreign, c.day)
=============================================================================
