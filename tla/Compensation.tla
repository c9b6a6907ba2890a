------------------------------ MODULE Compensation ------------------------------
(***************************************************************************)
(* The income a plan promises: the yearly bonus and the batches of option  *)
(* grants, as money that comes on a date.                                  *)
(*                                                                         *)
(* A plan is a record of savings a month, the bonus of a full year, the    *)
(* rule it is paid by (NoRule without one) and a sequence of grants.  What *)
(* a share of a grant is worth after strike price and tax is its gain.     *)
(***************************************************************************)
EXTENDS Calendar, Sequences

CONSTANT NoRule

\* Whom a plan pays: the bonus of a calendar year, or a batch of a grant.
BonusOf(y) == <<"bonus", y>>
BatchOf(g, b) == <<"option", g, b>>

ValidRule(r) ==
  /\ r.payMonth \in 1..12
  /\ r.payDay \in 1..MonthLength(r.payMonth - 1)  \* of the leap year 2000
  /\ r.yearOffset \in {0, 1}

Cashable(b) == b.mode \in {"immediate", "hold"} \/ (b.mode = "date" /\ b.cash >= b.vest)

\* The quantities of the first n batches.
Vested(batches) ==
  LET upTo[n \in 0..Len(batches)] == IF n = 0 THEN 0 ELSE upTo[n - 1] + batches[n].quantity
  IN  upTo[Len(batches)]

\* ValidateCompensation, and what PatchIncome asks of a bonus.
Valid(plan) ==
  /\ plan.bonus > 0 => plan.rule # NoRule
  /\ plan.rule # NoRule => ValidRule(plan.rule)
  /\ \A g \in DOMAIN plan.grants :
       /\ \A b \in DOMAIN plan.grants[g].batches : Cashable(plan.grants[g].batches[b])
       /\ Vested(plan.grants[g].batches) <= plan.grants[g].quantity

\* The bonus day of a year: 29 February is the 28th when there is none.
PayDate_Overflowing(r, y) == MonthStart(12 * y + r.payMonth - 1) + r.payDay - 1
PayDate(r, y) ==
  LET k == 12 * y + r.payMonth - 1
  IN  MonthStart(k) + (IF r.payDay < MonthLength(k) THEN r.payDay ELSE MonthLength(k)) - 1

\* A bonus counts the days worked in the year it is for, and ten percent go to tax.
DaysWorked(r, y) ==
  LET from == IF r.workStart > YearStart(y) THEN r.workStart ELSE YearStart(y)
  IN  IF from < YearStart(y + 1) THEN YearStart(y + 1) - from ELSE 0

DaysIn(y) == YearStart(y + 1) - YearStart(y)

BonusAmount(plan, y) ==
  LET earned == y - plan.rule.yearOffset
  IN  (18 * plan.bonus * DaysWorked(plan.rule, earned) + 10 * DaysIn(earned)) \div (20 * DaysIn(earned))

\* Income on or before the first day is part of the balance already.
Within_Inclusive(d, start, end) == start <= d /\ d <= end
Within(d, start, end) == start < d /\ d <= end

BonusYears(plan, start, end) ==
  {y \in YearOf(start)..YearOf(end) : /\ Within(PayDate(plan.rule, y), start, end)
                                      /\ BonusAmount(plan, y) > 0}

BonusEvents(plan, start, end) ==
  IF plan.bonus = 0 \/ plan.rule = NoRule THEN {}
  ELSE {[date |-> PayDate(plan.rule, y), amount |-> BonusAmount(plan, y), currency |-> "CNY",
         from |-> BonusOf(y)] : y \in BonusYears(plan, start, end)}

CashDate(b) == IF b.mode = "date" THEN b.cash ELSE b.vest

GrantEvents(plan, g, start, end) ==
  LET grant == plan.grants[g]
      paid == {b \in DOMAIN grant.batches : /\ grant.batches[b].mode # "hold"
                                            /\ Within(CashDate(grant.batches[b]), start, end)
                                            /\ grant.batches[b].quantity * grant.gain > 0}
  IN  {[date |-> CashDate(grant.batches[b]), amount |-> grant.batches[b].quantity * grant.gain,
        currency |-> grant.currency, from |-> BatchOf(g, b)] : b \in paid}

\* The code sorts them by date, which matters to readers only.
CompensationEvents(plan, start, end) ==
  BonusEvents(plan, start, end)
    \cup UNION {GrantEvents(plan, g, start, end) : g \in DOMAIN plan.grants}
=============================================================================
