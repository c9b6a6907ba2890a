-------------------------------- MODULE Calendar --------------------------------
(***************************************************************************)
(* Dates as package time of Go calculates them.  A date is a number of     *)
(* days, day 0 is 1 January 2000; a month is a number too, month 0 is      *)
(* January 2000; so is a year.  Good until 2099: every fourth year is a    *)
(* leap year.                                                              *)
(***************************************************************************)
EXTENDS Integers

\* Days of the year before a month, without a leap day.
DaysBefore == <<0, 31, 59, 90, 120, 151, 181, 212, 243, 273, 304, 334>>

YearStart(y) == 365 * y + (y + 3) \div 4
YearOf(d) == (4 * d) \div 1461

\* The first day of a month.
MonthStart(k) ==
  LET y == k \div 12  m == k % 12
  IN  YearStart(y) + DaysBefore[m + 1] + (IF y % 4 = 0 /\ m >= 2 THEN 1 ELSE 0)

\* No month is longer than 31 days, so this many months have passed, or one more.
MonthOf(d) ==
  LET y == YearOf(d)
      k == 12 * y + (d - YearStart(y)) \div 31
  IN  IF MonthStart(k + 1) <= d THEN k + 1 ELSE k

\* time.Date: m is 1 to 12; a day past the end of its month is one of the next.
Date(y, m, day) == MonthStart(12 * (y - 2000) + m - 1) + day - 1

\* AddDate moves the month and keeps the day, with the same overflow.
AddDate(d, years, months, days) ==
  MonthStart(MonthOf(d) + 12 * years + months) + (d - MonthStart(MonthOf(d))) + days

MonthEnd(k) == MonthStart(k + 1) - 1
MonthLength(k) == MonthStart(k + 1) - MonthStart(k)
=============================================================================
