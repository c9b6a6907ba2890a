------------------------------ MODULE MCProjection ------------------------------
\* Days, plans and histories for TLC.
EXTENDS Projection

MCDays == {Date(2027, 1, 31), Date(2027, 2, 28), Date(2027, 3, 1), Date(2027, 3, 14), Date(2027, 12, 31),
           Date(2028, 1, 1), Date(2028, 2, 29), Date(2028, 3, 1)}

\* A plan is put together in one or two edits.  The bonus comes on the last day of
\* February or on 1 January of the next year.
LateFebruary == [workStart |-> Date(2026, 7, 1), payMonth |-> 2, payDay |-> 29, yearOffset |-> 1]
NewYear == [workStart |-> Date(2020, 1, 1), payMonth |-> 1, payDay |-> 1, yearOffset |-> 0]
Shares ==
  [currency |-> "USD", quantity |-> 4, gain |-> 10,
   batches |-> <<[vest |-> Date(2027, 3, 1), quantity |-> 1, mode |-> "immediate", cash |-> 0],
                 [vest |-> Date(2027, 3, 1), quantity |-> 2, mode |-> "date", cash |-> Date(2028, 2, 15)],
                 [vest |-> Date(2027, 3, 1), quantity |-> 1, mode |-> "hold", cash |-> 0]>>]
\* Comes into sight after a month.
Options ==
  [currency |-> "USD", quantity |-> 1, gain |-> 10,
   batches |-> <<[vest |-> Date(2027, 3, 1), quantity |-> 1, mode |-> "date", cash |-> Date(2029, 2, 15)]>>]
MCPatches == {[savings |-> 10, bonus |-> 100, rule |-> LateFebruary], [bonus |-> 100, rule |-> NewYear],
              [grants |-> <<Shares>>], [grants |-> <<Options>>]}

MCWorth == [USD |-> 7]

\* Prices on the last day of every month, except some.
MonthEndsOf(first, last, but) == {MonthEnd(k) : k \in (first..last) \ but}
Jan(y) == 12 * (y - 2000)
Long == MonthEndsOf(Jan(2014), Jan(2029), {})
History(own, base, usd) == [own |-> own, benchmark |-> base, USD |-> usd]
Short == MonthEndsOf(Jan(2025), Jan(2029), {})
\* Months enough, but never 36 of them in a row.
Gappy == MonthEndsOf(Jan(2023), Jan(2029), {Jan(2025) + 6})
Young == MonthEndsOf(Jan(2023), Jan(2029), {})

\* What the balance is multiplied by in even and in odd months.
Flat == <<1, 1>>
OddHigh == <<1, 2>>
EvenHigh == <<2, 1>>

Planning == [balance : {100}, target : {150, 400}, stocks : {FALSE},
             market : {<<Flat, Flat, Flat>>}, history : {History({}, {}, h) : h \in {Short, Gappy, Young}},
             rates : {MCWorth, [USD |-> 0]}]
Moving == [balance : {100}, target : {150, 400}, stocks : {FALSE},
           market : {<<Flat, OddHigh, OddHigh>>, <<EvenHigh, OddHigh, Flat>>}, history : {History({}, {}, Young)}, rates : {MCWorth}]
Holding == [balance : {100}, target : {400}, stocks : {TRUE}, market : {<<Flat, Flat, Flat>>},
            history : {History(Long, Long, Long), History({Date(2027, 1, 30)}, Long, Long),
                       History(Young, Long, Long), History(Long \ {MonthEnd(Jan(2021))}, Long, Long),
                       History(Young, Long \ {MonthEnd(Jan(2025))}, Long),
                       History(Long, (Long \ {MonthEnd(Jan(2025))}) \cup {MonthEnd(Jan(2025)) - 8}, Long)},
            rates : {MCWorth}]
MCCases == Planning \cup Moving \cup Holding
=============================================================================
