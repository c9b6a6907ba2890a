-------------------------------- MODULE LedgerSafety --------------------------------
(***************************************************************************)
(* The safety properties of Valuation, for every number of holdings, keys, *)
(* concurrent refreshes, amounts, prices and rates.                        *)
(*                                                                         *)
(* What has to be carried along is how a listing that a refresh or a job   *)
(* still holds relates to the rows as they are now (Sees).                 *)
(***************************************************************************)
EXTENDS Valuation, TLAPS

\* A row listed under the version it still has, has the quantity that was listed.
Sees(listed) ==
  \A a \in Assets : listed[a] # NoRow =>
    /\ a \in Securities /\ asset[a].state # "none"
    /\ listed[a].quantity > 0
    /\ listed[a].version <= asset[a].version
    /\ listed[a].version = asset[a].version => listed[a].quantity = asset[a].quantity

RowsInv ==
  /\ asset \in [Assets -> Holding]
  /\ \A a \in Assets : asset[a].state = "live" => asset[a].amount > 0
  /\ \A a \in Securities : asset[a].state # "none" => asset[a].quantity > 0

TodayInv ==
  /\ rate \in Nat /\ owed \in BOOLEAN
  /\ todays # NoRow => /\ todays = [total |-> todays.total, rate |-> todays.rate]
                       /\ todays.rate \in Nat
                       /\ todays.rate > 0 => rate > 0
  /\ TodayFollowsAssets

SavedInv ==
  /\ saved \in [Keys -> SUBSET Answer] /\ audit \in [Keys -> Nat]
  /\ \A k \in Keys : \/ saved[k] = {} /\ audit[k] = 0
                    \/ \E answer \in saved[k] : saved[k] = {answer} /\ audit[k] = 1

RowsAreRequested ==
  \A a \in Assets : asset[a] # Absent =>
    \E k \in CreateKeys : saved[k] = {{[asset |-> a, version |-> 0]}}

HandlerRecord == [pc : HandlerState, key : RefreshKeys \cup {NoRow}, listed : Listing,
                  answer : SUBSET Answer]

HandlerInv(h) ==
  /\ handler[h].pc = "quoting" => handler[h].key \in RefreshKeys /\ Sees(handler[h].listed)
  /\ handler[h].pc = "answered" => /\ handler[h].key \in RefreshKeys
                                   /\ handler[h].answer # {}
                                   /\ handler[h].answer = saved[handler[h].key]

TablesInv == RowsInv /\ TodayInv /\ SavedInv /\ RowsAreRequested
HandlersInv == handler \in [Handlers -> HandlerRecord] /\ \A h \in Handlers : HandlerInv(h)
PassesInv == pass \in [Jobs -> Pass] /\ \A j \in Jobs : Sees(pass[j].listed)

IInv == TablesInv /\ HandlersInv /\ PassesInv

-----------------------------------------------------------------------------
(* What every step does to rows and answers *)

\* A row that changes gets a new version, and is neither archived before nor gone after.
RowsMove ==
  \A a \in Assets : asset'[a] # asset[a] =>
    /\ asset'[a].version = asset[a].version + 1
    /\ asset[a].state # "archived" /\ asset'[a].state # "none"

\* Answers stay.
SavedStays == \A k \in Keys : saved[k] # {} => saved'[k] = saved[k]

LEMMA SeesLater ==
  ASSUME RowsInv, RowsInv', RowsMove, NEW listed \in Listing, Sees(listed)
  PROVE  \A a \in Assets : listed[a] # NoRow =>
           /\ a \in Securities /\ asset'[a].state # "none"
           /\ listed[a].quantity > 0
           /\ listed[a].version <= asset'[a].version
           /\ listed[a].version = asset'[a].version => listed[a].quantity = asset'[a].quantity
<1> SUFFICES ASSUME NEW a \in Assets, listed[a] # NoRow
             PROVE  /\ a \in Securities /\ asset'[a].state # "none"
                    /\ listed[a].quantity > 0
                    /\ listed[a].version <= asset'[a].version
                    /\ listed[a].version = asset'[a].version => listed[a].quantity = asset'[a].quantity
  OBVIOUS
<1>1. listed[a] \in Seen
  BY DEF Listing
<1>2. asset[a] \in Holding /\ asset'[a] \in Holding
  BY DEF RowsInv
<1>3. listed[a].version \in Nat /\ asset[a].version \in Nat /\ asset'[a].version \in Nat
  BY <1>1, <1>2 DEF Seen, Holding
<1>4. CASE asset'[a] = asset[a]
  BY <1>4 DEF Sees
<1>5. CASE asset'[a] # asset[a]
  <2>1. asset'[a].version = asset[a].version + 1 /\ asset'[a].state # "none"
    BY <1>5 DEF RowsMove
  <2>2. listed[a].version <= asset[a].version
    BY DEF Sees
  <2>3. listed[a].version < asset'[a].version
    BY <2>1, <2>2, <1>3
  <2> QED
    BY <1>3, <2>1, <2>3 DEF Sees
<1> QED
  BY <1>4, <1>5

LEMMA HandlerStays ==
  ASSUME RowsInv, RowsInv', RowsMove, SavedStays, handler \in [Handlers -> HandlerRecord],
         NEW h \in Handlers, HandlerInv(h), handler'[h] = handler[h]
  PROVE  HandlerInv(h)'
<1>1. handler[h] \in HandlerRecord /\ handler[h].listed \in Listing
  BY DEF HandlerRecord
<1>2. CASE handler[h].pc = "quoting"
  <2>1. Sees(handler[h].listed)
    BY <1>2 DEF HandlerInv
  <2> QED
    BY <1>1, <1>2, <2>1, SeesLater DEF HandlerInv, Sees
<1>3. CASE handler[h].pc = "answered"
  BY <1>3 DEF HandlerInv, SavedStays, Keys
<1>4. CASE handler[h].pc \notin {"quoting", "answered"}
  BY <1>4 DEF HandlerInv
<1> QED
  BY <1>2, <1>3, <1>4

LEMMA SameRows ==
  ASSUME RowsInv, UNCHANGED asset
  PROVE  RowsInv' /\ RowsMove
BY DEF RowsInv, RowsMove

-----------------------------------------------------------------------------
(* A transaction that changes rows, records the total and keeps its answer *)

LEMMA SnapshotKeepsToday ==
  ASSUME TodayInv, NEW rows, asset' = rows, rate' = rate, SnapshotTx(rows)
  PROVE  TodayInv'
<1>1. CASE Rated(rows, rate)
  <2>1. todays' = [total |-> Total(rows, rate), rate |-> rate] /\ owed' = FALSE
    BY <1>1 DEF SnapshotTx
  <2>2. todays'.total = Total(rows, rate) /\ todays'.rate = rate
    BY <2>1
  <2>3. TodayFollowsAssets'
    BY <2>2 DEF TodayFollowsAssets
  <2> QED
    BY <2>1, <2>2, <2>3 DEF TodayInv
<1>2. CASE ~Rated(rows, rate)
  <2>1. todays' = todays /\ owed' = owed
    BY <1>2 DEF SnapshotTx
  <2>2. todays # NoRow => ~Rated(rows, todays.rate)
    BY <1>2 DEF Rated, TodayInv
  <2>3. TodayFollowsAssets'
    BY <2>1, <2>2 DEF TodayFollowsAssets
  <2> QED
    BY <2>1, <2>3 DEF TodayInv
<1> QED
  BY <1>1, <1>2

LEMMA RememberKeepsSaved ==
  ASSUME SavedInv, NEW key \in Keys, NEW answer \in Answer, IsNew(key), Remember(key, answer)
  PROVE  /\ SavedInv' /\ SavedStays
         /\ saved'[key] = {answer}
<1>1. saved[key] = {} /\ audit[key] = 0
  BY DEF IsNew, SavedInv
<1>2. /\ saved' = [saved EXCEPT ![key] = {answer}]
      /\ audit' = [audit EXCEPT ![key] = 1]
  BY <1>1 DEF Remember, SavedInv
<1>3. saved' \in [Keys -> SUBSET Answer] /\ audit' \in [Keys -> Nat]
  BY <1>2 DEF SavedInv
<1>4. saved'[key] = {answer} /\ audit'[key] = 1
  BY <1>2 DEF SavedInv
<1>5. \A k \in Keys : k # key => saved'[k] = saved[k] /\ audit'[k] = audit[k]
  BY <1>2 DEF SavedInv
<1>6. SavedInv'
  BY <1>3, <1>4, <1>5 DEF SavedInv
<1> QED
  BY <1>1, <1>4, <1>5, <1>6 DEF SavedStays

LEMMA RequestedStays ==
  ASSUME RowsAreRequested, SavedStays, \A a \in Assets : asset'[a] # Absent => asset[a] # Absent
  PROVE  RowsAreRequested'
<1> SUFFICES ASSUME NEW a \in Assets, asset'[a] # Absent
             PROVE  \E k \in CreateKeys : saved'[k] = {{[asset |-> a, version |-> 0]}}
  BY DEF RowsAreRequested
<1>1. PICK k \in CreateKeys : saved[k] = {{[asset |-> a, version |-> 0]}}
  BY DEF RowsAreRequested
<1>2. saved'[k] = saved[k]
  BY <1>1 DEF SavedStays, Keys
<1> QED
  BY <1>1, <1>2

-----------------------------------------------------------------------------
(* What becomes of one row *)

\* The row of a after an edit, an archive request or a quote.
LEMMA RowReplaced ==
  ASSUME RowsInv, NEW a \in Assets, NEW row \in Holding, asset[a].state = "live",
         row.version = asset[a].version + 1, row.state # "none",
         row.state = "live" => row.amount > 0,
         a \in Securities => row.quantity > 0,
         asset' = [asset EXCEPT ![a] = row]
  PROVE  RowsInv' /\ RowsMove /\ \A b \in Assets : asset'[b] # Absent => asset[b] # Absent
<1>1. asset' \in [Assets -> Holding] /\ asset'[a] = row /\ \A b \in Assets : b # a => asset'[b] = asset[b]
  BY DEF RowsInv
<1>2. RowsInv'
  BY <1>1, LedgerAssumption DEF RowsInv
<1>3. RowsMove
  BY <1>1 DEF RowsMove
<1>4. asset[a] # Absent
  BY DEF Absent
<1> QED
  BY <1>1, <1>2, <1>3, <1>4

\* What an edit or a quote leaves of the row of a.
NextRow(a, row) ==
  /\ row \in Holding /\ row.version = asset[a].version + 1 /\ row.state = "live"
  /\ row.amount > 0
  /\ a \in Securities => row.quantity > 0

LEMMA EditedRow ==
  ASSUME RowsInv, NEW a \in Assets, asset[a].state = "live", NEW row \in Edited(a)
  PROVE  NextRow(a, row)
<1>1. asset[a] \in Holding /\ asset[a].amount > 0
  BY DEF RowsInv
<1>2. a \in Securities => asset[a].quantity > 0
  BY DEF RowsInv
<1>3. PICK up : up = Updated(asset[a])
  OBVIOUS
<1>4. up \in Holding /\ up.version = asset[a].version + 1 /\ up.state = "live"
  BY <1>1, <1>3 DEF Updated, Holding
<1>5. up.amount = asset[a].amount /\ up.quantity = asset[a].quantity
  BY <1>1, <1>3 DEF Updated, Holding
<1>6. up.amount > 0 /\ (a \in Securities => up.quantity > 0)
  BY <1>1, <1>2, <1>5
<1>7. \/ \E m \in Amounts : row = [up EXCEPT !.amount = m]
      \/ \E c \in Currency : row = [up EXCEPT !.currency = c]
      \/ \E q \in Quantities : row = [up EXCEPT !.quantity = q]
  BY <1>3 DEF Edited
<1>8. CASE \E m \in Amounts : row = [up EXCEPT !.amount = m]
  <2>1. PICK m \in Nat : row = [up EXCEPT !.amount = m] /\ m > 0
    BY <1>8, LedgerAssumption
  <2>2. row \in Holding
    BY <1>4, <2>1 DEF Holding
  <2>3. row.version = up.version /\ row.state = "live" /\ row.amount = m /\ row.quantity = up.quantity
    BY <1>4, <2>1 DEF Holding
  <2> QED
    BY <1>4, <1>6, <2>1, <2>2, <2>3 DEF NextRow
<1>9. CASE \E c \in Currency : row = [up EXCEPT !.currency = c]
  <2>1. PICK c \in Currency : row = [up EXCEPT !.currency = c]
    BY <1>9
  <2>2. row \in Holding
    BY <1>4, <2>1 DEF Holding
  <2>3. row.version = up.version /\ row.state = "live" /\ row.amount = up.amount /\ row.quantity = up.quantity
    BY <1>4, <2>1 DEF Holding
  <2> QED
    BY <1>4, <1>6, <2>1, <2>2, <2>3 DEF NextRow
<1>10. CASE \E q \in Quantities : row = [up EXCEPT !.quantity = q]
  <2>1. PICK q \in Nat : row = [up EXCEPT !.quantity = q] /\ q > 0
    BY <1>10, LedgerAssumption
  <2>2. row \in Holding
    BY <1>4, <2>1 DEF Holding
  <2>3. row.version = up.version /\ row.state = "live" /\ row.amount = up.amount /\ row.quantity = q
    BY <1>4, <2>1 DEF Holding
  <2> QED
    BY <1>4, <1>6, <2>1, <2>2, <2>3 DEF NextRow
<1> QED
  BY <1>7, <1>8, <1>9, <1>10

LEMMA ValuedRow ==
  ASSUME RowsInv, NEW a \in Assets, asset[a].state = "live",
         a \in Securities => asset[a].quantity > 0,
         NEW quantity \in Nat, quantity > 0, NEW price \in Prices
  PROVE  NextRow(a, Valued(a, quantity, price))
<1>1. asset[a] \in Holding
  BY DEF RowsInv
<1>2. price \in Nat /\ price > 0
  BY LedgerAssumption
<1>3. quantity * price \in Nat /\ quantity * price > 0
  BY <1>2, SMTT(30)
<1>4. PICK n \in Nat : n = quantity * price /\ n > 0
  BY <1>3
<1>5. PICK c \in Currency : c = QuotedIn(a)
  BY DEF QuotedIn, Currency
<1>6. PICK up : up = Updated(asset[a])
  OBVIOUS
<1>7. up \in Holding /\ up.version = asset[a].version + 1 /\ up.state = "live"
      /\ up.quantity = asset[a].quantity
  BY <1>1, <1>6 DEF Updated, Holding
<1>8. PICK row : row = [up EXCEPT !.amount = n, !.currency = c]
  OBVIOUS
<1>9. row \in Holding
  BY <1>7, <1>8 DEF Holding
<1>10. row.version = up.version /\ row.state = "live" /\ row.amount = n /\ row.quantity = up.quantity
  BY <1>7, <1>8 DEF Holding
<1>11. row = Valued(a, quantity, price)
  BY <1>4, <1>5, <1>6, <1>8 DEF Valued
<1>12. NextRow(a, row)
  BY <1>4, <1>7, <1>9, <1>10 DEF NextRow
<1> QED
  BY <1>11, <1>12

-----------------------------------------------------------------------------
(* The tables, step by step *)

\* A row changes by a request that saw it, or by a price for the quantity it has.
Overwrites == \A a \in Assets : asset'[a] # asset[a] => ByRequest(a) \/ ByQuote(a)

TablesMove == RowsMove /\ SavedStays /\ Overwrites

LEMMA QuietTables ==
  ASSUME TablesInv, UNCHANGED tables
  PROVE  TablesInv' /\ TablesMove
<1>1. UNCHANGED <<asset, rate, todays, saved, audit, owed>>
  BY DEF tables
<1>2. TodayFollowsAssets'
  BY <1>1 DEF TablesInv, TodayInv, TodayFollowsAssets
<1>3. TodayInv'
  BY <1>1, <1>2 DEF TablesInv, TodayInv
<1>4. SavedInv' /\ RowsAreRequested'
  BY <1>1 DEF TablesInv, SavedInv, RowsAreRequested
<1>5. RowsMove /\ SavedStays /\ Overwrites
  BY <1>1 DEF RowsMove, SavedStays, Overwrites
<1> QED
  BY <1>1, <1>3, <1>4, <1>5, SameRows DEF TablesInv, TablesMove

LEMMA MutateTables ==
  ASSUME TablesInv, NEW key \in Keys, NEW rows, NEW answer \in Answer,
         IsNew(key), asset' = rows, SnapshotTx(rows), Remember(key, answer), rate' = rate,
         RowsInv', RowsMove,
         \A a \in Assets : asset'[a] # Absent /\ asset[a] = Absent =>
           key \in CreateKeys /\ answer = {[asset |-> a, version |-> 0]},
         \A a \in Assets : asset'[a] # asset[a] =>
           \/ key \in CreateKeys \cup EditKeys \cup ArchiveKeys
              /\ answer = {[asset |-> a, version |-> asset[a].version]}
           \/ ByQuote(a)
  PROVE  TablesInv' /\ TablesMove
<1>1. TodayInv'
  BY SnapshotKeepsToday DEF TablesInv
<1>2. SavedInv' /\ SavedStays /\ saved'[key] = {answer} /\ saved[key] = {}
  BY RememberKeepsSaved DEF TablesInv, IsNew
<1>3. ASSUME NEW a \in Assets, asset'[a] # Absent
      PROVE  \E k \in CreateKeys : saved'[k] = {{[asset |-> a, version |-> 0]}}
  <2>1. CASE asset[a] = Absent
    BY <1>2, <1>3, <2>1
  <2>2. CASE asset[a] # Absent
    <3>1. PICK k \in CreateKeys : saved[k] = {{[asset |-> a, version |-> 0]}}
      BY <2>2 DEF TablesInv, RowsAreRequested
    <3>2. saved'[k] = saved[k]
      BY <1>2, <3>1 DEF SavedStays, Keys
    <3> QED
      BY <3>1, <3>2
  <2> QED
    BY <2>1, <2>2
<1>4. RowsAreRequested'
  BY <1>3 DEF RowsAreRequested
<1>5. Overwrites
  BY <1>2 DEF Overwrites, ByRequest
<1> QED
  BY <1>1, <1>2, <1>4, <1>5 DEF TablesInv, TablesMove

LEMMA CreateTables ==
  ASSUME TablesInv, NEW key \in CreateKeys, CreateAsset(key)
  PROVE  TablesInv' /\ TablesMove
<1>1. PICK a \in Assets, q \in Quantities \cup {0}, m \in Amounts, c \in Currency :
        /\ a \in Securities => q \in Quantities
        /\ asset[a] = Absent
        /\ Mutate(key, [asset EXCEPT ![a] = [state |-> "live", quantity |-> q, amount |-> m,
                                             currency |-> c, version |-> 1]],
                  {[asset |-> a, version |-> 0]})
  BY DEF CreateAsset
<1>2. q \in Nat /\ (a \in Securities => q > 0) /\ m \in Nat /\ m > 0
  BY <1>1, LedgerAssumption
<1>3. PICK row : row = [state |-> "live", quantity |-> q, amount |-> m, currency |-> c, version |-> 1]
  OBVIOUS
<1>4. row \in Holding
  BY <1>2, <1>3 DEF Holding
<1>5. row.state = "live" /\ row.quantity = q /\ row.amount = m /\ row.version = 1
  BY <1>3
<1>6. PICK rows : rows = [asset EXCEPT ![a] = row]
  OBVIOUS
<1>7. Mutate(key, rows, {[asset |-> a, version |-> 0]})
  BY <1>1, <1>3, <1>6
<1>8. asset' = rows
  BY <1>7 DEF Mutate
<1>9. /\ asset' \in [Assets -> Holding] /\ asset'[a] = row
      /\ \A b \in Assets : b # a => asset'[b] = asset[b]
  BY <1>4, <1>6, <1>8 DEF TablesInv, RowsInv
<1>10. RowsInv'
  BY <1>2, <1>5, <1>9, LedgerAssumption DEF TablesInv, RowsInv
<1>11. asset[a].state = "none" /\ asset[a].version = 0
  BY <1>1 DEF Absent
<1>12. RowsMove
  BY <1>5, <1>9, <1>11 DEF RowsMove
<1>13. {[asset |-> a, version |-> 0]} \in Answer /\ key \in Keys
  BY DEF Answer, Keys
<1>14. /\ IsNew(key) /\ SnapshotTx(rows) /\ Remember(key, {[asset |-> a, version |-> 0]})
       /\ rate' = rate
  BY <1>7 DEF Mutate
<1> QED
  BY <1>8, <1>9, <1>10, <1>11, <1>12, <1>13, <1>14, MutateTables

\* An edit and an archive request replace one row that is live and was read.
LEMMA ReplaceTables ==
  ASSUME TablesInv, NEW key \in EditKeys \cup ArchiveKeys, NEW a \in Assets,
         NEW version \in 1..asset[a].version, Current(a, version),
         NEW row \in Holding, row.version = asset[a].version + 1, row.state # "none",
         row.state = "live" => row.amount > 0,
         a \in Securities => row.quantity > 0,
         Mutate(key, [asset EXCEPT ![a] = row], {[asset |-> a, version |-> version]})
  PROVE  TablesInv' /\ TablesMove
<1>1. PICK rows : rows = [asset EXCEPT ![a] = row]
  OBVIOUS
<1>2. asset' = rows /\ IsNew(key) /\ SnapshotTx(rows) /\ rate' = rate
  BY <1>1 DEF Mutate
<1>3. asset[a].state = "live" /\ version = asset[a].version
  BY DEF Current, CheckVersion
<1>4. asset[a].version \in Nat
  BY DEF TablesInv, RowsInv, Holding
<1>5. RowsInv' /\ RowsMove /\ \A b \in Assets : asset'[b] # Absent => asset[b] # Absent
  BY <1>1, <1>2, <1>3, RowReplaced DEF TablesInv
<1>6. \A b \in Assets : b # a => asset'[b] = asset[b]
  BY <1>1, <1>2 DEF TablesInv, RowsInv
<1>7. PICK answer \in Answer : answer = {[asset |-> a, version |-> version]}
  <2>1. [asset |-> a, version |-> version] \in [asset : Assets, version : Nat]
    BY <1>3, <1>4
  <2>2. {[asset |-> a, version |-> version]} \in Answer
    BY <2>1, Zenon DEF Answer
  <2> QED
    BY <2>2
<1>8. Remember(key, answer)
  BY <1>7 DEF Mutate
<1>9. key \in Keys
  BY DEF Keys
<1>10. \A b \in Assets : asset'[b] # asset[b] =>
         key \in CreateKeys \cup EditKeys \cup ArchiveKeys
         /\ answer = {[asset |-> b, version |-> asset[b].version]}
  BY <1>3, <1>6, <1>7
<1> QED
  BY <1>2, <1>5, <1>8, <1>9, <1>10, MutateTables

LEMMA PatchTables ==
  ASSUME TablesInv, NEW key \in EditKeys, PatchAsset(key)
  PROVE  TablesInv' /\ TablesMove
<1> PICK a \in Assets : \E version \in 1..asset[a].version, row \in Edited(a) :
        /\ Current(a, version)
        /\ Mutate(key, [asset EXCEPT ![a] = row], {[asset |-> a, version |-> version]})
  BY DEF PatchAsset
<1>1. PICK version \in 1..asset[a].version, row \in Edited(a) :
        /\ Current(a, version)
        /\ Mutate(key, [asset EXCEPT ![a] = row], {[asset |-> a, version |-> version]})
  OBVIOUS
<1>2. NextRow(a, row)
  BY <1>1, EditedRow DEF TablesInv, Current
<1> QED
  BY <1>1, <1>2, ReplaceTables DEF NextRow

LEMMA ArchiveTables ==
  ASSUME TablesInv, NEW key \in ArchiveKeys, ArchiveAsset(key)
  PROVE  TablesInv' /\ TablesMove
<1> PICK a \in Assets : \E version \in 1..asset[a].version :
        /\ Current(a, version)
        /\ Mutate(key, [asset EXCEPT ![a] = [Updated(asset[a]) EXCEPT !.state = "archived"]],
                  {[asset |-> a, version |-> version]})
  BY DEF ArchiveAsset
<1>1. PICK version \in 1..asset[a].version :
        /\ Current(a, version)
        /\ Mutate(key, [asset EXCEPT ![a] = [Updated(asset[a]) EXCEPT !.state = "archived"]],
                  {[asset |-> a, version |-> version]})
  OBVIOUS
<1>2. asset[a] \in Holding /\ (a \in Securities => asset[a].quantity > 0)
  BY <1>1 DEF TablesInv, RowsInv, Current
<1> PICK up : up = Updated(asset[a])
  OBVIOUS
<1> up \in Holding /\ up.version = asset[a].version + 1 /\ up.quantity = asset[a].quantity
  BY <1>2 DEF Updated, Holding
<1>3. PICK row : row = [up EXCEPT !.state = "archived"]
  OBVIOUS
<1>4. row \in Holding
  BY <1>3 DEF Holding
<1>5. row.version = asset[a].version + 1 /\ row.state = "archived" /\ row.quantity = asset[a].quantity
  BY <1>3 DEF Holding
<1>6. Mutate(key, [asset EXCEPT ![a] = row], {[asset |-> a, version |-> version]})
  BY <1>1, <1>3
<1> QED
  BY <1>1, <1>2, <1>4, <1>5, <1>6, ReplaceTables

LEMMA RecordTodayTables ==
  ASSUME TablesInv, NEW key \in RecordKeys, RecordToday(key)
  PROVE  TablesInv' /\ TablesMove
<1>1. /\ IsNew(key) /\ asset' = asset /\ SnapshotTx(asset) /\ Remember(key, {})
      /\ rate' = rate
  BY DEF RecordToday, Mutate
<1>2. key \in Keys /\ {} \in Answer
  BY DEF Keys, Answer
<1>3. RowsInv' /\ RowsMove
  BY <1>1, SameRows DEF TablesInv
<1> QED
  BY <1>1, <1>2, <1>3, MutateTables

-----------------------------------------------------------------------------
(* The refresh of valuations *)

LEMMA ListSees ==
  ASSUME RowsInv
  PROVE  List(asset) \in Listing /\ Sees(List(asset))
<1>1. \A a \in Assets : asset[a] \in Holding
  BY DEF RowsInv
<1>2. PICK l : l = List(asset)
  OBVIOUS
<1>3. ASSUME NEW a \in Assets
      PROVE  /\ l[a] \in Seen \cup {NoRow}
             /\ l[a] # NoRow => /\ a \in Securities /\ asset[a].state # "none"
                               /\ l[a].quantity = asset[a].quantity /\ l[a].quantity > 0
                               /\ l[a].version = asset[a].version
  <2>1. CASE a \in Securities /\ asset[a].state = "live"
    <3>1. l[a] = [quantity |-> asset[a].quantity, version |-> asset[a].version]
      BY <1>2, <2>1 DEF List
    <3>2. asset[a].quantity > 0
      BY <2>1 DEF RowsInv
    <3> QED
      BY <1>1, <2>1, <3>1, <3>2 DEF Seen, Holding
  <2>2. CASE ~(a \in Securities /\ asset[a].state = "live")
    BY <1>2, <2>2 DEF List
  <2> QED
    BY <2>1, <2>2
<1>4. l \in Listing
  BY <1>2, <1>3 DEF List, Listing
<1>5. Sees(l)
  BY <1>1, <1>3 DEF Sees, Holding
<1> QED
  BY <1>2, <1>4, <1>5

LEMMA NothingListed == Nothing \in Listing /\ \A a \in Assets : Nothing[a] = NoRow
BY DEF Nothing, Listing

\* One handler moves on, whatever its step does to the tables.
LEMMA OneMoves ==
  ASSUME HandlersInv, TablesInv, TablesInv', TablesMove, NEW h \in Handlers,
         NEW r \in HandlerRecord, handler' = [handler EXCEPT ![h] = r], HandlerInv(h)'
  PROVE  HandlersInv'
<1>1. handler' \in [Handlers -> HandlerRecord]
  BY DEF HandlersInv
<1>2. ASSUME NEW g \in Handlers, g # h
      PROVE  HandlerInv(g)'
  <2>1. handler'[g] = handler[g] /\ HandlerInv(g) /\ handler \in [Handlers -> HandlerRecord]
    BY <1>2 DEF HandlersInv
  <2> QED
    BY <2>1, HandlerStays DEF TablesInv, TablesMove
<1> QED
  BY <1>1, <1>2 DEF HandlersInv

\* A refresh that ends without a write.
LEMMA EndsQuietly ==
  ASSUME HandlersInv, TablesInv, UNCHANGED tables, NEW h \in Handlers,
         NEW pc \in {"idle", "refused"}, Answers(h, pc, {})
  PROVE  HandlersInv' /\ handler'[h].pc = pc
<1>1. TablesInv' /\ TablesMove
  BY QuietTables
<1>2. handler[h] \in HandlerRecord /\ handler \in [Handlers -> HandlerRecord]
  BY DEF HandlersInv
<1>3. PICK r : r = [handler[h] EXCEPT !.pc = pc, !.listed = Nothing, !.answer = {}]
  OBVIOUS
<1>4. r \in HandlerRecord /\ r.pc = pc
  BY <1>2, <1>3, NothingListed DEF HandlerRecord, HandlerState
<1>5. handler' = [handler EXCEPT ![h] = r]
  BY <1>2, <1>3 DEF Answers
<1>6. handler'[h].pc = pc
  BY <1>2, <1>4, <1>5
<1>7. HandlerInv(h)'
  BY <1>6 DEF HandlerInv
<1> QED
  BY <1>1, <1>4, <1>5, <1>6, <1>7, OneMoves

\* A refresh that is answered with what its key has now.
LEMMA EndsAnswered ==
  ASSUME HandlersInv, TablesInv, TablesInv', TablesMove, NEW h \in Handlers,
         handler[h].pc = "quoting", NEW answer \in SUBSET Answer, answer # {},
         saved'[handler[h].key] = answer, Answers(h, "answered", answer)
  PROVE  HandlersInv' /\ handler'[h].pc = "answered"
<1>1. handler[h] \in HandlerRecord /\ handler \in [Handlers -> HandlerRecord]
      /\ handler[h].key \in RefreshKeys
  BY DEF HandlersInv, HandlerInv
<1>2. PICK r : r = [handler[h] EXCEPT !.pc = "answered", !.listed = Nothing, !.answer = answer]
  OBVIOUS
<1>3. r \in HandlerRecord
  BY <1>1, <1>2, NothingListed DEF HandlerRecord, HandlerState
<1>4. r.pc = "answered" /\ r.answer = answer /\ r.key = handler[h].key
  BY <1>1, <1>2 DEF HandlerRecord
<1>5. handler' = [handler EXCEPT ![h] = r]
  BY <1>1, <1>2 DEF Answers
<1>6. handler'[h] = r
  BY <1>1, <1>5
<1>7. HandlerInv(h)'
  BY <1>1, <1>4, <1>6 DEF HandlerInv
<1> QED
  BY <1>3, <1>4, <1>5, <1>6, <1>7, OneMoves

LEMMA BeginMoves ==
  ASSUME HandlersInv, TablesInv, NEW h \in Handlers, NEW key \in RefreshKeys, BeginRefresh(h, key)
  PROVE  HandlersInv'
<1>1. TablesInv' /\ TablesMove /\ asset' = asset /\ saved' = saved
  BY QuietTables DEF BeginRefresh, tables
<1>2. key \in Keys /\ saved[key] \in SUBSET Answer
  BY DEF Keys, TablesInv, SavedInv
<1>3. handler \in [Handlers -> HandlerRecord]
  BY DEF HandlersInv
<1>4. CASE IsNew(key)
  <2>1. PICK l \in Listing : l = List(asset) /\ Sees(l)
    BY ListSees DEF TablesInv
  <2>2. PICK r : r = [pc |-> "quoting", key |-> key, listed |-> l, answer |-> {}]
    OBVIOUS
  <2>3. r \in HandlerRecord /\ r.pc = "quoting" /\ r.key = key /\ r.listed = l
    BY <2>2 DEF HandlerRecord, HandlerState
  <2>4. handler' = [handler EXCEPT ![h] = r]
    BY <1>4, <2>1, <2>2 DEF BeginRefresh
  <2>5. handler'[h] = r
    BY <1>3, <2>4
  <2>6. HandlerInv(h)'
    BY <1>1, <2>1, <2>3, <2>5 DEF HandlerInv, Sees
  <2> QED
    BY <1>1, <2>3, <2>4, <2>6, OneMoves
<1>5. CASE ~IsNew(key)
  <2>1. PICK r : r = [pc |-> "answered", key |-> key, listed |-> Nothing, answer |-> saved[key]]
    OBVIOUS
  <2>2. r \in HandlerRecord
    BY <1>2, <2>1, NothingListed DEF HandlerRecord, HandlerState
  <2>3. r.pc = "answered" /\ r.key = key /\ r.answer = saved[key]
    BY <2>1
  <2>4. handler' = [handler EXCEPT ![h] = r]
    BY <1>5, <2>1 DEF BeginRefresh
  <2>5. handler'[h] = r
    BY <1>3, <2>4
  <2>6. HandlerInv(h)'
    BY <1>1, <1>5, <2>3, <2>5 DEF HandlerInv, IsNew
  <2> QED
    BY <1>1, <2>2, <2>4, <2>6, OneMoves
<1> QED
  BY <1>4, <1>5

\* No request is refused after its key has an answer.
Refusals ==
  \A h \in Handlers : handler'[h].pc = "refused" /\ handler[h].pc = "quoting" => IsNew(handler[h].key)

\* The rows of the quotes that came, if all of them are as they were listed.
LEMMA QuotedRows ==
  ASSUME RowsInv, NEW listed \in Listing, Sees(listed),
         NEW Q \in SUBSET {a \in Assets : listed[a] # NoRow}, StillCurrent(listed, Q),
         NEW price \in [Q -> Prices],
         asset' = [a \in Assets |-> IF a \in Q THEN Valued(a, listed[a].quantity, price[a])
                                    ELSE asset[a]]
  PROVE  /\ RowsInv' /\ RowsMove
         /\ \A a \in Assets : asset'[a] # Absent => asset[a] # Absent
         /\ \A a \in Assets : asset'[a] # asset[a] => ByQuote(a)
<1>1. ASSUME NEW a \in Q
      PROVE  asset[a].state = "live" /\ NextRow(a, asset'[a]) /\ ByQuote(a)
  <2>1. a \in Assets /\ listed[a] \in Seen /\ price[a] \in Prices
    BY DEF Listing
  <2>2. asset[a].state = "live" /\ listed[a].version = asset[a].version
    BY DEF StillCurrent
  <2>3. listed[a].quantity = asset[a].quantity /\ listed[a].quantity > 0
    BY <2>1, <2>2 DEF Sees
  <2>4. listed[a].quantity \in Nat
    BY <2>1 DEF Seen
  <2>5. asset'[a] = Valued(a, asset[a].quantity, price[a])
    BY <2>1, <2>3
  <2>6. NextRow(a, asset'[a])
    BY <2>1, <2>2, <2>3, <2>4, <2>5, ValuedRow
  <2> QED
    BY <2>1, <2>2, <2>5, <2>6 DEF ByQuote
<1>2. \A a \in Assets : a \notin Q => asset'[a] = asset[a]
  OBVIOUS
<1>3. \A a \in Assets : asset'[a] \in Holding
  BY <1>1, <1>2 DEF RowsInv, NextRow
<1>4. asset' \in [Assets -> Holding]
  BY <1>3
<1>5. RowsInv'
  BY <1>1, <1>2, <1>4, LedgerAssumption DEF RowsInv, NextRow
<1>6. RowsMove
  BY <1>1, <1>2 DEF RowsMove, NextRow
<1>7. \A a \in Q : asset[a] # Absent
  BY <1>1 DEF Absent
<1> QED
  BY <1>1, <1>2, <1>5, <1>6, <1>7

LEMMA FinishMoves ==
  ASSUME TablesInv, HandlersInv, NEW h \in Handlers, FinishRefresh(h)
  PROVE  /\ TablesInv' /\ TablesMove /\ HandlersInv'
         /\ handler'[h].pc = "refused" => IsNew(handler[h].key)
<1>1. PICK key, listed : key = handler[h].key /\ listed = handler[h].listed
  OBVIOUS
<1>2. /\ handler[h].pc = "quoting" /\ key \in RefreshKeys /\ key \in Keys
      /\ listed \in Listing /\ Sees(listed)
  BY <1>1 DEF FinishRefresh, HandlersInv, HandlerInv, HandlerRecord, Keys
<1>3. CASE ~IsNew(key) /\ Answers(h, "answered", saved[key]) /\ UNCHANGED tables
  <2>1. TablesInv' /\ TablesMove /\ saved'[key] = saved[key]
    BY <1>3, QuietTables DEF tables
  <2>2. PICK answer \in SUBSET Answer : answer = saved[key] /\ answer # {}
    BY <1>2, <1>3 DEF TablesInv, SavedInv, IsNew
  <2> QED
    BY <1>1, <1>2, <1>3, <2>1, <2>2, EndsAnswered
<1>4. CASE IsNew(key) /\ Answers(h, "refused", {}) /\ UNCHANGED tables
  BY <1>1, <1>4, EndsQuietly, QuietTables
<1>5. ASSUME IsNew(key), NEW Q \in SUBSET {a \in Assets : listed[a] # NoRow},
             StillCurrent(listed, Q), NEW price \in [Q -> Prices], CommitRefresh(h, Q, price)
      PROVE  TablesInv' /\ TablesMove /\ HandlersInv' /\ handler'[h].pc = "answered"
  <2>1. PICK rows : rows = [a \in Assets |-> IF a \in Q THEN Valued(a, listed[a].quantity, price[a])
                                           ELSE asset[a]]
    OBVIOUS
  <2>2. PICK answer : answer = {[asset |-> a, version |-> listed[a].version] : a \in Q}
    OBVIOUS
  <2> asset' = rows /\ SnapshotTx(rows) /\ Remember(key, answer)
      /\ Answers(h, "answered", {answer}) /\ rate' = rate
    BY <1>1, <1>5, <2>1, <2>2 DEF CommitRefresh
  <2>3. \A a \in Q : [asset |-> a, version |-> listed[a].version] \in [asset : Assets, version : Nat]
    BY <1>2 DEF Listing, Seen
  <2>4. answer \in Answer
    BY <1>5, <2>2, <2>3, Zenon DEF Answer
  <2>5. /\ RowsInv' /\ RowsMove
        /\ \A a \in Assets : asset'[a] # Absent => asset[a] # Absent
        /\ \A a \in Assets : asset'[a] # asset[a] => ByQuote(a)
    BY <1>2, <1>5, <2>1, QuotedRows DEF TablesInv
  <2>6. TablesInv' /\ TablesMove
    BY <1>2, <1>5, <2>4, <2>5, MutateTables
  <2>7. saved'[key] = {answer}
    BY <1>2, <1>5, <2>4, RememberKeepsSaved DEF TablesInv
  <2>8. PICK a \in SUBSET Answer : a = {answer} /\ a # {}
    BY <2>4
  <2> QED
    BY <1>1, <1>2, <2>6, <2>7, <2>8, EndsAnswered
<1>6. CASE ~IsNew(key)
  BY <1>1, <1>3, <1>6 DEF FinishRefresh, LookAgain
<1>7. CASE IsNew(key)
  <2>1. PICK Q \in SUBSET {a \in Assets : listed[a] # NoRow} :
          IF ~StillCurrent(listed, Q) THEN Answers(h, "refused", {}) /\ UNCHANGED tables
          ELSE \E price \in [Q -> Prices] : CommitRefresh(h, Q, price)
    BY <1>1, <1>7 DEF FinishRefresh, LookAgain
  <2> QED
    BY <1>1, <1>4, <1>5, <1>7, <2>1
<1> QED
  BY <1>6, <1>7

LEMMA RefreshMoves ==
  ASSUME TablesInv, HandlersInv, NEW h \in Handlers, RefreshStep(h)
  PROVE  TablesInv' /\ TablesMove /\ HandlersInv' /\ Refusals
<1>1. \A g \in Handlers : g # h => handler'[g] = handler[g]
  <2>1. CASE \E pc, answer : Answers(h, pc, answer)
    BY <2>1 DEF Answers, HandlersInv
  <2>2. FinishRefresh(h) => \E pc, answer : Answers(h, pc, answer)
    BY Zenon DEF FinishRefresh, CommitRefresh
  <2>3. CancelRefresh(h) => \E pc, answer : Answers(h, pc, answer)
    BY Zenon DEF CancelRefresh
  <2>4. CASE \E key \in RefreshKeys : BeginRefresh(h, key)
    BY <2>4 DEF BeginRefresh, HandlersInv
  <2> QED
    BY <2>1, <2>2, <2>3, <2>4 DEF RefreshStep
<1>2. CASE FinishRefresh(h)
  BY <1>1, <1>2, FinishMoves DEF Refusals
<1>3. CASE CancelRefresh(h)
  <2>1. UNCHANGED tables /\ Answers(h, "idle", {})
    BY <1>3 DEF CancelRefresh
  <2>2. HandlersInv' /\ handler'[h].pc = "idle"
    BY <2>1, EndsQuietly
  <2> QED
    BY <1>1, <2>1, <2>2, QuietTables DEF Refusals
<1>4. CASE \E key \in RefreshKeys : BeginRefresh(h, key)
  <2>1. UNCHANGED tables /\ handler[h].pc # "quoting" /\ HandlersInv'
    BY <1>4, BeginMoves DEF BeginRefresh
  <2> QED
    BY <1>1, <2>1, QuietTables DEF Refusals
<1> QED
  BY <1>2, <1>3, <1>4 DEF RefreshStep

-----------------------------------------------------------------------------
(* Requests, the job of the rates, and midnight *)

LEMMA HandlersStay ==
  ASSUME TablesInv, TablesInv', TablesMove, HandlersInv, UNCHANGED handler
  PROVE  HandlersInv' /\ Refusals
<1>1. ASSUME NEW h \in Handlers
      PROVE  HandlerInv(h)'
  BY HandlerStays DEF TablesInv, TablesMove, HandlersInv
<1> QED
  BY <1>1 DEF HandlersInv, Refusals

LEMMA RequestMoves ==
  ASSUME TablesInv, HandlersInv, Request
  PROVE  TablesInv' /\ TablesMove /\ HandlersInv' /\ Refusals
<1>1. CASE \E key \in CreateKeys : CreateAsset(key)
  <2>1. UNCHANGED handler
    BY <1>1 DEF CreateAsset, Mutate
  <2> QED
    BY <1>1, <2>1, CreateTables, HandlersStay
<1>2. CASE \E key \in EditKeys : PatchAsset(key)
  <2>1. UNCHANGED handler
    BY <1>2 DEF PatchAsset, Mutate
  <2> QED
    BY <1>2, <2>1, PatchTables, HandlersStay
<1>3. CASE \E key \in ArchiveKeys : ArchiveAsset(key)
  <2>1. UNCHANGED handler
    BY <1>3 DEF ArchiveAsset, Mutate
  <2> QED
    BY <1>3, <2>1, ArchiveTables, HandlersStay
<1>4. CASE \E key \in RecordKeys : RecordToday(key)
  <2>1. UNCHANGED handler
    BY <1>4 DEF RecordToday, Mutate
  <2> QED
    BY <1>4, <2>1, RecordTodayTables, HandlersStay
<1>5. CASE \E h \in Handlers : RefreshStep(h)
  BY <1>5, RefreshMoves
<1> QED
  BY <1>1, <1>2, <1>3, <1>4, <1>5 DEF Request

\* Steps that leave rows and answers alone.
LEMMA OnlyTodayMoves ==
  ASSUME TablesInv, UNCHANGED <<asset, saved, audit>>, TodayInv'
  PROVE  TablesInv' /\ TablesMove
<1>1. SavedInv' /\ RowsAreRequested'
  BY DEF TablesInv, SavedInv, RowsAreRequested
<1>2. SavedStays /\ Overwrites
  BY DEF SavedStays, Overwrites
<1> QED
  BY <1>1, <1>2, SameRows DEF TablesInv, TablesMove

LEMMA RatesMove ==
  ASSUME TablesInv, SaveRates
  PROVE  TablesInv' /\ TablesMove
<1>1. rate' \in Nat /\ rate' > 0
  BY LedgerAssumption DEF SaveRates
<1>2. UNCHANGED <<asset, todays, saved, audit, owed>>
  BY DEF SaveRates
<1>3. TodayFollowsAssets'
  BY <1>2 DEF TablesInv, TodayInv, TodayFollowsAssets
<1>4. TodayInv'
  BY <1>1, <1>2, <1>3 DEF TablesInv, TodayInv
<1> QED
  BY <1>2, <1>4, OnlyTodayMoves

LEMMA DayMoves ==
  ASSUME TablesInv, NewDay
  PROVE  TablesInv' /\ TablesMove
<1>1. TodayInv'
  BY DEF NewDay, TablesInv, TodayInv, TodayFollowsAssets
<1> QED
  BY <1>1, OnlyTodayMoves DEF NewDay

-----------------------------------------------------------------------------
(* The jobs *)

\* A job keeps, forgets or renews what it has listed.
Keeps(j) ==
  \/ \A a \in Assets : pass'[j].listed[a] # NoRow => pass'[j].listed[a] = pass[j].listed[a]
  \/ pass'[j].listed = List(asset) /\ asset' = asset

LEMMA PassesMove ==
  ASSUME TablesInv, TablesInv', TablesMove, PassesInv, pass' \in [Jobs -> Pass],
         \A j \in Jobs : Keeps(j)
  PROVE  PassesInv'
<1> SUFFICES ASSUME NEW j \in Jobs
             PROVE  Sees(pass[j].listed)'
  BY DEF PassesInv
<1>1. RowsInv /\ RowsInv' /\ RowsMove
  BY DEF TablesInv, TablesMove
<1>2. CASE \A a \in Assets : pass'[j].listed[a] # NoRow => pass'[j].listed[a] = pass[j].listed[a]
  <2>1. PICK l \in Listing : l = pass[j].listed /\ Sees(l)
    BY DEF PassesInv, Pass
  <2>2. \A a \in Assets : l[a] # NoRow =>
           /\ a \in Securities /\ asset'[a].state # "none"
           /\ l[a].quantity > 0
           /\ l[a].version <= asset'[a].version
           /\ l[a].version = asset'[a].version => l[a].quantity = asset'[a].quantity
    BY <1>1, <2>1, SeesLater
  <2> QED
    BY <1>2, <2>1, <2>2 DEF Sees
<1>3. CASE pass'[j].listed = List(asset) /\ asset' = asset
  <2>1. PICK l : l = List(asset) /\ Sees(l)
    BY <1>1, ListSees
  <2> QED
    BY <1>3, <2>1 DEF Sees
<1> QED
  BY <1>2, <1>3 DEF Keeps

LEMMA PassesStay ==
  ASSUME TablesInv, TablesInv', TablesMove, PassesInv, UNCHANGED pass
  PROVE  PassesInv'
<1>1. pass' \in [Jobs -> Pass] /\ \A j \in Jobs : Keeps(j)
  BY DEF PassesInv, Keeps
<1> QED
  BY <1>1, PassesMove

LEMMA IdlePass ==
  \A p : p \in {Idle, [Idle EXCEPT !.pc = "boot"], [Idle EXCEPT !.pc = "list", !.recovery = TRUE]}
        => p \in Pass /\ p.listed = Nothing
<1>1. ASSUME NEW p, p = Idle
      PROVE  p \in Pass /\ p.listed = Nothing
  BY <1>1, NothingListed DEF Idle, Pass, PassState
<1>2. ASSUME NEW p, p = [Idle EXCEPT !.pc = "boot"]
      PROVE  p \in Pass /\ p.listed = Nothing
  BY <1>2, NothingListed DEF Idle, Pass, PassState
<1>3. ASSUME NEW p, p = [Idle EXCEPT !.pc = "list", !.recovery = TRUE]
      PROVE  p \in Pass /\ p.listed = Nothing
  BY <1>3, NothingListed DEF Idle, Pass, PassState
<1> QED
  BY <1>1, <1>2, <1>3, Zenon

\* A job that starts, ends or gives up.
LEMMA PassReset ==
  ASSUME PassesInv, NEW j \in Jobs, NEW p \in Pass, p.listed = Nothing,
         pass' = [pass EXCEPT ![j] = p]
  PROVE  pass' \in [Jobs -> Pass] /\ \A i \in Jobs : Keeps(i)
<1>1. pass' \in [Jobs -> Pass]
  BY DEF PassesInv
<1>2. ASSUME NEW i \in Jobs
      PROVE  pass'[i] = pass[i] \/ \A a \in Assets : pass'[i].listed[a] = NoRow
  BY NothingListed DEF PassesInv
<1> QED
  BY <1>1, <1>2 DEF Keeps

LEMMA ListMoves ==
  ASSUME TablesInv, PassesInv, NEW j \in Jobs, ListHoldings(j)
  PROVE  TablesInv' /\ TablesMove /\ PassesInv'
<1>1. UNCHANGED tables /\ asset' = asset
  BY DEF ListHoldings, ledgerVars, tables
<1>2. TablesInv' /\ TablesMove
  BY <1>1, QuietTables
<1>3. PICK l \in Listing : l = List(asset)
  BY ListSees DEF TablesInv
<1>4. PICK old \in Pass : old = pass[j]
  BY DEF PassesInv
<1>5. PICK p : p = [old EXCEPT !.pc = "value", !.listed = l]
  OBVIOUS
<1>6. p \in Pass /\ p.listed = l
  BY <1>4, <1>5 DEF Pass, PassState
<1>7. pass' = [pass EXCEPT ![j] = p]
  BY <1>3, <1>4, <1>5 DEF ListHoldings, PassesInv
<1>8. pass' \in [Jobs -> Pass]
  BY <1>6, <1>7 DEF PassesInv
<1>9. \A i \in Jobs : pass'[i] = pass[i] \/ pass'[i].listed = l
  BY <1>6, <1>7 DEF PassesInv
<1>10. \A i \in Jobs : Keeps(i)
  BY <1>1, <1>3, <1>9 DEF Keeps
<1> QED
  BY <1>2, <1>8, <1>10, PassesMove

LEMMA ValueMoves ==
  ASSUME TablesInv, PassesInv, NEW j \in Jobs, ValueOne(j)
  PROVE  TablesInv' /\ TablesMove /\ PassesInv' /\ UNCHANGED handler
<1>1. PICK a \in Assets :
        LET seen == pass[j].listed[a] IN
        /\ seen # NoRow
        /\ pass' = [pass EXCEPT ![j].listed[a] = NoRow]
        /\ \/ UNCHANGED ledgerVars
           \/ \E p \in Prices :
                /\ CanWrite(asset[a], seen) /\ asset[a].version < MaxVersion
                /\ <<asset[a].amount, asset[a].currency>> # <<seen.quantity * p, QuotedIn(a)>>
                /\ asset' = [asset EXCEPT ![a] = Valued(a, seen.quantity, p)]
                /\ owed' = TRUE
                /\ UNCHANGED <<rate, todays, saved, audit, handler>>
  BY DEF ValueOne
<1>2. PICK listed \in Listing : listed = pass[j].listed /\ Sees(listed)
  BY DEF PassesInv, Pass
<1>3. PICK l \in Listing : l = [listed EXCEPT ![a] = NoRow]
  BY <1>2 DEF Listing
<1>4. PICK old \in Pass : old = pass[j]
  BY DEF PassesInv
<1>5. PICK p : p = [old EXCEPT !.listed = l]
  OBVIOUS
<1>6. p \in Pass /\ p.listed = l
  BY <1>4, <1>5 DEF Pass
<1>7. pass' = [pass EXCEPT ![j] = p]
  BY <1>1, <1>2, <1>3, <1>4, <1>5 DEF PassesInv
<1>8. pass' \in [Jobs -> Pass]
  BY <1>6, <1>7 DEF PassesInv
<1>9. \A i \in Jobs : pass'[i] = pass[i] \/ (i = j /\ pass'[i].listed = l)
  BY <1>6, <1>7 DEF PassesInv
<1>10. \A b \in Assets : l[b] # NoRow => l[b] = pass[j].listed[b]
  BY <1>2, <1>3 DEF Listing
<1>11. \A i \in Jobs : Keeps(i)
  BY <1>9, <1>10 DEF Keeps
<1>12. CASE UNCHANGED ledgerVars
  <2>1. UNCHANGED tables /\ UNCHANGED handler
    BY <1>12 DEF ledgerVars
  <2> QED
    BY <1>8, <1>11, <2>1, QuietTables, PassesMove
<1>13. ASSUME NEW price \in Prices, CanWrite(asset[a], listed[a]), listed[a] # NoRow,
              asset' = [asset EXCEPT ![a] = Valued(a, listed[a].quantity, price)],
              owed' = TRUE, UNCHANGED <<rate, todays, saved, audit>>
       PROVE  TablesInv' /\ TablesMove
  <2>1. asset[a].state = "live" /\ asset[a].version = listed[a].version
    BY <1>13 DEF CanWrite
  <2>2. listed[a] \in Seen /\ listed[a].quantity \in Nat
    BY <1>13 DEF Listing, Seen
  <2>3. listed[a].quantity > 0 /\ listed[a].quantity = asset[a].quantity
    BY <1>2, <1>13, <2>1 DEF Sees
  <2>4. PICK row : row = Valued(a, asset[a].quantity, price)
    OBVIOUS
  <2>5. NextRow(a, row)
    BY <2>1, <2>2, <2>3, <2>4, ValuedRow DEF TablesInv
  <2>6. asset' = [asset EXCEPT ![a] = row]
    BY <1>13, <2>3, <2>4
  <2>7. /\ RowsInv' /\ RowsMove
        /\ \A b \in Assets : asset'[b] # Absent => asset[b] # Absent
    BY <2>1, <2>5, <2>6, RowReplaced DEF NextRow, TablesInv
  <2>8. asset'[a] = row /\ \A b \in Assets : b # a => asset'[b] = asset[b]
    BY <2>6 DEF TablesInv, RowsInv
  <2>9. Overwrites
    BY <2>1, <2>4, <2>8 DEF Overwrites, ByQuote
  <2>10. SavedStays /\ SavedInv' /\ RowsAreRequested'
    BY <1>13, <2>7 DEF SavedStays, TablesInv, SavedInv, RowsAreRequested
  <2>11. TodayInv'
    BY <1>13 DEF TablesInv, TodayInv, TodayFollowsAssets
  <2> QED
    BY <2>7, <2>9, <2>10, <2>11 DEF TablesInv, TablesMove
<1>14. CASE \E price \in Prices :
              /\ CanWrite(asset[a], listed[a])
              /\ asset' = [asset EXCEPT ![a] = Valued(a, listed[a].quantity, price)]
              /\ owed' = TRUE /\ UNCHANGED <<rate, todays, saved, audit, handler>>
  BY <1>1, <1>2, <1>8, <1>11, <1>13, <1>14, PassesMove
<1> QED
  BY <1>1, <1>2, <1>12, <1>14

\* Record writes the day's row; the others write nothing.
LEMMA RestOfPassMoves ==
  ASSUME TablesInv, PassesInv, NEW j \in Jobs, Record(j) \/ Abort(j) \/ Recover
  PROVE  TablesInv' /\ TablesMove /\ PassesInv' /\ UNCHANGED handler
<1>1. PICK i \in Jobs, p \in Pass : p.listed = Nothing /\ pass' = [pass EXCEPT ![i] = p]
  BY IdlePass, ValuationAssumption DEF Record, Abort, Recover
<1>2. pass' \in [Jobs -> Pass] /\ \A k \in Jobs : Keeps(k)
  BY <1>1, PassReset
<1>3. CASE UNCHANGED ledgerVars
  <2>1. UNCHANGED tables /\ UNCHANGED handler
    BY <1>3 DEF ledgerVars
  <2> QED
    BY <1>2, <2>1, QuietTables, PassesMove
<1>4. CASE Record(j)
  <2>1. UNCHANGED <<asset, rate, saved, audit, handler>> /\ SnapshotTx(asset)
    BY <1>4 DEF Record
  <2>2. TodayInv'
    BY <2>1, SnapshotKeepsToday DEF TablesInv
  <2> QED
    BY <1>2, <2>1, <2>2, OnlyTodayMoves, PassesMove
<1> QED
  BY <1>3, <1>4 DEF Abort, Recover

LEMMA RestartMoves ==
  ASSUME TablesInv, Restart
  PROVE  TablesInv' /\ TablesMove /\ HandlersInv' /\ PassesInv' /\ Refusals
<1>1. TablesInv' /\ TablesMove
  BY QuietTables DEF Restart
<1>2. PICK r : r = [pc |-> "idle", key |-> NoRow, listed |-> Nothing, answer |-> {}]
  OBVIOUS
<1>3. r \in HandlerRecord /\ r.pc = "idle"
  BY <1>2, NothingListed DEF HandlerRecord, HandlerState
<1>4. handler' = [h \in Handlers |-> r]
  BY <1>2 DEF Restart, LoseHandlers
<1>5. HandlersInv' /\ Refusals
  BY <1>3, <1>4 DEF HandlersInv, HandlerInv, Refusals
<1>6. ASSUME NEW j \in Jobs
      PROVE  Booting[j] \in Pass /\ Booting[j].listed = Nothing
  BY IdlePass DEF Booting
<1>7. pass' = Booting
  BY DEF Restart
<1>8. PassesInv'
  BY <1>6, <1>7, NothingListed DEF PassesInv, Booting, Sees
<1> QED
  BY <1>1, <1>5, <1>8

-----------------------------------------------------------------------------
(* The invariant, and what it is for *)

LEMMA InitInv ==
  ASSUME ValuationInit
  PROVE  IInv
<1>1. asset = [a \in Assets |-> Absent] /\ Absent \in Holding /\ Absent.state = "none"
  BY DEF ValuationInit, LedgerInit, Absent, Holding, Currency
<1>2. RowsInv
  BY <1>1, LedgerAssumption DEF RowsInv
<1>3. TodayInv
  BY DEF ValuationInit, LedgerInit, TodayInv, TodayFollowsAssets
<1>4. SavedInv
  BY DEF ValuationInit, LedgerInit, SavedInv
<1>5. RowsAreRequested
  BY <1>1 DEF RowsAreRequested
<1>6. PICK r : r = [pc |-> "idle", key |-> NoRow, listed |-> Nothing, answer |-> {}]
  OBVIOUS
<1>7. r \in HandlerRecord /\ r.pc = "idle"
  BY <1>6, NothingListed DEF HandlerRecord, HandlerState
<1>8. handler = [h \in Handlers |-> r]
  BY <1>6 DEF ValuationInit, LedgerInit
<1>9. HandlersInv
  BY <1>7, <1>8 DEF HandlersInv, HandlerInv
<1>10. ASSUME NEW j \in Jobs
       PROVE  Booting[j] \in Pass /\ Booting[j].listed = Nothing
  BY IdlePass DEF Booting
<1>11. pass = Booting
  BY DEF ValuationInit
<1>12. PassesInv
  BY <1>10, <1>11, NothingListed DEF PassesInv, Booting, Sees
<1> QED
  BY <1>2, <1>3, <1>4, <1>5, <1>9, <1>12 DEF IInv, TablesInv

LEMMA NextMoves ==
  ASSUME IInv, ValuationNext
  PROVE  IInv' /\ TablesMove /\ Refusals
<1>1. TablesInv /\ HandlersInv /\ PassesInv
  BY DEF IInv
<1>2. CASE Request /\ UNCHANGED pass
  BY <1>1, <1>2, RequestMoves, PassesStay DEF IInv
<1>3. CASE SaveRates /\ UNCHANGED pass
  <2>1. UNCHANGED handler
    BY <1>3 DEF SaveRates
  <2> QED
    BY <1>1, <1>3, <2>1, RatesMove, HandlersStay, PassesStay DEF IInv
<1>4. CASE NewDay /\ UNCHANGED pass
  <2>1. UNCHANGED handler
    BY <1>4 DEF NewDay
  <2> QED
    BY <1>1, <1>4, <2>1, DayMoves, HandlersStay, PassesStay DEF IInv
<1>5. CASE Recover
  BY <1>1, <1>5, RestOfPassMoves, HandlersStay, ValuationAssumption DEF IInv
<1>6. CASE Restart
  BY <1>1, <1>6, RestartMoves DEF IInv
<1>7. ASSUME NEW j \in Jobs, PassStep(j)
      PROVE  IInv' /\ TablesMove /\ Refusals
  <2>1. CASE ListHoldings(j)
    <3>1. UNCHANGED handler
      BY <2>1 DEF ListHoldings, ledgerVars
    <3> QED
      BY <1>1, <2>1, <3>1, ListMoves, HandlersStay DEF IInv
  <2>2. CASE ValueOne(j)
    BY <1>1, <2>2, ValueMoves, HandlersStay DEF IInv
  <2>3. CASE Record(j) \/ Abort(j)
    BY <1>1, <2>3, RestOfPassMoves, HandlersStay DEF IInv
  <2> QED
    BY <1>7, <2>1, <2>2, <2>3 DEF PassStep
<1> QED
  BY <1>2, <1>3, <1>4, <1>5, <1>6, <1>7 DEF ValuationNext

LEMMA InvNext ==
  ASSUME IInv, [ValuationNext]_valuationVars
  PROVE  IInv'
<1>1. CASE ValuationNext
  BY <1>1, NextMoves
<1>2. CASE UNCHANGED valuationVars
  <2>1. UNCHANGED tables /\ UNCHANGED handler /\ UNCHANGED pass
    BY <1>2 DEF valuationVars, ledgerVars
  <2>2. TablesInv' /\ TablesMove
    BY <2>1, QuietTables DEF IInv
  <2> QED
    BY <2>1, <2>2, HandlersStay, PassesStay DEF IInv
<1> QED
  BY <1>1, <1>2

LEMMA InductiveInvariant == ValuationSpec => []IInv
BY InitInv, InvNext, PTL DEF ValuationSpec

\* The variables of Ledger and Valuation keep their types; a holding is worth something.
THEOREM LedgerTypes == ValuationSpec => []ValuationTypeOK
<1>1. IInv => ValuationTypeOK
  <2> SUFFICES ASSUME IInv PROVE ValuationTypeOK
    OBVIOUS
  <2>1. asset \in [Assets -> Holding] /\ \A a \in Live(asset) : asset[a].amount > 0
    BY DEF IInv, TablesInv, RowsInv, Live
  <2>2. rate \in Nat /\ owed \in BOOLEAN
    BY DEF IInv, TablesInv, TodayInv
  <2>3. todays # NoRow => todays = [total |-> todays.total, rate |-> todays.rate] /\ todays.rate \in Nat
    BY DEF IInv, TablesInv, TodayInv
  <2>4. saved \in [Keys -> SUBSET Answer] /\ audit \in [Keys -> Nat]
    BY DEF IInv, TablesInv, SavedInv
  <2>5. handler \in [Handlers -> HandlerRecord] /\ pass \in [Jobs -> Pass]
    BY DEF IInv, HandlersInv, PassesInv
  <2> QED
    BY <2>1, <2>2, <2>3, <2>4, <2>5 DEF ValuationTypeOK, LedgerTypeOK, HandlerRecord
<1> QED
  BY <1>1, InductiveInvariant, PTL

\* However often, and however concurrently, a request is sent, it is applied once, and
\* every answer given for its key is the one that is saved.
THEOREM RequestsApplyOnce == ValuationSpec => []AppliedOnce
<1>1. IInv => AppliedOnce
  BY DEF IInv, TablesInv, SavedInv, RowsAreRequested, HandlersInv, HandlerInv, AppliedOnce
<1> QED
  BY <1>1, InductiveInvariant, PTL

\* The total of today is that of the holdings, unless a job still owes it.
THEOREM TotalFollowsHoldings == ValuationSpec => []TodayFollowsAssets
<1>1. IInv => TodayFollowsAssets
  BY DEF IInv, TablesInv, TodayInv
<1> QED
  BY <1>1, InductiveInvariant, PTL

\* Nobody overwrites a row without having seen it: requests compare the version, and the
\* price of a refresh or of a job is for the quantity the row has.
THEOREM NobodyOverwritesBlindly == ValuationSpec => NoBlindOverwrite
<1>1. ASSUME IInv, [ValuationNext]_valuationVars
      PROVE  [\A a \in Assets : asset'[a] # asset[a] =>
                /\ asset[a].state # "archived"
                /\ asset'[a].version = asset[a].version + 1
                /\ ByRequest(a) \/ ByQuote(a)]_asset
  <2>1. CASE ValuationNext
    <3>1. RowsMove /\ Overwrites
      BY <1>1, <2>1, NextMoves DEF TablesMove
    <3> QED
      BY <3>1 DEF RowsMove, Overwrites
  <2>2. CASE UNCHANGED valuationVars
    BY <2>2 DEF valuationVars, ledgerVars, tables
  <2> QED
    BY <1>1, <2>1, <2>2
<1> QED
  BY <1>1, InductiveInvariant, PTL DEF ValuationSpec, NoBlindOverwrite

\* A refresh whose change is committed is not refused for a version afterwards.
THEOREM CommittedRefreshIsNotRefused == ValuationSpec => CommittedIsNeverRefused
<1>1. ASSUME IInv, [ValuationNext]_valuationVars
      PROVE  [\A h \in Handlers : handler'[h].pc = "refused" /\ handler[h].pc = "quoting"
                                   => IsNew(handler[h].key)]_handler
  <2>1. CASE ValuationNext
    BY <1>1, <2>1, NextMoves DEF Refusals
  <2>2. CASE UNCHANGED valuationVars
    BY <2>2 DEF valuationVars, ledgerVars
  <2> QED
    BY <1>1, <2>1, <2>2
<1> QED
  BY <1>1, InductiveInvariant, PTL DEF ValuationSpec, CommittedIsNeverRefused
=============================================================================
