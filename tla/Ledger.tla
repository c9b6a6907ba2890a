---------------------------------- MODULE Ledger ----------------------------------
(***************************************************************************)
(* The holdings of one user, the day's history row, and the requests that  *)
(* write them.                                                             *)
(*                                                                         *)
(* Every write goes through Mutate: one SQLite transaction that looks for  *)
(* the answer saved under the request's key, applies the change, records   *)
(* the day's total, and saves answer and log entry.  A request that fails  *)
(* (400, 404, 409, an error of the database) or only previews rolls its    *)
(* transaction back and is no step.  The refresh of valuations is the one  *)
(* request that works outside its transaction: it asks for quotes between  *)
(* reading the holdings and writing them.                                  *)
(***************************************************************************)
EXTENDS Naturals, FiniteSetsExt

CONSTANTS Assets,         \* row identifiers
          Securities,     \* those whose rows are stocks or funds, with a quantity
          Dollar,         \* those of them that are quoted in dollars
          CreateKeys, EditKeys, ArchiveKeys, RecordKeys, RefreshKeys,
                          \* request keys; their table is keyed by operation too
          Handlers,       \* requests for a refresh that run at a time
          Quantities, Amounts, Prices, Rates,  \* all positive
          NoRow           \* what no table, list or answer holds

Keys == CreateKeys \cup EditKeys \cup ArchiveKeys \cup RecordKeys \cup RefreshKeys

ASSUME LedgerAssumption ==
  /\ IsFiniteSet(Assets) /\ Securities \subseteq Assets /\ Dollar \subseteq Securities
  /\ \A S \in {CreateKeys, EditKeys, ArchiveKeys, RecordKeys, RefreshKeys} :
       \A k \in S : \A T \in {CreateKeys, EditKeys, ArchiveKeys, RecordKeys, RefreshKeys} :
         k \in T => T = S
  /\ NoRow \notin [quantity : Nat, version : Nat]
  /\ Quantities \cup Amounts \cup Prices \cup Rates \subseteq Nat \ {0}

VARIABLES asset,    \* the rows of assets
          rate,     \* yuan for a dollar in exchange_rates, 0 before the first refresh
          todays,   \* today's row of asset_history
          saved,    \* mutation_requests: what is stored under a key, one answer or none
          audit,    \* entries of operation_logs by key
          handler,  \* requests for a refresh of valuations
          owed      \* a job wrote values and recorded no total since (history variable)

tables == <<asset, rate, todays, saved, audit, owed>>
ledgerVars == <<tables, handler>>

Currency == {"CNY", "USD"}
Holding == [state : {"none", "live", "archived"}, quantity : Nat, amount : Nat,
            currency : Currency, version : Nat]
Absent == [state |-> "none", quantity |-> 0, amount |-> 0, currency |-> "CNY", version |-> 0]

\* What is remembered of a request: the rows its answer shows as changed, with the
\* versions its content asked for.
Answer == SUBSET [asset : Assets, version : Nat]

\* What listing the holdings told about a security; NoRow for one not listed.
Seen == [quantity : Nat, version : Nat]
Listing == [Assets -> Seen \cup {NoRow}]
Nothing == [a \in Assets |-> NoRow]

HandlerState == {"idle", "quoting", "answered", "refused"}

LedgerInit ==
  /\ asset = [a \in Assets |-> Absent]
  /\ rate = 0
  /\ todays = NoRow
  /\ saved = [k \in Keys |-> {}]
  /\ audit = [k \in Keys |-> 0]
  /\ handler = [h \in Handlers |-> [pc |-> "idle", key |-> NoRow, listed |-> Nothing, answer |-> {}]]
  /\ owed = FALSE

-----------------------------------------------------------------------------
\* The day's total.

Live(rows) == {a \in Assets : rows[a].state = "live"}
InYuan(row, r) == row.amount * (IF row.currency = "CNY" THEN 1 ELSE r)
Rated(rows, r) == \A a \in Live(rows) : rows[a].currency = "CNY" \/ r > 0
Total(rows, r) == MapThenSumSet(LAMBDA a : InYuan(rows[a], r), Live(rows))

\* Records the total of the given rows, over an earlier one of the day; skipped when a
\* rate is missing.
SnapshotTx_RowsBefore(rows) ==
  IF Rated(asset, rate)
  THEN todays' = [total |-> Total(asset, rate), rate |-> rate] /\ owed' = FALSE
  ELSE UNCHANGED <<todays, owed>>
SnapshotTx(rows) ==
  IF Rated(rows, rate)
  THEN todays' = [total |-> Total(rows, rate), rate |-> rate] /\ owed' = FALSE
  ELSE UNCHANGED <<todays, owed>>

\* The tail of Mutate: answer and log entry are part of the transaction.
Remember_LogOnly(key, answer) == saved' = saved /\ audit' = [audit EXCEPT ![key] = @ + 1]
Remember(key, answer) ==
  /\ saved' = [saved EXCEPT ![key] = @ \cup {answer}]
  /\ audit' = [audit EXCEPT ![key] = @ + 1]

\* A key that has an answer is not applied again: the request is answered with what is
\* saved, or refused if its content is another one.
IsNew(key) == saved[key] = {}

\* One request of the atomic kind: rows are what the change leaves, answer as above.
Mutate(key, rows, answer) ==
  /\ IsNew(key)
  /\ asset' = rows
  /\ SnapshotTx(rows)
  /\ Remember(key, answer)
  /\ UNCHANGED <<rate, handler>>

\* Every UPDATE of a row raises its version (trigger assets_version).
Updated(row) == [row EXCEPT !.version = @ + 1]

CheckVersion_Skipped(expected, actual) == TRUE
CheckVersion(expected, actual) == expected = actual

-----------------------------------------------------------------------------
\* Requests that are one transaction.

CreateAsset(key) ==
  \E a \in Assets : \E q \in IF a \in Securities THEN Quantities ELSE {0}, m \in Amounts, c \in Currency :
    /\ asset[a] = Absent
    /\ Mutate(key, [asset EXCEPT ![a] = [state |-> "live", quantity |-> q, amount |-> m,
                                         currency |-> c, version |-> 1]],
              {[asset |-> a, version |-> 0]})

\* The rows an edit or an archive request finds, with a version its sender has read.
Current(a, version) == asset[a].state = "live" /\ CheckVersion(version, asset[a].version)
Edited(a) ==
  LET row == Updated(asset[a]) IN
  {[row EXCEPT !.amount = m] : m \in Amounts} \cup {[row EXCEPT !.currency = c] : c \in Currency}
  \cup (IF a \in Securities THEN {[row EXCEPT !.quantity = q] : q \in Quantities} ELSE {})

PatchAsset(key) ==
  \E a \in Assets : \E version \in 1..asset[a].version, row \in Edited(a) :
    /\ Current(a, version)
    /\ Mutate(key, [asset EXCEPT ![a] = row], {[asset |-> a, version |-> version]})

ArchiveAsset(key) ==
  \E a \in Assets : \E version \in 1..asset[a].version :
    /\ Current(a, version)
    /\ Mutate(key, [asset EXCEPT ![a] = [Updated(asset[a]) EXCEPT !.state = "archived"]],
              {[asset |-> a, version |-> version]})

\* POST history: the total on demand.
RecordToday(key) == Mutate(key, asset, {})

-----------------------------------------------------------------------------
\* The refresh of valuations.

List_All(rows) == [a \in Assets |-> IF rows[a].state = "live"
                                    THEN [quantity |-> rows[a].quantity, version |-> rows[a].version]
                                    ELSE NoRow]
List(rows) == [a \in Assets |-> IF a \in Securities /\ rows[a].state = "live"
                                THEN [quantity |-> rows[a].quantity, version |-> rows[a].version]
                                ELSE NoRow]

\* What a quote does to the row of a: value and currency are the market's.
QuotedIn(a) == IF a \in Dollar THEN "USD" ELSE "CNY"
Valued(a, quantity, price) ==
  [Updated(asset[a]) EXCEPT !.amount = quantity * price, !.currency = QuotedIn(a)]

Answers(h, pc, answer) ==
  handler' = [handler EXCEPT ![h].pc = pc, ![h].listed = Nothing, ![h].answer = answer]

\* Replay, then the list of holdings, or the answer that is saved.
BeginRefresh(h, key) ==
  /\ handler[h].pc # "quoting"
  /\ handler' = [handler EXCEPT ![h] =
       IF IsNew(key)
       THEN [pc |-> "quoting", key |-> key, listed |-> List(asset), answer |-> {}]
       ELSE [pc |-> "answered", key |-> key, listed |-> Nothing, answer |-> saved[key]]]
  /\ UNCHANGED tables

\* Any quote may be missing; those that came are written only if none of their rows
\* changed meanwhile.
StillCurrent_Live(listed, Q) == \A a \in Q : asset[a].state = "live"
StillCurrent(listed, Q) == \A a \in Q : asset[a].state = "live" /\ asset[a].version = listed[a].version
LookAgain_Never(key) == TRUE
LookAgain(key) == IsNew(key)

\* The transaction of a refresh for which the quotes of Q came.
CommitRefresh(h, Q, price) ==
  LET listed == handler[h].listed
      rows == [a \in Assets |-> IF a \in Q THEN Valued(a, listed[a].quantity, price[a])
                                ELSE asset[a]]
      answer == {[asset |-> a, version |-> listed[a].version] : a \in Q}
  IN
  /\ asset' = rows /\ SnapshotTx(rows)
  /\ Remember(handler[h].key, answer) /\ Answers(h, "answered", {answer})
  /\ UNCHANGED rate

FinishRefresh(h) ==
  LET key == handler[h].key
      listed == handler[h].listed
  IN
  /\ handler[h].pc = "quoting"
  /\ IF ~LookAgain(key) THEN Answers(h, "answered", saved[key]) /\ UNCHANGED tables
     ELSE \E Q \in SUBSET {a \in Assets : listed[a] # NoRow} :
            IF ~StillCurrent(listed, Q) THEN Answers(h, "refused", {}) /\ UNCHANGED tables
            ELSE \E price \in [Q -> Prices] : CommitRefresh(h, Q, price)

\* The client goes away while quotes are fetched, or a statement fails.
CancelRefresh(h) ==
  /\ handler[h].pc = "quoting"
  /\ Answers(h, "idle", {})
  /\ UNCHANGED tables

RefreshStep(h) == FinishRefresh(h) \/ CancelRefresh(h) \/ \E key \in RefreshKeys : BeginRefresh(h, key)

-----------------------------------------------------------------------------

\* All rates in one transaction; nothing records the total again.
SaveRates ==
  /\ \E r \in Rates : rate' = r
  /\ UNCHANGED <<asset, todays, saved, audit, handler, owed>>

\* Midnight in Shanghai: today has no row yet.
NewDay ==
  /\ todays' = NoRow /\ owed' = FALSE
  /\ UNCHANGED <<asset, rate, saved, audit, handler>>

Request ==
  \/ \E key \in CreateKeys : CreateAsset(key)
  \/ \E key \in EditKeys : PatchAsset(key)
  \/ \E key \in ArchiveKeys : ArchiveAsset(key)
  \/ \E key \in RecordKeys : RecordToday(key)
  \/ \E h \in Handlers : RefreshStep(h)

\* The process dies; its clients get no answer and may ask again.
LoseHandlers ==
  handler' = [h \in Handlers |-> [pc |-> "idle", key |-> NoRow, listed |-> Nothing, answer |-> {}]]

-----------------------------------------------------------------------------
\* Properties

\* The type invariant; a holding is worth something, or validAsset would refuse it.
LedgerTypeOK ==
  /\ asset \in [Assets -> Holding]
  /\ \A a \in Live(asset) : asset[a].amount > 0
  /\ rate \in Nat
  /\ todays # NoRow => todays = [total |-> todays.total, rate |-> todays.rate] /\ todays.rate \in Nat
  /\ saved \in [Keys -> SUBSET Answer]
  /\ audit \in [Keys -> Nat]
  /\ handler \in [Handlers -> [pc : HandlerState, key : RefreshKeys \cup {NoRow}, listed : Listing,
                               answer : SUBSET Answer]]
  /\ owed \in BOOLEAN

\* A request is applied once, however often, and however concurrently, it is sent: it
\* has one log entry exactly when its answer is saved, every row of assets is the work
\* of one request, and whoever was answered was told what is saved.
AppliedOnce ==
  /\ \A k \in Keys : \/ saved[k] = {} /\ audit[k] = 0
                    \/ \E answer \in saved[k] : saved[k] = {answer} /\ audit[k] = 1
  /\ \A a \in Assets : asset[a] # Absent =>
       \E k \in CreateKeys : saved[k] = {{[asset |-> a, version |-> 0]}}
  /\ \A h \in Handlers : handler[h].pc = "answered" => handler[h].answer = saved[handler[h].key]

\* A request whose change is committed is never refused for a version afterwards: its
\* own write made that version old.
CommittedIsNeverRefused ==
  [][\A h \in Handlers : handler'[h].pc = "refused" /\ handler[h].pc = "quoting"
                          => IsNew(handler[h].key)]_handler

\* A row changes only by a request that saw exactly the row it replaces, or by a price
\* for the quantity the row has now; each change is a new version, and an archived row
\* changes no more.
ByRequest(a) ==
  \E k \in CreateKeys \cup EditKeys \cup ArchiveKeys :
    saved[k] = {} /\ saved'[k] = {{[asset |-> a, version |-> asset[a].version]}}
ByQuote(a) ==
  /\ asset[a].state = "live"
  /\ \E p \in Prices : asset'[a] = Valued(a, asset[a].quantity, p)
NoBlindOverwrite ==
  [][\A a \in Assets : asset'[a] # asset[a] =>
       /\ asset[a].state # "archived"
       /\ asset'[a].version = asset[a].version + 1
       /\ ByRequest(a) \/ ByQuote(a)]_asset

\* Today's total is that of the holdings, at the rates it was recorded with, unless a
\* job wrote values after it or a holding came in a currency those rates do not know.
TodayFollowsAssets ==
  todays # NoRow /\ ~owed /\ Rated(asset, todays.rate)
    => todays.total = Total(asset, todays.rate)
=============================================================================
