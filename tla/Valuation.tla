--------------------------------- MODULE Valuation ---------------------------------
(***************************************************************************)
(* The goroutines that value and record the holdings of Ledger while the   *)
(* user's requests go on: the recovery at startup and the daily run at     *)
(* 05:00 are one goroutine, the snapshots at the end of a market batch are *)
(* another.                                                                *)
(*                                                                         *)
(* Both list the holdings, write one value at a time, each in a statement  *)
(* of its own that compares the version, and record the total at the end.  *)
(***************************************************************************)
EXTENDS Ledger

CONSTANTS Jobs,       \* the goroutines: "daily" and "market"
          MaxVersion  \* jobs find no other price from here on (bound)

ASSUME ValuationAssumption ==
  Jobs \subseteq {"daily", "market"} /\ "daily" \in Jobs /\ MaxVersion \in Nat

VARIABLES pass        \* what each goroutine is at

valuationVars == <<ledgerVars, pass>>

PassState == {"idle", "boot", "list", "value"}
Pass == [pc : PassState, listed : Listing, recovery : BOOLEAN]
Idle == [pc |-> "idle", listed |-> Nothing, recovery |-> FALSE]

Booting == [j \in Jobs |-> IF j = "daily" THEN [Idle EXCEPT !.pc = "boot"] ELSE Idle]

ValuationInit == LedgerInit /\ pass = Booting

-----------------------------------------------------------------------------

\* snapshotMissingCurrentAssets: only a day without a row is recorded.
Recover ==
  /\ pass["daily"].pc = "boot"
  /\ pass' = [pass EXCEPT !["daily"] =
                IF todays = NoRow THEN [Idle EXCEPT !.pc = "list", !.recovery = TRUE] ELSE Idle]
  /\ UNCHANGED ledgerVars

\* The holdings of the user whose turn it is: in the recovery, or because it is 05:00
\* or a market batch ends.
ListHoldings(j) ==
  /\ pass[j].pc \in {"idle", "list"}
  /\ pass' = [pass EXCEPT ![j].pc = "value", ![j].listed = List(asset)]
  /\ UNCHANGED ledgerVars

\* The condition of the UPDATE.
CanWrite_AnyVersion(row, seen) == row.state = "live"
CanWrite(row, seen) == row.state = "live" /\ row.version = seen.version

\* One security: no price, a price that changes nothing, or a value that is written if
\* the row is still the one listed.
ValueOne(j) ==
  /\ pass[j].pc = "value"
  /\ \E a \in Assets :
       LET seen == pass[j].listed[a] IN
       /\ seen # NoRow
       /\ pass' = [pass EXCEPT ![j].listed[a] = NoRow]
       /\ \/ UNCHANGED ledgerVars
          \/ \E p \in Prices :
               /\ CanWrite(asset[a], seen) /\ asset[a].version < MaxVersion
               /\ <<asset[a].amount, asset[a].currency>> # <<seen.quantity * p, QuotedIn(a)>>
               /\ asset' = [asset EXCEPT ![a] = Valued(a, seen.quantity, p)]
               /\ owed' = TRUE
               /\ UNCHANGED <<rate, todays, saved, audit, handler>>

\* Snapshot, in a transaction of its own.
Record(j) ==
  /\ pass[j].pc = "value" /\ pass[j].listed = Nothing
  /\ SnapshotTx(asset)
  /\ pass' = [pass EXCEPT ![j] = Idle]
  /\ UNCHANGED <<asset, rate, saved, audit, handler>>

\* A statement fails and the total is not recorded.
Abort(j) ==
  /\ pass[j].pc \in {"list", "value"}
  /\ pass' = [pass EXCEPT ![j] = Idle]
  /\ UNCHANGED ledgerVars

Restart ==
  /\ LoseHandlers /\ pass' = Booting
  /\ UNCHANGED tables

PassStep(j) == ListHoldings(j) \/ ValueOne(j) \/ Record(j) \/ Abort(j)

ValuationNext ==
  \/ (Request \/ SaveRates \/ NewDay) /\ UNCHANGED pass
  \/ Recover \/ Restart
  \/ \E j \in Jobs : PassStep(j)

ValuationSpec == ValuationInit /\ [][ValuationNext]_valuationVars

-----------------------------------------------------------------------------
\* Properties

\* The type invariant.
ValuationTypeOK == LedgerTypeOK /\ pass \in [Jobs -> Pass]

\* What scheduler.go says of the recovery at startup: it fills a missing row and never
\* replaces one.
RecoveryFillsOnly ==
  [][pass["daily"].recovery /\ ~pass'["daily"].recovery /\ todays # NoRow
       => todays' \in {todays, NoRow}]_valuationVars
=============================================================================
