----------------------------- MODULE MarketCache -----------------------------
(***************************************************************************)
(* The market cache coordinator: one flight (goroutine) per key fetches a  *)
(* security's price history or a currency's rates, at most SlotCap of them *)
(* at work, while requests read the cache and start flights.               *)
(*                                                                         *)
(* SQLite has one connection, so each of its transactions is a step; every *)
(* network answer, lock, slot and timer is a step of its own.  The model   *)
(* covers one Shanghai day, one foreign currency and one return interval,  *)
(* which stored history reaches; times are reduced to whether an interval  *)
(* has passed.                                                             *)
(***************************************************************************)
EXTENDS Naturals, FiniteSets

CONSTANTS Securities,   \* normalised securities somebody holds
          Dollar,       \* those quoted in the foreign currency
          FX,           \* the key of that currency's rate history
          Flights,      \* names for goroutines
          Nobody,       \* no goroutine
          Readers,      \* concurrent requests
          SlotCap,      \* goroutines at work at a time (2 in the code)
          Attempts,     \* tries of a synchronisation (3 in the code)
          MaxRevision,  \* bound: revisions of the world's data
          RowsGetLost,  \* whether behaviours where stored rows disappear are looked at
          FaultsEnd     \* whether behaviours where faults end are told apart (liveness)

ASSUME CacheAssumption == /\ IsFiniteSet(Flights)
                          /\ Dollar \subseteq Securities /\ FX \notin Securities
                          /\ Nobody \notin Flights
                          /\ SlotCap \in Nat \ {0} /\ Attempts \in Nat \ {0}
                          /\ MaxRevision \in Nat \ {0}
                          /\ RowsGetLost \in BOOLEAN /\ FaultsEnd \in BOOLEAN

Keys == Securities \cup {FX}

VARIABLES world,       \* revision of each history at its source
          worldRates,  \* revision of the rate history at its source
          prices,      \* market_daily_prices: revision of its older and of its recent part
          rows,        \* whether market_daily_prices has all its rows
          rates,       \* exchange_rate_history: its revision, 0 before the first
          cached,      \* market_return_cache
          failure,     \* last_error and retry_after of market_sync_state
          flight,      \* the goroutines
          registered,  \* flights: the goroutine of a key
          slotsUsed,   \* length of the channel slots
          fxMu,        \* who holds fxMu
          reader,      \* the requests
          calm         \* from now on: no fault, no request, no change in the world

storeVars == <<prices, rows, rates, cached, failure>>
goVars == <<flight, registered, slotsUsed, fxMu>>
worldVars == <<world, worldRates, calm>>
vars == <<worldVars, storeVars, goVars, reader>>

Series == [early : 0..MaxRevision, recent : 0..MaxRevision]
NoSeries == [early |-> 0, recent |-> 0]

\* from and rates: what the result was calculated from (history variables).
\* current: its input_version is the one of market_sync_state.
Result == [ready : BOOLEAN, current : BOOLEAN, from : Series, rates : 0..MaxRevision]
NoResult == [ready |-> FALSE, current |-> FALSE, from |-> NoSeries, rates |-> 0]

\* "cooling": retry_after (or the five minutes of a currency) has not passed.
FailureState == {"none", "cooling", "past"}

\* "missing": fewer rows than observation_count says; "accepted": rows are gone
\* and observation_count was counted again without them.
RowState == {"whole", "missing", "accepted"}

\* "slot": waits for a slot.  From "fetch" to "release" it has one.  "closed":
\* the goroutine has ended and somebody still has to look at its channel.
Holding == {"fetch", "refetch", "fx", "rates", "commit", "calculate", "delay", "fail", "release"}
Running == Holding \cup {"slot", "leave"}
FlightState == Running \cup {"none", "closed"}

Goroutine == [pc : FlightState, key : Keys, force : BOOLEAN, attempt : 0..Attempts - 1,
              full : BOOLEAN, basis : 0..MaxRevision, good : BOOLEAN, awaited : BOOLEAN]
NoGoroutine == [pc |-> "none", key |-> FX, force |-> FALSE, attempt |-> 0, full |-> FALSE,
                basis |-> 0, good |-> FALSE, awaited |-> FALSE]

NoRequest == [pc |-> "none", key |-> FX, stale |-> FALSE, force |-> FALSE]
Request == [pc : {"calculate", "decide", "start"}, key : Securities, stale : BOOLEAN, force : BOOLEAN]
           \cup {NoRequest}

Covered(s) == prices[s].early > 0

CacheInit ==
  /\ world = [s \in Securities |-> 1] /\ worldRates = 1
  /\ prices = [s \in Securities |-> NoSeries]
  /\ rows = [s \in Securities |-> "whole"]
  /\ rates = 0
  /\ cached = [s \in Securities |-> NoResult]
  /\ failure = [k \in Keys |-> "none"]
  /\ flight = [f \in Flights |-> NoGoroutine]
  /\ registered = [k \in Keys |-> Nobody]
  /\ slotsUsed = 0 /\ fxMu = Nobody
  /\ reader = [r \in Readers |-> NoRequest]
  /\ calm = FALSE

-----------------------------------------------------------------------------
(* SQLite transactions *)

\* calculate: reads daily prices, input version and rates in one transaction.
CanCalculate(s) == Covered(s) /\ (s \in Dollar => rates > 0)
Calculate(s) ==
  cached' = [cached EXCEPT ![s] = [ready |-> TRUE, current |-> TRUE, from |-> prices[s],
                                   rates |-> rates]]

\* sync adds one to input_version, so a cached result stops being current.
KeepsVersion_Always(s) == cached[s].current
KeepsVersion(s) == FALSE

\* The transaction of sync: the fetched interval replaces its old rows, and
\* observation_count is counted again.
StoreSeries(s, full, basis) ==
  /\ prices' = [prices EXCEPT ![s] = [early |-> IF full THEN basis ELSE @.early, recent |-> basis]]
  /\ rows' = [rows EXCEPT ![s] = CASE full -> "whole"
                                   [] ~full /\ @ = "missing" -> "accepted"
                                   [] OTHER -> @]
  /\ cached' = [cached EXCEPT ![s].current = KeepsVersion(s)]
  /\ failure' = [failure EXCEPT ![s] = "none"]

\* read
Ready(s) == cached[s].ready
Stale(s) == ~cached[s].current \/ failure[s] # "none"
ShownStale(s) == Ready(s) /\ Stale(s)
Damaged(s) == rows[s] = "missing"

-----------------------------------------------------------------------------
(* Goroutines *)

\* The channel of a key's goroutine is not closed yet.
Busy_Never(k) == FALSE
Busy(k) == registered[k] # Nobody

\* A fresh goroutine under some unused name.
Free == {f \in Flights : flight[f].pc = "none"}

\* startSync and the start of warmForecastFX, under mu: join the goroutine of the
\* key or start one.  A caller that waits for the channel passes awaited.
StartFlight(k, force, awaited) ==
  /\ IF Busy(k)
     THEN /\ flight' = [flight EXCEPT ![registered[k]].awaited = @ \/ awaited]
          /\ UNCHANGED registered
     ELSE /\ Free # {}
          /\ LET f == CHOOSE g \in Free : TRUE IN
             /\ flight' = [flight EXCEPT ![f] = [NoGoroutine EXCEPT !.pc = "slot", !.key = k,
                                                   !.force = force, !.awaited = awaited]]
             /\ registered' = [registered EXCEPT ![k] = f]
  /\ UNCHANGED <<slotsUsed, fxMu>>

GoOn(f, from, to) ==
  /\ flight[f].pc = from
  /\ flight' = [flight EXCEPT ![f].pc = to]

TakeSlot(f) ==
  /\ slotsUsed < SlotCap
  /\ GoOn(f, "slot", IF flight[f].key = FX THEN "fx" ELSE "fetch")
  /\ slotsUsed' = slotsUsed + 1
  /\ UNCHANGED <<worldVars, storeVars, registered, fxMu, reader>>

\* The context ends while the goroutine waits for a slot, all of them being used, or
\* for its next try: it returns, and the slot it has goes back.
Abandon_Leave(f) == "leave"
Abandon_Release(f) == "release"
Abandon(f) == IF flight[f].pc = "slot" THEN "leave" ELSE "release"

Expire(f) ==
  /\ ~calm
  /\ flight[f].pc = "delay" \/ (flight[f].pc = "slot" /\ slotsUsed = SlotCap)
  /\ flight' = [flight EXCEPT ![f].pc = Abandon(f), ![f].attempt = 0]
  /\ UNCHANGED <<worldVars, storeVars, registered, slotsUsed, fxMu, reader>>

AfterHistory(f) == IF flight[f].key \in Dollar THEN "fx" ELSE "commit"

\* The overlap of a partial answer with what is stored shows a revision.
Revised_Ignored(f, basis) == FALSE
Revised(f, basis) == basis # prices[flight[f].key].recent

\* The whole history is due weekly, when forced and when nothing is stored.
Fetch(f) ==
  LET s == flight[f].key IN
  /\ flight[f].pc = "fetch"
  /\ \E full \in BOOLEAN :
       /\ flight[f].force \/ ~Covered(s) => full
       /\ flight' = [flight EXCEPT ![f].full = full, ![f].basis = world[s],
                                   ![f].pc = IF ~full /\ Revised(f, world[s]) THEN "refetch"
                                                                             ELSE AfterHistory(f)]
  /\ UNCHANGED <<worldVars, storeVars, registered, slotsUsed, fxMu, reader>>

Refetch(f) ==
  /\ flight[f].pc = "refetch"
  /\ flight' = [flight EXCEPT ![f].full = TRUE, ![f].basis = world[flight[f].key],
                              ![f].pc = AfterHistory(f)]
  /\ UNCHANGED <<worldVars, storeVars, registered, slotsUsed, fxMu, reader>>

\* A currency's goroutine ends after its rates, a security's goes on.
AfterRates(f) == IF flight[f].key = FX THEN "release" ELSE "commit"

\* ensureFX takes fxMu; rates that cover the range and are fresh enough are kept.
EnsureRates(f) ==
  /\ fxMu = Nobody /\ flight[f].pc = "fx"
  /\ \/ /\ rates > 0
        /\ GoOn(f, "fx", AfterRates(f))
        /\ UNCHANGED fxMu
     \/ /\ GoOn(f, "fx", "rates")
        /\ fxMu' = f
  /\ UNCHANGED <<worldVars, storeVars, registered, slotsUsed, reader>>

StoreRates == /\ rates' = worldRates
              /\ UNCHANGED <<prices, rows, cached>>

FetchRates(f) ==
  /\ GoOn(f, "rates", AfterRates(f))
  /\ StoreRates
  /\ failure' = [failure EXCEPT ![FX] = "none"]
  /\ fxMu' = Nobody
  /\ UNCHANGED <<worldVars, registered, slotsUsed, reader>>

Commit(f) ==
  /\ flight[f].pc = "commit"
  /\ flight' = [flight EXCEPT ![f].pc = "calculate", ![f].full = FALSE, ![f].basis = 0]
  /\ StoreSeries(flight[f].key, flight[f].full, flight[f].basis)
  /\ UNCHANGED <<worldVars, rates, registered, slotsUsed, fxMu, reader>>

CalculateReturns(f) ==
  /\ flight[f].pc = "calculate"
  /\ Calculate(flight[f].key)
  /\ flight' = [flight EXCEPT ![f].pc = "release", ![f].good = TRUE, ![f].attempt = 0]
  /\ UNCHANGED <<worldVars, prices, rows, rates, failure, registered, slotsUsed, fxMu, reader>>

\* Deferred unlocking runs on every way out of ensureFX.
Unlocked_Kept(f) == fxMu
Unlocked(f) == IF fxMu = f THEN Nobody ELSE fxMu

Interrupted(f, pc, attempt) ==
  [flight[f] EXCEPT !.pc = pc, !.attempt = attempt, !.full = FALSE, !.basis = 0]

TriesLeft_OneMore(f) == flight[f].attempt + 1 <= Attempts
TriesLeft(f) == flight[f].attempt + 1 < Attempts

\* A request or a transaction fails.  A security tries again while tries are left
\* and its time has not run out; a currency does not.
AttemptFails(f) ==
  /\ ~calm
  /\ flight[f].pc \in {"fetch", "refetch", "rates", "commit", "calculate"}
  /\ \/ /\ flight[f].key # FX /\ TriesLeft(f)
        /\ flight' = [flight EXCEPT ![f] = Interrupted(f, "delay", @.attempt + 1)]
     \/ flight' = [flight EXCEPT ![f] = Interrupted(f, "fail", 0)]
  /\ fxMu' = Unlocked(f)
  /\ UNCHANGED <<worldVars, storeVars, registered, slotsUsed, reader>>

TryAgain(f) ==
  /\ GoOn(f, "delay", "fetch")
  /\ UNCHANGED <<worldVars, storeVars, registered, slotsUsed, fxMu, reader>>

\* When the failure cannot be written either, it is only logged.
SaveFailure(f) ==
  /\ GoOn(f, "fail", "release")
  /\ \/ failure' = [failure EXCEPT ![flight[f].key] = "cooling"]
     \/ ~calm /\ UNCHANGED failure
  /\ UNCHANGED <<worldVars, prices, rows, rates, cached, registered, slotsUsed, fxMu, reader>>

Release(f) ==
  /\ GoOn(f, "release", "leave")
  /\ slotsUsed' = slotsUsed - 1
  /\ UNCHANGED <<worldVars, storeVars, registered, fxMu, reader>>

\* delete(c.flights, key) and close(done), under mu.
Leave(f) ==
  /\ flight[f].pc = "leave"
  /\ registered' = [registered EXCEPT ![flight[f].key] = Nobody]
  /\ flight' = [flight EXCEPT ![f] = IF @.awaited THEN [@ EXCEPT !.pc = "closed"] ELSE NoGoroutine]
  /\ UNCHANGED <<worldVars, storeVars, slotsUsed, fxMu, reader>>

FlightStep(f) ==
  \/ TakeSlot(f) \/ Expire(f)
  \/ Fetch(f) \/ Refetch(f) \/ EnsureRates(f) \/ FetchRates(f) \/ Commit(f) \/ CalculateReturns(f)
  \/ AttemptFails(f) \/ TryAgain(f) \/ SaveFailure(f)
  \/ Release(f) \/ Leave(f)

-----------------------------------------------------------------------------
(* Requests *)

SetReader(r, request) == reader' = [reader EXCEPT ![r] = request]

\* get: the cached result and the damage check; a missing result is calculated
\* from stored prices, unless they are damaged or being replaced.
Look(r, s) ==
  /\ ~calm /\ reader[r].pc = "none"
  /\ SetReader(r, [pc |-> IF ~Ready(s) /\ ~Damaged(s) /\ ~Busy(s) THEN "calculate" ELSE "decide",
                   key |-> s, stale |-> ShownStale(s) \/ Damaged(s), force |-> Damaged(s)])
  /\ UNCHANGED <<worldVars, storeVars, goVars>>

CalculateMissing(r) ==
  LET s == reader[r].key IN
  /\ reader[r].pc = "calculate"
  /\ IF CanCalculate(s) THEN Calculate(s) ELSE UNCHANGED cached
  /\ SetReader(r, [reader[r] EXCEPT !.pc = "decide", !.stale = CanCalculate(s) /\ failure[s] # "none"])
  /\ UNCHANGED <<worldVars, prices, rows, rates, failure, goVars>>

\* Whether a synchronisation is due: forced by the user, or not cooling down and
\* something is missing, stale or thirty minutes old.
Due(s, stale, forced, old) == forced \/ (failure[s] # "cooling" /\ (~Covered(s) \/ stale \/ old))

Decide(r) ==
  /\ reader[r].pc = "decide"
  /\ \E forced, old \in BOOLEAN :
       SetReader(r, IF Due(reader[r].key, reader[r].stale, forced, old)
                    THEN [reader[r] EXCEPT !.pc = "start", !.force = @ \/ forced]
                    ELSE NoRequest)
  /\ UNCHANGED <<worldVars, storeVars, goVars>>

StartSync(r) ==
  /\ reader[r].pc = "start"
  /\ StartFlight(reader[r].key, reader[r].force, FALSE)
  /\ SetReader(r, NoRequest)
  /\ UNCHANGED <<worldVars, storeVars>>

\* A forecast warms the rates of a currency somebody holds, unless their goroutine runs
\* or they failed just now.
WarmForecastFX ==
  /\ ~calm /\ Dollar # {} /\ ~Busy(FX) /\ failure[FX] # "cooling"
  /\ StartFlight(FX, FALSE, FALSE)
  /\ UNCHANGED <<worldVars, storeVars, reader>>

\* refreshRates, called by the rates page and by the daily job: it stores the latest
\* rate, which alone does not cover a history.
RefreshRates ==
  /\ ~calm /\ rates > 0
  /\ StoreRates
  /\ UNCHANGED <<worldVars, failure, goVars, reader>>

RequestStep(r) == \/ \E s \in Securities : Look(r, s)
                  \/ CalculateMissing(r) \/ Decide(r) \/ StartSync(r)

-----------------------------------------------------------------------------
(* The world, and the process *)

CooldownEnds(k) ==
  /\ failure[k] = "cooling"
  /\ failure' = [failure EXCEPT ![k] = "past"]
  /\ UNCHANGED <<worldVars, prices, rows, rates, cached, goVars, reader>>

\* Adjusted prices are revised, back to the first one.
Revise(s) ==
  /\ ~calm /\ world[s] < MaxRevision
  /\ world' = [world EXCEPT ![s] = @ + 1]
  /\ UNCHANGED <<worldRates, calm, storeVars, goVars, reader>>

ReviseRates ==
  /\ ~calm /\ worldRates < MaxRevision
  /\ worldRates' = worldRates + 1
  /\ UNCHANGED <<world, calm, storeVars, goVars, reader>>

\* Older rows disappear from the table.
LoseRows(s) ==
  /\ RowsGetLost /\ ~calm /\ Covered(s) /\ rows[s] = "whole"
  /\ rows' = [rows EXCEPT ![s] = "missing"]
  /\ UNCHANGED <<worldVars, prices, rates, cached, failure, goVars, reader>>

\* A crash, and the next start.
Restart ==
  /\ ~calm
  /\ flight' = [f \in Flights |-> NoGoroutine]
  /\ registered' = [k \in Keys |-> Nobody]
  /\ slotsUsed' = 0 /\ fxMu' = Nobody
  /\ reader' = [r \in Readers |-> NoRequest]
  /\ UNCHANGED <<worldVars, storeVars>>

CalmDown ==
  /\ FaultsEnd /\ ~calm /\ calm' = TRUE
  /\ UNCHANGED <<world, worldRates, storeVars, goVars, reader>>

CacheStep ==
  \/ \E f \in Flights : FlightStep(f)
  \/ \E r \in Readers : RequestStep(r)
  \/ WarmForecastFX \/ RefreshRates
  \/ \E k \in Keys : CooldownEnds(k)
  \/ \E s \in Securities : Revise(s) \/ LoseRows(s)
  \/ ReviseRates \/ CalmDown

CacheNext == CacheStep \/ Restart

CacheSpec == CacheInit /\ [][CacheNext]_vars

\* Every goroutine goes on: answers, timers and locks come, and a context ends.
\* sync.Mutex and channels serve those who wait.
FlightFairness == \A f \in Flights : /\ WF_vars(FlightStep(f))
                                     /\ SF_vars(TakeSlot(f)) /\ SF_vars(EnsureRates(f))
FairCacheSpec == CacheSpec /\ FlightFairness

-----------------------------------------------------------------------------
(* Properties *)

TypeOK ==
  /\ world \in [Securities -> 1..MaxRevision] /\ worldRates \in 1..MaxRevision
  /\ prices \in [Securities -> Series]
  /\ rows \in [Securities -> RowState]
  /\ rates \in 0..MaxRevision
  /\ cached \in [Securities -> Result]
  /\ failure \in [Keys -> FailureState]
  /\ flight \in [Flights -> Goroutine]
  /\ registered \in [Keys -> Flights \cup {Nobody}]
  /\ slotsUsed \in Nat
  /\ fxMu \in Flights \cup {Nobody}
  /\ reader \in [Readers -> Request]
  /\ calm \in BOOLEAN

\* Nobody ever synchronises a key twice at a time, and a goroutine that can be
\* joined is one that will close its channel.
OneFlightPerKey ==
  /\ \A f, g \in Flights : flight[f].pc \in Running /\ flight[g].pc \in Running /\ f # g
                             => flight[f].key # flight[g].key
  /\ \A k \in Keys : Busy(k) => flight[registered[k]].pc \in Running /\ flight[registered[k]].key = k

\* Neither a failure nor the end of a context loses a slot or leaves the rates
\* locked: the channel counts exactly the goroutines at work.
SlotsMatchFlights ==
  /\ slotsUsed = Cardinality({f \in Flights : flight[f].pc \in Holding})
  /\ slotsUsed <= SlotCap
  /\ \A f \in Flights : fxMu = f <=> flight[f].pc = "rates"

\* Stored history never mixes prices from before and after a revision.
SeriesHasOneBasis == \A s \in Securities : prices[s].early = prices[s].recent

\* A result that is shown as up to date was calculated from the stored prices.
FreshIsCurrent == \A s \in Securities : Ready(s) /\ ~Stale(s) => cached[s].from = prices[s]

\* A result that is shown as up to date was calculated with the stored rates.
FreshFollowsRates ==
  \A s \in Dollar : Ready(s) /\ ~Stale(s) => cached[s].rates = rates

\* Rows that disappear are fetched again; the history does not count as whole without
\* them before that.
GapsAreRefetched == \A s \in Securities : rows[s] # "accepted"

\* Every goroutine ends: whatever fails, slots and locks keep going round.
FlightsEnd == \A f \in Flights : flight[f].pc \in Running ~> flight[f].pc \notin Running
=============================================================================
