# Verification of Fulibu (Compound-interest)

Fulibu is a personal-wealth application: a Go server (`src/go-backend`) that keeps assets, income and
retirement plans in SQLite, caches market data, forecasts, and copies every committed change to an optional
MySQL database; a React frontend (`src/frontend`) and a CLI talk to it over HTTP.

This directory holds TLA+ models of that code, the TLC configurations that check them and the proofs TLAPS
checks. `PROJECT.json` maps every definition that models code to the lines it stands for.

## 1. Inventory

| Part | State it keeps | Operations | Hard behaviour | What makes it correct |
|---|---|---|---|---|
| **Backup capture** `internal/database/backup_capture.go`, `backup_tables.go` | `backup_outbox`, `backup_metadata`, capture triggers | `EnableBackup`, `ReinitializeBackup`, triggers, `ReadBackupEvents`, `AckBackupEvents` | writes between read and acknowledgement; a reset reuses the sequence counter; cache tables join a running source | nothing committed is missing from the queue; nothing leaves it early |
| **Backup target** `backup_mysql.go`, `backup_mysql_schema.go`, `backup_replication.go` | the marker `backup_checkpoint`, replicated tables | claim, create and validate tables, apply a batch with its checkpoint, read the checkpoint | DDL commits by itself; lost COMMIT answers; two instances on one database; an operator restores a copy | rows and checkpoint always show one past state of one source |
| **Backup worker** `backup_worker.go`, `cmd/server`, `cmd/backup-status`, `data_lock.go` | `initialized` flag, persisted status | start, stop, attempt, retry, status, `--reinitialize` | crash at any statement, timeouts, changed DSN | it catches up or says why not |
| **Mutations** `service/mutations.go`, `httpapi/mutations.go`, `assets.go`, `plans.go` | rows with `version`, `mutation_requests`, `operation_logs` | create, edit, archive, dry run | repeated and concurrent requests, stale versions, a crash before the answer | applied once, same answer again, no blind overwrite |
| **Valuation** `httpapi/portfolio.go`, `market_jobs.go`, `service/ledger.go` | asset amounts, daily rows, `asset_snapshots` history | refresh valuations, daily job, snapshot | quotes are fetched outside any transaction; several transactions per job | values never overwrite a newer edit; history equals the view |
| **Market cache coordinator** `httpapi/market_cache.go`, `forecast.go`, `rates.go` | flights, two sync slots, FX mutex, cached series with `input_version` | get, start, sync, calculate, ensure FX | coalescing, waiting for a slot, retries, cooldown, shared mutexes | one flight per key, at most two at work, no deadlock, no stale result |
| **Refresh slots and daily jobs** `market_jobs.go`, `scheduler.go` | `market_refresh_runs` | run due slots, catch up, schedule | restart while a slot runs, failure cooldown | a complete slot never runs again, an open one does |
| **Forecast, backtest** `service/forecast*.go`, `httpapi/forecast.go`, `forecast_source.go` | none of its own; reads plan, balance, prices and rates in one transaction | snapshot, learn from history, simulate, backtest | month ends, leap days and new years; months without prices; income whose rate is unknown; paths that never get there | no day and no income counts twice or never; the date is the one half of the paths reach; a date shown early stays; a backtest knows only the past |
| **Compensation, retirement** `service/compensation.go`, `retirement.go` | none | bonus and option events, projection day by day | date boundaries, years not worked in whole | seen from any day, each income has come or is still to come |
| **Portfolio summary** `service/portfolio.go` | none | sums and ratios | none | numerical |
| **Authentication, API tokens** `auth.go`, `api_tokens.go` | `sessions`, `api_tokens` | log in and out, issue, list, revoke a token, expiry; admit a request | a request is checked when it arrives and works later; a list of tokens gets old; cookie and token in one request | what is revoked lets nothing in any more, and what was revoked is what the list showed |
| **Market data sources** `market_sources.go` | none | HTTP fetch and parse | remote formats | parsers |
| **Export** `export.go` | none | format one read | none | formatting |
| **Opening the database** `sqlite.go` | schema, version triggers | open, migrate | repeated start | idempotent DDL |
| **Frontend** `src/frontend` | React state | views | polling | views |

How they interact. HTTP handlers, the daily job and the market jobs all write SQLite through one connection, so
every SQLite transaction is one atomic step and the interleavings are between transactions. Triggers turn each
committed row change into an outbox event, inside the same transaction. The worker goroutine reads the outbox
and writes MySQL; it reports through `backup_metadata`, which `backup-status` prints. Handlers ask the market
cache coordinator for series; it starts flights that fetch outside any transaction and store the result.

The hazards, each at its line and with the properties that would notice it going wrong, are listed under
"hazards" in `PROJECT.json`.

## 2. Modules

| Module | Role |
|---|---|
| `BackupCapture` | SQLite: application rows, triggers, outbox, metadata; the operators `EnableBackup`, `NewSource`, `WriteRow`, `AckEvents`, ... |
| `BackupTarget` | MySQL: marker, tables, replicated rows, unanswered commits; and the operator who restores, recreates or copies a database |
| `BackupWorker` | composes both: process life cycle, the statements of an attempt, faults; `Spec`, `FairSpec` and the properties |
| `PrefixMirror` | the abstract promise: every claimed database shows one state of its owner's history |
| `BackupMirror` | the refinement mapping from `BackupWorker` to `PrefixMirror` |
| `MarketCache` | the market cache coordinator: requests, goroutines with slots, retries and cooldown, the rates lock, the SQLite transactions on histories and results |
| `MarketJobs` | extends it with the goroutine of `runMarketJobs`: slots of the day, batches, restarts |
| `Ledger` | the holdings of a user, the day's history row, and every request that writes them through `Mutate`; the refresh of valuations with its quotes fetched outside the transaction |
| `Valuation` | extends it with the goroutines that value and record in the background: the recovery at startup, the 05:00 run, the end of a market batch; restarts |
| `MCValuation` | the symmetry of its handlers and create keys, for TLC |
| `Access` | sessions, API tokens, and the requests they admit |
| `Plans` | extends it with income and retirement goals: versions, row numbers, saved answers, requests that are sent again |
| `PlanEdits` | the abstract promise: each request is decided once and applied only to what its sender saw |
| `MCPlans` | the symmetry of requests, keys and connections |
| `Calendar` | dates as Go's package `time` calculates them: months, leap years, `AddDate` with its overflow |
| `Compensation` | rules of a plan, and the dated income it promises |
| `Sampling` | what a forecast learns from stored prices: monthly returns, common months, blocks; the days a backtest may use |
| `Forecast` | checkpoints, the walk of a path, the retirement date, partial forecasts; `ProjectRetirement` |
| `Projection` | a user who looks at the forecast while days pass, the plan is edited and rates and prices arrive |
| `MCProjection` | days, plans and price histories for TLC |
| `BackupInvariant` | the inductive invariant `IInv`, and `SchemaInv` for complete tables |
| `BackupTypes`, `BackupCaptureProofs`, `BackupSafety`, `MarketSafety`, `LedgerSafety`, `PlansSafety`, `ProjectionSafety`, `ForecastSafety` | theorems and proofs |

### State and code

| TLA+ | Code |
|---|---|
| `rows` | the application tables; a key is a row and stands for its table too |
| `captured` | tables whose three `backup_capture_*` triggers exist |
| `source` | `backup_metadata.source_id`; 128 random bits, so an instance and a count are enough |
| `log`, `outbox` | `backup_outbox`: `log` keeps every sequence ever used, `outbox` the ones still stored (history variable and table) |
| `acknowledged`, `lastSuccess`, `lastError` | columns of `backup_metadata`; an error is reduced to its kind |
| `owner`, `checkpoint`, `ready` | columns `source_id`, `sequence`, `initialized` of `backup_checkpoint`; `NoMarker` without the table, `NoRow` with an empty one |
| `tables`, `replica` | replicated tables that exist, and their rows |
| `unresolved` | a transaction whose COMMIT was sent and not answered |
| `pc`, `local`, `initialized` | where the worker's attempt is, its variables, and the flag it keeps between attempts |
| `base`, `committed`, `Event.image` | history variables: where the current source starts, what MySQL ever committed, what the captured tables held |

Each SQLite transaction is one step, and so is each MySQL statement outside a transaction; inside the MySQL
transaction of a batch each event is a step. `Stop` (crash or Close) and `Timeout` (an error or the ten-second
deadline) come between any two of them. Application writes go on during an attempt.

| Action | Code |
|---|---|
| `Start`, `StartDisabled`, `Stop` | `StartMySQLBackup`, its `Close`, a crash |
| `CheckEmptyTarget`, `Reinitialize` | `backup-status --reinitialize`, under the data lock |
| `Write` | any committed row change of the application |
| `BeginAttempt` | one turn of the worker's loop |
| `ListTables` ... `MarkInitialized` | `InitializeBackupTarget` |
| `ReadBatch`, `ReadCheckpoint`, `CompareCheckpoint` | `RunBackupBatch`, the branch without events included |
| `OpenTransaction`, `ApplyEvent`, `CommitBatch`, `CommitUnanswered` | `applyBackupEventsAtCheckpoint` |
| `Acknowledge` | `AckBackupEvents` |
| `ResolveAnswer` | MySQL finishing a transaction whose client is gone, either way |
| `Operate` | an operator puts an older copy back, empties or copies a database that no attempt uses |
| `CalmDown` | from here on no fault, no operator and no new write (for liveness only) |

What is abstracted: columns, their types and the conversion of values (`e.key \in tables` stands for "the
statement succeeds"); the wording of errors; waiting times between attempts. A transaction of the application
with several writes is several `Write` steps, because its events are read one by one and a batch may end
between them.

Market data:

| TLA+ | Code |
|---|---|
| `world`, `worldRates` | what the providers would answer: the revision their adjusted history, or their rates, has |
| `prices`, `rows` | `market_daily_prices`: the revision its older and its recent part come from; whether rows are missing, and whether `observation_count` tells |
| `rates` | `exchange_rate_history` (0: it does not cover the history yet) |
| `cached` | `market_return_cache`; `current` compares its `input_version` with the one of `market_sync_state`; `from` and `rates` are history variables |
| `failure` | `last_error` and `retry_after` of `market_sync_state` |
| `flight`, `registered` | the goroutines of `startSync` and `warmForecastFX`, and the map `flights`; a `closed` one has ended and a batch still has to look at its channel |
| `slotsUsed`, `fxMu` | the channel `slots`, the mutex `fxMu`; `mu` is held for one step at a time |
| `reader` | requests inside `get` |
| `elapsed`, `runs`, `cooling` | slots that have come, `job_state`, and failed slots that finished less than five minutes ago |
| `job` | the goroutine of `runMarketJobs`; `missed` is a history variable |

| Action | Code |
|---|---|
| `Look`, `CalculateMissing`, `Decide`, `StartSync` | `get`, cut where it reads the database again |
| `TakeSlot`, `Expire`, `AttemptFails`, `TryAgain`, `SaveFailure`, `Release`, `Leave` | the goroutine of `startSync` (and of `warmForecastFX`) |
| `Fetch`, `Refetch`, `Commit`, `CalculateReturns` | `sync` |
| `EnsureRates`, `FetchRates` | `ensureFX` |
| `WarmForecastFX`, `RefreshRates` | the functions of these names |
| `TakeUp`, `MarkRunning`, `Finish` | `runMarketSlots`, called by `runMarketJobs` |
| `StartFlights`, `WaitFlights`, `BatchRates`, `BatchSnapshots` | `refreshMarketBatch` |
| `Revise`, `ReviseRates`, `LoseRows` | the providers, and whoever deletes rows |
| `Restart`, `RestartJobs` | a crash and the next start |

Prices, dates and rates are reduced to the revision they belong to, so a result is wrong exactly when it was
calculated from another revision than the one stored. One foreign currency and one return interval stand for all.
`warmMissingMarketCache` asks like any request. `recordCachedAssetSnapshots` is one step that may fail.

Holdings:

| TLA+ | Code |
|---|---|
| `asset` | rows of `assets`: whether archived, quantity, amount, currency, `version` (raised by the trigger of `sqlite.go`) |
| `rate` | yuan for a dollar in `exchange_rates`, 0 before the first refresh |
| `todays` | today's row of `asset_history`: total and rates |
| `saved`, `audit` | the answer in `mutation_requests` under a key, and its entries in `operation_logs` |
| `handler` | requests inside `refreshValuations`: key, holdings as listed, answer |
| `pass` | the goroutines of `StartDailyJobs` and of the market batch: holdings as listed, and whether it is the recovery |
| `owed` | history variable: a job wrote values and recorded no total since |

| Action | Code |
|---|---|
| `Mutate`, `Remember`, `IsNew` | `Ledger.Mutate`, the replay at its start and the saving at its end |
| `SnapshotTx` | the function of this name, part of every request on holdings |
| `CreateAsset`, `PatchAsset`, `ArchiveAsset`, `RecordToday` | `POST` and `PATCH` of assets, archiving, `POST` of history |
| `BeginRefresh`, `FinishRefresh` with `CommitRefresh`, `CancelRefresh` | `refreshValuations` before and after its quotes, the transaction it ends in, and its early ends |
| `SaveRates` | the transaction of `refreshRates` |
| `Recover`, `ListHoldings`, `ValueOne`, `Record`, `Abort` | `snapshotMissingCurrentAssets`, `refreshMarketAssetValues`, `snapshotCurrentAssets` |
| `NewDay`, `Restart` | midnight in Shanghai; a crash and the next start |

A request that is refused or only previews rolls its transaction back and is no step; neither is a repeated
request of the atomic kind, which is answered from `saved` or, with other content under the same key, refused.
An answer is reduced to the rows it changed and the versions the request named; triggers, dates and names of
history rows are left out, and so are the rows of `asset_daily_snapshots`, which only the export reads. A total
beyond int64 makes a request fail and a job abort, which both exist anyway. `ListHoldings` of the 05:00 run may come at any time: the
properties do not depend on the hour.

Plans and who may change them:

| TLA+ | Code |
|---|---|
| `session` | rows of `sessions`; one user |
| `tokens`, `issued` | rows of `api_tokens`; the scopes of all ever issued, whose positions stand for the secrets |
| `listed` | the list of tokens somebody's page still shows |
| `conn` | requests between `authorize` and their answer |
| `row`, `lastItem` | `income_settings` (row 0) and `retirement_goal_items`, with `version`, and the request that wrote the content; the AUTOINCREMENT counter |
| `saved`, `audit` | `mutation_requests` by operation and key, `operation_logs` |
| `asked` | a request as its sender made it up: operation, key, row, version read, content seen |
| `refused` | history variable: requests that were answered 404 or 409 |

| Action | Code |
|---|---|
| `Login`, `Logout`, `SessionExpires`, `TokenExpires` | `auth.go`, and the passing of `expires_at` |
| `AskToken`, `IssueToken`, `ListTokens`, `AskRevocation`, `RevokeToken` | the handlers of `api_tokens.go` |
| `Ask`, `Send` | a client reads and makes up a request; sends it, perhaps once more; `Admits` is `authorize` and the `need` of the route |
| `Apply`, `Replay`, `Refuse` | the transaction of `Mutate` with `PatchIncome`, `CreateGoalItem`, `PatchGoalItem`, `DeleteGoalItem` |
| `LoseRequest` | the client hangs up, or the server stops, before the transaction |

Requests answered 401 or 403 and previews change nothing and are no step. Deleting sessions that have expired is
not told apart from their having expired.

Forecasts. `today`, `plan`, `balance`, `target`, `history`, `rates` are what `LoadForecastInput` reads; `market` is the
draw of the random paths; `shown` is the answer of `ForecastFromSnapshot`. `PatchIncome`, `RatesArrive` and `PricesArrive`
change what is read; in `LiveOn` days pass and what the plan promises arrives. Each step ends with a new look.
Calendar, checkpoints, blocks, thresholds (36 and 60 months, 12 blocks, ten years back, backtests of one, three and five years)
and the order of the calculation are the code's. Abstracted: the returns themselves (a path has one level in even and
one in odd months, a currency keeps its rate), inflation (zero), amounts (whole yuan; the gain of a share after strike
price and tax is given), the percentiles of the report beside the date, the normalisation of fund returns, and the
cache of growth factors, which is a function of the snapshot.

## 3. What is checked

| Run | Instance | Question |
|---|---|---|
| `replication` | one instance, two rows (one in a cache table), one value, 4 events, 2 sources, batches of 2 | do rows, outbox and replica stay consistent through faults, resets and restores? also checks `IInv` and that it implements `PrefixMirror` |
| `contention` | two instances, one free and one foreign database, copies between them | can two claim one database, or anyone touch the foreign one, and does the claimed one still show what its owner captured? |
| `recovery` | one instance, batches of 1, faults end | does the worker catch up, or keep an error? |
| `cache_data` | a security in a foreign currency, revised once, lost rows, two goroutines on one slot, one request, two tries, faults that end or go on | can stored history or a result shown as fresh be wrong, or a slot be lost? |
| `jobs_day` | a security in dollars, one slot of the day after the batch of startup, its goroutine and the currency's on two slots and the rates lock; two tries, faults end or go on | are keys never fetched twice, complete slots left alone and open ones completed, and does every goroutine end? |
| `ledger_day` | two holdings, one of them a security in dollars; one key per operation and two for creating; two refreshes under one key; one background job; versions to 3 | is every change applied once and to the row it was made for, and does the day's total follow? |
| `plans` | four requests on the plan (a token counts as two), two keys, two goal items, two connections, one session, two tokens | is each request decided once and on what its sender saw, and is it let in by what still counts? |
| `projection` | eight days from January 2027 to March 2028 (month ends, leap day, new year), horizon two years, three paths, twenty-two starts with price histories that are whole, young, short, have a gap (of the benchmark, of the security itself), or never 36 months in a row; edits of savings, bonus and grants, one of which comes into sight later | is every day and every income counted once, and does the date shown mean what it says? |
| `cache_rates`, `jobs_gaps`, `jobs_expiry`, `ledger_recovery` | smallest instances | expected violations, see *Findings* |

Properties:

- `ReplicaIsCapturedState`: a claimed database shows exactly the captured tables right after the event its
  checkpoint names.
- `CaptureIsComplete`: the newest image equals the captured tables. A hole in seeding or triggers breaks it.
- `NoEventLost`: an event of the current source leaves the outbox only once MySQL committed it.
- `ReadyTargetsAreComplete`: `initialized = 1` only with all required tables; nothing in a foreign database.
- `OwnershipIsFinal`: a claim ends only when an operator replaces the database.
- `CheckpointOnlyAdvances`: only an operator moves a checkpoint back.
- `CatchesUpOrReports`, `HealsWithoutOperator`: after faults end, an attempting worker ends level with SQLite or
  with an error in the status; where no operator is needed it ends level.
- `ImplementsMirror`: all of `Spec` as steps of `PrefixMirror`.
- `SeriesHasOneBasis`: adjusted history never mixes prices of two revisions, although most synchronisations fetch
  its last thirty days only.
- `FreshIsCurrent`: a result that is not marked stale was calculated from the stored prices.
- `OneFlightPerKey`: no key is synchronised twice at a time, and whoever can be joined will close its channel.
- `SlotsMatchFlights`: the slots taken are those of the goroutines at work, on every way out.
- `FlightsEnd`: every goroutine ends.
- `CompleteSlotsStay`: no batch and no restart touches a complete slot.
- `SlotsRecover`: after faults end, every slot that has come is completed.
- `AppliedOnce`: a request has one log entry exactly when its answer is saved, every row was created by one
  request, and whoever was answered was told what is saved.
- `CommittedIsNeverRefused`: of two refreshes under one key, the later does not take the first one's new versions for
  somebody else's edit.
- `NoBlindOverwrite`: a row changes by a request that saw exactly that row, or by a price for the quantity it has
  now; every change is a new version, and an archived row changes no more.
- `TodayFollowsAssets`: today's total is that of the holdings at the rates it was recorded with, unless a job wrote
  values since or a holding came in a currency those rates do not know.
- `ImplementsEdits`: all of `Plans` as steps of `PlanEdits`. A version that is not raised, a number given twice, an answer
  looked up after the version, or a key that is not remembered breaks it.
- `ChangesAreEntitled`: the plan changes by a session or a token to write, a goal disappears by a session only.
- `RevocationHolds`: nothing new arrives under a token that is revoked or expired, also when a live cookie comes along.
- `RevokesWhatWasListed`: who clicks on an old list never revokes a token issued since.
- `CheckpointsAreExact`: the checkpoints cut the horizon without gap or overlap, no part reaches beyond the month whose return it
  gets, and income, savings and years each come once, on their day.
- `IncomeComesOnce`: looked at from any day, each income has come or is still to come, never both or neither; at most
  one bonus a year, in its month.
- `ContributionsAddUp`: what the forecast has received after a year, and in this month, is what comes in that time.
- `DateIsFirstDayOnTarget`: for money that does not grow the simulation's date is that of `ProjectRetirement`.
- `HalfOfPathsByDate`: on the date shown at least half of the paths have got there, a day earlier fewer had; no date means
  fewer than half ever do; and the yearly series agrees.
- `BlocksAreRealMonths`: three months that are drawn together follow each other and are known for every series that takes
  part: the benchmark, the security's own history once it shares 36 months with it (`EstimateDrift`), and the currencies.
- `BacktestKnowsOnlyThePast`: cutting off all later prices leaves every backtest as it was.
- `PromiseIsKept`: while everything comes as planned, the date does not move, be it that of a whole forecast or one shown
  before all is known; a later look may lack it only where it lacks rates or history for what has come into sight.
- `PartialDateIsFinal`: a date that is shown before rates and histories are known is the one shown afterwards, except for
  what arrives with too few months together: `ForecastFromSnapshot` counts each currency as certain once it has 36 monthly
  returns, but `prepareForecastModel` needs 36 months that all of them share, and in a row. `forecast_store.go:287` says that uncertain income of the far future must
  not keep an earlier date from being shown; currencies with gaps, or with too few months in common, do (`Patchy`), and a date that was shown
  before its prices arrived is withdrawn.

### Findings

Four statements do not hold of the code, three of them in the design document
`docs/superpowers/specs/2026-10-05-market-data-cache-design.md` and one in a comment; each has a run that ends in
the violation.

- Line 74 has changed data invalidate the results that depend on it. `refreshRates` and `ensureFX` rewrite
  exchange rates without touching `input_version`, so results in that currency stay fresh until their security is
  synchronised again (`cache_rates`, `FreshFollowsRates`).
- Line 39 has missing rows of a completed range fetched again. A batch synchronises without force and counts
  `observation_count` again, so rows missing before the last thirty days are no longer noticed until the weekly
  whole synchronisation (`jobs_gaps`, `GapsAreRefetched`).
- Line 76 has no failure count as a success. A goroutine whose ten minutes end while it waits for a slot, or for its
  next try, leaves no error; the batch counts it as good and completes its slot (`jobs_expiry`,
  `CompleteMeansRefreshed`). Two hanging securities are enough to make a third one wait that long.
- `scheduler.go:25` says that the recovery at startup fills a missing row only and never replaces one. It looks for
  users without a row first, then values their holdings, which waits for quotes, and its upsert does not look again: a
  row that an edit recorded meanwhile is replaced (`ledger_recovery`, `RecoveryFillsOnly`). The replaced total is still
  that of the holdings, as `TodayFollowsAssets` shows.

Bounds. `MaxSeq` bounds the events captured, `MaxSources` the resets, `BatchLimit` the batch. Four events and
batches of two give a full batch, a rest, an event captured during an attempt and a batch read again after a
lost answer; two sources give one reset, after which sequence numbers of two sources share one counter. One
value and `Absent` are enough: an event skipped or repeated out of order shows as presence against absence.
Two databases, one of them another application's, are in `contention` and `recovery`; the move between two free
ones is left to the theorems. Two instances are the smallest contention. Wherever the bound might
hide a case, the theorems of section 4 hold without it.

For market data, one revision after the first is enough for old against new; two goroutines for one key, and for a
security and a currency on one slot (`cache_data`) or on the rates lock (`jobs_day`); two tries for a retry and a last try.
The code has two slots and three tries: a slot taken or given back wrongly shows with one slot as with two. The
code has two slots a day; one slot beside the batch of startup shows every state a slot goes through, and what two slots do to
each other is proved (`CompleteIsKept`). `RowsGetLost` and `FaultsEnd` only switch parts of the environment on.

For holdings, two rows are enough for a total that mixes currencies and for a batch of quotes next to a row without any; two
quantities distinguish a price for the old quantity from one for the new. Every other key is used once, since a second use of a
key is what the model is about. The one background job stands for both: they differ only in who starts them, and
two of them meet the same version check as a job and a refresh do. `MaxVersion` stops jobs from writing new prices for ever.

For plans, four requests on two keys give two requests under one key, a copy of one that was applied, and a request
made before another was applied; `Work` counts a token twice, so that a behaviour has at most two. Two goal items are
enough for a number to be given again.

For forecasts, the plan is edited on the first day and only where no security is held, and histories of securities
differ between behaviours, those of a currency also within one: what the calculation reads is then any combination of
plan, prices and rates, at eight days chosen where months have 28, 29 and 31 days and a year begins. `Options` pays after the
first day's horizon, so that a rate can turn out to be missing later; `Gappy` has months enough but not in a row. `Calendar` is that of
2000 to 2099. Three paths are the smallest number whose middle is neither the first nor the last.

Deadlock is not checked: for holdings all keys may be used up; in the backup, once the bounds on events and sources are used up the process may be down and unable to
start, and after `CalmDown` a stopped process stays stopped. Both are ends the system may really reach.

Fairness. `WF(WorkerStep(p))`: the loop in `runBackupWorker` keeps attempting as long as its process lives, with
a bounded wait. `WF(ResolveAnswer(t))`: a MySQL server commits or rolls back every transaction. No fairness is
assumed of starts, writes, faults or operators. For market data, `WF(FlightStep(f))`: answers, timers and the end of
a context come, for each goroutine; `SF(TakeSlot(f))` and `SF(EnsureRates(f))`: a Go channel queues its senders
first come first served and `sync.Mutex` hands itself over to a waiter that starves; `WF(JobStep)`: the loop wakes
every minute; `WF(RunCools(i))`: five minutes pass. Liveness is claimed from `calm` on only: with faults that never
end the worker may fail for ever; `FlightsEnd` needs no such limit. An event that MySQL refuses for its content is outside the model, see below.

## 4. What is proved

For every value of the constants, from the named assumptions of the modules:

- Backup: any number of instances, databases, rows, values, events, sources, any batch size; `CaptureAssumption` (finitely
  many rows, `Absent` is no value), `TargetAssumption` (markers are no source ids), `WorkerAssumption`.
- Market data: any number of securities, goroutines, requests, slots, tries, revisions and slots of the day;
  `CacheAssumption` (finitely many names for goroutines, which `Nobody` is not; the currency's key is no security),
  `JobsAssumption`.
- Holdings: any number of rows, keys, concurrent refreshes and jobs, all amounts, prices and rates; `LedgerAssumption`
  (amounts are positive, one key belongs to one operation, finitely many rows), `ValuationAssumption`.
- Plans: any number of requests, keys, rows, sessions, tokens and connections; `AccessAssumption`, `PlansAssumption`
  (finitely many requests; the marks for "nothing" are no requests, rows or tokens).
- Forecasts: any days, horizon, number of paths, markets, plans, balances, targets and price histories,
  in the calendar of `Calendar` (a leap day every fourth year, which is the real one from 2000 to 2099);
  `ProjectionAssumption` (finitely many days; a horizon of whole years; a rate is positive), `ForecastAssumption` (at least one
  path; `Never` is no day), `PlanAssumption` (what an edit gives: savings and a bonus are not negative, a rule counts from a
  day, a grant has finitely many batches with dates and whole numbers, in yuan or a currency with a rate), `CaseAssumption`
  (balance, target and levels of a market are whole numbers, a rate is known or 0, a history is a finite set of days for each series).

| Theorem | States |
|---|---|
| `TypeCorrect` | `Spec => []TypeOK` |
| `InvariantHolds` | `Spec => []IInv` |
| `ReplicaCorrect`, `CaptureComplete`, `NothingLost` | the invariants of run `replication` |
| `OwnershipFinal`, `CheckpointAdvances` | the action properties |
| `ReadyIsComplete` | `Spec => []ReadyTargetsAreComplete` |
| `Refinement` | `Spec => ImplementsMirror` |
| `CacheTypes`, `SlotsAreExact`, `HistoryHasOneBasis`, `FreshResults` | `CacheSpec => []TypeOK`, `[]SlotsMatchFlights`, `[]SeriesHasOneBasis`, `[]FreshIsCurrent` |
| `JobsTypes`, `OneFlight`, `CompleteIsKept` | `JobsSpec => []JobsTypeOK`, `[]OneFlightPerKey`, and the action property `CompleteSlotsStay` |
| `CacheHoldsBesideJobs` | what is proved of `CacheSpec` holds of `JobsSpec` too |
| `LedgerTypes` | `ValuationSpec => []ValuationTypeOK` |
| `RequestsApplyOnce`, `TotalFollowsHoldings` | `[]AppliedOnce`, `[]TodayFollowsAssets` |
| `NobodyOverwritesBlindly`, `CommittedRefreshIsNotRefused` | `NoBlindOverwrite`, `CommittedIsNeverRefused` |
| `PlansTypes` | `PlansSpec => []PlansTypeOK` |
| `PlansImplementEdits` | `PlansSpec => ImplementsEdits` |
| `OnlyTheEntitledChange`, `RevokedIsOut`, `ListedIsRevoked` | the action properties `ChangesAreEntitled`, `RevocationHolds`, `RevokesWhatWasListed` |
| `MonthOfDay` | whatever the day, `YearOf` and `MonthOf` give the year and month whose days it is among |
| `IncomeOnce`, `CheckpointsExact` | `Spec => []IncomeComesOnce`, `Spec => []CheckpointsAreExact`, with the `Spec` of `Projection` |
| `BlocksAreReal`, `BacktestIsHonest` | `[]BlocksAreRealMonths`, `[]BacktestKnowsOnlyThePast` |
| `ContributionsHold`, `HalfByDate`, `FirstDayOnTarget` | `[]ContributionsAddUp`, `[]HalfOfPathsByDate`, `[]DateIsFirstDayOnTarget` |
| `DateStays`, `PartialDateStays` | the action properties `PromiseIsKept` and `PartialDateIsFinal` |
| `DateStaysInYuan` | of a plan in yuan and no security, every look is a whole forecast and keeps the date: nothing lapses |

The argument for the backup. `ReplicaIsCapturedState` alone is not inductive: a commit installs what the attempt computed from
a batch read earlier. `IInv` says why that is right:

- `LogOrder`: sources follow each other in the log, so the events of the current one are those after `base`.
- `ImageChain`: each event takes the previous image of its source to its own; applying an event to image *n - 1*
  gives image *n*.
- `QueueIsUnacknowledged`: the outbox is exactly what the current source captured after `acknowledged`; hence a
  batch, its oldest part, has no hole.
- `AttemptInv`: an attempt that has read a batch still knows the acknowledgement it was read under (only its own
  process changes that); an open transaction shows a prefix at least as new as the database, and the rest of its
  batch has no hole after it. The open transaction keeps the marker row locked, so nobody else moves the
  database meanwhile.
- `TargetInv`: a database shows a prefix, and so would it after a late commit, which never moves it back.

`OpenTransaction` is where it comes together: the checkpoint is at least the `minimum` the batch was read under,
so skipping the events at or below it leaves a gapless rest. `BackupCaptureProofs` holds what this needs to know
of seeding, resets and acknowledgement. The last part of `BackupSafety` maps every action: a write, start or reset records
history, claiming is `Claim`, a commit answered or resolved late is `Advance` or invisible, and an operator's step
is `Rewind`, `Vacate` or `Duplicate`.

`SchemaInv` is about tables alone and needs no more than types: an attempt that has come to create or claim
(`Claiming`) works on a database that is not foreign, and when it marks the database as ready all tables are there,
because nobody drops a table while an attempt works on its database. That `initialized = 1` shows complete tables
is not inductive without the second part.

The argument for the holdings. The invariant of `LedgerSafety` says of every list that a refresh or a job still
holds that a row listed under the version it has now has the quantity that was listed (`Sees`). A step keeps this because
whatever changes a row raises its version (`RowsMove`), and it is why comparing the version alone makes the value
that is written right. `TodayInv` adds that the rate a total was recorded with is still known, so a snapshot is
skipped only where `TodayFollowsAssets` asks nothing; `SavedInv` and `HandlerInv` connect answers, log and what a handler
was told. `MaxVersion` is a constant like the others: the theorems hold whatever it is.

The argument for market data. `CacheInv` of `MarketSafety` has four parts beside the types. `FlightsOK`: the map and the
goroutines at work name each other, so a key has one goroutine. `KeysOK`: only a security's goroutine reaches the steps that
store history. `SlotsMatchFlights` is inductive with these; `Counting` relates the length of the channel to the goroutines one
step before and after, and `MoveInv` covers every step that is not a start or an end. `BasisOK` is why a part may
be added to a history: between fetch and commit nobody else stores that security's prices, because that would be a second
goroutine of its key. For the jobs, `OpenSlots` says that what a batch still has to write has come, is not complete and does not
cool down.

The argument for plans. `ImplementsEdits` needs to know that a request which matches the version of a row saw its present
content. `Seen` says so: the row a request names has at least the version that was read, with that very version it still has the
content that was seen, and content is nowhere else or under another version. It is kept because every writing raises
the version (`Raised`), and because numbers are not used again, so a request for a row that was deleted finds none
(`SlotsGiven`). `LoggedOnce` connects saved answers and log, `WritersOnce` rows and log; `RefusedForGood` says that what
was refused once cannot match later, so a copy of it is refused too.

Who may change a plan rests on `AccessInv`. A token's row, its secret and the scope it was issued with belong together for
good (`TokensAreIssued`), since the number of a token that is gone is not given to another; a list that a page still shows is
true of the tokens issued, even of those gone since (`ListIsTrue`); and a request that was let in carries what it was
let in with (`RequestsAreEntitled`). The database is not asked again when such a request comes to its transaction, so
the last part is what the change itself is judged by.

The argument for forecasts. `ProjectionInv` says that the plan in force was validated and has dates, that what is known are
finite sets of days, and that what is shown is a look at the present; the properties are then facts about one look, and
the calendar carries them. `YearOf` divides, `MonthOf` takes every month for 31 days long and corrects itself once;
`YearFacts` and `MonthFacts` show that this gives the right year and month for every integer. On that rest:

- `IncomeComesOnce`: what the code enumerates are the bonus years of a window; `ComesWithin` shows that no bonus
  that falls into the window is left out, so two windows that meet share nothing and lose nothing.
- `CheckpointsAreExact`: between a checkpoint and the one before it lies no other (`PreviousFacts`), so the parts
  follow each other, and each month end within the horizon is a checkpoint, so no part crosses one.
- `BlocksAreRealMonths`: the common months are put in order by their rank (`InOrderFacts`), so three in a row that the code accepts
  follow each other in the calendar too; and a month is common only if each series that takes part knows it, the security's own
  among them from the very number of shared months on that makes the code sample it.
- `BacktestKnowsOnlyThePast`: `UsableDay` and `ReturnsKnowThePast` go through every price the backtest of a day reads.

`ForecastSafety` is about the walk along the checkpoints and what is made of it. Its lemmas hold of any snapshot that `Fits`, not of
today's alone, so that two looks can be compared. The library's induction theorems take an operator as parameter, which cannot be
used; `UpTo` and `SmallerFirst` of `ProjectionSafety` say the same of a set: one that goes on from each number, or each smaller set,
to the next holds all of them.

- Sums: `Total` is the sum of a function over a finite set. The lemmas that begin with this name show that any element may be
  added last, that parts add up and that equal terms have equal sums.
- `ContributionsAddUp`: `WalkSteps` follows the walk point by point; the cash at a point is what has come by its day, because
  everything between two points comes on the later one.
- `DateIsFirstDayOnTarget`: on the days between two points nothing happens, so the first day on target, if there is one, is a
  point, and the walk stops noticing hits at the first.
- `HalfOfPathsByDate`: the hits are put in order, those that never come last, so the one in the middle has half of them at or before
  it and fewer than half before.
- `PromiseIsKept`: receipts of two periods that meet are those of the whole (`ReceiptsParts`), so a day is on target seen from
  tomorrow exactly when it is seen from today. `ShownFirst` says that any date shown is the first such day; for one
  shown before all is known this goes through the snapshot `Paid`, in which every currency has its rate. `Missing` says that
  there is no forecast only where no simulation is possible.
- `PartialDateIsFinal`: two snapshots that agree on all that happens up to a day give every path the same walk up to it, and
  so the same date if either has one by then (`DateBoth`). A date that is shown early comes before all unknown income. More
  prices never take a month away (`MoreReturns`), so what was certain stays so.

TLC checked `SchemaInv`, `AccessInv`, `ProjectionInv`, `Missing` and, on the days on which money comes and the days
before them, `ShownFirst` on the instances of the runs before they were proved.

Only model-checked: the liveness properties `CatchesUpOrReports`, `HealsWithoutOperator`, `SlotsRecover` and `FlightsEnd`
(temporal reasoning under fairness is out of the prover's reach here). Every invariant and every action property of the
runs, and both refinements, are theorems.

## 5. What is not modelled, and what could come next

- SQLite's own durability (a committed transaction survives a crash) is trusted.
- Portfolio summary and export read once, consistently, and format; the market data sources are HTTP clients and
  parsers of other people's formats; opening a database is DDL that may be repeated, and the version triggers it
  installs are part of `Ledger` and `Plans`; the frontend is the environment: any request, any number of times.
- Hazards listed without a property: SQLite put back from an older file, which reuses sequences
  (`backup_worker.go:94`); events MySQL refuses for their content (`backup_replication.go:56`); a business transaction
  split between two batches, which the mirror shows half applied for a moment (`backup_capture.go:166`); daily rows
  written from holdings listed earlier (`market_jobs.go:240`), which only the export reads; a total beyond int64
  (`ledger.go:99`).
- Of forecasts: random returns, growth, inflation and percentiles, see section 2.

Next: `BatchSnapshots` composed with `Valuation`, with the rows `recordCachedAssetSnapshots` adds to
`asset_daily_snapshots`; and the hazards above, where a model of their own would show more than the line does.
