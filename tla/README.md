# Stock-harvesting backend: TLA+ specifications and proofs

This directory holds models of the parts of the backend whose correctness depends on the order in
which several actors do things: processes that share one provider session, requests that share one
socket, jobs that share one row, readers that outlive the data they read, and imports that overtake
the jobs working on what they replace; and of the rules, calendar and weekly signals, whose edges a
unit test samples and a model checker exhausts. The source is the reference. Every definition
translates the lines that `PROJECT.json` gives for it.

## 1. The system

The backend is an Express API process and one or more BullMQ workers over PostgreSQL and Redis. The
market data comes from GlobalDataFeeds (GDF), over a websocket that the provider allows once per API
key, and from EODHD over HTTP.

| Component | State it keeps | Operations | Talks to |
|---|---|---|---|
| GDF session broker | lease key in Redis; role, subscriptions and pending requests per process | start, elect, renew, promote, demote, stop, remote request | client, Redis pub/sub |
| GDF websocket client | socket, connect promise, pending calls, queue, reconnect timer | request, send, close, socket events | call gate, broker, adapter |
| GDF call gate | call log, next slot, block | reserve, register, refuse, success | client |
| Job queue | BullMQ jobs and schedulers in Redis | add with a time-out, upsert and remove schedulers | every producer, worker |
| Worker | job slots, in-process set of running operations | one handler per job name, runtime limit | everything below |
| Job ledger and runs | `background_job_runs` | claim, progress, finish, coverage, orphan check, catch-up | admin, worker, watchdog |
| Admin's jobs | `sync_jobs` | trigger, list, retry, delete, reconcile backtests | queue, worker |
| Daily schedule | schedulers, the day's rows, recovery jobs | refresh, recover, mark missed | queue, ledger |
| Instruments | `instruments`, a provider list per process | sync, search, rename, fallback row | adapters, candles |
| Market collections | collection, members, versions, status | import, correct, delete, prepare | queue, backtests, snapshots |
| Weekly Strong backtests | runs per week and membership mode | backfill, rebuild, incremental, reconcile | collections |
| Candle store and sync | candles, instrument statistics, checkpoints | repair, replace, refresh, bootstrap | adapters, ledger |
| Chart freshness | results and promises per process, queue job per symbol and date | ensure fresh, force | candle sync, queue |
| Dashboard snapshots | one row per scope and metric | read or compute, invalidate | collections, sync |
| Scanner and weekly rules | none: functions of closes and calendar | bands, verdicts, trades, membership changes | candles, backtests |
| Market stream | reference counts, provider subscriptions, clients | subscribe, unsubscribe, ensure, ticks | GDF client, EODHD socket |
| Provider settings | rows, 20 s cache, last good copy | read, update, health | routing, stream |
| Sessions and accounts | token families, verification codes, reset tokens | create, rotate, revoke, register, verify, reset | API |
| Price alerts | alerts, push endpoints | create, edit, evaluate, notify | push |
| Watchlists, drawings, preferences, monetization, AI, admin views | rows of one user | CRUD | API |

`PROJECT.json` lists all of these with their files, what is modelled of each, and why the rest is
not. It also lists the hazards, each at its line.

### What makes each part hard, and what makes it correct

* **Session broker.** Renewals may be late by more than the lease, commands are answered at a later
  moment than they execute, processes crash and restart under a new identity, and a subscription may
  fail half-way through a promotion. Correct means: one owner, ownership passes through nobody, a
  restart outwaits its predecessor, only the owner dials, a request runs once, and somebody serves.
* **Websocket client.** Answers carry no usable tag, so the client must keep one call in flight and
  discard a socket whose answer may still come. Correct means: one in flight, answers reach their own
  call, every call ends, a wanted connection is restored.
* **Call gate.** Callers sleep through blocks and fire late. Correct means: the rolling cap, the
  spacing, one block per burst.
* **Catch-up runs.** One row, one job of the same identity, and any number of requests, attempts and
  crashes; the row is read and written in separate statements. Correct means: one worker at a time,
  orphans are found, a run ends, backtests are marked current only when the date is covered.
* **Admin's jobs.** A row and a job are made one after the other; jobs of the same kind collapse, are
  skipped or die. Correct means: a row says completed only of what ran, and what ended otherwise says so.
* **Daily schedule.** A scheduled job, a recovery job and a watchdog act on one row per day; Redis may
  lose the first and a crash the second. Correct means: a due day is run, once, and its row says so.
* **Candles.** Routine sweep, single refreshes and backfills overlap on one symbol, and any day's call
  may fail. Correct means: what is stored is kept, and a hole is known to somebody.
* **Collections.** A preparation takes minutes, and imports, corrections and the deletion commit
  meanwhile. Correct means: weeks follow the membership they are stored under, one universe per
  series, what is shown as prepared is the latest version, and every import is prepared.
* **Chart freshness.** Results are kept per process beside queue jobs that everybody shares. Correct
  means: a chart is told of its own date, and never an old failure.
* **Snapshots.** A slow read races an invalidation. Correct means: an answer suits its request, and
  only a reader that was overtaken leaves an old row.
* **Instruments.** Two processes sync lists of different age by stable rows. Correct means: rows stay
  the instrument they are, and an unchanged list is taken over.
* **Weekly rules.** Missing weeks, forming weeks and short histories shift windows. Correct means:
  bands, trades and verdicts are those of the rule.
* **Market stream.** References are taken before an await and the provider told after it. Correct
  means: counts follow holders, and providers follow counts.
* **Accounts.** Transactions of one token, one code and one address overlap. Correct means: one live
  token per family, none after a reset, one account per code, a way in for each account.
* **Settings.** A cache fill races an update. Correct means: beliefs are recent, fields are kept.
* **Alerts.** An edit races an evaluation. Correct means: one notice per activation, at the row's target.

## 2. Modules

| Module | Models | State to code | Actions to code |
|---|---|---|---|
| `SessionLock` | what the broker promises: a lock | `right` is the process in charge | `Take`, `GiveUp` |
| `GdfSession` | `global-datafeeds.session-broker.ts`, and what of the client and of Redis it relies on | `holder`, `ttl` the key; `owner`, `channels`, `listening`, `remote` the broker's fields; `promo`, `granted`, `lost` the awaits it may be suspended at | one action per stretch between two awaits of `start`, `tryLease`, `becomeOwner`, `becomeProxy`, `stop`, `rpc`, `onMessage`, `serve` |
| `GdfClient` | `global-datafeeds.websocket-client.ts`, `requestWithRetry` of the adapter | `cur`, `dialing`, `authenticated`, `timer`, `tail`, `pending` are the fields; `conn` is each socket as both ends see it; `wire` what the provider still owes | one action per event of the JavaScript loop with the continuations it runs |
| `GdfCallGate` | `global-datafeeds.rate-limit.ts` | its four fields; `slot` is where each caller sleeps | `Reserve`, `SendCall`, `RateLimited`, `Succeeds` |
| `CatchUp` | the catch-up path through `market-data-job-ledger.ts`, `background-job-runs.service.ts`, `queues.ts`, `worker.ts` | `status`, `exempt`, `backtest` are columns of the row; `job` is the BullMQ job; `run`, `admin`, `lister` say where worker, request and admin page stand | one action per SQL statement or Redis command |
| `SyncJobs` | triggers, list and deletions of `admin.service.ts`, `weekly-strong-backtest.reconciliation.ts`, `addJobWithTimeout`, `runTrackedJob` | `entry` is a row with its job; `asking` where each call stands; `haveWeeks` what a reconciliation looks for | one action per statement or command of a trigger; the worker's start, end, failure and skip |
| `DailySchedule` | `queues.ts`, `schedule-production-jobs.ts`, `daily-candle-schedule-watchdog.ts`, `scheduled-daily-candle-run.ts`, the ledger's claim | `scheduler`, `fired`, `recovery` are in Redis; `ledger` the rows; `work`, `watchdog`, `refresh` where each process stands | the watchdog's three reads and its add, the refresh's statements, claim and end of a run |
| `CandleSync` | `market-data.candle-sync.ts`, `market-data.candle-sync-plan.ts`, `market-data.candles.ts`, `market-data.no-history.ts` | `stored`, `latest`, `noHistory` are tables; `attempted` a map of the process; `fetch` a task between its plan, its calls and its writes; `sweep` the exchange's run | plan, each call, the replacement, the statistics, the checkpoint, the sweep's steps |
| `ChartFreshness` | `market-data.chart-ensure-fresh.ts`, the worker's handlers of its two jobs | `results`, `inFlight` are the process's maps; `chartJob` the queue; `request` the calls | a call's steps through maps and queue; the worker's job |
| `Snapshots` | `dashboard-snapshots.service.ts`, `dashboard-snapshot-store.ts` and those that invalidate | `snapshot` the row of one key; `viewing`, `writing` readers and changers; `data`, `told` versions | hit, miss, compute, write; store, then invalidate, or die |
| `Universe` | `market-data.instrument-sync.ts`, `market-data.instruments.ts`, the metrics' read of candles | `table`, `stored` the rows; `cached` a list per process; `call` where each sync stands | one action per statement of a sync or search |
| `Collections` | `market-collections*.ts`, `market-collection-*.service.ts`, `weekly-strong-backtest.generation.ts` | rows, versions and runs of one collection; `slot`, `admin`, `inc` say where job, request and incremental sync stand | one action per transaction, or per statement outside one |
| `Calendar` | `trading-calendar.ts` | none: operators on days | |
| `WeeklySignals` | `scanner/`, `weekly-strong-evaluator.ts`, `candle-aggregation.ts`, membership changes of `weekly-strong-backtest.queries.ts` | `closes` the stored daily closes; `today`, `closed` the exchange's date | a close is stored or corrected, time passes |
| `MarketStream` | `market-stream.service.ts`, `.hub.ts`, both stream providers | `refs`, `ensured` the service's maps; `task` suspended subscribes; `eod*`, `gdf*` the providers with their far ends | a message, each await of a subscribe, socket and timer events |
| `Accounts` | `auth/` | rows of users, tokens, codes and links; `call` suspended requests with the rows they saw or locked | each request, split where its transaction reads a snapshot or waits for a lock |
| `ProviderSettings` | `data-provider-settings.service.ts`, `data-provider.service.ts`, `shared/cache.ts` | `row`; `cached`, `lastGood`, `exchanges` per process; `read`, `update` under way | begin and end of each read and update |
| `PriceAlerts` | `price-alerts.service.ts`, `push-subscriptions` | `alert` rows; `evaluation` what one quote has still to take | owner's requests; read, guarded update, notice |
| `GdfSessionProofs`, `GdfClientProofs` | theorems about the module each is named after (section 4) | | |
| `RecordsProofs` | theorems about `Collections` and `Universe` | | |
| `JobsProofs` | theorems about `CatchUp`, `SyncJobs` and `DailySchedule` | | |
| `MarketDataProofs` | theorems about `CandleSync`, `Snapshots` and `ChartFreshness` | | |
| `SignalsProofs` | theorems about `Calendar` and `WeeklySignals` | | |
| `ProvidersProofs` | theorems about `ProviderSettings` and `MarketStream` | | |
| `ApiProofs` | theorems about `Accounts`, `PriceAlerts` and `GdfCallGate` | | |
| `MC*` | constants for TLC, and the hosts of the next section | | |

How they fit together: `GdfSession` decides which process may use a socket, `GdfClient` is that
process's socket, and each of its calls first passes `GdfCallGate`. `CatchUp`, `SyncJobs`,
`DailySchedule`, `CandleSync` and `Collections` run in the worker; `ChartFreshness` asks it for
candles, `Snapshots` and `WeeklySignals` read them, `Universe` names them. The catch-up's last step
refreshes the backtests that `Collections` generates. `Collections` models the generators, `SyncJobs`
the rows and jobs that start them, `WeeklySignals` what they compute.

What is left out everywhere: logging, metrics, HTTP, validation messages, and the contents of
candles, except in `WeeklySignals`, where a close is one of three levels. A candle is present or
absent, a universe is a set of instruments, an answer is the call it answers.

## 3. Runs

All bounds are constants with a comment in the module that declares them. Six runs are *hosts*:
modules that put several components beside each other with a variable `part`, which names the one
that moves in a behaviour. Components of one host share no state, so that what holds of each alone
holds of them together, and the host explores their sum, not their product. A component at rest is
pinned to one initial state. Model values that serve several components are permuted in all of them
by one symmetry set; no host with a liveness property has one. TLC counts the step of a host as one
action; its coverage statistics show that every action of every component fires, the demotion of an
owner whose renewal is refused in `provider_live`, the crash of a catch-up in `live`.

| Run | What it shows | Instance, and why it is enough |
|---|---|---|
| `provider` | session: one owner, ownership is a lock (`ImplementsLock`), a request runs once, only the owner dials, a refused socket is explained. Client: one call in flight, a wanted connection is never silently lost. Jobs: rows say what their jobs did | two workers, one API server, one fault of any kind, renewals late by up to `LeaseTtl - 1`; two calls, a subscription, two sockets (one must outlive its replacement), a drop, a `close()`, refusals; two rows, two requests, one death, every kind of job in each of three set-ups |
| `provider_live` | a stale owner steps down (`LosersStepDown`), somebody serves again and again (`SomebodyServes`), and every queued call ends | two workers, two crashes or stops, renewals late by a whole lease, which lets two owners exist for a while; one history call, one other call, four sockets, rate limits |
| `session_deaf_owner` | *violation*: an owner that failed to subscribe serves nobody | one failed subscription |
| `live` | every catch-up run and every import's preparation ends; orphans are found | one request, two slots, a crash and a lost lock, so that a stalled job is recovered while its worker still runs; two versions, one of each fault |
| `client_stuck` | *violation*: two history calls that time out leave a third party waiting for ever | two history calls, three sockets |
| `client_foreign` | *violation*: a late untagged answer settles another call | two calls, two sockets |
| `worker` | one catch-up at a time, backtests current only when covered; candles are accounted for; days are run; chart answers are fresh; snapshots follow the market | two admins, two slots, three requests, two attempts, a crash, a failed call, no lost lock (the two properties of the catch-up presume none); two instruments of which one has minute history only, three days, two tasks; two days, two mishaps; two calls, two dates, a restart; two readers, one change |
| `data` | history follows versions, one universe per series, prepared means current; the table follows the list; bands, trades and verdicts are those of the rule | two weeks, two versions, two instruments of which one lacks history; three symbols of which one is contained in the others, two tokens, two processes, two calls, one change; seven days in four weeks, three levels of close, so that a window of two reaches over a gap at either end |
| `rename_history` | *violation*: metrics lose the candles of before a rename | two symbols, one token, one process |
| `series_alignment` | *violation*: the weekly series judges a week by another day than the latest verdict | two weeks |
| `catchup_overwritten` | *violation*: the result of a fast worker is overwritten and then marked failed | one request, one worker |
| `api` | the gate's quota and bursts; the stream's counts and providers; accounts; settings; alerts | three callers, two calls per hour of five ticks, almost two hours; two viewers, four symbols of both providers, a limit of one, two tasks, one upset; one address, two requests under way, five in all; one process with two readers and two admins; two alerts, three edits, three quotes |

Deadlock is checked where the system cannot stop: in `session_deaf_owner` time always passes. A
client with no call, a ledger that nobody asks for anything, a clock at its bound and a host that
contains one of these may stop, so their configurations say `CHECK_DEADLOCK FALSE`.

### Fairness

* `GdfSession`: time passes, awaited commands answer, and a supervisor restarts an ended process
  (PM2, see `worker.ts:276`). No fault, request or socket loss is obliged to happen. In a host this
  start is fair only in the part that moves, as it is enabled in the initial state of one at rest.
  `SomebodyServes` and `LosersStepDown` are `SomeoneServes` and `StaleOwnerStepsDown` of the module.
* `GdfClient`: the event loop runs the next continuation, timers fire, and a closing handshake ends.
  The provider owes nothing: `Answer`, `SocketOpens` and `AuthSucceeds` are not fair.
* `CatchUp`: workers go on, BullMQ's timers fire, a request that began is carried out, and the admin
  page polls. Nobody is obliged to ask.
* `Collections`: the worker goes on and takes the next job, and a request that began is carried out.

The other modules state safety only: what must happen in them is said by what may be the case when
it should have happened (`DueRunsHappen` when the window closes, `HeldIsSubscribed` when no call is
under way, `LeftBehindFor` when nobody works on a row any more).

### Conditions inside the properties

Some properties name the one situation in which the code does not keep them. This is deliberate: the
condition says how far the promise reaches, and a history variable records exactly that situation.

* `OneRunAtATime` and `BacktestsOnlyWhenCovered` hold until a worker loses its lock without noticing
  (`stalls = 0`). A catch-up is not protected by `runProviderOperationOnce`. The second also excepts a
  refresh that a request decided on before a later run replaced the exemptions by fewer (`outdated`).
* `HistoryFollowsVersions`, `WeeksShareTheActiveSet` and `PreparedMeansCurrent` hold unless an import
  or a correction committed inside a window that `overtaken` records: between a generator's read of
  its universe and its last write, or between the staleness check and the final status.
* `ExecutedOnce` and `RefusedOnlyByUnbrokered` except processes whose broker failed to start or is
  stopping: `stop()` leaves the client's socket open and its subscription outlives its lease.
  These two, `OnlyOwnerOpensSocket` and `AtMostOneOwner` presume that no renewal is late by a whole
  lease (`MaxLate < LeaseTtl`). Otherwise a process that has lost its lease unnoticed may still dial
  for a call that passed the check of `websocket-client.ts:224`. `provider_live` allows such lateness
  and checks that it is overcome.
* `SyncRowsTellTheTruth` allows a live row without a job for four reasons: its job was skipped, was
  taken for another's, was lost with the worker, or its caller died before the add.
* `DaysAreRun` allows a running row for ever when a scheduled job was recovered after a crash and then
  skipped, and judges only days the watchdog saw to with nothing lost since.
* `ChartAnswersAreFresh` allows an old failure to a caller whose removal of the old job failed.
* `SnapshotsFollowTheMarket` allows an old row written by a reader that a deletion overtook (`late`).
* `UniverseFollowsTheList` judges rows where no calls overlap, and allows a listed symbol that a
  delisted row holds, or one that is stuck itself: a swap of two symbols is never resolved.
* `ProvidersFollowHolders` and `WithinSymbolLimit` except a last holder who let go while the
  subscription waited (`overtaken`), a provider that was disabled, cooling, full or out of reach when
  asked (`skipped`), and two calls that computed the free capacity beside each other (`crowded`).
* `CredentialsAreSound` and `EveryAccountHasAWayIn` except a rotation that overlapped the reset, two
  registrations of one address that overlapped, a role that was changed, and a Google login cut off
  between its two inserts.
* `SettingsAreKept` except two updates of one row that overlapped, and processes that made no update.
* `AlertsTriggerRightly` except an alert edited between the read and the guarded update of that evaluation.

### Disagreements between code and comments

1. `global-datafeeds.session-broker.ts:183` sets `owner` before the subscription that may fail; the
   process then renews for ever and serves nobody (`session_deaf_owner`).
2. `global-datafeeds.websocket-client.ts:354` clears the connect promise without settling it; calls
   that await it, and the queue behind them, wait for ever (`client_stuck`).
3. `global-datafeeds.adapter.ts:115` discards the socket only while attempts are left, and a discarded
   socket delivers while it closes; a late answer settles another call (`client_foreign`).
4. `market-data-job-ledger.ts:269` overwrites a run that a fast worker has already finished; the page
   then marks it failed (`catchup_overwritten`).
5. `weekly-strong-evaluator.ts:134` walks to the last daily bar not after the weekly bar's time, which
   is a Monday: a week is judged by Monday's close (`series_alignment`).
6. `market-data.candles.ts:287` groups metric candles by the symbol stored with them, which a rename
   does not rewrite: the history from before it is lost to its readers (`rename_history`).

### Observations without a run

Met while modelling, in the models as the code has them. Nothing in the repository promises
otherwise, or the run would say no more than the line does.

* **Instruments.** A symbol the provider never listed gets a fallback row from a bootstrap or chart
  request (`instrument-sync.ts:133-137`, `instruments.ts:94`). A list up to half an hour old can undo a
  rename. Two instruments that swap symbols are in conflict for ever. `ensure` of a text that only
  partly matches fails on the unique key (`instruments.ts:101-103`). Instruments, and members of a
  "regenerated" classified collection, are never deactivated. Two syncs with different lists can
  between them change a row's symbol and its token.
* **Candles.** A day without minute bars is not asked for again once a later day is stored. The catch
  around each day of a repair swallows `ProviderRateLimitedError` too (`candle-sync.ts:200`). A
  no-history record can outlive stored candles (`no-history.ts:22-25`, `candle-sync.ts:822`).
  `candle-sync.ts:871-874` describes a target date that `worker.ts:215` always passes.
* **Snapshots.** A reader that computed before an invalidation writes its old row after it
  (`dashboard-snapshots.service.ts:129`). Sector classification adds members and invalidates nothing
  (`sector-classification.service.ts:157`); so do chart refreshes and repairs that failed in part.
  `asOfDate` is the date of the write. A late write can follow the deletion of its collection.
* **Jobs.** A later catch-up run replaces the exemptions an earlier one found
  (`background-job-runs.service.ts:230`, `market-data-job-ledger.ts:307`). A deletion that removes the
  waiting preparations may remove some and fail at the next. A skipped duplicate leaves its row queued for an hour and then failed. A job of two to four
  hours is called failed after one without progress. A row of a live job can be deleted after ten
  minutes (`admin.service.ts:746-749`; `DECISIONS.md:822` says it is refused). `triggerInstrumentSync`
  has no check for an active one. `reconciliation.ts:59` omits the state `prioritized`. Job ids with one
  colon are in use (`DECISIONS.md:541` calls them unsafe). A backtest that failed after some weeks
  counts as having weeks, so that its first backfill is not tried again. `admin.service.ts:512` says
  sectors are synced inline; they are queued.
* **Daily schedule.** A scheduled job recovered after a crash and then skipped leaves its row running.
  A run recorded after a crash inserts a second row and the first stays running. A scheduled job is
  skipped while the run of another date is under way (`worker.ts:69-71` against `:341`).
  `ensureExpectedMarketDataJobs` and `markExpectedMarketDataJobsQueued` have no caller.
* **Charts.** A skipped chart job answers with an undefined status (`worker.ts:82-93`). A caller that
  does not wait for completion waits all the same when the queue fails (`chart-ensure-fresh.ts:184`). A
  job gone between `getJob` and `getState` is answered `failed` without a refresh. Weekly and monthly
  pages can be cut while `hasMore` is false. No adapter implements `fetchLatestDailyCandles`.
* **Stream.** EODHD's `close()` is followed by a close event that starts the reconnect timer again.
  The GDF provider's `close()` removes its listeners for good. After a GDF reconnect nobody subscribes
  again. `evaluatePriceAlertsForQuote` has no caller.
* **Accounts.** A rotation that overlaps a password reset leaves its session alive. Two overlapping
  registrations leave two open codes. A Google login cut off between its inserts leaves an account
  without a way in.
* **Signals.** With a lookback that falls back, the Scanner's verdict and the chart's yellow band may
  start at different weeks (`market-data.metrics.ts:238` says the same date). Membership changes take
  the week from the first member; members without a row of the forming week are compared one week
  earlier.

## 4. Proofs

Every theorem holds for every value of the constants that satisfies the named `ASSUME`s of its module:
the lease, the attempts, the weeks and versions are positive, bounds are natural, no process has two
roles, a call has one kind, `Nobody` is no slot, instruments have finitely many tokens, sets said to be
subsets are. One more hypothesis, `MaxLate < LeaseTtl`, stands in front of the theorems of the session
that need it. Each invariant below was checked with TLC before it was proved. Each proof has the same
shape: the invariant holds initially, each action keeps each part of it, it implies the property, and a
last temporal step combines the three.

**Session** (`GdfSessionProofs`): any number of workers, API servers, faults and callers.

* `TypeCorrect`: the state keeps its types, and no API server is elected.
* `ExclusiveOwner`: if `MaxLate < LeaseTtl`, at most one process reigns. `AtMostOneOwner` is not
  inductive: nothing in it says that the key still names the owner. The strengthening is
  `LeaseInv`: whoever has been elected is named by the key, and the key's remaining life and the time
  since its last renewal add up to at least a lease. So as long as lateness is below the lease, the
  key exists, and `SET NX` cannot elect anybody else. `IInv == TypeOK /\ LeaseInv`; each action is a
  step of the proof, and `Tick` is the one that needs arithmetic.
* `OwnershipIsALock`: under the same assumption `Spec => ImplementsLock`. A change of the right from
  one process to another would need two elected processes in consecutive states; the key excludes it.
* `ElectionIsPatient`: from an invariant `Patience` (the wait of a candidate and the remaining life of
  its dead predecessor's key add up to at most a lease), a candidate that gives up does not leave
  the lease to its own dead predecessor, however late renewals are.
* `OwnersOpenSockets`, `OthersAreNotRefused`, `RequestsExecuteOnce`, under the same assumption: only an
  owner dials, only a process without a broker is refused, and a request over Redis is executed once.
  All three follow from `ActInv == IInv /\ OwnersAct`: whoever holds the provider's session, dials,
  or executes requests is the owner or has no broker, and no renewal is refused.

**Client** (`GdfClientProofs`): any calls, sockets and attempts. `ClientTypesHold`, `TurnsExclude` (one
call in flight) and `WayBackStands` (a wanted connection that is lost has a timer) follow from

    SocketTypes /\ CallTypes /\ AttemptsLeft /\ Queue /\ Turns /\ WayBack

`Queue` says that each call stands in the serialized queue at most once, and only while its attempt
lasts, and `Turns` that a call which connects or is pending is its head: this is what excludes a second
pending call when a retry, a time-out and a lost socket settle the first in different orders.

**Catch-up** (`JobsProofs`): any admins, slots, symbols and faults. `CatchUpTypes` needs only the
types. `OneRun` and `BacktestsWhenCovered` rest on `stalls = 0 => WorkersHoldTheJob /\ CoverageInv`: a
slot that works holds the one job of the row's identity, and whoever means to refresh backtests has
a verdict that still stands, or is recorded as outdated.

**Rows of jobs** (`JobsProofs`): any requests, rows, attempts and deaths. `RowsTellTheTruth` rests on
`SyncInv`: a call has a row from its insert on and no other call has it (`CallersApart`), there is no job
without a row, and of the rows that share a job id one at most has a job in the queue
(`OneJobPerId`). The last is what excludes twin runs: `Placed` compares ids with every row, also with
those that were deleted while their job went on. That a result stands is shown action by action.

**Daily schedule** (`JobsProofs`): any days and mishaps. `RunsOfTheSchedule` rests on `ScheduleInv`:

* `NothingBeforeItsTime`: before its scheduled time a day has no row, no work and no job that is due.
  The scheduler's next job is put over what is there; this is why nothing is lost by it.
* `WorkHasItsJob`, `ClaimsAreFinal`: a scheduled job that claimed its row is due again only
  after a crash, and is over only when its row is.
* `RefreshIsInTime`: the next job that a refresh replaces is the one it found dead, not one that is due.
* `UnclaimedNeverRan`, `WatchdogInTime`, `CheckedMeansCared`: the properties, for every part of a day.

**Collections** (`RecordsProofs`): any weeks, versions, symbols and slots. `CollectionTypes`,
`HistoryFollows`, `WeeksShare` and `Prepared` follow from one invariant of twelve parts: the types; that
versions have different dates and no job is of a later one (`DatesDiffer`, `JobsInOrder`); the three
properties; and what a generator or a preparation still knows at each of its awaits (`MembersStand`,
`VersionsStand`, `MembersOfNow`, `WeeksDoneStand`, `BuiltOfNow`, `ConclusionStands`), with the
exceptions in `overtaken`. The code
takes the least week that is left; that a set of weeks has one follows from the well-foundedness
of `<` on the naturals.

**Instruments** (`RecordsProofs`): any symbols, finitely many tokens, any processes.
`TableFollowsTheList` rests on `UniverseInv`:

* `KeysAreUnique`: two rows share neither a symbol nor a token.
* `CallsKnow`: what a call that nobody disturbed since it read is still so: its pairs are listed, a row
  it renames has the listed token and another symbol, the new symbol is free, a token it writes is
  held by no other symbol. This is why its writes are never refused.
* `SyncsTakeMore`: each undisturbed sync leaves one more listed pair in its row, until every listed
  symbol has a row; of several that are under way beside each other, one at most has nothing to add.
  The number of syncs is therefore a bound on the listed pairs, of which there are no more than tokens.

**Snapshots and charts** (`MarketDataProofs`): any readers, scopes, processes, calls, dates and faults.

* `SnapshotsFollow` rests on `ToldOfStored` (nobody is told of what is not stored), `RowsAreDue` (an
  old row has a late writer) and `AnswersSuitTheRequest`.
* `ChartsFresh` from `ChartInv`: what a process or the queue keeps under a date is of that date or later;
  a call that adds or awaits a job has noticed every end of it since it asked, or failed to remove an old
  one; and a forced call that goes on to the queue has forgotten what its process kept and awaits no job.

**Settings** (`ProvidersProofs`): any processes, readers and admins. `SettingsKept` rests on `Recent`
(what is cached was the row's value when its time to live began, or later), `Known`, `Sure` (a read that an update overtook does not
replace it) and `Apart` (updates that do not overlap do not lose each other's fields).

**Market stream** (`ProvidersProofs`): any viewers, symbols, calls, limits and faults. `HoldersFollowed`,
`LimitKept` and `FeedsFollow` follow from `StreamInv`. Beside the parts of the three properties it says
that what a call has still to subscribe is held, or was overtaken (`CallsAreHeld`), that
a send with a call behind it is awaited by that call and by no other (`SendsAreAwaited`), that the room of the one call
in its loop and what is subscribed stay within the limit (`RoomIsLeft`), that the last send queued for a
symbol says whether it is subscribed (`LastSendTells`), and that no socket closes behind the provider's
back before it was disabled (`SocketsClose`). `LastSendTells` is an invariant of a queue of any length; each step either takes its head
or adds sends of different symbols at its end.

**Accounts and alerts** (`ApiProofs`): any addresses, requests, alerts, evaluations and prices.

* `CredentialsSound` and `WaysIn` from `AccountInv`. The rows: types, numbers of accounts never reused,
  families begun by their first token and of one person, an account for each live token. The
  requests under way: a rotation holds a live token that no other rotation holds (the row lock), a reset
  has seen tokens of its own person, a login fits the role it read, a registration about to insert has
  consumed every open code. Without the lock a family gets two live tokens; without the numbers
  a request that outlives its account continues on the next account of the same address.
  Every step is first shown to be an `Advance` (no row is lost, no token revives, an account is kept,
  deleted or new), and most parts follow from that alone.
* `AlertsRight` from `AlertInv`: an active alert has a notice left, and a row that an evaluation read
  still stands unless it was edited since.

**Call gate** (`ApiProofs`): any callers, quota, hour, cooldowns and lateness. `QuotaKept` and
`BurstsBlockOnce` follow from `GateInv`:

* `LogIsComplete`: every call sent within the last hour is in the gate's log, which never outgrows the
  quota. The calls from any earlier one to the present are then in the log and the call being sent.
* `NextSlotIsLast`: the next slot is an interval after every slot that somebody sleeps for.
* `BlocksAreLong`, `FlightsAreShort`: a block lasts for the base cooldown or longer, and a call in
  flight is no older than `ReplyBound`. A refusal that finds no block was therefore sent after the last.

That the doubled cooldowns never fall below the base is an induction over the naturals. It is done
with sets (`InductionOnSets`, from the well-foundedness of `<`), and the recursive function `Doubled` is
shown to satisfy its equation by gluing its finite beginnings (`DoublesExist`, `DoublesAgree`).

**Candles** (`MarketDataProofs`): any instruments, lanes, callers, days, overlap and repair window.
`CandlesAreKept` rests on `CandleInv`:

* `NothingBeforeIsUnknown`: every day up to a stored one, and up to the last one that a task found
  stored, is `Seen`: stored, accounted for, or failed in a task that has still to report it. The claim
  about holes alone is not inductive: a task plans from what it held, and others write meanwhile.
* `PlansReachBack`, `AnswersCover`: what a task asks for leaves no day between what it held and what
  it stores, and an answer accounts for every day asked (`AskedDaysAre`).
* `LatestFollows`: an instrument with candles has a latest price, or a task that will write one. A task
  that applies older statistics than another still applies some.

That a set of days has a last one follows from the well-foundedness of `<`. The bounds of the
planned range are `OfTwo` and `PlanReachesBack`.

**Calendar** (`SignalsProofs`): the operators the signals, the schedule and the candle sync are built
on, for every date, with the market open or closed.

* `ExpectedDayIsATradingDay`: the latest expected trading day is a weekday, not after today and at
  most three days back.
* `ExpectedDayNeverGoesBack`: as the date advances or the market closes it does not go back, so that a
  week once complete stays complete.
* `CompletedWeeksAgree`: the two ways the code decides whether a week is complete, from a date
  in the week and from the label of the latest finished week, are the same.

They rest on four lemmas about the ISO week (its bounds, its order, the distance of two weeks, the
last weekday of one), each a fact of arithmetic modulo seven that SMT decides.

**Signals** (`SignalsProofs`): any calendar of days, closes and lookbacks. `SignalsFollowTheRule` says that
in every reachable state bands, trades and verdicts are those of a rule that is stated over the closes of
the weeks alone. Its invariant is short: no close is stored before its day is expected (`SignalsTypeOK`),
so that only the last week can be one that is not over. The rest is about what the code computes:

* `RollingMaxIsMax`: the sliding maximum. Its deque holds positions of the window with ever smaller values,
  and for each position of the window one at or after it with no smaller value (`IsDeque`,
  `DequeGoesOn`); the first of them has the greatest value of the window.
* `AscendingIs`, `DailyClosesAre`, `WeeklyClosesAre`, `CompletedWeeksAre`: the rows are the weeks with a
  close, each once, in order and with its last day's close.
* `SegmentsAre`: segments are the stretches of rows one week apart. They do not overlap
  (`StretchesApart`), every row is in one (`StretchThrough`), and the week before one has no close
  (`BeforeStretch`), even when it lies further back than the row before.
* `PassesByRule`: a row of a segment passes exactly if each week of its window has a close and its
  own is near the highest. That a window reaches over the begin of a segment is excluded by the
  empty week before it.
* `BandsAre`, `TradesAreBands`, `VerdictsAre`: the three parts of the property. A trade is a maximal run of
  rows that pass (`TradesAre`), two that hold in the same row are the same (`HoldsOnce`), and the latest
  segment is the stretch that ends with the last row (`LatestSegmentIs`).

The sliding maximum and the days in order are recursive functions. That one exists is shown for
any first value and step (`RecursionExists`), by induction over sets of naturals (`SetInduction`, from the
well-foundedness of `<`), and its values are reached by the same induction.

### Only model-checked

* All liveness, which is out of the prover's reach with `ENABLED`.
* `ApiTypeOK`, the types of the components of `api` on that instance. The invariants that are proved of each
  of them (`AccountInv`, `AlertInv`, `StreamInv`, `GateInv`, and those of `SettingsKept`) begin with its types.

## 5. Plan

Done: every module of section 2, and the proofs of section 4. Left, the most valuable first:

1. Abstract specifications with a refinement, as `SessionLock` is for the broker: a token family as a
   chain with one live end, the provider's subscriptions as the set of held symbols, a cache as a
   register of bounded staleness.
2. Two administrators on a smaller instance of `Collections`: an import classifies its rows before its
   transaction (`market-collections.service.ts:401`).
3. The read models of the ledger, and the selection of listings by price.

## 6. Not modelled, and why

Pure I/O and views (HTTP adapters, diagnostics, health, queue snapshots, heartbeats, metrics, admin
listings, audit pages); declarations (schema, routes, validation), whose unique keys and defaults
appear in the modules that use them; library calls (hashing, tokens, cookies); single statements on
a user's own rows (watchlists, drawings, preferences, monetization, AI keys); scripts run by hand;
and floating-point arithmetic on prices, of which only comparisons are modelled.
