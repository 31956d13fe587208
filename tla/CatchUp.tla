------------------------------- MODULE CatchUp -------------------------------
(***************************************************************************)
(* A historical candle catch-up of one exchange and trading date: the row  *)
(* of background_job_runs that records it (market-data-job-ledger.ts,      *)
(* background-job-runs.service.ts), the BullMQ job of the same identity,   *)
(* the worker that runs it (worker.ts), the admin requests that queue it   *)
(* and the admin page that marks orphaned runs as failed.                  *)
(*                                                                         *)
(* Every statement sent to PostgreSQL or Redis is an action of its own, so *)
(* whatever may run between two awaits runs here too.                      *)
(***************************************************************************)
EXTENDS Naturals, FiniteSets

CONSTANTS
    Symbol,         \* active instruments of the exchange
    Empty,          \* those for which the provider has no candle of the date
    Admin,          \* admin requests that may be in progress at a time
    Slot,           \* worker slots, in processes of their own
    BullAttempts,   \* attempts of the BullMQ job
    MaxFailures,    \* bound: provider errors and rate limits
    MaxCrashes,     \* bound: worker crashes, by themselves or by the runtime limit
    MaxStalls,      \* bound: locks lost by a worker that goes on running
    MaxRequests,    \* bound: admin requests
    Nobody

ASSUME SymbolAssumption == Empty \subseteq Symbol
ASSUME BullAssumption == BullAttempts \in Nat \ {0}
ASSUME CatchUpBoundAssumption ==
    /\ MaxFailures \in Nat /\ MaxCrashes \in Nat /\ MaxStalls \in Nat /\ MaxRequests \in Nat
    /\ Nobody \notin Slot

VARIABLES
    status,     \* background_job_runs.status, "absent" before the insert
    exempt,     \* metadata.coverageExemptSymbols
    backtest,   \* backtestStatus
    have,       \* symbols with a candle of the date
    recent,     \* symbols whose lastCandleRefreshAt for this date is fresh
    job,        \* the BullMQ job: state, owner, targets, attempts made, stalls
    admin,      \* where each request stands in createAndQueueCatchUp
    targets,    \* targetSymbols of each request
    run,        \* what each worker slot is doing
    lister,     \* where listRecentBackgroundJobRuns stands
    final,      \* history: what the last worker to finish the run wrote
    outdated,   \* history: refreshes decided before a run replaced the exemptions by fewer
    failures, crashes, stalls, requests

row    == <<status, exempt, backtest>>
market == <<have, recent>>
bounds == <<failures, crashes, stalls, requests>>
vars   == <<row, market, job, admin, targets, run, lister, final, outdated, bounds>>

NoJob  == [state |-> "none", owner |-> Nobody, symbols |-> {}, left |-> 0, stalled |-> FALSE]
Resting == [at |-> "idle", todo |-> {}, empty |-> {}, failed |-> {}, missing |-> {}]

Active == {"queued", "running"}
Retryable == {"pending", "failed", "partial", "missed"}

\* calculateHistoricalCoverage: symbols neither stored nor exempt.
MissingBut(ex) == Symbol \ (have \union ex)
Missing == MissingBut(exempt)

Init ==
    /\ status = "absent" /\ exempt = {} /\ backtest = "none"
    /\ have = {} /\ recent = {}
    /\ job = NoJob
    /\ admin = [a \in Admin |-> "idle"]
    /\ targets = [a \in Admin |-> {}]
    /\ run = [w \in Slot |-> Resting]
    /\ lister = "idle"
    /\ final = "none"
    /\ outdated = {}
    /\ failures = 0 /\ crashes = 0 /\ stalls = 0 /\ requests = 0

-------------------------------------------------------------------------------
(* createAndQueueCatchUp, forced, as the admin route calls it *)

Goes(a, where) == admin' = [admin EXCEPT ![a] = where]

\* The coverage is read; with nothing missing there is nothing to do.
RequestBegins(a) ==
    /\ admin[a] = "idle" /\ requests < MaxRequests
    /\ requests' = requests + 1
    /\ Missing # {}
    /\ targets' = [targets EXCEPT ![a] = Missing]
    /\ Goes(a, "insert")
    /\ UNCHANGED <<row, market, job, run, lister, final, outdated, failures, crashes, stalls>>

\* INSERT ... ON CONFLICT DO NOTHING, and the status of the row that was there.
Insert(a) ==
    /\ admin[a] = "insert"
    /\ status' = IF status = "absent" THEN "pending" ELSE status
    /\ Goes(a, IF status \in Retryable \union {"absent"} THEN "add"
               ELSE IF status \in Active THEN "lookup" ELSE "idle")
    /\ UNCHANGED <<exempt, backtest, market, job, targets, run, lister, final, outdated,
                   bounds>>

\* hasLiveCatchUpJob: a queued or running row without a job is an orphan.
Lookup(a) ==
    /\ admin[a] = "lookup"
    /\ Goes(a, IF job.state = "none" THEN "add" ELSE "idle")
    /\ UNCHANGED <<row, market, job, targets, run, lister, final, outdated, bounds>>

\* Mutant: the job is added without an id.
EnqueuedAnew(a) ==
    job' = [state |-> "waiting", owner |-> Nobody, symbols |-> targets[a],
            left |-> BullAttempts, stalled |-> FALSE]

\* queue.add: the job id makes a second add collapse into the job that is there.
Enqueued(a) ==
    job' = IF job.state # "none" THEN job
           ELSE [state |-> "waiting", owner |-> Nobody, symbols |-> targets[a],
                 left |-> BullAttempts, stalled |-> FALSE]

Add(a) ==
    /\ admin[a] = "add"
    /\ Enqueued(a)
    /\ Goes(a, "mark")
    /\ UNCHANGED <<row, market, targets, run, lister, final, outdated, bounds>>

\* addJobWithTimeout gives up on an add that may still reach Redis.
AddTimesOut(a) ==
    /\ admin[a] = "add" /\ failures < MaxFailures
    /\ failures' = failures + 1
    /\ Goes(a, "straggle")
    /\ UNCHANGED <<row, market, job, targets, run, lister, final, outdated, crashes, stalls,
                   requests>>

StragglerArrives(a) ==
    /\ admin[a] = "straggle"
    /\ Enqueued(a) \/ UNCHANGED job
    /\ Goes(a, "idle")
    /\ UNCHANGED <<row, market, targets, run, lister, final, outdated, bounds>>

\* The unconditional UPDATE after the add.
MarkQueued(a) ==
    /\ admin[a] = "mark"
    /\ status' = "queued"
    /\ Goes(a, "idle")
    /\ UNCHANGED <<exempt, backtest, market, job, targets, run, lister, final, outdated,
                   bounds>>

\* refreshMarketDataBacktests, on its own: only for a date that is covered and not yet done ...
RefreshDecides(a) ==
    /\ admin[a] = "idle" /\ requests < MaxRequests
    /\ requests' = requests + 1
    /\ Missing = {} /\ backtest # "completed"
    /\ Goes(a, "refresh")
    /\ outdated' = outdated \ {a}
    /\ UNCHANGED <<row, market, job, targets, run, lister, final, failures,
                   crashes, stalls>>

\* ... and marked, if there is a row, when the reconciliation has not failed.
RefreshMarks(a) ==
    /\ admin[a] = "refresh"
    /\ backtest' \in IF status = "absent" THEN {backtest} ELSE {"completed", backtest}
    /\ Goes(a, "idle")
    /\ UNCHANGED <<status, exempt, market, job, targets, run, lister, final, outdated, bounds>>

-------------------------------------------------------------------------------
(* BullMQ *)

Pick(w) ==
    /\ run[w].at = "idle"
    /\ job.state = "waiting"
    /\ job' = [job EXCEPT !.state = "active", !.owner = w]
    /\ run' = [run EXCEPT ![w].at = "read", ![w].todo = job.symbols]
    /\ UNCHANGED <<row, market, admin, targets, lister, final, outdated, bounds>>

\* The job of a finished run, unless another worker has taken it over meanwhile.
Released(w) == IF job.owner = w THEN NoJob ELSE job

\* An attempt that threw is retried after a backoff while attempts are left.
Retried(w) == IF job.owner # w THEN job
              ELSE IF job.left > 1
              THEN [job EXCEPT !.state = "delayed", !.owner = Nobody, !.left = @ - 1]
              ELSE NoJob

BackoffEnds ==
    /\ job.state = "delayed"
    /\ job' = [job EXCEPT !.state = "waiting"]
    /\ UNCHANGED <<row, market, admin, targets, run, lister, final, outdated, bounds>>

\* Mutant: a recovered job keeps its former owner.
RecoveredInName == IF job.stalled THEN NoJob ELSE [job EXCEPT !.state = "waiting", !.stalled = TRUE]

\* The stalled check: an active job whose lock has expired waits again, once.
Recovered == IF job.stalled THEN NoJob
             ELSE [job EXCEPT !.state = "waiting", !.owner = Nobody, !.stalled = TRUE]

StalledCheck ==
    /\ job.state = "active" /\ run[job.owner].at = "idle"
    /\ job' = Recovered
    /\ UNCHANGED <<row, market, admin, targets, run, lister, final, outdated, bounds>>

\* A worker that is alive but slow loses its lock, and does not notice.
LoseLock(w) ==
    /\ stalls < MaxStalls
    /\ job.owner = w /\ run[w].at # "idle"
    /\ job' = Recovered
    /\ stalls' = stalls + 1
    /\ UNCHANGED <<row, market, admin, targets, run, lister, final, outdated, failures,
                   crashes, requests>>

\* The process ends, by itself or by the runtime limit; its supervisor restarts it.
Crash(w) ==
    /\ crashes < MaxCrashes
    /\ run[w].at # "idle"
    /\ run' = [run EXCEPT ![w] = Resting]
    /\ crashes' = crashes + 1
    /\ UNCHANGED <<row, market, job, admin, targets, lister, final, outdated, failures,
                   stalls, requests>>

-------------------------------------------------------------------------------
(* runTrackedDailyCandleSync *)

\* claimMarketDataLedgerRun reads the row: a terminal one is not claimed and the job is done.
ClaimReads(w) ==
    /\ run[w].at = "read"
    /\ IF status \in {"missed", "completed"}
       THEN run' = [run EXCEPT ![w] = Resting] /\ job' = Released(w)
       ELSE run' = [run EXCEPT ![w].at = "claim"] /\ UNCHANGED job
    /\ UNCHANGED <<row, market, admin, targets, lister, final, outdated, bounds>>

\* ... and updates it; symbols refreshed in the last minutes are left out.
ClaimWrites(w) ==
    /\ run[w].at = "claim"
    /\ status' = "running"
    /\ final' = "none"
    /\ run' = [run EXCEPT ![w].at = "sync", ![w].todo = @ \ recent]
    /\ UNCHANGED <<exempt, backtest, market, job, admin, targets, lister, outdated, bounds>>

\* refreshDailyCandles: the candle is stored, or the provider answers that there is none.
SyncSymbol(w, s) ==
    /\ run[w].at = "sync" /\ s \in run[w].todo
    /\ recent' = recent \union {s}
    /\ IF s \in Empty
       THEN /\ run' = [run EXCEPT ![w].todo = @ \ {s}, ![w].empty = @ \union {s}]
            /\ UNCHANGED have
       ELSE /\ run' = [run EXCEPT ![w].todo = @ \ {s}]
            /\ have' = have \union {s}
    /\ UNCHANGED <<row, job, admin, targets, lister, final, outdated, bounds>>

\* One symbol fails by an error or a timeout, and the run goes on.
SyncFails(w, s) ==
    /\ run[w].at = "sync" /\ s \in run[w].todo /\ failures < MaxFailures
    /\ failures' = failures + 1
    /\ run' = [run EXCEPT ![w].todo = @ \ {s}, ![w].failed = @ \union {s}]
    /\ UNCHANGED <<row, market, job, admin, targets, lister, final, outdated, crashes,
                   stalls, requests>>

\* The provider's quota is used up: the run fails (failBackgroundJobRun) and the job is retried.
RateLimited(w) ==
    /\ run[w].at = "sync" /\ run[w].todo # {} /\ failures < MaxFailures
    /\ failures' = failures + 1
    /\ status' = "failed"
    /\ final' = "failed"
    /\ job' = Retried(w)
    /\ run' = [run EXCEPT ![w] = Resting]
    /\ UNCHANGED <<exempt, backtest, market, admin, targets, lister, outdated, crashes,
                   stalls, requests>>

\* finishBackgroundJobRunFromSummary: its metadata replaces the row's.
FinishSummary(w) ==
    /\ run[w].at = "sync" /\ run[w].todo = {}
    /\ status' = IF run[w].failed = {} THEN "completed" ELSE "partial"
    /\ exempt' = run[w].empty
    /\ outdated' = IF exempt \subseteq exempt' THEN outdated
                   ELSE outdated \union {a \in Admin : admin[a] = "refresh"}
    /\ run' = [run EXCEPT ![w].at = "coverage"]
    /\ UNCHANGED <<backtest, market, job, admin, targets, lister, final, bounds>>

\* finishLedgerCoverage: this run's exemptions are written and the coverage is read ...
CoverageReads(w) ==
    /\ run[w].at = "coverage"
    /\ exempt' = IF run[w].empty = {} THEN exempt ELSE run[w].empty
    /\ run' = [run EXCEPT ![w].at = "verdict", ![w].missing = MissingBut(exempt')]
    /\ UNCHANGED <<status, backtest, market, job, admin, targets, lister, final, outdated,
                   bounds>>

\* Mutant: a partial coverage is recorded, and the backtests are marked current all the same.
AfterCoverageAlways(w) == "backtest"

AfterCoverage(w) == IF run[w].missing = {} THEN "backtest" ELSE "done"

\* ... and decides the status, whatever the row says by now.
CoverageWrites(w) ==
    /\ run[w].at = "verdict"
    /\ status' = IF run[w].missing = {} THEN "completed" ELSE "partial"
    /\ final' = status'
    /\ run' = [run EXCEPT ![w].at = AfterCoverage(w)]
    /\ UNCHANGED <<exempt, backtest, market, job, admin, targets, lister, outdated, bounds>>

\* reconcileWeeklyStrongBacktests succeeds or fails; the row records it.
Backtest(w) ==
    /\ run[w].at = "backtest"
    /\ \/ backtest' = "completed" /\ UNCHANGED failures
       \/ failures < MaxFailures /\ failures' = failures + 1 /\ backtest' = "failed"
    /\ run' = [run EXCEPT ![w].at = "done"]
    /\ UNCHANGED <<status, exempt, market, job, admin, targets, lister, final, outdated,
                   crashes, stalls, requests>>

\* The handler returns and BullMQ removes the job.
Complete(w) ==
    /\ run[w].at = "done"
    /\ job' = Released(w)
    /\ run' = [run EXCEPT ![w] = Resting]
    /\ UNCHANGED <<row, market, admin, targets, lister, final, outdated, bounds>>

-------------------------------------------------------------------------------
(* The admin page, and time *)

\* Mutant: only running rows are looked at.
ListReadsRunning ==
    /\ lister = "idle" /\ status = "running"
    /\ lister' = "lookup"
    /\ UNCHANGED <<row, market, job, admin, targets, run, final, outdated, bounds>>

ListReads ==
    /\ lister = "idle" /\ status \in Active
    /\ lister' = "lookup"
    /\ UNCHANGED <<row, market, job, admin, targets, run, final, outdated, bounds>>

ListLooksUp ==
    /\ lister = "lookup"
    /\ lister' = IF job.state = "none" THEN "mark" ELSE "idle"
    /\ UNCHANGED <<row, market, job, admin, targets, run, final, outdated, bounds>>

\* Mutant: only queued rows are marked.
ListMarksQueued ==
    /\ lister = "mark"
    /\ lister' = "idle"
    /\ status' = IF status = "queued" THEN "failed" ELSE status
    /\ UNCHANGED <<exempt, backtest, market, job, admin, targets, run, final, outdated, bounds>>

\* markOrphanedRun, guarded by the status.
ListMarks ==
    /\ lister = "mark"
    /\ lister' = "idle"
    /\ status' = IF status \in Active THEN "failed" ELSE status
    /\ UNCHANGED <<exempt, backtest, market, job, admin, targets, run, final, outdated, bounds>>

\* RECENT_CANDLE_REFRESH_COOLDOWN_MS passes.
CoolOff ==
    /\ recent # {}
    /\ recent' = {}
    /\ UNCHANGED <<row, have, job, admin, targets, run, lister, final, outdated, bounds>>

-------------------------------------------------------------------------------
AdminStep(a) == \/ RequestBegins(a) \/ Insert(a) \/ Lookup(a) \/ Add(a) \/ AddTimesOut(a)
                \/ StragglerArrives(a) \/ MarkQueued(a) \/ RefreshDecides(a) \/ RefreshMarks(a)

Working(w) == \/ Pick(w) \/ ClaimReads(w) \/ ClaimWrites(w) \/ FinishSummary(w)
              \/ CoverageReads(w) \/ CoverageWrites(w) \/ Backtest(w) \/ Complete(w)
              \/ \E s \in Symbol : SyncSymbol(w, s)

Mishap(w) == \/ LoseLock(w) \/ Crash(w) \/ RateLimited(w)
              \/ \E s \in Symbol : SyncFails(w, s)

Next == \/ \E a \in Admin : AdminStep(a)
        \/ \E w \in Slot : Working(w) \/ Mishap(w)
        \/ BackoffEnds \/ StalledCheck
        \/ ListReads \/ ListLooksUp \/ ListMarks
        \/ CoolOff

Spec == Init /\ [][Next]_vars

\* Workers and BullMQ's timers go on, an admin request once begun is carried out, and the
\* admin page polls.  Nobody is obliged to ask for a catch-up.
Fairness ==
    /\ \A w \in Slot : WF_vars(Working(w))
    /\ WF_vars(BackoffEnds) /\ WF_vars(StalledCheck)
    /\ \A a \in Admin : WF_vars(Insert(a) \/ Lookup(a) \/ Add(a) \/ StragglerArrives(a)
                                \/ MarkQueued(a))
    /\ WF_vars(ListReads) /\ WF_vars(ListLooksUp) /\ WF_vars(ListMarks)

FairSpec == Spec /\ Fairness

-------------------------------------------------------------------------------
(* Properties *)

\* Types of the state.
TypeOK ==
    /\ status \in Retryable \union Active \union {"absent", "completed"}
    /\ exempt \subseteq Symbol /\ have \subseteq Symbol /\ recent \subseteq Symbol
    /\ backtest \in {"none", "completed", "failed"}
    /\ job \in [state : {"none", "waiting", "active", "delayed"}, owner : Slot \union {Nobody},
                symbols : SUBSET Symbol, left : 0..BullAttempts, stalled : BOOLEAN]
    /\ job.state = "active" <=> job.owner # Nobody
    /\ admin \in [Admin -> {"idle", "insert", "lookup", "add", "straggle", "mark", "refresh"}]
    /\ targets \in [Admin -> SUBSET Symbol]
    /\ run \in [Slot -> [at : {"idle", "read", "claim", "sync", "coverage", "verdict",
                               "backtest", "done"},
                         todo : SUBSET Symbol, empty : SUBSET Symbol,
                         failed : SUBSET Symbol, missing : SUBSET Symbol]]
    /\ lister \in {"idle", "lookup", "mark"}
    /\ final \in {"none", "completed", "partial", "failed"} /\ outdated \subseteq Admin
    /\ failures \in 0..MaxFailures /\ crashes \in 0..MaxCrashes
    /\ stalls \in 0..MaxStalls /\ requests \in 0..MaxRequests

\* However often it is asked for, the same catch-up is run by one worker at a time: the job id
\* makes every add collapse into one job (queues.ts:108-114).  Only a worker that has lost its
\* lock and does not notice may run beside its successor.
OneRunAtATime ==
    stalls = 0 =>
        \A v, w \in Slot : run[v].at # "idle" /\ run[w].at # "idle" => v = w

\* Backtests are marked current only while the date's candles are complete, for however many
\* requests, attempts and crashes (market-data-job-ledger.ts:435-436): the verdict reached
\* before the backtests were refreshed still stands, unless a second worker runs beside the
\* first, or a run replaced the exemptions by fewer while an admin's refresh was under way.
BacktestsOnlyWhenCovered ==
    [][stalls = 0 /\ backtest # "completed" /\ backtest' = "completed" =>
          \/ Missing = {}
          \/ \E a \in outdated : admin[a] = "refresh" /\ admin'[a] = "idle"]_vars

\* A run nobody works on any more does not stay queued or running (market-data-job-ledger.ts:249-251).
OrphansAreFound ==
    (status \in Active /\ job.state = "none") ~> (status \notin Active \/ job.state # "none")

\* Once a job exists it ends, and leaves the row in a state from which it can be asked for
\* again or is complete.
EveryRunEnds ==
    (status = "running") ~> (status \in Retryable \union {"completed"})

\* The orphan check never overwrites the result of a worker that has finished the run
\* (background-job-runs.service.ts:395-396).
ResultSurvivesListing ==
    [][ListMarks /\ status' # status => final \notin {"completed", "partial"}]_vars

==============================================================================
