------------------------------ MODULE SyncJobs ------------------------------
(***************************************************************************)
(* Operations an admin or the system starts, each told by a row of         *)
(* sync_jobs and done by a queue job: the triggers, the list and the       *)
(* deletions of admin.service.ts, automatic backtests of a collection      *)
(* (weekly-strong-backtest.reconciliation.ts), the producer                *)
(* (queues.ts) and the worker's tracking (worker.ts).                      *)
(*                                                                         *)
(* There is one exchange and one collection.  A row's age is the time      *)
(* since it was updated: 0 below ten minutes, 1 below an hour, 2 below six *)
(* hours, 3 above.                                                         *)
(***************************************************************************)
EXTENDS Integers, FiniteSets

CONSTANTS
    Kind,           \* the operations of this instance
    SyncCaller,     \* requests of admins and reconciliations
    JobAttempts,    \* of an automatic job
    MaxRows,        \* bound: rows
    MaxAsks,       \* bound: calls begun
    MaxDeaths       \* bound: processes that die

KindOf == {"instruments", "sectors", "indices", "prices", "backtest", "historical"}
ASSUME SyncAssumption ==
    /\ Kind \subseteq KindOf
    /\ JobAttempts \in Nat \ {0} /\ MaxRows \in Nat /\ MaxAsks \in Nat /\ MaxDeaths \in Nat

Row == 1..MaxRows
Backtests == {"backtest", "historical"}
\* Operations of which the worker runs one at a time.
Once == {"instruments", "indices", "prices"}
\* Operations that may run for more than an hour (job-runtime-limits.ts).
Long == {"indices"} \union Backtests

VARIABLES
    setup,          \* "production", "development" (with a queue) or "no queue"
    entry,          \* the rows with their queue jobs
    asking,         \* the calls under way
    haveWeeks,      \* kinds of backtest of which the collection has weeks
    asks, deaths

syncVars == <<setup, entry, asking, haveWeeks, asks, deaths>>

NoEntry == [kind |-> "none", auto |-> FALSE, status |-> "absent", age |-> 0, job |-> "none",
            left |-> 0, stalled |-> FALSE, why |-> "", ran |-> FALSE]
AtRest == [at |-> "idle", kind |-> "none", auto |-> FALSE, entry |-> 0]

SyncInit ==
    /\ setup \in {"production", "development", "no queue"}
    /\ entry = [r \in Row |-> NoEntry]
    /\ asking = [c \in SyncCaller |-> AtRest]
    /\ haveWeeks = {} /\ asks = 0 /\ deaths = 0

Live(e) == e.status \in {"queued", "running"}
InQueue(e) == e.job \in {"waiting", "active", "backoff"}
Told(e, status) == IF e.status = "deleted" THEN e ELSE [e EXCEPT !.status = status, !.age = 0]

\* A jobId is one per kind of backtest and origin; other jobs have ids of their own.
SameId(a, b) == a.kind \in Backtests /\ a.kind = b.kind /\ a.auto = b.auto

-------------------------------------------------------------------------------
(* Checks and triggers of the admin *)

\* failStaleSyncJobs: without an update for an hour a row has failed.
StaleFailed == [r \in Row |-> IF Live(entry[r]) /\ entry[r].age >= 2 THEN Told(entry[r], "failed")
                              ELSE entry[r]]

\* A call begins; assertNoActiveSyncJob refuses it while a row of a blocking kind is live.
Asked(c, kind, blockers) ==
    LET rows == IF blockers = {} THEN entry ELSE StaleFailed
        refused == \E r \in Row : Live(rows[r]) /\ rows[r].kind \in blockers
        next == IF kind \in Backtests THEN "cooldown" ELSE "insert"
    IN  /\ kind \in Kind /\ asking[c].at = "idle" /\ asks < MaxAsks
        /\ asks' = asks + 1
        /\ entry' = rows
        /\ asking' = IF refused THEN asking ELSE [asking EXCEPT ![c] = [AtRest EXCEPT !.at = next, !.kind = kind]]
        /\ UNCHANGED <<setup, haveWeeks, deaths>>

\* assertBacktestCooldown: ten minutes after one that completed.
CoolsDown(c) ==
    LET refused == \E r \in Row : /\ entry[r].status = "completed" /\ entry[r].age = 0
                                  /\ entry[r].kind = asking[c].kind
    IN  /\ asking[c].at = "cooldown"
        /\ asking' = [asking EXCEPT ![c] = IF refused THEN AtRest ELSE [@ EXCEPT !.at = "insert"]]
        /\ UNCHANGED <<setup, entry, haveWeeks, asks, deaths>>

\* The row, whose job follows; without a queue the operation runs in the request.
Inserts(c) ==
    \E r \in Row :
        LET a == asking[c]
            status == IF setup = "no queue" THEN "running" ELSE "queued"
        IN  /\ a.at = "insert"
            /\ entry[r].status = "absent" /\ \A q \in 1..r - 1 : entry[q].status # "absent"
            /\ entry' = [entry EXCEPT ![r] = [NoEntry EXCEPT
                   !.kind = a.kind, !.auto = a.auto, !.status = status,
                   !.left = IF a.auto THEN JobAttempts ELSE 1]]
            /\ asking' = [asking EXCEPT ![c] = [a EXCEPT !.at = IF setup = "no queue" THEN "inline" ELSE "add",
                                                         !.entry = r]]
            /\ UNCHANGED <<setup, haveWeeks, asks, deaths>>

\* queue.add: an id in use leaves the job there is, and this row without one.
Placed(r) ==
    IF \E q \in Row \ {r} : SameId(entry[q], entry[r]) /\ InQueue(entry[q])
    THEN [entry EXCEPT ![r] = [@ EXCEPT !.job = "none", !.why = "twin"]]
    ELSE [entry EXCEPT ![r].job = "waiting"]

AddsJob(c) ==
    /\ asking[c].at = "add"
    /\ entry' = Placed(asking[c].entry)
    /\ asking' = [asking EXCEPT ![c] = AtRest]
    /\ UNCHANGED <<setup, haveWeeks, asks, deaths>>

\* It is refused, or takes longer than five seconds and may still arrive.
AddFails(c) ==
    /\ asking[c].at = "add"
    /\ \E job \in {"none", "late"} : entry' = [entry EXCEPT ![asking[c].entry].job = job]
    /\ asking' = [asking EXCEPT ![c].at = "sorry"]
    /\ UNCHANGED <<setup, haveWeeks, asks, deaths>>

Straggles(r) ==
    /\ entry[r].job = "late"
    /\ entry' = Placed(r)
    /\ UNCHANGED <<setup, asking, haveWeeks, asks, deaths>>

\* The row is failed, or in development the backtest is run at once.
TellsFailure(c) ==
    LET a == asking[c]
        inline == setup = "development" /\ a.kind \in Backtests /\ ~a.auto
    IN  /\ a.at = "sorry"
        /\ entry' = [entry EXCEPT ![a.entry] = Told(@, IF inline THEN "running" ELSE "failed")]
        /\ asking' = [asking EXCEPT ![c] = IF inline THEN [a EXCEPT !.at = "inline"] ELSE AtRest]
        /\ UNCHANGED <<setup, haveWeeks, asks, deaths>>

WeeksOf(kind) == IF kind \in Backtests THEN {kind} ELSE {}

RunsInline(c) ==
    LET r == asking[c].entry IN
    /\ asking[c].at = "inline"
    /\ \E ok \in BOOLEAN :
        /\ entry' = [entry EXCEPT ![r] = [Told(@, IF ok THEN "completed" ELSE "failed") EXCEPT
                                            !.ran = entry[r].ran \/ ok]]
        /\ haveWeeks' = IF ok THEN haveWeeks \union WeeksOf(asking[c].kind) ELSE haveWeeks
    /\ asking' = [asking EXCEPT ![c] = AtRest]
    /\ UNCHANGED <<setup, asks, deaths>>

\* The steps of a trigger: it asks, inserts a row, and adds the job or runs the operation.
Enqueues(c) == Inserts(c) \/ AddsJob(c) \/ AddFails(c) \/ TellsFailure(c) \/ RunsInline(c)

Trigger(c, kind, blockers) ==
    \/ Asked(c, kind, blockers)
    \/ asking[c].kind = kind /\ ~asking[c].auto /\ Enqueues(c)

\* An instrument sync asks for no other.
TriggerInstrumentSync(c) == Trigger(c, "instruments", {})
TriggerSectorClassificationSync(c) == Trigger(c, "sectors", {"sectors"})
TriggerIndexCandleBackfill(c) == Trigger(c, "indices", {"indices", "instruments"})
TriggerPriceRefresh(c) == Trigger(c, "prices", {"prices"})

TriggerBacktestBackfill(c) ==
    Trigger(c, "backtest", {"backtest"}) \/ (asking[c].kind = "backtest" /\ CoolsDown(c))
TriggerHistoricalRebuild(c) ==
    Trigger(c, "historical", {"historical"}) \/ (asking[c].kind = "historical" /\ CoolsDown(c))

\* listJobs
ListsJobs ==
    /\ StaleFailed # entry
    /\ entry' = StaleFailed
    /\ UNCHANGED <<setup, asking, haveWeeks, asks, deaths>>

Removed(e) == [e EXCEPT !.status = "deleted", !.age = 0]

\* deleteJobHistoryEntry: what is over, and what has not been updated for ten minutes.
DeletesEntry(r) ==
    /\ entry[r].status \in {"completed", "failed"} \/ (Live(entry[r]) /\ entry[r].age >= 1)
    /\ entry' = [entry EXCEPT ![r] = Removed(@)]
    /\ UNCHANGED <<setup, asking, haveWeeks, asks, deaths>>

\* bulkDeleteFailedJobHistory
DeletesFailed ==
    /\ \E chosen \in SUBSET {r \in Row : entry[r].status = "failed"} :
        /\ chosen # {}
        /\ entry' = [r \in Row |-> IF r \in chosen THEN Removed(entry[r]) ELSE entry[r]]
    /\ UNCHANGED <<setup, asking, haveWeeks, asks, deaths>>

-------------------------------------------------------------------------------
(* Automatic backtests *)

\* classifyBacktestReconciliation: the first weeks, then the historical ones.
Planned == IF "backtest" \notin haveWeeks THEN {"backtest"} ELSE {"historical"} \ haveWeeks

\* reconcileWeeklyStrongBacktests: it reads which weeks there are, then enqueues.
Reconciles(c) ==
    /\ asking[c].at = "idle" /\ asks < MaxAsks /\ setup # "no queue"
    /\ \E kind \in Planned \intersect Kind :
        asking' = [asking EXCEPT ![c] = [AtRest EXCEPT !.at = "lookup", !.kind = kind, !.auto = TRUE]]
    /\ asks' = asks + 1
    /\ UNCHANGED <<setup, entry, haveWeeks, deaths>>

\* getJob and getState: a waiting job has a priority, and its state is none of those named.
FindsJob(c) ==
    LET found == \E r \in Row : /\ SameId(entry[r], asking[c])
                                /\ entry[r].job \in {"active", "backoff"}
    IN  /\ asking[c].at = "lookup"
        /\ asking' = [asking EXCEPT ![c] = IF found THEN AtRest ELSE [@ EXCEPT !.at = "check"]]
        /\ UNCHANGED <<setup, entry, haveWeeks, asks, deaths>>

\* A live row of the kind, whoever asked for it, or an automatic failure within six hours.
FindsRow(c) ==
    LET found == \E r \in Row :
            /\ entry[r].kind = asking[c].kind
            /\ Live(entry[r]) \/ (entry[r].status = "failed" /\ entry[r].auto /\ entry[r].age < 3)
    IN  /\ asking[c].at = "check"
        /\ asking' = [asking EXCEPT ![c] = IF found THEN AtRest ELSE [@ EXCEPT !.at = "insert"]]
        /\ UNCHANGED <<setup, entry, haveWeeks, asks, deaths>>

\* enqueueCollectionBacktest
EnqueuesBacktest(c) == FindsJob(c) \/ FindsRow(c) \/ (asking[c].auto /\ Enqueues(c))

-------------------------------------------------------------------------------
(* The worker: runTrackedJob within runProviderOperationOnce *)

StartsJob(r) ==
    LET e == entry[r] IN
    /\ e.job = "waiting"
    /\ e.kind \in Once => \A q \in Row : ~(entry[q].kind = e.kind /\ entry[q].job = "active")
    /\ entry' = [entry EXCEPT ![r] = [Told(@, "running") EXCEPT !.job = "active", !.left = e.left - 1]]
    /\ UNCHANGED <<setup, asking, haveWeeks, asks, deaths>>

\* The operation is running already, for a row or by a schedule, or its exchange is retired:
\* the job completes and the row is not told.
SkipsJob(r) ==
    /\ entry[r].job = "waiting" /\ entry[r].kind \in Once
    /\ entry' = [entry EXCEPT ![r] = [@ EXCEPT !.job = "none", !.why = "skipped"]]
    /\ UNCHANGED <<setup, asking, haveWeeks, asks, deaths>>

JobDone(r) ==
    /\ entry[r].job = "active"
    /\ entry' = [entry EXCEPT ![r] = [Told(@, "completed") EXCEPT !.job = "none", !.ran = TRUE]]
    /\ haveWeeks' = haveWeeks \union WeeksOf(entry[r].kind)
    /\ UNCHANGED <<setup, asking, asks, deaths>>

\* Mutant: the row of a job that failed is not told.
AfterFailureSilently(e) == [e EXCEPT !.job = IF e.left > 0 THEN "backoff" ELSE "none"]

AfterFailure(e) == [Told(e, "failed") EXCEPT !.job = IF e.left > 0 THEN "backoff" ELSE "none"]

\* Weeks stored before a backtest fails stay.
JobFails(r) ==
    /\ entry[r].job = "active"
    /\ entry' = [entry EXCEPT ![r] = AfterFailure(@)]
    /\ \E kept \in {{}, WeeksOf(entry[r].kind)} : haveWeeks' = haveWeeks \union kept
    /\ UNCHANGED <<setup, asking, asks, deaths>>

RetryDue(r) ==
    /\ entry[r].job = "backoff"
    /\ entry' = [entry EXCEPT ![r].job = "waiting"]
    /\ UNCHANGED <<setup, asking, haveWeeks, asks, deaths>>

\* The worker dies, or ends itself at a job's runtime limit.  A job is recovered once.
RecoveredOnce(e) ==
    IF e.job # "active" THEN e
    ELSE IF e.stalled THEN [e EXCEPT !.job = "none", !.why = "lost"]
    ELSE [e EXCEPT !.job = "waiting", !.stalled = TRUE, !.left = @ + 1]

TrackedWorkerDies ==
    /\ deaths < MaxDeaths /\ \E r \in Row : entry[r].job = "active"
    /\ entry' = [r \in Row |-> RecoveredOnce(entry[r])]
    /\ deaths' = deaths + 1
    /\ UNCHANGED <<setup, asking, haveWeeks, asks>>

\* The process of a call dies after its insert.
CallerDies(c) ==
    /\ deaths < MaxDeaths /\ asking[c].entry # 0
    /\ entry' = [entry EXCEPT ![asking[c].entry].why = "died"]
    /\ asking' = [asking EXCEPT ![c] = AtRest]
    /\ deaths' = deaths + 1
    /\ UNCHANGED <<setup, haveWeeks, asks>>

\* The ages that some rule tells apart: of live rows, of backtests that completed, of automatic
\* ones that failed.
NextAge(e) ==
    CASE Live(e) /\ e.age < 2 -> e.age + 1
      [] e.status = "completed" /\ e.kind \in Backtests -> 1
      [] e.status = "failed" /\ e.auto -> 3
      [] OTHER -> e.age

\* Time passes for a row.  An attempt of a short operation is over within the hour.
RowAges(r) ==
    /\ NextAge(entry[r]) # entry[r].age
    /\ entry[r].job = "active" /\ entry[r].kind \notin Long => entry[r].age = 0
    /\ entry' = [entry EXCEPT ![r].age = NextAge(entry[r])]
    /\ UNCHANGED <<setup, asking, haveWeeks, asks, deaths>>

SyncCall(c) ==
    \/ TriggerInstrumentSync(c) \/ TriggerSectorClassificationSync(c) \/ TriggerIndexCandleBackfill(c)
    \/ TriggerPriceRefresh(c) \/ TriggerBacktestBackfill(c) \/ TriggerHistoricalRebuild(c)
    \/ Reconciles(c) \/ EnqueuesBacktest(c) \/ CallerDies(c)

SyncNext ==
    \/ \E c \in SyncCaller : SyncCall(c)
    \/ \E r \in Row : \/ Straggles(r) \/ DeletesEntry(r) \/ StartsJob(r) \/ SkipsJob(r) \/ JobDone(r)
                      \/ JobFails(r) \/ RetryDue(r) \/ RowAges(r)
    \/ ListsJobs \/ DeletesFailed \/ TrackedWorkerDies

SyncSpec == SyncInit /\ [][SyncNext]_syncVars

-------------------------------------------------------------------------------
(* Properties *)

HasCaller(r) == \E c \in SyncCaller : asking[c].entry = r

\* A row that is neither over nor worked for by a call or a job was left by one of these: its
\* job was skipped, was taken for another's, was lost with the worker, or the caller died.
\* Whatever else fails is told (worker.ts:109-165, reconciliation.ts:106-128).
LeftBehindFor(reasons) ==
    \A r \in Row : Live(entry[r]) /\ entry[r].job = "none" /\ ~HasCaller(r) => entry[r].why \in reasons

\* A row says completed only if its operation has run to its end.
CompletedHasRun == \A r \in Row : entry[r].status = "completed" => entry[r].ran

\* No kind of backtest runs twice for automatic rows, nor twice for manual ones
\* (queues.ts:108-114: a duplicate trigger collapses into the existing job).
SameOrigin(a, b) == a.kind \in Backtests /\ a.kind = b.kind /\ a.auto = b.auto
NoTwinRuns ==
    \A q, r \in Row : q # r /\ entry[q].job = "active" /\ entry[r].job = "active" =>
        ~SameOrigin(entry[q], entry[r])

\* A result is changed only by a job of its own that has begun, or by a call whose enqueue
\* timed out although the job arrived.
ResultsStand ==
    \A r \in Row : entry[r].status = "completed" /\ entry'[r].status \notin {"completed", "deleted"} =>
        \/ "active" \in {entry[r].job, entry'[r].job}
        \/ \E c \in SyncCaller : asking[c].entry = r

\* The table tells what became of every operation.
SyncRowsTellTheTruth ==
    /\ [](LeftBehindFor({"skipped", "twin", "lost", "died"}) /\ CompletedHasRun /\ NoTwinRuns)
    /\ [][ResultsStand]_syncVars
=============================================================================
