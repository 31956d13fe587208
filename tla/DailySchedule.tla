--------------------------- MODULE DailySchedule ---------------------------
(***************************************************************************)
(* One daily candle schedule of one exchange, day after day: the           *)
(* scheduler's registration (queues.ts, schedule-production-jobs.ts), the  *)
(* jobs it fires, the watchdog that recovers a run that did not start      *)
(* (daily-candle-schedule-watchdog.ts), the worker's run (worker.ts) with  *)
(* the claim of its ledger row and the marking of missed ones              *)
(* (market-data-job-ledger.ts).                                            *)
(*                                                                         *)
(* A day has four parts: before the scheduled time, the watchdog's fifteen *)
(* minutes of grace, its window of hours, and what is after it.  The steps *)
(* of a refresh or of the watchdog fall within one part.                   *)
(***************************************************************************)
EXTENDS Integers, Sequences

CONSTANTS
    LastRunDay,     \* bound: days
    MaxMishaps      \* bound: crashes, flushes of Redis, failures, changes of the universe

ASSUME ScheduleAssumption == LastRunDay \in Nat \ {0} /\ MaxMishaps \in Nat

RunDay == 1..LastRunDay
Parts == <<"before", "grace", "window", "after">>

VARIABLES
    clock,          \* [day, part]
    scheduler,      \* the day of its next iteration, 0 when it is not registered
    fired,          \* the scheduled job of each day
    recovery,       \* the recovery job of each day
    ledger,         \* the run's row of each day, with the kind of job it names
    work,           \* the operation the worker runs, one at a time
    watchdog, refresh,
    produced,       \* the exchange is in the production universe
    checked,        \* history: the watchdog saw to this day and nothing was lost since
    ran,            \* history: days of which a run was claimed
    mishaps

scheduleVars == <<clock, scheduler, fired, recovery, ledger, work, watchdog, refresh, produced,
                  checked, ran, mishaps>>

NoJobYet == [is |-> "none", stalled |-> FALSE]
NoRow == [is |-> "absent", job |-> "none"]
NoWork == [at |-> "rest", day |-> 0, job |-> "none", early |-> FALSE]

ScheduleInit ==
    /\ clock = [day |-> 1, part |-> 1]
    /\ scheduler = 0
    /\ fired = [d \in RunDay |-> NoJobYet] /\ recovery = [d \in RunDay |-> NoJobYet]
    /\ ledger = [d \in RunDay |-> NoRow]
    /\ work = NoWork /\ watchdog = "rest" /\ refresh = [at |-> "rest", saw |-> 0]
    /\ produced = TRUE /\ checked = FALSE /\ ran = {} /\ mishaps = 0

IsLiveJob(j) == j.is \in {"delayed", "waiting", "active"}

\* The first day whose time has not come.
NextDay == IF clock.part = 1 THEN clock.day ELSE clock.day + 1

Scheduled(jobs, d) == IF d \in RunDay THEN [jobs EXCEPT ![d] = [NoJobYet EXCEPT !.is = "delayed"]] ELSE jobs

Dropped(jobs, d) ==
    IF d \in RunDay /\ jobs[d].is \in {"delayed", "waiting"} THEN [jobs EXCEPT ![d] = NoJobYet] ELSE jobs

-------------------------------------------------------------------------------
(* refreshProductionMarketDataSchedules *)

\* Schedulers of other exchanges are removed with their next job; the rest are read.
RefreshReads ==
    /\ refresh.at = "rest"
    /\ IF produced THEN /\ refresh' = [at |-> "check", saw |-> scheduler]
                        /\ UNCHANGED <<scheduler, fired>>
       ELSE /\ scheduler # 0
            /\ scheduler' = 0 /\ fired' = Dropped(fired, scheduler)
            /\ UNCHANGED refresh
    /\ UNCHANGED <<clock, recovery, ledger, work, watchdog, produced, checked, ran, mishaps>>

\* shouldUpsertScheduler: a live next job is left alone, overdue or not.
ShouldUpsert(saw) == saw \notin RunDay \/ ~IsLiveJob(fired[saw])

RefreshEndsIt ==
    /\ refresh.at = "check"
    /\ IF ShouldUpsert(refresh.saw)
       THEN /\ fired' = Scheduled(Dropped(fired, scheduler), NextDay)
            /\ scheduler' = NextDay
       ELSE UNCHANGED <<fired, scheduler>>
    /\ refresh' = [at |-> "rest", saw |-> 0]
    /\ UNCHANGED <<clock, recovery, ledger, work, watchdog, produced, checked, ran, mishaps>>

-------------------------------------------------------------------------------
(* recoverDueDailyCandleSchedules *)

Unstarted == {"absent", "pending", "queued"}

\* Mutant: any row will do.
StartedIfThere(status) == status # "absent"

Started(status) == status \notin Unstarted

\* The row is read, then the jobs one by one; any of them that is live ends the check.
WatchdogReads ==
    /\ watchdog = "rest" /\ Parts[clock.part] = "window" /\ produced
    /\ IF Started(ledger[clock.day].is) THEN checked' = TRUE /\ UNCHANGED watchdog
       ELSE watchdog' = "scheduled?" /\ UNCHANGED checked
    /\ UNCHANGED <<clock, scheduler, fired, recovery, ledger, work, refresh, produced, ran, mishaps>>

WatchdogLooks(at, jobs, next) ==
    /\ watchdog = at
    /\ IF IsLiveJob(jobs[clock.day]) THEN watchdog' = "rest" /\ checked' = TRUE
       ELSE watchdog' = next /\ UNCHANGED checked
    /\ UNCHANGED <<clock, scheduler, fired, recovery, ledger, work, refresh, produced, ran, mishaps>>

\* An identity in use makes the add a no-op; a recovery job has one attempt and is removed.
WatchdogAdds ==
    /\ watchdog = "add" /\ watchdog' = "rest"
    /\ \/ /\ recovery' = IF IsLiveJob(recovery[clock.day]) THEN recovery
                         ELSE [recovery EXCEPT ![clock.day] = [NoJobYet EXCEPT !.is = "waiting"]]
          /\ checked' = TRUE /\ UNCHANGED mishaps
       \/ /\ mishaps < MaxMishaps /\ mishaps' = mishaps + 1
          /\ UNCHANGED <<recovery, checked>>
    /\ UNCHANGED <<clock, scheduler, fired, ledger, work, refresh, produced, ran>>

-------------------------------------------------------------------------------
(* The worker *)

\* A scheduled job that begins puts the next iteration in the queue.
Iterated(d) == [Scheduled(fired, NextDay) EXCEPT ![d].is = "active"]

\* getScheduledDailyCandleRun: a scheduled job a whole day late.
Stale(d) == clock.day > d + 1 \/ (clock.day = d + 1 /\ clock.part > 1)

\* Work that begins before the scheduled time may last beyond it.
Begun(d, job) == [at |-> "insert", day |-> d, job |-> job, early |-> clock.part = 1]

\* It is skipped if stale, if its exchange is gone, or if a run of this schedule is going on.
TakesScheduled(d) ==
    LET skipped == Stale(d) \/ ~produced \/ work.at # "rest"
        next == IF scheduler = d THEN Iterated(d) ELSE [fired EXCEPT ![d].is = "active"]
    IN  /\ fired[d].is = "waiting"
        /\ fired' = IF skipped THEN [next EXCEPT ![d].is = "completed"] ELSE next
        /\ scheduler' = IF scheduler = d THEN NextDay ELSE scheduler
        /\ work' = IF skipped THEN work ELSE Begun(d, "scheduled")
        /\ checked' = (checked /\ ~skipped)
        /\ UNCHANGED <<clock, recovery, ledger, watchdog, refresh, produced, ran, mishaps>>

TakesRecovery(d) ==
    LET skipped == ~produced \/ work.at # "rest"
    IN  /\ recovery[d].is = "waiting"
        /\ recovery' = [recovery EXCEPT ![d] = IF skipped THEN NoJobYet ELSE [@ EXCEPT !.is = "active"]]
        /\ work' = IF skipped THEN work ELSE Begun(d, "recovery")
        /\ checked' = (checked /\ ~skipped)
        /\ UNCHANGED <<clock, scheduler, fired, ledger, watchdog, refresh, produced, ran, mishaps>>

\* The job of the work at hand ends: a scheduled one is kept, a recovery is removed.
JobEndsAs(is) ==
    /\ fired' = IF work.job = "scheduled" /\ fired[work.day].is = "active" THEN [fired EXCEPT ![work.day].is = is]
                ELSE fired
    /\ recovery' = IF work.job = "recovery" /\ recovery[work.day].is = "active"
                   THEN [recovery EXCEPT ![work.day] = NoJobYet] ELSE recovery
    /\ work' = NoWork

\* claimMarketDataLedgerRun: the expected row is inserted unless it is there,
ClaimInserts ==
    LET d == work.day IN
    /\ work.at = "insert" /\ work' = [work EXCEPT !.at = "read"]
    /\ ledger' = IF ledger[d].is = "absent" THEN [ledger EXCEPT ![d] = [NoRow EXCEPT !.is = "pending"]] ELSE ledger
    /\ UNCHANGED <<clock, scheduler, fired, recovery, watchdog, refresh, produced, checked, ran, mishaps>>

NotClaimable == {"missed", "completed"}

\* its status is read, and a terminal one ends the job,
ClaimReadsRow ==
    /\ work.at = "read"
    /\ IF ledger[work.day].is \in NotClaimable THEN JobEndsAs("completed")
       ELSE work' = [work EXCEPT !.at = "update"] /\ UNCHANGED <<fired, recovery>>
    /\ UNCHANGED <<clock, scheduler, ledger, watchdog, refresh, produced, checked, ran, mishaps>>

\* and it is set running whatever it has become.
ClaimUpdates ==
    /\ work.at = "update" /\ work' = [work EXCEPT !.at = "sync"]
    /\ ledger' = [ledger EXCEPT ![work.day] = [is |-> "running", job |-> work.job]]
    /\ ran' = ran \union {work.day}
    /\ UNCHANGED <<clock, scheduler, fired, recovery, watchdog, refresh, produced, checked, mishaps>>

\* finishBackgroundJobRunFromSummary, then finishLedgerCoverage.
RunFinishes ==
    /\ work.at = "sync" /\ work' = [work EXCEPT !.at = "coverage"]
    /\ \E is \in {"completed", "partial"} : ledger' = [ledger EXCEPT ![work.day].is = is]
    /\ UNCHANGED <<clock, scheduler, fired, recovery, watchdog, refresh, produced, checked, ran, mishaps>>

CoverageFinishes ==
    /\ work.at = "coverage"
    /\ \E is \in {"completed", "partial"} : ledger' = [ledger EXCEPT ![work.day].is = is]
    /\ JobEndsAs("completed")
    /\ UNCHANGED <<clock, scheduler, watchdog, refresh, produced, checked, ran, mishaps>>

\* failBackgroundJobRun
RunThrows ==
    /\ work.at \in {"sync", "coverage"} /\ mishaps < MaxMishaps /\ mishaps' = mishaps + 1
    /\ ledger' = [ledger EXCEPT ![work.day].is = "failed"]
    /\ JobEndsAs("failed")
    /\ UNCHANGED <<clock, scheduler, watchdog, refresh, produced, checked, ran>>

-------------------------------------------------------------------------------
(* The ledger's reconciliation and the admin's list *)

Missable == {"pending", "queued"}

\* reconcileMarketDataJobLedger, twelve hours after the scheduled time.
MarksMissed ==
    LET late == {d \in RunDay : d < clock.day /\ ledger[d].is \in Missable}
    IN  /\ late # {}
        /\ ledger' = [d \in RunDay |-> IF d \in late THEN [ledger[d] EXCEPT !.is = "missed"] ELSE ledger[d]]
        /\ UNCHANGED <<clock, scheduler, fired, recovery, work, watchdog, refresh, produced, checked, ran, mishaps>>

JobOf(row, d) == IF row.job = "scheduled" THEN fired[d] ELSE recovery[d]

\* listRecentBackgroundJobRuns: a job that is missing or failed.
Orphaned(d) == ledger[d].is \in {"queued", "running"} /\ JobOf(ledger[d], d).is \in {"none", "failed"}

ListsOrphan(d) ==
    /\ Orphaned(d)
    /\ ledger' = [ledger EXCEPT ![d].is = "failed"]
    /\ UNCHANGED <<clock, scheduler, fired, recovery, work, watchdog, refresh, produced, checked, ran, mishaps>>

-------------------------------------------------------------------------------
(* Time and mishaps *)

Due(d) == IF fired[d].is = "delayed" THEN [fired EXCEPT ![d].is = "waiting"] ELSE fired

\* No run goes on for more than eight hours, and half a day is before the scheduled time.
TimePasses ==
    /\ clock.part = 1 => work.at = "rest" \/ work.early
    /\ work' = [work EXCEPT !.early = @ /\ clock.part # 1]
    /\ watchdog = "rest" /\ refresh.at = "rest"
    /\ \/ /\ clock.part < Len(Parts)
          /\ clock' = [clock EXCEPT !.part = @ + 1]
          /\ fired' = IF clock.part = 1 THEN Due(clock.day) ELSE fired
          /\ UNCHANGED checked
       \/ /\ clock.part = Len(Parts) /\ clock.day < LastRunDay
          /\ clock' = [day |-> clock.day + 1, part |-> 1]
          /\ checked' = FALSE /\ UNCHANGED fired
    /\ UNCHANGED <<scheduler, recovery, ledger, watchdog, refresh, produced, ran, mishaps>>

\* A stalled job is recovered once, then it fails.
AfterCrash(j) ==
    IF j.is # "active" THEN j
    ELSE IF j.stalled THEN [j EXCEPT !.is = "failed"] ELSE [is |-> "waiting", stalled |-> TRUE]

ScheduleWorkerDies ==
    /\ mishaps < MaxMishaps /\ mishaps' = mishaps + 1
    /\ fired' = [d \in RunDay |-> AfterCrash(fired[d])]
    /\ recovery' = [d \in RunDay |-> IF AfterCrash(recovery[d]).is = "failed" THEN NoJobYet
                                     ELSE AfterCrash(recovery[d])]
    /\ work' = NoWork /\ watchdog' = "rest" /\ refresh' = [at |-> "rest", saw |-> 0]
    /\ checked' = FALSE
    /\ UNCHANGED <<clock, scheduler, ledger, produced, ran>>

\* The queue is cleared under a run that goes on.
RedisFlushed ==
    /\ mishaps < MaxMishaps /\ mishaps' = mishaps + 1
    /\ fired' = [d \in RunDay |-> NoJobYet] /\ recovery' = [d \in RunDay |-> NoJobYet]
    /\ scheduler' = 0 /\ checked' = FALSE
    /\ UNCHANGED <<clock, ledger, work, watchdog, refresh, produced, ran>>

UniverseChanges ==
    /\ mishaps < MaxMishaps /\ mishaps' = mishaps + 1
    /\ produced' = ~produced /\ checked' = FALSE
    /\ UNCHANGED <<clock, scheduler, fired, recovery, ledger, work, watchdog, refresh, ran>>

ScheduleNext ==
    \/ RefreshReads \/ RefreshEndsIt
    \/ WatchdogReads \/ WatchdogAdds
    \/ WatchdogLooks("scheduled?", fired, "recovery?") \/ WatchdogLooks("recovery?", recovery, "add")
    \/ \E d \in RunDay : TakesScheduled(d) \/ TakesRecovery(d) \/ ListsOrphan(d)
    \/ ClaimInserts \/ ClaimReadsRow \/ ClaimUpdates \/ RunFinishes \/ CoverageFinishes \/ RunThrows
    \/ MarksMissed \/ TimePasses \/ ScheduleWorkerDies \/ RedisFlushed \/ UniverseChanges

ScheduleSpec == ScheduleInit /\ [][ScheduleNext]_scheduleVars

-------------------------------------------------------------------------------
(* Properties *)

\* When the window closes on a day the watchdog saw to, and nothing was lost since, its run
\* has begun or one of its jobs is on the way (watchdog.ts:49-67).
DueRunsHappen ==
    Parts[clock.part] = "after" /\ produced /\ checked /\ ledger[clock.day].is \in Unstarted =>
        IsLiveJob(fired[clock.day]) \/ IsLiveJob(recovery[clock.day]) \/ work.day = clock.day

\* A run that is called missed was never claimed (ledger.ts:282-293).
MissedNeverRan == \A d \in RunDay : ledger[d].is = "missed" => d \notin ran

\* A row that says running is being worked for, or its job is on the way, or the list will find
\* it; but for a scheduled job that was recovered after a crash and then skipped.
RunningRowsAreFound ==
    \A d \in RunDay : ledger[d].is = "running" =>
        \/ work.day = d \/ IsLiveJob(JobOf(ledger[d], d)) \/ Orphaned(d)
        \/ ledger[d].job = "scheduled" /\ fired[d] = [is |-> "completed", stalled |-> TRUE]

\* Once its work is over, a completed run is not run again (ledger.ts:505-507).
CompletedIsNotRunAgain ==
    \A d \in RunDay : ledger[d].is = "completed" /\ work.day # d => ledger'[d].is = "completed"

\* Every scheduled day is run, once, and its row says so.
DaysAreRun ==
    /\ [](DueRunsHappen /\ MissedNeverRan /\ RunningRowsAreFound)
    /\ [][CompletedIsNotRunAgain]_scheduleVars
=============================================================================
