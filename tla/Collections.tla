----------------------------- MODULE Collections -----------------------------
(***************************************************************************)
(* One market collection: the admin requests that import, correct, prepare *)
(* and delete it (market-collections.service.ts,                           *)
(* market-collection-versions.service.ts,                                  *)
(* market-collection-deletion.service.ts), the queued preparation of its   *)
(* current membership (market-collection-preparation.service.ts) and the   *)
(* three generators of its weekly backtest                                 *)
(* (weekly-strong-backtest.generation.ts): backfill, historical rebuild    *)
(* and the incremental sync that runs beside the worker.                   *)
(*                                                                         *)
(* A transaction is one step; so is every read or write outside one that   *)
(* another process may get in front of.  A backtest run is abstracted to   *)
(* the universe of instruments it was evaluated on.                        *)
(***************************************************************************)
EXTENDS Naturals, Sequences, FiniteSets, FiniteSetsExt

CONSTANTS
    Instrument,
    Short,          \* instruments without sufficient weekly-strong history
    Weeks,          \* 1 .. Weeks are the completed weeks, and the effective dates
    Admin,          \* admin requests that may be in progress at a time
    Slot,           \* jobs the market-data worker runs at a time
    MaxVersions,    \* bound: membership versions
    MaxCalls,       \* bound: corrections, incremental syncs and requests that queue a job
    MaxFailures,    \* bound: database errors met by a job
    MaxFaults,      \* bound: crashes, lost requests and refusals of the queue
    NoRun           \* a week without a run

ASSUME CollectionAssumption ==
    /\ Short \subseteq Instrument /\ Instrument # {}
    /\ Weeks \in Nat \ {0} /\ MaxVersions \in Nat \ {0}
    /\ {MaxCalls, MaxFailures, MaxFaults} \subseteq Nat

VARIABLES
    exists,     \* the market_collections row is there
    active,     \* active market_collection_members
    versions,   \* market_collection_versions by id: effectiveFrom and members
    latest,     \* latestMembershipVersionId
    status,     \* preparationStatus
    counted,    \* members the recorded availability counts were taken of
    current,    \* current_membership runs: week -> universe
    historical, \* historical_membership runs: week -> version and universe
    queue,      \* waiting jobs, in order
    slot,       \* the job each worker slot runs and where it stands
    admin,      \* where each admin request stands
    inc,        \* where syncWeeklyStrongBacktestIncremental stands
    overtaken,  \* history: the windows in which an import or correction committed
    calls, failures, faults

rows   == <<exists, active, versions, latest>>
prep   == <<status, counted>>
runs   == <<current, historical>>
bounds == <<calls, failures, faults>>
vars   == <<rows, prep, runs, queue, slot, admin, inc, overtaken, bounds>>

Week == 1 .. Weeks
VersionId == 1 .. MaxVersions
Prepare(v) == [kind |-> "prepare", version |-> v]
Backfill == [kind |-> "backfill", version |-> 0]
Rebuild == [kind |-> "rebuild", version |-> 0]
NoJob == [kind |-> "none", version |-> 0]
Job == {Prepare(v) : v \in VersionId} \union {Backfill, Rebuild}

Free == [at |-> "idle", job |-> NoJob, members |-> {}, universe |-> {}, todo |-> {}, plan |-> <<>>]
Waiting == [at |-> "idle", from |-> 0, file |-> {}, add |-> {}, drop |-> {}, version |-> 0]
Quiet == [at |-> "idle", universe |-> {}, version |-> 0]

\* getCollectionMembershipAt, selectApplicableVersion: the version with the
\* latest effectiveFrom not after the date; 0 when there is none.
Applicable(vs, date) ==
    LET before == {v \in DOMAIN vs : vs[v].from <= date}
    IN  IF before = {} THEN 0
        ELSE CHOOSE v \in before : \A u \in before : vs[u].from <= vs[v].from

\* A collection imported once and prepared.
Init ==
    /\ exists = TRUE
    /\ \E file \in (SUBSET Instrument) \ {{}}, from \in Week :
         /\ active = file
         /\ versions = <<[from |-> from, members |-> file]>>
         /\ counted = file
         /\ current = [w \in Week |-> file]
         /\ historical = [w \in Week |-> IF w < from THEN NoRun ELSE [version |-> 1, universe |-> file]]
         /\ status = IF file \intersect Short = {} THEN "ready" ELSE "partial"
    /\ latest = 1
    /\ queue = <<>>
    /\ slot = [s \in Slot |-> Free]
    /\ admin = [a \in Admin |-> Waiting]
    /\ inc = Quiet
    /\ overtaken = {}
    /\ calls = 0 /\ failures = 0 /\ faults = 0

-------------------------------------------------------------------------------
(* The windows in which another transaction invalidates what was read *)

Generating == (\E s \in Slot : slot[s].at = "weeks") \/ inc.at \in {"look", "put"}
Rebuilding == (\E s \in Slot : slot[s].at \in {"group", "history"}) \/ inc.at \in {"lookBack", "putBack"}
Concluding == \E s \in Slot : slot[s].at \in {"final", "failed"}

Overtakes(windows) == overtaken' = overtaken \union windows

-------------------------------------------------------------------------------
(* Admin requests *)

\* classifyCollectionImport compares the file with the members of the moment,
\* before the transaction begins.
ImportClassify(a, file, from) ==
    /\ admin[a].at = "idle" /\ exists /\ Len(versions) < MaxVersions
    /\ admin' = [admin EXCEPT ![a] = [at |-> "commit", from |-> from, file |-> file,
                                      add |-> file \ active, drop |-> active \ file, version |-> 0]]
    /\ UNCHANGED <<rows, prep, runs, queue, slot, inc, overtaken, bounds>>

\* Mutant: the week in which the version takes effect is left out.
WindowLate(from) ==
    {w \in Week : w > from /\ \A v \in DOMAIN versions : versions[v].from > from => w < versions[v].from}

\* The historical weeks the new version is authoritative for: up to the next one.
Window(from) ==
    {w \in Week : w >= from /\ \A v \in DOMAIN versions : versions[v].from > from => w < versions[v].from}

\* Mutant: only additions count as a change of the active set.
ImportCommitsAdditions(a) ==
    LET r == admin[a]
        changed == r.add # {}
    IN  /\ active' = (active \union r.add) \ r.drop
        /\ versions' = Append(versions, [from |-> r.from, members |-> r.file])
        /\ latest' = Len(versions) + 1
        /\ status' = "pending" /\ counted' = {}
        /\ current' = IF changed THEN [w \in Week |-> NoRun] ELSE current
        /\ historical' = [w \in Week |-> IF w \in Window(r.from) THEN NoRun ELSE historical[w]]
        /\ admin' = [admin EXCEPT ![a] = [Waiting EXCEPT !.at = "trigger", !.version = Len(versions) + 1]]
        /\ Overtakes({})

\* The transaction of importCollectionCsv.
ImportCommits(a) ==
    LET r == admin[a]
        changed == r.add \union r.drop # {}
    IN  /\ active' = (active \union r.add) \ r.drop
        /\ versions' = Append(versions, [from |-> r.from, members |-> r.file])
        /\ latest' = Len(versions) + 1
        /\ status' = "pending" /\ counted' = {}
        /\ current' = IF changed THEN [w \in Week |-> NoRun] ELSE current
        /\ historical' = [w \in Week |-> IF w \in Window(r.from) THEN NoRun ELSE historical[w]]
        /\ admin' = [admin EXCEPT ![a] = [Waiting EXCEPT !.at = "trigger", !.version = Len(versions) + 1]]
        /\ Overtakes((IF changed /\ Generating THEN {"backfill"} ELSE {})
                     \union (IF Rebuilding THEN {"rebuild"} ELSE {})
                     \union (IF Concluding THEN {"conclusion"} ELSE {}))

Import(a) ==
    /\ admin[a].at = "commit"
    /\ exists /\ Len(versions) < MaxVersions
    /\ \A v \in DOMAIN versions : versions[v].from # admin[a].from
    /\ ImportCommits(a)
    /\ UNCHANGED <<exists, queue, slot, inc, bounds>>

\* A version of that date is there (conflict), or the collection is gone.
ImportRefused(a) ==
    /\ admin[a].at = "commit"
    /\ ~exists \/ \E v \in DOMAIN versions : versions[v].from = admin[a].from
    /\ admin' = [admin EXCEPT ![a] = Waiting]
    /\ UNCHANGED <<rows, prep, runs, queue, slot, inc, overtaken, bounds>>

\* Mutant: the existence of the collection is not checked.
RetryUnchecked(a) ==
    /\ admin[a].at = "idle" /\ calls < MaxCalls
    /\ calls' = calls + 1
    /\ admin' = [admin EXCEPT ![a] = [Waiting EXCEPT !.at = "trigger", !.version = latest]]
    /\ UNCHANGED <<rows, prep, runs, queue, slot, inc, overtaken, failures, faults>>

\* POST prepare: the id of the latest version, read before the job is queued.
Retry(a) ==
    /\ admin[a].at = "idle" /\ exists /\ calls < MaxCalls
    /\ calls' = calls + 1
    /\ admin' = [admin EXCEPT ![a] = [Waiting EXCEPT !.at = "trigger", !.version = latest]]
    /\ UNCHANGED <<rows, prep, runs, queue, slot, inc, overtaken, failures, faults>>

\* triggerPendingCollectionPreparations, when a process boots.
Sweep(a) ==
    /\ admin[a].at = "idle" /\ exists /\ status = "pending" /\ active # {} /\ calls < MaxCalls
    /\ calls' = calls + 1
    /\ admin' = [admin EXCEPT ![a] = [Waiting EXCEPT !.at = "trigger", !.version = latest]]
    /\ UNCHANGED <<rows, prep, runs, queue, slot, inc, overtaken, failures, faults>>

\* Mutant: the job id does not name the version.
SameCollection(j) ==
    \/ \E i \in DOMAIN queue : queue[i].kind = j.kind
    \/ \E s \in Slot : slot[s].job.kind = j.kind

\* The job id of a preparation names the collection and the version; a job that
\* waits or runs under the same id absorbs the new one.
Known(j) == (\E i \in DOMAIN queue : queue[i] = j) \/ (\E s \in Slot : slot[s].job = j)

Queued(j) == queue' = IF Known(j) THEN queue ELSE Append(queue, j)

\* triggerCollectionPreparation.
Trigger(a) ==
    /\ admin[a].at = "trigger"
    /\ Queued(Prepare(admin[a].version))
    /\ admin' = [admin EXCEPT ![a] = Waiting]
    /\ UNCHANGED <<rows, prep, runs, slot, inc, overtaken, bounds>>

\* The add fails, or times out after it reached the queue.
TriggerRejected(a) ==
    /\ admin[a].at = "trigger" /\ faults < MaxFaults
    /\ faults' = faults + 1
    /\ UNCHANGED queue \/ Queued(Prepare(admin[a].version))
    /\ admin' = [admin EXCEPT ![a].at = "refuse"]
    /\ UNCHANGED <<rows, prep, runs, slot, inc, overtaken, calls, failures>>

\* markCollectionPreparationQueueUnavailable.
MarkQueueUnavailable(a) ==
    /\ admin[a].at = "refuse"
    /\ status' = IF exists THEN "failed" ELSE status
    /\ admin' = [admin EXCEPT ![a] = Waiting]
    /\ UNCHANGED <<rows, counted, runs, queue, slot, inc, overtaken, bounds>>

\* The API process dies before the job is queued, or has no queue.
TriggerLost(a) ==
    /\ admin[a].at = "trigger" /\ faults < MaxFaults
    /\ faults' = faults + 1
    /\ admin' = [admin EXCEPT ![a] = Waiting]
    /\ UNCHANGED <<rows, prep, runs, queue, slot, inc, overtaken, calls, failures>>

\* triggerWeeklyStrongBacktestBackfill and ...HistoricalRebuild.
RequestBacktest(j) ==
    /\ exists /\ calls < MaxCalls /\ ~Known(j)
    /\ calls' = calls + 1
    /\ Queued(j)
    /\ UNCHANGED <<rows, prep, runs, slot, admin, inc, overtaken, failures, faults>>

Without(v) ==
    [w \in Week |-> IF historical[w] # NoRun /\ historical[w].version = v THEN NoRun ELSE historical[w]]

\* replaceCollectionVersionMembers: one transaction.
Replace(v, file) ==
    /\ exists /\ calls < MaxCalls /\ file # versions[v].members
    /\ calls' = calls + 1
    /\ versions' = [versions EXCEPT ![v].members = file]
    /\ historical' = Without(v)
    /\ Overtakes(IF Rebuilding THEN {"rebuild"} ELSE {})
    /\ UNCHANGED <<exists, active, latest, prep, current, queue, slot, admin, inc,
                   failures, faults>>

\* removeQueuedCollectionPrepareJobs: every waiting preparation is removed on its
\* own, and a removal that fails goes unnoticed; the others keep their order.
SomeLeftBehind ==
    \E kept \in UNION {[1 .. n -> DOMAIN queue] : n \in 0 .. Len(queue)} :
        /\ \A i, k \in DOMAIN kept : i < k => kept[i] < kept[k]
        /\ \A i \in DOMAIN queue : queue[i].kind # "prepare" => \E k \in DOMAIN kept : kept[k] = i
        /\ queue' = [k \in DOMAIN kept |-> queue[kept[k]]]

\* deleteMarketCollection: everything the row owns cascades, and its waiting
\* preparations are removed.
Delete ==
    /\ exists
    /\ exists' = FALSE /\ active' = {} /\ versions' = <<>> /\ latest' = 0
    /\ status' = "gone" /\ counted' = {}
    /\ current' = [w \in Week |-> NoRun] /\ historical' = [w \in Week |-> NoRun]
    /\ SomeLeftBehind
    /\ UNCHANGED <<slot, admin, inc, overtaken, bounds>>

-------------------------------------------------------------------------------
(* The worker: prepareCollectionData and the two queued generators *)

Goes(s, where) == slot' = [slot EXCEPT ![s].at = where]
Ends(s) == slot' = [slot EXCEPT ![s] = Free]

\* Where a thrown error leads: a preparation catches it once it has begun to
\* write, and goes on when only the historical rebuild failed; an error in its
\* catch block ends the job, as any error ends a job of another kind.
Throws(s) ==
    IF slot[s].job.kind # "prepare" \/ slot[s].at \in {"open", "failing", "failed"} THEN Ends(s)
    ELSE Goes(s, IF slot[s].at \in {"resolve", "group", "history"} THEN "available" ELSE "failing")

Take(s) ==
    /\ slot[s].at = "idle" /\ queue # <<>>
    /\ slot' = [slot EXCEPT ![s] = [Free EXCEPT !.job = Head(queue),
                                       !.at = CASE Head(queue).kind = "prepare" -> "open"
                                                [] Head(queue).kind = "backfill" -> "generate"
                                                [] OTHER -> "resolve"]]
    /\ queue' = Tail(queue)
    /\ UNCHANGED <<rows, prep, runs, admin, inc, overtaken, bounds>>

\* The collection and its members are read; a job of a deleted one does nothing.
Open(s) ==
    /\ slot[s].at = "open"
    /\ IF exists THEN slot' = [slot EXCEPT ![s].at = "sync", ![s].members = active]
       ELSE Ends(s)
    /\ UNCHANGED <<rows, prep, runs, queue, admin, inc, overtaken, bounds>>

SetStatus(value) == status' = IF exists THEN value ELSE status

MarkSyncing(s) ==
    /\ slot[s].at = "sync"
    /\ SetStatus("syncing_candles")
    /\ Goes(s, "cover")
    /\ UNCHANGED <<rows, counted, runs, queue, admin, inc, overtaken, bounds>>

\* Coverage and candle backfill, then the second status write.
MarkBuilding(s) ==
    /\ slot[s].at = "cover"
    /\ SetStatus("building_backtest")
    /\ Goes(s, "generate")
    /\ UNCHANGED <<rows, counted, runs, queue, admin, inc, overtaken, bounds>>

\* runWeeklyStrongBacktestBackfill reads the members of now; without any there
\* is no week to persist.
Generate(s) ==
    /\ slot[s].at = "generate"
    /\ IF ~exists THEN Throws(s)
       ELSE slot' = [slot EXCEPT ![s].at = "weeks", ![s].universe = active,
                                 ![s].todo = IF active = {} THEN {} ELSE Week]
    /\ UNCHANGED <<rows, prep, runs, queue, admin, inc, overtaken, bounds>>

\* persistWeeklyStrongBacktestWeek, current_membership: an upsert per week.
PersistWeek(s) ==
    /\ slot[s].at = "weeks" /\ slot[s].todo # {}
    /\ LET w == Min(slot[s].todo)
       IN  IF exists
           THEN /\ current' = [current EXCEPT ![w] = slot[s].universe]
                /\ slot' = [slot EXCEPT ![s].todo = @ \ {w}]
           ELSE Throws(s) /\ UNCHANGED current
    /\ UNCHANGED <<rows, prep, historical, queue, admin, inc, overtaken, bounds>>

\* hasExistingCurrentMembershipBacktest decides whether the rebuild is tried.
WeeksDone(s) ==
    /\ slot[s].at = "weeks" /\ slot[s].todo = {}
    /\ IF slot[s].job.kind = "backfill" THEN Ends(s)
       ELSE Goes(s, IF \E w \in Week : current[w] # NoRun THEN "resolve" ELSE "available")
    /\ UNCHANGED <<rows, prep, runs, queue, admin, inc, overtaken, bounds>>

\* runWeeklyStrongBacktestHistoricalRebuild: the weeks of the current runs and
\* the version each date resolves to.
Resolve(s) ==
    /\ slot[s].at = "resolve"
    /\ LET plan == [w \in Week |-> Applicable(versions, w)]
           todo == {w \in Week : current[w] # NoRun}
       IN  IF todo = {} THEN Throws(s)
           ELSE slot' = [slot EXCEPT ![s].at = "group", ![s].plan = plan,
                                     ![s].todo = {w \in todo : plan[w] # 0}]
    /\ UNCHANGED <<rows, prep, runs, queue, admin, inc, overtaken, bounds>>

\* The weeks of the version that is next in the plan.
Group(s) == {w \in slot[s].todo : slot[s].plan[w] = slot[s].plan[Min(slot[s].todo)]}

\* The members of that version are read now; an empty one is passed over.
ReadGroup(s) ==
    /\ slot[s].at = "group" /\ slot[s].todo # {}
    /\ LET v == slot[s].plan[Min(slot[s].todo)]
       IN  IF v \notin DOMAIN versions \/ versions[v].members = {}
           THEN slot' = [slot EXCEPT ![s].todo = @ \ Group(s)]
           ELSE slot' = [slot EXCEPT ![s].at = "history", ![s].universe = versions[v].members]
    /\ UNCHANGED <<rows, prep, runs, queue, admin, inc, overtaken, bounds>>

\* persistWeeklyStrongBacktestWeek, historical_membership.
PersistHistory(s) ==
    /\ slot[s].at = "history"
    /\ LET w == Min(slot[s].todo)
           v == slot[s].plan[w]
       IN  IF exists
           THEN /\ historical' = [historical EXCEPT ![w] = [version |-> v, universe |-> slot[s].universe]]
                /\ slot' = [slot EXCEPT ![s].todo = @ \ {w},
                                        ![s].at = IF Group(s) = {w} THEN "group" ELSE "history"]
           ELSE Throws(s) /\ UNCHANGED historical
    /\ UNCHANGED <<rows, prep, current, queue, admin, inc, overtaken, bounds>>

RebuildDone(s) ==
    /\ slot[s].at = "group" /\ slot[s].todo = {}
    /\ IF slot[s].job.kind = "rebuild" THEN Ends(s) ELSE Goes(s, "available")
    /\ UNCHANGED <<rows, prep, runs, queue, admin, inc, overtaken, bounds>>

\* The next query of the job fails.
Fails(s) ==
    /\ slot[s].at # "idle" /\ failures < MaxFailures
    /\ failures' = failures + 1
    /\ Throws(s)
    /\ UNCHANGED <<rows, prep, runs, queue, admin, inc, overtaken, calls, faults>>

\* Mutant: only the deletion of the collection is noticed.
Gone(v) == ~exists

\* isCurrentMembershipVersionStale; of a deleted collection too.
Stale(v) == ~exists \/ latest # v

\* The availability counts of the members read at the start, then the check.
CheckVersion(s) ==
    /\ slot[s].at = "available"
    /\ IF Stale(slot[s].job.version) THEN Ends(s) ELSE Goes(s, "final")
    /\ UNCHANGED <<rows, prep, runs, queue, admin, inc, overtaken, bounds>>

Conclude(s) ==
    /\ slot[s].at = "final"
    /\ SetStatus(IF slot[s].members \intersect Short = {} THEN "ready" ELSE "partial")
    /\ counted' = IF exists THEN slot[s].members ELSE counted
    /\ Ends(s)
    /\ UNCHANGED <<rows, runs, queue, admin, inc, overtaken, bounds>>

CheckVersionAfterError(s) ==
    /\ slot[s].at = "failing"
    /\ IF Stale(slot[s].job.version) THEN Ends(s) ELSE Goes(s, "failed")
    /\ UNCHANGED <<rows, prep, runs, queue, admin, inc, overtaken, bounds>>

ConcludeFailed(s) ==
    /\ slot[s].at = "failed"
    /\ SetStatus("failed")
    /\ Ends(s)
    /\ UNCHANGED <<rows, counted, runs, queue, admin, inc, overtaken, bounds>>

\* The worker dies; the stalled job is run again, before or after those waiting.
Crash(s) ==
    /\ slot[s].at # "idle" /\ faults < MaxFaults
    /\ faults' = faults + 1
    /\ queue' \in {<<slot[s].job>> \o queue, Append(queue, slot[s].job)}
    /\ Ends(s)
    /\ UNCHANGED <<rows, prep, runs, admin, inc, overtaken, calls, failures>>

-------------------------------------------------------------------------------
(* syncWeeklyStrongBacktestIncremental: the last week, if it has no run *)

LastWeek == Weeks

IncEnds == inc' = Quiet

\* A collection with a run of either mode and with members.
IncOpen ==
    /\ inc.at = "idle" /\ calls < MaxCalls
    /\ \E w \in Week : current[w] # NoRun \/ historical[w] # NoRun
    /\ active # {}
    /\ calls' = calls + 1
    /\ inc' = [Quiet EXCEPT !.at = "look", !.universe = active]
    /\ UNCHANGED <<rows, prep, runs, queue, slot, admin, overtaken, failures, faults>>

IncLook ==
    /\ inc.at = "look"
    /\ inc' = [inc EXCEPT !.at = IF current[LastWeek] = NoRun THEN "put" ELSE "membership"]
    /\ UNCHANGED <<rows, prep, runs, queue, slot, admin, overtaken, bounds>>

IncPut ==
    /\ inc.at = "put"
    /\ IF exists
       THEN /\ current' = [current EXCEPT ![LastWeek] = inc.universe]
            /\ inc' = [inc EXCEPT !.at = "membership"]
       ELSE IncEnds /\ UNCHANGED current
    /\ UNCHANGED <<rows, prep, historical, queue, slot, admin, overtaken, bounds>>

IncMembership ==
    /\ inc.at = "membership"
    /\ LET v == Applicable(versions, LastWeek)
       IN  IF v = 0 THEN IncEnds
           ELSE IF versions[v].members = {} THEN IncEnds
           ELSE inc' = [at |-> "lookBack", version |-> v, universe |-> versions[v].members]
    /\ UNCHANGED <<rows, prep, runs, queue, slot, admin, overtaken, bounds>>

IncLookBack ==
    /\ inc.at = "lookBack"
    /\ IF historical[LastWeek] = NoRun THEN inc' = [inc EXCEPT !.at = "putBack"] ELSE IncEnds
    /\ UNCHANGED <<rows, prep, runs, queue, slot, admin, overtaken, bounds>>

IncPutBack ==
    /\ inc.at = "putBack"
    /\ historical' = IF exists
                     THEN [historical EXCEPT ![LastWeek] = [version |-> inc.version, universe |-> inc.universe]]
                     ELSE historical
    /\ IncEnds
    /\ UNCHANGED <<rows, prep, current, queue, slot, admin, overtaken, bounds>>

-------------------------------------------------------------------------------
AdminSteps(a) == Import(a) \/ ImportRefused(a) \/ Trigger(a) \/ MarkQueueUnavailable(a)

Work(s) ==
    \/ Take(s) \/ Open(s) \/ MarkSyncing(s) \/ MarkBuilding(s) \/ Generate(s) \/ PersistWeek(s)
    \/ WeeksDone(s) \/ Resolve(s) \/ ReadGroup(s) \/ PersistHistory(s) \/ RebuildDone(s)
    \/ CheckVersion(s) \/ Conclude(s) \/ CheckVersionAfterError(s) \/ ConcludeFailed(s)

Next ==
    \/ \E a \in Admin :
         \/ AdminSteps(a) \/ Retry(a) \/ Sweep(a) \/ TriggerRejected(a) \/ TriggerLost(a)
         \/ \E file \in SUBSET Instrument, from \in Week : ImportClassify(a, file, from)
    \/ \E j \in {Backfill, Rebuild} : RequestBacktest(j)
    \/ \E v \in DOMAIN versions, file \in SUBSET Instrument : Replace(v, file)
    \/ Delete
    \/ \E s \in Slot : Work(s) \/ Fails(s) \/ Crash(s)
    \/ IncOpen \/ IncLook \/ IncPut \/ IncMembership \/ IncLookBack \/ IncPutBack

\* The worker goes on with its job and takes the next one; an admin request
\* that began is carried out.
Fairness ==
    /\ \A a \in Admin : WF_vars(AdminSteps(a))
    /\ \A s \in Slot : WF_vars(Work(s))

Spec == Init /\ [][Next]_vars /\ Fairness

-------------------------------------------------------------------------------
(* Properties *)

\* Every variable keeps to the values the code can store.
TypeOK ==
    /\ exists \in BOOLEAN /\ active \subseteq Instrument /\ counted \subseteq Instrument
    /\ versions \in Seq([from : Week, members : SUBSET Instrument]) /\ Len(versions) <= MaxVersions
    /\ latest \in 0 .. Len(versions)
    /\ status \in {"pending", "syncing_candles", "building_backtest", "ready", "partial", "failed", "gone"}
    /\ current \in [Week -> (SUBSET Instrument) \union {NoRun}]
    /\ \A w \in Week : historical[w] = NoRun \/ historical[w].version \in VersionId
    /\ queue \in Seq(Job)
    /\ \A s \in Slot : slot[s].job \in Job \union {NoJob} /\ slot[s].todo \subseteq Week
    /\ overtaken \subseteq {"backfill", "rebuild", "conclusion"}

\* A historical run was evaluated on the membership in effect in its week, as
\* the versions stand now: an import clears exactly the weeks it takes over and
\* a correction those of its version.  Only a rebuild or sync that had already
\* resolved its versions when one of them committed can leave another universe.
HistoryFollowsVersions ==
    "rebuild" \notin overtaken =>
        \A w \in Week : historical[w] # NoRun =>
            LET v == Applicable(versions, w)
            IN  v # 0 /\ historical[w] = [version |-> v, universe |-> versions[v].members]

\* "Old/new weeks never silently mix universes": every current_membership run
\* was evaluated on the active set of now, however imports, backfills, failed
\* preparations and incremental syncs follow each other, unless an import
\* committed while a generator already held the old members.
WeeksShareTheActiveSet ==
    "backfill" \notin overtaken => \A w \in Week : current[w] # NoRun => current[w] = active

\* A collection is only shown prepared when its latest version was: the counts
\* are of the members of now and no week of the backtest is missing.  A
\* superseded preparation does not win unless an import commits between its
\* version check and the write that follows.
PreparedMeansCurrent ==
    (status \in {"ready", "partial"} /\ overtaken \intersect {"backfill", "conclusion"} = {}) =>
        /\ counted = active
        /\ active # {} => \A w \in Week : current[w] = active

\* An import is answered: once its preparation is asked for, and unless a newer
\* import or the deletion comes first or the request or a job is lost, a job
\* for that very version is run; no job of an older version stands in for it.
ImportIsPrepared ==
    \A v \in VersionId :
        (\E a \in Admin : admin[a].at = "trigger" /\ admin[a].version = v)
            ~> \/ faults > 0 \/ latest # v
               \/ \E s \in Slot : slot[s].job = Prepare(v)
=============================================================================
