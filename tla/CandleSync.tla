----------------------------- MODULE CandleSync -----------------------------
(***************************************************************************)
(* The stored daily candles of the active instruments and everything that  *)
(* fetches them: the routine sync of an exchange, the refresh of one       *)
(* symbol, and backfills of a range (market-data.candle-sync.ts), with     *)
(* the replacement of a range (market-data.candles.ts), the instruments'   *)
(* latest statistics (market-data.instruments.ts) and the record that the  *)
(* provider has no history of a symbol (market-data.no-history.ts).        *)
(*                                                                         *)
(* A day is a completed weekday.  A task is one call of a refresh or of a  *)
(* backfill; tasks of the same instrument overlap.                         *)
(***************************************************************************)
EXTENDS Integers, FiniteSets, FiniteSetsExt

CONSTANTS
    Instrument,
    MinuteFed,      \* instruments of the exchanges that have only minute history
    Lane,           \* concurrent tasks of the exchange's sync
    Caller,         \* charts, admins and preparations: one task each
    LastDay,        \* bound: days
    Overlap,        \* INCREMENTAL_OVERLAP_TRADING_DAYS, in days
    RepairWindow,   \* RECENT_REPAIR_WINDOW_CALENDAR_DAYS, in days
    MaxTasks        \* bound: tasks begun

ASSUME FeedAssumption == MinuteFed \subseteq Instrument
ASSUME DayAssumption ==
    LastDay \in Nat \ {0} /\ Overlap \in Nat /\ RepairWindow \in Nat /\ MaxTasks \in Nat

Day == 1..LastDay

VARIABLES
    today,          \* the latest expected trading day
    stored,         \* the days each instrument has a daily candle of
    latest,         \* instruments.latest_price_at, 0 for null
    noHistory,      \* confirmed no-history checkpoints younger than the recheck interval
    attempted,      \* the target date of a refresh less than 15 minutes ago, or 0
    fetch,          \* the task of each lane and caller
    sweep,          \* the run over the exchange: its target, its symbols, the quota
    accounted,      \* history: days asked and not had, reported, replaced or skipped
    begun

candleVars == <<today, stored, latest, noHistory, attempted, fetch, sweep, accounted, begun>>

At(place) == [at |-> place, who |-> "none", kind |-> "none", from |-> 0, to |-> 0, held |-> 0,
              got |-> {}, lost |-> {}, answered |-> FALSE, seen |-> 0]
NoSweep == [on |-> FALSE, target |-> 0, todo |-> {}, quota |-> FALSE]

CandleInit ==
    /\ today = 1
    /\ stored = [i \in Instrument |-> {}]
    /\ latest = [i \in Instrument |-> 0]
    /\ noHistory = {} /\ attempted = [i \in Instrument |-> 0]
    /\ fetch = [t \in Lane \union Caller |-> At("rest")]
    /\ sweep = NoSweep
    /\ accounted = [i \in Instrument |-> {}]
    /\ begun = 0

LastOf(days) == IF days = {} THEN 0 ELSE Max(days)

-------------------------------------------------------------------------------
(* What a task asks for *)

\* planDailyCandleSync: from the overlap or the repair window, whichever is earlier; a
\* symbol without candles asks for the whole history.
PlannedFrom(held, to) ==
    IF held = 0 THEN 1 ELSE Max({1, Min({held - Overlap, to - RepairWindow})})

\* A refresh with a target date asks for that date alone.
FirstDay(kind, held) ==
    CASE kind = "target" -> today [] kind = "range" -> 1 [] OTHER -> PlannedFrom(held, today)

Bootstrap(f) == f.kind \in {"chart", "forced"} /\ f.held = 0

\* Refreshes of a minute-fed symbol without a target ask one day at a time.
ByDate(f) == f.who \in MinuteFed /\ f.kind \in {"chart", "forced"}

\* Such rows are upserted; every other answer replaces its range.
Isolated(f) == ByDate(f) \/ (f.who \in MinuteFed /\ f.from = f.to)

\* Mutant: the first missing day is taken for stored.
WeekdaysAfterNext(held, to) == held + 2..to

\* getCompletedWeekdaysAfter
WeekdaysAfter(held, to) == held + 1..to

AskedDays(f) ==
    IF ~ByDate(f) THEN f.from..f.to
    ELSE IF Bootstrap(f) THEN {f.to} ELSE WeekdaysAfter(f.held, f.to)

\* A task reads the newest stored day and plans.  A fresh confirmation answers an unforced
\* bootstrap.
Begin(t, i, kind) ==
    LET held == IF kind \in {"chart", "forced"} THEN LastOf(stored[i]) ELSE 0
        known == kind = "chart" /\ held = 0 /\ i \in noHistory
    IN  /\ fetch[t].at = "rest" /\ begun < MaxTasks
        /\ begun' = begun + 1
        /\ fetch' = [fetch EXCEPT ![t] =
               [At(IF known THEN "known" ELSE "ask") EXCEPT
                   !.who = i, !.kind = kind, !.held = held, !.to = today, !.from = FirstDay(kind, held)]]

Asks(t) == \E i \in Instrument, kind \in {"chart", "forced", "range"} :
    /\ Begin(t, i, kind)
    /\ UNCHANGED <<today, stored, latest, noHistory, attempted, sweep, accounted>>

-------------------------------------------------------------------------------
(* The sync of all active instruments of the exchange *)

SweepStarts ==
    /\ ~sweep.on
    /\ sweep' = [on |-> TRUE, target |-> today, quota |-> FALSE,
                 todo |-> {i \in Instrument : attempted[i] # today}]
    /\ UNCHANGED <<today, stored, latest, noHistory, attempted, fetch, accounted, begun>>

LaneTakes(l) ==
    /\ sweep.on /\ ~sweep.quota /\ sweep.target = today
    /\ \E i \in sweep.todo :
        /\ Begin(l, i, "target")
        /\ sweep' = [sweep EXCEPT !.todo = @ \ {i}]
    /\ UNCHANGED <<today, stored, latest, noHistory, attempted, accounted>>

\* With the quota used up the rest of the list is passed over.
SweepEnds ==
    /\ sweep.on /\ (sweep.todo = {} \/ sweep.quota \/ sweep.target # today)
    /\ \A l \in Lane : fetch[l].at = "rest"
    /\ sweep' = NoSweep
    /\ UNCHANGED <<today, stored, latest, noHistory, attempted, fetch, accounted, begun>>

-------------------------------------------------------------------------------
(* One task: refreshDailyCandles around backfillDailyCandles *)

KnownEmpty(t) ==
    /\ fetch[t].at = "known"
    /\ fetch' = [fetch EXCEPT ![t] = At("rest")]
    /\ UNCHANGED <<today, stored, latest, noHistory, attempted, sweep, accounted, begun>>

\* The provider answers: candles of some days, nothing of others; day by day, it may fail.
ProviderAnswers(t) ==
    LET f == fetch[t] IN
    /\ f.at = "ask"
    /\ \E got \in SUBSET AskedDays(f) : \E lost \in SUBSET (AskedDays(f) \ got) :
        /\ ByDate(f) \/ lost = {}
        /\ fetch' = [fetch EXCEPT ![t].at = "write", ![t].got = got, ![t].lost = lost,
                                  ![t].answered = TRUE]
        /\ accounted' = [accounted EXCEPT ![f.who] = @ \union (AskedDays(f) \ (got \union lost))]
    /\ UNCHANGED <<today, stored, latest, noHistory, attempted, sweep, begun>>

\* No provider is enabled for the exchange: nothing is asked and nothing touched.
ProviderDisabled(t) ==
    /\ fetch[t].at = "ask"
    /\ fetch' = [fetch EXCEPT ![t] = IF @.kind = "range" THEN At("rest") ELSE [@ EXCEPT !.at = "settle"]]
    /\ UNCHANGED <<today, stored, latest, noHistory, attempted, sweep, accounted, begun>>

\* A request for a range fails: the task ends, and used-up quota ends the sync's list.
ProviderFails(t) ==
    /\ fetch[t].at = "ask" /\ ~ByDate(fetch[t])
    /\ fetch' = [fetch EXCEPT ![t] = At("rest")]
    /\ \/ UNCHANGED sweep
       \/ t \in Lane /\ sweep' = [sweep EXCEPT !.quota = TRUE]
    /\ UNCHANGED <<today, stored, latest, noHistory, attempted, accounted, begun>>

\* upsertCandles, or replaceCandlesAtomically: an empty answer deletes nothing.
Replaced(f) ==
    IF Isolated(f) \/ f.got = {} THEN stored[f.who] \union f.got
    ELSE (stored[f.who] \ (f.from..f.to)) \union f.got

\* Days given up by a write: replaced by an answer without them, or passed over by a sync of
\* its target date or by the seed of a minute-fed symbol.
GivenUp(f) ==
    (stored[f.who] \ Replaced(f))
        \union (IF f.kind = "target" \/ (ByDate(f) /\ Bootstrap(f)) THEN 1..f.to - 1 ELSE {})

CandlesWritten(t) ==
    LET f == fetch[t] IN
    /\ f.at = "write"
    /\ stored' = [stored EXCEPT ![f.who] = Replaced(f)]
    /\ accounted' = [accounted EXCEPT ![f.who] = @ \union GivenUp(f)]
    /\ fetch' = [fetch EXCEPT ![t].at = "stats"]
    /\ UNCHANGED <<today, latest, noHistory, attempted, sweep, begun>>

\* getLatestStockStats and, later, applyLatestInstrumentStats
StatsRead(t) ==
    /\ fetch[t].at = "stats"
    /\ fetch' = [fetch EXCEPT ![t].at = "apply", ![t].seen = LastOf(stored[fetch[t].who])]
    /\ UNCHANGED <<today, stored, latest, noHistory, attempted, sweep, accounted, begun>>

StatsApplied(t) ==
    LET f == fetch[t] IN
    /\ f.at = "apply"
    /\ latest' = [latest EXCEPT ![f.who] = IF f.seen = 0 THEN @ ELSE f.seen]
    /\ fetch' = [fetch EXCEPT ![t] = IF f.kind = "range" THEN At("rest") ELSE [@ EXCEPT !.at = "settle"]]
    /\ UNCHANGED <<today, stored, noHistory, attempted, sweep, accounted, begun>>

\* The provider answered a whole-history question with nothing.
ConfirmedEmpty(f) == Bootstrap(f) /\ f.got = {} /\ f.lost = {} /\ f.answered /\ ~ByDate(f)

\* The attempt is marked for its target, the no-history record is kept, and the status
\* names every day that failed or is not there.
Settle(t) ==
    LET f == fetch[t] IN
    /\ f.at = "settle"
    /\ attempted' = [attempted EXCEPT ![f.who] = f.to]
    /\ noHistory' = IF ConfirmedEmpty(f) THEN noHistory \union {f.who}
                    ELSE IF Bootstrap(f) /\ f.got # {} THEN noHistory \ {f.who} ELSE noHistory
    /\ accounted' = [accounted EXCEPT ![f.who] = @ \union f.lost]
    /\ fetch' = [fetch EXCEPT ![t] = At("rest")]
    /\ UNCHANGED <<today, stored, latest, sweep, begun>>

-------------------------------------------------------------------------------
(* Time *)

DayPasses ==
    /\ today < LastDay /\ today' = today + 1
    /\ UNCHANGED <<stored, latest, noHistory, attempted, fetch, sweep, accounted, begun>>

\* Fifteen minutes after an attempt, and seven days after a confirmation.
AttemptAges == \E i \in Instrument :
    /\ attempted[i] # 0
    /\ attempted' = [attempted EXCEPT ![i] = 0]
    /\ UNCHANGED <<today, stored, latest, noHistory, fetch, sweep, accounted, begun>>

RecheckDue == \E i \in noHistory :
    /\ noHistory' = noHistory \ {i}
    /\ UNCHANGED <<today, stored, latest, attempted, fetch, sweep, accounted, begun>>

FetchStep(t) ==
    \/ KnownEmpty(t) \/ ProviderAnswers(t) \/ ProviderDisabled(t) \/ ProviderFails(t)
    \/ CandlesWritten(t) \/ StatsRead(t) \/ StatsApplied(t) \/ Settle(t)

CandleNext ==
    \/ \E t \in Caller : Asks(t)
    \/ \E l \in Lane : LaneTakes(l)
    \/ \E t \in Lane \union Caller : FetchStep(t)
    \/ SweepStarts \/ SweepEnds \/ DayPasses \/ AttemptAges \/ RecheckDue

CandleSpec == CandleInit /\ [][CandleNext]_candleVars

-------------------------------------------------------------------------------
(* Properties *)

\* Days between two stored days that are missing.
Holes(i) == {d \in Day \ stored[i] : d < LastOf(stored[i]) /\ \E e \in stored[i] : e < d}

Unsettled(i) == UNION {fetch[t].lost : t \in {u \in Lane \union Caller : fetch[u].who = i}}

\* No day is lost in silence: the provider had no candle of it, the refresh that stored a later
\* day reported it as failed, or a target date or a seed passed it by (candle-sync.ts:760-849).
HolesAreAccountedFor ==
    \A i \in Instrument : Holes(i) \subseteq accounted[i] \union Unsettled(i)

\* An instrument that nobody is working on has a latest price exactly if it has candles: the
\* bootstrap query looks for those without (candle-sync.ts:1007-1010).
BootstrapFindsTheEmpty ==
    \A i \in Instrument : (\A t \in Lane \union Caller : fetch[t].who # i)
                          => (latest[i] = 0 <=> stored[i] = {})

\* Only a symbol whose whole history was asked for is remembered as without history; a seed of
\* one minute-fed day, an error or a disabled provider proves nothing (no-history.ts:8-13).
NoHistoryIsProven == noHistory \intersect MinuteFed = {} /\ \A i \in noHistory : 1 \in accounted[i]

\* Candles disappear only when a non-empty answer for their range replaces them
\* (candles.ts:444-449).
OnlyAnswersReplace ==
    \A i \in Instrument : stored[i] \ stored'[i] # {} =>
        \E t \in Lane \union Caller : /\ fetch[t].who = i /\ fetch[t].got # {}
                                      /\ stored[i] \ stored'[i] \subseteq fetch[t].from..fetch[t].to

\* What is stored is kept, and what is missing is known.
CandlesAreAccountedFor ==
    /\ [](HolesAreAccountedFor /\ BootstrapFindsTheEmpty /\ NoHistoryIsProven)
    /\ [][OnlyAnswersReplace]_candleVars
=============================================================================
