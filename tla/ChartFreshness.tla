--------------------------- MODULE ChartFreshness ---------------------------
(***************************************************************************)
(* Requests that one chart symbol be fresh                                 *)
(* (market-data.chart-ensure-fresh.ts): one repair per symbol and expected *)
(* trading date, through a queue job of that identity or, forced or with   *)
(* the queue out of reach, in the API process; and the worker's rule that  *)
(* one operation of a symbol runs at a time (worker.ts).                   *)
(*                                                                         *)
(* Job 0 is the initial bootstrap of the symbol, job d the repair for date *)
(* d; both run the same operation.                                         *)
(***************************************************************************)
EXTENDS Integers, FiniteSets

CONSTANTS
    Api,            \* API processes
    ChartCall,      \* requests, each made once
    LastDate,       \* bound: dates
    MaxBoots,       \* bound: bootstrap jobs
    MaxGlitches     \* bound: restarts of the worker, and removals that fail

ASSUME ChartAssumption ==
    LastDate \in Nat \ {0} /\ MaxBoots \in Nat /\ MaxGlitches \in Nat

Date == 1..LastDate

VARIABLES
    expected,       \* the latest expected trading date
    results,        \* inMemoryResults of each process
    inFlight,       \* inMemoryInFlight: the date the refresh planned for, 0 for none
    chartJob,       \* the queue's jobs
    request,        \* the calls, with the answers given
    boots, glitches

chartVars == <<expected, results, inFlight, chartJob, request, boots, glitches>>

\* A value is a refresh's status and the date it planned for.
Value(is, d) == [is |-> is, day |-> d]
NoValue == Value("none", 0)
NoChartJob == [is |-> "none", value |-> NoValue]
\* A call and, as its history, what was refreshed since it began.
ChartCallIdle == [at |-> "idle", api |-> "none", force |-> FALSE, wait |-> FALSE, day |-> 0,
                  since |-> {}, stuck |-> FALSE, answer |-> "none", old |-> FALSE, early |-> FALSE]

ChartInit ==
    /\ expected = 1
    /\ results = [p \in Api |-> [d \in Date |-> NoValue]]
    /\ inFlight = [p \in Api |-> [d \in Date |-> 0]]
    /\ chartJob = [j \in 0..LastDate |-> NoChartJob]
    /\ request = [c \in ChartCall |-> ChartCallIdle]
    /\ boots = 0 /\ glitches = 0

\* buildEnsureFreshKey
Key(d) == d

Moves(r, at) == [r EXCEPT !.at = at]

\* An answer with a value of the process or of the queue, or with a mere status.
Answered(r, value, from) ==
    [ChartCallIdle EXCEPT !.at = "done", !.force = r.force, !.stuck = r.stuck, !.answer = value.is,
                          !.old = from \notin r.since, !.early = value.day < r.day]
Said(r, status) == [ChartCallIdle EXCEPT !.at = "done", !.answer = status]

\* A refresh has ended for the calls of one key, in one process or in the queue.
Noted(from, ofKey(_)) ==
    [c \in ChartCall |-> IF request[c].at \notin {"idle", "done"} /\ ofKey(request[c])
                         THEN [request[c] EXCEPT !.since = @ \union {from}] ELSE request[c]]

-------------------------------------------------------------------------------
(* runInMemoryFallback *)

InProcess(c, r, kept) ==
    LET p == r.api
        d == Key(r.day)
    IN  /\ results' = [results EXCEPT ![p][d] = kept]
        /\ \/ /\ kept.is = "ok"
              /\ request' = [request EXCEPT ![c] = Answered(r, kept, "process")]
              /\ UNCHANGED inFlight
           \/ /\ kept.is # "ok"
              /\ inFlight' = [inFlight EXCEPT ![p][d] = IF @ = 0 THEN expected ELSE @]
              /\ request' = [request EXCEPT ![c] = Moves(r, "joined")]
        /\ UNCHANGED <<expected, chartJob, boots, glitches>>

\* Every call that joined gets the outcome; a result is kept, an exception is not.
RefreshEnds(p, d) ==
    /\ inFlight[p][d] # 0
    /\ \E is \in {"ok", "failed"}, thrown \in BOOLEAN :
        LET value == Value(is, inFlight[p][d])
            mine(r) == r.api = p /\ Key(r.day) = d
            calls == Noted("process", mine)
        IN  /\ thrown => is = "failed"
            /\ results' = IF thrown THEN results ELSE [results EXCEPT ![p][d] = value]
            /\ request' = [c \in ChartCall |->
                   IF calls[c].at = "joined" /\ mine(calls[c]) THEN Answered(calls[c], value, "process")
                   ELSE calls[c]]
    /\ inFlight' = [inFlight EXCEPT ![p][d] = 0]
    /\ UNCHANGED <<expected, chartJob, boots, glitches>>

-------------------------------------------------------------------------------
(* ensureFreshDailyCandles *)

\* The call names its date at once; a forced one then asks whether GDF is blocked.
ChartAsks(c) ==
    /\ request[c].at = "idle"
    /\ \E p \in Api, force \in BOOLEAN, wait \in BOOLEAN :
        request' = [request EXCEPT ![c] = [@ EXCEPT !.at = IF force THEN "block?" ELSE "lookup",
                                             !.api = p, !.force = force, !.wait = wait,
                                             !.day = expected]]
    /\ UNCHANGED <<expected, results, inFlight, chartJob, boots, glitches>>

Blocked(c) ==
    /\ request[c].at = "block?"
    /\ request' = [request EXCEPT ![c] = Said(@, "refused")]
    /\ UNCHANGED <<expected, results, inFlight, chartJob, boots, glitches>>

\* Mutant: a forced refresh keeps the result it was to replace.
ForgetNothing(p, d) == results[p][d]

\* A forced call forgets the result kept of its date.
Forget(p, d) == NoValue

\* A caller who waits for a forced refresh goes past the queue.
Forced(c) ==
    LET r == request[c]
        d == Key(r.day)
    IN  /\ r.at = "block?"
        /\ \/ r.wait /\ InProcess(c, r, Forget(r.api, d))
           \/ /\ ~r.wait
              /\ results' = [results EXCEPT ![r.api][d] = Forget(r.api, d)]
              /\ request' = [request EXCEPT ![c] = Moves(@, "lookup")]
              /\ UNCHANGED <<expected, inFlight, chartJob, boots, glitches>>

\* getJob
LooksUp(c) ==
    LET found == chartJob[Key(request[c].day)].is # "none"
    IN  /\ request[c].at = "lookup"
        /\ request' = [request EXCEPT ![c] = Moves(@, IF found THEN "state" ELSE "add")]
        /\ UNCHANGED <<expected, results, inFlight, chartJob, boots, glitches>>

Settled(value) == value.is # "failed"

\* getState: a job gone meanwhile is taken for one that still runs.
ReadsState(c) ==
    LET r == request[c]
        j == chartJob[Key(r.day)]
        next == IF j.is # "completed" THEN IF r.wait THEN Moves(r, "listen")
                                                     ELSE Said(r, "in-progress")
                ELSE IF ~r.force /\ Settled(j.value) THEN Answered(r, j.value, "queue")
                ELSE Moves(r, "remove")
    IN  /\ r.at = "state"
        /\ request' = [request EXCEPT ![c] = next]
        /\ UNCHANGED <<expected, results, inFlight, chartJob, boots, glitches>>

\* remove: a running job is locked; a failure is ignored.
Removes(c) ==
    LET k == Key(request[c].day)
        locked == chartJob[k].is = "active"
    IN  /\ request[c].at = "remove"
        /\ \/ /\ request' = [request EXCEPT ![c] = Moves(@, "add")]
              /\ chartJob' = IF locked THEN chartJob ELSE [chartJob EXCEPT ![k] = NoChartJob]
              /\ UNCHANGED glitches
           \/ /\ glitches < MaxGlitches /\ glitches' = glitches + 1
              /\ request' = [request EXCEPT ![c] = [Moves(@, "add") EXCEPT !.stuck = TRUE]]
              /\ UNCHANGED chartJob
        /\ UNCHANGED <<expected, results, inFlight, boots>>

Added(k) ==
    IF chartJob[k].is = "none" THEN [chartJob EXCEPT ![k] = [NoChartJob EXCEPT !.is = "waiting"]]
    ELSE chartJob

\* add: a job of the same identity is left as it is.
Adds(c) ==
    /\ request[c].at = "add"
    /\ chartJob' = Added(Key(request[c].day))
    /\ request' = [request EXCEPT ![c] = IF @.wait THEN Moves(@, "listen")
                                         ELSE Said(@, "in-progress")]
    /\ UNCHANGED <<expected, results, inFlight, boots, glitches>>

\* The look-up or the add times out, and the add may still arrive.
QueueFails(c) ==
    \/ /\ request[c].at \in {"lookup", "state", "add"}
       /\ InProcess(c, request[c], results[request[c].api][Key(request[c].day)])
    \/ /\ request[c].at = "add" /\ Added(Key(request[c].day)) # chartJob
       /\ chartJob' = Added(Key(request[c].day))
       /\ request' = [request EXCEPT ![c] = Moves(@, "fallback")]
       /\ UNCHANGED <<expected, results, inFlight, boots, glitches>>
    \/ /\ request[c].at = "fallback"
       /\ InProcess(c, request[c], results[request[c].api][Key(request[c].day)])

\* waitUntilFinished: a job that has ended answers at once, one that is gone is an error.
Listens(c) ==
    LET j == chartJob[Key(request[c].day)]
    IN  /\ request[c].at = "listen"
        /\ request' = [request EXCEPT ![c] =
               CASE j.is = "none" -> Said(@, "failed")
                 [] j.is = "completed" -> Answered(@, j.value, "queue")
                 [] OTHER -> Moves(@, "waits")]
        /\ UNCHANGED <<expected, results, inFlight, chartJob, boots, glitches>>

GivesUp(c) ==
    /\ request[c].at \in {"joined", "waits"}
    /\ request' = [request EXCEPT ![c] = Said(@, "in-progress")]
    /\ UNCHANGED <<expected, results, inFlight, chartJob, boots, glitches>>

-------------------------------------------------------------------------------
(* The worker *)

\* candleBootstrapReconcile finds the symbol without candles.
BootAdded ==
    /\ boots < MaxBoots /\ chartJob[0].is = "none"
    /\ boots' = boots + 1
    /\ chartJob' = Added(0)
    /\ UNCHANGED <<expected, results, inFlight, request, glitches>>

Running == {j \in 0..LastDate : chartJob[j].is = "active"}

Delivered(j, value) ==
    LET mine(r) == Key(r.day) = j
        calls == Noted("queue", mine)
    IN  [c \in ChartCall |-> IF calls[c].at = "waits" /\ mine(calls[c])
                             THEN Answered(calls[c], value, "queue") ELSE calls[c]]

\* A repair that is done is kept for its callers, the bootstrap job is not.
Kept(j, value) ==
    [chartJob EXCEPT ![j] = IF j = 0 THEN NoChartJob ELSE [is |-> "completed", value |-> value]]

\* runProviderOperationOnce lets one job of the symbol run.
JobStarts(j) ==
    /\ chartJob[j].is = "waiting" /\ Running = {}
    /\ chartJob' = [chartJob EXCEPT ![j] = [is |-> "active", value |-> [NoValue EXCEPT !.day = expected]]]
    /\ UNCHANGED <<expected, results, inFlight, request, boots, glitches>>

\* It completes any other as skipped, and its callers read a status that is not there.
JobSkipped(j) ==
    /\ chartJob[j].is = "waiting" /\ Running # {}
    /\ chartJob' = Kept(j, Value("undefined", expected))
    /\ request' = Delivered(j, Value("undefined", expected))
    /\ UNCHANGED <<expected, results, inFlight, boots, glitches>>

JobEnds(j) ==
    /\ chartJob[j].is = "active"
    /\ \E is \in {"ok", "failed"} :
        LET value == Value(is, chartJob[j].value.day)
        IN  chartJob' = Kept(j, value) /\ request' = Delivered(j, value)
    /\ UNCHANGED <<expected, results, inFlight, boots, glitches>>

\* The refresh throws: the job fails and is removed.
JobThrows(j) ==
    /\ chartJob[j].is = "active"
    /\ chartJob' = [chartJob EXCEPT ![j] = NoChartJob]
    /\ request' = Delivered(j, Value("failed", chartJob[j].value.day))
    /\ UNCHANGED <<expected, results, inFlight, boots, glitches>>

\* A stalled job is run again.
WorkerDies ==
    /\ Running # {} /\ glitches < MaxGlitches /\ glitches' = glitches + 1
    /\ chartJob' = [j \in 0..LastDate |-> IF j \in Running THEN [NoChartJob EXCEPT !.is = "waiting"]
                                                           ELSE chartJob[j]]
    /\ UNCHANGED <<expected, results, inFlight, request, boots>>

\* Twenty hours after it ended.
RetentionEnds(j) ==
    /\ chartJob[j].is = "completed"
    /\ chartJob' = [chartJob EXCEPT ![j] = NoChartJob]
    /\ UNCHANGED <<expected, results, inFlight, request, boots, glitches>>

NextDate ==
    /\ expected < LastDate /\ expected' = expected + 1
    /\ UNCHANGED <<results, inFlight, chartJob, request, boots, glitches>>

ChartNext ==
    \/ \E c \in ChartCall :
        \/ ChartAsks(c) \/ Blocked(c) \/ Forced(c) \/ LooksUp(c) \/ ReadsState(c) \/ Removes(c)
        \/ Adds(c) \/ QueueFails(c) \/ Listens(c) \/ GivesUp(c)
    \/ \E p \in Api, d \in Date : RefreshEnds(p, d)
    \/ \E j \in 0..LastDate : JobStarts(j) \/ JobSkipped(j) \/ JobEnds(j) \/ JobThrows(j)
                              \/ RetentionEnds(j)
    \/ BootAdded \/ WorkerDies \/ NextDate

ChartSpec == ChartInit /\ [][ChartNext]_chartVars

-------------------------------------------------------------------------------
(* Properties *)

Answers == {request[c] : c \in {d \in ChartCall : request[d].at = "done"}}

\* The date an answer names is no later than the one its refresh planned for
\* (chart-ensure-fresh.ts:45-47).
AnswersAreOfTheirDate == \A r \in Answers : ~r.early

\* A failed repair answers only those who were waiting for it (chart-ensure-fresh.ts:54, :150),
\* except for a caller whose removal of the old job failed.
FailedIsNeverSettled == \A r \in Answers : r.answer = "failed" /\ r.old => r.stuck

\* Who forces a refresh is told of one that ended afterwards (chart-ensure-fresh.ts:112-126).
ForcedIsFresh == \A r \in Answers : r.force => ~r.old

\* What a chart is told is of its date, never an old failure, and never an old answer to a
\* forced refresh.
ChartAnswersAreFresh == AnswersAreOfTheirDate /\ FailedIsNeverSettled /\ ForcedIsFresh
=============================================================================
