-------------------------- MODULE MarketDataProofs --------------------------
(***************************************************************************)
(* Proofs about the stored candles and about what readers are told of the  *)
(* market's data: what becomes of candles, for any instruments, tasks and  *)
(* days and any overlap and repair window; a stored snapshot older than    *)
(* what a deletion was for was overtaken by that deletion, an answer suits *)
(* its request, and a chart is told of its own date, for any number of     *)
(* readers, writers, processes, scopes and dates.                          *)
(***************************************************************************)
EXTENDS CandleSync, Snapshots, ChartFreshness, WellFoundedInduction, TLAPS

-----------------------------------------------------------------------------
(* The candles: the invariant *)

FetchState == [at : {"rest", "known", "ask", "write", "stats", "apply", "settle"},
               who : Instrument \union {"none"}, kind : {"none", "chart", "forced", "range", "target"},
               from : Int, to : 0..LastDay, held : 0..LastDay,
               got : SUBSET Day, lost : SUBSET Day, answered : BOOLEAN, seen : Int]

SweepState == [on : BOOLEAN, target : Int, todo : SUBSET Instrument, quota : BOOLEAN]

Tasks == Lane \union Caller

CandleTypes ==
    /\ today \in Day /\ stored \in [Instrument -> SUBSET Day] /\ latest \in [Instrument -> Int]
    /\ noHistory \subseteq Instrument /\ fetch \in [Tasks -> FetchState]
    /\ accounted \in [Instrument -> SUBSET Day] /\ sweep \in SweepState

Working(f) == f.at # "rest"

\* A plan asks for its target alone, or starts at the first day or at the last one held or before it.
Planned(f) ==
    /\ f.who \in Instrument /\ f.kind # "none" /\ f.to \in Day /\ f.from >= 1
    /\ IF f.kind = "target" THEN f.from = f.to ELSE f.from = 1 \/ f.from <= f.held

PlansReachBack == \A t \in Tasks : Working(fetch[t]) => Planned(fetch[t])

\* Days that are stored, accounted for, or failed in a task that has still to say so.
Seen(i) == stored[i] \union accounted[i] \union Unsettled(i)

\* Nothing before a stored day is unknown, nor before the last day that a task found stored.
NothingBeforeIsUnknown ==
    /\ \A i \in Instrument : \A e \in stored[i] : 1..e \subseteq Seen(i)
    /\ \A i \in Instrument : \A t \in Tasks :
          Working(fetch[t]) /\ fetch[t].who = i => 1..fetch[t].held \subseteq Seen(i)

\* An answer covers the days that were asked for.
AnswersCover ==
    \A t \in Tasks : LET f == fetch[t] IN
        /\ f.at = "write" => f.answered
        /\ f.lost # {} => ByDate(f) /\ f.at \notin {"rest", "known", "ask"}
        /\ Working(f) => f.got \subseteq AskedDays(f)
        /\ Working(f) /\ f.answered => AskedDays(f) \subseteq accounted[f.who] \union f.got \union f.lost

\* A latest price means candles; candles mean a latest price, or a task that is about to write one.
LatestFollows ==
    /\ \A i \in Instrument : stored[i] = {} => latest[i] = 0
    /\ \A t \in Tasks : fetch[t].at = "apply" /\ stored[fetch[t].who] = {} => fetch[t].seen = 0
    /\ \A i \in Instrument : stored[i] # {} /\ latest[i] = 0 =>
          \E t \in Tasks : /\ fetch[t].who = i
                          /\ \/ fetch[t].at = "stats"
                             \/ fetch[t].at = "apply" /\ fetch[t].seen # 0

CandleInv ==
    /\ CandleTypes /\ PlansReachBack /\ NothingBeforeIsUnknown /\ AnswersCover /\ LatestFollows
    /\ NoHistoryIsProven

-----------------------------------------------------------------------------
(* Greatest and least days *)

Below == {p \in Nat \X Nat : p[1] < p[2]}

\* A non-empty set of days has a last one.
LEMMA MaxIsLast ==
    ASSUME NEW days \in SUBSET Day, days # {}
    PROVE  Max(days) \in days /\ \A d \in days : d <= Max(days)
<1> DEFINE back == {LastDay - d : d \in days}
<1>1. IsWellFoundedOn(Below, Nat)
    BY NatLessThanWellFounded DEF OpToRel, Below
<1>2. back \subseteq Nat /\ back # {}
    BY DayAssumption DEF Day
<1>3. PICK m \in back : \A y \in back : <<y, m>> \notin Below
    BY <1>1, <1>2, WFMin
<1>4. PICK last \in days : m = LastDay - last
    BY <1>3
<1>5. \A d \in days : d <= last
  <2> SUFFICES ASSUME NEW d \in days, last < d PROVE FALSE
      BY DEF Day
  <2>1. LastDay - d \in Nat /\ m \in Nat /\ LastDay - d < m
      BY <1>2, <1>4, DayAssumption DEF Day
  <2>2. <<LastDay - d, m>> \in Below
      BY <2>1 DEF Below
  <2>q. QED
      BY <1>3, <2>2
<1>6. \A d \in days : last >= d
    BY <1>5 DEF Day
<1>7. Max(days) \in days /\ \A d \in days : Max(days) >= d
    BY <1>6 DEF Max
<1>q. QED
    BY <1>7 DEF Day

\* The last stored day, or 0.
LEMMA LastOfIs ==
    ASSUME NEW days \in SUBSET Day
    PROVE  /\ LastOf(days) \in 0..LastDay
           /\ days = {} <=> LastOf(days) = 0
           /\ days # {} => LastOf(days) \in days
           /\ \A d \in days : d <= LastOf(days)
<1>1. CASE days = {}
    BY <1>1, DayAssumption DEF LastOf
<1>2. CASE days # {}
  <2>1. LastOf(days) \in days /\ \A d \in days : d <= LastOf(days)
      BY <1>2, MaxIsLast DEF LastOf
  <2>2. LastOf(days) \in Day
      BY <2>1
  <2>3. LastOf(days) \in 0..LastDay /\ LastOf(days) # 0
      BY <2>2, DayAssumption DEF Day
  <2>q. QED
      BY <1>2, <2>1, <2>3
<1>q. QED
    BY <1>1, <1>2

\* The greatest and the least of two numbers.
LEMMA OfTwo ==
    ASSUME NEW a \in Int, NEW b \in Int
    PROVE  /\ Max({a, b}) \in {a, b} /\ Max({a, b}) >= a /\ Max({a, b}) >= b
           /\ Min({a, b}) \in {a, b} /\ Min({a, b}) <= a /\ Min({a, b}) <= b
<1>1. Max({a, b}) \in {a, b} /\ \A y \in {a, b} : Max({a, b}) >= y
  <2>1. \E x \in {a, b} : \A y \in {a, b} : x >= y
      OBVIOUS
  <2>q. QED
      BY <2>1 DEF Max
<1>2. Min({a, b}) \in {a, b} /\ \A y \in {a, b} : Min({a, b}) <= y
  <2>1. \E x \in {a, b} : \A y \in {a, b} : x <= y
      OBVIOUS
  <2>q. QED
      BY <2>1 DEF Min
<1>q. QED
    BY <1>1, <1>2

\* A plan starts at the first day, or no later than the last day that is held.
LEMMA PlanReachesBack ==
    ASSUME NEW held \in 0..LastDay, NEW to \in Day
    PROVE  /\ PlannedFrom(held, to) \in Int /\ PlannedFrom(held, to) >= 1
           /\ PlannedFrom(held, to) = 1 \/ PlannedFrom(held, to) <= held
<1> DEFINE least == Min({held - Overlap, to - RepairWindow})
<1>1. held - Overlap \in Int /\ to - RepairWindow \in Int /\ held - Overlap <= held
    BY DayAssumption DEF Day
<1>2. least \in Int /\ least <= held
    BY <1>1, OfTwo
<1>3. PlannedFrom(held, to) = IF held = 0 THEN 1 ELSE Max({1, least})
    BY DEF PlannedFrom
<1> HIDE DEF least
<1>4. Max({1, least}) \in {1, least} /\ Max({1, least}) >= 1
  <2>1. 1 \in Int /\ least \in Int
      BY <1>2
  <2>q. QED
      BY <2>1, OfTwo, Zenon
<1>q. QED
    BY <1>2, <1>3, <1>4

-----------------------------------------------------------------------------
(* Tasks and what they have seen *)

\* What has failed in a task that has still to say so, by its members.
LEMMA UnsettledIs ==
    /\ \A i, d : d \in Unsettled(i) <=> \E u \in Tasks : fetch[u].who = i /\ d \in fetch[u].lost
    /\ \A i, d : d \in Unsettled(i)' <=> \E u \in Tasks : fetch'[u].who = i /\ d \in fetch'[u].lost
BY DEF Unsettled, Tasks

\* A task that passes over the days before its target.
PassesOver(f) == f.kind = "target" \/ (ByDate(f) /\ Bootstrap(f))

\* What is asked of the provider are days, and every day before one of them is asked for,
\* passed over or no later than the last day that was held.
LEMMA AskedDaysAre ==
    ASSUME NEW f \in FetchState, Planned(f)
    PROVE  /\ AskedDays(f) \subseteq Day
           /\ \A e \in AskedDays(f), d \in Day :
                 d <= e => \/ d \in 1..f.held
                           \/ d \in AskedDays(f)
                           \/ (PassesOver(f) /\ d \in 1..f.to - 1)
<1>1. f.from \in Int /\ f.to \in Day /\ f.held \in 0..LastDay /\ f.from >= 1
    BY DEF FetchState, Planned
<1>2. CASE ~ByDate(f)
  <2>1. AskedDays(f) = f.from..f.to
      BY <1>2 DEF AskedDays
  <2>2. (f.kind = "target" /\ f.from = f.to) \/ f.from = 1 \/ f.from <= f.held
      BY DEF Planned
  <2>q. QED
      BY <1>1, <2>1, <2>2, DayAssumption DEF Day, PassesOver
<1>3. CASE ByDate(f) /\ Bootstrap(f)
  <2>1. AskedDays(f) = {f.to}
      BY <1>3 DEF AskedDays
  <2>q. QED
      BY <1>1, <1>3, <2>1, DayAssumption DEF Day, PassesOver
<1>4. CASE ByDate(f) /\ ~Bootstrap(f)
  <2>1. AskedDays(f) = f.held + 1..f.to
      BY <1>4 DEF AskedDays, WeekdaysAfter
  <2>q. QED
      BY <1>1, <2>1, DayAssumption DEF Day
<1>q. QED
    BY <1>2, <1>3, <1>4

\* A task goes on, is begun or ends; what it knew is in the table or accounted for.
TaskGoes(t, f) ==
    /\ fetch' = [fetch EXCEPT ![t] = f] /\ f \in FetchState
    /\ stored' \in [Instrument -> SUBSET Day] /\ accounted' \in [Instrument -> SUBSET Day]
    /\ \A i \in Instrument : accounted[i] \subseteq accounted'[i]
    /\ \A i \in Instrument : stored[i] \subseteq stored'[i] \union accounted'[i]
    /\ \/ f.who = fetch[t].who /\ fetch[t].lost \subseteq f.lost
       \/ fetch[t].who \in Instrument => fetch[t].lost \subseteq accounted'[fetch[t].who]

\* Nothing that was seen is forgotten.
LEMMA SeenGrows ==
    ASSUME CandleInv, NEW t \in Tasks, NEW f, TaskGoes(t, f)
    PROVE  /\ fetch' \in [Tasks -> FetchState] /\ fetch'[t] = f
           /\ \A u \in Tasks : u # t => fetch'[u] = fetch[u]
           /\ \A i \in Instrument : Seen(i) \subseteq Seen(i)'
<1>1. /\ fetch' \in [Tasks -> FetchState] /\ fetch'[t] = f
      /\ \A u \in Tasks : u # t => fetch'[u] = fetch[u]
    BY DEF CandleInv, CandleTypes, TaskGoes
<1>2. ASSUME NEW i \in Instrument, NEW d \in Seen(i)
      PROVE  d \in Seen(i)'
  <2>1. CASE d \in stored[i] \union accounted[i]
      BY <2>1 DEF TaskGoes, Seen
  <2>2. CASE d \in Unsettled(i)
    <3>1. PICK u \in Tasks : fetch[u].who = i /\ d \in fetch[u].lost
        BY <2>2, UnsettledIs
    <3>2. CASE u # t
      <4>1. d \in Unsettled(i)'
          BY <1>1, <3>1, <3>2, UnsettledIs
      <4>q. QED
          BY <4>1 DEF Seen
    <3>3. CASE u = t /\ f.who = fetch[t].who /\ fetch[t].lost \subseteq f.lost
      <4>1. d \in Unsettled(i)'
          BY <1>1, <3>1, <3>3, UnsettledIs
      <4>q. QED
          BY <4>1 DEF Seen
    <3>4. CASE u = t /\ (fetch[t].who \in Instrument => fetch[t].lost \subseteq accounted'[fetch[t].who])
        BY <3>1, <3>4 DEF Seen
    <3>q. QED
        BY <3>2, <3>3, <3>4 DEF TaskGoes
  <2>q. QED
      BY <1>2, <2>1, <2>2 DEF Seen
<1>q. QED
    BY <1>1, <1>2

\* It keeps what the invariant says of plans, of what is known and of answers.
LEMMA TaskKeeps ==
    ASSUME CandleInv, NEW t \in Tasks, NEW f, TaskGoes(t, f),
           Working(f) => /\ Planned(f) /\ 1..f.held \subseteq Seen(f.who)'
                         /\ f.got \subseteq AskedDays(f)
                         /\ f.answered => AskedDays(f) \subseteq accounted'[f.who] \union f.got \union f.lost,
           f.at = "write" => f.answered,
           f.lost # {} => ByDate(f) /\ f.at \notin {"rest", "known", "ask"},
           \A i \in Instrument : \A e \in stored'[i] \ stored[i] : 1..e \subseteq Seen(i)'
    PROVE  PlansReachBack' /\ NothingBeforeIsUnknown' /\ AnswersCover'
<1>1. /\ fetch' \in [Tasks -> FetchState] /\ fetch'[t] = f
      /\ \A u \in Tasks : u # t => fetch'[u] = fetch[u]
      /\ \A i \in Instrument : Seen(i) \subseteq Seen(i)'
    BY SeenGrows
<1>2. PlansReachBack'
    BY <1>1 DEF CandleInv, PlansReachBack, Working, Planned
<1>3. NothingBeforeIsUnknown'
  <2>1. \A i \in Instrument : \A e \in stored'[i] : 1..e \subseteq Seen(i)'
      BY <1>1 DEF CandleInv, NothingBeforeIsUnknown
  <2>2. \A i \in Instrument : \A u \in Tasks :
            Working(fetch'[u]) /\ fetch'[u].who = i => 1..fetch'[u].held \subseteq Seen(i)'
    <3> SUFFICES ASSUME NEW i \in Instrument, NEW u \in Tasks, Working(fetch'[u]), fetch'[u].who = i
                 PROVE  1..fetch'[u].held \subseteq Seen(i)'
        OBVIOUS
    <3>1. CASE u = t
      <4>1. 1..f.held \subseteq Seen(f.who)' /\ f.who = i
          BY <1>1, <3>1
      <4>q. QED
          BY <1>1, <3>1, <4>1
    <3>2. CASE u # t
        BY <1>1, <3>2 DEF CandleInv, NothingBeforeIsUnknown
    <3>q. QED
        BY <3>1, <3>2
  <2>q. QED
      BY <2>1, <2>2 DEF NothingBeforeIsUnknown, Working
<1>4. AnswersCover'
  <2>1. ASSUME NEW u \in Tasks
        PROVE  /\ fetch'[u].at = "write" => fetch'[u].answered
               /\ fetch'[u].lost # {} => ByDate(fetch'[u]) /\ fetch'[u].at \notin {"rest", "known", "ask"}
               /\ Working(fetch'[u]) => fetch'[u].got \subseteq AskedDays(fetch'[u])
               /\ Working(fetch'[u]) /\ fetch'[u].answered =>
                     AskedDays(fetch'[u])
                         \subseteq accounted'[fetch'[u].who] \union fetch'[u].got \union fetch'[u].lost
    <3>1. CASE u = t
        BY <1>1, <3>1
    <3>2. CASE u # t
      <4>1. fetch'[u] = fetch[u] /\ (Working(fetch[u]) => fetch[u].who \in Instrument)
          BY <1>1, <3>2 DEF CandleInv, PlansReachBack, Planned
      <4>2. /\ fetch[u].at = "write" => fetch[u].answered
            /\ fetch[u].lost # {} => ByDate(fetch[u]) /\ fetch[u].at \notin {"rest", "known", "ask"}
            /\ Working(fetch[u]) => fetch[u].got \subseteq AskedDays(fetch[u])
            /\ Working(fetch[u]) /\ fetch[u].answered =>
                  AskedDays(fetch[u])
                      \subseteq accounted[fetch[u].who] \union fetch[u].got \union fetch[u].lost
          BY DEF CandleInv, AnswersCover
      <4>3. Working(fetch[u]) => accounted[fetch[u].who] \subseteq accounted'[fetch[u].who]
          BY <4>1 DEF TaskGoes
      <4>q. QED
          BY <4>1, <4>2, <4>3
    <3>q. QED
        BY <3>1, <3>2
  <2>q. QED
      BY <2>1 DEF AnswersCover, Working
<1>q. QED
    BY <1>2, <1>3, <1>4

-----------------------------------------------------------------------------
(* What every step of a task shares *)

\* A task that neither writes nor reads candles leaves the latest prices right.
LEMMA LatestKept ==
    ASSUME CandleInv, NEW t \in Tasks, NEW f, TaskGoes(t, f), f.at # "apply",
           stored' = stored, latest' = latest, fetch[t].at \notin {"stats", "apply"}
    PROVE  LatestFollows'
<1>1. /\ fetch' \in [Tasks -> FetchState] /\ fetch'[t] = f
      /\ \A u \in Tasks : u # t => fetch'[u] = fetch[u]
    BY SeenGrows
<1>2. \A i \in Instrument : stored'[i] = {} => latest'[i] = 0
    BY DEF CandleInv, LatestFollows
<1>3. \A u \in Tasks : fetch'[u].at = "apply" /\ stored'[fetch'[u].who] = {} => fetch'[u].seen = 0
    BY <1>1 DEF CandleInv, LatestFollows
<1>4. ASSUME NEW i \in Instrument, stored'[i] # {}, latest'[i] = 0
      PROVE  \E u \in Tasks : /\ fetch'[u].who = i
                              /\ \/ fetch'[u].at = "stats"
                                 \/ fetch'[u].at = "apply" /\ fetch'[u].seen # 0
  <2>1. PICK u \in Tasks : /\ fetch[u].who = i
                           /\ \/ fetch[u].at = "stats"
                              \/ fetch[u].at = "apply" /\ fetch[u].seen # 0
      BY <1>4 DEF CandleInv, LatestFollows
  <2>2. u # t /\ fetch'[u] = fetch[u]
      BY <1>1, <2>1
  <2>q. QED
      BY <2>1, <2>2
<1>q. QED
    BY <1>2, <1>3, <1>4 DEF LatestFollows

\* What was proven stays proven.
LEMMA ProvenStays ==
    ASSUME CandleInv, noHistory' \subseteq noHistory,
           \A i \in Instrument : accounted[i] \subseteq accounted'[i]
    PROVE  NoHistoryIsProven'
BY DEF CandleInv, CandleTypes, NoHistoryIsProven

\* The step of a task that leaves candles, latest prices and confirmations alone.
LEMMA QuietStep ==
    ASSUME CandleInv, NEW t \in Tasks, NEW f, TaskGoes(t, f), f.at # "apply",
           fetch[t].at \notin {"stats", "apply"},
           Working(f) => /\ Planned(f) /\ 1..f.held \subseteq Seen(f.who)'
                         /\ f.got \subseteq AskedDays(f)
                         /\ f.answered => AskedDays(f) \subseteq accounted'[f.who] \union f.got \union f.lost,
           f.at = "write" => f.answered,
           f.lost # {} => ByDate(f) /\ f.at \notin {"rest", "known", "ask"},
           UNCHANGED <<today, stored, latest, noHistory>>, sweep' \in SweepState
    PROVE  CandleInv' /\ OnlyAnswersReplace
<1>1. CandleTypes'
    BY SeenGrows DEF CandleInv, CandleTypes, TaskGoes
<1>2. PlansReachBack' /\ NothingBeforeIsUnknown' /\ AnswersCover'
    BY TaskKeeps
<1>3. LatestFollows'
    BY LatestKept
<1>4. NoHistoryIsProven'
    BY ProvenStays DEF TaskGoes
<1>5. OnlyAnswersReplace
    BY DEF OnlyAnswersReplace
<1>q. QED
    BY <1>1, <1>2, <1>3, <1>4, <1>5 DEF CandleInv

\* What the invariant says of one task.
LEMMA TaskOf ==
    ASSUME CandleInv, NEW t \in Tasks
    PROVE  /\ fetch[t] \in FetchState /\ t \in DOMAIN fetch
           /\ Working(fetch[t]) => /\ Planned(fetch[t]) /\ AskedDays(fetch[t]) \subseteq Day
                                   /\ \A d \in 1..fetch[t].held : d \in Seen(fetch[t].who)
                                   /\ fetch[t].got \subseteq AskedDays(fetch[t])
                                   /\ fetch[t].answered =>
                                         AskedDays(fetch[t]) \subseteq accounted[fetch[t].who]
                                                            \union fetch[t].got \union fetch[t].lost
           /\ fetch[t].at = "write" => fetch[t].answered
           /\ fetch[t].lost # {} => ByDate(fetch[t]) /\ fetch[t].at \notin {"rest", "known", "ask"}
<1>1. fetch[t] \in FetchState /\ t \in DOMAIN fetch
    BY DEF CandleInv, CandleTypes
<1>2. Working(fetch[t]) => Planned(fetch[t])
    BY DEF CandleInv, PlansReachBack, Planned
<1>3. Working(fetch[t]) => AskedDays(fetch[t]) \subseteq Day
    BY <1>1, <1>2, AskedDaysAre
<1>4. Working(fetch[t]) => \A d \in 1..fetch[t].held : d \in Seen(fetch[t].who)
    BY <1>2 DEF CandleInv, NothingBeforeIsUnknown, Planned
<1>q. QED
    BY <1>1, <1>2, <1>3, <1>4 DEF CandleInv, AnswersCover
-----------------------------------------------------------------------------
(* The steps of the tasks *)

\* A task that begins: where it starts, and that everything it holds is behind it.
LEMMA BeginKeeps ==
    ASSUME CandleInv, NEW t \in Tasks, NEW i \in Instrument,
           NEW kind \in {"chart", "forced", "range", "target"}, Begin(t, i, kind),
           UNCHANGED <<today, stored, latest, noHistory, accounted>>, sweep' \in SweepState
    PROVE  CandleInv' /\ OnlyAnswersReplace
<1>a. PICK held : held = IF kind \in {"chart", "forced"} THEN LastOf(stored[i]) ELSE 0
    OBVIOUS
<1>b. PICK at : at = IF kind = "chart" /\ held = 0 /\ i \in noHistory THEN "known" ELSE "ask"
    OBVIOUS
<1>c. PICK from : from = FirstDay(kind, held)
    OBVIOUS
<1>d. PICK f : f = [At(at) EXCEPT !.who = i, !.kind = kind, !.held = held, !.to = today, !.from = from]
    OBVIOUS
<1>1. /\ fetch[t].at = "rest" /\ fetch' = [fetch EXCEPT ![t] = f]
      /\ stored \in [Instrument -> SUBSET Day] /\ accounted \in [Instrument -> SUBSET Day] /\ today \in Day
    BY <1>a, <1>b, <1>c, <1>d DEF Begin, CandleInv, CandleTypes
<1>2. held \in 0..LastDay /\ (held = 0 \/ held \in stored[i])
    BY <1>a, <1>1, LastOfIs, DayAssumption
<1>3. /\ f.at = at /\ at \in {"known", "ask"} /\ f.who = i /\ f.kind = kind /\ f.held = held
      /\ f.to = today /\ f.from = from /\ f.got = {} /\ f.lost = {} /\ f.answered = FALSE
    BY <1>b, <1>d DEF At
<1>4. from \in Int /\ from >= 1 /\ IF kind = "target" THEN from = today ELSE from = 1 \/ from <= held
  <2>1. CASE kind \in {"chart", "forced"}
    <3>1. from = PlannedFrom(held, today)
        BY <1>c, <2>1 DEF FirstDay
    <3>q. QED
        BY <1>1, <1>2, <2>1, <3>1, PlanReachesBack
  <2>2. CASE kind = "target"
      BY <1>1, <1>c, <2>2 DEF FirstDay, Day
  <2>3. CASE kind = "range"
      BY <1>c, <2>3 DEF FirstDay
  <2>q. QED
      BY <2>1, <2>2, <2>3
<1>5. f \in FetchState
  <2>1. today \in 0..LastDay /\ {} \in SUBSET Day
      BY <1>1, DayAssumption DEF Day
  <2>2. f = [at |-> at, who |-> i, kind |-> kind, from |-> from, to |-> today, held |-> held,
             got |-> {}, lost |-> {}, answered |-> FALSE, seen |-> 0]
      BY <1>d DEF At
  <2>3. /\ at \in {"rest", "known", "ask", "write", "stats", "apply", "settle"}
        /\ i \in Instrument \union {"none"} /\ kind \in {"none", "chart", "forced", "range", "target"}
      BY <1>3
  <2>4. from \in Int /\ held \in 0..LastDay /\ 0 \in Int /\ FALSE \in BOOLEAN
      BY <1>2, <1>4
  <2>q. QED
      BY <2>1, <2>2, <2>3, <2>4 DEF FetchState
<1>6. TaskGoes(t, f)
  <2>1. fetch[t].lost = {}
      BY <1>1, TaskOf
  <2>q. QED
      BY <1>1, <1>5, <2>1 DEF TaskGoes
<1>7. Planned(f)
    BY <1>1, <1>3, <1>4 DEF Planned
<1>8. 1..f.held \subseteq Seen(f.who)'
  <2>1. \A e \in stored[i] : 1..e \subseteq Seen(i)
      BY DEF CandleInv, NothingBeforeIsUnknown
  <2>2. 1..held \subseteq Seen(i)
      BY <1>2, <2>1
  <2>3. Seen(i) \subseteq Seen(i)'
      BY <1>6, SeenGrows
  <2>q. QED
      BY <1>3, <2>2, <2>3
<1>q. QED
    BY <1>1, <1>3, <1>6, <1>7, <1>8, QuietStep

\* A chart, an admin or a preparation asks.
LEMMA AsksKeeps ==
    ASSUME CandleInv, NEW t \in Caller, Asks(t)
    PROVE  CandleInv' /\ OnlyAnswersReplace
<1>1. PICK i \in Instrument, kind \in {"chart", "forced", "range"} : Begin(t, i, kind)
    BY DEF Asks
<1>2. UNCHANGED <<today, stored, latest, noHistory, accounted, sweep>>
    BY DEF Asks
<1>3. t \in Tasks /\ sweep' \in SweepState /\ kind \in {"chart", "forced", "range", "target"}
    BY <1>2 DEF Tasks, CandleInv, CandleTypes
<1>q. QED
    BY <1>1, <1>2, <1>3, BeginKeeps

\* A lane of the sweep takes a symbol.
LEMMA LaneTakesKeeps ==
    ASSUME CandleInv, NEW l \in Lane, LaneTakes(l)
    PROVE  CandleInv' /\ OnlyAnswersReplace
<1>1. PICK i \in sweep.todo : Begin(l, i, "target") /\ sweep' = [sweep EXCEPT !.todo = @ \ {i}]
    BY DEF LaneTakes
<1>2. UNCHANGED <<today, stored, latest, noHistory, accounted>>
    BY DEF LaneTakes
<1>3. l \in Tasks /\ i \in Instrument /\ sweep' \in SweepState
    BY <1>1 DEF Tasks, CandleInv, CandleTypes, SweepState
<1>q. QED
    BY <1>1, <1>2, <1>3, BeginKeeps

\* A task that stops with nothing left to say.
LEMMA StopKeeps ==
    ASSUME CandleInv, NEW t \in Tasks, fetch' = [fetch EXCEPT ![t] = At("rest")], fetch[t].lost = {},
           fetch[t].at \notin {"stats", "apply"},
           UNCHANGED <<today, stored, latest, noHistory, accounted>>, sweep' \in SweepState
    PROVE  CandleInv' /\ OnlyAnswersReplace
<1> DEFINE f == At("rest")
<1>1. f \in FetchState /\ f.at = "rest" /\ f.lost = {}
    BY DayAssumption DEF At, FetchState
<1>2. TaskGoes(t, f)
    BY <1>1 DEF TaskGoes, CandleInv, CandleTypes
<1> HIDE DEF f
<1>3. ~Working(f)
    BY <1>1 DEF Working
<1>q. QED
    BY <1>1, <1>2, <1>3, QuietStep

\* A fresh confirmation answers.
LEMMA KnownEmptyKeeps ==
    ASSUME CandleInv, NEW t \in Tasks, KnownEmpty(t)
    PROVE  CandleInv' /\ OnlyAnswersReplace
<1>1. fetch[t].at = "known" /\ fetch[t].lost = {}
    BY TaskOf DEF KnownEmpty
<1>2. sweep' \in SweepState
    BY DEF KnownEmpty, CandleInv, CandleTypes
<1>q. QED
    BY <1>1, <1>2, StopKeeps DEF KnownEmpty

\* A request for a range fails.
LEMMA FailsKeeps ==
    ASSUME CandleInv, NEW t \in Tasks, ProviderFails(t)
    PROVE  CandleInv' /\ OnlyAnswersReplace
<1>1. fetch[t].at = "ask" /\ fetch[t].lost = {}
    BY TaskOf DEF ProviderFails
<1>2. sweep' \in SweepState
    BY DEF ProviderFails, CandleInv, CandleTypes, SweepState
<1>q. QED
    BY <1>1, <1>2, StopKeeps DEF ProviderFails
LEMMA DisabledKeeps ==
    ASSUME CandleInv, NEW t \in Tasks, ProviderDisabled(t)
    PROVE  CandleInv' /\ OnlyAnswersReplace
<1>1. /\ fetch[t].at = "ask" /\ fetch[t].lost = {}
      /\ UNCHANGED <<today, stored, latest, noHistory, sweep, accounted>>
    BY TaskOf DEF ProviderDisabled
<1>2. sweep' \in SweepState
    BY <1>1 DEF CandleInv, CandleTypes
<1>3. CASE fetch[t].kind = "range"
  <2>1. fetch' = [fetch EXCEPT ![t] = At("rest")]
      BY <1>3 DEF ProviderDisabled
  <2>q. QED
      BY <1>1, <1>2, <2>1, StopKeeps
<1>4. CASE fetch[t].kind # "range"
  <2>1. PICK g : g = fetch[t]
      OBVIOUS
  <2>2. PICK f : f = [g EXCEPT !.at = "settle"]
      OBVIOUS
  <2>3. fetch' = [fetch EXCEPT ![t] = f]
      BY <1>4, <2>1, <2>2, TaskOf DEF ProviderDisabled
  <2>4. /\ g \in FetchState /\ f \in FetchState /\ f.at = "settle" /\ f.who = g.who /\ f.kind = g.kind
        /\ f.from = g.from /\ f.to = g.to /\ f.held = g.held /\ f.got = g.got /\ f.lost = g.lost
        /\ f.answered = g.answered
      BY <2>1, <2>2, TaskOf DEF FetchState
  <2>5. /\ Planned(g) /\ g.got \subseteq AskedDays(g) /\ (\A d \in 1..g.held : d \in Seen(g.who))
        /\ g.answered => AskedDays(g) \subseteq accounted[g.who] \union g.got \union g.lost
      BY <1>1, <2>1, TaskOf DEF Working
  <2>6. TaskGoes(t, f)
      BY <1>1, <2>1, <2>3, <2>4 DEF TaskGoes, CandleInv, CandleTypes
  <2>7. Planned(f) /\ AskedDays(f) = AskedDays(g)
      BY <2>4, <2>5 DEF Planned, AskedDays, ByDate, Bootstrap
  <2>8. 1..f.held \subseteq Seen(f.who)'
    <3>1. Seen(g.who) \subseteq Seen(g.who)'
        BY <2>5, <2>6, SeenGrows DEF Planned
    <3>q. QED
        BY <2>4, <2>5, <3>1
  <2>9. f.lost = {}
      BY <1>1, <2>1, <2>4
  <2>q. QED
      BY <1>1, <1>2, <2>4, <2>5, <2>6, <2>7, <2>8, <2>9, QuietStep
<1>q. QED
    BY <1>3, <1>4

\* An answer: what it lacks is accounted for, what failed is still to be reported.
LEMMA AnswersKeep ==
    ASSUME CandleInv, NEW t \in Tasks, ProviderAnswers(t)
    PROVE  CandleInv' /\ OnlyAnswersReplace
<1>1. PICK g : g = fetch[t]
    OBVIOUS
<1>2. /\ g.at = "ask" /\ g \in FetchState /\ Planned(g) /\ AskedDays(g) \subseteq Day /\ g.lost = {}
      /\ \A d \in 1..g.held : d \in Seen(g.who)
    BY <1>1, TaskOf DEF ProviderAnswers, Working
<1>a. PICK got \in SUBSET AskedDays(g) : \E lost \in SUBSET (AskedDays(g) \ got) :
        /\ ByDate(g) \/ lost = {}
        /\ fetch' = [fetch EXCEPT ![t].at = "write", ![t].got = got, ![t].lost = lost, ![t].answered = TRUE]
        /\ accounted' = [accounted EXCEPT ![g.who] = @ \union (AskedDays(g) \ (got \union lost))]
    BY <1>1 DEF ProviderAnswers
<1>3. PICK lost \in SUBSET (AskedDays(g) \ got) :
        /\ ByDate(g) \/ lost = {}
        /\ fetch' = [fetch EXCEPT ![t].at = "write", ![t].got = got, ![t].lost = lost, ![t].answered = TRUE]
        /\ accounted' = [accounted EXCEPT ![g.who] = @ \union (AskedDays(g) \ (got \union lost))]
    BY <1>a
<1>4. PICK f : f = [g EXCEPT !.at = "write", !.got = got, !.lost = lost, !.answered = TRUE]
    OBVIOUS
<1>5. fetch' = [fetch EXCEPT ![t] = f]
    BY <1>1, <1>3, <1>4, TaskOf
<1>6. /\ f.at = "write" /\ f.who = g.who /\ f.kind = g.kind /\ f.from = g.from /\ f.to = g.to
      /\ f.held = g.held /\ f.got = got /\ f.lost = lost /\ f.answered = TRUE
    BY <1>2, <1>4 DEF FetchState
<1>7. f \in FetchState
  <2>1. got \in SUBSET Day /\ lost \in SUBSET Day
      BY <1>2
  <2>q. QED
      BY <1>2, <1>4, <2>1 DEF FetchState
<1>8. /\ UNCHANGED <<today, stored, latest, noHistory, sweep>> /\ g.who \in Instrument
      /\ stored \in [Instrument -> SUBSET Day] /\ accounted \in [Instrument -> SUBSET Day]
      /\ sweep \in SweepState
    BY <1>2 DEF ProviderAnswers, CandleInv, CandleTypes, Planned
<1>9. /\ accounted' \in [Instrument -> SUBSET Day]
      /\ \A i \in Instrument : accounted[i] \subseteq accounted'[i]
      /\ accounted'[g.who] = accounted[g.who] \union (AskedDays(g) \ (got \union lost))
    BY <1>2, <1>3, <1>8
<1>10. TaskGoes(t, f)
    BY <1>1, <1>2, <1>5, <1>6, <1>7, <1>8, <1>9 DEF TaskGoes
<1>11. Planned(f) /\ AskedDays(f) = AskedDays(g) /\ (ByDate(f) <=> ByDate(g))
    BY <1>2, <1>6 DEF Planned, AskedDays, ByDate, Bootstrap
<1>12. 1..f.held \subseteq Seen(f.who)'
  <2>1. Seen(g.who) \subseteq Seen(g.who)'
      BY <1>8, <1>10, SeenGrows
  <2>q. QED
      BY <1>2, <1>6, <2>1
<1>13. f.got \subseteq AskedDays(f) /\ AskedDays(f) \subseteq accounted'[f.who] \union f.got \union f.lost
    BY <1>6, <1>9, <1>11
<1>14. f.lost # {} => ByDate(f) /\ f.at \notin {"rest", "known", "ask"}
    BY <1>3, <1>6, <1>11
<1>15. fetch[t].at \notin {"stats", "apply"}
    BY <1>1, <1>2
<1>q. QED
    BY <1>6, <1>8, <1>10, <1>11, <1>12, <1>13, <1>14, <1>15, QuietStep
\* A task that goes on with what it asked and had.
LEMMA CarriesOn ==
    ASSUME CandleInv, NEW t \in Tasks, NEW g, g = fetch[t], Working(g), NEW f, f \in FetchState,
           f.who = g.who, f.kind = g.kind, f.from = g.from, f.to = g.to, f.held = g.held, f.got = g.got,
           f.lost = g.lost, f.answered = g.answered, f.at \in {"stats", "apply", "settle"},
           g.at \notin {"known", "ask"},
           fetch' = [fetch EXCEPT ![t] = f],
           stored' \in [Instrument -> SUBSET Day], accounted' \in [Instrument -> SUBSET Day],
           \A i \in Instrument : accounted[i] \subseteq accounted'[i],
           \A i \in Instrument : stored[i] \subseteq stored'[i] \union accounted'[i],
           \A i \in Instrument : \A e \in stored'[i] \ stored[i] : 1..e \subseteq Seen(i)'
    PROVE  TaskGoes(t, f) /\ PlansReachBack' /\ NothingBeforeIsUnknown' /\ AnswersCover'
<1>1. /\ Planned(g) /\ g.got \subseteq AskedDays(g) /\ (\A d \in 1..g.held : d \in Seen(g.who))
      /\ g.answered => AskedDays(g) \subseteq accounted[g.who] \union g.got \union g.lost
      /\ g.lost # {} => ByDate(g) /\ g.at \notin {"rest", "known", "ask"}
    BY TaskOf
<1>2. TaskGoes(t, f)
    BY DEF TaskGoes
<1>3. Planned(f) /\ AskedDays(f) = AskedDays(g) /\ (ByDate(f) <=> ByDate(g)) /\ f.who \in Instrument
    BY <1>1 DEF Planned, AskedDays, ByDate, Bootstrap
<1>4. 1..f.held \subseteq Seen(f.who)'
  <2>1. Seen(g.who) \subseteq Seen(g.who)'
      BY <1>1, <1>2, SeenGrows DEF Planned
  <2>q. QED
      BY <1>1, <2>1
<1>5. /\ f.got \subseteq AskedDays(f)
      /\ (f.answered => AskedDays(f) \subseteq accounted'[f.who] \union f.got \union f.lost)
    BY <1>1, <1>3
<1>6. f.lost # {} => ByDate(f) /\ f.at \notin {"rest", "known", "ask"}
    BY <1>1, <1>3
<1>7. f.at # "write"
    OBVIOUS
<1>q. QED
    BY <1>2, <1>3, <1>4, <1>5, <1>6, <1>7, TaskKeeps

\* What a write leaves of the candles of its instrument, and what it gives up.
LEMMA WriteIs ==
    ASSUME CandleInv, NEW g \in FetchState, Planned(g)
    PROVE  /\ Replaced(g) \in SUBSET Day /\ GivenUp(g) \in SUBSET Day
           /\ stored[g.who] \subseteq Replaced(g) \union GivenUp(g)
           /\ g.got \subseteq Replaced(g) /\ Replaced(g) \subseteq stored[g.who] \union g.got
           /\ stored[g.who] \ Replaced(g) # {} =>
                 g.got # {} /\ stored[g.who] \ Replaced(g) \subseteq g.from..g.to
           /\ Replaced(g) = {} => stored[g.who] = {}
           /\ PassesOver(g) => 1..g.to - 1 \subseteq GivenUp(g)
<1>1. g.got \subseteq Day /\ stored[g.who] \subseteq Day /\ 1..g.to - 1 \subseteq Day
  <2>1. g.to \in Day /\ g.who \in Instrument
      BY DEF Planned
  <2>2. 1..g.to - 1 \subseteq Day
      BY <2>1, DayAssumption DEF Day
  <2>q. QED
      BY <2>1, <2>2 DEF CandleInv, CandleTypes, FetchState
<1>2. /\ Replaced(g) \in SUBSET Day
      /\ g.got \subseteq Replaced(g) /\ Replaced(g) \subseteq stored[g.who] \union g.got
      /\ stored[g.who] \ Replaced(g) # {} =>
            g.got # {} /\ stored[g.who] \ Replaced(g) \subseteq g.from..g.to
      /\ Replaced(g) = {} => stored[g.who] = {}
  <2>1. CASE Isolated(g) \/ g.got = {}
      BY <1>1, <2>1 DEF Replaced
  <2>2. CASE ~(Isolated(g) \/ g.got = {})
      BY <1>1, <2>2 DEF Replaced
  <2>q. QED
      BY <2>1, <2>2
<1>3. /\ GivenUp(g) \in SUBSET Day /\ stored[g.who] \subseteq Replaced(g) \union GivenUp(g)
      /\ PassesOver(g) => 1..g.to - 1 \subseteq GivenUp(g)
    BY <1>1, <1>2 DEF GivenUp, PassesOver
<1>q. QED
    BY <1>2, <1>3

\* The write: every day before a new one was held, asked for or passed over.
LEMMA WrittenKeeps ==
    ASSUME CandleInv, NEW t \in Tasks, CandlesWritten(t)
    PROVE  CandleInv' /\ OnlyAnswersReplace
<1>1. PICK g : g = fetch[t]
    OBVIOUS
<1>2. /\ g.at = "write" /\ g \in FetchState /\ Working(g) /\ Planned(g) /\ g.who \in Instrument
      /\ AskedDays(g) \subseteq accounted[g.who] \union g.got \union g.lost
      /\ \A d \in 1..g.held : d \in Seen(g.who)
      /\ g.got \subseteq AskedDays(g) /\ AskedDays(g) \subseteq Day
    BY <1>1, TaskOf DEF CandlesWritten, Working, Planned
<1>3. PICK new : new = Replaced(g)
    OBVIOUS
<1>4. PICK given : given = GivenUp(g)
    OBVIOUS
<1>5. /\ stored \in [Instrument -> SUBSET Day] /\ accounted \in [Instrument -> SUBSET Day]
      /\ stored' = [stored EXCEPT ![g.who] = new]
      /\ accounted' = [accounted EXCEPT ![g.who] = @ \union given]
      /\ UNCHANGED <<today, latest, noHistory, attempted, sweep, begun>>
    BY <1>1, <1>3, <1>4 DEF CandlesWritten, CandleInv, CandleTypes
<1>6. /\ new \in SUBSET Day /\ given \in SUBSET Day /\ stored[g.who] \subseteq new \union given
      /\ g.got \subseteq new /\ new \subseteq stored[g.who] \union g.got
      /\ stored[g.who] \ new # {} => g.got # {} /\ stored[g.who] \ new \subseteq g.from..g.to
      /\ new = {} => stored[g.who] = {}
      /\ PassesOver(g) => 1..g.to - 1 \subseteq given
    BY <1>2, <1>3, <1>4, WriteIs
<1>7. PICK f : f = [g EXCEPT !.at = "stats"]
    OBVIOUS
<1>8. /\ fetch' = [fetch EXCEPT ![t] = f] /\ f \in FetchState /\ f.at = "stats"
      /\ f.who = g.who /\ f.kind = g.kind /\ f.from = g.from /\ f.to = g.to /\ f.held = g.held
      /\ f.got = g.got /\ f.lost = g.lost /\ f.answered = g.answered
    BY <1>1, <1>2, <1>7, TaskOf DEF CandlesWritten, FetchState
<1>9. /\ stored' \in [Instrument -> SUBSET Day] /\ accounted' \in [Instrument -> SUBSET Day]
      /\ stored'[g.who] = new /\ accounted'[g.who] = accounted[g.who] \union given
      /\ \A i \in Instrument : i # g.who => stored'[i] = stored[i] /\ accounted'[i] = accounted[i]
    BY <1>2, <1>5, <1>6
<1>10. /\ \A i \in Instrument : accounted[i] \subseteq accounted'[i]
       /\ \A i \in Instrument : stored[i] \subseteq stored'[i] \union accounted'[i]
    BY <1>6, <1>9
<1>11. TaskGoes(t, f)
    BY <1>1, <1>8, <1>9, <1>10 DEF TaskGoes
<1>12. /\ fetch' \in [Tasks -> FetchState] /\ fetch'[t] = f
       /\ \A u \in Tasks : u # t => fetch'[u] = fetch[u]
       /\ \A i \in Instrument : Seen(i) \subseteq Seen(i)'
    BY <1>11, SeenGrows
<1>13. ASSUME NEW i \in Instrument, NEW e \in stored'[i] \ stored[i], NEW d \in 1..e
       PROVE  d \in Seen(i)'
  <2>1. i = g.who /\ e \in g.got /\ e \in AskedDays(g) /\ e \in Day /\ d \in Day /\ d <= e
    <3>1. i = g.who /\ e \in g.got /\ e \in AskedDays(g) /\ e \in Day
        BY <1>2, <1>6, <1>9, <1>13
    <3>2. d \in Day /\ d <= e
        BY <3>1, DayAssumption DEF Day
    <3>q. QED
        BY <3>1, <3>2
  <2>2. \/ d \in 1..g.held
        \/ d \in AskedDays(g)
        \/ PassesOver(g) /\ d \in 1..g.to - 1
    <3>1. \A b \in AskedDays(g), c \in Day :
              c <= b => \/ c \in 1..g.held
                        \/ c \in AskedDays(g)
                        \/ (PassesOver(g) /\ c \in 1..g.to - 1)
        BY <1>2, AskedDaysAre
    <3>q. QED
        BY <2>1, <3>1
  <2>3. CASE d \in 1..g.held
      BY <1>2, <1>12, <2>1, <2>3
  <2>4. CASE d \in AskedDays(g)
    <3>1. CASE d \in accounted[g.who] \union g.got
        BY <1>6, <1>9, <2>1, <3>1 DEF Seen
    <3>2. CASE d \in g.lost
      <4>1. d \in Unsettled(i)'
          BY <1>8, <1>12, <2>1, <3>2, UnsettledIs
      <4>q. QED
          BY <4>1 DEF Seen
    <3>q. QED
        BY <1>2, <2>4, <3>1, <3>2
  <2>5. CASE PassesOver(g) /\ d \in 1..g.to - 1
      BY <1>6, <1>9, <2>1, <2>5 DEF Seen
  <2>q. QED
      BY <2>2, <2>3, <2>4, <2>5
<1>14. PlansReachBack' /\ NothingBeforeIsUnknown' /\ AnswersCover'
    BY <1>1, <1>2, <1>8, <1>9, <1>10, <1>13, CarriesOn
<1>15. CandleTypes'
    BY <1>5, <1>9, <1>12 DEF CandleInv, CandleTypes
<1>16. NoHistoryIsProven'
    BY <1>5, <1>10, ProvenStays
<1>17. LatestFollows'
  <2>1. \A i \in Instrument : stored'[i] = {} => stored[i] = {}
      BY <1>6, <1>9
  <2>2. \A i \in Instrument : stored'[i] = {} => latest'[i] = 0
      BY <1>5, <2>1 DEF CandleInv, LatestFollows
  <2>3. ASSUME NEW u \in Tasks, fetch'[u].at = "apply", stored'[fetch'[u].who] = {}
        PROVE  fetch'[u].seen = 0
    <3>1. u # t /\ fetch'[u] = fetch[u]
        BY <1>8, <1>12, <2>3
    <3>2. fetch[u].who \in Instrument
        BY <2>3, <3>1, TaskOf DEF Working, Planned
    <3>q. QED
        BY <2>1, <2>3, <3>1, <3>2 DEF CandleInv, LatestFollows
  <2>4. ASSUME NEW i \in Instrument, stored'[i] # {}, latest'[i] = 0
        PROVE  \E u \in Tasks : /\ fetch'[u].who = i
                                /\ \/ fetch'[u].at = "stats"
                                   \/ fetch'[u].at = "apply" /\ fetch'[u].seen # 0
    <3>1. CASE i = g.who
        BY <1>8, <1>12, <3>1
    <3>2. CASE i # g.who
      <4>1. PICK u \in Tasks : /\ fetch[u].who = i
                               /\ \/ fetch[u].at = "stats"
                                  \/ fetch[u].at = "apply" /\ fetch[u].seen # 0
          BY <1>5, <1>9, <2>4, <3>2 DEF CandleInv, LatestFollows
      <4>2. u # t /\ fetch'[u] = fetch[u]
          BY <1>1, <1>12, <3>2, <4>1
      <4>q. QED
          BY <4>1, <4>2
    <3>q. QED
        BY <3>1, <3>2
  <2>q. QED
      BY <2>2, <2>3, <2>4 DEF LatestFollows
<1>18. OnlyAnswersReplace
  <2>1. ASSUME NEW i \in Instrument, stored[i] \ stored'[i] # {}
        PROVE  /\ fetch[t].who = i /\ fetch[t].got # {}
               /\ stored[i] \ stored'[i] \subseteq fetch[t].from..fetch[t].to
      BY <1>1, <1>6, <1>9, <2>1
  <2>q. QED
      BY <2>1 DEF OnlyAnswersReplace, Tasks
<1>q. QED
    BY <1>14, <1>15, <1>16, <1>17, <1>18 DEF CandleInv

\* The statistics are read.
LEMMA StatsReadKeeps ==
    ASSUME CandleInv, NEW t \in Tasks, StatsRead(t)
    PROVE  CandleInv' /\ OnlyAnswersReplace
<1>1. PICK g : g = fetch[t]
    OBVIOUS
<1>2. PICK last : last = LastOf(stored[g.who])
    OBVIOUS
<1>3. PICK f : f = [g EXCEPT !.at = "apply", !.seen = last]
    OBVIOUS
<1>4. /\ g.at = "stats" /\ g \in FetchState /\ Working(g) /\ g.who \in Instrument
      /\ UNCHANGED <<today, stored, latest, noHistory, attempted, sweep, accounted, begun>>
      /\ stored \in [Instrument -> SUBSET Day] /\ accounted \in [Instrument -> SUBSET Day]
    BY <1>1, TaskOf DEF StatsRead, Working, Planned, CandleInv, CandleTypes
<1>5. last \in Int /\ (stored[g.who] = {} <=> last = 0)
    BY <1>2, <1>4, LastOfIs
<1>6. /\ fetch' = [fetch EXCEPT ![t] = f] /\ f.at = "apply" /\ f.seen = last
      /\ f.who = g.who /\ f.kind = g.kind /\ f.from = g.from /\ f.to = g.to /\ f.held = g.held
      /\ f.got = g.got /\ f.lost = g.lost /\ f.answered = g.answered
    BY <1>1, <1>2, <1>3, <1>4, TaskOf DEF StatsRead, FetchState
<1>7. f \in FetchState
    BY <1>3, <1>4, <1>5 DEF FetchState
<1>8. TaskGoes(t, f) /\ PlansReachBack' /\ NothingBeforeIsUnknown' /\ AnswersCover'
    BY <1>1, <1>4, <1>6, <1>7, CarriesOn
<1>9. /\ fetch' \in [Tasks -> FetchState] /\ fetch'[t] = f
      /\ \A u \in Tasks : u # t => fetch'[u] = fetch[u]
    BY <1>8, SeenGrows
<1>10. CandleTypes'
    BY <1>4, <1>9 DEF CandleInv, CandleTypes
<1>11. NoHistoryIsProven'
    BY <1>4, ProvenStays
<1>12. LatestFollows'
  <2>1. \A i \in Instrument : stored'[i] = {} => latest'[i] = 0
      BY <1>4 DEF CandleInv, LatestFollows
  <2>2. \A u \in Tasks : fetch'[u].at = "apply" /\ stored'[fetch'[u].who] = {} => fetch'[u].seen = 0
      BY <1>4, <1>5, <1>6, <1>9 DEF CandleInv, LatestFollows
  <2>3. ASSUME NEW i \in Instrument, stored'[i] # {}, latest'[i] = 0
        PROVE  \E u \in Tasks : /\ fetch'[u].who = i
                                /\ \/ fetch'[u].at = "stats"
                                   \/ fetch'[u].at = "apply" /\ fetch'[u].seen # 0
    <3>1. PICK u \in Tasks : /\ fetch[u].who = i
                             /\ \/ fetch[u].at = "stats"
                                \/ fetch[u].at = "apply" /\ fetch[u].seen # 0
        BY <1>4, <2>3 DEF CandleInv, LatestFollows
    <3>2. CASE u = t
        BY <1>1, <1>4, <1>5, <1>6, <1>9, <2>3, <3>1, <3>2
    <3>3. CASE u # t
        BY <1>9, <3>1, <3>3
    <3>q. QED
        BY <3>2, <3>3
  <2>q. QED
      BY <2>1, <2>2, <2>3 DEF LatestFollows
<1>13. OnlyAnswersReplace
    BY <1>4 DEF OnlyAnswersReplace
<1>q. QED
    BY <1>8, <1>10, <1>11, <1>12, <1>13 DEF CandleInv

\* They are applied, perhaps after others have written more.
LEMMA StatsAppliedKeeps ==
    ASSUME CandleInv, NEW t \in Tasks, StatsApplied(t)
    PROVE  CandleInv' /\ OnlyAnswersReplace
<1>1. PICK g : g = fetch[t]
    OBVIOUS
<1>2. PICK f : f = IF g.kind = "range" THEN At("rest") ELSE [g EXCEPT !.at = "settle"]
    OBVIOUS
<1>3. /\ g.at = "apply" /\ g \in FetchState /\ Working(g) /\ g.who \in Instrument
      /\ g.lost # {} => ByDate(g)
      /\ UNCHANGED <<today, stored, noHistory, attempted, sweep, accounted, begun>>
      /\ latest' = [latest EXCEPT ![g.who] = IF g.seen = 0 THEN latest[g.who] ELSE g.seen]
      /\ fetch' = [fetch EXCEPT ![t] = f] /\ latest \in [Instrument -> Int]
      /\ stored \in [Instrument -> SUBSET Day] /\ accounted \in [Instrument -> SUBSET Day]
    BY <1>1, <1>2, TaskOf DEF StatsApplied, Working, Planned, CandleInv, CandleTypes
<1>4. /\ latest' \in [Instrument -> Int]
      /\ latest'[g.who] = IF g.seen = 0 THEN latest[g.who] ELSE g.seen
      /\ \A i \in Instrument : i # g.who => latest'[i] = latest[i]
    BY <1>3 DEF FetchState
<1>5. /\ f.at \in {"rest", "settle"} /\ TaskGoes(t, f)
      /\ PlansReachBack' /\ NothingBeforeIsUnknown' /\ AnswersCover'
  <2>1. CASE g.kind = "range"
    <3>1. f = At("rest")
        BY <1>2, <2>1
    <3>2. f \in FetchState /\ f.at = "rest" /\ f.lost = {} /\ ~Working(f)
        BY <3>1, DayAssumption DEF At, FetchState, Working
    <3>3. fetch[t].lost = {}
        BY <1>1, <1>3, <2>1 DEF ByDate
    <3>4. TaskGoes(t, f)
        BY <1>3, <3>2, <3>3 DEF TaskGoes
    <3>5. \A i \in Instrument : \A e \in stored'[i] \ stored[i] : 1..e \subseteq Seen(i)'
        BY <1>3
    <3>q. QED
        BY <3>2, <3>4, <3>5, TaskKeeps
  <2>2. CASE g.kind # "range"
    <3>1. /\ f \in FetchState /\ f.at = "settle"
          /\ f.who = g.who /\ f.kind = g.kind /\ f.from = g.from /\ f.to = g.to /\ f.held = g.held
          /\ f.got = g.got /\ f.lost = g.lost /\ f.answered = g.answered
        BY <1>2, <1>3, <2>2 DEF FetchState
    <3>q. QED
        BY <1>1, <1>3, <3>1, CarriesOn
  <2>q. QED
      BY <2>1, <2>2
<1>6. /\ fetch' \in [Tasks -> FetchState] /\ fetch'[t] = f
      /\ \A u \in Tasks : u # t => fetch'[u] = fetch[u]
    BY <1>5, SeenGrows
<1>7. CandleTypes'
    BY <1>3, <1>4, <1>6 DEF CandleInv, CandleTypes
<1>8. NoHistoryIsProven'
    BY <1>3, ProvenStays
<1>9. LatestFollows'
  <2>1. \A i \in Instrument : stored'[i] = {} => latest'[i] = 0
    <3>1. stored[g.who] = {} => g.seen = 0
        BY <1>1, <1>3 DEF CandleInv, LatestFollows
    <3>q. QED
        BY <1>3, <1>4, <3>1 DEF CandleInv, LatestFollows
  <2>2. \A u \in Tasks : fetch'[u].at = "apply" /\ stored'[fetch'[u].who] = {} => fetch'[u].seen = 0
      BY <1>3, <1>5, <1>6 DEF CandleInv, LatestFollows
  <2>3. ASSUME NEW i \in Instrument, stored'[i] # {}, latest'[i] = 0
        PROVE  \E u \in Tasks : /\ fetch'[u].who = i
                                /\ \/ fetch'[u].at = "stats"
                                   \/ fetch'[u].at = "apply" /\ fetch'[u].seen # 0
    <3>1. stored[i] # {} /\ latest[i] = 0
        BY <1>3, <1>4, <2>3
    <3>2. PICK u \in Tasks : /\ fetch[u].who = i
                             /\ \/ fetch[u].at = "stats"
                                \/ fetch[u].at = "apply" /\ fetch[u].seen # 0
        BY <3>1 DEF CandleInv, LatestFollows
    <3>3. CASE u = t
        BY <1>1, <1>3, <1>4, <2>3, <3>2, <3>3
    <3>4. CASE u # t
        BY <1>6, <3>2, <3>4
    <3>q. QED
        BY <3>3, <3>4
  <2>q. QED
      BY <2>1, <2>2, <2>3 DEF LatestFollows
<1>10. OnlyAnswersReplace
    BY <1>3 DEF OnlyAnswersReplace
<1>q. QED
    BY <1>5, <1>7, <1>8, <1>9, <1>10 DEF CandleInv

\* The end of a refresh: what failed is reported, and an empty history is proven.
LEMMA SettleKeeps ==
    ASSUME CandleInv, NEW t \in Tasks, Settle(t)
    PROVE  CandleInv' /\ OnlyAnswersReplace
<1>1. PICK g : g = fetch[t]
    OBVIOUS
<1>2. PICK f : f = At("rest")
    OBVIOUS
<1>3. /\ g.at = "settle" /\ g \in FetchState /\ Working(g) /\ Planned(g) /\ g.who \in Instrument
      /\ g.answered => AskedDays(g) \subseteq accounted[g.who] \union g.got \union g.lost
      /\ UNCHANGED <<today, stored, latest, sweep, begun>>
      /\ accounted' = [accounted EXCEPT ![g.who] = @ \union g.lost]
      /\ fetch' = [fetch EXCEPT ![t] = f]
      /\ stored \in [Instrument -> SUBSET Day] /\ accounted \in [Instrument -> SUBSET Day]
    BY <1>1, <1>2, TaskOf DEF Settle, Working, Planned, CandleInv, CandleTypes
<1>4. /\ accounted' \in [Instrument -> SUBSET Day]
      /\ \A i \in Instrument : accounted[i] \subseteq accounted'[i]
      /\ g.lost \subseteq accounted'[g.who]
    BY <1>3 DEF FetchState
<1>5. f \in FetchState /\ f.at = "rest" /\ f.lost = {} /\ ~Working(f)
    BY <1>2, DayAssumption DEF At, FetchState, Working
<1>6. TaskGoes(t, f)
    BY <1>1, <1>3, <1>4, <1>5 DEF TaskGoes
<1>7. PlansReachBack' /\ NothingBeforeIsUnknown' /\ AnswersCover'
  <2>1. \A i \in Instrument : \A e \in stored'[i] \ stored[i] : 1..e \subseteq Seen(i)'
      BY <1>3
  <2>q. QED
      BY <1>5, <1>6, <2>1, TaskKeeps
<1>8. LatestFollows'
    BY <1>1, <1>3, <1>5, <1>6, LatestKept
<1>9. noHistory' \subseteq noHistory \union {g.who} /\ (noHistory' \subseteq noHistory \/ ConfirmedEmpty(g))
    BY <1>1 DEF Settle
<1>10. ConfirmedEmpty(g) => g.who \notin MinuteFed /\ 1 \in accounted[g.who]
  <2> SUFFICES ASSUME ConfirmedEmpty(g) PROVE g.who \notin MinuteFed /\ 1 \in accounted[g.who]
      OBVIOUS
  <2>1. /\ g.kind \in {"chart", "forced"} /\ g.held = 0 /\ g.got = {} /\ g.lost = {}
        /\ g.answered /\ ~ByDate(g)
      BY DEF ConfirmedEmpty, Bootstrap
  <2>2. g.from = 1 /\ g.to \in Day /\ AskedDays(g) = g.from..g.to
      BY <1>3, <2>1 DEF Planned, AskedDays, FetchState
  <2>3. 1 \in AskedDays(g)
      BY <2>2, DayAssumption DEF Day
  <2>q. QED
      BY <1>3, <2>1, <2>3 DEF ByDate
<1>11. NoHistoryIsProven'
    BY <1>3, <1>4, <1>9, <1>10 DEF NoHistoryIsProven, CandleInv, CandleTypes
<1>12. CandleTypes'
    BY <1>3, <1>4, <1>6, <1>9, SeenGrows DEF CandleInv, CandleTypes
<1>13. OnlyAnswersReplace
    BY <1>3 DEF OnlyAnswersReplace
<1>q. QED
    BY <1>7, <1>8, <1>11, <1>12, <1>13 DEF CandleInv

-----------------------------------------------------------------------------
(* The sweep and time *)

\* A step that leaves tasks, candles and what is accounted for alone.
LEMMA OtherStep ==
    ASSUME CandleInv, UNCHANGED <<stored, latest, fetch, accounted>>, noHistory' \subseteq noHistory,
           today' \in Day, sweep' \in SweepState
    PROVE  CandleInv' /\ OnlyAnswersReplace
<1>1. CandleTypes'
    BY DEF CandleInv, CandleTypes
<1>2. \A i : Unsettled(i)' = Unsettled(i)
    BY DEF Unsettled
<1>3. NothingBeforeIsUnknown'
    BY <1>2 DEF CandleInv, NothingBeforeIsUnknown, Seen, Working
<1>4. PlansReachBack' /\ AnswersCover'
    BY DEF CandleInv, PlansReachBack, AnswersCover, Working
<1>5. LatestFollows'
    BY DEF CandleInv, LatestFollows
<1>6. NoHistoryIsProven'
    BY ProvenStays
<1>7. OnlyAnswersReplace
    BY DEF OnlyAnswersReplace
<1>q. QED
    BY <1>1, <1>3, <1>4, <1>5, <1>6, <1>7 DEF CandleInv

-----------------------------------------------------------------------------
(* The invariant *)

\* It holds in the beginning.
LEMMA CandlesBegin == CandleInit => CandleInv
<1> SUFFICES ASSUME CandleInit PROVE CandleInv
    OBVIOUS
<1>1. At("rest") \in FetchState /\ At("rest").at = "rest" /\ At("rest").lost = {}
    BY DayAssumption DEF At, FetchState
<1>2. fetch \in [Tasks -> FetchState] /\ \A t \in Tasks : fetch[t] = At("rest")
    BY <1>1 DEF CandleInit, Tasks
<1>3. CandleTypes
    BY <1>2, DayAssumption DEF CandleInit, CandleTypes, Day, NoSweep, SweepState
<1>4. PlansReachBack /\ AnswersCover
    BY <1>1, <1>2 DEF PlansReachBack, AnswersCover, Working
<1>5. NothingBeforeIsUnknown
    BY <1>1, <1>2 DEF CandleInit, NothingBeforeIsUnknown, Working
<1>6. LatestFollows
    BY <1>1, <1>2 DEF CandleInit, LatestFollows
<1>7. NoHistoryIsProven
    BY DEF CandleInit, NoHistoryIsProven
<1>q. QED
    BY <1>3, <1>4, <1>5, <1>6, <1>7 DEF CandleInv

\* Every step keeps it, and takes candles away only for an answer.
LEMMA CandlesStep ==
    CandleInv /\ [CandleNext]_candleVars => CandleInv' /\ [OnlyAnswersReplace]_candleVars
<1> SUFFICES ASSUME CandleInv, [CandleNext]_candleVars PROVE CandleInv' /\ OnlyAnswersReplace
    OBVIOUS
<1>1. ASSUME NEW t \in Caller, Asks(t) PROVE CandleInv' /\ OnlyAnswersReplace
    BY <1>1, AsksKeeps
<1>2. ASSUME NEW l \in Lane, LaneTakes(l) PROVE CandleInv' /\ OnlyAnswersReplace
    BY <1>2, LaneTakesKeeps
<1>3. ASSUME NEW t \in Tasks, FetchStep(t) PROVE CandleInv' /\ OnlyAnswersReplace
  <2>1. CASE KnownEmpty(t)
      BY <2>1, KnownEmptyKeeps
  <2>2. CASE ProviderAnswers(t)
      BY <2>2, AnswersKeep
  <2>3. CASE ProviderDisabled(t)
      BY <2>3, DisabledKeeps
  <2>4. CASE ProviderFails(t)
      BY <2>4, FailsKeeps
  <2>5. CASE CandlesWritten(t)
      BY <2>5, WrittenKeeps
  <2>6. CASE StatsRead(t)
      BY <2>6, StatsReadKeeps
  <2>7. CASE StatsApplied(t)
      BY <2>7, StatsAppliedKeeps
  <2>8. CASE Settle(t)
      BY <2>8, SettleKeeps
  <2>q. QED
      BY <1>3, <2>1, <2>2, <2>3, <2>4, <2>5, <2>6, <2>7, <2>8 DEF FetchStep
<1>a. today \in Day /\ sweep \in SweepState
    BY DEF CandleInv, CandleTypes
<1>4. CASE SweepStarts
  <2>1. sweep' \in SweepState
      BY <1>4, <1>a DEF SweepStarts, SweepState, Day
  <2>q. QED
      BY <1>4, <1>a, <2>1, OtherStep DEF SweepStarts
<1>5. CASE SweepEnds
  <2>1. sweep' \in SweepState
      BY <1>5 DEF SweepEnds, NoSweep, SweepState
  <2>q. QED
      BY <1>5, <1>a, <2>1, OtherStep DEF SweepEnds
<1>6. CASE DayPasses
  <2>1. today' \in Day
      BY <1>6, <1>a, DayAssumption DEF DayPasses, Day
  <2>q. QED
      BY <1>6, <1>a, <2>1, OtherStep DEF DayPasses
<1>7. CASE AttemptAges
    BY <1>7, <1>a, OtherStep DEF AttemptAges
<1>8. CASE RecheckDue
    BY <1>8, <1>a, OtherStep DEF RecheckDue
<1>9. CASE UNCHANGED candleVars
    BY <1>9, <1>a, OtherStep DEF candleVars
<1>q. QED
    BY <1>1, <1>2, <1>3, <1>4, <1>5, <1>6, <1>7, <1>8, <1>9 DEF CandleNext, Tasks

\* The invariant says what the properties of the state say.
LEMMA CandlesAreRight ==
    CandleInv => HolesAreAccountedFor /\ BootstrapFindsTheEmpty /\ NoHistoryIsProven
<1> SUFFICES ASSUME CandleInv PROVE HolesAreAccountedFor /\ BootstrapFindsTheEmpty /\ NoHistoryIsProven
    OBVIOUS
<1>1. ASSUME NEW i \in Instrument, NEW d \in Holes(i) PROVE d \in accounted[i] \union Unsettled(i)
  <2>1. /\ stored[i] \in SUBSET Day /\ d \in Day /\ d \notin stored[i] /\ d < LastOf(stored[i])
        /\ stored[i] # {}
      BY <1>1 DEF Holes, CandleInv, CandleTypes
  <2>2. LastOf(stored[i]) \in stored[i] /\ LastOf(stored[i]) \in Int
      BY <2>1, LastOfIs, DayAssumption DEF Day
  <2>3. 1..LastOf(stored[i]) \subseteq Seen(i)
      BY <2>2 DEF CandleInv, NothingBeforeIsUnknown
  <2>4. d \in 1..LastOf(stored[i])
      BY <2>1, <2>2 DEF Day
  <2>q. QED
      BY <2>1, <2>3, <2>4 DEF Seen
<1>2. HolesAreAccountedFor
    BY <1>1 DEF HolesAreAccountedFor
<1>3. BootstrapFindsTheEmpty
    BY DEF CandleInv, LatestFollows, BootstrapFindsTheEmpty, Tasks
<1>q. QED
    BY <1>2, <1>3 DEF CandleInv

\* What is stored is kept, and what is missing is known: no day before a stored one is missing in
\* silence, the bootstrap query finds who is empty, a confirmation was earned, and candles go only
\* when an answer for their range replaces them (candle-sync.ts:760-849, candles.ts:444-449).
THEOREM CandlesAreKept == CandleSpec => CandlesAreAccountedFor
<1>1. CandleInit => CandleInv
    BY CandlesBegin
<1>2. CandleInv /\ [CandleNext]_candleVars => CandleInv' /\ [OnlyAnswersReplace]_candleVars
    BY CandlesStep
<1>3. CandleInv => HolesAreAccountedFor /\ BootstrapFindsTheEmpty /\ NoHistoryIsProven
    BY CandlesAreRight
<1>q. QED
    BY <1>1, <1>2, <1>3, PTL DEF CandleSpec, CandlesAreAccountedFor

-----------------------------------------------------------------------------
(* Snapshots: the inductive invariant *)

Row == [kind : {"row"}, release : Nat, week : Nat, taxonomy : Nat, data : Nat, late : BOOLEAN]

Asked == [week : Nat, taxonomy : Nat]

View ==
    {IdleView}
    \union [at : {"asked"}, release : Nat, asked : Asked]
    \union [at : {"computed"}, release : Nat, asked : Asked, data : Nat, taxonomy : Nat,
            late : BOOLEAN]
    \union [at : {"answered"}, release : Nat, asked : Asked, got : Row]

Kind == {"sync", "import", "indices"}

Run ==
    [at : {"idle", "classified"}]
    \union [at : {"stored", "deleted"}, kind : Kind, data : [Scope -> Nat]]

\* Types of the row, the requests and the runs.
Types ==
    /\ {week, release, taxonomy} \subseteq Nat
    /\ data \in [Scope -> Nat] /\ told \in [Scope -> Nat]
    /\ key \in SnapshotKey /\ key.scope \in Scope
    /\ snapshot \in Row \union {NoSnapshot}
    /\ viewing \in [Viewing -> View]
    /\ writing \in [Writing -> Run]

\* A deletion is for data that were stored before.
ToldOfStored ==
    /\ \A s \in Scope : told[s] <= data[s]
    /\ \A w \in Writing : writing[w].at \in {"stored", "deleted"} =>
          \A s \in Scope : writing[w].data[s] <= data[s]

\* A row, stored or about to be, has all that its scope was told of, or a deletion overtook it.
Due(row) == row.data >= told[key.scope] \/ row.late

RowsAreDue ==
    /\ snapshot # NoSnapshot => Due(snapshot)
    /\ \A v \in Viewing : viewing[v].at = "computed" => Due(viewing[v])

\* What a request has read of the week and the members is not of the future, and what it has
\* computed is not older.
RequestsInOrder ==
    \A v \in Viewing :
        /\ viewing[v].at \in {"asked", "computed"} =>
              viewing[v].asked.week <= week /\ viewing[v].asked.taxonomy <= taxonomy
        /\ viewing[v].at = "computed" => viewing[v].taxonomy >= viewing[v].asked.taxonomy

IInv == Types /\ ToldOfStored /\ RowsAreDue /\ RequestsInOrder /\ AnswersSuitTheRequest

-----------------------------------------------------------------------------
(* Initially *)

\* The initial state satisfies the invariant: no row, no request and no run.
LEMMA InitIInv == SnapshotsInit => IInv
<1> SUFFICES ASSUME SnapshotsInit PROVE IInv
    OBVIOUS
<1>1. key \in SnapshotKey /\ key.scope \in Scope
    BY DEF SnapshotsInit, SnapshotKey, Strength, Indices, Weekly, Scope
<1>2. Types
    BY <1>1 DEF SnapshotsInit, Types, View, Run
<1>3. ToldOfStored
    BY DEF SnapshotsInit, ToldOfStored
<1>4. RowsAreDue /\ RequestsInOrder /\ AnswersSuitTheRequest
    BY DEF SnapshotsInit, RowsAreDue, RequestsInOrder, AnswersSuitTheRequest, IdleView
<1>q. QED
    BY <1>2, <1>3, <1>4 DEF IInv

-----------------------------------------------------------------------------
(* Readers *)

\* What an answer promises.
Suits(view) ==
    /\ view.got.release = view.release
    /\ key \in Weekly => view.got.week >= view.asked.week
    /\ key # Indices => view.got.taxonomy >= view.asked.taxonomy

\* What one request may become without disturbing the invariant.
Sound(new) ==
    /\ new.at \in {"asked", "computed"} =>
          new.asked.week <= week /\ new.asked.taxonomy <= taxonomy
    /\ new.at = "computed" => new.taxonomy >= new.asked.taxonomy /\ Due(new)
    /\ new.at = "answered" => Suits(new)

\* A request moves on, and perhaps stores its row.
LEMMA ViewMoves ==
    ASSUME IInv, NEW v \in Viewing, NEW new \in View, Sound(new),
           viewing' = [viewing EXCEPT ![v] = new],
           snapshot' \in Row \union {NoSnapshot}, snapshot' # NoSnapshot => Due(snapshot'),
           UNCHANGED <<week, release, taxonomy, data, told, writing, key>>
    PROVE  IInv'
<1> USE DEF IInv
<1>1. viewing'[v] = new /\ \A u \in Viewing \ {v} : viewing'[u] = viewing[u]
    BY DEF Types
<1>2. Types'
    BY DEF Types
<1>3. ToldOfStored'
    BY DEF ToldOfStored
<1>4. RowsAreDue'
    BY <1>1 DEF RowsAreDue, Sound, Due
<1>5. RequestsInOrder'
    BY <1>1 DEF RequestsInOrder, Sound
<1>6. AnswersSuitTheRequest'
    BY <1>1 DEF AnswersSuitTheRequest, Sound, Suits
<1>q. QED
    BY <1>2, <1>3, <1>4, <1>5, <1>6

\* The row that stands there stays there.
LEMMA SameRow ==
    ASSUME IInv, UNCHANGED <<snapshot, told, key>>
    PROVE  snapshot' \in Row \union {NoSnapshot} /\ (snapshot' # NoSnapshot => Due(snapshot'))
BY DEF IInv, Types, RowsAreDue

\* A request begins: it has read the week and the members of now.
LEMMA AskedKeeps ==
    ASSUME IInv, NEW v \in Viewing, NEW r \in 0..release, ViewAsked(v, r)
    PROVE  IInv'
<1> DEFINE new == [at |-> "asked", release |-> r, asked |-> [week |-> week, taxonomy |-> taxonomy]]
<1>1. week \in Nat /\ taxonomy \in Nat /\ r \in Nat
    BY DEF IInv, Types
<1>2. new \in View
    BY <1>1 DEF View, Asked
<1>3. Sound(new)
    BY <1>1 DEF Sound
<1>4. viewing' = [viewing EXCEPT ![v] = new]
    BY DEF ViewAsked
<1> HIDE DEF new
<1>q. QED
    BY <1>2, <1>3, <1>4, SameRow, ViewMoves DEF ViewAsked

\* What a request that has not been answered yet has read.
LEMMA AskedTypes ==
    ASSUME IInv, NEW v \in Viewing, viewing[v].at \in {"asked", "computed"}
    PROVE  viewing[v].release \in Nat /\ viewing[v].asked \in Asked
BY DEF IInv, Types, View, IdleView

\* A hit: a row of the request's formula, of the latest week, under the sectors of now.
LEMMA HitKeeps == ASSUME IInv, NEW v \in Viewing, ViewHit(v) PROVE IInv'
<1> DEFINE row == [snapshot EXCEPT !.taxonomy = Projected]
           new == [at |-> "answered", release |-> viewing[v].release,
                   asked |-> viewing[v].asked, got |-> row]
<1>1. /\ viewing[v].at = "asked" /\ snapshot \in Row /\ taxonomy \in Nat /\ week \in Nat
      /\ snapshot.release = viewing[v].release /\ (key \in Weekly => snapshot.week = week)
    BY DEF ViewHit, Hit, IInv, Types
<1>2. viewing[v].release \in Nat /\ viewing[v].asked \in Asked
    BY <1>1, AskedTypes
<1>3. viewing[v].asked.week <= week /\ viewing[v].asked.taxonomy <= taxonomy
    BY <1>1 DEF IInv, RequestsInOrder
<1>4. /\ row \in Row /\ row.release = snapshot.release /\ row.week = snapshot.week
      /\ row.taxonomy = Projected
    BY <1>1 DEF Row, Projected
<1>5. viewing' = [viewing EXCEPT ![v] = new]
    BY DEF ViewHit, ViewAnswer, IInv, Types
<1> HIDE DEF row
<1>6. new \in View
    BY <1>2, <1>4 DEF View
<1>7. Sound(new)
    BY <1>1, <1>2, <1>3, <1>4 DEF Sound, Suits, Projected, Asked
<1> HIDE DEF new
<1>q. QED
    BY <1>5, <1>6, <1>7, SameRow, ViewMoves DEF ViewHit

\* A miss: what is computed has everything that is stored now, so everything told of.
LEMMA ComputesKeeps == ASSUME IInv, NEW v \in Viewing, ViewComputes(v) PROVE IInv'
<1> DEFINE new == [at |-> "computed", release |-> viewing[v].release, asked |-> viewing[v].asked,
                   data |-> data[key.scope], taxonomy |-> taxonomy, late |-> FALSE]
<1>1. /\ viewing[v].at = "asked" /\ taxonomy \in Nat
      /\ data[key.scope] \in Nat /\ told[key.scope] \in Nat /\ told[key.scope] <= data[key.scope]
    BY DEF ViewComputes, IInv, Types, ToldOfStored
<1>2. viewing[v].release \in Nat /\ viewing[v].asked \in Asked
    BY <1>1, AskedTypes
<1>3. viewing[v].asked.week <= week /\ viewing[v].asked.taxonomy <= taxonomy
    BY <1>1 DEF IInv, RequestsInOrder
<1>4. new \in View
    BY <1>1, <1>2 DEF View
<1>5. Sound(new)
    BY <1>1, <1>2, <1>3 DEF Sound, Due, Asked
<1>6. viewing' = [viewing EXCEPT ![v] = new]
    BY DEF ViewComputes, IInv, Types
<1> HIDE DEF new
<1>q. QED
    BY <1>4, <1>5, <1>6, SameRow, ViewMoves DEF ViewComputes

\* The computed row is stored over whatever stands there by now.
LEMMA WritesKeeps == ASSUME IInv, NEW v \in Viewing, ViewWrites(v) PROVE IInv'
<1> DEFINE view == viewing[v]
           row == [kind |-> "row", release |-> view.release, week |-> week,
                   taxonomy |-> view.taxonomy, data |-> view.data, late |-> view.late]
           new == [at |-> "answered", release |-> view.release, asked |-> view.asked, got |-> row]
<1>1. view.at = "computed" /\ view \in View /\ week \in Nat
    BY DEF ViewWrites, IInv, Types
<1>2. /\ view.release \in Nat /\ view.asked \in Asked /\ view.taxonomy \in Nat
      /\ view.data \in Nat /\ view.late \in BOOLEAN
    BY <1>1 DEF View, IdleView
<1>3. /\ view.asked.week <= week /\ view.taxonomy >= view.asked.taxonomy
      /\ view.data >= told[key.scope] \/ view.late
    BY <1>1 DEF IInv, RequestsInOrder, RowsAreDue, Due
<1>4. snapshot' = row /\ viewing' = [viewing EXCEPT ![v] = new]
    BY DEF ViewWrites, ViewAnswer, IInv, Types
<1>5. row \in Row
    BY <1>1, <1>2 DEF Row
<1>6. Due(row)
    BY <1>3 DEF Due
<1>7. /\ row.release = view.release /\ row.week = week /\ row.taxonomy = view.taxonomy
    OBVIOUS
<1> HIDE DEF row
<1>8. new \in View
    BY <1>2, <1>5 DEF View
<1>9. Sound(new)
    BY <1>3, <1>7 DEF Sound, Suits
<1> HIDE DEF new
<1>q. QED
    BY <1>4, <1>5, <1>6, <1>8, <1>9, ViewMoves DEF ViewWrites

\* An answered request ends.
LEMMA EndsKeeps == ASSUME IInv, NEW v \in Viewing, ViewEnds(v) PROVE IInv'
<1>1. IdleView \in View /\ Sound(IdleView)
    BY DEF View, Sound, IdleView
<1>q. QED
    BY <1>1, SameRow, ViewMoves DEF ViewEnds

-----------------------------------------------------------------------------
(* Changers *)

\* What a run may become.
Honest(new) == new.at \in {"stored", "deleted"} => \A s \in Scope : new.data[s] <= data'[s]

\* A run moves on; what is stored, the members and the formulas may grow, rows and requests stay.
LEMMA RunMoves ==
    ASSUME IInv, NEW w \in Writing, NEW new \in Run, Honest(new),
           writing' = [writing EXCEPT ![w] = new],
           data' \in [Scope -> Nat], \A s \in Scope : data[s] <= data'[s],
           taxonomy' \in Nat, taxonomy <= taxonomy',
           UNCHANGED <<week, release, told, snapshot, viewing, key>>
    PROVE  IInv'
<1> USE DEF IInv
<1>1. writing'[w] = new /\ \A x \in Writing \ {w} : writing'[x] = writing[x]
    BY DEF Types
<1>2. Types'
    BY DEF Types
<1>3. ToldOfStored'
  <2>1. \A s \in Scope : told[s] \in Nat /\ data[s] \in Nat /\ data'[s] \in Nat
      BY DEF Types
  <2>2. \A s \in Scope : told'[s] <= data'[s]
      BY <2>1 DEF ToldOfStored
  <2>3. ASSUME NEW x \in Writing, writing'[x].at \in {"stored", "deleted"}, NEW s \in Scope
        PROVE  writing'[x].data[s] <= data'[s]
    <3>1. CASE x = w
        BY <1>1, <2>3, <3>1 DEF Honest
    <3>2. CASE x # w
      <4>1. writing[x].data[s] \in Nat /\ writing[x].data[s] <= data[s]
          BY <1>1, <2>3, <3>2 DEF Types, Run, ToldOfStored
      <4>q. QED
          BY <1>1, <2>1, <3>2, <4>1
    <3>q. QED
        BY <3>1, <3>2
  <2>q. QED
      BY <2>2, <2>3 DEF ToldOfStored
<1>4. RowsAreDue'
    BY DEF RowsAreDue, Due
<1>5. RequestsInOrder'
  <2> SUFFICES ASSUME NEW v \in Viewing, viewing[v].at \in {"asked", "computed"}
               PROVE  viewing[v].asked.taxonomy <= taxonomy'
      BY DEF RequestsInOrder
  <2>1. viewing[v].asked.taxonomy \in Nat
      BY AskedTypes DEF Asked
  <2>2. viewing[v].asked.taxonomy <= taxonomy /\ taxonomy \in Nat
      BY DEF RequestsInOrder, Types
  <2>q. QED
      BY <2>1, <2>2
<1>6. AnswersSuitTheRequest'
    BY DEF AnswersSuitTheRequest
<1>q. QED
    BY <1>2, <1>3, <1>4, <1>5, <1>6

\* A run stores its rows.
LEMMA StoredKeeps ==
    ASSUME IInv, NEW w \in Writing, NEW kind \in Kind, DataStored(w, kind)
    PROVE  IInv'
<1> DEFINE new == [at |-> "stored", kind |-> kind, data |-> data']
<1>1. data \in [Scope -> Nat] /\ Changed(kind) \in Scope /\ taxonomy \in Nat
    BY DEF IInv, Types, Changed, Scope
<1>2. data' = [data EXCEPT ![Changed(kind)] = data[Changed(kind)] + 1]
    BY DEF DataStored
<1>3. data' \in [Scope -> Nat] /\ \A s \in Scope : data[s] <= data'[s]
    BY <1>1, <1>2
<1>4. new \in Run
    BY <1>3 DEF Run
<1>5. Honest(new)
    BY <1>3 DEF Honest
<1>6. /\ writing' = [writing EXCEPT ![w] = new] /\ taxonomy' \in Nat /\ taxonomy <= taxonomy'
      /\ UNCHANGED <<week, release, told, snapshot, viewing, key>>
    BY <1>1 DEF DataStored
<1> HIDE DEF new
<1>q. QED
    BY <1>3, <1>4, <1>5, <1>6, RunMoves

\* Rows of a scope are deleted: what a reader is still computing of it will be late.
LEMMA DeletesKeeps ==
    ASSUME IInv, NEW w \in Writing, NEW s \in Scope, Deletes(w, s),
           writing[w].at \in {"stored", "deleted"},
           NEW new \in Run, new.at \in {"stored", "deleted"} => new.data = writing[w].data,
           writing' = [writing EXCEPT ![w] = new],
           UNCHANGED <<week, release, taxonomy, data, key>>
    PROVE  IInv'
<1> USE DEF IInv
<1>0. key \in KeysOf(s) <=> key.scope = s
    BY DEF KeysOf, Types
<1>1. writing[w].data \in [Scope -> Nat] /\ writing[w].data[s] <= data[s]
    BY DEF Types, Run, ToldOfStored
<1>2. /\ told' \in [Scope -> Nat] /\ told'[s] <= data[s] /\ told[s] <= told'[s]
      /\ \A x \in Scope \ {s} : told'[x] = told[x]
    BY <1>1 DEF Deletes, Types, ToldOfStored
<1>3. \A v \in Viewing :
        \/ viewing'[v] = viewing[v] /\ ~(viewing[v].at = "computed" /\ key.scope = s)
        \/ /\ viewing[v].at = "computed" /\ key.scope = s
           /\ viewing'[v] = [viewing[v] EXCEPT !.late = TRUE]
    BY DEF Deletes
<1>4. ASSUME NEW v \in Viewing, viewing[v].at = "computed",
             viewing'[v] = [viewing[v] EXCEPT !.late = TRUE]
      PROVE  /\ viewing'[v] \in View /\ viewing'[v].at = "computed" /\ viewing'[v].late
             /\ viewing'[v].asked = viewing[v].asked /\ viewing'[v].taxonomy = viewing[v].taxonomy
  <2>1. viewing[v] \in [at : {"computed"}, release : Nat, asked : Asked, data : Nat,
                        taxonomy : Nat, late : BOOLEAN]
      BY <1>4 DEF Types, View, IdleView
  <2>2. viewing'[v] \in [at : {"computed"}, release : Nat, asked : Asked, data : Nat,
                         taxonomy : Nat, late : BOOLEAN]
      BY <1>4, <2>1
  <2>3. viewing'[v] \in View /\ viewing'[v].at = "computed"
      BY <2>2 DEF View
  <2>4. viewing'[v].late
      BY <1>4, <2>1
  <2>5. viewing'[v].asked = viewing[v].asked /\ viewing'[v].taxonomy = viewing[v].taxonomy
      BY <1>4, <2>1
  <2>q. QED
      BY <2>3, <2>4, <2>5
<1>5. \A v \in Viewing : viewing'[v] \in View
    BY <1>3, <1>4 DEF Types
<1>6. viewing' \in [Viewing -> View]
    BY <1>5 DEF Deletes
<1>7. snapshot' \in Row \union {NoSnapshot}
    BY DEF Deletes, Types
<1>8. writing'[w] = new /\ \A x \in Writing \ {w} : writing'[x] = writing[x]
    BY DEF Types
<1>9. Types'
  <2>1. writing' \in [Writing -> Run]
      BY DEF Types
  <2>q. QED
      BY <1>2, <1>6, <1>7, <2>1 DEF Types
<1>10. ToldOfStored'
  <2>1. \A x \in Scope : told'[x] <= data'[x]
      BY <1>2 DEF ToldOfStored
  <2>2. ASSUME NEW x \in Writing, writing'[x].at \in {"stored", "deleted"}, NEW y \in Scope
        PROVE  writing'[x].data[y] <= data'[y]
      BY <1>8, <2>2 DEF ToldOfStored
  <2>q. QED
      BY <2>1, <2>2 DEF ToldOfStored
<1>11. RowsAreDue'
  <2>1. ASSUME snapshot' # NoSnapshot
        PROVE  Due(snapshot)'
    <3>1. snapshot' = snapshot /\ key.scope # s
        BY <1>0, <2>1 DEF Deletes
    <3>2. told'[key.scope] = told[key.scope]
        BY <1>2, <3>1 DEF Types
    <3>q. QED
        BY <2>1, <3>1, <3>2 DEF RowsAreDue, Due
  <2>2. ASSUME NEW v \in Viewing, viewing'[v].at = "computed"
        PROVE  Due(viewing[v])'
    <3>1. CASE viewing'[v] = viewing[v] /\ key.scope # s
      <4>1. told'[key.scope] = told[key.scope]
          BY <1>2, <3>1 DEF Types
      <4>q. QED
          BY <2>2, <3>1, <4>1 DEF RowsAreDue, Due
    <3>2. CASE viewing[v].at = "computed" /\ viewing'[v] = [viewing[v] EXCEPT !.late = TRUE]
        BY <1>4, <3>2 DEF Due
    <3>q. QED
        BY <1>3, <2>2, <3>1, <3>2
  <2>q. QED
      BY <2>1, <2>2 DEF RowsAreDue
<1>12. RequestsInOrder'
  <2> SUFFICES ASSUME NEW v \in Viewing
               PROVE  /\ viewing'[v].at \in {"asked", "computed"} =>
                            /\ viewing'[v].asked.week <= week
                            /\ viewing'[v].asked.taxonomy <= taxonomy
                      /\ viewing'[v].at = "computed" =>
                            viewing'[v].taxonomy >= viewing'[v].asked.taxonomy
      BY DEF RequestsInOrder
  <2>q. QED
      BY <1>3, <1>4 DEF RequestsInOrder
<1>13. AnswersSuitTheRequest'
  <2>1. \A v \in Viewing : viewing'[v].at = "answered" => viewing'[v] = viewing[v]
      BY <1>3, <1>4
  <2>q. QED
      BY <2>1 DEF AnswersSuitTheRequest
<1>q. QED
    BY <1>9, <1>10, <1>11, <1>12, <1>13

\* The deletion that follows a change, of the scope that changed ...
LEMMA ScopeKeeps == ASSUME IInv, NEW w \in Writing, ScopeInvalidated(w) PROVE IInv'
<1>1. /\ writing[w].at = "stored"
      /\ writing[w] \in [at : {"stored", "deleted"}, kind : Kind, data : [Scope -> Nat]]
    BY DEF ScopeInvalidated, IInv, Types, Run
<1>2. Changed(writing[w].kind) \in Scope
    BY DEF Changed, Scope
<1>3. CASE writing[w].kind = "sync"
  <2> DEFINE new == [writing[w] EXCEPT !.at = "deleted"]
  <2>1. new \in Run /\ new.data = writing[w].data
      BY <1>1 DEF Run
  <2>2. writing' = [writing EXCEPT ![w] = new]
      BY <1>3 DEF ScopeInvalidated, IInv, Types
  <2> HIDE DEF new
  <2>q. QED
      BY <1>1, <1>2, <2>1, <2>2, DeletesKeeps DEF ScopeInvalidated
<1>4. CASE writing[w].kind # "sync"
  <2>1. [at |-> "idle"] \in Run /\ [at |-> "idle"].at = "idle"
      BY DEF Run
  <2>2. writing' = [writing EXCEPT ![w] = [at |-> "idle"]]
      BY <1>4 DEF ScopeInvalidated, IInv, Types
  <2>q. QED
      BY <1>1, <1>2, <2>1, <2>2, DeletesKeeps DEF ScopeInvalidated
<1>q. QED
    BY <1>3, <1>4

\* ... and of the indices.
LEMMA IndexKeeps == ASSUME IInv, NEW w \in Writing, IndexInvalidated(w) PROVE IInv'
<1>1. [at |-> "idle"] \in Run /\ [at |-> "idle"].at = "idle" /\ "index" \in Scope
    BY DEF Run, Scope
<1>q. QED
    BY <1>1, DeletesKeeps DEF IndexInvalidated

\* The other steps of runs: a death, and the classification with its members.
LEMMA OtherRunsKeep ==
    ASSUME IInv, NEW w \in Writing,
           WriterDies(w) \/ TaxonomyChanges(w) \/ MembersClassified(w)
    PROVE  IInv'
<1>1. data \in [Scope -> Nat] /\ taxonomy \in Nat /\ "collection" \in Scope
    BY DEF IInv, Types, Scope
<1>2. /\ [at |-> "idle"] \in Run /\ Honest([at |-> "idle"])
      /\ [at |-> "classified"] \in Run /\ Honest([at |-> "classified"])
    BY DEF Run, Honest
<1>3. CASE WriterDies(w)
  <2>1. /\ data' \in [Scope -> Nat] /\ \A s \in Scope : data[s] <= data'[s]
        /\ taxonomy' \in Nat /\ taxonomy <= taxonomy'
      BY <1>1, <1>3 DEF WriterDies
  <2>q. QED
      BY <1>2, <1>3, <2>1, RunMoves DEF WriterDies
<1>4. CASE TaxonomyChanges(w)
  <2>1. /\ data' \in [Scope -> Nat] /\ \A s \in Scope : data[s] <= data'[s]
        /\ taxonomy' \in Nat /\ taxonomy <= taxonomy'
      BY <1>1, <1>4 DEF TaxonomyChanges
  <2>q. QED
      BY <1>2, <1>4, <2>1, RunMoves DEF TaxonomyChanges
<1>5. CASE MembersClassified(w)
  <2>1. /\ data' \in [Scope -> Nat] /\ \A s \in Scope : data[s] <= data'[s]
        /\ taxonomy' \in Nat /\ taxonomy <= taxonomy'
      BY <1>1, <1>5 DEF MembersClassified
  <2>q. QED
      BY <1>2, <1>5, <2>1, RunMoves DEF MembersClassified
<1>q. QED
    BY <1>3, <1>4, <1>5

\* Releases appear and weeks end.
LEMMA TimeKeeps == ASSUME IInv, NewRelease \/ WeekEnds PROVE IInv'
<1> USE DEF IInv
<1>1. /\ release' \in Nat /\ week' \in Nat /\ week \in Nat /\ week <= week'
      /\ UNCHANGED <<taxonomy, data, told, snapshot, viewing, writing, key>>
    BY DEF NewRelease, WeekEnds, Types
<1>2. Types' /\ ToldOfStored' /\ RowsAreDue' /\ AnswersSuitTheRequest'
    BY <1>1 DEF Types, ToldOfStored, RowsAreDue, Due, AnswersSuitTheRequest
<1>3. RequestsInOrder'
  <2> SUFFICES ASSUME NEW v \in Viewing, viewing[v].at \in {"asked", "computed"}
               PROVE  viewing[v].asked.week <= week'
      BY <1>1 DEF RequestsInOrder
  <2>1. viewing[v].asked.week \in Nat /\ viewing[v].asked.week <= week
      BY AskedTypes DEF Asked, RequestsInOrder
  <2>q. QED
      BY <1>1, <2>1
<1>q. QED
    BY <1>2, <1>3

-----------------------------------------------------------------------------
(* The theorem *)

\* Every step keeps the invariant.
LEMMA NextIInv == IInv /\ [SnapshotsNext]_snapshotVars => IInv'
<1> SUFFICES ASSUME IInv, [SnapshotsNext]_snapshotVars PROVE IInv'
    OBVIOUS
<1>1. CASE SnapshotsNext
    BY <1>1, AskedKeeps, HitKeeps, ComputesKeeps, WritesKeeps, EndsKeeps, StoredKeeps,
       ScopeKeeps, IndexKeeps, OtherRunsKeep, TimeKeeps
       DEF SnapshotsNext, Kind
<1>2. CASE UNCHANGED snapshotVars
    BY <1>2 DEF snapshotVars, IInv, Types, ToldOfStored, RowsAreDue, Due, RequestsInOrder,
                AnswersSuitTheRequest
<1>q. QED
    BY <1>1, <1>2

\* A stored row that is older than what its scope was told of was written by a reader that the
\* deletion overtook, and every answer is of the request's formula, week and sectors: for any
\* number of readers and runs, and in every order of reads, writes and deletions.
THEOREM SnapshotsFollow == SnapshotsSpec => []SnapshotsFollowTheMarket
<1>1. IInv => SnapshotsFollowTheMarket
    BY DEF IInv, RowsAreDue, Due, SnapshotsFollowTheMarket, OldRowsAreLate
<1>q. QED
    BY <1>1, InitIInv, NextIInv, PTL DEF SnapshotsSpec

-----------------------------------------------------------------------------
(* Charts: the inductive invariant *)

ValueRow == [is : {"none", "ok", "failed", "undefined"}, day : 0..LastDate]
JobRow == [is : {"none", "waiting", "active", "completed"}, value : ValueRow]
UnderWay == {"lookup", "state", "remove", "add", "fallback", "joined", "listen", "waits"}
RequestRow == [at : UnderWay \union {"idle", "block?", "done"}, api : Api \union {"none"},
               force : BOOLEAN, wait : BOOLEAN, day : 0..LastDate,
               since : SUBSET {"process", "queue"}, stuck : BOOLEAN,
               answer : {"none", "ok", "failed", "undefined", "refused", "in-progress"},
               old : BOOLEAN, early : BOOLEAN]

\* What is kept in the processes and in the queue is of the date it is kept under, or later.
Rows ==
    /\ expected \in Date
    /\ results \in [Api -> [Date -> ValueRow]]
    /\ \A p \in Api, d \in Date : results[p][d].is # "none" => results[p][d].day >= d
    /\ inFlight \in [Api -> [Date -> 0..LastDate]]
    /\ \A p \in Api, d \in Date : inFlight[p][d] # 0 => inFlight[p][d] >= d
    /\ chartJob \in [0..LastDate -> JobRow]
    /\ \A j \in 0..LastDate :
          /\ chartJob[j].is # "none" => j <= expected
          /\ chartJob[j].is \in {"active", "completed"} => chartJob[j].value.day >= j

\* A call under way is of a process and of a date that has come.
OfADate(r, now) ==
    /\ r \in RequestRow
    /\ r.at \notin {"idle", "done"} => r.api \in Api /\ r.day \in Date /\ r.day <= now

\* A call that adds or awaits a job has seen any end of it, or failed to remove an old one.
SeesTheJobEnd(r, jobs) ==
    r.at \in {"add", "listen"} /\ jobs[r.day].is = "completed" => "queue" \in r.since \/ r.stuck

\* A forced call that goes on to the queue forgot what its process had kept, and awaits no job.
ForgotTheOld(r, kept) ==
    r.force => /\ r.at \in {"lookup", "state", "remove", "add", "fallback"} =>
                    ~r.wait /\ (kept[r.api][r.day].is # "none" => "process" \in r.since)
               /\ r.at \notin {"listen", "waits"}

AnsweredWell(r) ==
    r.at = "done" => /\ ~r.early
                     /\ r.answer = "failed" /\ r.old => r.stuck
                     /\ r.force => ~r.old

Right(r, now, kept, jobs) ==
    OfADate(r, now) /\ SeesTheJobEnd(r, jobs) /\ ForgotTheOld(r, kept) /\ AnsweredWell(r)

ChartInv == Rows /\ \A c \in ChartCall : Right(request[c], expected, results, chartJob)

-----------------------------------------------------------------------------
(* Charts: the calls *)

\* Initially nothing is kept, and no call is under way.
LEMMA InitChartInv == ChartInit => ChartInv
<1> SUFFICES ASSUME ChartInit PROVE ChartInv
    OBVIOUS
<1> USE ChartAssumption
<1>1. NoValue \in ValueRow /\ NoChartJob \in JobRow
    BY DEF NoValue, Value, ValueRow, NoChartJob, JobRow
<1>2. Rows
    BY <1>1 DEF ChartInit, Rows, Date, NoValue, Value, NoChartJob
<1>3. ChartCallIdle \in RequestRow
    BY DEF ChartCallIdle, RequestRow
<1>4. Right(ChartCallIdle, expected, results, chartJob)
    BY <1>3 DEF Right, OfADate, SeesTheJobEnd, ForgotTheOld, AnsweredWell, ChartCallIdle
<1>q. QED
    BY <1>2, <1>4 DEF ChartInit, ChartInv

\* A call that nothing happens to stays right while time passes and jobs and results go.
LEMMA StaysRight ==
    ASSUME NEW r, NEW now \in Int, NEW later \in Int, now <= later, NEW kept, NEW keptThen, NEW jobs,
           NEW jobsThen, Right(r, now, kept, jobs),
           r.at \notin {"idle", "done"} =>
               /\ keptThen[r.api][r.day].is # "none" => kept[r.api][r.day].is # "none"
               /\ jobsThen[r.day].is = "completed" => jobs[r.day].is = "completed"
    PROVE  Right(r, later, keptThen, jobsThen)
<1>1. Date \subseteq 0..LastDate /\ Date \subseteq Int
    BY ChartAssumption DEF Date
<1>2. OfADate(r, later)
  <2>1. r \in RequestRow /\ (r.at \notin {"idle", "done"} => r.api \in Api /\ r.day \in Date /\ r.day <= now)
      BY DEF Right, OfADate
  <2>2. r.day \in Date => r.day \in Int
      BY <1>1
  <2>3. r.day \in Date /\ r.day <= now => r.day <= later
      BY <2>2
  <2>q. QED
      BY <2>1, <2>3 DEF OfADate
<1>3. SeesTheJobEnd(r, jobsThen)
    BY <1>1 DEF Right, SeesTheJobEnd, OfADate
<1>4. ForgotTheOld(r, keptThen)
    BY <1>1 DEF Right, ForgotTheOld, OfADate
<1>q. QED
    BY <1>2, <1>3, <1>4 DEF Right

\* Calls are right after one of them moves, when what it moves to is.
LEMMA OneRequestMoves ==
    ASSUME ChartInv, NEW c \in ChartCall, NEW r, request' = [request EXCEPT ![c] = r],
           expected' = expected, Right(r, expected, results', chartJob'),
           \A p \in Api, d \in Date : results'[p][d].is # "none" => results[p][d].is # "none",
           \A j \in 0..LastDate : chartJob'[j].is = "completed" => chartJob[j].is = "completed"
    PROVE  \A d \in ChartCall : Right(request'[d], expected', results', chartJob')
<1>1. expected \in Int
    BY ChartAssumption DEF ChartInv, Rows, Date
<1>2. ASSUME NEW d \in ChartCall PROVE Right(request[d], expected, results', chartJob')
  <2>1. Right(request[d], expected, results, chartJob)
      BY DEF ChartInv
  <2>2. request[d].at \notin {"idle", "done"} =>
            request[d].api \in Api /\ request[d].day \in Date /\ request[d].day \in 0..LastDate
      BY <2>1 DEF Right, OfADate, RequestRow
  <2>q. QED
      BY <1>1, <2>1, <2>2, StaysRight
<1>q. QED
    BY <1>2

\* A call that notes the end of a refresh is right although that end is kept.
LEMMA NotedIsRight ==
    ASSUME NEW r, NEW now, NEW kept, NEW keptThen, NEW jobs, NEW jobsThen,
           NEW from \in {"process", "queue"}, Right(r, now, kept, jobs), r.at \notin {"idle", "done"},
           keptThen[r.api][r.day].is # "none" => kept[r.api][r.day].is # "none" \/ from = "process",
           jobsThen[r.day].is = "completed" => jobs[r.day].is = "completed" \/ from = "queue"
    PROVE  Right([r EXCEPT !.since = @ \union {from}], now, keptThen, jobsThen)
<1> DEFINE q == [r EXCEPT !.since = @ \union {from}]
<1>1. /\ r \in RequestRow /\ r.api \in Api /\ r.day \in Date /\ r.day \in 0..LastDate /\ r.day <= now
      /\ SeesTheJobEnd(r, jobs) /\ ForgotTheOld(r, kept)
    BY DEF Right, OfADate, RequestRow
<1>2. /\ q \in RequestRow /\ q.since = r.since \union {from}
      /\ q.at = r.at /\ q.api = r.api /\ q.day = r.day /\ q.force = r.force /\ q.wait = r.wait
      /\ q.stuck = r.stuck
    BY <1>1 DEF RequestRow
<1> HIDE DEF q
<1>3. OfADate(q, now)
    BY <1>1, <1>2 DEF OfADate
<1>4. SeesTheJobEnd(q, jobsThen)
    BY <1>1, <1>2 DEF SeesTheJobEnd
<1>5. ForgotTheOld(q, keptThen)
    BY <1>1, <1>2 DEF ForgotTheOld
<1>6. AnsweredWell(q)
    BY <1>2 DEF AnsweredWell
<1>q. QED
    BY <1>3, <1>4, <1>5, <1>6 DEF Right, q

\* A call at rest has its type.
LEMMA IdleIsARow == ChartCallIdle \in RequestRow
BY ChartAssumption DEF ChartCallIdle, RequestRow

\* An answer is right when its value is of the call's date, and ended since the call began, if it has
\* failed or the call is forced.
LEMMA AnsweredIsRight ==
    ASSUME NEW r \in RequestRow, NEW v \in ValueRow, NEW from, NEW now, NEW kept, NEW jobs,
           v.day >= r.day, v.is = "failed" => from \in r.since \/ r.stuck, r.force => from \in r.since
    PROVE  Right(Answered(r, v, from), now, kept, jobs)
<1> DEFINE q == Answered(r, v, from)
<1>1. r.day \in 0..LastDate /\ v.day \in 0..LastDate
    BY DEF RequestRow, ValueRow
<1>2. ~(v.day < r.day)
    BY <1>1, ChartAssumption
<1>3. q \in RequestRow
  <2> DEFINE old == from \notin r.since
             early == v.day < r.day
  <2>1. /\ r.force \in BOOLEAN /\ r.stuck \in BOOLEAN /\ old \in BOOLEAN /\ early \in BOOLEAN
        /\ v.is \in {"none", "ok", "failed", "undefined"}
      BY DEF RequestRow, ValueRow
  <2> DEFINE half == [ChartCallIdle EXCEPT !.at = "done", !.force = r.force, !.stuck = r.stuck]
             heard == [half EXCEPT !.answer = v.is]
  <2>2. q = [heard EXCEPT !.old = old, !.early = early]
      BY DEF Answered
  <2> HIDE DEF q, old, early
  <2>3. half \in RequestRow
      BY <2>1, IdleIsARow DEF RequestRow
  <2> HIDE DEF half
  <2>4. heard \in RequestRow
      BY <2>1, <2>3 DEF RequestRow
  <2> HIDE DEF heard
  <2>q. QED
      BY <2>1, <2>2, <2>4 DEF RequestRow
<1>4. /\ q.at = "done" /\ q.force = r.force /\ q.stuck = r.stuck /\ q.answer = v.is
      /\ q.old = (from \notin r.since) /\ q.early = (v.day < r.day)
    BY DEF Answered, ChartCallIdle
<1> HIDE DEF q
<1>5. AnsweredWell(q)
    BY <1>2, <1>4 DEF AnsweredWell
<1>q. QED
    BY <1>3, <1>4, <1>5 DEF Right, OfADate, SeesTheJobEnd, ForgotTheOld, q

\* So is a mere status.
LEMMA SaidIsRight ==
    ASSUME NEW r, NEW status \in {"refused", "in-progress", "failed"}, NEW now, NEW kept, NEW jobs
    PROVE  Right(Said(r, status), now, kept, jobs)
<1>1. Said(r, status) \in RequestRow
    BY IdleIsARow DEF Said, RequestRow
<1>q. QED
    BY <1>1 DEF Said, ChartCallIdle, Right, OfADate, SeesTheJobEnd, ForgotTheOld, AnsweredWell

\* What a call that moves takes with it.
LEMMA MovesOn ==
    ASSUME NEW r \in RequestRow, NEW at \in UnderWay
    PROVE  /\ Moves(r, at) \in RequestRow /\ Moves(r, at).at = at
           /\ Moves(r, at).api = r.api /\ Moves(r, at).day = r.day /\ Moves(r, at).force = r.force
           /\ Moves(r, at).wait = r.wait /\ Moves(r, at).since = r.since /\ Moves(r, at).stuck = r.stuck
BY DEF Moves, RequestRow

\* A call under way is of a row and a date of its own.
LEMMA CallUnderWay ==
    ASSUME ChartInv, NEW c \in ChartCall, request[c].at \notin {"idle", "done"}
    PROVE  /\ request[c] \in RequestRow /\ request[c].api \in Api
           /\ request[c].day \in Date /\ request[c].day \in 0..LastDate /\ request[c].day <= expected
           /\ SeesTheJobEnd(request[c], chartJob) /\ ForgotTheOld(request[c], results)
BY DEF ChartInv, Right, OfADate, RequestRow

\* Joining the refresh of a process, or taking what it kept.
LEMMA InProcessKeeps ==
    ASSUME ChartInv, NEW c \in ChartCall, NEW kept \in ValueRow,
           request[c].at \in {"block?", "lookup", "state", "add", "fallback"},
           kept = NoValue \/ (/\ kept = results[request[c].api][request[c].day]
                              /\ request[c].at # "block?"),
           InProcess(c, request[c], kept)
    PROVE  ChartInv'
<1> DEFINE r == request[c]
           p == r.api
           d == r.day
<1>1. /\ r \in RequestRow /\ p \in Api /\ d \in Date /\ d \in 0..LastDate /\ d <= expected
      /\ ForgotTheOld(r, results)
    BY CallUnderWay
<1>2. /\ results' = [results EXCEPT ![p][d] = kept]
      /\ expected' = expected /\ chartJob' = chartJob
    BY DEF InProcess, Key
<1>3. kept.is # "none" => kept = results[p][d] /\ r.at # "block?"
    BY DEF NoValue, Value
<1>4. Rows'
  <2>1. results' \in [Api -> [Date -> ValueRow]]
      BY <1>1, <1>2 DEF ChartInv, Rows
  <2>2. \A q \in Api, e \in Date : results'[q][e] = (IF q = p /\ e = d THEN kept ELSE results[q][e])
      BY <1>1, <1>2 DEF ChartInv, Rows
  <2>3. \A q \in Api, e \in Date : results'[q][e].is # "none" => results'[q][e].day >= e
      BY <2>2, <1>1, <1>3 DEF ChartInv, Rows
  <2>4. \/ inFlight' = inFlight
        \/ inFlight' = [inFlight EXCEPT ![p][d] = IF @ = 0 THEN expected ELSE @]
      BY DEF InProcess, Key
  <2>5. expected \in 0..LastDate
      BY ChartAssumption DEF ChartInv, Rows, Date
  <2>6. inFlight' \in [Api -> [Date -> 0..LastDate]]
    <3>1. inFlight \in [Api -> [Date -> 0..LastDate]]
        BY DEF ChartInv, Rows
    <3>2. inFlight[p][d] \in 0..LastDate
        BY <1>1, <3>1
    <3>3. CASE inFlight' = inFlight
        BY <3>1, <3>3
    <3>4. CASE inFlight' = [inFlight EXCEPT ![p][d] = IF @ = 0 THEN expected ELSE @]
      <4>1. PICK n \in 0..LastDate : inFlight' = [inFlight EXCEPT ![p][d] = n]
          BY <2>5, <3>2, <3>4
      <4>q. QED
          BY <1>1, <3>1, <4>1
    <3>q. QED
        BY <2>4, <3>3, <3>4
  <2>7. \A q \in Api, e \in Date : inFlight'[q][e] = inFlight[q][e]
                                   \/ (q = p /\ e = d /\ inFlight'[q][e] = expected)
      BY <1>1, <2>4 DEF ChartInv, Rows
  <2>8. d \in Int /\ expected \in Int /\ expected >= d
      BY <1>1, <2>5
  <2>9. \A q \in Api, e \in Date : inFlight'[q][e] # 0 => inFlight'[q][e] >= e
      BY <2>7, <2>8 DEF ChartInv, Rows
  <2>q. QED
      BY <1>2, <2>1, <2>3, <2>6, <2>9 DEF ChartInv, Rows
<1>5. \A q \in Api, e \in Date : results'[q][e].is # "none" => results[q][e].is # "none"
    BY <1>1, <1>2, <1>3 DEF ChartInv, Rows
<1>6. ASSUME kept.is = "ok", request' = [request EXCEPT ![c] = Answered(r, kept, "process")]
      PROVE  ChartInv'
  <2>1. kept.day >= d
      BY <1>1, <1>3, <1>6 DEF ChartInv, Rows
  <2>2. r.force => "process" \in r.since
      BY <1>1, <1>3, <1>6 DEF ForgotTheOld
  <2>3. Right(Answered(r, kept, "process"), expected, results', chartJob')
      BY <1>1, <1>6, <2>1, <2>2, AnsweredIsRight
  <2>q. QED
      BY <1>2, <1>4, <1>5, <1>6, <2>3, OneRequestMoves DEF ChartInv
<1>7. ASSUME request' = [request EXCEPT ![c] = Moves(r, "joined")]
      PROVE  ChartInv'
  <2>1. Right(Moves(r, "joined"), expected, results', chartJob')
      BY <1>1, MovesOn DEF UnderWay, Right, OfADate, SeesTheJobEnd, ForgotTheOld, AnsweredWell
  <2>q. QED
      BY <1>2, <1>4, <1>5, <1>7, <2>1, OneRequestMoves DEF ChartInv
<1>q. QED
    BY <1>6, <1>7 DEF InProcess

\* A call that moves alone.
LEMMA CallMoves ==
    ASSUME ChartInv, NEW c \in ChartCall, NEW q, request' = [request EXCEPT ![c] = q],
           Right(q, expected, results, chartJob), UNCHANGED <<expected, results, inFlight, chartJob>>
    PROVE  ChartInv'
<1>1. Rows'
    BY DEF ChartInv, Rows
<1>2. \A d \in ChartCall : Right(request'[d], expected', results', chartJob')
    BY OneRequestMoves
<1>q. QED
    BY <1>1, <1>2 DEF ChartInv

\* A call asks, and a forced one is refused.
LEMMA AsksKeep ==
    ASSUME ChartInv, NEW c \in ChartCall, ChartAsks(c) \/ Blocked(c)
    PROVE  ChartInv'
<1>1. ASSUME ChartAsks(c) PROVE ChartInv'
  <2>1. PICK p \in Api, force \in BOOLEAN, wait \in BOOLEAN :
            request' = [request EXCEPT ![c] = [request[c] EXCEPT
                !.at = IF force THEN "block?" ELSE "lookup", !.api = p, !.force = force, !.wait = wait,
                !.day = expected]]
      BY <1>1 DEF ChartAsks
  <2> DEFINE q == [request[c] EXCEPT
                !.at = IF force THEN "block?" ELSE "lookup", !.api = p, !.force = force, !.wait = wait,
                !.day = expected]
  <2>2. request[c] \in RequestRow /\ expected \in Date /\ expected \in 0..LastDate /\ expected <= expected
      BY ChartAssumption DEF ChartInv, Right, OfADate, Rows, Date
  <2>3. /\ q \in RequestRow /\ q.at = (IF force THEN "block?" ELSE "lookup") /\ q.api = p
        /\ q.force = force /\ q.wait = wait /\ q.day = expected
      BY <2>2 DEF RequestRow, UnderWay
  <2> HIDE DEF q
  <2>4. Right(q, expected, results, chartJob)
      BY <2>2, <2>3 DEF Right, OfADate, SeesTheJobEnd, ForgotTheOld, AnsweredWell
  <2>5. request' = [request EXCEPT ![c] = q]
      BY <2>1 DEF q
  <2>q. QED
      BY <1>1, <2>4, <2>5, CallMoves DEF ChartAsks
<1>2. ASSUME Blocked(c) PROVE ChartInv'
    BY <1>2, SaidIsRight, CallMoves DEF Blocked
<1>q. QED
    BY <1>1, <1>2

\* A call reads the queue's job, awaits it or gives up.
LEMMA ReadsKeep ==
    ASSUME ChartInv, NEW c \in ChartCall,
           LooksUp(c) \/ ReadsState(c) \/ Listens(c) \/ GivesUp(c)
    PROVE  ChartInv'
<1> DEFINE r == request[c]
           j == chartJob[Key(r.day)]
<1>1. /\ r.at \notin {"idle", "done"}
      /\ UNCHANGED <<expected, results, inFlight, chartJob>>
    BY DEF LooksUp, ReadsState, Listens, GivesUp
<1>2. /\ r \in RequestRow /\ r.api \in Api /\ r.day \in Date /\ r.day \in 0..LastDate /\ r.day <= expected
      /\ SeesTheJobEnd(r, chartJob) /\ ForgotTheOld(r, results)
    BY <1>1, CallUnderWay
<1>3. /\ j = chartJob[r.day] /\ j \in JobRow
      /\ j.is = "completed" => j.value.day >= r.day
    BY <1>2 DEF Key, ChartInv, Rows
<1>4. j.value \in ValueRow
    BY <1>3 DEF JobRow
<1> HIDE DEF r, j
<1>5. ASSUME NEW at \in {"lookup", "state", "remove", "joined", "waits"},
             request' = [request EXCEPT ![c] = Moves(r, at)],
             r.at \in {"lookup", "state"} \/ ~r.force, at = "waits" => ~r.force
      PROVE  ChartInv'
  <2>1. Right(Moves(r, at), expected, results, chartJob)
      BY <1>2, <1>5, MovesOn
         DEF UnderWay, Right, OfADate, SeesTheJobEnd, ForgotTheOld, AnsweredWell
  <2>q. QED
      BY <1>1, <1>5, <2>1, CallMoves
<1>6. ASSUME NEW at \in {"add", "listen"}, request' = [request EXCEPT ![c] = Moves(r, at)],
             r.at \in {"lookup", "state"}, j.is # "completed", at = "listen" => ~r.force
      PROVE  ChartInv'
  <2>1. Right(Moves(r, at), expected, results, chartJob)
      BY <1>2, <1>3, <1>6, MovesOn
         DEF UnderWay, Right, OfADate, SeesTheJobEnd, ForgotTheOld, AnsweredWell
  <2>q. QED
      BY <1>1, <1>6, <2>1, CallMoves
<1>7. ASSUME request' = [request EXCEPT ![c] = Answered(r, j.value, "queue")], j.is = "completed",
             j.value.is = "failed" => "queue" \in r.since \/ r.stuck, ~r.force
      PROVE  ChartInv'
    BY <1>1, <1>2, <1>3, <1>4, <1>7, AnsweredIsRight, CallMoves
<1>8. ASSUME NEW status \in {"in-progress", "failed"}, request' = [request EXCEPT ![c] = Said(r, status)]
      PROVE  ChartInv'
    BY <1>1, <1>8, SaidIsRight, CallMoves
<1>9. CASE LooksUp(c)
  <2>1. r.at = "lookup" /\ request' = [request EXCEPT ![c] = Moves(r, IF j.is # "none" THEN "state" ELSE "add")]
      BY <1>9 DEF LooksUp, r, j
  <2>2. CASE j.is # "none"
      BY <2>1, <2>2, <1>5
  <2>3. CASE j.is = "none"
      BY <2>1, <2>3, <1>6
  <2>q. QED
      BY <2>2, <2>3
<1>10. CASE ReadsState(c)
  <2>1. r.at = "state"
      BY <1>10 DEF ReadsState, r
  <2>2. CASE j.is # "completed" /\ r.wait
    <3>1. request' = [request EXCEPT ![c] = Moves(r, "listen")]
        BY <1>10, <2>2 DEF ReadsState, r, j
    <3>2. ~r.force
        BY <1>2, <2>1, <2>2 DEF ForgotTheOld, RequestRow
    <3>q. QED
        BY <2>1, <2>2, <3>1, <3>2, <1>6
  <2>3. CASE j.is # "completed" /\ ~r.wait
    <3>1. request' = [request EXCEPT ![c] = Said(r, "in-progress")]
        BY <1>10, <2>3 DEF ReadsState, r, j
    <3>q. QED
        BY <3>1, <1>8
  <2>4. CASE j.is = "completed" /\ ~r.force /\ Settled(j.value)
    <3>1. request' = [request EXCEPT ![c] = Answered(r, j.value, "queue")]
        BY <1>10, <2>4 DEF ReadsState, r, j
    <3>q. QED
        BY <2>4, <3>1, <1>7 DEF Settled
  <2>5. CASE j.is = "completed" /\ ~(~r.force /\ Settled(j.value))
    <3>1. request' = [request EXCEPT ![c] = Moves(r, "remove")]
        BY <1>10, <2>5 DEF ReadsState, r, j
    <3>q. QED
        BY <2>1, <3>1, <1>5
  <2>q. QED
      BY <2>2, <2>3, <2>4, <2>5
<1>11. CASE Listens(c)
  <2>1. r.at = "listen" /\ ~r.force
      BY <1>2, <1>11 DEF Listens, r, ForgotTheOld, RequestRow
  <2>2. CASE j.is = "none"
    <3>1. request' = [request EXCEPT ![c] = Said(r, "failed")]
        BY <1>11, <2>2 DEF Listens, r, j
    <3>q. QED
        BY <3>1, <1>8
  <2>3. CASE j.is = "completed"
    <3>1. request' = [request EXCEPT ![c] = Answered(r, j.value, "queue")]
        BY <1>11, <2>3 DEF Listens, r, j
    <3>2. "queue" \in r.since \/ r.stuck
        BY <1>2, <1>3, <2>1, <2>3 DEF SeesTheJobEnd
    <3>q. QED
        BY <2>1, <2>3, <3>1, <3>2, <1>7
  <2>4. CASE j.is \notin {"none", "completed"}
    <3>1. request' = [request EXCEPT ![c] = Moves(r, "waits")]
        BY <1>11, <2>4 DEF Listens, r, j
    <3>q. QED
        BY <2>1, <3>1, <1>5
  <2>q. QED
      BY <2>2, <2>3, <2>4
<1>12. CASE GivesUp(c)
    BY <1>8, <1>12 DEF GivesUp, r
<1>q. QED
    BY <1>9, <1>10, <1>11, <1>12

\* A forced call forgets what its process kept.
LEMMA ForcedKeeps ==
    ASSUME ChartInv, NEW c \in ChartCall, Forced(c)
    PROVE  ChartInv'
<1> DEFINE r == request[c]
<1>1. r.at = "block?" /\ NoValue \in ValueRow /\ Forget(r.api, Key(r.day)) = NoValue
    BY ChartAssumption DEF Forced, Forget, NoValue, Value, ValueRow
<1>2. /\ r \in RequestRow /\ r.api \in Api /\ r.day \in Date /\ r.day \in 0..LastDate /\ r.day <= expected
    BY <1>1, CallUnderWay
<1>3. CASE InProcess(c, r, Forget(r.api, Key(r.day)))
    BY <1>1, <1>3, InProcessKeeps
<1>4. CASE /\ ~r.wait
           /\ results' = [results EXCEPT ![r.api][Key(r.day)] = Forget(r.api, Key(r.day))]
           /\ request' = [request EXCEPT ![c] = Moves(@, "lookup")]
           /\ UNCHANGED <<expected, inFlight, chartJob, boots, glitches>>
  <2>1. results' = [results EXCEPT ![r.api][r.day] = NoValue]
      BY <1>1, <1>4 DEF Key
  <2>2. /\ results' \in [Api -> [Date -> ValueRow]]
        /\ \A p \in Api, d \in Date :
              results'[p][d] = (IF p = r.api /\ d = r.day THEN NoValue ELSE results[p][d])
      BY <1>1, <1>2, <2>1 DEF ChartInv, Rows
  <2>3. NoValue.is = "none"
      BY DEF NoValue, Value
  <2>4. \A p \in Api, d \in Date : results'[p][d].is # "none" =>
            results'[p][d].day >= d /\ results[p][d].is # "none"
    <3>1. \A p \in Api, d \in Date : results[p][d].is # "none" => results[p][d].day >= d
        BY DEF ChartInv, Rows
    <3>q. QED
        BY <2>2, <2>3, <3>1
  <2>5. Rows'
      BY <1>4, <2>2, <2>4 DEF ChartInv, Rows
  <2>6. results'[r.api][r.day].is = "none"
      BY <1>2, <2>2, <2>3
  <2>7. Right(Moves(r, "lookup"), expected, results', chartJob')
      BY <1>2, <1>4, <2>6, MovesOn
         DEF UnderWay, Right, OfADate, SeesTheJobEnd, ForgotTheOld, AnsweredWell
  <2>q. QED
      BY <1>4, <2>4, <2>5, <2>7, OneRequestMoves DEF ChartInv
<1>q. QED
    BY <1>3, <1>4 DEF Forced

\* A job that is added waits, and is of a date that has come.
LEMMA AddedRows ==
    ASSUME Rows, NEW k \in 0..LastDate, k <= expected, chartJob' = Added(k),
           UNCHANGED <<expected, results, inFlight>>
    PROVE  /\ Rows'
           /\ \A j \in 0..LastDate : chartJob'[j].is = "completed" => chartJob[j].is = "completed"
<1> DEFINE new == [NoChartJob EXCEPT !.is = "waiting"]
<1>1. new \in JobRow /\ new.is = "waiting"
    BY ChartAssumption DEF NoChartJob, NoValue, Value, JobRow, ValueRow
<1> HIDE DEF new
<1>2. chartJob' = chartJob \/ chartJob' = [chartJob EXCEPT ![k] = new]
    BY DEF Added, new
<1>3. /\ chartJob' \in [0..LastDate -> JobRow]
      /\ \A j \in 0..LastDate : chartJob'[j] = chartJob[j] \/ (j = k /\ chartJob'[j] = new)
    BY <1>1, <1>2 DEF Rows
<1>q. QED
    BY <1>1, <1>3 DEF Rows

\* A call removes or adds the job of its date.
LEMMA RemovesAndAddsKeep ==
    ASSUME ChartInv, NEW c \in ChartCall, Removes(c) \/ Adds(c)
    PROVE  ChartInv'
<1> DEFINE r == request[c]
<1>1. r.at \in {"remove", "add"} /\ UNCHANGED <<expected, results, inFlight>>
    BY DEF Removes, Adds
<1>2. /\ r \in RequestRow /\ r.api \in Api /\ r.day \in Date /\ r.day \in 0..LastDate /\ r.day <= expected
      /\ SeesTheJobEnd(r, chartJob) /\ ForgotTheOld(r, results)
    BY <1>1, CallUnderWay
<1> HIDE DEF r
<1>3. CASE Removes(c)
  <2>1. NoChartJob \in JobRow /\ NoChartJob.is = "none"
      BY ChartAssumption DEF NoChartJob, NoValue, Value, JobRow, ValueRow
  <2>2. /\ chartJob' = chartJob \/ chartJob' = [chartJob EXCEPT ![r.day] = NoChartJob]
        /\ \/ /\ request' = [request EXCEPT ![c] = Moves(r, "add")]
              /\ chartJob[r.day].is = "active" \/ chartJob' = [chartJob EXCEPT ![r.day] = NoChartJob]
           \/ request' = [request EXCEPT ![c] = [Moves(r, "add") EXCEPT !.stuck = TRUE]]
        /\ r.at = "remove"
      BY <1>3 DEF Removes, Key, r
  <2>3. /\ chartJob' \in [0..LastDate -> JobRow]
        /\ \A j \in 0..LastDate : chartJob'[j] = chartJob[j] \/ chartJob'[j] = NoChartJob
        /\ chartJob' = [chartJob EXCEPT ![r.day] = NoChartJob] => chartJob'[r.day] = NoChartJob
      BY <1>2, <2>1, <2>2 DEF ChartInv, Rows
  <2>4. Rows' /\ \A j \in 0..LastDate : chartJob'[j].is = "completed" => chartJob[j].is = "completed"
      BY <1>1, <2>1, <2>3 DEF ChartInv, Rows
  <2>5. CASE /\ request' = [request EXCEPT ![c] = Moves(r, "add")]
             /\ chartJob[r.day].is = "active" \/ chartJob' = [chartJob EXCEPT ![r.day] = NoChartJob]
    <3>1. chartJob'[r.day].is # "completed"
        BY <1>2, <2>1, <2>3, <2>4, <2>5
    <3>2. Right(Moves(r, "add"), expected, results', chartJob')
        BY <1>1, <1>2, <2>2, <3>1, MovesOn
           DEF UnderWay, Right, OfADate, SeesTheJobEnd, ForgotTheOld, AnsweredWell
    <3>q. QED
        BY <1>1, <2>4, <2>5, <3>2, OneRequestMoves DEF ChartInv
  <2>6. CASE request' = [request EXCEPT ![c] = [Moves(r, "add") EXCEPT !.stuck = TRUE]]
    <3> DEFINE m == Moves(r, "add")
               q == [m EXCEPT !.stuck = TRUE]
    <3>0. /\ m \in RequestRow /\ m.at = "add" /\ m.api = r.api /\ m.day = r.day /\ m.force = r.force
          /\ m.wait = r.wait /\ m.since = r.since
        BY <1>2, MovesOn DEF UnderWay
    <3>3. request' = [request EXCEPT ![c] = q]
        BY <2>6
    <3> HIDE DEF m
    <3>1. /\ q \in RequestRow /\ q.at = "add" /\ q.api = r.api /\ q.day = r.day /\ q.force = r.force
          /\ q.wait = r.wait /\ q.since = r.since /\ q.stuck = TRUE
        BY <3>0 DEF RequestRow
    <3> HIDE DEF q
    <3>2. Right(q, expected, results', chartJob')
        BY <1>1, <1>2, <2>2, <3>1
           DEF Right, OfADate, SeesTheJobEnd, ForgotTheOld, AnsweredWell
    <3>q. QED
        BY <1>1, <2>4, <3>2, <3>3, OneRequestMoves DEF ChartInv
  <2>q. QED
      BY <2>2, <2>5, <2>6
<1>4. CASE Adds(c)
  <2>1. r.at = "add" /\ chartJob' = Added(r.day)
      BY <1>4 DEF Adds, Key, r
  <2>2. Rows' /\ \A j \in 0..LastDate : chartJob'[j].is = "completed" => chartJob[j].is = "completed"
      BY <1>1, <1>2, <2>1, AddedRows DEF ChartInv
  <2>3. CASE r.wait
    <3>1. request' = [request EXCEPT ![c] = Moves(r, "listen")]
        BY <1>4, <2>3 DEF Adds, r
    <3>2. ~r.force
        BY <1>2, <2>1, <2>3 DEF ForgotTheOld, RequestRow
    <3>3. Right(Moves(r, "listen"), expected, results', chartJob')
        BY <1>1, <1>2, <2>1, <2>2, <3>2, MovesOn
           DEF UnderWay, Right, OfADate, SeesTheJobEnd, ForgotTheOld, AnsweredWell
    <3>q. QED
        BY <1>1, <2>2, <3>1, <3>3, OneRequestMoves DEF ChartInv
  <2>4. CASE ~r.wait
    <3>1. request' = [request EXCEPT ![c] = Said(r, "in-progress")]
        BY <1>4, <2>4 DEF Adds, r
    <3>q. QED
        BY <1>1, <2>2, <3>1, SaidIsRight, OneRequestMoves DEF ChartInv
  <2>q. QED
      BY <2>3, <2>4
<1>q. QED
    BY <1>3, <1>4

\* A call that the queue does not answer goes on in its process.
LEMMA QueueFailsKeeps ==
    ASSUME ChartInv, NEW c \in ChartCall, QueueFails(c)
    PROVE  ChartInv'
<1> DEFINE r == request[c]
<1>1. r.at \in {"lookup", "state", "add", "fallback"}
    BY DEF QueueFails
<1>2. /\ r \in RequestRow /\ r.api \in Api /\ r.day \in Date /\ r.day \in 0..LastDate /\ r.day <= expected
      /\ ForgotTheOld(r, results)
    BY <1>1, CallUnderWay
<1>3. results[r.api][r.day] \in ValueRow
    BY <1>2 DEF ChartInv, Rows
<1>4. CASE InProcess(c, r, results[r.api][Key(r.day)])
    BY <1>1, <1>3, <1>4, InProcessKeeps DEF Key
<1>5. CASE /\ r.at = "add" /\ chartJob' = Added(Key(r.day))
           /\ request' = [request EXCEPT ![c] = Moves(@, "fallback")]
           /\ UNCHANGED <<expected, results, inFlight, boots, glitches>>
  <2>1. Rows' /\ \A j \in 0..LastDate : chartJob'[j].is = "completed" => chartJob[j].is = "completed"
      BY <1>2, <1>5, AddedRows DEF ChartInv, Key
  <2>2. Right(Moves(r, "fallback"), expected, results', chartJob')
      BY <1>2, <1>5, MovesOn
         DEF UnderWay, Right, OfADate, SeesTheJobEnd, ForgotTheOld, AnsweredWell
  <2>q. QED
      BY <1>5, <2>1, <2>2, OneRequestMoves DEF ChartInv
<1>q. QED
    BY <1>4, <1>5 DEF QueueFails

\* A call that joined or awaits a refresh is answered by its end.
LEMMA EndIsHeard ==
    ASSUME ChartInv, NEW c \in ChartCall, request[c].at \notin {"idle", "done"},
           NEW from \in {"process", "queue"}, NEW v \in ValueRow, v.day >= request[c].day,
           NEW kept, NEW jobs
    PROVE  Right(Answered([request[c] EXCEPT !.since = @ \union {from}], v, from), expected, kept, jobs)
<1> DEFINE q == [request[c] EXCEPT !.since = @ \union {from}]
<1>1. request[c] \in RequestRow
    BY CallUnderWay
<1>2. q \in RequestRow /\ from \in q.since /\ q.day = request[c].day
    BY <1>1 DEF RequestRow
<1> HIDE DEF q
<1>3. Right(Answered(q, v, from), expected, kept, jobs)
    BY <1>2, AnsweredIsRight
<1>q. QED
    BY <1>3 DEF q

\* A refresh in a process ends.
LEMMA RefreshKeeps ==
    ASSUME ChartInv, NEW p \in Api, NEW d \in Date, RefreshEnds(p, d)
    PROVE  ChartInv'
<1>1. Date \subseteq 0..LastDate /\ inFlight[p][d] \in 0..LastDate /\ inFlight[p][d] >= d
    BY ChartAssumption DEF RefreshEnds, ChartInv, Rows, Date
<1>2. PICK is \in {"ok", "failed"}, thrown \in BOOLEAN :
        /\ thrown => is = "failed"
        /\ results' = IF thrown THEN results
                      ELSE [results EXCEPT ![p][d] = Value(is, inFlight[p][d])]
        /\ request' = [c \in ChartCall |->
             LET calls == [e \in ChartCall |->
                     IF request[e].at \notin {"idle", "done"} /\ request[e].api = p /\ Key(request[e].day) = d
                     THEN [request[e] EXCEPT !.since = @ \union {"process"}] ELSE request[e]]
             IN  IF calls[c].at = "joined" /\ calls[c].api = p /\ Key(calls[c].day) = d
                 THEN Answered(calls[c], Value(is, inFlight[p][d]), "process") ELSE calls[c]]
    BY ZenonT(60) DEF RefreshEnds, Noted
<1> DEFINE v == Value(is, inFlight[p][d])
<1>3. v \in ValueRow /\ v.day >= d
    BY <1>1 DEF Value, ValueRow
<1>4. UNCHANGED <<expected, chartJob>> /\ inFlight' = [inFlight EXCEPT ![p][d] = 0]
    BY DEF RefreshEnds
<1> HIDE DEF v
<1>5. results' = results \/ results' = [results EXCEPT ![p][d] = v]
    BY <1>2 DEF v
<1>6. /\ results' \in [Api -> [Date -> ValueRow]]
      /\ \A a \in Api, e \in Date : results'[a][e] = results[a][e] \/ (a = p /\ e = d /\ results'[a][e] = v)
  <2>1. results \in [Api -> [Date -> ValueRow]]
      BY DEF ChartInv, Rows
  <2>2. CASE results' = results
      BY <2>1, <2>2
  <2>3. CASE results' = [results EXCEPT ![p][d] = v]
    <3>1. results' \in [Api -> [Date -> ValueRow]]
        BY <1>3, <2>1, <2>3
    <3>2. \A a \in Api, e \in Date : results'[a][e] = IF a = p /\ e = d THEN v ELSE results[a][e]
        BY <2>1, <2>3
    <3>q. QED
        BY <3>1, <3>2
  <2>q. QED
      BY <1>5, <2>2, <2>3
<1>7. Rows'
  <2>1. 0 \in 0..LastDate
      BY ChartAssumption
  <2>2. /\ inFlight' \in [Api -> [Date -> 0..LastDate]]
        /\ \A a \in Api, e \in Date : inFlight'[a][e] = inFlight[a][e] \/ inFlight'[a][e] = 0
      BY <1>4, <2>1 DEF ChartInv, Rows
  <2>3. \A a \in Api, e \in Date : results'[a][e].is # "none" => results'[a][e].day >= e
    <3>1. \A a \in Api, e \in Date : results[a][e].is # "none" => results[a][e].day >= e
        BY DEF ChartInv, Rows
    <3>q. QED
        BY <1>3, <1>6, <3>1
  <2>4. \A a \in Api, e \in Date : inFlight'[a][e] # 0 => inFlight'[a][e] >= e
      BY <2>2 DEF ChartInv, Rows
  <2>q. QED
      BY <1>4, <1>6, <2>2, <2>3, <2>4 DEF ChartInv, Rows
<1>8. ASSUME NEW c \in ChartCall PROVE Right(request'[c], expected, results', chartJob)
  <2> DEFINE r == request[c]
             q == [r EXCEPT !.since = @ \union {"process"}]
             mine == r.api = p /\ r.day = d
  <2>1. Right(r, expected, results, chartJob) /\ r \in RequestRow
      BY DEF ChartInv, Right, OfADate
  <2>2. r.at \notin {"idle", "done"} => r.api \in Api /\ r.day \in Date /\ r.day \in 0..LastDate
      BY <2>1 DEF Right, OfADate, RequestRow
  <2>3. CASE r.at \notin {"idle", "done"} /\ mine
    <3>1. q.at = r.at /\ q.api = r.api /\ q.day = r.day
        BY <2>1 DEF RequestRow
    <3>2. request'[c] = q \/ request'[c] = Answered(q, v, "process")
        BY <1>2, <2>3, <3>1 DEF Key, v
    <3>3. Right(Answered(q, v, "process"), expected, results', chartJob)
        BY <1>3, <2>3, EndIsHeard
    <3>4. Right(q, expected, results', chartJob)
        BY <2>1, <2>3, NotedIsRight
    <3>q. QED
        BY <3>2, <3>3, <3>4
  <2>4. CASE ~(r.at \notin {"idle", "done"} /\ mine)
    <3>1. request'[c] = r
        BY <1>2, <2>4 DEF Key
    <3>2. r.at \notin {"idle", "done"} => results'[r.api][r.day] = results[r.api][r.day]
        BY <1>6, <2>2, <2>4
    <3>3. expected \in Int
        BY ChartAssumption DEF ChartInv, Rows, Date
    <3>4. Right(r, expected, results', chartJob)
        BY <2>1, <3>2, <3>3, StaysRight
    <3>q. QED
        BY <3>1, <3>4
  <2>q. QED
      BY <2>3, <2>4
<1>q. QED
    BY <1>4, <1>7, <1>8 DEF ChartInv

-----------------------------------------------------------------------------
(* Charts: the worker *)

\* The queue's jobs change, and the end of one is delivered.
LEMMA DeliveryKeeps ==
    ASSUME ChartInv, NEW j \in 0..LastDate, NEW v \in ValueRow, v.day >= j,
           request' = Delivered(j, v), UNCHANGED <<expected, results, inFlight>>, Rows',
           \A k \in 0..LastDate : k # j /\ chartJob'[k].is = "completed" => chartJob[k].is = "completed"
    PROVE  ChartInv'
<1>1. request' = [c \in ChartCall |->
             LET calls == [e \in ChartCall |->
                     IF request[e].at \notin {"idle", "done"} /\ Key(request[e].day) = j
                     THEN [request[e] EXCEPT !.since = @ \union {"queue"}] ELSE request[e]]
             IN  IF calls[c].at = "waits" /\ Key(calls[c].day) = j
                 THEN Answered(calls[c], v, "queue") ELSE calls[c]]
    BY DEF Delivered, Noted
<1>2. ASSUME NEW c \in ChartCall PROVE Right(request'[c], expected, results, chartJob')
  <2> DEFINE r == request[c]
             q == [r EXCEPT !.since = @ \union {"queue"}]
  <2>1. Right(r, expected, results, chartJob) /\ r \in RequestRow
      BY DEF ChartInv, Right, OfADate
  <2>2. r.at \notin {"idle", "done"} => r.api \in Api /\ r.day \in Date /\ r.day \in 0..LastDate
      BY <2>1 DEF Right, OfADate, RequestRow
  <2>3. CASE r.at \notin {"idle", "done"} /\ r.day = j
    <3>1. q.at = r.at /\ q.day = r.day
        BY <2>1 DEF RequestRow
    <3>2. request'[c] = q \/ request'[c] = Answered(q, v, "queue")
        BY <1>1, <2>3, <3>1 DEF Key
    <3>3. Right(Answered(q, v, "queue"), expected, results, chartJob')
        BY <2>3, EndIsHeard
    <3>4. Right(q, expected, results, chartJob')
        BY <2>1, <2>3, NotedIsRight
    <3>q. QED
        BY <3>2, <3>3, <3>4
  <2>4. CASE ~(r.at \notin {"idle", "done"} /\ r.day = j)
    <3>1. request'[c] = r
        BY <1>1, <2>4 DEF Key
    <3>2. expected \in Int
        BY ChartAssumption DEF ChartInv, Rows, Date
    <3>3. r.at \notin {"idle", "done"} =>
              (chartJob'[r.day].is = "completed" => chartJob[r.day].is = "completed")
        BY <2>2, <2>4
    <3>4. Right(r, expected, results, chartJob')
        BY <2>1, <3>2, <3>3, StaysRight
    <3>q. QED
        BY <3>1, <3>4
  <2>q. QED
      BY <2>3, <2>4
<1>q. QED
    BY <1>2 DEF ChartInv

\* A job ends, by a result, as skipped, or by an error.
LEMMA JobEndsKeep ==
    ASSUME ChartInv, NEW j \in 0..LastDate, JobSkipped(j) \/ JobEnds(j) \/ JobThrows(j)
    PROVE  ChartInv'
<1>1. /\ chartJob \in [0..LastDate -> JobRow] /\ expected \in 0..LastDate
      /\ chartJob[j].is # "none" => j <= expected
      /\ chartJob[j].is = "active" => chartJob[j].value.day >= j
      /\ chartJob[j].value.day \in 0..LastDate
    BY ChartAssumption DEF ChartInv, Rows, Date, JobRow, ValueRow
<1>2. NoChartJob \in JobRow /\ NoChartJob.is = "none"
    BY ChartAssumption DEF NoChartJob, NoValue, Value, JobRow, ValueRow
<1>3. ASSUME NEW v \in ValueRow, v.day >= j, j <= expected, UNCHANGED <<expected, results, inFlight>>,
             chartJob' = Kept(j, v) \/ chartJob' = [chartJob EXCEPT ![j] = NoChartJob]
      PROVE  /\ Rows'
             /\ \A k \in 0..LastDate : k # j /\ chartJob'[k].is = "completed" => chartJob[k].is = "completed"
  <2> DEFINE done == [is |-> "completed", value |-> v]
  <2>1. done \in JobRow /\ done.is = "completed" /\ done.value = v
      BY <1>3 DEF JobRow
  <2> HIDE DEF done
  <2>2. chartJob' = [chartJob EXCEPT ![j] = done] \/ chartJob' = [chartJob EXCEPT ![j] = NoChartJob]
      BY <1>3 DEF Kept, done
  <2>3. /\ chartJob' \in [0..LastDate -> JobRow]
        /\ \A k \in 0..LastDate : \/ chartJob'[k] = chartJob[k]
                                  \/ k = j /\ chartJob'[k] \in {done, NoChartJob}
      BY <1>1, <1>2, <2>1, <2>2
  <2>q. QED
      BY <1>2, <1>3, <2>1, <2>3 DEF ChartInv, Rows
<1>4. CASE JobSkipped(j)
  <2> DEFINE v == Value("undefined", expected)
  <2>1. v \in ValueRow /\ v.day = expected
      BY <1>1 DEF Value, ValueRow
  <2>2. /\ chartJob' = Kept(j, v) /\ request' = Delivered(j, v) /\ j <= expected
        /\ UNCHANGED <<expected, results, inFlight>>
      BY <1>1, <1>4 DEF JobSkipped
  <2> HIDE DEF v
  <2>3. v.day >= j
      BY <1>1, <2>1, <2>2
  <2>q. QED
      BY <1>3, <2>1, <2>2, <2>3, DeliveryKeeps
<1>5. CASE JobEnds(j) \/ JobThrows(j)
  <2>1. PICK is \in {"ok", "failed"} :
            /\ \/ chartJob' = Kept(j, Value(is, chartJob[j].value.day))
               \/ chartJob' = [chartJob EXCEPT ![j] = NoChartJob]
            /\ request' = Delivered(j, Value(is, chartJob[j].value.day))
      BY <1>5 DEF JobEnds, JobThrows
  <2> DEFINE v == Value(is, chartJob[j].value.day)
  <2>2. v \in ValueRow /\ v.day = chartJob[j].value.day
      BY <1>1 DEF Value, ValueRow
  <2>3. chartJob[j].is = "active" /\ UNCHANGED <<expected, results, inFlight>>
      BY <1>5 DEF JobEnds, JobThrows
  <2>4. /\ chartJob' = Kept(j, v) \/ chartJob' = [chartJob EXCEPT ![j] = NoChartJob]
        /\ request' = Delivered(j, v)
      BY <2>1
  <2> HIDE DEF v
  <2>5. v.day >= j /\ j <= expected
      BY <1>1, <2>2, <2>3
  <2>q. QED
      BY <1>3, <2>2, <2>3, <2>4, <2>5, DeliveryKeeps
<1>q. QED
    BY <1>4, <1>5

\* Jobs that start, go or start again, and time, leave the calls alone.
LEMMA OthersKeepCharts ==
    ASSUME ChartInv, request' = request, UNCHANGED <<results, inFlight>>, Rows', expected <= expected',
           \A k \in 0..LastDate : chartJob'[k].is = "completed" => chartJob[k].is = "completed"
    PROVE  ChartInv'
<1>1. expected \in Int /\ expected' \in Int
    BY ChartAssumption DEF ChartInv, Rows, Date
<1>2. ASSUME NEW c \in ChartCall PROVE Right(request[c], expected', results, chartJob')
  <2>1. Right(request[c], expected, results, chartJob)
      BY DEF ChartInv
  <2>2. request[c].at \notin {"idle", "done"} => request[c].day \in 0..LastDate
      BY <2>1 DEF Right, OfADate, RequestRow
  <2>q. QED
      BY <1>1, <2>1, <2>2, StaysRight
<1>q. QED
    BY <1>2 DEF ChartInv

\* Such steps.
LEMMA QueueStepsKeep ==
    ASSUME ChartInv,
           \/ \E j \in 0..LastDate : JobStarts(j) \/ RetentionEnds(j)
           \/ BootAdded \/ WorkerDies \/ NextDate
    PROVE  ChartInv'
<1>1. /\ chartJob \in [0..LastDate -> JobRow] /\ expected \in 0..LastDate /\ 0 \in 0..LastDate
      /\ 0 <= expected /\ expected <= expected
    BY ChartAssumption DEF ChartInv, Rows, Date
<1>2. NoChartJob \in JobRow /\ NoChartJob.is = "none"
    BY ChartAssumption DEF NoChartJob, NoValue, Value, JobRow, ValueRow
<1>3. ASSUME NEW j \in 0..LastDate, JobStarts(j) PROVE ChartInv'
  <2> DEFINE new == [is |-> "active", value |-> [NoValue EXCEPT !.day = expected]]
  <2>1. new \in JobRow /\ new.is = "active" /\ new.value.day = expected
      BY <1>1 DEF JobRow, ValueRow, NoValue, Value
  <2>2. chartJob' = [chartJob EXCEPT ![j] = new] /\ UNCHANGED <<expected, results, inFlight, request>>
      BY <1>3 DEF JobStarts
  <2>3. j <= expected
      BY <1>3 DEF JobStarts, ChartInv, Rows
  <2> HIDE DEF new
  <2>4. /\ chartJob' \in [0..LastDate -> JobRow]
        /\ \A k \in 0..LastDate : chartJob'[k] = chartJob[k] \/ (k = j /\ chartJob'[k] = new)
      BY <1>1, <2>1, <2>2
  <2>5. Rows'
      BY <1>1, <2>1, <2>2, <2>3, <2>4 DEF ChartInv, Rows
  <2>q. QED
      BY <1>1, <2>1, <2>2, <2>4, <2>5, OthersKeepCharts
<1>4. ASSUME NEW j \in 0..LastDate, RetentionEnds(j) PROVE ChartInv'
  <2>1. chartJob' = [chartJob EXCEPT ![j] = NoChartJob] /\ UNCHANGED <<expected, results, inFlight, request>>
      BY <1>4 DEF RetentionEnds
  <2>2. /\ chartJob' \in [0..LastDate -> JobRow]
        /\ \A k \in 0..LastDate : chartJob'[k] = chartJob[k] \/ chartJob'[k] = NoChartJob
      BY <1>1, <1>2, <2>1
  <2>3. Rows'
      BY <1>2, <2>1, <2>2 DEF ChartInv, Rows
  <2>q. QED
      BY <1>1, <1>2, <2>1, <2>2, <2>3, OthersKeepCharts
<1>5. CASE BootAdded
  <2>1. Rows' /\ \A k \in 0..LastDate : chartJob'[k].is = "completed" => chartJob[k].is = "completed"
      BY <1>1, <1>5, AddedRows DEF BootAdded, ChartInv
  <2>q. QED
      BY <1>1, <1>5, <2>1, OthersKeepCharts DEF BootAdded
<1>6. CASE WorkerDies
  <2> DEFINE new == [NoChartJob EXCEPT !.is = "waiting"]
  <2>1. new \in JobRow /\ new.is = "waiting"
      BY ChartAssumption DEF NoChartJob, NoValue, Value, JobRow, ValueRow
  <2>2. /\ chartJob' = [j \in 0..LastDate |-> IF j \in Running THEN new ELSE chartJob[j]]
        /\ UNCHANGED <<expected, results, inFlight, request>>
      BY <1>6 DEF WorkerDies
  <2> HIDE DEF new
  <2>3. /\ chartJob' \in [0..LastDate -> JobRow]
        /\ \A k \in 0..LastDate : \/ chartJob'[k] = chartJob[k]
                                  \/ chartJob[k].is = "active" /\ chartJob'[k] = new
      BY <1>1, <2>1, <2>2 DEF Running
  <2>4. Rows'
      BY <2>1, <2>2, <2>3 DEF ChartInv, Rows
  <2>q. QED
      BY <1>1, <2>1, <2>2, <2>3, <2>4, OthersKeepCharts
<1>7. CASE NextDate
  <2>1. expected' \in Date /\ expected <= expected' /\ UNCHANGED <<results, inFlight, chartJob, request>>
      BY <1>7, ChartAssumption DEF NextDate, ChartInv, Rows, Date
  <2>2. \A j \in 0..LastDate : j <= expected => j <= expected'
      BY <1>1, <2>1, ChartAssumption DEF Date
  <2>3. Rows'
      BY <2>1, <2>2 DEF ChartInv, Rows
  <2>q. QED
      BY <2>1, <2>3, OthersKeepCharts
<1>q. QED
    BY <1>3, <1>4, <1>5, <1>6, <1>7

-----------------------------------------------------------------------------
(* Charts: the theorem *)

\* Every step keeps the invariant.
LEMMA NextChartInv == ChartInv /\ [ChartNext]_chartVars => ChartInv'
<1> SUFFICES ASSUME ChartInv, [ChartNext]_chartVars PROVE ChartInv'
    OBVIOUS
<1>1. CASE chartVars' = chartVars
    BY <1>1 DEF chartVars, ChartInv, Rows
<1>2. CASE ChartNext
    BY <1>2, AsksKeep, ForcedKeeps, ReadsKeep, RemovesAndAddsKeep, QueueFailsKeeps, RefreshKeeps,
       JobEndsKeep, QueueStepsKeep DEF ChartNext
<1>q. QED
    BY <1>1, <1>2

\* For any processes, calls, dates, restarts and failed removals: a chart is told of its own date, a
\* failed repair answers only those who awaited it, or could not remove it, and who forces a refresh is
\* told of one that ended afterwards.
THEOREM ChartsFresh == ChartSpec => []ChartAnswersAreFresh
<1>1. ChartInv => ChartAnswersAreFresh
    BY DEF ChartInv, Right, AnsweredWell, ChartAnswersAreFresh, AnswersAreOfTheirDate,
           FailedIsNeverSettled, ForcedIsFresh, Answers
<1>q. QED
    BY <1>1, InitChartInv, NextChartInv, PTL DEF ChartSpec

=============================================================================
