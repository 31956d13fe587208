--------------------------- MODULE WeeklySignals ---------------------------
(***************************************************************************)
(* What the product says of one stock while its daily closes arrive: the   *)
(* Scanner's bands, its verdict now, its backtest, the stocks in and out   *)
(* of a week, and the weekly-strong backtest with its daily condition.     *)
(* Each is a function of the stored closes and of the calendar.  Closes    *)
(* arrive in any order after their day: late, corrected, or never.         *)
(***************************************************************************)
EXTENDS Calendar, Sequences, FiniteSetsExt, SequencesExt

CONSTANTS
    TradingDay,      \* the days of the calendar a close may be stored for
    LastDay,         \* the calendar ends here
    Close,           \* closes, per cent of the highest one
    RequestedWeeks,  \* the lookback a caller asks for
    Tier,            \* all lookbacks on offer: a short history falls back to a smaller one
    DailyLookback,   \* bars of the daily condition
    MinDailyBars,
    MinWeeklyBars    \* floors of the weekly-strong history

ASSUME SignalsAssumption ==
    /\ TradingDay \subseteq 0..LastDay /\ LastDay \in Nat
    /\ Close \subseteq Nat \ {0}
    /\ Tier \subseteq Nat \ {0} /\ RequestedWeeks \in Tier
    /\ {DailyLookback, MinDailyBars, MinWeeklyBars} \subseteq Nat \ {0}

VARIABLES
    today,    \* the exchange's date
    closed,   \* its market has closed today
    closes    \* stored daily closes, 0 for a day without

signalVars == <<today, closed, closes>>

NoClose == -1

\* Days in order.
Ascending(days) ==
    LET upTo[n \in 0..(LastDay + 1)] ==
            IF n = 0 THEN <<>>
            ELSE IF n - 1 \in days THEN Append(upTo[n - 1], n - 1)
            ELSE upTo[n - 1]
    IN  upTo[LastDay + 1]

-----------------------------------------------------------------------------
\* Daily closes and the weeks made of them.

DailyCloses == LET days == Ascending({d \in TradingDay : closes[d] # 0})
               IN  [i \in DOMAIN days |-> [time |-> days[i], close |-> closes[days[i]]]]

\* A week is labelled with its Monday and closes with its last stored day.
WeeklyCloses(daily) ==
    LET weeks == Ascending({IsoWeekStart(daily[i].time) : i \in DOMAIN daily})
        last(w) == Max({i \in DOMAIN daily : IsoWeekStart(daily[i].time) = w})
    IN  [k \in DOMAIN weeks |-> [time |-> weeks[k], close |-> daily[last(weeks[k])].close]]

ExcludeIncompleteTradingWeek(rows) ==
    IF rows = <<>> \/ IsCompletedTradingWeek(Last(rows).time, today, closed)
    THEN rows
    ELSE Front(rows)

CompletedWeeks == ExcludeIncompleteTradingWeek(WeeklyCloses(DailyCloses))

\* Mutant: a missing week is bridged.
SegmentsBridged(rows) == IF rows = <<>> THEN {} ELSE {rows}

\* A week without any close cuts the series.
Segments(rows) ==
    LET cut(i) == i = 1 \/ WeekEndingFriday(rows[i].time) - WeekEndingFriday(rows[i - 1].time) > 7
        end(i) == Min({j \in i..Len(rows) : j = Len(rows) \/ cut(j + 1)})
    IN  {SubSeq(rows, i, end(i)) : i \in {k \in DOMAIN rows : cut(k)}}

LatestSegment(rows) ==
    IF rows = <<>> THEN <<>> ELSE CHOOSE s \in Segments(rows) : Last(s) = Last(rows)

IsLatestWeekFresh(rows) ==
    /\ rows # <<>>
    /\ WeekEndingFriday(Last(rows).time) >= LatestCompletedWeekEnding(today, closed)

-----------------------------------------------------------------------------
\* The rule: a close above 85 per cent of the highest close of a full window.

\* The deque of each position holds the candidates for the maximum, in order and best first.
RollingMax(values, window) ==
    LET deque[i \in 0..Len(values)] ==
            IF i = 0 THEN {}
            ELSE {j \in deque[i - 1] : values[j] > values[i] /\ j >= i - window + 1} \union {i}
    IN  [i \in DOMAIN values |-> values[Min(deque[i])]]

Near(close, high) == close * 100 > high * 85

\* The same for one position.
PassesNearHigh(values, i, window) ==
    Near(values[i], Max({values[j] : j \in {k \in 1..i : k > i - window}}))

ClosesOf(rows) == [i \in DOMAIN rows |-> rows[i].close]

ScannerSeries(rows, lookback) ==
    LET highs == RollingMax(ClosesOf(rows), lookback)
    IN  [i \in DOMAIN rows |-> i >= lookback /\ Near(rows[i].close, highs[i])]

\* 0 when the history is too short for every lookback allowed.
EffectiveLookbackWeeks(available, strict) ==
    IF available >= RequestedWeeks THEN RequestedWeeks
    ELSE IF strict THEN 0
    ELSE Max({0} \union {t \in Tier : t <= available})

-----------------------------------------------------------------------------
\* The verdict of now.

NoSignal == [matched |-> FALSE, lookback |-> 0, current |-> NoClose, entry |-> NoClose,
             previousMatched |-> FALSE, previous |-> NoClose]

CurrentSignal(rows, strict) ==
    LET segment == LatestSegment(rows)
        lookback == EffectiveLookbackWeeks(Len(segment), strict)
        passes == ScannerSeries(segment, lookback)
        n == Len(segment)
        streak == Min({i \in 1..n : \A k \in i..n : passes[k]})
    IN  IF ~IsLatestWeekFresh(rows) THEN NoSignal
        ELSE IF lookback = 0 THEN [NoSignal EXCEPT !.current = segment[n].time]
        ELSE [matched |-> passes[n],
              lookback |-> lookback,
              current |-> segment[n].time,
              entry |-> IF passes[n] THEN segment[streak].time ELSE NoClose,
              previousMatched |-> n > 1 /\ passes[n - 1],
              previous |-> IF n > 1 THEN segment[n - 1].time ELSE NoClose]

CompletedSignal(strict) == CurrentSignal(CompletedWeeks, strict)

\* The forming week counts as the latest one.
LiveSignal(strict) == CurrentSignal(WeeklyCloses(DailyCloses), strict)

\* The bands of the chart: every completed week that passed in its own segment.
HighlightTimes ==
    LET rows == CompletedWeeks
        passing(s) == LET lookback == EffectiveLookbackWeeks(Len(s), TRUE)
                      IN  IF lookback = 0 THEN {}
                          ELSE LET passes == ScannerSeries(s, lookback)
                               IN  {s[i].time : i \in {k \in DOMAIN s : passes[k]}}
    IN  UNION {passing(s) : s \in Segments(rows)}

\* The answer for one symbol, or none at all.
ScannerResult ==
    LET fresh == CompletedSignal(TRUE)
    IN  IF HighlightTimes = {} /\ fresh.lookback = 0
        THEN {}
        ELSE {[start |-> IF HighlightTimes = {} THEN Last(CompletedWeeks).time ELSE Min(HighlightTimes),
               end |-> Last(CompletedWeeks).time,
               highlights |-> HighlightTimes,
               latestMatched |-> LiveSignal(TRUE).matched]}

\* A stock of the harvest: since when it is in.
StockHarvest ==
    LET signal == CompletedSignal(FALSE)
    IN  IF signal.matched THEN {[inSince |-> WeekEndingFriday(signal.entry)]} ELSE {}

\* Stocks in and out of the current week, for a collection of this one stock.
MembershipChanges ==
    LET signal == LiveSignal(FALSE)
    IN  [available |-> signal.current # NoClose,
         entered |-> signal.matched /\ ~signal.previousMatched,
         exited |-> signal.previousMatched /\ ~signal.matched,
         inProgress |-> signal.current # NoClose
                          /\ WeekEndingFriday(signal.current) > LatestCompletedWeekEnding(today, closed)]

\* The backtest's trades of a segment: in on the first passing week, out on
\* the first one that does not, the last one left open at the segment's end.
BreakoutTrades(s) ==
    LET passes == ScannerSeries(s, RequestedWeeks)
        entries == {i \in DOMAIN s : passes[i] /\ ~(i > 1 /\ passes[i - 1])}
        exit(i) == Min({Len(s)} \union {k \in (i + 1)..Len(s) : ~passes[k]})
    IN  {[entry |-> s[i].time, exit |-> s[exit(i)].time, open |-> passes[exit(i)]] : i \in entries}

SymbolBreakoutBacktest == UNION {BreakoutTrades(s) : s \in Segments(CompletedWeeks)}

-----------------------------------------------------------------------------
\* The weekly-strong backtest, with both conditions.

\* The last daily bar not later than a week's own label, 0 without one.
AlignedDay(daily, week) == Max({0} \union {i \in DOMAIN daily : daily[i].time <= week.time})

WeeklyStrongSeries(daily, weekly) ==
    LET dailyHighs == RollingMax(ClosesOf(daily), DailyLookback)
        weeklyHighs == RollingMax(ClosesOf(weekly), Max(Tier))
        point(k) == LET i == AlignedDay(daily, weekly[k])
                    IN  [time |-> weekly[k].time,
                         passesDaily |-> Near(daily[i].close, dailyHighs[i]),
                         passesWeekly |-> Near(weekly[k].close, weeklyHighs[k])]
    IN  {point(k) : k \in {j \in DOMAIN weekly : AlignedDay(daily, weekly[j]) # 0}}

WeeklyStrongBacktest ==
    IF Len(DailyCloses) >= MinDailyBars /\ Len(CompletedWeeks) >= MinWeeklyBars
    THEN WeeklyStrongSeries(DailyCloses, CompletedWeeks)
    ELSE {}

-----------------------------------------------------------------------------
\* Time and the candle sync.

\* The stock is listed on some day, with nothing stored yet.
SignalsInit ==
    /\ today \in 0..LastDay
    /\ closed \in BOOLEAN
    /\ closes = [d \in TradingDay |-> 0]

\* The market closes, then the night passes.
HalfDayPasses ==
    /\ today <= LastDay
    /\ closed' = ~closed
    /\ today' = IF closed THEN today + 1 ELSE today
    /\ UNCHANGED closes

\* The sync stores a day that is expected by now, or corrects one.
CloseStored(d, c) ==
    /\ d <= LatestExpectedTradingDay(today, closed)
    /\ closes[d] # c
    /\ closes' = [closes EXCEPT ![d] = c]
    /\ UNCHANGED <<today, closed>>

SignalsNext ==
    \/ HalfDayPasses
    \/ \E d \in TradingDay, c \in Close : CloseStored(d, c)

SignalsSpec == SignalsInit /\ [][SignalsNext]_signalVars

-----------------------------------------------------------------------------
\* What is promised.

\* Definition of reference, from the closes alone: a week is marked if it is
\* over, every week of its window has a close, and its own is near the highest.
WeekClose(w) == LET days == {d \in TradingDay : closes[d] # 0 /\ IsoWeekStart(d) = w}
                IN  IF days = {} THEN 0 ELSE closes[Max(days)]

Marked ==
    LET window(w) == {w - 7 * k : k \in 0..(RequestedWeeks - 1)}
    IN  {w \in {IsoWeekStart(d) : d \in TradingDay} :
            /\ WeekEndingFriday(w) <= LatestCompletedWeekEnding(today, closed)
            /\ \A v \in window(w) : WeekClose(v) # 0
            /\ Near(WeekClose(w), Max({WeekClose(v) : v \in window(w)}))}

\* The bands are exactly the weeks the rule marks, whatever gaps, late closes
\* and corrections the series has seen: never the forming week, never a
\* window that reaches over a missing week.
BandsAreRight == HighlightTimes = Marked

\* The backtest holds the stock exactly in the marked weeks: each trade runs
\* over consecutive marked weeks and no marked week is outside one.
TradesAreTheBands ==
    LET held(t) == {w \in {IsoWeekStart(d) : d \in TradingDay} :
                       t.entry <= w /\ (w < t.exit \/ (t.open /\ w = t.exit))}
    IN  /\ UNION {held(t) : t \in SymbolBreakoutBacktest} = HighlightTimes
        /\ \A t, u \in SymbolBreakoutBacktest : t # u => held(t) \cap held(u) = {}

\* The verdict over completed weeks names the last band and the open trade's
\* entry; without a row of the forming week the live verdict is the same one,
\* and a stock that is out during the week was in the band before.
VerdictsAgree ==
    LET signal == CompletedSignal(TRUE)
        rows == CompletedWeeks
    IN  /\ signal.matched =>
             /\ Last(rows).time \in HighlightTimes
             /\ \E t \in SymbolBreakoutBacktest :
                    t.open /\ t.entry = signal.entry /\ t.exit = Last(rows).time
        /\ rows = WeeklyCloses(DailyCloses) => LiveSignal(TRUE) = signal
        /\ MembershipChanges.inProgress /\ MembershipChanges.exited
             /\ LiveSignal(FALSE).lookback = RequestedWeeks
             => LiveSignal(FALSE).previous \in HighlightTimes

SignalsAreRight == BandsAreRight /\ TradesAreTheBands /\ VerdictsAgree

\* The evaluator's two forms agree: a week's daily condition is the one read
\* at the last daily bar of that week.  Weeks carry the label of their Monday,
\* so the series reads it at Monday's bar, or at one of an earlier week.
SeriesAgreesWithLatest ==
    LET daily == DailyCloses
    IN  \A p \in WeeklyStrongBacktest :
            p.passesDaily = PassesNearHigh(ClosesOf(daily),
                                Max({i \in DOMAIN daily : daily[i].time <= p.time + 6}),
                                DailyLookback)
=============================================================================
