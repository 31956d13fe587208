------------------------------ MODULE Calendar ------------------------------
(***************************************************************************)
(* The trading calendar of trading-calendar.ts: which day has a finished   *)
(* daily candle, and which week is finished.  Days are numbered, day 0 is  *)
(* a Monday; `today' and `closed' are the exchange's own date and whether  *)
(* its market has closed today.  Holidays are not known to the code.       *)
(***************************************************************************)
EXTENDS Integers

\* The day itself, or the Friday before a weekend.
WeekdayUpTo(d) == IF d % 7 = 6 THEN d - 2 ELSE IF d % 7 = 5 THEN d - 1 ELSE d

LatestExpectedTradingDay(today, closed) ==
    WeekdayUpTo(IF closed THEN today ELSE today - 1)

IsoWeekStart(d) == d - (d % 7)

WeekEndingFriday(d) == IsoWeekStart(d) + 4

IsCompletedTradingWeek(d, today, closed) ==
    LatestExpectedTradingDay(today, closed) >= WeekEndingFriday(d)

CompletedWeekEndingFromTradingDay(d) ==
    IF d >= WeekEndingFriday(d) THEN WeekEndingFriday(d) ELSE WeekEndingFriday(d) - 7

LatestCompletedWeekEnding(today, closed) ==
    CompletedWeekEndingFromTradingDay(LatestExpectedTradingDay(today, closed))
=============================================================================
