----------------------------- MODULE MCSignals -----------------------------
(* Constants of WeeklySignals for TLC. *)
EXTENDS WeeklySignals

Days == {0, 4, 7, 11}
Closes == {80, 90, 100}
Tiers == {1, 2}
=============================================================================
