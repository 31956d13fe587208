------------------------------ MODULE MCWorker ------------------------------
(***************************************************************************)
(* Candles and what waits for them, in components that share no state: a   *)
(* catch-up run, the candles of an exchange, its daily schedule, charts    *)
(* that ask for fresh ones and the snapshots made of them.  One of them    *)
(* moves in a behaviour: what holds of each alone holds of them together.  *)
(***************************************************************************)
EXTENDS CatchUp, CandleSync, DailySchedule, ChartFreshness, Snapshots, TLC

\* The same model values serve every component, so that two swaps reduce all of them.
CONSTANTS x1, x2, y1, y2, full, none

X == {x1, x2}
Y == {y1, y2}
Alike == Permutations(X) \union Permutations(Y)

Symbols == {full, none}
OneOfThem == {none}
TheOther == {full}

VARIABLE part

WorkerInit ==
    /\ part \in {"catchup", "candles", "schedule", "charts", "snapshots"}
    /\ part = "snapshots" \/ key = Strength
    /\ Init /\ CandleInit /\ ScheduleInit /\ ChartInit /\ SnapshotsInit

WorkerNext ==
    /\ UNCHANGED part
    /\ \/ part = "catchup" /\ Next /\ UNCHANGED <<candleVars, scheduleVars, chartVars, snapshotVars>>
       \/ part = "candles" /\ CandleNext /\ UNCHANGED <<vars, scheduleVars, chartVars, snapshotVars>>
       \/ part = "schedule" /\ ScheduleNext /\ UNCHANGED <<vars, candleVars, chartVars, snapshotVars>>
       \/ part = "charts" /\ ChartNext /\ UNCHANGED <<vars, candleVars, scheduleVars, snapshotVars>>
       \/ part = "snapshots" /\ SnapshotsNext /\ UNCHANGED <<vars, candleVars, scheduleVars, chartVars>>

WorkerSpec ==
    WorkerInit /\ [][WorkerNext]_<<part, vars, candleVars, scheduleVars, chartVars, snapshotVars>>
=============================================================================
