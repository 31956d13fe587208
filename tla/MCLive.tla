------------------------------- MODULE MCLive -------------------------------
(***************************************************************************)
(* What must happen in the worker in the end: catch-up runs, and the       *)
(* preparation of a collection.  The two share no state, and one of them   *)
(* moves in a behaviour.  Nothing that fairness is stated of is enabled in *)
(* their initial states, so that the fairness of the one at rest holds as  *)
(* well.                                                                   *)
(***************************************************************************)
EXTENDS Naturals

CONSTANTS full, none, admin1, slot1, slot2, Nobody, NoRun

VARIABLES
    \* of CatchUp
    status, exempt, backtest, have, recent, job, admin, targets, run, lister, final,
    outdated, failures, crashes, stalls, requests,
    \* of Collections
    exists, active, versions, latest, prepStatus, counted, current, historical, queue, slot,
    prepAdmin, inc, overtaken, calls, prepFailures, faults,
    part

runVars == <<status, exempt, backtest, have, recent, job, admin, targets, run, lister, final,
             outdated, failures, crashes, stalls, requests>>
prepVars == <<exists, active, versions, latest, prepStatus, counted, current, historical, queue,
              slot, prepAdmin, inc, overtaken, calls, prepFailures, faults>>

Run == INSTANCE CatchUp WITH
    Symbol <- {full, none}, Empty <- {none}, Admin <- {admin1}, Slot <- {slot1, slot2},
    BullAttempts <- 2, MaxFailures <- 1, MaxCrashes <- 1, MaxStalls <- 1, MaxRequests <- 1

Preparation == INSTANCE Collections WITH
    Instrument <- {full}, Short <- {}, Weeks <- 2, Admin <- {admin1}, Slot <- {slot1},
    MaxVersions <- 2, MaxCalls <- 1, MaxFailures <- 1, MaxFaults <- 1,
    status <- prepStatus, admin <- prepAdmin, failures <- prepFailures

LiveInit ==
    /\ part \in {"runs", "collection"}
    /\ Run!Init /\ Preparation!Init
    /\ part = "collection" \/ versions[1].from = 1

LiveNext ==
    /\ UNCHANGED part
    /\ \/ part = "runs" /\ Run!Next /\ UNCHANGED prepVars
       \/ part = "collection" /\ Preparation!Next /\ UNCHANGED runVars

LiveSpec ==
    /\ LiveInit /\ [][LiveNext]_<<part, runVars, prepVars>>
    /\ Run!Fairness /\ Preparation!Fairness

\* Every catch-up run ends (CatchUp.EveryRunEnds).
EveryCatchUpEnds == Run!EveryRunEnds

\* Every run whose job is gone is found by a list of runs (CatchUp.OrphansAreFound).
OrphansAreSeen == Run!OrphansAreFound

\* Every request of an import is answered by a job of its version
\* (Collections.ImportIsPrepared).
EveryImportIsPrepared == Preparation!ImportIsPrepared
=============================================================================
