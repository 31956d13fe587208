------------------------------ MODULE JobsProofs ------------------------------
(***************************************************************************)
(* Proofs about the jobs of the worker, for any numbers of requests, rows, *)
(* slots, attempts, failures and crashes.                                  *)
(*                                                                         *)
(* The historical catch-up: the types of its state and, as long as no      *)
(* worker loses its lock without noticing, that it is run by one worker at *)
(* a time and that backtests are marked current only while the candles are *)
(* complete.  The operations that rows of sync_jobs tell of: the rows tell *)
(* what became of their jobs, and no kind of backtest runs twice.  The     *)
(* daily schedule: every scheduled day is run, once, and its row says so.  *)
(***************************************************************************)
EXTENDS CatchUp, SyncJobs, DailySchedule, TLAPS

-------------------------------------------------------------------------------
(* The catch-up *)

\* A slot at work holds the lock of the one job.
WorkersHoldTheJob ==
    \A w \in Slot : run[w].at # "idle" => job.state = "active" /\ job.owner = w

\* Between its two writes of the exemptions a run finds in the row what it wrote there.
OwnExemptions == \A w \in Slot : run[w].at = "coverage" => exempt = run[w].empty

\* A verdict not yet acted upon is still right, or too pessimistic.
VerdictStands ==
    \A w \in Slot : /\ run[w].at = "verdict"  => Missing \subseteq run[w].missing
                    /\ run[w].at = "backtest" => Missing = {}

\* So is an admin's decision to refresh the backtests, unless it was overtaken.
RefreshStands == \A a \in Admin \ outdated : admin[a] = "refresh" => Missing = {}

CoverageInv == OwnExemptions /\ VerdictStands /\ RefreshStands

\* All of it only while no lock has been lost.
CatchUpInv == TypeOK /\ (stalls = 0 => WorkersHoldTheJob /\ CoverageInv)

-----------------------------------------------------------------------------
(* Types *)

\* The initial state is well typed.
LEMMA InitTypeOK == Init => TypeOK
BY BullAssumption, CatchUpBoundAssumption
   DEF Init, TypeOK, row, market, bounds, NoJob, Resting, Retryable, Active

\* What a slot may be doing.
Work == [at : {"idle", "read", "claim", "sync", "coverage", "verdict", "backtest", "done"},
         todo : SUBSET Symbol, empty : SUBSET Symbol, failed : SUBSET Symbol,
         missing : SUBSET Symbol]

\* The BullMQ job: only an active one has an owner.
JobOK(j) ==
    /\ j \in [state : {"none", "waiting", "active", "delayed"}, owner : Slot \union {Nobody},
              symbols : SUBSET Symbol, left : 0..BullAttempts, stalled : BOOLEAN]
    /\ j.state = "active" <=> j.owner # Nobody

\* Adding the job keeps its type.
LEMMA EnqueuedType ==
    ASSUME TypeOK, NEW a \in Admin, Enqueued(a)
    PROVE  JobOK(job')
BY BullAssumption DEF TypeOK, Enqueued, JobOK

\* So does giving it back, retrying it or recovering it.
LEMMA JobTypes ==
    ASSUME TypeOK
    PROVE  /\ JobOK(job) /\ JobOK(Recovered)
           /\ \A w \in Slot : JobOK(Released(w)) /\ JobOK(Retried(w))
<1> USE BullAssumption DEF TypeOK, JobOK
<1>1. JobOK(NoJob)
    BY DEF NoJob
<1>2. JobOK(Recovered)
    BY <1>1 DEF Recovered
<1>3. ASSUME NEW w \in Slot PROVE JobOK(Released(w))
    BY <1>1 DEF Released
<1>4. ASSUME NEW w \in Slot PROVE JobOK(Retried(w))
  <2>1. job.left > 1 => job.left - 1 \in 0..BullAttempts
      OBVIOUS
  <2>q. QED
      BY <1>1, <2>1 DEF Retried
<1>q. QED
    BY <1>1, <1>2, <1>3, <1>4

\* Steps that write two fields of a slot keep its type.
LEMMA RunTypes ==
    ASSUME TypeOK, NEW w \in Slot
    PROVE  /\ Pick(w) => JobOK(job') /\ run' \in [Slot -> Work]
           /\ ClaimWrites(w) => run' \in [Slot -> Work]
           /\ CoverageReads(w) => run' \in [Slot -> Work] /\ exempt' \subseteq Symbol
           /\ \A s \in Symbol : SyncFails(w, s) => run' \in [Slot -> Work]
<1>1. /\ run \in [Slot -> Work] /\ run[w] \in Work /\ JobOK(job)
      /\ recent \subseteq Symbol /\ exempt \subseteq Symbol /\ Nobody \notin Slot
    BY CatchUpBoundAssumption DEF TypeOK, Work, JobOK
<1>2. ASSUME Pick(w) PROVE JobOK(job') /\ run' \in [Slot -> Work]
  <2>1. job' = [job EXCEPT !.state = "active", !.owner = w]
      BY <1>2 DEF Pick
  <2>2. JobOK(job')
      BY <1>1, <2>1 DEF JobOK
  <2>3. run' \in [Slot -> Work]
      BY <1>1, <1>2 DEF Pick, Work, JobOK
  <2>q. QED
      BY <2>2, <2>3
<1>3. ASSUME ClaimWrites(w) PROVE run' \in [Slot -> Work]
    BY <1>1, <1>3 DEF ClaimWrites, Work
<1>4. ASSUME CoverageReads(w) PROVE run' \in [Slot -> Work] /\ exempt' \subseteq Symbol
  <2>1. exempt' \subseteq Symbol
      BY <1>1, <1>4 DEF CoverageReads, Work
  <2>2. MissingBut(exempt') \subseteq Symbol
      BY DEF MissingBut
  <2>3. run' \in [Slot -> Work]
      BY <1>1, <1>4, <2>2 DEF CoverageReads, Work
  <2>q. QED
      BY <2>1, <2>3
<1>5. ASSUME NEW s \in Symbol, SyncFails(w, s) PROVE run' \in [Slot -> Work]
    BY <1>1, <1>5 DEF SyncFails, Work
<1>q. QED
    BY <1>2, <1>3, <1>4, <1>5

\* Every step keeps the types.
LEMMA NextTypeOK == TypeOK /\ [Next]_vars => TypeOK'
<1> SUFFICES ASSUME TypeOK, [Next]_vars PROVE TypeOK'
    OBVIOUS
<1> USE BullAssumption, CatchUpBoundAssumption
        DEF TypeOK, JobOK, Work, row, market, bounds
<1>1. ASSUME NEW a \in Admin, RequestBegins(a) PROVE TypeOK'
    BY <1>1 DEF RequestBegins, Goes, Missing, MissingBut
<1>2. ASSUME NEW a \in Admin, Insert(a) PROVE TypeOK'
    BY <1>2 DEF Insert, Goes, Retryable, Active
<1>3. ASSUME NEW a \in Admin, Lookup(a) PROVE TypeOK'
    BY <1>3 DEF Lookup, Goes
<1>4. ASSUME NEW a \in Admin, Add(a) PROVE TypeOK'
    BY <1>4, EnqueuedType DEF Add, Goes
<1>5. ASSUME NEW a \in Admin, AddTimesOut(a) PROVE TypeOK'
    BY <1>5 DEF AddTimesOut, Goes
<1>6. ASSUME NEW a \in Admin, StragglerArrives(a) PROVE TypeOK'
    BY <1>6, EnqueuedType DEF StragglerArrives, Goes
<1>7. ASSUME NEW a \in Admin, MarkQueued(a) PROVE TypeOK'
    BY <1>7 DEF MarkQueued, Goes, Active
<1>8. ASSUME NEW a \in Admin, RefreshDecides(a) PROVE TypeOK'
    BY <1>8 DEF RefreshDecides, Goes
<1>9. ASSUME NEW a \in Admin, RefreshMarks(a) PROVE TypeOK'
    BY <1>9 DEF RefreshMarks, Goes
<1>10. ASSUME NEW w \in Slot, Pick(w) PROVE TypeOK'
    BY <1>10, RunTypes DEF Pick
<1>11. ASSUME NEW w \in Slot, ClaimReads(w) PROVE TypeOK'
    BY <1>11, JobTypes DEF ClaimReads, Resting
<1>12. ASSUME NEW w \in Slot, ClaimWrites(w) PROVE TypeOK'
    BY <1>12, RunTypes DEF ClaimWrites, Active
<1>13. ASSUME NEW w \in Slot, FinishSummary(w) PROVE TypeOK'
  <2>1. run' \in [Slot -> Work] /\ exempt' \subseteq Symbol
      BY <1>13 DEF FinishSummary
  <2>2. outdated' \subseteq Admin /\ status' \in Retryable \union Active \union {"absent", "completed"}
      BY <1>13 DEF FinishSummary, Retryable
  <2>q. QED
      BY <1>13, <2>1, <2>2 DEF FinishSummary
<1>14. ASSUME NEW w \in Slot, CoverageReads(w) PROVE TypeOK'
  <2>1. run' \in [Slot -> Work]
      BY <1>14, RunTypes
  <2>2. exempt' \subseteq Symbol
      BY <1>14, RunTypes DEF CoverageReads
  <2>3. UNCHANGED <<status, backtest, market, job, admin, targets, lister, final, outdated,
                      bounds>>
      BY <1>14 DEF CoverageReads
  <2>q. QED
      BY <2>1, <2>2, <2>3
<1>15. ASSUME NEW w \in Slot, CoverageWrites(w) PROVE TypeOK'
    BY <1>15 DEF CoverageWrites, AfterCoverage, Retryable
<1>16. ASSUME NEW w \in Slot, Backtest(w) PROVE TypeOK'
    BY <1>16 DEF Backtest
<1>17. ASSUME NEW w \in Slot, Complete(w) PROVE TypeOK'
    BY <1>17, JobTypes DEF Complete, Resting
<1>18. ASSUME NEW w \in Slot, NEW s \in Symbol, SyncSymbol(w, s) PROVE TypeOK'
    BY <1>18 DEF SyncSymbol
<1>19. ASSUME NEW w \in Slot, LoseLock(w) PROVE TypeOK'
    BY <1>19, JobTypes DEF LoseLock
<1>20. ASSUME NEW w \in Slot, Crash(w) PROVE TypeOK'
    BY <1>20 DEF Crash, Resting
<1>21. ASSUME NEW w \in Slot, RateLimited(w) PROVE TypeOK'
    BY <1>21, JobTypes DEF RateLimited, Resting, Retryable
<1>22. ASSUME NEW w \in Slot, NEW s \in Symbol, SyncFails(w, s) PROVE TypeOK'
  <2>1. run' \in [Slot -> Work]
      BY <1>22, RunTypes
  <2>2. failures' \in 0..MaxFailures
      BY <1>22 DEF SyncFails
  <2>3. UNCHANGED <<row, market, job, admin, targets, lister, final, outdated, crashes,
                      stalls, requests>>
      BY <1>22 DEF SyncFails
  <2>q. QED
      BY <2>1, <2>2, <2>3
<1>23. CASE BackoffEnds
    BY <1>23 DEF BackoffEnds
<1>24. CASE StalledCheck
    BY <1>24, JobTypes DEF StalledCheck
<1>25. CASE ListReads
    BY <1>25 DEF ListReads
<1>26. CASE ListLooksUp
    BY <1>26 DEF ListLooksUp
<1>27. CASE ListMarks
    BY <1>27 DEF ListMarks, Retryable, Active
<1>28. CASE CoolOff
    BY <1>28 DEF CoolOff
<1>29. CASE UNCHANGED vars
    BY <1>29 DEF vars
<1>q. QED
    BY <1>1, <1>2, <1>3, <1>4, <1>5, <1>6, <1>7, <1>8, <1>9, <1>10, <1>11, <1>12, <1>13,
       <1>14, <1>15, <1>16, <1>17, <1>18, <1>19, <1>20, <1>21, <1>22, <1>23, <1>24, <1>25,
       <1>26, <1>27, <1>28, <1>29
       DEF Next, AdminStep, Working, Mishap

\* Types of the catch-up, for any number of admins, workers, instruments and faults.
THEOREM CatchUpTypes == Spec => []TypeOK
BY InitTypeOK, NextTypeOK, PTL DEF Spec

-----------------------------------------------------------------------------
(* One run at a time *)

\* A lock once lost stays lost: before a step that ends with none lost none was.
LEMMA StallsGrow == TypeOK /\ [Next]_vars /\ stalls' = 0 => stalls = 0
<1> SUFFICES ASSUME TypeOK, [Next]_vars, stalls' = 0 PROVE stalls = 0
    OBVIOUS
<1>0. stalls \in Nat
    BY CatchUpBoundAssumption DEF TypeOK
<1> USE <1>0 DEF bounds
<1>1. ASSUME NEW a \in Admin, RequestBegins(a) PROVE stalls = 0
    BY <1>1 DEF RequestBegins
<1>2. ASSUME NEW a \in Admin, Insert(a) PROVE stalls = 0
    BY <1>2 DEF Insert
<1>3. ASSUME NEW a \in Admin, Lookup(a) PROVE stalls = 0
    BY <1>3 DEF Lookup
<1>4. ASSUME NEW a \in Admin, Add(a) PROVE stalls = 0
    BY <1>4 DEF Add
<1>5. ASSUME NEW a \in Admin, AddTimesOut(a) PROVE stalls = 0
    BY <1>5 DEF AddTimesOut
<1>6. ASSUME NEW a \in Admin, StragglerArrives(a) PROVE stalls = 0
    BY <1>6 DEF StragglerArrives
<1>7. ASSUME NEW a \in Admin, MarkQueued(a) PROVE stalls = 0
    BY <1>7 DEF MarkQueued
<1>8. ASSUME NEW a \in Admin, RefreshDecides(a) PROVE stalls = 0
    BY <1>8 DEF RefreshDecides
<1>9. ASSUME NEW a \in Admin, RefreshMarks(a) PROVE stalls = 0
    BY <1>9 DEF RefreshMarks
<1>10. ASSUME NEW w \in Slot, Pick(w) PROVE stalls = 0
    BY <1>10 DEF Pick
<1>11. ASSUME NEW w \in Slot, ClaimReads(w) PROVE stalls = 0
    BY <1>11 DEF ClaimReads
<1>12. ASSUME NEW w \in Slot, ClaimWrites(w) PROVE stalls = 0
    BY <1>12 DEF ClaimWrites
<1>13. ASSUME NEW w \in Slot, FinishSummary(w) PROVE stalls = 0
    BY <1>13 DEF FinishSummary
<1>14. ASSUME NEW w \in Slot, CoverageReads(w) PROVE stalls = 0
    BY <1>14 DEF CoverageReads
<1>15. ASSUME NEW w \in Slot, CoverageWrites(w) PROVE stalls = 0
    BY <1>15 DEF CoverageWrites
<1>16. ASSUME NEW w \in Slot, Backtest(w) PROVE stalls = 0
    BY <1>16 DEF Backtest
<1>17. ASSUME NEW w \in Slot, Complete(w) PROVE stalls = 0
    BY <1>17 DEF Complete
<1>18. ASSUME NEW w \in Slot, NEW s \in Symbol, SyncSymbol(w, s) PROVE stalls = 0
    BY <1>18 DEF SyncSymbol
<1>19. ASSUME NEW w \in Slot, LoseLock(w) PROVE stalls = 0
    BY <1>19 DEF LoseLock
<1>20. ASSUME NEW w \in Slot, Crash(w) PROVE stalls = 0
    BY <1>20 DEF Crash
<1>21. ASSUME NEW w \in Slot, RateLimited(w) PROVE stalls = 0
    BY <1>21 DEF RateLimited
<1>22. ASSUME NEW w \in Slot, NEW s \in Symbol, SyncFails(w, s) PROVE stalls = 0
    BY <1>22 DEF SyncFails
<1>23. CASE BackoffEnds
    BY <1>23 DEF BackoffEnds
<1>24. CASE StalledCheck
    BY <1>24 DEF StalledCheck
<1>25. CASE ListReads
    BY <1>25 DEF ListReads
<1>26. CASE ListLooksUp
    BY <1>26 DEF ListLooksUp
<1>27. CASE ListMarks
    BY <1>27 DEF ListMarks
<1>28. CASE CoolOff
    BY <1>28 DEF CoolOff
<1>29. CASE UNCHANGED vars
    BY <1>29 DEF vars, bounds
<1>q. QED
    BY <1>1, <1>2, <1>3, <1>4, <1>5, <1>6, <1>7, <1>8, <1>9, <1>10, <1>11, <1>12, <1>13,
       <1>14, <1>15, <1>16, <1>17, <1>18, <1>19, <1>20, <1>21, <1>22, <1>23, <1>24, <1>25,
       <1>26, <1>27, <1>28, <1>29
       DEF Next, AdminStep, Working, Mishap

\* Every step keeps the lock with the slot at work.
LEMMA NextWorkersHoldTheJob ==
    TypeOK /\ WorkersHoldTheJob /\ stalls' = 0 /\ [Next]_vars => WorkersHoldTheJob'
<1> SUFFICES ASSUME TypeOK, WorkersHoldTheJob, stalls' = 0, [Next]_vars
             PROVE  WorkersHoldTheJob'
    OBVIOUS
<1>0. /\ run \in [Slot -> Work] /\ JobOK(job) /\ Nobody \notin Slot /\ stalls = 0
      /\ 0 \in Nat
    BY CatchUpBoundAssumption, StallsGrow DEF TypeOK, JobOK, Work
<1> USE <1>0 DEF WorkersHoldTheJob, Work, JobOK
<1>1. ASSUME NEW a \in Admin, RequestBegins(a) PROVE WorkersHoldTheJob'
    BY <1>1 DEF RequestBegins
<1>2. ASSUME NEW a \in Admin, Insert(a) PROVE WorkersHoldTheJob'
    BY <1>2 DEF Insert
<1>3. ASSUME NEW a \in Admin, Lookup(a) PROVE WorkersHoldTheJob'
    BY <1>3 DEF Lookup
<1>4. ASSUME NEW a \in Admin, Add(a) PROVE WorkersHoldTheJob'
    BY <1>4 DEF Add, Enqueued
<1>5. ASSUME NEW a \in Admin, AddTimesOut(a) PROVE WorkersHoldTheJob'
    BY <1>5 DEF AddTimesOut
<1>6. ASSUME NEW a \in Admin, StragglerArrives(a) PROVE WorkersHoldTheJob'
    BY <1>6 DEF StragglerArrives, Enqueued
<1>7. ASSUME NEW a \in Admin, MarkQueued(a) PROVE WorkersHoldTheJob'
    BY <1>7 DEF MarkQueued
<1>8. ASSUME NEW a \in Admin, RefreshDecides(a) PROVE WorkersHoldTheJob'
    BY <1>8 DEF RefreshDecides
<1>9. ASSUME NEW a \in Admin, RefreshMarks(a) PROVE WorkersHoldTheJob'
    BY <1>9 DEF RefreshMarks
<1>10. ASSUME NEW w \in Slot, Pick(w) PROVE WorkersHoldTheJob'
    BY <1>10 DEF Pick
<1>11. ASSUME NEW w \in Slot, ClaimReads(w) PROVE WorkersHoldTheJob'
    BY <1>11 DEF ClaimReads, Resting, Released
<1>12. ASSUME NEW w \in Slot, ClaimWrites(w) PROVE WorkersHoldTheJob'
    BY <1>12 DEF ClaimWrites
<1>13. ASSUME NEW w \in Slot, FinishSummary(w) PROVE WorkersHoldTheJob'
    BY <1>13 DEF FinishSummary
<1>14. ASSUME NEW w \in Slot, CoverageReads(w) PROVE WorkersHoldTheJob'
    BY <1>14 DEF CoverageReads
<1>15. ASSUME NEW w \in Slot, CoverageWrites(w) PROVE WorkersHoldTheJob'
    BY <1>15 DEF CoverageWrites
<1>16. ASSUME NEW w \in Slot, Backtest(w) PROVE WorkersHoldTheJob'
    BY <1>16 DEF Backtest
<1>17. ASSUME NEW w \in Slot, Complete(w) PROVE WorkersHoldTheJob'
    BY <1>17 DEF Complete, Resting, Released
<1>18. ASSUME NEW w \in Slot, NEW s \in Symbol, SyncSymbol(w, s) PROVE WorkersHoldTheJob'
    BY <1>18 DEF SyncSymbol
<1>19. ASSUME NEW w \in Slot, LoseLock(w) PROVE WorkersHoldTheJob'
    BY <1>19 DEF LoseLock, Recovered, NoJob
<1>20. ASSUME NEW w \in Slot, Crash(w) PROVE WorkersHoldTheJob'
    BY <1>20 DEF Crash, Resting
<1>21. ASSUME NEW w \in Slot, RateLimited(w) PROVE WorkersHoldTheJob'
    BY <1>21 DEF RateLimited, Resting, Retried
<1>22. ASSUME NEW w \in Slot, NEW s \in Symbol, SyncFails(w, s) PROVE WorkersHoldTheJob'
    BY <1>22 DEF SyncFails
<1>23. CASE BackoffEnds
    BY <1>23 DEF BackoffEnds
<1>24. CASE StalledCheck
    BY <1>24 DEF StalledCheck, Recovered, NoJob
<1>25. CASE ListReads
    BY <1>25 DEF ListReads
<1>26. CASE ListLooksUp
    BY <1>26 DEF ListLooksUp
<1>27. CASE ListMarks
    BY <1>27 DEF ListMarks
<1>28. CASE CoolOff
    BY <1>28 DEF CoolOff
<1>29. CASE UNCHANGED vars
    BY <1>29 DEF vars
<1>q. QED
    BY <1>1, <1>2, <1>3, <1>4, <1>5, <1>6, <1>7, <1>8, <1>9, <1>10, <1>11, <1>12, <1>13,
       <1>14, <1>15, <1>16, <1>17, <1>18, <1>19, <1>20, <1>21, <1>22, <1>23, <1>24, <1>25,
       <1>26, <1>27, <1>28, <1>29
       DEF Next, AdminStep, Working, Mishap

\* A run on which nobody else works is run by one worker at a time.
LEMMA OneHolder == WorkersHoldTheJob => \A v, w \in Slot :
                       run[v].at # "idle" /\ run[w].at # "idle" => v = w
BY DEF WorkersHoldTheJob

-----------------------------------------------------------------------------
(* Coverage *)

\* Every step keeps what is known of the coverage.
LEMMA NextCoverageInv ==
    TypeOK /\ WorkersHoldTheJob /\ CoverageInv /\ stalls' = 0 /\ [Next]_vars => CoverageInv'
<1> SUFFICES ASSUME TypeOK, WorkersHoldTheJob, CoverageInv, stalls' = 0, [Next]_vars
             PROVE  CoverageInv'
    OBVIOUS
<1>0. /\ run \in [Slot -> Work] /\ outdated \subseteq Admin
      /\ admin \in [Admin -> {"idle", "insert", "lookup", "add", "straggle", "mark", "refresh"}]
      /\ \A v, w \in Slot : run[v].at # "idle" /\ run[w].at # "idle" => v = w
    BY OneHolder DEF TypeOK, Work
<1> USE <1>0 DEF CoverageInv, OwnExemptions, VerdictStands, RefreshStands, Missing, MissingBut,
                 Work
<1>1. ASSUME NEW a \in Admin, RequestBegins(a) PROVE CoverageInv'
    BY <1>1 DEF RequestBegins, Goes, row, market
<1>2. ASSUME NEW a \in Admin, Insert(a) PROVE CoverageInv'
    BY <1>2 DEF Insert, Goes, row, market
<1>3. ASSUME NEW a \in Admin, Lookup(a) PROVE CoverageInv'
    BY <1>3 DEF Lookup, Goes, row, market
<1>4. ASSUME NEW a \in Admin, Add(a) PROVE CoverageInv'
    BY <1>4 DEF Add, Goes, row, market
<1>5. ASSUME NEW a \in Admin, AddTimesOut(a) PROVE CoverageInv'
    BY <1>5 DEF AddTimesOut, Goes, row, market
<1>6. ASSUME NEW a \in Admin, StragglerArrives(a) PROVE CoverageInv'
    BY <1>6 DEF StragglerArrives, Goes, row, market
<1>7. ASSUME NEW a \in Admin, MarkQueued(a) PROVE CoverageInv'
    BY <1>7 DEF MarkQueued, Goes, row, market
<1>8. ASSUME NEW a \in Admin, RefreshDecides(a) PROVE CoverageInv'
    BY <1>8 DEF RefreshDecides, Goes, row, market
<1>9. ASSUME NEW a \in Admin, RefreshMarks(a) PROVE CoverageInv'
    BY <1>9 DEF RefreshMarks, Goes, row, market
<1>10. ASSUME NEW w \in Slot, Pick(w) PROVE CoverageInv'
    BY <1>10 DEF Pick, row, market
<1>11. ASSUME NEW w \in Slot, ClaimReads(w) PROVE CoverageInv'
    BY <1>11 DEF ClaimReads, Resting, row, market
<1>12. ASSUME NEW w \in Slot, ClaimWrites(w) PROVE CoverageInv'
    BY <1>12 DEF ClaimWrites, row, market
<1>13. ASSUME NEW w \in Slot, FinishSummary(w) PROVE CoverageInv'
    BY <1>13 DEF FinishSummary, row, market
<1>14. ASSUME NEW w \in Slot, CoverageReads(w) PROVE CoverageInv'
    BY <1>14 DEF CoverageReads, row, market
<1>15. ASSUME NEW w \in Slot, CoverageWrites(w) PROVE CoverageInv'
    BY <1>15 DEF CoverageWrites, AfterCoverage, row, market
<1>16. ASSUME NEW w \in Slot, Backtest(w) PROVE CoverageInv'
    BY <1>16 DEF Backtest, row, market
<1>17. ASSUME NEW w \in Slot, Complete(w) PROVE CoverageInv'
    BY <1>17 DEF Complete, Resting, row, market
<1>18. ASSUME NEW w \in Slot, NEW s \in Symbol, SyncSymbol(w, s) PROVE CoverageInv'
  <2>1. /\ have \subseteq have' /\ UNCHANGED <<exempt, admin, outdated>>
        /\ \A v \in Slot : run'[v].at = run[v].at /\ run'[v].missing = run[v].missing
                          /\ (v # w => run'[v].empty = run[v].empty)
      BY <1>18 DEF SyncSymbol, row
  <2>2. run[w].at = "sync"
      BY <1>18 DEF SyncSymbol
  <2>q. QED
      BY <2>1, <2>2
<1>19. ASSUME NEW w \in Slot, LoseLock(w) PROVE CoverageInv'
    BY <1>19 DEF LoseLock, row, market
<1>20. ASSUME NEW w \in Slot, Crash(w) PROVE CoverageInv'
    BY <1>20 DEF Crash, Resting, row, market
<1>21. ASSUME NEW w \in Slot, RateLimited(w) PROVE CoverageInv'
    BY <1>21 DEF RateLimited, Resting, row, market
<1>22. ASSUME NEW w \in Slot, NEW s \in Symbol, SyncFails(w, s) PROVE CoverageInv'
    BY <1>22 DEF SyncFails, row, market
<1>23. CASE BackoffEnds
    BY <1>23 DEF BackoffEnds, row, market
<1>24. CASE StalledCheck
    BY <1>24 DEF StalledCheck, row, market
<1>25. CASE ListReads
    BY <1>25 DEF ListReads, row, market
<1>26. CASE ListLooksUp
    BY <1>26 DEF ListLooksUp, row, market
<1>27. CASE ListMarks
    BY <1>27 DEF ListMarks, row, market
<1>28. CASE CoolOff
    BY <1>28 DEF CoolOff, row, market
<1>29. CASE UNCHANGED vars
    BY <1>29 DEF vars, row, market
<1>q. QED
    BY <1>1, <1>2, <1>3, <1>4, <1>5, <1>6, <1>7, <1>8, <1>9, <1>10, <1>11, <1>12, <1>13,
       <1>14, <1>15, <1>16, <1>17, <1>18, <1>19, <1>20, <1>21, <1>22, <1>23, <1>24, <1>25,
       <1>26, <1>27, <1>28, <1>29
       DEF Next, AdminStep, Working, Mishap

-----------------------------------------------------------------------------
(* The invariant, and what follows *)

\* Initially no slot is at work and nothing is decided.
LEMMA InitIInv == Init => CatchUpInv
BY InitTypeOK
   DEF CatchUpInv, Init, Resting, WorkersHoldTheJob, CoverageInv, OwnExemptions, VerdictStands,
       RefreshStands

\* Every step keeps the invariant.
LEMMA NextIInv == CatchUpInv /\ [Next]_vars => CatchUpInv'
<1> SUFFICES ASSUME CatchUpInv, [Next]_vars PROVE CatchUpInv'
    OBVIOUS
<1>1. TypeOK'
    BY NextTypeOK DEF CatchUpInv
<1>2. stalls' = 0 => WorkersHoldTheJob' /\ CoverageInv'
    BY StallsGrow, NextWorkersHoldTheJob, NextCoverageInv DEF CatchUpInv
<1>q. QED
    BY <1>1, <1>2 DEF CatchUpInv

\* It always holds.
LEMMA AlwaysIInv == Spec => []CatchUpInv
BY InitIInv, NextIInv, PTL DEF Spec

\* However many admins ask for a catch-up, however many attempts, failures and crashes it
\* takes, one worker at a time runs it, as long as no lock is lost unnoticed.
THEOREM OneRun == Spec => []OneRunAtATime
<1>1. CatchUpInv => OneRunAtATime
    BY OneHolder DEF CatchUpInv, OneRunAtATime
<1>q. QED
    BY <1>1, AlwaysIInv, PTL

\* What BacktestsOnlyWhenCovered says of a step.
MarkedWhenCovered ==
    stalls = 0 /\ backtest # "completed" /\ backtest' = "completed" =>
        \/ Missing = {}
        \/ \E a \in outdated : admin[a] = "refresh" /\ admin'[a] = "idle"

\* A run marks them on its verdict, and an admin on the decision not overtaken; no other
\* step marks them.
LEMMA NextMarkedWhenCovered == CatchUpInv /\ [Next]_vars => MarkedWhenCovered
<1> SUFFICES ASSUME CatchUpInv, [Next]_vars, stalls = 0, backtest # "completed",
                    backtest' = "completed"
             PROVE  \/ Missing = {}
                    \/ \E a \in outdated : admin[a] = "refresh" /\ admin'[a] = "idle"
    BY DEF MarkedWhenCovered
<1>0. CoverageInv /\ admin \in [Admin -> {"idle", "insert", "lookup", "add", "straggle",
                                        "mark", "refresh"}]
    BY DEF CatchUpInv, TypeOK
<1>1. ASSUME NEW w \in Slot, Backtest(w) PROVE Missing = {}
    BY <1>0, <1>1 DEF Backtest, CoverageInv, VerdictStands
<1>2. ASSUME NEW a \in Admin, RefreshMarks(a)
      PROVE  \/ Missing = {}
             \/ \E b \in outdated : admin[b] = "refresh" /\ admin'[b] = "idle"
    BY <1>0, <1>2 DEF RefreshMarks, Goes, CoverageInv, RefreshStands
<1>3. ASSUME NEW a \in Admin, AdminStep(a) PROVE RefreshMarks(a)
    BY <1>3 DEF AdminStep, row, RequestBegins, Insert, Lookup, Add, AddTimesOut, StragglerArrives,
                MarkQueued, RefreshDecides
<1>4. ASSUME NEW w \in Slot, Working(w) PROVE Backtest(w)
    BY <1>4 DEF Working, row, Pick, ClaimReads, ClaimWrites, FinishSummary, CoverageReads,
                CoverageWrites, Complete, SyncSymbol
<1>5. ASSUME NEW w \in Slot, Mishap(w) PROVE FALSE
    BY <1>5 DEF Mishap, row, LoseLock, Crash, RateLimited, SyncFails
<1>6. ASSUME BackoffEnds \/ StalledCheck PROVE FALSE
    BY <1>6 DEF BackoffEnds, StalledCheck, row
<1>7. ASSUME ListReads \/ ListLooksUp \/ ListMarks \/ CoolOff PROVE FALSE
    BY <1>7 DEF ListReads, ListLooksUp, ListMarks, CoolOff, row
<1>8. (\E w \in Slot : Backtest(w)) \/ (\E a \in Admin : RefreshMarks(a))
    BY <1>3, <1>4, <1>5, <1>6, <1>7 DEF Next, vars, row
<1>q. QED
    BY <1>1, <1>2, <1>8

\* Backtests are marked current only while the date's candles are complete: the verdict they
\* rest on still stands when they are marked, whatever happened since it was reached.
THEOREM BacktestsWhenCovered == Spec => BacktestsOnlyWhenCovered
<1>1. CatchUpInv /\ [Next]_vars => [MarkedWhenCovered]_vars
    BY NextMarkedWhenCovered
<1>q. QED
    BY <1>1, AlwaysIInv, PTL DEF Spec, BacktestsOnlyWhenCovered, MarkedWhenCovered

-------------------------------------------------------------------------------
(* The rows of sync_jobs *)

EntryState == [kind : KindOf \union {"none"}, auto : BOOLEAN,
               status : {"absent", "queued", "running", "completed", "failed", "deleted"},
               age : 0..3, job : {"none", "late", "waiting", "active", "backoff"},
               left : Int, stalled : BOOLEAN,
               why : {"", "skipped", "twin", "lost", "died"}, ran : BOOLEAN]

AskState == [at : {"idle", "cooldown", "lookup", "check", "insert", "add", "sorry", "inline"},
             kind : KindOf \union {"none"}, auto : BOOLEAN, entry : Nat]

SyncTypes == entry \in [Row -> EntryState] /\ asking \in [SyncCaller -> AskState]

\* A call has a row from its insert on, one that no other call has and that is in the table.
CallersApart ==
    \A c \in SyncCaller :
        IF asking[c].at \in {"add", "sorry", "inline"}
        THEN /\ asking[c].entry \in Row /\ entry[asking[c].entry].status # "absent"
             /\ \A d \in SyncCaller : asking[d].entry = asking[c].entry => d = c
        ELSE asking[c].entry = 0

\* No row, no job.
JobsHaveRows == \A r \in Row : entry[r].status = "absent" => entry[r].job = "none"

\* Of the rows whose jobs share an id, one at most has a job in the queue.
OneJobPerId ==
    \A q, r \in Row : q # r /\ SameId(entry[q], entry[r]) => ~(InQueue(entry[q]) /\ InQueue(entry[r]))

Reasons == {"skipped", "twin", "lost", "died"}

SyncInv ==
    /\ SyncTypes /\ CallersApart /\ JobsHaveRows /\ OneJobPerId
    /\ LeftBehindFor(Reasons) /\ CompletedHasRun

-----------------------------------------------------------------------------
(* Rows and calls that change *)

\* A row and its job go on: the job keeps its id, and none appears in the queue.
Kept(e, f) ==
    /\ f \in EntryState /\ f.kind = e.kind /\ f.auto = e.auto
    /\ InQueue(f) => InQueue(e)
    /\ f.status = "absent" <=> e.status = "absent"
    /\ e.status = "absent" => f.job = e.job
    /\ f.status = "completed" => f.ran \/ (e.status = "completed" /\ f.ran = e.ran)

\* What the rows of a table that goes on have in common.
LEMMA RowsGoOn ==
    ASSUME SyncInv, entry' = [r \in Row |-> entry'[r]],
           \A r \in Row : entry'[r] = entry[r] \/ Kept(entry[r], entry'[r])
    PROVE  /\ entry' \in [Row -> EntryState] /\ JobsHaveRows' /\ OneJobPerId' /\ CompletedHasRun'
           /\ \A r \in Row : entry'[r].status = "absent" <=> entry[r].status = "absent"
<1>1. entry \in [Row -> EntryState] /\ JobsHaveRows /\ OneJobPerId /\ CompletedHasRun
    BY DEF SyncInv, SyncTypes
<1>2. \A r \in Row : entry'[r] \in EntryState
    BY <1>1 DEF Kept
<1>3. entry' \in [Row -> EntryState]
    BY <1>2
<1>4. \A r \in Row : entry'[r].status = "absent" <=> entry[r].status = "absent"
    BY DEF Kept
<1>5. JobsHaveRows'
    BY <1>1, <1>4 DEF Kept, JobsHaveRows
<1>6. OneJobPerId'
    BY <1>1 DEF Kept, OneJobPerId, SameId
<1>7. CompletedHasRun'
    BY <1>1 DEF Kept, CompletedHasRun
<1>q. QED
    BY <1>3, <1>4, <1>5, <1>6, <1>7

\* The rows go on, no call does, and whatever a job leaves behind has a reason.
LEMMA RowsKeep ==
    ASSUME SyncInv, entry' = [r \in Row |-> entry'[r]], asking' = asking,
           \A r \in Row : \/ entry'[r] = entry[r]
                          \/ /\ Kept(entry[r], entry'[r])
                             /\ Live(entry'[r]) /\ entry'[r].job = "none" =>
                                   \/ entry'[r].why \in Reasons
                                   \/ Live(entry[r]) /\ entry[r].job = "none" /\ entry'[r].why = entry[r].why
    PROVE  SyncInv'
<1>1. /\ entry' \in [Row -> EntryState] /\ JobsHaveRows' /\ OneJobPerId' /\ CompletedHasRun'
      /\ \A r \in Row : entry'[r].status = "absent" <=> entry[r].status = "absent"
    BY RowsGoOn
<1>2. CallersApart'
    BY <1>1 DEF SyncInv, CallersApart
<1>3. LeftBehindFor(Reasons)'
    BY DEF SyncInv, LeftBehindFor, HasCaller
<1>q. QED
    BY <1>1, <1>2, <1>3 DEF SyncInv, SyncTypes

WithRow == {"add", "sorry", "inline"}

\* A call goes on, and its row perhaps with it; when it leaves its row behind there is a reason.
LEMMA CallKeeps ==
    ASSUME SyncInv, NEW c \in SyncCaller, NEW a \in AskState,
           asking' = [asking EXCEPT ![c] = a],
           entry' = [r \in Row |-> entry'[r]],
           \A r \in Row : \/ entry'[r] = entry[r]
                          \/ r = asking[c].entry /\ Kept(entry[r], entry'[r]),
           \/ a.at \in WithRow /\ asking[c].at \in WithRow /\ a.entry = asking[c].entry
           \/ /\ a.at \notin WithRow /\ a.entry = 0
              /\ \A r \in Row : r = asking[c].entry /\ Live(entry'[r]) /\ entry'[r].job = "none"
                                => entry'[r].why \in Reasons
    PROVE  SyncInv'
<1>1. /\ entry' \in [Row -> EntryState] /\ JobsHaveRows' /\ OneJobPerId' /\ CompletedHasRun'
      /\ \A r \in Row : entry'[r].status = "absent" <=> entry[r].status = "absent"
    BY RowsGoOn
<1>2. /\ asking' \in [SyncCaller -> AskState] /\ asking'[c] = a
      /\ \A d \in SyncCaller : d # c => asking'[d] = asking[d]
    BY DEF SyncInv, SyncTypes
<1>0. 0 \notin Row
    BY DEF Row
<1>3. CallersApart'
  <2>1. \A d \in SyncCaller : asking'[d].entry \in {0, asking[d].entry}
      BY <1>2
  <2>q. QED
      BY <1>0, <1>1, <1>2, <2>1 DEF SyncInv, CallersApart, WithRow
<1>4. LeftBehindFor(Reasons)'
  <2> SUFFICES ASSUME NEW r \in Row, Live(entry'[r]), entry'[r].job = "none", ~HasCaller(r)'
               PROVE  entry'[r].why \in Reasons
      BY DEF LeftBehindFor
  <2>1. CASE r = asking[c].entry
      BY <1>2, <2>1 DEF HasCaller
  <2>2. CASE r # asking[c].entry
      BY <1>2, <2>2 DEF HasCaller, SyncInv, LeftBehindFor
  <2>q. QED
      BY <2>1, <2>2
<1>q. QED
    BY <1>1, <1>2, <1>3, <1>4 DEF SyncInv, SyncTypes

\* A row is inserted for a call, without a job as yet.
LEMMA InsertKeeps ==
    ASSUME SyncInv, NEW c \in SyncCaller, Inserts(c)
    PROVE  SyncInv'
<1> DEFINE state == IF setup = "no queue" THEN "running" ELSE "queued"
           at == IF setup = "no queue" THEN "inline" ELSE "add"
<1>1. PICK r \in Row :
        /\ asking[c].at = "insert" /\ entry[r].status = "absent"
        /\ entry' = [entry EXCEPT ![r] = [NoEntry EXCEPT !.kind = asking[c].kind, !.auto = asking[c].auto,
                        !.status = state, !.left = IF asking[c].auto THEN JobAttempts ELSE 1]]
        /\ asking' = [asking EXCEPT ![c] = [asking[c] EXCEPT !.at = at, !.entry = r]]
    BY DEF Inserts
<1>2. /\ entry \in [Row -> EntryState] /\ asking \in [SyncCaller -> AskState] /\ JobAttempts \in Int
      /\ CallersApart /\ JobsHaveRows /\ OneJobPerId /\ LeftBehindFor(Reasons) /\ CompletedHasRun
    BY SyncAssumption DEF SyncInv, SyncTypes
<1>3. state \in {"running", "queued"} /\ at \in {"inline", "add"}
    OBVIOUS
<1> HIDE DEF state, at
<1>4. /\ entry' \in [Row -> EntryState] /\ \A q \in Row : q # r => entry'[q] = entry[q]
      /\ entry'[r].job = "none" /\ entry'[r].status = state
  <2> DEFINE kind == asking[c].kind
             auto == asking[c].auto
             left == IF asking[c].auto THEN JobAttempts ELSE 1
             new == [NoEntry EXCEPT !.kind = kind, !.auto = auto, !.status = state, !.left = left]
  <2>1. kind \in KindOf \union {"none"} /\ auto \in BOOLEAN /\ left \in Int
      BY <1>2 DEF AskState
  <2>2. entry' = [entry EXCEPT ![r] = new]
      BY <1>1
  <2>3. NoEntry \in EntryState /\ NoEntry.job = "none"
      BY DEF NoEntry, EntryState
  <2> HIDE DEF kind, auto, left
  <2>4. new \in EntryState /\ new.job = "none" /\ new.status = state
      BY <1>3, <2>1, <2>3 DEF EntryState
  <2> HIDE DEF new
  <2>q. QED
      BY <1>2, <2>2, <2>4
<1>5. /\ asking' \in [SyncCaller -> AskState] /\ \A d \in SyncCaller : d # c => asking'[d] = asking[d]
      /\ asking'[c].at = at /\ asking'[c].entry = r
  <2> DEFINE new == [asking[c] EXCEPT !.at = at, !.entry = r]
  <2>1. asking[c] \in AskState /\ r \in Nat
      BY <1>2 DEF Row
  <2>2. new \in AskState /\ new.at = at /\ new.entry = r
      BY <1>3, <2>1 DEF AskState
  <2>3. asking' = [asking EXCEPT ![c] = new]
      BY <1>1
  <2> HIDE DEF new
  <2>q. QED
      BY <1>2, <2>2, <2>3
<1>6. CallersApart'
    BY <1>1, <1>2, <1>3, <1>4, <1>5 DEF CallersApart, Row
<1>7. JobsHaveRows' /\ CompletedHasRun'
    BY <1>2, <1>3, <1>4 DEF JobsHaveRows, CompletedHasRun
<1>8. OneJobPerId'
    BY <1>2, <1>4 DEF OneJobPerId, InQueue, SameId
<1>9. LeftBehindFor(Reasons)'
  <2>1. HasCaller(r)'
      BY <1>5 DEF HasCaller
  <2>2. \A q \in Row : q # r /\ HasCaller(q) => HasCaller(q)'
      BY <1>1, <1>2, <1>5 DEF HasCaller, CallersApart, Row
  <2>q. QED
      BY <1>2, <1>4, <2>1, <2>2 DEF LeftBehindFor
<1>q. QED
    BY <1>4, <1>5, <1>6, <1>7, <1>8, <1>9 DEF SyncInv, SyncTypes

\* A job enters the queue, unless its id is in use.
LEMMA PlacedKeeps ==
    ASSUME SyncInv, NEW r \in Row, entry[r].status # "absent", entry' = Placed(r)
    PROVE  /\ entry' \in [Row -> EntryState] /\ JobsHaveRows' /\ OneJobPerId' /\ CompletedHasRun'
           /\ \A q \in Row : q # r => entry'[q] = entry[q]
           /\ entry'[r].status = entry[r].status
           /\ entry'[r].job = "waiting" \/ (entry'[r].job = "none" /\ entry'[r].why = "twin")
<1>1. entry \in [Row -> EntryState] /\ JobsHaveRows /\ OneJobPerId /\ CompletedHasRun
    BY DEF SyncInv, SyncTypes
<1> DEFINE taken == \E q \in Row \ {r} : SameId(entry[q], entry[r]) /\ InQueue(entry[q])
<1>2. CASE taken
  <2>1. entry' = [entry EXCEPT ![r] = [@ EXCEPT !.job = "none", !.why = "twin"]]
      BY <1>2 DEF Placed
  <2>2. /\ entry' \in [Row -> EntryState] /\ \A q \in Row : q # r => entry'[q] = entry[q]
        /\ entry'[r].job = "none" /\ entry'[r].why = "twin" /\ entry'[r].status = entry[r].status
        /\ entry'[r].ran = entry[r].ran
    <3> DEFINE new == [entry[r] EXCEPT !.job = "none", !.why = "twin"]
    <3>1. /\ new \in EntryState /\ new.job = "none" /\ new.why = "twin"
          /\ new.status = entry[r].status /\ new.ran = entry[r].ran
      <4> DEFINE old == entry[r]
      <4>1. old \in EntryState /\ "none" \in {"none", "late", "waiting", "active", "backoff"}
            /\ "twin" \in {"", "skipped", "twin", "lost", "died"}
          BY <1>1
      <4> HIDE DEF old
      <4>2. [[old EXCEPT !.job = "none"] EXCEPT !.why = "twin"] \in EntryState
        <5> DEFINE half == [old EXCEPT !.job = "none"]
        <5>1. half \in EntryState
            BY <4>1, ZenonT(30) DEF EntryState
        <5> HIDE DEF half
        <5>2. [half EXCEPT !.why = "twin"] \in EntryState
            BY <4>1, <5>1, ZenonT(30) DEF EntryState
        <5>q. QED
            BY <5>2 DEF half
      <4>3. LET made == [old EXCEPT !.job = "none", !.why = "twin"]
            IN  /\ made.job = "none" /\ made.why = "twin"
                /\ made.status = old.status /\ made.ran = old.ran
          BY <4>1 DEF EntryState
      <4>q. QED
          BY <4>2, <4>3 DEF old
    <3>2. entry' = [entry EXCEPT ![r] = new]
        BY <2>1
    <3> HIDE DEF new
    <3>q. QED
        BY <1>1, <3>1, <3>2
  <2>q. QED
      BY <1>1, <2>2 DEF JobsHaveRows, OneJobPerId, CompletedHasRun, InQueue, SameId
<1>3. CASE ~taken
  <2>1. entry' = [entry EXCEPT ![r].job = "waiting"]
      BY <1>3 DEF Placed
  <2>2. /\ entry' \in [Row -> EntryState] /\ \A q \in Row : q # r => entry'[q] = entry[q]
        /\ entry'[r].job = "waiting" /\ entry'[r].status = entry[r].status
        /\ entry'[r].ran = entry[r].ran
        /\ entry'[r].kind = entry[r].kind /\ entry'[r].auto = entry[r].auto
    <3> DEFINE new == [entry[r] EXCEPT !.job = "waiting"]
    <3>1. /\ new \in EntryState /\ new.job = "waiting"
          /\ new.status = entry[r].status /\ new.ran = entry[r].ran
          /\ new.kind = entry[r].kind /\ new.auto = entry[r].auto
      <4> DEFINE old == entry[r]
      <4>1. old \in EntryState /\ "waiting" \in {"none", "late", "waiting", "active", "backoff"}
          BY <1>1
      <4> HIDE DEF old
      <4>2. [old EXCEPT !.job = "waiting"] \in EntryState
          BY <4>1, ZenonT(30) DEF EntryState
      <4>3. LET made == [old EXCEPT !.job = "waiting"]
            IN  /\ made.job = "waiting" /\ made.status = old.status /\ made.ran = old.ran
                /\ made.kind = old.kind /\ made.auto = old.auto
          BY <4>1 DEF EntryState
      <4>q. QED
          BY <4>2, <4>3 DEF old
    <3>2. entry' = [entry EXCEPT ![r] = new]
        BY <2>1
    <3> HIDE DEF new
    <3>q. QED
        BY <1>1, <3>1, <3>2
  <2>3. OneJobPerId'
    <3>1. \A q \in Row : q # r /\ SameId(entry'[q], entry'[r]) => ~InQueue(entry'[q])
        BY <1>3, <2>2 DEF SameId
    <3>2. \A q \in Row : q # r /\ SameId(entry'[r], entry'[q]) => SameId(entry'[q], entry'[r])
        BY DEF SameId
    <3>q. QED
        BY <1>1, <2>2, <3>1, <3>2 DEF OneJobPerId
  <2>q. QED
      BY <1>1, <2>2, <2>3 DEF JobsHaveRows, CompletedHasRun
<1>q. QED
    BY <1>2, <1>3

\* The job of a call's row is added.
LEMMA AddKeeps ==
    ASSUME SyncInv, NEW c \in SyncCaller, AddsJob(c)
    PROVE  SyncInv'
<1> DEFINE r == asking[c].entry
<1>1. asking[c].at = "add" /\ entry' = Placed(r) /\ asking' = [asking EXCEPT ![c] = AtRest]
    BY DEF AddsJob
<1>2. asking \in [SyncCaller -> AskState] /\ CallersApart /\ LeftBehindFor(Reasons)
    BY DEF SyncInv, SyncTypes
<1>3. r \in Row /\ entry[r].status # "absent"
    BY <1>1, <1>2 DEF CallersApart
<1>4. AtRest \in AskState /\ AtRest.at = "idle" /\ AtRest.entry = 0 /\ 0 \notin Row
    BY DEF AtRest, AskState, Row
<1>5. /\ asking' \in [SyncCaller -> AskState] /\ asking'[c] = AtRest
      /\ \A d \in SyncCaller : d # c => asking'[d] = asking[d]
    BY <1>1, <1>2, <1>4
<1>6. /\ entry' \in [Row -> EntryState] /\ JobsHaveRows' /\ OneJobPerId' /\ CompletedHasRun'
      /\ \A q \in Row : q # r => entry'[q] = entry[q]
      /\ entry'[r].status = entry[r].status
      /\ entry'[r].job = "waiting" \/ (entry'[r].job = "none" /\ entry'[r].why = "twin")
    BY <1>1, <1>3, PlacedKeeps
<1> HIDE DEF r
<1>7. CallersApart'
    BY <1>2, <1>4, <1>5, <1>6 DEF CallersApart
<1>8. LeftBehindFor(Reasons)'
  <2>1. \A q \in Row : q # r /\ HasCaller(q) => HasCaller(q)'
      BY <1>5 DEF HasCaller, r
  <2>q. QED
      BY <1>2, <1>6, <2>1 DEF LeftBehindFor, Reasons
<1>q. QED
    BY <1>5, <1>6, <1>7, <1>8 DEF SyncInv, SyncTypes

\* A job that was thought lost arrives.
LEMMA StraggleKeeps ==
    ASSUME SyncInv, NEW r \in Row, Straggles(r)
    PROVE  SyncInv'
<1>1. entry[r].job = "late" /\ entry' = Placed(r) /\ asking' = asking
    BY DEF Straggles
<1>2. CallersApart /\ LeftBehindFor(Reasons) /\ entry[r].status # "absent"
    BY <1>1 DEF SyncInv, JobsHaveRows
<1>3. /\ entry' \in [Row -> EntryState] /\ JobsHaveRows' /\ OneJobPerId' /\ CompletedHasRun'
      /\ \A q \in Row : q # r => entry'[q] = entry[q]
      /\ entry'[r].status = entry[r].status
      /\ entry'[r].job = "waiting" \/ (entry'[r].job = "none" /\ entry'[r].why = "twin")
    BY <1>1, <1>2, PlacedKeeps
<1>4. CallersApart'
    BY <1>1, <1>2, <1>3 DEF CallersApart
<1>5. LeftBehindFor(Reasons)'
    BY <1>1, <1>2, <1>3 DEF LeftBehindFor, Reasons, HasCaller
<1>q. QED
    BY <1>1, <1>3, <1>4, <1>5 DEF SyncInv, SyncTypes

\* A row is told what became of it, unless it was deleted.
LEMMA Telling ==
    ASSUME NEW e \in EntryState, NEW state \in {"queued", "running", "completed", "failed"},
           NEW f, f = Told(e, state)
    PROVE  /\ f \in EntryState /\ f.kind = e.kind /\ f.auto = e.auto /\ f.job = e.job
           /\ f.why = e.why
           /\ f.ran = e.ran /\ f.left = e.left
           /\ f.status = IF e.status = "deleted" THEN "deleted" ELSE state
<1>1. CASE e.status = "deleted"
    BY <1>1 DEF Told
<1>2. CASE e.status # "deleted"
  <2>1. f = [e EXCEPT !.status = state, !.age = 0]
      BY <1>2 DEF Told
  <2>2. 0 \in 0..3
      OBVIOUS
  <2>q. QED
      BY <1>2, <2>1, <2>2 DEF EntryState
<1>q. QED
    BY <1>1, <1>2

\* Live rows become failed when they are stale.
LEMMA StaleKept ==
    ASSUME SyncInv, NEW r \in Row
    PROVE  /\ StaleFailed[r] = entry[r] \/ Kept(entry[r], StaleFailed[r])
           /\ Live(StaleFailed[r]) => StaleFailed[r] = entry[r]
<1>1. entry[r] \in EntryState
    BY DEF SyncInv, SyncTypes
<1> DEFINE f == Told(entry[r], "failed")
<1>2. CASE Live(entry[r]) /\ entry[r].age >= 2
  <2>1. StaleFailed[r] = f
      BY <1>2 DEF StaleFailed
  <2>2. /\ f \in EntryState /\ f.kind = entry[r].kind /\ f.auto = entry[r].auto
        /\ f.job = entry[r].job
        /\ f.status = IF entry[r].status = "deleted" THEN "deleted" ELSE "failed"
      BY <1>1, Telling
  <2> HIDE DEF f
  <2>q. QED
      BY <1>2, <2>1, <2>2 DEF Kept, Live, InQueue
<1>3. CASE ~(Live(entry[r]) /\ entry[r].age >= 2)
    BY <1>3 DEF StaleFailed
<1>q. QED
    BY <1>2, <1>3

\* A call begins, or is refused, after stale rows have failed.
LEMMA AskedKeeps ==
    ASSUME SyncInv, NEW c \in SyncCaller, NEW kind \in KindOf, NEW blockers, Asked(c, kind, blockers)
    PROVE  SyncInv'
<1> DEFINE next == IF kind \in Backtests THEN "cooldown" ELSE "insert"
           a == [AtRest EXCEPT !.at = next, !.kind = kind]
<1>1. /\ asking[c].at = "idle"
      /\ entry' = entry \/ entry' = StaleFailed
      /\ asking' = asking \/ asking' = [asking EXCEPT ![c] = a]
    BY DEF Asked
<1>2. a \in AskState /\ a.at \notin WithRow /\ a.entry = 0
    BY DEF AtRest, AskState, WithRow
<1>3. asking[c].entry = 0 /\ 0 \notin Row
    BY <1>1 DEF SyncInv, CallersApart, Row
<1>4. /\ entry' = [r \in Row |-> entry'[r]]
      /\ \A r \in Row : \/ entry'[r] = entry[r]
                        \/ Kept(entry[r], entry'[r]) /\ ~Live(entry'[r])
    BY <1>1, StaleKept DEF SyncInv, SyncTypes, StaleFailed
<1> HIDE DEF a
<1>5. CASE asking' = asking
    BY <1>4, <1>5, RowsKeep
<1>6. CASE asking' = [asking EXCEPT ![c] = a]
  <2>1. /\ entry' \in [Row -> EntryState] /\ JobsHaveRows' /\ OneJobPerId' /\ CompletedHasRun'
        /\ \A r \in Row : entry'[r].status = "absent" <=> entry[r].status = "absent"
      BY <1>4, RowsGoOn
  <2>2. /\ asking' \in [SyncCaller -> AskState] /\ asking'[c] = a
        /\ \A d \in SyncCaller : d # c => asking'[d] = asking[d]
      BY <1>2, <1>6 DEF SyncInv, SyncTypes
  <2>3. CallersApart'
      BY <1>2, <1>3, <2>1, <2>2 DEF SyncInv, CallersApart, WithRow
  <2>4. \A r \in Row : HasCaller(r)' <=> HasCaller(r)
      BY <1>2, <1>3, <2>2 DEF HasCaller
  <2>5. LeftBehindFor(Reasons)'
      BY <1>4, <2>4 DEF SyncInv, LeftBehindFor
  <2>q. QED
      BY <2>1, <2>2, <2>3, <2>5 DEF SyncInv, SyncTypes
<1>q. QED
    BY <1>1, <1>5, <1>6

\* A call that has no row yet goes on.
LEMMA LookingKeeps ==
    ASSUME SyncInv, NEW c \in SyncCaller, NEW a \in AskState,
           asking[c].at \notin WithRow, a.at \notin WithRow, a.entry = 0,
           entry' = entry, asking' = [asking EXCEPT ![c] = a]
    PROVE  SyncInv'
<1>1. entry' = [r \in Row |-> entry'[r]]
    BY DEF SyncInv, SyncTypes
<1>2. asking[c].entry = 0 /\ 0 \notin Row
    BY DEF SyncInv, CallersApart, WithRow, Row
<1>q. QED
    BY <1>1, <1>2, CallKeeps

-----------------------------------------------------------------------------
(* Every step keeps the invariant *)

\* Checks of a call that has no row yet, and the look at the weeks before one.
LEMMA ChecksKeep ==
    ASSUME SyncInv, NEW c \in SyncCaller, CoolsDown(c) \/ FindsJob(c) \/ FindsRow(c) \/ Reconciles(c)
    PROVE  SyncInv'
<1>1. asking[c] \in AskState
    BY DEF SyncInv, SyncTypes
<1>2. AtRest \in AskState /\ AtRest.at \notin WithRow /\ AtRest.entry = 0
    BY DEF AtRest, AskState, WithRow
<1>3. \A at \in {"insert", "check"} :
         /\ [asking[c] EXCEPT !.at = at] \in AskState
         /\ [asking[c] EXCEPT !.at = at].at \notin WithRow
         /\ [asking[c] EXCEPT !.at = at].entry = asking[c].entry
    BY <1>1 DEF AskState, WithRow
<1>4. CASE CoolsDown(c) \/ FindsJob(c) \/ FindsRow(c)
  <2>1. /\ asking[c].at \in {"cooldown", "lookup", "check"} /\ entry' = entry
        /\ \/ asking' = [asking EXCEPT ![c] = AtRest]
           \/ \E at \in {"insert", "check"} : asking' = [asking EXCEPT ![c] = [asking[c] EXCEPT !.at = at]]
      BY <1>4 DEF CoolsDown, FindsJob, FindsRow
  <2>2. asking[c].at \notin WithRow /\ asking[c].entry = 0
      BY <2>1 DEF WithRow, SyncInv, CallersApart
  <2>q. QED
      BY <1>2, <1>3, <2>1, <2>2, LookingKeeps
<1>5. CASE Reconciles(c)
  <2>1. PICK kind \in Planned \intersect Kind :
           asking' = [asking EXCEPT ![c] = [AtRest EXCEPT !.at = "lookup", !.kind = kind, !.auto = TRUE]]
      BY <1>5 DEF Reconciles
  <2> DEFINE a == [AtRest EXCEPT !.at = "lookup", !.kind = kind, !.auto = TRUE]
  <2>2. kind \in KindOf
      BY SyncAssumption
  <2>3. a \in AskState /\ a.at \notin WithRow /\ a.entry = 0
      BY <1>2, <2>2 DEF AtRest, AskState, WithRow
  <2>4. asking[c].at \notin WithRow /\ entry' = entry /\ asking' = [asking EXCEPT ![c] = a]
      BY <1>5, <2>1 DEF Reconciles, WithRow
  <2> HIDE DEF a
  <2>q. QED
      BY <2>3, <2>4, LookingKeeps
<1>q. QED
    BY <1>4, <1>5

\* Only the row of the call changes.
LEMMA OneRow ==
    ASSUME SyncInv, NEW r \in Row, NEW f, entry' = [entry EXCEPT ![r] = f]
    PROVE  /\ entry' = [q \in Row |-> entry'[q]] /\ entry'[r] = f /\ entry[r] \in EntryState
           /\ \A q \in Row : q # r => entry'[q] = entry[q]
BY DEF SyncInv, SyncTypes

\* The add is refused or late, and the row told so or the operation run; or the caller dies.
LEMMA CallsWithRowKeep ==
    ASSUME SyncInv, NEW c \in SyncCaller, AddFails(c) \/ TellsFailure(c) \/ RunsInline(c) \/ CallerDies(c)
    PROVE  SyncInv'
<1> DEFINE r == asking[c].entry
           e == entry[r]
<1>0. asking[c].at \in WithRow
    BY DEF AddFails, TellsFailure, RunsInline, CallerDies, WithRow, SyncInv, CallersApart
<1>1. /\ asking[c] \in AskState /\ r \in Row /\ e \in EntryState /\ e.status # "absent"
    BY <1>0 DEF SyncInv, SyncTypes, CallersApart, WithRow
<1>2. AtRest \in AskState /\ AtRest.at \notin WithRow /\ AtRest.entry = 0
    BY DEF AtRest, AskState, WithRow
<1>3. \A at \in {"sorry", "inline"} :
         /\ [asking[c] EXCEPT !.at = at] \in AskState /\ [asking[c] EXCEPT !.at = at].at \in WithRow
         /\ [asking[c] EXCEPT !.at = at].entry = r
    BY <1>1 DEF AskState, WithRow
<1> HIDE DEF e
<1>4. ASSUME NEW f, entry' = [entry EXCEPT ![r] = f], Kept(e, f),
             \/ \E at \in {"sorry", "inline"} : asking' = [asking EXCEPT ![c] = [asking[c] EXCEPT !.at = at]]
             \/ /\ asking' = [asking EXCEPT ![c] = AtRest]
                /\ Live(f) /\ f.job = "none" => f.why \in Reasons
      PROVE  SyncInv'
  <2>1. /\ entry' = [q \in Row |-> entry'[q]] /\ entry'[r] = f
        /\ \A q \in Row : q # r => entry'[q] = entry[q]
      BY <1>1, <1>4, OneRow
  <2>2. \A q \in Row : entry'[q] = entry[q] \/ (q = asking[c].entry /\ Kept(entry[q], entry'[q]))
      BY <1>4, <2>1 DEF e
  <2>3. CASE \E at \in {"sorry", "inline"} : asking' = [asking EXCEPT ![c] = [asking[c] EXCEPT !.at = at]]
    <3>1. PICK at \in {"sorry", "inline"} : asking' = [asking EXCEPT ![c] = [asking[c] EXCEPT !.at = at]]
        BY <2>3
    <3> DEFINE a == [asking[c] EXCEPT !.at = at]
    <3>2. a \in AskState /\ a.at \in WithRow /\ a.entry = asking[c].entry
        BY <1>3
    <3>3. asking' = [asking EXCEPT ![c] = a]
        BY <3>1
    <3> HIDE DEF a
    <3>q. QED
        BY <1>0, <2>1, <2>2, <3>2, <3>3, CallKeeps
  <2>4. CASE /\ asking' = [asking EXCEPT ![c] = AtRest]
             /\ Live(f) /\ f.job = "none" => f.why \in Reasons
      BY <1>2, <2>1, <2>2, <2>4, CallKeeps
  <2>q. QED
      BY <1>4, <2>3, <2>4
<1>5. CASE AddFails(c)
  <2>1. PICK fate \in {"none", "late"} : entry' = [entry EXCEPT ![r].job = fate]
      BY <1>5 DEF AddFails
  <2> DEFINE f == [e EXCEPT !.job = fate]
  <2>2. /\ f \in EntryState /\ f.kind = e.kind /\ f.auto = e.auto /\ f.status = e.status
        /\ f.ran = e.ran
        /\ f.job = fate
      BY <1>1 DEF EntryState
  <2>3. entry' = [entry EXCEPT ![r] = f]
      BY <2>1 DEF e
  <2>4. asking' = [asking EXCEPT ![c] = [asking[c] EXCEPT !.at = "sorry"]]
      BY <1>5 DEF AddFails
  <2> HIDE DEF f
  <2>5. Kept(e, f)
      BY <1>1, <2>2 DEF Kept, InQueue
  <2>q. QED
      BY <1>4, <2>3, <2>4, <2>5
<1>6. CASE TellsFailure(c)
  <2> DEFINE inline == setup = "development" /\ asking[c].kind \in Backtests /\ ~asking[c].auto
             state == IF inline THEN "running" ELSE "failed"
             f == Told(e, state)
  <2>1. /\ entry' = [entry EXCEPT ![r] = f]
        /\ asking' = [asking EXCEPT ![c] = IF inline THEN [asking[c] EXCEPT !.at = "inline"] ELSE AtRest]
      BY <1>6 DEF TellsFailure, e
  <2>2. state \in {"running", "failed"} /\ (~inline => state = "failed")
      OBVIOUS
  <2> HIDE DEF inline, state
  <2>3. /\ f \in EntryState /\ f.kind = e.kind /\ f.auto = e.auto /\ f.job = e.job /\ f.ran = e.ran
        /\ f.status = IF e.status = "deleted" THEN "deleted" ELSE state
      BY <1>1, <2>2, Telling
  <2> HIDE DEF f
  <2>4. Kept(e, f) /\ (~inline => ~Live(f))
      BY <1>1, <2>2, <2>3 DEF Kept, InQueue, Live
  <2>5. CASE inline
      BY <1>4, <2>1, <2>4, <2>5
  <2>6. CASE ~inline
      BY <1>4, <2>1, <2>4, <2>6
  <2>q. QED
      BY <2>5, <2>6
<1>7. CASE RunsInline(c)
  <2>1. PICK ok \in BOOLEAN :
           entry' = [entry EXCEPT ![r] = [Told(@, IF ok THEN "completed" ELSE "failed")
                                            EXCEPT !.ran = entry[r].ran \/ ok]]
      BY <1>7 DEF RunsInline
  <2> DEFINE state == IF ok THEN "completed" ELSE "failed"
             g == Told(e, state)
             done == e.ran \/ ok
             f == [g EXCEPT !.ran = done]
  <2>2. entry' = [entry EXCEPT ![r] = f] /\ asking' = [asking EXCEPT ![c] = AtRest]
    <3>1. entry' = [entry EXCEPT ![r] = f]
        BY <2>1 DEF e, f, done, g, state
    <3>2. asking' = [asking EXCEPT ![c] = AtRest]
        BY <1>7 DEF RunsInline
    <3>q. QED
        BY <3>1, <3>2
  <2>3. state \in {"completed", "failed"} /\ (state = "completed" => ok)
      OBVIOUS
  <2> HIDE DEF state
  <2>4. /\ g \in EntryState /\ g.kind = e.kind /\ g.auto = e.auto /\ g.job = e.job
        /\ g.status = IF e.status = "deleted" THEN "deleted" ELSE state
      BY <1>1, <2>3, Telling
  <2>5. done \in BOOLEAN /\ (ok => done)
      BY <1>1 DEF EntryState
  <2> HIDE DEF g, done
  <2>6. /\ f \in EntryState /\ f.kind = g.kind /\ f.auto = g.auto /\ f.job = g.job
        /\ f.status = g.status /\ f.ran = done
      BY <2>4, <2>5 DEF EntryState
  <2> HIDE DEF f
  <2>7. Kept(e, f) /\ ~Live(f)
      BY <1>1, <2>3, <2>4, <2>5, <2>6 DEF Kept, InQueue, Live
  <2>q. QED
      BY <1>4, <2>2, <2>7
<1>8. CASE CallerDies(c)
  <2> DEFINE f == [e EXCEPT !.why = "died"]
  <2>1. entry' = [entry EXCEPT ![r] = f] /\ asking' = [asking EXCEPT ![c] = AtRest]
      BY <1>8 DEF CallerDies, e
  <2>2. /\ f \in EntryState /\ f.kind = e.kind /\ f.auto = e.auto /\ f.status = e.status
        /\ f.ran = e.ran
        /\ f.job = e.job /\ f.why = "died"
      BY <1>1 DEF EntryState
  <2> HIDE DEF f
  <2>3. Kept(e, f) /\ f.why \in Reasons
      BY <1>1, <2>2 DEF Kept, InQueue, Reasons
  <2>q. QED
      BY <1>4, <2>1, <2>3
<1>q. QED
    BY <1>5, <1>6, <1>7, <1>8

\* Jobs and rows go on by themselves.
LEMMA JobsKeep ==
    ASSUME SyncInv, NEW r \in Row,
           \/ DeletesEntry(r) \/ StartsJob(r) \/ SkipsJob(r) \/ JobDone(r) \/ JobFails(r)
           \/ RetryDue(r) \/ RowAges(r)
    PROVE  SyncInv'
<1> DEFINE e == entry[r]
<1>1. e \in EntryState /\ (e.status = "absent" => e.job = "none")
    BY DEF SyncInv, SyncTypes, JobsHaveRows
<1> HIDE DEF e
<1>2. ASSUME NEW f, entry' = [entry EXCEPT ![r] = f], Kept(e, f), asking' = asking,
             Live(f) /\ f.job = "none" =>
                \/ f.why \in Reasons
                \/ Live(e) /\ e.job = "none" /\ f.why = e.why
      PROVE  SyncInv'
  <2>1. /\ entry' = [q \in Row |-> entry'[q]] /\ entry'[r] = f
        /\ \A q \in Row : q # r => entry'[q] = entry[q]
      BY <1>2, OneRow
  <2>2. ASSUME NEW q \in Row
        PROVE  \/ entry'[q] = entry[q]
               \/ /\ Kept(entry[q], entry'[q])
                  /\ Live(entry'[q]) /\ entry'[q].job = "none" =>
                        \/ entry'[q].why \in Reasons
                        \/ Live(entry[q]) /\ entry[q].job = "none" /\ entry'[q].why = entry[q].why
      BY <1>2, <2>1 DEF e
  <2>q. QED
      BY <1>2, <2>1, <2>2, RowsKeep
<1>3. CASE DeletesEntry(r)
  <2> DEFINE f == Removed(e)
  <2>1. entry' = [entry EXCEPT ![r] = f] /\ asking' = asking /\ e.status # "absent"
      BY <1>3 DEF DeletesEntry, Live, e
  <2>2. /\ f \in EntryState /\ f.kind = e.kind /\ f.auto = e.auto /\ f.status = "deleted"
        /\ f.job = e.job
    <3>1. 0 \in 0..3
        OBVIOUS
    <3>q. QED
        BY <1>1, <3>1 DEF Removed, EntryState
  <2> HIDE DEF f
  <2>q. QED
      BY <1>2, <2>1, <2>2 DEF Kept, InQueue, Live
<1>4. CASE StartsJob(r)
  <2> DEFINE g == Told(e, "running")
             left == e.left - 1
             f == [g EXCEPT !.job = "active", !.left = left]
  <2>1. entry' = [entry EXCEPT ![r] = f] /\ asking' = asking /\ e.job = "waiting"
      BY <1>4 DEF StartsJob, e
  <2>2. /\ g \in EntryState /\ g.kind = e.kind /\ g.auto = e.auto /\ g.ran = e.ran
        /\ g.status = IF e.status = "deleted" THEN "deleted" ELSE "running"
      BY <1>1, Telling
  <2>3. left \in Int
    <3>1. e.left \in Int
        BY <1>1 DEF EntryState
    <3>q. QED
        BY <3>1
  <2> HIDE DEF g, left
  <2>4. /\ f \in EntryState /\ f.kind = g.kind /\ f.auto = g.auto /\ f.status = g.status
        /\ f.job = "active"
      BY <2>2, <2>3 DEF EntryState
  <2> HIDE DEF f
  <2>q. QED
      BY <1>1, <1>2, <2>1, <2>2, <2>4 DEF Kept, InQueue
<1>5. CASE SkipsJob(r)
  <2> DEFINE f == [e EXCEPT !.job = "none", !.why = "skipped"]
  <2>1. entry' = [entry EXCEPT ![r] = f] /\ asking' = asking /\ e.job = "waiting"
      BY <1>5 DEF SkipsJob, e
  <2>2. /\ f \in EntryState /\ f.kind = e.kind /\ f.auto = e.auto /\ f.status = e.status
        /\ f.ran = e.ran
        /\ f.job = "none" /\ f.why = "skipped"
      BY <1>1 DEF EntryState
  <2> HIDE DEF f
  <2>q. QED
      BY <1>1, <1>2, <2>1, <2>2 DEF Kept, InQueue, Reasons
<1>6. CASE JobDone(r)
  <2> DEFINE g == Told(e, "completed")
             f == [g EXCEPT !.job = "none", !.ran = TRUE]
  <2>1. entry' = [entry EXCEPT ![r] = f] /\ asking' = asking /\ e.job = "active"
      BY <1>6 DEF JobDone, e
  <2>2. /\ g \in EntryState /\ g.kind = e.kind /\ g.auto = e.auto
        /\ g.status = IF e.status = "deleted" THEN "deleted" ELSE "completed"
      BY <1>1, Telling
  <2> HIDE DEF g
  <2>3. /\ f \in EntryState /\ f.kind = g.kind /\ f.auto = g.auto /\ f.status = g.status
        /\ f.job = "none" /\ f.ran = TRUE
      BY <2>2 DEF EntryState
  <2> HIDE DEF f
  <2>q. QED
      BY <1>1, <1>2, <2>1, <2>2, <2>3 DEF Kept, InQueue, Live
<1>7. CASE JobFails(r)
  <2> DEFINE g == Told(e, "failed")
             fate == IF e.left > 0 THEN "backoff" ELSE "none"
             f == [g EXCEPT !.job = fate]
  <2>1. entry' = [entry EXCEPT ![r] = f] /\ asking' = asking /\ e.job = "active"
      BY <1>7 DEF JobFails, AfterFailure, e
  <2>2. /\ g \in EntryState /\ g.kind = e.kind /\ g.auto = e.auto
        /\ g.status = IF e.status = "deleted" THEN "deleted" ELSE "failed"
      BY <1>1, Telling
  <2> HIDE DEF g
  <2>3. fate \in {"backoff", "none"}
      OBVIOUS
  <2> HIDE DEF fate
  <2>4. /\ f \in EntryState /\ f.kind = g.kind /\ f.auto = g.auto /\ f.status = g.status
      BY <2>2, <2>3 DEF EntryState
  <2> HIDE DEF f
  <2>q. QED
      BY <1>1, <1>2, <2>1, <2>2, <2>4 DEF Kept, InQueue, Live
<1>8. CASE RetryDue(r)
  <2> DEFINE f == [e EXCEPT !.job = "waiting"]
  <2>1. entry' = [entry EXCEPT ![r] = f] /\ asking' = asking /\ e.job = "backoff"
      BY <1>8 DEF RetryDue, e
  <2>2. /\ f \in EntryState /\ f.kind = e.kind /\ f.auto = e.auto /\ f.status = e.status
        /\ f.ran = e.ran
        /\ f.job = "waiting"
      BY <1>1 DEF EntryState
  <2> HIDE DEF f
  <2>q. QED
      BY <1>1, <1>2, <2>1, <2>2 DEF Kept, InQueue
<1>9. CASE RowAges(r)
  <2> DEFINE f == [e EXCEPT !.age = NextAge(e)]
  <2>1. entry' = [entry EXCEPT ![r] = f] /\ asking' = asking
      BY <1>9 DEF RowAges, e
  <2>2. NextAge(e) \in 0..3
    <3>1. e.age \in 0..3
        BY <1>1 DEF EntryState
    <3>2. Live(e) /\ e.age < 2 => NextAge(e) = e.age + 1
        BY <3>1 DEF NextAge, Live
    <3>3. ~(Live(e) /\ e.age < 2) => NextAge(e) \in {1, 3, e.age}
        BY DEF NextAge
    <3>q. QED
        BY <3>1, <3>2, <3>3
  <2>3. /\ f \in EntryState /\ f.kind = e.kind /\ f.auto = e.auto /\ f.status = e.status
        /\ f.ran = e.ran
        /\ f.job = e.job /\ f.why = e.why
      BY <1>1, <2>2 DEF EntryState
  <2> HIDE DEF f
  <2>q. QED
      BY <1>1, <1>2, <2>1, <2>3 DEF Kept, InQueue, Live
<1>q. QED
    BY <1>3, <1>4, <1>5, <1>6, <1>7, <1>8, <1>9

\* All rows at once: the list of the admin, the deletion of failures, the death of the worker.
LEMMA TableKeeps ==
    ASSUME SyncInv, ListsJobs \/ DeletesFailed \/ TrackedWorkerDies
    PROVE  SyncInv'
<1>1. \A r \in Row : entry[r] \in EntryState /\ (entry[r].status = "absent" => entry[r].job = "none")
    BY DEF SyncInv, SyncTypes, JobsHaveRows
<1>2. CASE ListsJobs
  <2>1. entry' = StaleFailed /\ asking' = asking /\ entry' = [r \in Row |-> entry'[r]]
      BY <1>2 DEF ListsJobs, StaleFailed
  <2>2. \A r \in Row : \/ entry'[r] = entry[r]
                       \/ Kept(entry[r], entry'[r]) /\ ~Live(entry'[r])
      BY <2>1, StaleKept
  <2>q. QED
      BY <2>1, <2>2, RowsKeep
<1>3. CASE DeletesFailed
  <2>1. PICK chosen \in SUBSET {r \in Row : entry[r].status = "failed"} :
           entry' = [r \in Row |-> IF r \in chosen THEN Removed(entry[r]) ELSE entry[r]]
      BY <1>3 DEF DeletesFailed
  <2>2. asking' = asking /\ entry' = [r \in Row |-> entry'[r]]
      BY <1>3, <2>1 DEF DeletesFailed
  <2>3. ASSUME NEW r \in Row
        PROVE  entry'[r] = entry[r] \/ (Kept(entry[r], entry'[r]) /\ ~Live(entry'[r]))
    <3> DEFINE e == entry[r]
               f == Removed(e)
    <3>1. CASE r \in chosen
      <4>1. entry'[r] = f /\ e.status = "failed" /\ e \in EntryState /\ 0 \in 0..3
          BY <1>1, <2>1, <3>1
      <4>2. /\ f \in EntryState /\ f.kind = e.kind /\ f.auto = e.auto /\ f.status = "deleted"
            /\ f.job = e.job
          BY <4>1 DEF Removed, EntryState
      <4> HIDE DEF e, f
      <4>3. Kept(e, f) /\ ~Live(f)
          BY <4>1, <4>2 DEF Kept, InQueue, Live
      <4>q. QED
          BY <4>1, <4>3 DEF e
    <3>2. CASE r \notin chosen
        BY <2>1, <3>2
    <3>q. QED
        BY <3>1, <3>2
  <2>q. QED
      BY <2>2, <2>3, RowsKeep
<1>4. CASE TrackedWorkerDies
  <2>1. entry' = [r \in Row |-> RecoveredOnce(entry[r])] /\ asking' = asking
      BY <1>4 DEF TrackedWorkerDies
  <2>2. entry' = [r \in Row |-> entry'[r]]
      BY <2>1
  <2>3. ASSUME NEW r \in Row
        PROVE  \/ entry'[r] = entry[r]
               \/ /\ Kept(entry[r], entry'[r])
                  /\ Live(entry'[r]) /\ entry'[r].job = "none" => entry'[r].why \in Reasons
    <3> DEFINE e == entry[r]
               lost == [e EXCEPT !.job = "none", !.why = "lost"]
               left == e.left + 1
               again == [e EXCEPT !.job = "waiting", !.stalled = TRUE, !.left = left]
    <3>1. e \in EntryState /\ entry'[r] = RecoveredOnce(e) /\ (e.status = "absent" => e.job = "none")
        BY <1>1, <2>1
    <3>2. \/ entry'[r] = e
          \/ e.job = "active" /\ (entry'[r] = lost \/ entry'[r] = again)
        BY <3>1 DEF RecoveredOnce
    <3>3. /\ lost \in EntryState /\ lost.kind = e.kind /\ lost.auto = e.auto
          /\ lost.status = e.status
          /\ lost.ran = e.ran /\ lost.job = "none" /\ lost.why = "lost"
        BY <3>1 DEF EntryState
    <3>4. /\ again \in EntryState /\ again.kind = e.kind /\ again.auto = e.auto
          /\ again.status = e.status
          /\ again.ran = e.ran /\ again.job = "waiting"
      <4>1. e.left \in Int
          BY <3>1 DEF EntryState
      <4>2. left \in Int
          BY <4>1
      <4> HIDE DEF left
      <4>q. QED
          BY <3>1, <4>2 DEF EntryState
    <3> HIDE DEF e, lost, again
    <3>5. e.job = "active" => Kept(e, lost) /\ lost.why \in Reasons
        BY <3>1, <3>3 DEF Kept, InQueue, Reasons
    <3>6. e.job = "active" => Kept(e, again) /\ again.job # "none"
        BY <3>1, <3>4 DEF Kept, InQueue
    <3>q. QED
        BY <3>2, <3>5, <3>6 DEF e
  <2>q. QED
      BY <2>1, <2>2, <2>3, RowsKeep
<1>q. QED
    BY <1>2, <1>3, <1>4

\* The steps of a call from its insert on.
LEMMA EnqueuesKeep ==
    ASSUME SyncInv, NEW c \in SyncCaller, Enqueues(c)
    PROVE  SyncInv'
BY InsertKeeps, AddKeeps, CallsWithRowKeep DEF Enqueues

\* Every step keeps the invariant.
LEMMA SyncInvHolds ==
    ASSUME SyncInv, [SyncNext]_syncVars
    PROVE  SyncInv'
<1>1. ASSUME NEW c \in SyncCaller, SyncCall(c)
      PROVE  SyncInv'
  <2>1. ASSUME NEW kind \in KindOf, NEW blockers, Trigger(c, kind, blockers)
        PROVE  SyncInv'
      BY <2>1, AskedKeeps, EnqueuesKeep DEF Trigger
  <2>2. CASE TriggerInstrumentSync(c)
      BY <2>1, <2>2 DEF TriggerInstrumentSync, KindOf
  <2>3. CASE TriggerSectorClassificationSync(c)
      BY <2>1, <2>3 DEF TriggerSectorClassificationSync, KindOf
  <2>4. CASE TriggerIndexCandleBackfill(c)
      BY <2>1, <2>4 DEF TriggerIndexCandleBackfill, KindOf
  <2>5. CASE TriggerPriceRefresh(c)
      BY <2>1, <2>5 DEF TriggerPriceRefresh, KindOf
  <2>6. CASE TriggerBacktestBackfill(c)
      BY <2>1, <2>6, ChecksKeep DEF TriggerBacktestBackfill, KindOf
  <2>7. CASE TriggerHistoricalRebuild(c)
      BY <2>1, <2>7, ChecksKeep DEF TriggerHistoricalRebuild, KindOf
  <2>8. CASE Reconciles(c)
      BY <2>8, ChecksKeep
  <2>9. CASE EnqueuesBacktest(c)
      BY <2>9, ChecksKeep, EnqueuesKeep DEF EnqueuesBacktest
  <2>10. CASE CallerDies(c)
      BY <2>10, CallsWithRowKeep
  <2>q. QED
      BY <1>1, <2>2, <2>3, <2>4, <2>5, <2>6, <2>7, <2>8, <2>9, <2>10 DEF SyncCall
<1>2. ASSUME NEW r \in Row,
             \/ Straggles(r) \/ DeletesEntry(r) \/ StartsJob(r) \/ SkipsJob(r) \/ JobDone(r)
             \/ JobFails(r) \/ RetryDue(r) \/ RowAges(r)
      PROVE  SyncInv'
    BY <1>2, StraggleKeeps, JobsKeep
<1>3. CASE ListsJobs \/ DeletesFailed \/ TrackedWorkerDies
    BY <1>3, TableKeeps
<1>4. CASE UNCHANGED syncVars
    BY <1>4 DEF syncVars, SyncInv, SyncTypes, CallersApart, JobsHaveRows, OneJobPerId, InQueue,
                SameId, LeftBehindFor, Live, HasCaller, CompletedHasRun
<1>q. QED
    BY <1>1, <1>2, <1>3, <1>4 DEF SyncNext

\* It holds in the beginning, when the table is empty.
LEMMA SyncInvStarts ==
    ASSUME SyncInit
    PROVE  SyncInv
<1>1. NoEntry \in EntryState /\ NoEntry.status = "absent" /\ NoEntry.job = "none"
    BY DEF NoEntry, EntryState
<1>2. AtRest \in AskState /\ AtRest.at = "idle" /\ AtRest.entry = 0
    BY DEF AtRest, AskState
<1>3. /\ \A r \in Row : entry[r] = NoEntry
      /\ \A c \in SyncCaller : asking[c] = AtRest
    BY DEF SyncInit
<1>4. SyncTypes
    BY <1>1, <1>2 DEF SyncInit, SyncTypes
<1>5. CallersApart /\ JobsHaveRows
    BY <1>1, <1>2, <1>3 DEF CallersApart, JobsHaveRows
<1>6. OneJobPerId
    BY <1>1, <1>3 DEF OneJobPerId, InQueue
<1>7. LeftBehindFor(Reasons) /\ CompletedHasRun
    BY <1>1, <1>3 DEF LeftBehindFor, Live, CompletedHasRun
<1>q. QED
    BY <1>4, <1>5, <1>6, <1>7 DEF SyncInv

\* A result changes only by the job or the call of its row.
LEMMA ResultsHold ==
    ASSUME SyncInv, [SyncNext]_syncVars
    PROVE  ResultsStand
<1> SUFFICES ASSUME NEW r \in Row, entry[r].status = "completed",
                    entry'[r].status \notin {"completed", "deleted"},
                    entry[r].job # "active", entry'[r].job # "active",
                    \A c \in SyncCaller : asking[c].entry # r
             PROVE  FALSE
    BY DEF ResultsStand
<1>1. entry \in [Row -> EntryState]
    BY DEF SyncInv, SyncTypes
<1>2. entry'[r] # entry[r]
    OBVIOUS
<1>3. StaleFailed[r] = entry[r]
    BY DEF StaleFailed, Live
<1>4. ASSUME NEW c \in SyncCaller, NEW kind \in KindOf, NEW blockers, Asked(c, kind, blockers)
      PROVE  FALSE
    BY <1>2, <1>3, <1>4 DEF Asked
<1>5. ASSUME NEW q \in Row, NEW f, entry' = [entry EXCEPT ![q] = f]
      PROVE  q = r /\ f = entry'[r]
    BY <1>1, <1>2, <1>5
<1>6. ASSUME NEW c \in SyncCaller, NEW f, asking[c].entry \in Row,
             entry' = [entry EXCEPT ![asking[c].entry] = f]
      PROVE  FALSE
    BY <1>5, <1>6
<1>7. ASSUME NEW q \in Row, entry' = Placed(q)
      PROVE  FALSE
  <2>1. /\ [entry[r] EXCEPT !.job = "none", !.why = "twin"].status = "completed"
        /\ [entry[r] EXCEPT !.job = "waiting"].status = "completed"
      BY <1>1 DEF EntryState
  <2>2. \/ entry' = [entry EXCEPT ![q] = [entry[q] EXCEPT !.job = "none", !.why = "twin"]]
        \/ entry' = [entry EXCEPT ![q] = [entry[q] EXCEPT !.job = "waiting"]]
      BY <1>7 DEF Placed
  <2>q. QED
      BY <1>5, <2>1, <2>2
<1>8. ASSUME NEW c \in SyncCaller, Enqueues(c)
      PROVE  FALSE
  <2>1. asking[c].at \in WithRow => asking[c].entry \in Row
      BY DEF SyncInv, CallersApart, WithRow
  <2>2. CASE Inserts(c)
    <3>1. PICK q \in Row : entry[q].status = "absent" /\ \E f : entry' = [entry EXCEPT ![q] = f]
        BY <2>2 DEF Inserts
    <3>q. QED
        BY <1>5, <3>1
  <2>3. CASE AddsJob(c)
      BY <1>7, <2>1, <2>3 DEF AddsJob, WithRow
  <2>4. CASE AddFails(c)
    <3>1. PICK fate \in {"none", "late"} :
             entry' = [entry EXCEPT ![asking[c].entry] = [entry[asking[c].entry] EXCEPT !.job = fate]]
        BY <2>4 DEF AddFails
    <3>q. QED
        BY <1>6, <2>1, <2>4, <3>1 DEF AddFails, WithRow
  <2>5. CASE TellsFailure(c)
      BY <1>6, <2>1, <2>5 DEF TellsFailure, WithRow
  <2>6. CASE RunsInline(c)
      BY <1>6, <2>1, <2>6 DEF RunsInline, WithRow
  <2>q. QED
      BY <1>8, <2>2, <2>3, <2>4, <2>5, <2>6 DEF Enqueues
<1>9. ASSUME NEW c \in SyncCaller, SyncCall(c)
      PROVE  FALSE
  <2>1. ASSUME NEW kind \in KindOf, NEW blockers, Trigger(c, kind, blockers)
        PROVE  FALSE
      BY <1>4, <1>8, <2>1 DEF Trigger
  <2>2. ~(CoolsDown(c) \/ FindsJob(c) \/ FindsRow(c) \/ Reconciles(c))
      BY <1>2 DEF CoolsDown, FindsJob, FindsRow, Reconciles
  <2>3. ~TriggerInstrumentSync(c) /\ ~TriggerSectorClassificationSync(c)
      BY <2>1 DEF TriggerInstrumentSync, TriggerSectorClassificationSync, KindOf
  <2>4. ~TriggerIndexCandleBackfill(c) /\ ~TriggerPriceRefresh(c)
      BY <2>1 DEF TriggerIndexCandleBackfill, TriggerPriceRefresh, KindOf
  <2>5. ~TriggerBacktestBackfill(c) /\ ~TriggerHistoricalRebuild(c)
      BY <2>1, <2>2 DEF TriggerBacktestBackfill, TriggerHistoricalRebuild, KindOf
  <2>6. ~EnqueuesBacktest(c)
      BY <1>8, <2>2 DEF EnqueuesBacktest
  <2>7. CASE CallerDies(c)
    <3>1. asking[c].entry \in Row
        BY <2>7 DEF CallerDies, SyncInv, CallersApart
    <3>2. \E f : entry' = [entry EXCEPT ![asking[c].entry] = f]
        BY <2>7 DEF CallerDies
    <3>q. QED
        BY <1>6, <3>1, <3>2
  <2>q. QED
      BY <1>9, <2>2, <2>3, <2>4, <2>5, <2>6, <2>7 DEF SyncCall
<1>10. ASSUME NEW q \in Row,
              \/ Straggles(q) \/ DeletesEntry(q) \/ StartsJob(q) \/ SkipsJob(q) \/ JobDone(q)
              \/ JobFails(q) \/ RetryDue(q) \/ RowAges(q)
       PROVE  FALSE
  <2>1. CASE Straggles(q)
      BY <1>7, <2>1 DEF Straggles
  <2>2. CASE DeletesEntry(q)
    <3>1. Removed(entry[r]).status = "deleted"
        BY <1>1 DEF Removed, EntryState
    <3>q. QED
        BY <1>5, <2>2, <3>1 DEF DeletesEntry
  <2>3. CASE StartsJob(q)
    <3>1. Told(entry[r], "running") \in EntryState
        BY <1>1, Telling
    <3>2. [Told(entry[r], "running") EXCEPT !.job = "active", !.left = entry[r].left - 1].job = "active"
        BY <3>1 DEF EntryState
    <3>q. QED
        BY <1>5, <2>3, <3>2 DEF StartsJob
  <2>4. CASE SkipsJob(q)
    <3>1. [entry[r] EXCEPT !.job = "none", !.why = "skipped"].status = "completed"
        BY <1>1 DEF EntryState
    <3>q. QED
        BY <1>5, <2>4, <3>1 DEF SkipsJob
  <2>5. CASE JobDone(q)
    <3>1. entry[q].job = "active" /\ \E f : entry' = [entry EXCEPT ![q] = f]
        BY <2>5 DEF JobDone
    <3>q. QED
        BY <1>5, <3>1
  <2>6. CASE JobFails(q)
    <3>1. entry[q].job = "active" /\ \E f : entry' = [entry EXCEPT ![q] = f]
        BY <2>6 DEF JobFails
    <3>q. QED
        BY <1>5, <3>1
  <2>7. CASE RetryDue(q)
    <3>1. [entry[r] EXCEPT !.job = "waiting"].status = "completed"
        BY <1>1 DEF EntryState
    <3>2. entry' = [entry EXCEPT ![q] = [entry[q] EXCEPT !.job = "waiting"]]
        BY <2>7 DEF RetryDue
    <3>q. QED
        BY <1>5, <3>1, <3>2
  <2>8. CASE RowAges(q)
    <3>1. \A age : [entry[r] EXCEPT !.age = age].status = "completed"
        BY <1>1 DEF EntryState
    <3>2. \E age : entry' = [entry EXCEPT ![q] = [entry[q] EXCEPT !.age = age]]
        BY <2>8 DEF RowAges
    <3>q. QED
        BY <1>5, <3>1, <3>2
  <2>q. QED
      BY <1>10, <2>1, <2>2, <2>3, <2>4, <2>5, <2>6, <2>7, <2>8
<1>11. ~ListsJobs
    BY <1>2, <1>3 DEF ListsJobs
<1>12. ~DeletesFailed
    BY <1>2 DEF DeletesFailed
<1>13. ~TrackedWorkerDies
    BY <1>2 DEF TrackedWorkerDies, RecoveredOnce
<1>14. ~UNCHANGED syncVars
    BY <1>2 DEF syncVars
<1>q. QED
    BY <1>9, <1>10, <1>11, <1>12, <1>13, <1>14 DEF SyncNext

\* Whatever requests, reconciliations, jobs and deaths do: a row that nothing works for any more has
\* one of four known reasons, completed means that the operation ran to its end, no kind of backtest
\* runs twice for rows of one origin, and a result changes only by the job or the call of its row.
THEOREM RowsTellTheTruth == SyncSpec => SyncRowsTellTheTruth
<1>1. SyncInit => SyncInv
    BY SyncInvStarts
<1>2. SyncInv /\ [SyncNext]_syncVars => SyncInv'
    BY SyncInvHolds
<1>3. SyncInv => LeftBehindFor({"skipped", "twin", "lost", "died"}) /\ CompletedHasRun /\ NoTwinRuns
  <2>1. SyncInv => NoTwinRuns
      BY DEF SyncInv, NoTwinRuns, OneJobPerId, SameId, SameOrigin, InQueue
  <2>q. QED
      BY <2>1 DEF SyncInv, Reasons
<1>4. SyncInv /\ [SyncNext]_syncVars => ResultsStand
    BY ResultsHold
<1>q. QED
    BY <1>1, <1>2, <1>3, <1>4, PTL DEF SyncSpec, SyncRowsTellTheTruth

-------------------------------------------------------------------------------
(* The daily schedule *)

ScheduledState == [is : {"none", "delayed", "waiting", "active", "completed", "failed"}, stalled : BOOLEAN]
RecoveryState == [is : {"none", "waiting", "active"}, stalled : BOOLEAN]
RunRow == [is : {"absent", "pending", "queued", "running", "completed", "partial", "failed", "missed"},
           job : {"none", "scheduled", "recovery"}]
WorkState == [at : {"rest", "insert", "read", "update", "sync", "coverage"}, day : 0..LastRunDay,
              job : {"none", "scheduled", "recovery"}, early : BOOLEAN]

ScheduleTypes ==
    /\ clock \in [day : RunDay, part : 1..4] /\ scheduler \in Nat
    /\ fired \in [RunDay -> ScheduledState] /\ recovery \in [RunDay -> RecoveryState]
    /\ ledger \in [RunDay -> RunRow] /\ work \in WorkState
    /\ watchdog \in {"rest", "scheduled?", "recovery?", "add"}
    /\ refresh \in [at : {"rest", "check"}, saw : Nat]
    /\ work.at = "rest" <=> work.day = 0

\* The scheduled time of a day has not come: there is neither a row nor work nor a job that is due.
NotYet(d) == clock.day < d \/ (clock.day = d /\ clock.part = 1)
NothingBeforeItsTime ==
    \A d \in RunDay : NotYet(d) =>
        /\ ledger[d] = NoRow /\ fired[d].is \in {"none", "delayed"} /\ recovery[d].is = "none"
        /\ work.day # d

\* Scheduled work has its job, unless the queue was cleared.
WorkHasItsJob ==
    work.at # "rest" /\ work.job = "scheduled" => fired[work.day].is \in {"active", "none"}

\* A job that claimed its row is not due again but after a crash, and not over while the row is running.
ClaimsAreFinal ==
    \A d \in RunDay : ledger[d].job = "scheduled" =>
        \/ fired[d].stalled \/ fired[d].is \in {"none", "active", "failed"}
        \/ fired[d].is = "completed" /\ ledger[d].is # "running"

\* A row that nobody claimed, or that is missed, has not run.
UnclaimedNeverRan ==
    \A d \in RunDay : ledger[d].is \in {"absent", "pending", "queued", "missed"} => d \notin ran

\* What a refresh read is still so, or the scheduler was lost or has gone on to the next day.
RefreshIsInTime == refresh.at = "check" => scheduler \in {refresh.saw, 0, NextDay}

\* The watchdog works in its window, and leaves a run that has begun or one of its jobs on the way.
WatchdogInTime == (watchdog # "rest" => clock.part = 3) /\ (checked => clock.part \in {3, 4})
CheckedMeansCared ==
    produced /\ checked /\ ledger[clock.day].is \in Unstarted =>
        IsLiveJob(fired[clock.day]) \/ IsLiveJob(recovery[clock.day]) \/ work.day = clock.day

ScheduleInv ==
    /\ ScheduleTypes /\ NothingBeforeItsTime /\ WorkHasItsJob /\ ClaimsAreFinal
    /\ UnclaimedNeverRan /\ RefreshIsInTime /\ WatchdogInTime /\ CheckedMeansCared


\* The parts of the day by number.
LEMMA Windows == /\ Len(Parts) = 4
                 /\ \A p \in 1..4 : (Parts[p] = "window" <=> p = 3) /\ (Parts[p] = "after" <=> p = 4)
<1>1. Len(Parts) = 4 /\ Parts[1] = "before" /\ Parts[2] = "grace" /\ Parts[3] = "window" /\ Parts[4] = "after"
    BY DEF Parts
<1>2. \A p \in 1..4 : p = 1 \/ p = 2 \/ p = 3 \/ p = 4
    OBVIOUS
<1>q. QED
    BY <1>1, <1>2

\* A job changes its state only.
LEMMA JobBecomes ==
    ASSUME NEW j \in ScheduledState,
           NEW is \in {"none", "delayed", "waiting", "active", "completed", "failed"}
    PROVE  /\ [j EXCEPT !.is = is] \in ScheduledState /\ [j EXCEPT !.is = is].is = is
           /\ [j EXCEPT !.is = is].stalled = j.stalled
BY DEF ScheduledState

\* A job that is not there.
LEMMA NoJobYetIs == /\ NoJobYet \in ScheduledState /\ NoJobYet \in RecoveryState
                    /\ NoJobYet.is = "none" /\ NoJobYet.stalled = FALSE
BY DEF NoJobYet, ScheduledState, RecoveryState

\* A row changes its status only.
LEMMA RowBecomes ==
    ASSUME NEW w \in RunRow,
           NEW is \in {"absent", "pending", "queued", "running", "completed", "partial", "failed", "missed"}
    PROVE  /\ [w EXCEPT !.is = is] \in RunRow /\ [w EXCEPT !.is = is].is = is
           /\ [w EXCEPT !.is = is].job = w.job
BY DEF RunRow

\* The next job of a scheduler that is removed or registered anew.
LEMMA DroppedJobs ==
    ASSUME NEW jobs \in [RunDay -> ScheduledState], NEW n
    PROVE  /\ Dropped(jobs, n) \in [RunDay -> ScheduledState]
           /\ \A d \in RunDay : \/ Dropped(jobs, n)[d] = jobs[d]
                                \/ /\ d = n /\ jobs[d].is \in {"delayed", "waiting"}
                                   /\ Dropped(jobs, n)[d] = NoJobYet
BY NoJobYetIs DEF Dropped

\* The next job is put in the queue.
LEMMA ScheduledJobs ==
    ASSUME NEW jobs \in [RunDay -> ScheduledState], NEW n
    PROVE  /\ Scheduled(jobs, n) \in [RunDay -> ScheduledState]
           /\ \A d \in RunDay : IF d = n THEN Scheduled(jobs, n)[d].is = "delayed" /\ ~Scheduled(jobs, n)[d].stalled
                                ELSE Scheduled(jobs, n)[d] = jobs[d]
<1> DEFINE new == [NoJobYet EXCEPT !.is = "delayed"]
<1>1. new \in ScheduledState /\ new.is = "delayed" /\ new.stalled = FALSE
    BY NoJobYetIs, JobBecomes
<1>2. Scheduled(jobs, n) = IF n \in RunDay THEN [jobs EXCEPT ![n] = new] ELSE jobs
    BY DEF Scheduled
<1> HIDE DEF new
<1>q. QED
    BY <1>1, <1>2

\* The next day of a scheduler is one whose time has not come, and the only day of that part.
LEMMA NextIsNotYet ==
    ASSUME ScheduleTypes
    PROVE  /\ NextDay \in Nat /\ NotYet(NextDay) /\ ~(clock.part # 1 /\ NextDay = clock.day)
           /\ clock.day \in RunDay /\ clock.part \in 1..4
BY ScheduleAssumption DEF ScheduleTypes, NextDay, NotYet, RunDay

-----------------------------------------------------------------------------
(* Every step keeps the invariant *)

\* The refresh registers the scheduler, or removes it.
LEMMA RefreshKeeps ==
    ASSUME ScheduleInv, RefreshReads \/ RefreshEndsIt
    PROVE  ScheduleInv'
<1>1. /\ ScheduleTypes /\ NothingBeforeItsTime /\ WorkHasItsJob /\ ClaimsAreFinal
      /\ UnclaimedNeverRan /\ RefreshIsInTime /\ WatchdogInTime /\ CheckedMeansCared
    BY DEF ScheduleInv
<1>2. /\ clock' = clock /\ recovery' = recovery /\ ledger' = ledger /\ work' = work
      /\ watchdog' = watchdog
      /\ produced' = produced /\ checked' = checked /\ ran' = ran
    BY DEF RefreshReads, RefreshEndsIt
<1>3. /\ fired' \in [RunDay -> ScheduledState]
      /\ \A d \in RunDay : \/ fired'[d] = fired[d]
                           \/ fired[d].is \in {"delayed", "waiting"} /\ fired'[d] = NoJobYet
                           \/ NotYet(d) /\ fired'[d].is = "delayed"
      /\ produced /\ ~NotYet(clock.day) /\ IsLiveJob(fired[clock.day]) =>
            fired'[clock.day] = fired[clock.day]
      /\ scheduler' \in Nat /\ refresh' \in [at : {"rest", "check"}, saw : Nat]
      /\ RefreshIsInTime'
  <2>1. CASE RefreshReads /\ produced
      BY <1>1, <2>1 DEF RefreshReads, ScheduleTypes, RefreshIsInTime
  <2>2. CASE RefreshReads /\ ~produced
    <3>1. fired' = Dropped(fired, scheduler) /\ scheduler' = 0 /\ refresh' = refresh
        BY <2>2 DEF RefreshReads
    <3>2. refresh.at = "rest"
        BY <2>2 DEF RefreshReads
    <3>q. QED
        BY <1>1, <2>2, <3>1, <3>2, DroppedJobs DEF ScheduleTypes, RefreshIsInTime
  <2>3. CASE RefreshEndsIt /\ ~ShouldUpsert(refresh.saw)
      BY <1>1, <2>3 DEF RefreshEndsIt, ScheduleTypes, RefreshIsInTime
  <2>4. CASE RefreshEndsIt /\ ShouldUpsert(refresh.saw)
    <3> DEFINE jobs == Dropped(fired, scheduler)
    <3>1. /\ fired' = Scheduled(jobs, NextDay) /\ scheduler' = NextDay
          /\ refresh.at = "check" /\ refresh' = [at |-> "rest", saw |-> 0]
        BY <2>4 DEF RefreshEndsIt
    <3>2. fired \in [RunDay -> ScheduledState]
        BY <1>1 DEF ScheduleTypes
    <3>3. /\ jobs \in [RunDay -> ScheduledState]
          /\ \A d \in RunDay : \/ jobs[d] = fired[d]
                               \/ d = scheduler /\ fired[d].is \in {"delayed", "waiting"} /\ jobs[d] = NoJobYet
        BY <3>2, DroppedJobs
    <3> HIDE DEF jobs
    <3>4. /\ fired' \in [RunDay -> ScheduledState]
          /\ \A d \in RunDay : IF d = NextDay THEN fired'[d].is = "delayed" ELSE fired'[d] = jobs[d]
        BY <3>1, <3>3, ScheduledJobs
    <3>5. NotYet(NextDay) /\ clock.day \in RunDay /\ NextDay \in Nat
        BY <1>1, NextIsNotYet
    <3>6. ~NotYet(clock.day) /\ IsLiveJob(fired[clock.day]) => jobs[clock.day] = fired[clock.day]
      <4> SUFFICES ASSUME ~NotYet(clock.day), IsLiveJob(fired[clock.day]), clock.day = scheduler
                   PROVE  FALSE
          BY <3>3, <3>5
      <4>1. scheduler # 0 /\ scheduler # NextDay
          BY <3>5 DEF RunDay
      <4>2. scheduler = refresh.saw
          BY <1>1, <3>1, <4>1 DEF RefreshIsInTime
      <4>q. QED
          BY <2>4, <3>5, <4>2 DEF ShouldUpsert
    <3>7. RefreshIsInTime' /\ refresh' \in [at : {"rest", "check"}, saw : Nat]
        BY <3>1 DEF RefreshIsInTime
    <3>q. QED
        BY <3>1, <3>3, <3>4, <3>5, <3>6, <3>7
  <2>q. QED
      BY <2>1, <2>2, <2>3, <2>4
<1>4. ScheduleTypes'
    BY <1>1, <1>2, <1>3 DEF ScheduleTypes
<1>5. \A d : NotYet(d)' <=> NotYet(d)
    BY <1>2 DEF NotYet
<1>6. NothingBeforeItsTime'
    BY <1>1, <1>2, <1>3, <1>5, NoJobYetIs DEF NothingBeforeItsTime
<1>7. WorkHasItsJob'
  <2>1. work.at # "rest" => work.day \in RunDay /\ ~NotYet(work.day)
      BY <1>1 DEF ScheduleTypes, WorkState, RunDay, NothingBeforeItsTime
  <2>q. QED
      BY <1>1, <1>2, <1>3, <2>1 DEF WorkHasItsJob
<1>8. ClaimsAreFinal'
  <2>1. \A d \in RunDay : NotYet(d) => ledger[d].job = "none"
      BY <1>1 DEF NothingBeforeItsTime, NoRow
  <2>q. QED
      BY <1>1, <1>2, <1>3, <2>1, NoJobYetIs DEF ClaimsAreFinal
<1>9. UnclaimedNeverRan' /\ WatchdogInTime'
    BY <1>1, <1>2 DEF UnclaimedNeverRan, WatchdogInTime
<1>10. CheckedMeansCared'
  <2>1. checked => ~NotYet(clock.day)
      BY <1>1 DEF WatchdogInTime, NotYet, ScheduleTypes, RunDay
  <2>q. QED
      BY <1>1, <1>2, <1>3, <2>1 DEF CheckedMeansCared
<1>q. QED
    BY <1>3, <1>4, <1>6, <1>7, <1>8, <1>9, <1>10 DEF ScheduleInv

\* The watchdog looks, and adds a job.
LEMMA WatchdogKeeps ==
    ASSUME ScheduleInv,
           \/ WatchdogReads \/ WatchdogAdds
           \/ WatchdogLooks("scheduled?", fired, "recovery?") \/ WatchdogLooks("recovery?", recovery, "add")
    PROVE  ScheduleInv'
<1>1. /\ ScheduleTypes /\ NothingBeforeItsTime /\ WorkHasItsJob /\ ClaimsAreFinal
      /\ UnclaimedNeverRan /\ RefreshIsInTime /\ WatchdogInTime /\ CheckedMeansCared
    BY DEF ScheduleInv
<1>2. /\ clock' = clock /\ scheduler' = scheduler /\ fired' = fired /\ ledger' = ledger
      /\ work' = work
      /\ refresh' = refresh /\ produced' = produced /\ ran' = ran
    BY DEF WatchdogReads, WatchdogAdds, WatchdogLooks
<1>3. clock.part = 3 /\ clock.day \in RunDay /\ ~NotYet(clock.day)
  <2>1. clock.part = 3
    <3>1. clock.part \in 1..4
        BY <1>1 DEF ScheduleTypes
    <3>q. QED
        BY <1>1, <3>1, Windows DEF WatchdogInTime, WatchdogReads, WatchdogAdds, WatchdogLooks
  <2>q. QED
      BY <1>1, <2>1 DEF ScheduleTypes, NotYet, RunDay
<1>4. /\ recovery' \in [RunDay -> RecoveryState]
      /\ \A d \in RunDay : recovery'[d] = recovery[d] \/ (d = clock.day /\ recovery'[d].is = "waiting")
      /\ watchdog' \in {"rest", "scheduled?", "recovery?", "add"}
      /\ CheckedMeansCared'
  <2>1. CASE WatchdogReads
      BY <1>1, <1>2, <2>1 DEF WatchdogReads, ScheduleTypes, CheckedMeansCared, Started
  <2>2. CASE WatchdogLooks("scheduled?", fired, "recovery?") \/ WatchdogLooks("recovery?", recovery, "add")
      BY <1>1, <1>2, <2>2 DEF WatchdogLooks, ScheduleTypes, CheckedMeansCared
  <2>3. CASE WatchdogAdds
    <3> DEFINE new == [NoJobYet EXCEPT !.is = "waiting"]
    <3>1. new \in RecoveryState /\ new.is = "waiting"
        BY DEF NoJobYet, RecoveryState
    <3>2. /\ watchdog' = "rest"
          /\ \/ recovery' = recovery /\ IsLiveJob(recovery[clock.day])
             \/ recovery' = [recovery EXCEPT ![clock.day] = new]
             \/ recovery' = recovery /\ checked' = checked
        BY <2>3 DEF WatchdogAdds
    <3> HIDE DEF new
    <3>q. QED
        BY <1>1, <1>2, <1>3, <3>1, <3>2 DEF ScheduleTypes, CheckedMeansCared, IsLiveJob
  <2>q. QED
      BY <2>1, <2>2, <2>3
<1>5. ScheduleTypes'
    BY <1>1, <1>2, <1>4 DEF ScheduleTypes
<1>6. NothingBeforeItsTime'
    BY <1>1, <1>2, <1>3, <1>4 DEF NothingBeforeItsTime, NotYet
<1>7. WorkHasItsJob' /\ ClaimsAreFinal' /\ UnclaimedNeverRan'
    BY <1>1, <1>2 DEF WorkHasItsJob, ClaimsAreFinal, UnclaimedNeverRan
<1>8. RefreshIsInTime' /\ WatchdogInTime'
    BY <1>1, <1>2, <1>3 DEF RefreshIsInTime, NextDay, WatchdogInTime
<1>q. QED
    BY <1>4, <1>5, <1>6, <1>7, <1>8 DEF ScheduleInv

\* The day of the work at hand has begun.
LEMMA WorkDay ==
    ASSUME ScheduleInv, work.at # "rest"
    PROVE  work.day \in RunDay /\ ~NotYet(work.day)
BY DEF ScheduleInv, ScheduleTypes, WorkState, RunDay, NothingBeforeItsTime

\* A scheduled job that is due begins or is skipped; the next one is registered.
LEMMA TakesScheduledKeeps ==
    ASSUME ScheduleInv, NEW d \in RunDay, TakesScheduled(d)
    PROVE  ScheduleInv'
<1>1. /\ ScheduleTypes /\ NothingBeforeItsTime /\ WorkHasItsJob /\ ClaimsAreFinal
      /\ UnclaimedNeverRan /\ RefreshIsInTime /\ WatchdogInTime /\ CheckedMeansCared
    BY DEF ScheduleInv
<1> DEFINE skipped == Stale(d) \/ ~produced \/ work.at # "rest"
           next == IF scheduler = d THEN Iterated(d) ELSE [fired EXCEPT ![d].is = "active"]
<1>2. /\ clock' = clock /\ recovery' = recovery /\ ledger' = ledger /\ watchdog' = watchdog
      /\ refresh' = refresh /\ produced' = produced /\ ran' = ran
      /\ fired[d].is = "waiting"
      /\ fired' = IF skipped THEN [next EXCEPT ![d].is = "completed"] ELSE next
      /\ scheduler' = IF scheduler = d THEN NextDay ELSE scheduler
      /\ work' = IF skipped THEN work ELSE Begun(d, "scheduled")
      /\ checked' = (checked /\ ~skipped)
    BY DEF TakesScheduled
<1> HIDE DEF skipped
<1>3. NextDay \in Nat /\ NotYet(NextDay) /\ clock.day \in RunDay /\ ~NotYet(d) /\ d # NextDay
    BY <1>1, <1>2, NextIsNotYet DEF NothingBeforeItsTime
<1>4. /\ next \in [RunDay -> ScheduledState] /\ next[d].is = "active"
      /\ next[d].stalled = fired[d].stalled
      /\ \A q \in RunDay : q # d => next[q] = fired[q] \/ (q = NextDay /\ next[q].is = "delayed")
  <2>1. fired \in [RunDay -> ScheduledState] /\ fired[d] \in ScheduledState
      BY <1>1 DEF ScheduleTypes
  <2> DEFINE jobs == IF scheduler = d THEN Scheduled(fired, NextDay) ELSE fired
             new == [jobs[d] EXCEPT !.is = "active"]
  <2>2. next = [jobs EXCEPT ![d] = new]
      BY DEF Iterated
  <2>3. /\ jobs \in [RunDay -> ScheduledState] /\ jobs[d] = fired[d]
        /\ \A q \in RunDay : q # d => jobs[q] = fired[q] \/ (q = NextDay /\ jobs[q].is = "delayed")
      BY <1>3, <2>1, ScheduledJobs
  <2> HIDE DEF jobs
  <2>4. new \in ScheduledState /\ new.is = "active" /\ new.stalled = fired[d].stalled
    <3>1. jobs[d] \in ScheduledState /\ jobs[d].stalled = fired[d].stalled
        BY <2>1, <2>3
    <3>q. QED
        BY <3>1, JobBecomes
  <2> HIDE DEF next, new
  <2>q. QED
      BY <2>2, <2>3, <2>4
<1> HIDE DEF next
<1>5. /\ fired' \in [RunDay -> ScheduledState] /\ fired'[d].stalled = fired[d].stalled
      /\ fired'[d].is = IF skipped THEN "completed" ELSE "active"
      /\ \A q \in RunDay : q # d => fired'[q] = fired[q] \/ (q = NextDay /\ fired'[q].is = "delayed")
  <2>1. CASE ~skipped
      BY <1>2, <1>4, <2>1
  <2>2. CASE skipped
    <3> DEFINE new == [next[d] EXCEPT !.is = "completed"]
    <3>1. fired' = [next EXCEPT ![d] = new]
        BY <1>2, <2>2
    <3>2. new \in ScheduledState /\ new.is = "completed" /\ new.stalled = next[d].stalled
      <4>1. next[d] \in ScheduledState
          BY <1>4
      <4>q. QED
          BY <4>1, JobBecomes
    <3> HIDE DEF new
    <3>q. QED
        BY <1>4, <2>2, <3>1, <3>2
  <2>q. QED
      BY <2>1, <2>2
<1>6. IF skipped THEN work' = work
      ELSE work'.at = "insert" /\ work'.day = d /\ work'.job = "scheduled" /\ work' \in WorkState
  <2>1. Begun(d, "scheduled") \in WorkState
      BY ScheduleAssumption DEF Begun, WorkState, RunDay
  <2>q. QED
      BY <1>2, <2>1 DEF Begun
<1>7. ScheduleTypes'
  <2>1. d # 0
      BY DEF RunDay
  <2>q. QED
      BY <1>1, <1>2, <1>3, <1>5, <1>6, <2>1 DEF ScheduleTypes
<1>8. \A q : NotYet(q)' <=> NotYet(q)
    BY <1>2 DEF NotYet
<1>9. NothingBeforeItsTime'
    BY <1>1, <1>2, <1>3, <1>5, <1>6, <1>8 DEF NothingBeforeItsTime
<1>10. WorkHasItsJob'
  <2>1. CASE skipped
    <3>1. work.at # "rest" => work.day \in RunDay /\ work.day # NextDay
        BY <1>3, WorkDay
    <3>q. QED
        BY <1>1, <1>2, <1>5, <1>6, <2>1, <3>1 DEF WorkHasItsJob
  <2>2. CASE ~skipped
      BY <1>5, <1>6, <2>2 DEF WorkHasItsJob
  <2>q. QED
      BY <2>1, <2>2
<1>11. ClaimsAreFinal'
  <2>1. NextDay \in RunDay => ledger[NextDay].job = "none"
      BY <1>1, <1>3 DEF NothingBeforeItsTime, NoRow
  <2>2. ledger[d].job = "scheduled" => fired[d].stalled
      BY <1>1, <1>2 DEF ClaimsAreFinal
  <2>q. QED
      BY <1>1, <1>2, <1>5, <2>1, <2>2 DEF ClaimsAreFinal
<1>12. UnclaimedNeverRan' /\ WatchdogInTime'
    BY <1>1, <1>2 DEF UnclaimedNeverRan, WatchdogInTime
<1>13. RefreshIsInTime'
    BY <1>1, <1>2 DEF RefreshIsInTime, NextDay
<1>14. CheckedMeansCared'
  <2> SUFFICES ASSUME produced, checked, ~skipped, ledger[clock.day].is \in Unstarted
               PROVE  IsLiveJob(fired'[clock.day]) \/ IsLiveJob(recovery[clock.day]) \/ work'.day = clock.day
      BY <1>2 DEF CheckedMeansCared
  <2>1. work.day = 0 /\ clock.day # 0
      BY <1>1, <1>3 DEF ScheduleTypes, skipped, RunDay
  <2>2. IsLiveJob(fired[clock.day]) \/ IsLiveJob(recovery[clock.day])
      BY <1>1, <2>1 DEF CheckedMeansCared
  <2>3. CASE clock.day = d
      BY <1>6, <2>3
  <2>4. CASE clock.day # d
      BY <1>3, <1>5, <2>2, <2>4 DEF IsLiveJob
  <2>q. QED
      BY <2>3, <2>4
<1>q. QED
    BY <1>7, <1>9, <1>10, <1>11, <1>12, <1>13, <1>14 DEF ScheduleInv

\* A recovery job begins or is skipped.
LEMMA TakesRecoveryKeeps ==
    ASSUME ScheduleInv, NEW d \in RunDay, TakesRecovery(d)
    PROVE  ScheduleInv'
<1>1. /\ ScheduleTypes /\ NothingBeforeItsTime /\ WorkHasItsJob /\ ClaimsAreFinal
      /\ UnclaimedNeverRan /\ RefreshIsInTime /\ WatchdogInTime /\ CheckedMeansCared
    BY DEF ScheduleInv
<1> DEFINE skipped == ~produced \/ work.at # "rest"
           new == IF skipped THEN NoJobYet ELSE [recovery[d] EXCEPT !.is = "active"]
<1>2. /\ clock' = clock /\ scheduler' = scheduler /\ fired' = fired /\ ledger' = ledger
      /\ watchdog' = watchdog /\ refresh' = refresh /\ produced' = produced /\ ran' = ran
      /\ recovery[d].is = "waiting"
      /\ recovery' = [recovery EXCEPT ![d] = new]
      /\ work' = IF skipped THEN work ELSE Begun(d, "recovery")
      /\ checked' = (checked /\ ~skipped)
    BY DEF TakesRecovery
<1>3. clock.day \in RunDay /\ ~NotYet(d)
    BY <1>1, <1>2, NextIsNotYet DEF NothingBeforeItsTime
<1>4. new \in RecoveryState /\ (~skipped => new.is = "active")
  <2>1. recovery[d] \in RecoveryState
      BY <1>1 DEF ScheduleTypes
  <2>q. QED
      BY <2>1, NoJobYetIs DEF RecoveryState
<1> HIDE DEF skipped, new
<1>5. recovery' \in [RunDay -> RecoveryState] /\ \A q \in RunDay : q # d => recovery'[q] = recovery[q]
    BY <1>1, <1>2, <1>4 DEF ScheduleTypes
<1>6. IF skipped THEN work' = work
      ELSE work'.at = "insert" /\ work'.day = d /\ work'.job = "recovery" /\ work' \in WorkState
  <2>1. Begun(d, "recovery") \in WorkState
      BY ScheduleAssumption DEF Begun, WorkState, RunDay
  <2>q. QED
      BY <1>2, <2>1 DEF Begun
<1>7. ScheduleTypes'
  <2>1. d # 0
      BY DEF RunDay
  <2>q. QED
      BY <1>1, <1>2, <1>5, <1>6, <2>1 DEF ScheduleTypes
<1>8. \A q : NotYet(q)' <=> NotYet(q)
    BY <1>2 DEF NotYet
<1>9. NothingBeforeItsTime'
    BY <1>1, <1>2, <1>3, <1>5, <1>6, <1>8 DEF NothingBeforeItsTime
<1>10. WorkHasItsJob' /\ ClaimsAreFinal'
    BY <1>1, <1>2, <1>6 DEF WorkHasItsJob, ClaimsAreFinal
<1>11. UnclaimedNeverRan' /\ WatchdogInTime' /\ RefreshIsInTime'
    BY <1>1, <1>2 DEF UnclaimedNeverRan, WatchdogInTime, RefreshIsInTime, NextDay
<1>12. CheckedMeansCared'
  <2> SUFFICES ASSUME produced, checked, ~skipped, ledger[clock.day].is \in Unstarted
               PROVE  IsLiveJob(fired[clock.day]) \/ IsLiveJob(recovery'[clock.day]) \/ work'.day = clock.day
      BY <1>2 DEF CheckedMeansCared
  <2>1. work.day = 0 /\ clock.day # 0
      BY <1>1, <1>3 DEF ScheduleTypes, skipped, RunDay
  <2>2. IsLiveJob(fired[clock.day]) \/ IsLiveJob(recovery[clock.day])
      BY <1>1, <2>1 DEF CheckedMeansCared
  <2>q. QED
      BY <1>3, <1>5, <1>6, <2>2
<1>q. QED
    BY <1>7, <1>9, <1>10, <1>11, <1>12 DEF ScheduleInv

\* The work at hand ends, and its job with it.
LEMMA JobEnds ==
    ASSUME ScheduleInv, work.at # "rest", NEW is \in {"completed", "failed"}, JobEndsAs(is)
    PROVE  /\ fired' \in [RunDay -> ScheduledState] /\ recovery' \in [RunDay -> RecoveryState]
           /\ \A d \in RunDay : d # work.day => fired'[d] = fired[d] /\ recovery'[d] = recovery[d]
           /\ \/ fired'[work.day] = fired[work.day]
              \/ fired'[work.day].is = is /\ fired'[work.day].stalled = fired[work.day].stalled
           /\ work' \in WorkState /\ work'.at = "rest" /\ work'.day = 0
<1>1. work.day \in RunDay /\ fired \in [RunDay -> ScheduledState] /\ recovery \in [RunDay -> RecoveryState]
    BY WorkDay DEF ScheduleInv, ScheduleTypes
<1> DEFINE new == [fired[work.day] EXCEPT !.is = is]
<1>2. new \in ScheduledState /\ new.is = is /\ new.stalled = fired[work.day].stalled
  <2>1. fired[work.day] \in ScheduledState
      BY <1>1
  <2>2. is \in {"none", "delayed", "waiting", "active", "completed", "failed"}
      OBVIOUS
  <2>q. QED
      BY <2>1, <2>2, JobBecomes
<1>3. /\ fired' = fired \/ fired' = [fired EXCEPT ![work.day] = new]
      /\ recovery' = recovery \/ recovery' = [recovery EXCEPT ![work.day] = NoJobYet]
      /\ work' = NoWork
    BY DEF JobEndsAs
<1> HIDE DEF new
<1>4. NoWork \in WorkState /\ NoWork.at = "rest" /\ NoWork.day = 0
    BY ScheduleAssumption DEF NoWork, WorkState
<1>q. QED
    BY <1>1, <1>2, <1>3, <1>4, NoJobYetIs

\* The claim of a row, and what the run writes in it.
LEMMA RunKeeps ==
    ASSUME ScheduleInv,
           \/ ClaimInserts \/ ClaimReadsRow \/ ClaimUpdates \/ RunFinishes \/ CoverageFinishes \/ RunThrows
    PROVE  ScheduleInv'
<1>1. /\ ScheduleTypes /\ NothingBeforeItsTime /\ WorkHasItsJob /\ ClaimsAreFinal
      /\ UnclaimedNeverRan /\ RefreshIsInTime /\ WatchdogInTime /\ CheckedMeansCared
    BY DEF ScheduleInv
<1> DEFINE d == work.day
<1>2. /\ work.at # "rest" /\ clock' = clock /\ scheduler' = scheduler /\ watchdog' = watchdog
      /\ refresh' = refresh /\ produced' = produced /\ checked' = checked
    BY DEF ClaimInserts, ClaimReadsRow, ClaimUpdates, RunFinishes, CoverageFinishes, RunThrows
<1>3. d \in RunDay /\ ~NotYet(d) /\ ledger[d] \in RunRow /\ clock.day \in RunDay
    BY <1>1, <1>2, WorkDay DEF ScheduleTypes
<1>4. \A at \in {"insert", "read", "update", "sync", "coverage"} :
         /\ [work EXCEPT !.at = at] \in WorkState /\ [work EXCEPT !.at = at].at = at
         /\ [work EXCEPT !.at = at].day = d /\ [work EXCEPT !.at = at].job = work.job
    BY <1>1 DEF ScheduleTypes, WorkState
<1> HIDE DEF d
\* What the step does to the row of the day, to its jobs and to the work.
<1>5. /\ ledger' \in [RunDay -> RunRow] /\ \A q \in RunDay : q # d => ledger'[q] = ledger[q]
      /\ fired' \in [RunDay -> ScheduledState] /\ recovery' \in [RunDay -> RecoveryState]
      /\ \A q \in RunDay : q # d => fired'[q] = fired[q] /\ recovery'[q] = recovery[q]
      /\ \/ fired'[d] = fired[d]
         \/ /\ fired'[d].is \in {"completed", "failed"} /\ fired'[d].stalled = fired[d].stalled
            /\ fired'[d].is = "completed" => ledger'[d].is # "running"
      /\ work' \in WorkState
      /\ \/ work'.at # "rest" /\ work'.day = d /\ work'.job = work.job /\ fired' = fired
         \/ work'.at = "rest" /\ work'.day = 0 /\ ledger'[d].is \notin Unstarted
      /\ \/ ledger'[d].is = ledger[d].is /\ ledger'[d].job = ledger[d].job /\ ran' = ran
         \/ /\ ledger[d].is = "absent" /\ ledger'[d].is = "pending" /\ ledger'[d].job = "none"
            /\ ran' = ran
         \/ /\ ledger'[d].is = "running" /\ ledger'[d].job = work.job /\ fired' = fired
            /\ ran' = ran \union {d}
         \/ /\ ledger'[d].is \in {"completed", "partial", "failed"}
            /\ ledger'[d].job = ledger[d].job
            /\ ran' = ran
  <2>0. fired \in [RunDay -> ScheduledState] /\ recovery \in [RunDay -> RecoveryState]
        /\ ledger \in [RunDay -> RunRow]
      BY <1>1 DEF ScheduleTypes
  <2>1. CASE ClaimInserts
    <3> DEFINE new == [NoRow EXCEPT !.is = "pending"]
    <3>1. new \in RunRow /\ new.is = "pending" /\ new.job = "none"
        BY DEF NoRow, RunRow
    <3>2. /\ fired' = fired /\ recovery' = recovery /\ ran' = ran
          /\ work' = [work EXCEPT !.at = "read"]
          /\ ledger' = IF ledger[d].is = "absent" THEN [ledger EXCEPT ![d] = new] ELSE ledger
        BY <2>1 DEF ClaimInserts, d
    <3> HIDE DEF new
    <3>q. QED
        BY <1>3, <1>4, <2>0, <3>1, <3>2
  <2>2. CASE ClaimReadsRow
    <3>1. ledger' = ledger /\ ran' = ran
        BY <2>2 DEF ClaimReadsRow
    <3>2. CASE ledger[d].is \in NotClaimable
      <4>1. JobEndsAs("completed")
          BY <2>2, <3>2 DEF ClaimReadsRow, d
      <4>q. QED
          BY <1>2, <2>0, <3>1, <3>2, <4>1, JobEnds DEF NotClaimable, Unstarted, d
    <3>3. CASE ledger[d].is \notin NotClaimable
      <4>1. work' = [work EXCEPT !.at = "update"] /\ fired' = fired /\ recovery' = recovery
          BY <2>2, <3>3 DEF ClaimReadsRow, d
      <4>q. QED
          BY <1>4, <2>0, <3>1, <4>1
    <3>q. QED
        BY <3>2, <3>3
  <2>3. CASE ClaimUpdates
    <3> DEFINE new == [is |-> "running", job |-> work.job]
    <3>1. new \in RunRow /\ new.is = "running" /\ new.job = work.job
        BY <1>1 DEF RunRow, ScheduleTypes, WorkState
    <3>2. /\ fired' = fired /\ recovery' = recovery /\ ran' = ran \union {d}
          /\ work' = [work EXCEPT !.at = "sync"] /\ ledger' = [ledger EXCEPT ![d] = new]
        BY <2>3 DEF ClaimUpdates, d
    <3> HIDE DEF new
    <3>q. QED
        BY <1>3, <1>4, <2>0, <3>1, <3>2
  <2>4. ASSUME NEW is \in {"completed", "partial", "failed"}, ledger' = [ledger EXCEPT ![d].is = is]
        PROVE  /\ ledger' \in [RunDay -> RunRow] /\ \A q \in RunDay : q # d => ledger'[q] = ledger[q]
               /\ ledger'[d].is = is /\ ledger'[d].job = ledger[d].job
    <3> DEFINE new == [ledger[d] EXCEPT !.is = is]
    <3>1. new \in RunRow /\ new.is = is /\ new.job = ledger[d].job
      <4>1. is \in {"absent", "pending", "queued", "running", "completed", "partial", "failed", "missed"}
          OBVIOUS
      <4>q. QED
          BY <1>3, <4>1, RowBecomes
    <3>2. ledger' = [ledger EXCEPT ![d] = new]
        BY <2>4
    <3> HIDE DEF new
    <3>q. QED
        BY <1>3, <2>0, <3>1, <3>2
  <2>5. CASE RunFinishes
    <3>1. PICK is \in {"completed", "partial"} : ledger' = [ledger EXCEPT ![d].is = is]
        BY <2>5 DEF RunFinishes, d
    <3>2. /\ fired' = fired /\ recovery' = recovery /\ ran' = ran
          /\ work' = [work EXCEPT !.at = "coverage"]
        BY <2>5 DEF RunFinishes
    <3>q. QED
        BY <1>4, <2>0, <2>4, <3>1, <3>2
  <2>6. CASE CoverageFinishes
    <3>1. PICK is \in {"completed", "partial"} : ledger' = [ledger EXCEPT ![d].is = is]
        BY <2>6 DEF CoverageFinishes, d
    <3>2. JobEndsAs("completed") /\ ran' = ran
        BY <2>6 DEF CoverageFinishes
    <3>q. QED
        BY <1>2, <2>4, <3>1, <3>2, JobEnds DEF Unstarted, d
  <2>7. CASE RunThrows
    <3>1. ledger' = [ledger EXCEPT ![d].is = "failed"] /\ JobEndsAs("failed") /\ ran' = ran
        BY <2>7 DEF RunThrows, d
    <3>q. QED
        BY <1>2, <2>4, <3>1, JobEnds DEF Unstarted, d
  <2>q. QED
      BY <2>1, <2>2, <2>3, <2>5, <2>6, <2>7
<1>6. ScheduleTypes'
  <2>1. d # 0
      BY <1>3 DEF RunDay
  <2>q. QED
      BY <1>1, <1>2, <1>5, <2>1 DEF ScheduleTypes
<1>7. NothingBeforeItsTime'
  <2>1. 0 \notin RunDay /\ \A q : NotYet(q)' <=> NotYet(q)
      BY <1>2 DEF NotYet, RunDay
  <2>q. QED
      BY <1>1, <1>3, <1>5, <2>1 DEF NothingBeforeItsTime
<1>8. WorkHasItsJob'
    BY <1>1, <1>2, <1>5 DEF WorkHasItsJob, d
<1>9. ClaimsAreFinal'
  <2> SUFFICES ASSUME NEW q \in RunDay, ledger'[q].job = "scheduled"
               PROVE  \/ fired'[q].stalled \/ fired'[q].is \in {"none", "active", "failed"}
                      \/ fired'[q].is = "completed" /\ ledger'[q].is # "running"
      BY DEF ClaimsAreFinal
  <2>1. CASE q # d
      BY <1>1, <1>5, <2>1 DEF ClaimsAreFinal
  <2>2. CASE q = d /\ fired'[d] # fired[d]
      BY <1>5, <2>2
  <2>3. CASE q = d /\ fired'[d] = fired[d] /\ ledger'[d].job = ledger[d].job /\ ledger'[d].is # "running"
      BY <1>1, <2>3 DEF ClaimsAreFinal
  <2>4. CASE q = d /\ fired'[d] = fired[d] /\ ledger'[d].is = "running" /\ ledger[d].is = "running"
             /\ ledger'[d].job = ledger[d].job
      BY <1>1, <2>4 DEF ClaimsAreFinal
  <2>5. CASE q = d /\ fired' = fired /\ ledger'[d].job = work.job
      BY <1>1, <1>2, <2>5 DEF WorkHasItsJob, d
  <2>q. QED
      BY <1>5, <2>1, <2>2, <2>3, <2>4, <2>5
<1>10. UnclaimedNeverRan'
  <2> SUFFICES ASSUME NEW q \in RunDay, ledger'[q].is \in {"absent", "pending", "queued", "missed"}
               PROVE  q \notin ran'
      BY DEF UnclaimedNeverRan
  <2>q. QED
      BY <1>1, <1>5 DEF UnclaimedNeverRan
<1>11. RefreshIsInTime' /\ WatchdogInTime'
    BY <1>1, <1>2 DEF RefreshIsInTime, NextDay, WatchdogInTime
<1>12. CheckedMeansCared'
  <2> SUFFICES ASSUME produced, checked, ledger'[clock.day].is \in Unstarted
               PROVE  IsLiveJob(fired'[clock.day]) \/ IsLiveJob(recovery'[clock.day]) \/ work'.day = clock.day
      BY <1>2 DEF CheckedMeansCared
  <2>1. CASE clock.day = d
      BY <1>5, <2>1
  <2>2. CASE clock.day # d
      BY <1>1, <1>3, <1>5, <2>2 DEF CheckedMeansCared, d
  <2>q. QED
      BY <2>1, <2>2
<1>q. QED
    BY <1>6, <1>7, <1>8, <1>9, <1>10, <1>11, <1>12 DEF ScheduleInv

\* Rows are marked as missed, or as failed by the list.
LEMMA RowsKept ==
    ASSUME ScheduleInv, MarksMissed \/ \E d \in RunDay : ListsOrphan(d)
    PROVE  ScheduleInv'
<1>1. /\ ScheduleTypes /\ NothingBeforeItsTime /\ WorkHasItsJob /\ ClaimsAreFinal
      /\ UnclaimedNeverRan /\ RefreshIsInTime /\ WatchdogInTime /\ CheckedMeansCared
    BY DEF ScheduleInv
<1>2. /\ clock' = clock /\ scheduler' = scheduler /\ fired' = fired /\ recovery' = recovery
      /\ work' = work /\ watchdog' = watchdog /\ refresh' = refresh /\ produced' = produced
      /\ checked' = checked /\ ran' = ran
    BY DEF MarksMissed, ListsOrphan
<1>3. /\ ledger' \in [RunDay -> RunRow]
      /\ \A q \in RunDay :
            \/ ledger'[q] = ledger[q]
            \/ /\ ledger'[q].job = ledger[q].job
               /\ \/ ledger[q].is \in {"queued", "running"} /\ ledger'[q].is = "failed"
                  \/ ledger[q].is \in Missable /\ ledger'[q].is = "missed"
  <2>0. \A q \in RunDay : ledger[q] \in RunRow
      BY <1>1 DEF ScheduleTypes
  <2>1. CASE MarksMissed
    <3> DEFINE late == {d \in RunDay : d < clock.day /\ ledger[d].is \in Missable}
    <3>1. ledger' = [d \in RunDay |-> IF d \in late THEN [ledger[d] EXCEPT !.is = "missed"] ELSE ledger[d]]
        BY <2>1 DEF MarksMissed
    <3>q. QED
        BY <2>0, <3>1, RowBecomes
  <2>2. CASE \E d \in RunDay : ListsOrphan(d)
    <3>1. PICK d \in RunDay : ledger[d].is \in {"queued", "running"} /\ ledger' = [ledger EXCEPT ![d].is = "failed"]
        BY <2>2 DEF ListsOrphan, Orphaned
    <3> DEFINE new == [ledger[d] EXCEPT !.is = "failed"]
    <3>2. new \in RunRow /\ new.is = "failed" /\ new.job = ledger[d].job
        BY <2>0, RowBecomes
    <3>3. ledger' = [ledger EXCEPT ![d] = new]
        BY <3>1
    <3> HIDE DEF new
    <3>q. QED
        BY <1>1, <3>1, <3>2, <3>3 DEF ScheduleTypes
  <2>q. QED
      BY <2>1, <2>2
<1>4. ScheduleTypes'
    BY <1>1, <1>2, <1>3 DEF ScheduleTypes
<1>5. NothingBeforeItsTime'
  <2>1. \A q : NotYet(q)' <=> NotYet(q)
      BY <1>2 DEF NotYet
  <2>q. QED
      BY <1>1, <1>2, <1>3, <2>1 DEF NothingBeforeItsTime, NoRow, Missable
<1>6. WorkHasItsJob' /\ ClaimsAreFinal' /\ UnclaimedNeverRan'
    BY <1>1, <1>2, <1>3 DEF WorkHasItsJob, ClaimsAreFinal, UnclaimedNeverRan, Missable
<1>7. RefreshIsInTime' /\ WatchdogInTime'
    BY <1>1, <1>2 DEF RefreshIsInTime, NextDay, WatchdogInTime
<1>8. CheckedMeansCared'
  <2>1. clock.day \in RunDay
      BY <1>1 DEF ScheduleTypes
  <2>q. QED
      BY <1>1, <1>2, <1>3, <2>1 DEF CheckedMeansCared, Unstarted
<1>q. QED
    BY <1>4, <1>5, <1>6, <1>7, <1>8 DEF ScheduleInv

\* Time passes: a part of the day ends, or the day.
LEMMA TimeKeeps ==
    ASSUME ScheduleInv, TimePasses
    PROVE  ScheduleInv'
<1>1. /\ ScheduleTypes /\ NothingBeforeItsTime /\ WorkHasItsJob /\ ClaimsAreFinal
      /\ UnclaimedNeverRan /\ RefreshIsInTime /\ WatchdogInTime /\ CheckedMeansCared
    BY DEF ScheduleInv
<1>2. /\ scheduler' = scheduler /\ recovery' = recovery /\ ledger' = ledger /\ watchdog' = watchdog
      /\ refresh' = refresh /\ produced' = produced /\ ran' = ran
      /\ watchdog = "rest" /\ refresh.at = "rest"
    BY DEF TimePasses
<1>3. clock.day \in RunDay /\ clock.part \in 1..4 /\ Len(Parts) = 4
    BY <1>1, Windows DEF ScheduleTypes
<1>4. work' \in WorkState /\ work'.at = work.at /\ work'.day = work.day /\ work'.job = work.job
  <2> DEFINE early == work.early /\ clock.part # 1
  <2>1. work' = [work EXCEPT !.early = early]
      BY DEF TimePasses
  <2>2. early \in BOOLEAN
      BY <1>1 DEF ScheduleTypes, WorkState
  <2> HIDE DEF early
  <2>q. QED
      BY <1>1, <2>1, <2>2 DEF ScheduleTypes, WorkState
<1>5. \/ /\ clock.part < 4 /\ clock'.day = clock.day /\ clock'.part = clock.part + 1
         /\ checked' = checked
         /\ fired' = fired \/ (clock.part = 1 /\ fired' = Due(clock.day))
      \/ /\ clock.part = 4 /\ clock'.day = clock.day + 1 /\ clock'.part = 1 /\ clock'.day \in RunDay
         /\ checked' = FALSE /\ fired' = fired
  <2>1. CASE clock.part < Len(Parts) /\ clock' = [clock EXCEPT !.part = @ + 1]
    <3>1. clock'.day = clock.day /\ clock'.part = clock.part + 1
        BY <1>1, <2>1 DEF ScheduleTypes
    <3>q. QED
        BY <1>3, <2>1, <3>1 DEF TimePasses
  <2>2. CASE clock.part = Len(Parts) /\ clock.day < LastRunDay /\ clock' = [day |-> clock.day + 1, part |-> 1]
    <3>1. clock'.day = clock.day + 1 /\ clock'.part = 1 /\ clock'.day \in RunDay
        BY <1>3, <2>2, ScheduleAssumption DEF RunDay
    <3>q. QED
        BY <1>3, <2>2, <3>1 DEF TimePasses
  <2>q. QED
      BY <2>1, <2>2 DEF TimePasses
<1>6. clock' \in [day : RunDay, part : 1..4]
  <2>1. \/ clock' = [clock EXCEPT !.part = @ + 1]
        \/ clock' = [day |-> clock.day + 1, part |-> 1]
      BY DEF TimePasses
  <2>2. clock'.day \in RunDay /\ clock'.part \in 1..4
      BY <1>3, <1>5
  <2>3. clock' = [day |-> clock'.day, part |-> clock'.part]
      BY <1>1, <2>1 DEF ScheduleTypes
  <2>q. QED
      BY <2>2, <2>3
<1>7. /\ fired' \in [RunDay -> ScheduledState]
      /\ \A d \in RunDay :
            \/ fired'[d] = fired[d]
            \/ /\ d = clock.day /\ fired[d].is = "delayed" /\ fired'[d].is = "waiting"
               /\ fired'[d].stalled = fired[d].stalled
  <2>1. fired \in [RunDay -> ScheduledState] /\ fired[clock.day] \in ScheduledState
      BY <1>1, <1>3 DEF ScheduleTypes
  <2> DEFINE new == [fired[clock.day] EXCEPT !.is = "waiting"]
  <2>2. new \in ScheduledState /\ new.is = "waiting" /\ new.stalled = fired[clock.day].stalled
      BY <2>1, JobBecomes
  <2>3. \/ fired' = fired
        \/ fired[clock.day].is = "delayed" /\ fired' = [fired EXCEPT ![clock.day] = new]
      BY <1>5 DEF Due
  <2> HIDE DEF new
  <2>q. QED
      BY <1>3, <2>1, <2>2, <2>3
<1>8. \A d \in RunDay : NotYet(d)' => NotYet(d) /\ (d = clock.day => FALSE)
    BY <1>3, <1>5 DEF NotYet, RunDay
<1>9. ScheduleTypes'
    BY <1>1, <1>2, <1>4, <1>6, <1>7 DEF ScheduleTypes
<1>10. NothingBeforeItsTime'
    BY <1>1, <1>2, <1>4, <1>7, <1>8 DEF NothingBeforeItsTime
<1>11. WorkHasItsJob'
  <2>1. work.at # "rest" => work.day \in RunDay
      BY WorkDay
  <2>q. QED
      BY <1>1, <1>4, <1>7, <2>1 DEF WorkHasItsJob
<1>12. ClaimsAreFinal'
    BY <1>1, <1>2, <1>7 DEF ClaimsAreFinal
<1>13. UnclaimedNeverRan' /\ RefreshIsInTime' /\ WatchdogInTime'
  <2>1. WatchdogInTime'
      BY <1>1, <1>2, <1>3, <1>5 DEF WatchdogInTime
  <2>q. QED
      BY <1>1, <1>2, <2>1 DEF UnclaimedNeverRan, RefreshIsInTime
<1>14. CheckedMeansCared'
  <2> SUFFICES ASSUME produced, checked', ledger[clock'.day].is \in Unstarted
               PROVE  \/ IsLiveJob(fired'[clock'.day]) \/ IsLiveJob(recovery[clock'.day])
                      \/ work'.day = clock'.day
      BY <1>2 DEF CheckedMeansCared
  <2>1. checked' = checked /\ clock'.day = clock.day
      BY <1>5
  <2>q. QED
      BY <1>1, <1>3, <1>4, <1>7, <2>1 DEF CheckedMeansCared, IsLiveJob
<1>q. QED
    BY <1>9, <1>10, <1>11, <1>12, <1>13, <1>14 DEF ScheduleInv

\* A crash, the loss of Redis, an exchange that comes or goes.
LEMMA MishapKeeps ==
    ASSUME ScheduleInv, ScheduleWorkerDies \/ RedisFlushed \/ UniverseChanges
    PROVE  ScheduleInv'
<1>1. /\ ScheduleTypes /\ NothingBeforeItsTime /\ WorkHasItsJob /\ ClaimsAreFinal
      /\ UnclaimedNeverRan /\ RefreshIsInTime /\ WatchdogInTime /\ CheckedMeansCared
    BY DEF ScheduleInv
<1>2. clock' = clock /\ ledger' = ledger /\ ran' = ran /\ checked' = FALSE
    BY DEF ScheduleWorkerDies, RedisFlushed, UniverseChanges
<1>3. /\ fired' \in [RunDay -> ScheduledState] /\ recovery' \in [RunDay -> RecoveryState]
      /\ scheduler' \in {scheduler, 0}
      /\ \/ work' = NoWork /\ watchdog' = "rest" /\ refresh' = [at |-> "rest", saw |-> 0]
         \/ work' = work /\ watchdog' = watchdog /\ refresh' = refresh
            /\ (fired' = fired \/ \A d \in RunDay : fired'[d] = NoJobYet)
      /\ \A d \in RunDay : recovery[d].is = "none" => recovery'[d].is = "none"
      /\ \A d \in RunDay :
            \/ fired'[d] = fired[d] \/ fired'[d] = NoJobYet
            \/ fired[d].is = "active" /\ (fired'[d].is = "failed" \/ fired'[d].stalled)
  <2>0. /\ fired \in [RunDay -> ScheduledState] /\ recovery \in [RunDay -> RecoveryState]
        /\ \A d \in RunDay : fired[d] \in ScheduledState /\ recovery[d] \in RecoveryState
      BY <1>1 DEF ScheduleTypes
  <2>1. CASE ScheduleWorkerDies
    <3> DEFINE again == [is |-> "waiting", stalled |-> TRUE]
    <3>0. again \in ScheduledState /\ again \in RecoveryState /\ again.stalled = TRUE /\ again.is = "waiting"
        BY DEF ScheduledState, RecoveryState
    <3>1. /\ fired' = [d \in RunDay |-> AfterCrash(fired[d])]
          /\ recovery' = [d \in RunDay |-> IF AfterCrash(recovery[d]).is = "failed" THEN NoJobYet
                                           ELSE AfterCrash(recovery[d])]
          /\ work' = NoWork /\ watchdog' = "rest" /\ refresh' = [at |-> "rest", saw |-> 0]
          /\ scheduler' = scheduler
        BY <2>1 DEF ScheduleWorkerDies
    <3>2. ASSUME NEW d \in RunDay
          PROVE  /\ AfterCrash(fired[d]) \in ScheduledState
                 /\ \/ AfterCrash(fired[d]) = fired[d]
                    \/ /\ fired[d].is = "active"
                       /\ AfterCrash(fired[d]).is = "failed" \/ AfterCrash(fired[d]).stalled
      <4> DEFINE failed == [fired[d] EXCEPT !.is = "failed"]
      <4>1. failed \in ScheduledState /\ failed.is = "failed"
          BY <2>0, JobBecomes
      <4>2. \/ AfterCrash(fired[d]) = fired[d]
            \/ fired[d].is = "active" /\ AfterCrash(fired[d]) \in {failed, again}
          BY DEF AfterCrash
      <4> HIDE DEF failed, again
      <4>q. QED
          BY <2>0, <3>0, <4>1, <4>2
    <3>3. ASSUME NEW d \in RunDay
          PROVE  /\ recovery'[d] \in RecoveryState
                 /\ recovery[d].is = "none" => recovery'[d].is = "none"
      <4> DEFINE after == AfterCrash(recovery[d])
      <4>1. recovery'[d] = IF after.is = "failed" THEN NoJobYet ELSE after
          BY <3>1
      <4>2. \/ recovery[d].is # "active" /\ after = recovery[d]
            \/ recovery[d].is = "active" /\ after \in {[recovery[d] EXCEPT !.is = "failed"], again}
          BY DEF AfterCrash
      <4>3. [recovery[d] EXCEPT !.is = "failed"].is = "failed"
          BY <2>0 DEF RecoveryState
      <4> HIDE DEF after, again
      <4>q. QED
          BY <2>0, <3>0, <4>1, <4>2, <4>3, NoJobYetIs
    <3>4. recovery' \in [RunDay -> RecoveryState]
        BY <3>1, <3>3
    <3>q. QED
        BY <3>1, <3>2, <3>3, <3>4
  <2>2. CASE RedisFlushed
      BY <2>0, <2>2, NoJobYetIs DEF RedisFlushed
  <2>3. CASE UniverseChanges
      BY <2>0, <2>3 DEF UniverseChanges
  <2>q. QED
      BY <2>1, <2>2, <2>3
<1>4. NoWork \in WorkState /\ NoWork.at = "rest" /\ NoWork.day = 0
    BY ScheduleAssumption DEF NoWork, WorkState
<1>5. ScheduleTypes'
    BY <1>1, <1>2, <1>3, <1>4 DEF ScheduleTypes
<1>6. NothingBeforeItsTime'
  <2>1. 0 \notin RunDay /\ \A q : NotYet(q)' <=> NotYet(q)
      BY <1>2 DEF NotYet, RunDay
  <2>q. QED
      BY <1>1, <1>2, <1>3, <1>4, <2>1, NoJobYetIs DEF NothingBeforeItsTime
<1>7. WorkHasItsJob'
  <2>1. work.at # "rest" => work.day \in RunDay
      BY WorkDay
  <2>q. QED
      BY <1>1, <1>3, <1>4, <2>1, NoJobYetIs DEF WorkHasItsJob
<1>8. ClaimsAreFinal' /\ UnclaimedNeverRan'
    BY <1>1, <1>2, <1>3, NoJobYetIs DEF ClaimsAreFinal, UnclaimedNeverRan
<1>9. RefreshIsInTime' /\ WatchdogInTime' /\ CheckedMeansCared'
    BY <1>1, <1>2, <1>3 DEF RefreshIsInTime, NextDay, WatchdogInTime, CheckedMeansCared
<1>q. QED
    BY <1>5, <1>6, <1>7, <1>8, <1>9 DEF ScheduleInv

\* Every step keeps the invariant.
LEMMA ScheduleInvHolds ==
    ASSUME ScheduleInv, [ScheduleNext]_scheduleVars
    PROVE  ScheduleInv'
<1>1. CASE ScheduleNext
    BY <1>1, RefreshKeeps, WatchdogKeeps, TakesScheduledKeeps, TakesRecoveryKeeps, RunKeeps, RowsKept,
       TimeKeeps, MishapKeeps DEF ScheduleNext
<1>2. CASE UNCHANGED scheduleVars
    BY <1>2 DEF scheduleVars, ScheduleInv, ScheduleTypes, NothingBeforeItsTime, NotYet, WorkHasItsJob,
                ClaimsAreFinal, UnclaimedNeverRan, RefreshIsInTime, NextDay, WatchdogInTime,
                CheckedMeansCared
<1>q. QED
    BY <1>1, <1>2

\* It holds in the beginning, before the first scheduled time.
LEMMA ScheduleInvStarts ==
    ASSUME ScheduleInit
    PROVE  ScheduleInv
<1>1. NoRow \in RunRow /\ NoRow.is = "absent" /\ NoRow.job = "none"
    BY DEF NoRow, RunRow
<1>2. NoWork \in WorkState /\ NoWork.at = "rest" /\ NoWork.day = 0 /\ 0 \notin RunDay /\ 1 \in RunDay
    BY ScheduleAssumption DEF NoWork, WorkState, RunDay
<1>3. ScheduleTypes
    BY <1>1, <1>2, NoJobYetIs DEF ScheduleInit, ScheduleTypes
<1>4. NothingBeforeItsTime /\ WorkHasItsJob /\ ClaimsAreFinal
    BY <1>1, <1>2, NoJobYetIs DEF ScheduleInit, NothingBeforeItsTime, WorkHasItsJob, ClaimsAreFinal
<1>5. UnclaimedNeverRan /\ RefreshIsInTime /\ WatchdogInTime /\ CheckedMeansCared
    BY DEF ScheduleInit, UnclaimedNeverRan, RefreshIsInTime, WatchdogInTime, CheckedMeansCared
<1>q. QED
    BY <1>3, <1>4, <1>5 DEF ScheduleInv

\* A completed row changes only by the work of its day.
LEMMA CompletedStays ==
    ASSUME ScheduleInv, [ScheduleNext]_scheduleVars
    PROVE  CompletedIsNotRunAgain
<1> SUFFICES ASSUME NEW d \in RunDay, ledger[d].is = "completed", work.day # d, ledger'[d] # ledger[d]
             PROVE  FALSE
    BY DEF CompletedIsNotRunAgain
<1>1. ledger \in [RunDay -> RunRow]
    BY DEF ScheduleInv, ScheduleTypes
<1>2. ASSUME NEW f, ledger' = [ledger EXCEPT ![work.day] = f]
      PROVE  FALSE
    BY <1>1, <1>2
<1>3. CASE ClaimInserts \/ ClaimUpdates \/ RunFinishes \/ CoverageFinishes \/ RunThrows
    BY <1>2, <1>3 DEF ClaimInserts, ClaimUpdates, RunFinishes, CoverageFinishes, RunThrows
<1>4. CASE \E q \in RunDay : ListsOrphan(q)
    BY <1>1, <1>4 DEF ListsOrphan, Orphaned
<1>5. CASE MarksMissed
    BY <1>5 DEF MarksMissed, Missable
<1>6. CASE UNCHANGED ledger
    BY <1>6
<1>q. QED
    BY <1>3, <1>4, <1>5, <1>6
       DEF ScheduleNext, scheduleVars, RefreshReads, RefreshEndsIt, WatchdogReads, WatchdogLooks,
           WatchdogAdds, TakesScheduled, TakesRecovery, ClaimReadsRow, TimePasses, ScheduleWorkerDies,
           RedisFlushed, UniverseChanges

\* For any number of days and mishaps: a day the watchdog saw to is run or its job is on the way; a run
\* called missed was never claimed; a running row is worked for or will be found; and a completed run
\* is not run again.
THEOREM RunsOfTheSchedule == ScheduleSpec => DaysAreRun
<1>1. ScheduleInit => ScheduleInv
    BY ScheduleInvStarts
<1>2. ScheduleInv /\ [ScheduleNext]_scheduleVars => ScheduleInv'
    BY ScheduleInvHolds
<1>3. ScheduleInv => DueRunsHappen /\ MissedNeverRan /\ RunningRowsAreFound
  <2> SUFFICES ASSUME ScheduleInv
               PROVE  DueRunsHappen /\ MissedNeverRan /\ RunningRowsAreFound
      OBVIOUS
  <2>1. DueRunsHappen
      BY DEF ScheduleInv, CheckedMeansCared, DueRunsHappen
  <2>2. MissedNeverRan
      BY DEF ScheduleInv, UnclaimedNeverRan, MissedNeverRan
  <2>3. RunningRowsAreFound
    <3> SUFFICES ASSUME NEW d \in RunDay, ledger[d].is = "running"
                 PROVE  \/ IsLiveJob(JobOf(ledger[d], d)) \/ Orphaned(d)
                        \/ ledger[d].job = "scheduled" /\ fired[d] = [is |-> "completed", stalled |-> TRUE]
        BY DEF RunningRowsAreFound
    <3>1. fired[d] \in ScheduledState /\ recovery[d] \in RecoveryState
        BY DEF ScheduleInv, ScheduleTypes
    <3>2. CASE ledger[d].job = "scheduled"
      <4>1. fired[d].is = "completed" => fired[d].stalled
          BY <3>2 DEF ScheduleInv, ClaimsAreFinal
      <4>2. fired[d].is = "completed" => fired[d] = [is |-> "completed", stalled |-> TRUE]
          BY <3>1, <4>1 DEF ScheduledState
      <4>q. QED
          BY <3>1, <3>2, <4>2 DEF JobOf, Orphaned, IsLiveJob, ScheduledState
    <3>3. CASE ledger[d].job # "scheduled"
        BY <3>1, <3>3 DEF JobOf, Orphaned, IsLiveJob, RecoveryState
    <3>q. QED
        BY <3>2, <3>3
  <2>q. QED
      BY <2>1, <2>2, <2>3
<1>4. ScheduleInv /\ [ScheduleNext]_scheduleVars => CompletedIsNotRunAgain
    BY CompletedStays
<1>q. QED
    BY <1>1, <1>2, <1>3, <1>4, PTL DEF ScheduleSpec, DaysAreRun
===============================================================================
