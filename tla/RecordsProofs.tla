---------------------------- MODULE RecordsProofs ----------------------------
(***************************************************************************)
(* Proofs about the stored records.  Of one market collection, for any     *)
(* number of instruments, weeks, versions, admin requests, worker slots    *)
(* and faults: the types of its state, and that its weekly backtest runs   *)
(* and its preparation status are those of the membership of now, unless   *)
(* an import or a correction committed in one of the windows that          *)
(* Collections counts as overtaken.  Of the instruments of an exchange,    *)
(* for any symbols, tokens and processes: that the table follows the       *)
(* provider's list.                                                        *)
(***************************************************************************)
EXTENDS Collections, Universe, FiniteSetTheorems, SequenceTheorems, WellFoundedInduction, TLAPS

Version == [from : Week, members : SUBSET Instrument]
Run == [version : VersionId, universe : SUBSET Instrument]

\* What a worker slot, an admin request and the incremental sync may hold.
Position == {"idle", "open", "sync", "cover", "generate", "weeks", "resolve", "group",
             "history", "available", "final", "failing", "failed"}
Progress == [at : Position, job : Job \union {NoJob}, members : SUBSET Instrument,
             universe : SUBSET Instrument, todo : SUBSET Week,
             plan : [Week -> 0 .. MaxVersions] \union {<<>>}]
Request == [at : {"idle", "commit", "trigger", "refuse"}, from : 0 .. Weeks,
            file : SUBSET Instrument, add : SUBSET Instrument, drop : SUBSET Instrument,
            version : 0 .. MaxVersions]
Sync == [at : {"idle", "look", "put", "membership", "lookBack", "putBack"},
         universe : SUBSET Instrument, version : 0 .. MaxVersions]

RowTypes ==
    /\ exists \in BOOLEAN /\ active \subseteq Instrument
    /\ versions \in Seq(Version) /\ Len(versions) <= MaxVersions
    /\ latest = Len(versions) /\ (exists <=> latest # 0)

PrepTypes ==
    /\ counted \subseteq Instrument
    /\ status \in {"pending", "syncing_candles", "building_backtest", "ready", "partial",
                   "failed", "gone"}

RunTypes ==
    /\ current \in [Week -> (SUBSET Instrument) \union {NoRun}]
    /\ historical \in [Week -> Run \union {NoRun}]

\* A slot at work has a job; a rebuild knows the versions of the weeks it has to do.
Sound(p) ==
    /\ p.at # "idle" => p.job \in Job
    /\ p.at \in {"group", "history"} =>
           p.plan \in [Week -> 0 .. MaxVersions] /\ \A w \in p.todo : p.plan[w] # 0
    /\ p.at = "history" => p.todo # {}

SlotTypes == slot \in [Slot -> Progress] /\ \A s \in Slot : Sound(slot[s])

RequestTypes ==
    /\ admin \in [Admin -> Request]
    /\ \A a \in Admin : /\ admin[a].at = "commit" => admin[a].from # 0
                        /\ admin[a].at = "trigger" => admin[a].version # 0

SyncTypes == inc \in Sync /\ (inc.at \in {"lookBack", "putBack"} => inc.version # 0)

\* TypeOK, with what a slot, a request and the sync hold at each of their stages.
Types ==
    /\ RowTypes /\ PrepTypes /\ RunTypes /\ SlotTypes /\ RequestTypes /\ SyncTypes
    /\ queue \in Seq(Job)
    /\ overtaken \subseteq {"backfill", "rebuild", "conclusion"}

-----------------------------------------------------------------------------
(* The invariants of the three properties *)

\* What a generator read is still so when it writes: the members of now ...
MembersStand ==
    "backfill" \notin overtaken /\ exists =>
        /\ \A s \in Slot : slot[s].at = "weeks" => slot[s].universe = active
        /\ inc.at \in {"look", "put"} => inc.universe = active

\* ... and the version of each week, with its members.
Resolved(w, v) == v # 0 /\ v = Applicable(versions, w)

VersionsStand ==
    "rebuild" \notin overtaken /\ exists =>
        /\ \A s \in Slot :
             /\ slot[s].at \in {"group", "history"} =>
                    \A w \in slot[s].todo : Resolved(w, slot[s].plan[w])
             /\ slot[s].at = "history" =>
                    slot[s].universe = versions[slot[s].plan[Min(slot[s].todo)]].members
        /\ inc.at \in {"lookBack", "putBack"} =>
                /\ Resolved(LastWeek, inc.version)
                /\ inc.universe = versions[inc.version].members

\* The versions of a collection take effect at different dates.
DatesDiffer ==
    \A u, v \in DOMAIN versions : versions[u].from = versions[v].from => u = v

\* No job is of a version that is not there yet.
JobsInOrder ==
    exists => /\ \A s \in Slot : slot[s].job.version <= latest
              /\ \A i \in DOMAIN queue : queue[i].version <= latest
              /\ \A a \in Admin : admin[a].at = "trigger" => admin[a].version <= latest

Complete == active # {} => \A w \in Week : current[w] = active

\* A preparation of the latest version read the members of now, ...
MembersOfNow ==
    exists => \A s \in Slot :
        /\ slot[s].job.version = latest
        /\ slot[s].at \in {"sync", "cover", "generate", "weeks", "resolve", "group", "history",
                           "available"}
        => slot[s].members = active

\* ... every week a generator has done is of them, ...
WeeksDoneStand ==
    "backfill" \notin overtaken /\ exists =>
        \A s \in Slot : slot[s].at = "weeks" /\ active # {} =>
            \A w \in Week \ slot[s].todo : current[w] = active

\* ... and all weeks are by the time the preparation goes on.
BuiltOfNow ==
    "backfill" \notin overtaken /\ exists =>
        \A s \in Slot :
            /\ slot[s].job.version = latest
            /\ slot[s].at \in {"resolve", "group", "history", "available"}
            => Complete

\* The same once its version has been checked, unless an import overtook the check.
ConclusionStands ==
    "conclusion" \notin overtaken /\ exists =>
        \A s \in Slot : slot[s].at = "final" =>
            slot[s].members = active /\ ("backfill" \notin overtaken => Complete)

IInv ==
    /\ Types
    /\ MembersStand /\ WeeksShareTheActiveSet
    /\ DatesDiffer /\ VersionsStand /\ HistoryFollowsVersions
    /\ JobsInOrder /\ MembersOfNow /\ WeeksDoneStand /\ BuiltOfNow /\ ConclusionStands
    /\ PreparedMeansCurrent

-----------------------------------------------------------------------------
(* Least elements, and the version in effect *)

Below == {p \in Nat \X Nat : p[1] < p[2]}

\* A non-empty set of naturals has a least element, and Min is it.
LEMMA MinIsLeast ==
    ASSUME NEW S \in SUBSET Nat, S # {}
    PROVE  Min(S) \in S /\ \A y \in S : Min(S) <= y
<1>1. IsWellFoundedOn(Below, Nat)
    BY NatLessThanWellFounded DEF OpToRel, Below
<1>2. \A x, y \in Nat : x < y => <<x, y>> \in Below
  <2> SUFFICES ASSUME NEW x \in Nat, NEW y \in Nat, x < y PROVE <<x, y>> \in Below
      OBVIOUS
  <2>1. <<x, y>> \in Nat \X Nat
      OBVIOUS
  <2>q. QED
      BY <2>1 DEF Below
<1>3. PICK m \in S : \A y \in S : <<y, m>> \notin Below
    BY <1>1, WFMin
<1>4. ASSUME NEW y \in S PROVE m <= y
  <2>1. m \in Nat /\ y \in Nat
      OBVIOUS
  <2>2. ~(y < m)
      BY <1>2, <1>3, <2>1
  <2>q. QED
      BY <2>1, <2>2
<1>q. QED
    BY <1>4 DEF Min

\* The next week of a rebuild.
LEMMA NextWeek ==
    ASSUME NEW W \in SUBSET Week, W # {}
    PROVE  Min(W) \in W /\ \A w \in W : Min(W) <= w
BY MinIsLeast, CollectionAssumption DEF Week

\* Versions take effect in a week, and are numbered from one.
LEMMA DatesAreWeeks ==
    ASSUME NEW vs \in Seq(Version), NEW v \in DOMAIN vs
    PROVE  vs[v].from \in Nat /\ v \in Nat /\ v # 0 /\ v <= Len(vs)
<1>1. v \in 1 .. Len(vs) /\ vs[v] \in Version /\ Len(vs) \in Nat
    OBVIOUS
<1>q. QED
    BY <1>1, CollectionAssumption DEF Version, Week

\* v is the last of vs to take effect by the date.
InEffect(vs, date, v) ==
    /\ v \in DOMAIN vs /\ vs[v].from <= date
    /\ \A u \in DOMAIN vs : vs[u].from <= date => vs[u].from <= vs[v].from

\* Applicable finds it, if there is one.
LEMMA ApplicableIsInEffect ==
    ASSUME NEW vs \in Seq(Version), NEW date \in Nat
    PROVE  \/ InEffect(vs, date, Applicable(vs, date))
           \/ Applicable(vs, date) = 0 /\ \A v \in DOMAIN vs : ~(vs[v].from <= date)
<1> DEFINE before == {v \in DOMAIN vs : vs[v].from <= date}
           ages   == {date - vs[v].from : v \in before}
<1>1. \A v \in DOMAIN vs : vs[v].from \in Nat
    BY DatesAreWeeks
<1>2. CASE before = {}
    BY <1>2 DEF Applicable
<1>3. CASE before # {}
  <2>1. ages \in SUBSET Nat /\ ages # {}
      BY <1>1, <1>3
  <2>2. PICK v \in before : date - vs[v].from = Min(ages)
      BY <2>1, MinIsLeast
  <2>3. ASSUME NEW u \in before PROVE date - vs[v].from <= date - vs[u].from
    <3>1. date - vs[u].from \in ages
        OBVIOUS
    <3>q. QED
        BY <2>1, <2>2, <3>1, MinIsLeast
  <2>4. \A u \in before : vs[u].from <= vs[v].from
      BY <1>1, <2>3
  <2>5. Applicable(vs, date) = CHOOSE x \in before : \A u \in before : vs[u].from <= vs[x].from
      BY <1>3 DEF Applicable
  <2>6. /\ Applicable(vs, date) \in before
        /\ \A u \in before : vs[u].from <= vs[Applicable(vs, date)].from
      BY <2>4, <2>5
  <2>q. QED
      BY <2>6 DEF InEffect
<1>q. QED
    BY <1>2, <1>3

\* Applicable is a version of the sequence, or 0.
LEMMA ApplicableType ==
    ASSUME NEW vs \in Seq(Version), NEW date \in Nat
    PROVE  Applicable(vs, date) \in 0 .. Len(vs)
BY ApplicableIsInEffect DEF InEffect

\* With dates that differ, no other version is in effect.
LEMMA InEffectIsApplicable ==
    ASSUME NEW vs \in Seq(Version), NEW date \in Nat, NEW v, InEffect(vs, date, v),
           \A u, w \in DOMAIN vs : vs[u].from = vs[w].from => u = w
    PROVE  v = Applicable(vs, date) /\ v # 0
<1>1. \A u \in DOMAIN vs : vs[u].from \in Nat /\ u # 0
    BY DatesAreWeeks
<1>2. InEffect(vs, date, Applicable(vs, date))
    BY ApplicableIsInEffect DEF InEffect
<1>3. vs[v].from = vs[Applicable(vs, date)].from
    BY <1>1, <1>2 DEF InEffect
<1>q. QED
    BY <1>1, <1>2, <1>3 DEF InEffect

-----------------------------------------------------------------------------
(* What each kind of step writes *)

\* The steps of a worker slot.
WorkerStep == \E s \in Slot : Work(s) \/ Fails(s) \/ Crash(s)

\* The requests of an admin to one collection, and the corrections.
RequestStep ==
    \/ \E a \in Admin :
         \/ AdminSteps(a) \/ Retry(a) \/ Sweep(a) \/ TriggerRejected(a) \/ TriggerLost(a)
         \/ \E file \in SUBSET Instrument, from \in Week : ImportClassify(a, file, from)
    \/ \E j \in {Backfill, Rebuild} : RequestBacktest(j)
    \/ \E v \in DOMAIN versions, file \in SUBSET Instrument : Replace(v, file)
    \/ Delete

SyncStep == IncOpen \/ IncLook \/ IncPut \/ IncMembership \/ IncLookBack \/ IncPutBack

\* Every step is one of a worker slot, of a request or of the incremental sync.
LEMMA KindsOfSteps == Next => WorkerStep \/ RequestStep \/ SyncStep
BY DEF Next, WorkerStep, RequestStep, SyncStep

\* What a worker slot writes.
LEMMA WorkersWrite ==
    ASSUME NEW s \in Slot, Work(s) \/ Fails(s) \/ Crash(s)
    PROVE  /\ UNCHANGED <<rows, admin, inc, overtaken>>
           /\ UNCHANGED current \/ PersistWeek(s)
           /\ UNCHANGED historical \/ PersistHistory(s)
           /\ UNCHANGED prep \/ MarkSyncing(s) \/ MarkBuilding(s) \/ Conclude(s) \/ ConcludeFailed(s)
           /\ UNCHANGED queue \/ Take(s) \/ Crash(s)
<1> DEFINE others == UNCHANGED <<rows, admin, inc, overtaken>>
           quiet == others /\ UNCHANGED <<prep, current, historical, queue>>
<1>1. ASSUME Open(s) PROVE quiet
    BY <1>1 DEF Open, runs
<1>2. ASSUME Generate(s) PROVE quiet
    BY <1>2 DEF Generate, runs
<1>3. ASSUME WeeksDone(s) PROVE quiet
    BY <1>3 DEF WeeksDone, runs
<1>4. ASSUME Resolve(s) PROVE quiet
    BY <1>4 DEF Resolve, runs
<1>5. ASSUME ReadGroup(s) PROVE quiet
    BY <1>5 DEF ReadGroup, runs
<1>6. ASSUME RebuildDone(s) PROVE quiet
    BY <1>6 DEF RebuildDone, runs
<1>7. ASSUME CheckVersion(s) PROVE quiet
    BY <1>7 DEF CheckVersion, runs
<1>8. ASSUME CheckVersionAfterError(s) PROVE quiet
    BY <1>8 DEF CheckVersionAfterError, runs
<1>9. ASSUME Fails(s) PROVE quiet
    BY <1>9 DEF Fails, runs
<1>10. ASSUME PersistWeek(s) PROVE others /\ UNCHANGED <<prep, historical, queue>>
    BY <1>10 DEF PersistWeek, runs
<1>11. ASSUME PersistHistory(s) PROVE others /\ UNCHANGED <<prep, current, queue>>
    BY <1>11 DEF PersistHistory, runs
<1>12. ASSUME Take(s) PROVE others /\ UNCHANGED <<prep, current, historical>>
    BY <1>12 DEF Take, runs
<1>13. ASSUME Crash(s) PROVE others /\ UNCHANGED <<prep, current, historical>>
    BY <1>13 DEF Crash, runs
<1>14. ASSUME MarkSyncing(s) PROVE others /\ UNCHANGED <<current, historical, queue>>
    BY <1>14 DEF MarkSyncing, runs
<1>15. ASSUME MarkBuilding(s) PROVE others /\ UNCHANGED <<current, historical, queue>>
    BY <1>15 DEF MarkBuilding, runs
<1>16. ASSUME Conclude(s) PROVE others /\ UNCHANGED <<current, historical, queue>>
    BY <1>16 DEF Conclude, runs
<1>17. ASSUME ConcludeFailed(s) PROVE others /\ UNCHANGED <<current, historical, queue>>
    BY <1>17 DEF ConcludeFailed, runs
<1> HIDE DEF others, quiet
<1>18. \/ quiet
       \/ others /\ UNCHANGED <<prep, historical, queue>> /\ PersistWeek(s)
       \/ others /\ UNCHANGED <<prep, current, queue>> /\ PersistHistory(s)
       \/ others /\ UNCHANGED <<prep, current, historical>> /\ (Take(s) \/ Crash(s))
       \/ /\ others /\ UNCHANGED <<current, historical, queue>>
          /\ MarkSyncing(s) \/ MarkBuilding(s) \/ Conclude(s) \/ ConcludeFailed(s)
    BY <1>1, <1>2, <1>3, <1>4, <1>5, <1>6, <1>7, <1>8, <1>9, <1>10, <1>11, <1>12, <1>13, <1>14,
       <1>15, <1>16, <1>17 DEF Work
<1>q. QED
    BY <1>18 DEF quiet, others

\* Only an import, a correction and the deletion write the collection and its versions.
LEMMA WhoWritesRows ==
    Next => \/ UNCHANGED <<rows, overtaken>>
            \/ \E a \in Admin : Import(a)
            \/ \E v \in DOMAIN versions, file \in SUBSET Instrument : Replace(v, file)
            \/ Delete
<1> HAVE Next
<1>1. CASE WorkerStep
    BY <1>1, WorkersWrite DEF WorkerStep
<1>2. CASE RequestStep
    BY <1>2 DEF RequestStep, AdminSteps, ImportRefused, Trigger, MarkQueueUnavailable, Retry, Sweep,
           TriggerRejected, TriggerLost, ImportClassify, RequestBacktest
<1>3. CASE SyncStep
    BY <1>3 DEF SyncStep, IncOpen, IncLook, IncPut, IncMembership, IncLookBack, IncPutBack
<1>q. QED
    BY <1>1, <1>2, <1>3, KindsOfSteps

\* Who writes the runs of the current membership ...
LEMMA WhoWritesCurrent ==
    Next => \/ UNCHANGED current
            \/ \E a \in Admin : Import(a)
            \/ Delete \/ IncPut
            \/ \E s \in Slot : PersistWeek(s)
<1> HAVE Next
<1>1. CASE WorkerStep
    BY <1>1, WorkersWrite DEF WorkerStep
<1>2. CASE RequestStep
    BY <1>2 DEF RequestStep, AdminSteps, ImportRefused, Trigger, MarkQueueUnavailable, Retry, Sweep,
           TriggerRejected, TriggerLost, ImportClassify, RequestBacktest, Replace, runs
<1>3. CASE SyncStep
    BY <1>3 DEF SyncStep, IncOpen, IncLook, IncMembership, IncLookBack, IncPutBack, runs
<1>q. QED
    BY <1>1, <1>2, <1>3, KindsOfSteps

\* ... and of the versions.
LEMMA WhoWritesHistory ==
    Next => \/ UNCHANGED historical
            \/ \E a \in Admin : Import(a)
            \/ \E v \in DOMAIN versions, file \in SUBSET Instrument : Replace(v, file)
            \/ Delete \/ IncPutBack
            \/ \E s \in Slot : PersistHistory(s)
<1> HAVE Next
<1>1. CASE WorkerStep
    BY <1>1, WorkersWrite DEF WorkerStep
<1>2. CASE RequestStep
    BY <1>2 DEF RequestStep, AdminSteps, ImportRefused, Trigger, MarkQueueUnavailable, Retry, Sweep,
           TriggerRejected, TriggerLost, ImportClassify, RequestBacktest, runs
<1>3. CASE SyncStep
    BY <1>3 DEF SyncStep, IncOpen, IncLook, IncPut, IncMembership, IncLookBack, runs
<1>q. QED
    BY <1>1, <1>2, <1>3, KindsOfSteps

\* Who writes the preparation status.
LEMMA WhoWritesStatus ==
    Next => \/ UNCHANGED prep
            \/ \E a \in Admin : Import(a) \/ MarkQueueUnavailable(a)
            \/ Delete
            \/ \E s \in Slot : MarkSyncing(s) \/ MarkBuilding(s) \/ Conclude(s) \/ ConcludeFailed(s)
<1> HAVE Next
<1>1. CASE WorkerStep
    BY <1>1, WorkersWrite DEF WorkerStep
<1>2. CASE RequestStep
    BY <1>2 DEF RequestStep, AdminSteps, ImportRefused, Trigger, Retry, Sweep, TriggerRejected,
           TriggerLost, ImportClassify, RequestBacktest, Replace, prep
<1>3. CASE SyncStep
    BY <1>3 DEF SyncStep, IncOpen, IncLook, IncPut, IncMembership, IncLookBack, IncPutBack, prep
<1>q. QED
    BY <1>1, <1>2, <1>3, KindsOfSteps

\* Only a worker moves a slot, ...
LEMMA WhoMovesSlots == Next => UNCHANGED slot \/ WorkerStep
<1> HAVE Next
<1>1. CASE WorkerStep
    BY <1>1
<1>2. CASE RequestStep
    BY <1>2 DEF RequestStep, AdminSteps, Import, ImportRefused, Trigger, MarkQueueUnavailable,
           Retry, Sweep, TriggerRejected, TriggerLost, ImportClassify, RequestBacktest, Replace,
           Delete
<1>3. CASE SyncStep
    BY <1>3 DEF SyncStep, IncOpen, IncLook, IncPut, IncMembership, IncLookBack, IncPutBack
<1>q. QED
    BY <1>1, <1>2, <1>3, KindsOfSteps

\* ... only a request an admin, ...
LEMMA WhoMovesAdmins == Next => UNCHANGED admin \/ RequestStep
<1> HAVE Next
<1>1. CASE WorkerStep
    BY <1>1, WorkersWrite DEF WorkerStep
<1>2. CASE RequestStep
    BY <1>2
<1>3. CASE SyncStep
    BY <1>3 DEF SyncStep, IncOpen, IncLook, IncPut, IncMembership, IncLookBack, IncPutBack
<1>q. QED
    BY <1>1, <1>2, <1>3, KindsOfSteps

\* ... and only the incremental sync itself.
LEMMA WhoMovesSync == Next => UNCHANGED inc \/ SyncStep
<1> HAVE Next
<1>1. CASE WorkerStep
    BY <1>1, WorkersWrite DEF WorkerStep
<1>2. CASE RequestStep
    BY <1>2 DEF RequestStep, AdminSteps, Import, ImportRefused, Trigger, MarkQueueUnavailable,
           Retry, Sweep, TriggerRejected, TriggerLost, ImportClassify, RequestBacktest, Replace,
           Delete
<1>3. CASE SyncStep
    BY <1>3
<1>q. QED
    BY <1>1, <1>2, <1>3, KindsOfSteps

\* Who writes the queue.
LEMMA WhoWritesQueue ==
    Next => \/ UNCHANGED queue
            \/ \E a \in Admin : Trigger(a) \/ TriggerRejected(a)
            \/ \E j \in {Backfill, Rebuild} : RequestBacktest(j)
            \/ Delete
            \/ \E s \in Slot : Take(s) \/ Crash(s)
<1> HAVE Next
<1>1. CASE WorkerStep
    BY <1>1, WorkersWrite DEF WorkerStep
<1>2. CASE RequestStep
    BY <1>2 DEF RequestStep, AdminSteps, Import, ImportRefused, MarkQueueUnavailable, Retry, Sweep,
           TriggerLost, ImportClassify, Replace
<1>3. CASE SyncStep
    BY <1>3 DEF SyncStep, IncOpen, IncLook, IncPut, IncMembership, IncLookBack, IncPutBack
<1>q. QED
    BY <1>1, <1>2, <1>3, KindsOfSteps

-----------------------------------------------------------------------------
(* Types *)

\* Initially everything is well typed.
LEMMA InitTypes == Init => Types
<1> SUFFICES ASSUME Init PROVE Types
    OBVIOUS
<1> USE CollectionAssumption
<1>1. PICK file \in (SUBSET Instrument) \ {{}}, from \in Week :
          /\ active = file /\ versions = <<[from |-> from, members |-> file]>>
          /\ counted = file /\ current = [w \in Week |-> file]
          /\ historical = [w \in Week |-> IF w < from THEN NoRun
                                                     ELSE [version |-> 1, universe |-> file]]
          /\ status = IF file \intersect Short = {} THEN "ready" ELSE "partial"
    BY DEF Init
<1>2. RowTypes
  <2>1. [from |-> from, members |-> file] \in Version
      BY DEF Version
  <2>2. versions \in Seq(Version) /\ Len(versions) = 1
      BY <1>1, <2>1
  <2>q. QED
      BY <1>1, <2>2 DEF Init, RowTypes
<1>3. PrepTypes
    BY <1>1 DEF PrepTypes
<1>4. RunTypes
  <2>1. [version |-> 1, universe |-> file] \in Run
      BY DEF Run, VersionId
  <2>q. QED
      BY <1>1, <2>1 DEF RunTypes
<1>5. SlotTypes
  <2>1. Free \in Progress /\ Sound(Free)
      BY DEF Free, Progress, Position, Sound
  <2>q. QED
      BY <2>1 DEF Init, SlotTypes
<1>6. RequestTypes
  <2>1. Waiting \in Request /\ Waiting.at = "idle"
      BY DEF Waiting, Request
  <2>q. QED
      BY <2>1 DEF Init, RequestTypes
<1>7. SyncTypes
    BY DEF Init, SyncTypes, Sync, Quiet
<1>8. queue \in Seq(Job) /\ overtaken \subseteq {"backfill", "rebuild", "conclusion"}
    BY DEF Init
<1>q. QED
    BY <1>2, <1>3, <1>4, <1>5, <1>6, <1>7, <1>8 DEF Types

\* An import appends a version dated as no other.
LEMMA ImportAppends ==
    ASSUME Types, NEW a \in Admin, Import(a)
    PROVE  /\ exists /\ UNCHANGED <<exists, queue, slot, inc>>
           /\ versions' = Append(versions, [from |-> admin[a].from, members |-> admin[a].file])
           /\ versions' \in Seq(Version) /\ Len(versions') = Len(versions) + 1
           /\ Len(versions') \in VersionId /\ latest' = Len(versions')
           /\ active' = (active \union admin[a].add) \ admin[a].drop
           /\ active' \subseteq Instrument
<1>1. admin[a] \in Request /\ admin[a].at = "commit" /\ admin[a].from # 0
    BY DEF Types, RequestTypes, Import
<1>2. [from |-> admin[a].from, members |-> admin[a].file] \in Version
    BY <1>1, CollectionAssumption DEF Request, Version, Week
<1>3. /\ versions \in Seq(Version) /\ Len(versions) < MaxVersions /\ active \subseteq Instrument
      /\ MaxVersions \in Nat
    BY CollectionAssumption DEF Types, RowTypes, Import
<1>4. versions' = Append(versions, [from |-> admin[a].from, members |-> admin[a].file])
    BY DEF Import, ImportCommits
<1>5. versions' \in Seq(Version) /\ Len(versions') = Len(versions) + 1
    BY <1>2, <1>3, <1>4, AppendProperties
<1>6. Len(versions') \in VersionId
    BY <1>3, <1>5 DEF VersionId
<1>7. active' = (active \union admin[a].add) \ admin[a].drop /\ active' \subseteq Instrument
    BY <1>1, <1>3 DEF Import, ImportCommits, Request
<1>q. QED
    BY <1>3, <1>4, <1>5, <1>6, <1>7 DEF Import, ImportCommits

\* A correction replaces the members of one version.
LEMMA ReplaceTypes ==
    ASSUME Types, NEW v \in DOMAIN versions, NEW file \in SUBSET Instrument, Replace(v, file)
    PROVE  versions' \in Seq(Version) /\ Len(versions') = Len(versions)
<1>1. versions \in Seq(Version) /\ v \in 1 .. Len(versions) /\ versions[v] \in Version
    BY DEF Types, RowTypes
<1>2. [versions[v] EXCEPT !.members = file] \in Version
    BY <1>1 DEF Version
<1>3. versions' = [versions EXCEPT ![v] = [versions[v] EXCEPT !.members = file]]
    BY DEF Replace
<1>q. QED
    BY <1>1, <1>2, <1>3, ExceptSeq

\* Every step keeps the types of the collection's rows, ...
LEMMA NextRowTypes == ASSUME Types, Next PROVE RowTypes'
<1>1. CASE UNCHANGED <<rows, overtaken>>
    BY <1>1 DEF Types, RowTypes, rows
<1>2. ASSUME NEW a \in Admin, Import(a) PROVE RowTypes'
  <2>1. exists' /\ active' \subseteq Instrument /\ versions' \in Seq(Version)
      BY <1>2, ImportAppends DEF Types, RowTypes
  <2>2. Len(versions') \in VersionId /\ latest' = Len(versions')
      BY <1>2, ImportAppends
  <2>3. Len(versions') <= MaxVersions /\ latest' # 0
      BY <2>2, CollectionAssumption DEF VersionId
  <2>q. QED
      BY <1>2, <2>1, <2>2, <2>3 DEF RowTypes, Types, Import
<1>3. ASSUME NEW v \in DOMAIN versions, NEW file \in SUBSET Instrument, Replace(v, file)
      PROVE  RowTypes'
    BY <1>3, ReplaceTypes DEF Replace, Types, RowTypes
<1>4. CASE Delete
  <2>1. exists' = FALSE /\ active' = {} /\ versions' = <<>> /\ latest' = 0
      BY <1>4 DEF Delete
  <2>2. <<>> \in Seq(Version) /\ Len(<<>>) = 0
      BY EmptySeq
  <2>3. versions' \in Seq(Version) /\ Len(versions') = 0
      BY <2>1, <2>2
  <2>4. 0 <= MaxVersions /\ (exists' <=> latest' # 0)
      BY <2>1, CollectionAssumption
  <2>q. QED
      BY <2>1, <2>3, <2>4 DEF RowTypes
<1>q. QED
    BY <1>1, <1>2, <1>3, <1>4, WhoWritesRows

\* ... of its preparation, ...
LEMMA NextPrepTypes == ASSUME Types, Next PROVE PrepTypes'
<1> USE DEF Types, PrepTypes
<1>1. CASE UNCHANGED prep
    BY <1>1 DEF prep
<1>2. ASSUME NEW a \in Admin, Import(a) PROVE PrepTypes'
    BY <1>2 DEF Import, ImportCommits
<1>3. ASSUME NEW a \in Admin, MarkQueueUnavailable(a) PROVE PrepTypes'
    BY <1>3 DEF MarkQueueUnavailable
<1>4. CASE Delete
    BY <1>4 DEF Delete
<1>5. ASSUME NEW s \in Slot, MarkSyncing(s) \/ MarkBuilding(s) \/ ConcludeFailed(s)
      PROVE  PrepTypes'
    BY <1>5 DEF MarkSyncing, MarkBuilding, ConcludeFailed, SetStatus
<1>6. ASSUME NEW s \in Slot, Conclude(s) PROVE PrepTypes'
    BY <1>6 DEF Conclude, SetStatus, SlotTypes, Progress
<1>q. QED
    BY <1>1, <1>2, <1>3, <1>4, <1>5, <1>6, WhoWritesStatus

\* ... and of its runs.
LEMMA NextCurrentTypes ==
    ASSUME Types, Next
    PROVE  current' \in [Week -> (SUBSET Instrument) \union {NoRun}]
<1>0. current \in [Week -> (SUBSET Instrument) \union {NoRun}] /\ SlotTypes /\ SyncTypes
    BY DEF Types, RunTypes
<1>1. CASE UNCHANGED current
    BY <1>0, <1>1
<1>2. ASSUME NEW a \in Admin, Import(a)
      PROVE  current' \in [Week -> (SUBSET Instrument) \union {NoRun}]
  <2>1. current' = [w \in Week |-> NoRun] \/ current' = current
      BY <1>2 DEF Import, ImportCommits
  <2>q. QED
      BY <1>0, <2>1
<1>3. CASE Delete
  <2>1. current' = [w \in Week |-> NoRun]
      BY <1>3 DEF Delete
  <2>q. QED
      BY <2>1
<1>4. CASE IncPut
    BY <1>0, <1>4 DEF IncPut, SyncTypes, Sync
<1>5. ASSUME NEW s \in Slot, PersistWeek(s)
      PROVE  current' \in [Week -> (SUBSET Instrument) \union {NoRun}]
  <2>1. slot[s].universe \subseteq Instrument
      BY <1>0 DEF SlotTypes, Progress
  <2>q. QED
      BY <1>0, <1>5, <2>1 DEF PersistWeek
<1>q. QED
    BY <1>1, <1>2, <1>3, <1>4, <1>5, WhoWritesCurrent

\* A rebuild writes the version it resolved.
LEMMA RebuiltVersion ==
    ASSUME Types, NEW s \in Slot, slot[s].at = "history"
    PROVE  /\ Min(slot[s].todo) \in slot[s].todo /\ Min(slot[s].todo) \in Week
           /\ slot[s].plan[Min(slot[s].todo)] \in VersionId
           /\ slot[s].universe \subseteq Instrument
<1>1. slot[s] \in Progress /\ Sound(slot[s])
    BY DEF Types, SlotTypes
<1>2. slot[s].todo \in SUBSET Week /\ slot[s].todo # {} /\ slot[s].universe \subseteq Instrument
    BY <1>1 DEF Progress, Sound
<1>3. Min(slot[s].todo) \in slot[s].todo
    BY <1>2, NextWeek
<1>4. slot[s].plan[Min(slot[s].todo)] \in 0 .. MaxVersions /\ slot[s].plan[Min(slot[s].todo)] # 0
    BY <1>1, <1>2, <1>3 DEF Sound
<1>q. QED
    BY <1>2, <1>3, <1>4, CollectionAssumption DEF VersionId

\* Every step keeps the types of the historical runs.
LEMMA NextHistoryTypes ==
    ASSUME Types, Next
    PROVE  historical' \in [Week -> Run \union {NoRun}]
<1>0. historical \in [Week -> Run \union {NoRun}]
    BY DEF Types, RunTypes
<1>1. CASE UNCHANGED historical
    BY <1>0, <1>1
<1>2. ASSUME NEW a \in Admin, Import(a) PROVE historical' \in [Week -> Run \union {NoRun}]
    BY <1>0, <1>2 DEF Import, ImportCommits
<1>3. ASSUME NEW v \in DOMAIN versions, NEW file \in SUBSET Instrument, Replace(v, file)
      PROVE  historical' \in [Week -> Run \union {NoRun}]
    BY <1>0, <1>3 DEF Replace, Without
<1>4. CASE Delete
    BY <1>4 DEF Delete
<1>5. CASE IncPutBack
  <2>1. [version |-> inc.version, universe |-> inc.universe] \in Run
      BY <1>5, CollectionAssumption DEF IncPutBack, Types, SyncTypes, Sync, Run, VersionId
  <2>q. QED
      BY <1>0, <1>5, <2>1 DEF IncPutBack
<1>6. ASSUME NEW s \in Slot, PersistHistory(s) PROVE historical' \in [Week -> Run \union {NoRun}]
  <2>1. slot[s].at = "history"
      BY <1>6 DEF PersistHistory
  <2>2. [version |-> slot[s].plan[Min(slot[s].todo)], universe |-> slot[s].universe] \in Run
      BY <2>1, RebuiltVersion DEF Run
  <2>q. QED
      BY <1>0, <1>6, <2>2 DEF PersistHistory
<1>q. QED
    BY <1>1, <1>2, <1>3, <1>4, <1>5, <1>6, WhoWritesHistory

\* A slot set to something sound.
LEMMA SlotSet ==
    ASSUME SlotTypes, NEW s \in Slot, NEW p \in Progress, Sound(p),
           slot' = [slot EXCEPT ![s] = p]
    PROVE  SlotTypes'
BY DEF SlotTypes

\* A job that ends.
LEMMA EndsTypes == ASSUME SlotTypes, NEW s \in Slot, Ends(s) PROVE SlotTypes'
<1>1. Free \in Progress /\ Sound(Free)
    BY DEF Free, Progress, Position, Sound
<1>q. QED
    BY <1>1, SlotSet DEF Ends

\* A job that goes on to a stage without a plan.
LEMMA GoesTypes ==
    ASSUME SlotTypes, NEW s \in Slot, NEW where \in Position \ {"group", "history"},
           slot[s].at # "idle", Goes(s, where)
    PROVE  SlotTypes'
<1> DEFINE p == [slot[s] EXCEPT !.at = where]
<1>1. slot[s] \in Progress /\ slot[s].job \in Job
    BY DEF SlotTypes, Sound
<1>2. p \in Progress /\ p.at = where /\ p.job \in Job
    BY <1>1 DEF Progress
<1>3. Sound(p)
    BY <1>2 DEF Sound
<1>4. slot' = [slot EXCEPT ![s] = p]
    BY DEF Goes
<1> HIDE DEF p
<1>q. QED
    BY <1>2, <1>3, <1>4, SlotSet

\* A job that meets an error.
LEMMA ThrowsTypes ==
    ASSUME SlotTypes, NEW s \in Slot, slot[s].at # "idle", Throws(s)
    PROVE  SlotTypes'
<1>1. Ends(s) \/ Goes(s, "available") \/ Goes(s, "failing")
    BY DEF Throws
<1>q. QED
    BY <1>1, EndsTypes, GoesTypes DEF Position

\* A job that was taken, or opened.
LEMMA TakeTypes == ASSUME Types, NEW s \in Slot, Take(s) PROVE SlotTypes'
<1> DEFINE where == CASE Head(queue).kind = "prepare" -> "open"
                      [] Head(queue).kind = "backfill" -> "generate"
                      [] OTHER -> "resolve"
           p == [Free EXCEPT !.job = Head(queue), !.at = where]
<1>1. Head(queue) \in Job
    BY HeadTailProperties DEF Types, Take
<1>2. where \in {"open", "generate", "resolve"}
    OBVIOUS
<1>3. slot' = [slot EXCEPT ![s] = p]
    BY DEF Take
<1> HIDE DEF where
<1>4. p \in Progress /\ Sound(p)
    BY <1>1, <1>2 DEF Free, Progress, Position, Sound
<1> HIDE DEF p
<1>q. QED
    BY <1>3, <1>4, SlotSet DEF Types

\* A preparation that reads the collection.
LEMMA OpenTypes == ASSUME Types, NEW s \in Slot, Open(s) PROVE SlotTypes'
<1> DEFINE p == [slot[s] EXCEPT !.at = "sync", !.members = active]
<1>0. SlotTypes /\ slot[s] \in Progress /\ slot[s].job \in Job /\ active \subseteq Instrument
    BY DEF Open, Types, SlotTypes, Sound, RowTypes
<1>1. CASE Ends(s)
    BY <1>0, <1>1, EndsTypes
<1>2. CASE slot' = [slot EXCEPT ![s] = p]
  <2>1. p \in Progress /\ p.at = "sync" /\ p.job \in Job
      BY <1>0 DEF Progress, Position
  <2>2. Sound(p)
      BY <2>1 DEF Sound
  <2> HIDE DEF p
  <2>q. QED
      BY <1>0, <1>2, <2>1, <2>2, SlotSet
<1>q. QED
    BY <1>1, <1>2 DEF Open

\* A generator at its weeks.
LEMMA GenerateTypes == ASSUME Types, NEW s \in Slot, Generate(s) PROVE SlotTypes'
<1> DEFINE todo == IF active = {} THEN {} ELSE Week
           p == [slot[s] EXCEPT !.at = "weeks", !.universe = active, !.todo = todo]
<1>0. /\ SlotTypes /\ slot[s] \in Progress /\ slot[s].job \in Job /\ active \subseteq Instrument
      /\ slot[s].at # "idle"
    BY DEF Generate, Types, SlotTypes, Sound, RowTypes
<1>1. CASE Throws(s)
    BY <1>0, <1>1, ThrowsTypes
<1>2. CASE slot' = [slot EXCEPT ![s] = p]
  <2>1. todo \in SUBSET Week
      OBVIOUS
  <2> HIDE DEF todo
  <2>2. p \in Progress /\ p.at = "weeks" /\ p.job \in Job
      BY <1>0, <2>1 DEF Progress, Position
  <2>3. Sound(p)
      BY <2>2 DEF Sound
  <2> HIDE DEF p
  <2>q. QED
      BY <1>0, <1>2, <2>2, <2>3, SlotSet
<1>q. QED
    BY <1>1, <1>2 DEF Generate

\* A generator that writes a week.
LEMMA PersistWeekTypes == ASSUME Types, NEW s \in Slot, PersistWeek(s) PROVE SlotTypes'
<1> DEFINE p == [slot[s] EXCEPT !.todo = @ \ {Min(slot[s].todo)}]
<1>0. SlotTypes /\ slot[s] \in Progress /\ slot[s].job \in Job /\ slot[s].at = "weeks"
    BY DEF PersistWeek, Types, SlotTypes, Sound
<1>1. CASE Throws(s)
    BY <1>0, <1>1, ThrowsTypes
<1>2. CASE slot' = [slot EXCEPT ![s] = p]
  <2>1. p \in Progress /\ p.at = "weeks" /\ p.job \in Job
      BY <1>0 DEF Progress
  <2>2. Sound(p)
      BY <2>1 DEF Sound
  <2> HIDE DEF p
  <2>q. QED
      BY <1>0, <1>2, <2>1, <2>2, SlotSet
<1>q. QED
    BY <1>1, <1>2 DEF PersistWeek

\* A rebuild with its plan, at a group of weeks, and after one of them.
LEMMA ResolveTypes == ASSUME Types, NEW s \in Slot, Resolve(s) PROVE SlotTypes'
<1> DEFINE plan == [w \in Week |-> Applicable(versions, w)]
           todo == {w \in Week : current[w] # NoRun}
           p == [slot[s] EXCEPT !.at = "group", !.plan = plan, !.todo = {w \in todo : plan[w] # 0}]
<1>0. /\ SlotTypes /\ slot[s] \in Progress /\ slot[s].job \in Job /\ slot[s].at # "idle"
      /\ versions \in Seq(Version) /\ Len(versions) <= MaxVersions
    BY DEF Resolve, Types, SlotTypes, Sound, RowTypes
<1>1. CASE Throws(s)
    BY <1>0, <1>1, ThrowsTypes
<1>2. CASE slot' = [slot EXCEPT ![s] = p]
  <2>1. ASSUME NEW w \in Week PROVE Applicable(versions, w) \in 0 .. MaxVersions
    <3>1. w \in Nat
        BY CollectionAssumption DEF Week
    <3>2. Applicable(versions, w) \in 0 .. Len(versions)
        BY <1>0, <3>1, ApplicableType
    <3>q. QED
        BY <1>0, <3>2, CollectionAssumption
  <2>2. plan \in [Week -> 0 .. MaxVersions]
      BY <2>1
  <2> HIDE DEF plan
  <2>3. {w \in todo : plan[w] # 0} \in SUBSET Week
      OBVIOUS
  <2>4. /\ p \in Progress /\ p.at = "group" /\ p.job \in Job /\ p.plan = plan
        /\ \A w \in p.todo : plan[w] # 0
      BY <1>0, <2>2, <2>3 DEF Progress, Position
  <2>5. Sound(p)
      BY <2>2, <2>4 DEF Sound
  <2> HIDE DEF p
  <2>q. QED
      BY <1>0, <1>2, <2>4, <2>5, SlotSet
<1>q. QED
    BY <1>1, <1>2 DEF Resolve

\* A rebuild that reads the members of its next version.
LEMMA ReadGroupTypes == ASSUME Types, NEW s \in Slot, ReadGroup(s) PROVE SlotTypes'
<1> DEFINE v == slot[s].plan[Min(slot[s].todo)]
           p == [slot[s] EXCEPT !.todo = @ \ Group(s)]
           q == [slot[s] EXCEPT !.at = "history", !.universe = versions[v].members]
<1>0. /\ SlotTypes /\ slot[s] \in Progress /\ slot[s].job \in Job /\ slot[s].at = "group"
      /\ slot[s].todo # {} /\ versions \in Seq(Version)
      /\ slot[s].plan \in [Week -> 0 .. MaxVersions] /\ \A w \in slot[s].todo : slot[s].plan[w] # 0
    BY DEF ReadGroup, Types, SlotTypes, Sound, RowTypes
<1>1. CASE slot' = [slot EXCEPT ![s] = p]
  <2>1. /\ p \in Progress /\ p.at = "group" /\ p.job \in Job /\ p.plan = slot[s].plan
        /\ p.todo \subseteq slot[s].todo
      BY <1>0 DEF Progress
  <2>2. Sound(p)
      BY <1>0, <2>1 DEF Sound
  <2> HIDE DEF p
  <2>q. QED
      BY <1>0, <1>1, <2>1, <2>2, SlotSet
<1>2. CASE v \in DOMAIN versions /\ slot' = [slot EXCEPT ![s] = q]
  <2>1. versions[v] \in Version
      BY <1>0, <1>2
  <2>2. versions[v].members \in SUBSET Instrument
      BY <2>1 DEF Version
  <2> HIDE DEF v
  <2>3. /\ q \in Progress /\ q.at = "history" /\ q.job \in Job /\ q.plan = slot[s].plan
        /\ q.todo = slot[s].todo
      BY <1>0, <2>2 DEF Progress, Position
  <2>4. Sound(q)
      BY <1>0, <2>3 DEF Sound
  <2> HIDE DEF q
  <2>q. QED
      BY <1>0, <1>2, <2>3, <2>4, SlotSet
<1>q. QED
    BY <1>1, <1>2 DEF ReadGroup

\* A rebuild that writes a week.
LEMMA PersistHistoryTypes == ASSUME Types, NEW s \in Slot, PersistHistory(s) PROVE SlotTypes'
<1> DEFINE w == Min(slot[s].todo)
           where == IF Group(s) = {w} THEN "group" ELSE "history"
           p == [slot[s] EXCEPT !.todo = @ \ {w}, !.at = where]
<1>0. /\ SlotTypes /\ slot[s] \in Progress /\ slot[s].job \in Job /\ slot[s].at = "history"
      /\ slot[s].todo # {}
      /\ slot[s].plan \in [Week -> 0 .. MaxVersions]
      /\ \A x \in slot[s].todo : slot[s].plan[x] # 0
    BY DEF PersistHistory, Types, SlotTypes, Sound
<1>1. CASE Throws(s)
    BY <1>0, <1>1, ThrowsTypes
<1>2. CASE slot' = [slot EXCEPT ![s] = p]
  <2>1. where \in {"group", "history"}
      OBVIOUS
  <2>2. where = "history" => slot[s].todo \ {w} # {}
    <3>1. w \in Group(s) /\ Group(s) \subseteq slot[s].todo
        BY <1>0, RebuiltVersion DEF Group
    <3>q. QED
        BY <3>1
  <2> HIDE DEF w, where
  <2>3. /\ p \in Progress /\ p.at = where /\ p.job \in Job /\ p.plan = slot[s].plan
        /\ p.todo = slot[s].todo \ {w}
      BY <1>0, <2>1 DEF Progress, Position
  <2>4. Sound(p)
      BY <1>0, <2>1, <2>2, <2>3 DEF Sound
  <2> HIDE DEF p
  <2>q. QED
      BY <1>0, <1>2, <2>3, <2>4, SlotSet
<1>q. QED
    BY <1>1, <1>2 DEF PersistHistory

\* Every step keeps the types of the slots.
LEMMA NextSlotTypes == ASSUME Types, Next PROVE SlotTypes'
<1>0. SlotTypes
    BY DEF Types
<1>1. CASE UNCHANGED slot
    BY <1>0, <1>1 DEF SlotTypes
<1>2. ASSUME NEW s \in Slot, Crash(s) PROVE SlotTypes'
    BY <1>0, <1>2, EndsTypes DEF Crash
<1>3. ASSUME NEW s \in Slot, Fails(s) PROVE SlotTypes'
    BY <1>0, <1>3, ThrowsTypes DEF Fails
<1>4. ASSUME NEW s \in Slot, MarkSyncing(s) PROVE SlotTypes'
    BY <1>0, <1>4, GoesTypes DEF MarkSyncing, Position
<1>5. ASSUME NEW s \in Slot, MarkBuilding(s) PROVE SlotTypes'
    BY <1>0, <1>5, GoesTypes DEF MarkBuilding, Position
<1>6. ASSUME NEW s \in Slot, WeeksDone(s) PROVE SlotTypes'
  <2>1. slot[s].at # "idle" /\ (Ends(s) \/ Goes(s, "resolve") \/ Goes(s, "available"))
      BY <1>6 DEF WeeksDone
  <2>q. QED
      BY <1>0, <2>1, GoesTypes, EndsTypes DEF Position
<1>7. ASSUME NEW s \in Slot, RebuildDone(s) PROVE SlotTypes'
    BY <1>0, <1>7, GoesTypes, EndsTypes DEF RebuildDone, Position
<1>8. ASSUME NEW s \in Slot, CheckVersion(s) PROVE SlotTypes'
    BY <1>0, <1>8, GoesTypes, EndsTypes DEF CheckVersion, Position
<1>9. ASSUME NEW s \in Slot, CheckVersionAfterError(s) PROVE SlotTypes'
    BY <1>0, <1>9, GoesTypes, EndsTypes DEF CheckVersionAfterError, Position
<1>10. ASSUME NEW s \in Slot, Conclude(s) \/ ConcludeFailed(s) PROVE SlotTypes'
    BY <1>0, <1>10, EndsTypes DEF Conclude, ConcludeFailed
<1>q. QED
    BY <1>1, <1>2, <1>3, <1>4, <1>5, <1>6, <1>7, <1>8, <1>9, <1>10, WhoMovesSlots, TakeTypes,
       OpenTypes, GenerateTypes, PersistWeekTypes, ResolveTypes, ReadGroupTypes,
       PersistHistoryTypes
       DEF WorkerStep, Work

\* A request set to something sound.
LEMMA RequestSet ==
    ASSUME RequestTypes, NEW a \in Admin, NEW r \in Request,
           r.at = "commit" => r.from # 0, r.at = "trigger" => r.version # 0,
           admin' = [admin EXCEPT ![a] = r]
    PROVE  RequestTypes'
BY DEF RequestTypes

\* Every step keeps the types of the requests.
LEMMA NextRequestTypes == ASSUME Types, Next PROVE RequestTypes'
<1>0. RequestTypes
    BY DEF Types
<1>w. Waiting \in Request /\ Waiting.at = "idle"
    BY CollectionAssumption DEF Waiting, Request
<1>1. CASE UNCHANGED admin
    BY <1>0, <1>1 DEF RequestTypes
<1>2. ASSUME NEW a \in Admin, NEW file \in SUBSET Instrument, NEW from \in Week,
             ImportClassify(a, file, from)
      PROVE  RequestTypes'
  <2> DEFINE r == [at |-> "commit", from |-> from, file |-> file,
                   add |-> file \ active, drop |-> active \ file, version |-> 0]
  <2>1. r \in Request /\ r.from # 0 /\ r.at = "commit"
      BY CollectionAssumption DEF Types, RowTypes, Request, Week
  <2>2. admin' = [admin EXCEPT ![a] = r]
      BY <1>2 DEF ImportClassify
  <2> HIDE DEF r
  <2>q. QED
      BY <1>0, <2>1, <2>2, RequestSet
<1>3. ASSUME NEW a \in Admin, NEW v \in VersionId,
             admin' = [admin EXCEPT ![a] = [Waiting EXCEPT !.at = "trigger", !.version = v]]
      PROVE  RequestTypes'
  <2> DEFINE r == [Waiting EXCEPT !.at = "trigger", !.version = v]
  <2>1. v \in 0 .. MaxVersions /\ v # 0
      BY CollectionAssumption DEF VersionId
  <2>2. r \in Request /\ r.version # 0 /\ r.at = "trigger"
      BY <1>w, <2>1 DEF Request
  <2> HIDE DEF r
  <2>q. QED
      BY <1>0, <1>3, <2>2, RequestSet DEF r
<1>4. ASSUME NEW a \in Admin, Import(a) PROVE RequestTypes'
  <2>1. Len(versions') \in VersionId /\ Len(versions') = Len(versions) + 1
      BY <1>4, ImportAppends
  <2>q. QED
      BY <1>3, <1>4, <2>1 DEF Import, ImportCommits
<1>5. ASSUME NEW a \in Admin, Retry(a) \/ Sweep(a) PROVE RequestTypes'
  <2>1. latest \in VersionId
      BY <1>5, CollectionAssumption DEF Retry, Sweep, Types, RowTypes, VersionId
  <2>q. QED
      BY <1>3, <1>5, <2>1 DEF Retry, Sweep
<1>6. ASSUME NEW a \in Admin,
             ImportRefused(a) \/ Trigger(a) \/ MarkQueueUnavailable(a) \/ TriggerLost(a)
      PROVE  RequestTypes'
  <2>1. admin' = [admin EXCEPT ![a] = Waiting]
      BY <1>6 DEF ImportRefused, Trigger, MarkQueueUnavailable, TriggerLost
  <2>q. QED
      BY <1>0, <1>w, <2>1, RequestSet
<1>7. ASSUME NEW a \in Admin, TriggerRejected(a) PROVE RequestTypes'
  <2> DEFINE r == [admin[a] EXCEPT !.at = "refuse"]
  <2>1. r \in Request /\ r.at = "refuse"
      BY <1>0 DEF RequestTypes, Request
  <2>2. admin' = [admin EXCEPT ![a] = r]
      BY <1>7 DEF TriggerRejected
  <2> HIDE DEF r
  <2>q. QED
      BY <1>0, <2>1, <2>2, RequestSet
<1>8. ASSUME UNCHANGED admin PROVE RequestTypes'
    BY <1>0, <1>8 DEF RequestTypes
<1>9. (\/ \E j \in {Backfill, Rebuild} : RequestBacktest(j)
       \/ \E v \in DOMAIN versions, file \in SUBSET Instrument : Replace(v, file)
       \/ Delete) => UNCHANGED admin
    BY DEF RequestBacktest, Replace, Delete
<1>q. QED
    BY <1>1, <1>2, <1>4, <1>5, <1>6, <1>7, <1>9, WhoMovesAdmins DEF RequestStep, AdminSteps

\* ... of the incremental sync, ...
LEMMA NextSyncTypes == ASSUME Types, Next PROVE SyncTypes'
<1>0. inc \in Sync /\ (inc.at \in {"lookBack", "putBack"} => inc.version # 0)
      /\ active \subseteq Instrument /\ versions \in Seq(Version) /\ Len(versions) <= MaxVersions
    BY DEF Types, SyncTypes, RowTypes
<1>1. CASE UNCHANGED inc
    BY <1>0, <1>1 DEF SyncTypes
<1>2. CASE inc' = Quiet
    BY <1>2, CollectionAssumption DEF SyncTypes, Sync, Quiet
<1>3. CASE IncOpen
  <2>1. Quiet \in Sync
      BY CollectionAssumption DEF Quiet, Sync
  <2>2. inc' \in Sync /\ inc'.at = "look"
      BY <1>0, <1>3, <2>1 DEF IncOpen, Sync
  <2>q. QED
      BY <2>2 DEF SyncTypes
<1>4. CASE IncLook
    BY <1>0, <1>4 DEF IncLook, SyncTypes, Sync
<1>5. CASE IncPut
    BY <1>0, <1>2, <1>5 DEF IncPut, IncEnds, SyncTypes, Sync
<1>6. CASE IncMembership
  <2> DEFINE v == Applicable(versions, LastWeek)
  <2>1. v \in 0 .. Len(versions)
      BY <1>0, ApplicableType, CollectionAssumption DEF LastWeek
  <2>2. inc' = Quiet \/ (v # 0 /\ inc' = [at |-> "lookBack", version |-> v,
                                          universe |-> versions[v].members])
      BY <1>6 DEF IncMembership, IncEnds
  <2>3. v # 0 => v \in 0 .. MaxVersions /\ versions[v] \in Version
      BY <1>0, <2>1, CollectionAssumption
  <2> HIDE DEF v
  <2>4. v # 0 => versions[v].members \in SUBSET Instrument
      BY <2>3 DEF Version
  <2>q. QED
      BY <1>2, <2>2, <2>3, <2>4 DEF SyncTypes, Sync
<1>7. CASE IncLookBack
    BY <1>0, <1>2, <1>7 DEF IncLookBack, IncEnds, SyncTypes, Sync
<1>8. CASE IncPutBack
    BY <1>2, <1>8 DEF IncPutBack, IncEnds
<1>q. QED
    BY <1>1, <1>3, <1>4, <1>5, <1>6, <1>7, <1>8, WhoMovesSync DEF SyncStep

\* ... of the queue ...
LEMMA NextQueueTypes == ASSUME Types, Next PROVE queue' \in Seq(Job)
<1>0. queue \in Seq(Job)
    BY DEF Types
<1>1. ASSUME NEW j \in Job, Queued(j) PROVE queue' \in Seq(Job)
    BY <1>0, <1>1, AppendProperties DEF Queued
<1>2. CASE UNCHANGED queue
    BY <1>0, <1>2
<1>3. ASSUME NEW a \in Admin, Trigger(a) \/ TriggerRejected(a) PROVE queue' \in Seq(Job)
  <2>1. admin[a] \in Request /\ admin[a].version # 0
      BY <1>3 DEF Trigger, TriggerRejected, Types, RequestTypes
  <2>2. Prepare(admin[a].version) \in Job
      BY <2>1, CollectionAssumption DEF Job, VersionId, Request
  <2>q. QED
      BY <1>0, <1>1, <1>3, <2>2 DEF Trigger, TriggerRejected
<1>4. ASSUME NEW j \in {Backfill, Rebuild}, RequestBacktest(j) PROVE queue' \in Seq(Job)
    BY <1>1, <1>4 DEF RequestBacktest, Job
<1>5. CASE Delete
  <2>1. PICK n \in 0 .. Len(queue) : \E kept \in [1 .. n -> DOMAIN queue] :
            queue' = [k \in DOMAIN kept |-> queue[kept[k]]]
      BY <1>5 DEF Delete, SomeLeftBehind
  <2>k. PICK kept \in [1 .. n -> DOMAIN queue] : queue' = [k \in DOMAIN kept |-> queue[kept[k]]]
      BY <2>1
  <2>2. n \in Nat /\ queue' = [k \in 1 .. n |-> queue[kept[k]]]
      BY <1>0, <2>k
  <2>3. \A k \in 1 .. n : queue[kept[k]] \in Job
      BY <1>0, <2>k
  <2>q. QED
      BY <2>2, <2>3
<1>6. ASSUME NEW s \in Slot, Take(s) PROVE queue' \in Seq(Job)
    BY <1>0, <1>6, HeadTailProperties DEF Take
<1>7. ASSUME NEW s \in Slot, Crash(s) PROVE queue' \in Seq(Job)
  <2>1. slot[s].job \in Job
      BY <1>7 DEF Crash, Types, SlotTypes, Sound
  <2>2. Append(queue, slot[s].job) \in Seq(Job) /\ <<slot[s].job>> \in Seq(Job)
      BY <1>0, <2>1, AppendProperties
  <2>3. <<slot[s].job>> \o queue \in Seq(Job)
      BY <1>0, <2>2, ConcatProperties
  <2>q. QED
      BY <1>7, <2>2, <2>3 DEF Crash
<1>q. QED
    BY <1>2, <1>3, <1>4, <1>5, <1>6, <1>7, WhoWritesQueue

\* ... and of what was overtaken.
LEMMA NextOvertakenTypes ==
    ASSUME Types, Next
    PROVE  /\ overtaken \subseteq overtaken'
           /\ overtaken' \subseteq {"backfill", "rebuild", "conclusion"}
<1>0. overtaken \subseteq {"backfill", "rebuild", "conclusion"}
    BY DEF Types
<1>1. CASE UNCHANGED <<rows, overtaken>>
    BY <1>0, <1>1
<1>2. ASSUME NEW a \in Admin, Import(a)
      PROVE  /\ overtaken \subseteq overtaken'
             /\ overtaken' \subseteq {"backfill", "rebuild", "conclusion"}
    BY <1>0, <1>2 DEF Import, ImportCommits, Overtakes
<1>3. ASSUME NEW v \in DOMAIN versions, NEW file \in SUBSET Instrument, Replace(v, file)
      PROVE  /\ overtaken \subseteq overtaken'
             /\ overtaken' \subseteq {"backfill", "rebuild", "conclusion"}
    BY <1>0, <1>3 DEF Replace, Overtakes
<1>4. CASE Delete
    BY <1>0, <1>4 DEF Delete
<1>q. QED
    BY <1>1, <1>2, <1>3, <1>4, WhoWritesRows

\* Every step keeps the types.
LEMMA NextTypes == Types /\ [Next]_vars => Types'
<1>1. ASSUME Types, Next PROVE Types'
    BY <1>1, NextRowTypes, NextPrepTypes, NextCurrentTypes, NextHistoryTypes, NextSlotTypes,
       NextRequestTypes, NextSyncTypes, NextQueueTypes, NextOvertakenTypes DEF Types, RunTypes
<1>2. ASSUME Types, UNCHANGED vars PROVE Types'
    BY <1>2 DEF vars, rows, prep, runs, Types, RowTypes, PrepTypes, RunTypes, SlotTypes,
                RequestTypes, SyncTypes
<1>q. QED
    BY <1>1, <1>2

\* What the types give TypeOK.
LEMMA TypesGiveTypeOK == Types => TypeOK
<1> SUFFICES ASSUME Types PROVE TypeOK
    OBVIOUS
<1>1. versions \in Seq([from : Week, members : SUBSET Instrument])
    BY DEF Types, RowTypes, Version
<1>2. latest \in 0 .. Len(versions) /\ Len(versions) <= MaxVersions
    BY <1>1 DEF Types, RowTypes
<1>3. \A w \in Week : historical[w] = NoRun \/ historical[w].version \in VersionId
    BY DEF Types, RunTypes, Run
<1>4. \A s \in Slot : slot[s].job \in Job \union {NoJob} /\ slot[s].todo \subseteq Week
    BY DEF Types, SlotTypes, Progress
<1>q. QED
    BY <1>1, <1>2, <1>3, <1>4 DEF Types, RowTypes, PrepTypes, RunTypes, TypeOK

\* Types of a collection, for any number of instruments, weeks, versions, requests, slots and
\* faults.
THEOREM CollectionTypes == Spec => []TypeOK
<1>1. Init /\ [][Next]_vars => []Types
    BY InitTypes, NextTypes, PTL
<1>q. QED
    BY <1>1, TypesGiveTypeOK, PTL DEF Spec

-----------------------------------------------------------------------------
(* How a slot and the incremental sync move *)

\* The job of a slot goes on.
GoesOn(s) == slot'[s].job = slot[s].job /\ slot'[s].members = slot[s].members

\* One step of a generator of weeks, of a rebuild, and of what follows them.
GeneratorMoves(s) ==
    \/ /\ slot[s].at = "generate" /\ slot'[s].at = "weeks" /\ slot'[s].universe = active
       /\ active # {} => slot'[s].todo = Week
    \/ /\ PersistWeek(s) /\ exists /\ slot[s].at = "weeks" /\ slot'[s].at = "weeks"
       /\ slot'[s].universe = slot[s].universe
       /\ slot'[s].todo = slot[s].todo \ {Min(slot[s].todo)}
    \/ /\ slot[s].at = "weeks" /\ slot[s].todo = {}
       /\ slot'[s].at \in {"resolve", "available"}

RebuildMoves(s) ==
    \/ /\ slot[s].at = "resolve" /\ slot'[s].at = "group"
       /\ \A w \in slot'[s].todo : w \in Week /\ Resolved(w, slot'[s].plan[w])
    \/ /\ slot[s].at = "group" /\ slot'[s].at = "group"
       /\ slot'[s].plan = slot[s].plan /\ slot'[s].todo \subseteq slot[s].todo
    \/ /\ slot[s].at = "group" /\ slot'[s].at = "history"
       /\ slot'[s].plan = slot[s].plan /\ slot'[s].todo = slot[s].todo
       /\ slot'[s].universe = versions[slot[s].plan[Min(slot[s].todo)]].members
    \/ /\ PersistHistory(s) /\ exists /\ slot[s].at = "history"
       /\ slot'[s].plan = slot[s].plan /\ slot'[s].universe = slot[s].universe
       /\ slot'[s].todo = slot[s].todo \ {Min(slot[s].todo)}
       /\ slot'[s].at = IF Group(s) = {Min(slot[s].todo)} THEN "group" ELSE "history"
    \/ /\ slot[s].at \in {"resolve", "group", "history"} /\ slot'[s].at = "available"

Moves(s) ==
    \/ slot'[s] = slot[s]
    \/ slot'[s].at = "idle" /\ slot'[s].job = NoJob
    \/ /\ Take(s) /\ slot'[s].job = Head(queue) /\ slot'[s].at \in {"open", "generate", "resolve"}
       /\ slot'[s].at # "open" => slot'[s].job.version = 0
    \/ exists /\ slot'[s].at = "sync" /\ slot'[s].job = slot[s].job /\ slot'[s].members = active
    \/ /\ GoesOn(s)
       /\ \/ slot[s].at = "sync" /\ slot'[s].at = "cover"
          \/ slot[s].at = "cover" /\ slot'[s].at = "generate"
          \/ slot'[s].at \in {"failing", "failed"}
          \/ GeneratorMoves(s)
          \/ RebuildMoves(s)
          \/ /\ slot[s].at = "available" /\ slot'[s].at = "final"
             /\ exists /\ slot[s].job.version = latest

\* Setting a slot sets that slot and no other.
LEMMA SlotIs ==
    ASSUME SlotTypes, NEW s \in Slot, NEW p, slot' = [slot EXCEPT ![s] = p]
    PROVE  slot'[s] = p /\ \A r \in Slot \ {s} : slot'[r] = slot[r]
BY DEF SlotTypes

\* A job that ends leaves its slot idle.
LEMMA EndsMoves ==
    ASSUME SlotTypes, NEW s \in Slot, Ends(s)
    PROVE  \A r \in Slot : Moves(r)
BY SlotIs DEF Ends, Free, Moves

\* A job that goes on keeps all but its stage.
LEMMA GoesMoves ==
    ASSUME SlotTypes, NEW s \in Slot, NEW where, Goes(s, where)
    PROVE  /\ GoesOn(s) /\ slot'[s].at = where
           /\ \A r \in Slot \ {s} : slot'[r] = slot[r]
<1>1. slot[s] \in Progress /\ slot' = [slot EXCEPT ![s] = [slot[s] EXCEPT !.at = where]]
    BY DEF SlotTypes, Goes
<1>2. slot'[s] = [slot[s] EXCEPT !.at = where] /\ \A r \in Slot \ {s} : slot'[r] = slot[r]
    BY <1>1, SlotIs
<1>q. QED
    BY <1>1, <1>2 DEF GoesOn, Progress

\* An error ends the job or leads to one of the stages that follow it.
LEMMA ThrowsMoves ==
    ASSUME SlotTypes, NEW s \in Slot, Throws(s)
    PROVE  \A r \in Slot : Moves(r)
<1>1. CASE Ends(s)
    BY <1>1, EndsMoves
<1>2. CASE Goes(s, "failing")
    BY <1>2, GoesMoves DEF Moves
<1>3. CASE slot[s].at \in {"resolve", "group", "history"} /\ Goes(s, "available")
    BY <1>3, GoesMoves DEF Moves, RebuildMoves
<1>q. QED
    BY <1>1, <1>2, <1>3 DEF Throws

\* A slot takes the first waiting job: only a backfill or rebuild skips the reading.
LEMMA TakeMoves == ASSUME Types, NEW s \in Slot, Take(s) PROVE \A r \in Slot : Moves(r)
<1> DEFINE where == CASE Head(queue).kind = "prepare" -> "open"
                      [] Head(queue).kind = "backfill" -> "generate"
                      [] OTHER -> "resolve"
           p == [Free EXCEPT !.job = Head(queue), !.at = where]
<1>0. Head(queue) \in Job
    BY HeadTailProperties DEF Types, Take
<1>1. where \in {"open", "generate", "resolve"} /\ (where # "open" => Head(queue).version = 0)
    BY <1>0 DEF Job, Prepare, Backfill, Rebuild
<1>2. slot' = [slot EXCEPT ![s] = p] /\ SlotTypes
    BY DEF Take, Types
<1> HIDE DEF where
<1>3. p.at = where /\ p.job = Head(queue)
    BY DEF Free
<1> HIDE DEF p
<1>4. slot'[s] = p /\ \A r \in Slot \ {s} : slot'[r] = slot[r]
    BY <1>2, SlotIs
<1>q. QED
    BY <1>1, <1>3, <1>4 DEF Moves

\* A preparation reads the members of now, or ends.
LEMMA OpenMoves == ASSUME Types, NEW s \in Slot, Open(s) PROVE \A r \in Slot : Moves(r)
<1> DEFINE p == [slot[s] EXCEPT !.at = "sync", !.members = active]
<1>0. SlotTypes /\ slot[s] \in Progress
    BY DEF Types, SlotTypes
<1>1. CASE Ends(s)
    BY <1>0, <1>1, EndsMoves
<1>2. CASE exists /\ slot' = [slot EXCEPT ![s] = p]
  <2>1. p.at = "sync" /\ p.members = active /\ p.job = slot[s].job
      BY <1>0 DEF Progress
  <2> HIDE DEF p
  <2>2. slot'[s] = p /\ \A r \in Slot \ {s} : slot'[r] = slot[r]
      BY <1>0, <1>2, SlotIs
  <2>q. QED
      BY <1>2, <2>1, <2>2 DEF Moves
<1>q. QED
    BY <1>1, <1>2 DEF Open

\* A generator reads the members of now and has all weeks to do.
LEMMA GenerateMoves == ASSUME Types, NEW s \in Slot, Generate(s) PROVE \A r \in Slot : Moves(r)
<1> DEFINE todo == IF active = {} THEN {} ELSE Week
           p == [slot[s] EXCEPT !.at = "weeks", !.universe = active, !.todo = todo]
<1>0. SlotTypes /\ slot[s] \in Progress /\ slot[s].at = "generate"
    BY DEF Types, SlotTypes, Generate
<1>1. CASE Throws(s)
    BY <1>0, <1>1, ThrowsMoves
<1>2. CASE slot' = [slot EXCEPT ![s] = p]
  <2>0. active # {} => todo = Week
      OBVIOUS
  <2> HIDE DEF todo
  <2>1. /\ p.at = "weeks" /\ p.universe = active /\ p.todo = todo
        /\ p.job = slot[s].job /\ p.members = slot[s].members
      BY <1>0 DEF Progress
  <2> HIDE DEF p
  <2>2. slot'[s] = p /\ \A r \in Slot \ {s} : slot'[r] = slot[r]
      BY <1>0, <1>2, SlotIs
  <2>q. QED
      BY <1>0, <2>0, <2>1, <2>2 DEF Moves, GoesOn, GeneratorMoves
<1>q. QED
    BY <1>1, <1>2 DEF Generate

\* A generator has one week less to do.
LEMMA PersistWeekMoves ==
    ASSUME Types, NEW s \in Slot, PersistWeek(s) PROVE \A r \in Slot : Moves(r)
<1> DEFINE p == [slot[s] EXCEPT !.todo = @ \ {Min(slot[s].todo)}]
<1>0. SlotTypes /\ slot[s] \in Progress /\ slot[s].at = "weeks"
    BY DEF Types, SlotTypes, PersistWeek
<1>1. CASE Throws(s)
    BY <1>0, <1>1, ThrowsMoves
<1>2. CASE exists /\ slot' = [slot EXCEPT ![s] = p]
  <2>1. /\ p.at = "weeks" /\ p.universe = slot[s].universe
        /\ p.todo = slot[s].todo \ {Min(slot[s].todo)}
        /\ p.job = slot[s].job /\ p.members = slot[s].members
      BY <1>0 DEF Progress
  <2> HIDE DEF p
  <2>2. slot'[s] = p /\ \A r \in Slot \ {s} : slot'[r] = slot[r]
      BY <1>0, <1>2, SlotIs
  <2>q. QED
      BY <1>0, <1>2, <2>1, <2>2 DEF Moves, GoesOn, GeneratorMoves
<1>q. QED
    BY <1>1, <1>2 DEF PersistWeek

\* A rebuild resolves the versions of now.
LEMMA ResolveMoves == ASSUME Types, NEW s \in Slot, Resolve(s) PROVE \A r \in Slot : Moves(r)
<1> DEFINE plan == [w \in Week |-> Applicable(versions, w)]
           todo == {w \in Week : current[w] # NoRun}
           p == [slot[s] EXCEPT !.at = "group", !.plan = plan, !.todo = {w \in todo : plan[w] # 0}]
<1>0. SlotTypes /\ slot[s] \in Progress /\ slot[s].at = "resolve"
    BY DEF Types, SlotTypes, Resolve
<1>1. CASE Throws(s)
    BY <1>0, <1>1, ThrowsMoves
<1>2. CASE slot' = [slot EXCEPT ![s] = p]
  <2>1. \A w \in {w \in todo : plan[w] # 0} : w \in Week /\ Resolved(w, plan[w])
      BY DEF Resolved
  <2> HIDE DEF plan, todo
  <2>2. /\ p.at = "group" /\ p.plan = plan /\ p.todo = {w \in todo : plan[w] # 0}
        /\ p.job = slot[s].job /\ p.members = slot[s].members
      BY <1>0 DEF Progress
  <2> HIDE DEF p
  <2>3. slot'[s] = p /\ \A r \in Slot \ {s} : slot'[r] = slot[r]
      BY <1>0, <1>2, SlotIs
  <2>q. QED
      BY <1>0, <2>1, <2>2, <2>3 DEF Moves, GoesOn, RebuildMoves
<1>q. QED
    BY <1>1, <1>2 DEF Resolve

\* A rebuild reads the members of its next version, or passes over it.
LEMMA ReadGroupMoves ==
    ASSUME Types, NEW s \in Slot, ReadGroup(s) PROVE \A r \in Slot : Moves(r)
<1> DEFINE v == slot[s].plan[Min(slot[s].todo)]
           p == [slot[s] EXCEPT !.todo = @ \ Group(s)]
           q == [slot[s] EXCEPT !.at = "history", !.universe = versions[v].members]
<1>0. SlotTypes /\ slot[s] \in Progress /\ slot[s].at = "group"
    BY DEF Types, SlotTypes, ReadGroup
<1>1. CASE slot' = [slot EXCEPT ![s] = p]
  <2>1. /\ p.at = "group" /\ p.plan = slot[s].plan /\ p.todo \subseteq slot[s].todo
        /\ p.job = slot[s].job /\ p.members = slot[s].members
      BY <1>0 DEF Progress
  <2> HIDE DEF p
  <2>2. slot'[s] = p /\ \A r \in Slot \ {s} : slot'[r] = slot[r]
      BY <1>0, <1>1, SlotIs
  <2>q. QED
      BY <1>0, <2>1, <2>2 DEF Moves, GoesOn, RebuildMoves
<1>2. CASE slot' = [slot EXCEPT ![s] = q]
  <2>1. /\ q.at = "history" /\ q.plan = slot[s].plan /\ q.todo = slot[s].todo
        /\ q.universe = versions[v].members
        /\ q.job = slot[s].job /\ q.members = slot[s].members
      BY <1>0 DEF Progress
  <2> HIDE DEF q
  <2>2. slot'[s] = q /\ \A r \in Slot \ {s} : slot'[r] = slot[r]
      BY <1>0, <1>2, SlotIs
  <2>q. QED
      BY <1>0, <2>1, <2>2 DEF Moves, GoesOn, RebuildMoves
<1>q. QED
    BY <1>1, <1>2 DEF ReadGroup

\* A rebuild has one week less to do.
LEMMA PersistHistoryMoves ==
    ASSUME Types, NEW s \in Slot, PersistHistory(s) PROVE \A r \in Slot : Moves(r)
<1> DEFINE w == Min(slot[s].todo)
           where == IF Group(s) = {w} THEN "group" ELSE "history"
           p == [slot[s] EXCEPT !.todo = @ \ {w}, !.at = where]
<1>0. SlotTypes /\ slot[s] \in Progress /\ slot[s].at = "history"
    BY DEF Types, SlotTypes, PersistHistory
<1>1. CASE Throws(s)
    BY <1>0, <1>1, ThrowsMoves
<1>2. CASE exists /\ slot' = [slot EXCEPT ![s] = p]
  <2>1. /\ p.at = where /\ p.plan = slot[s].plan /\ p.universe = slot[s].universe
        /\ p.todo = slot[s].todo \ {w}
        /\ p.job = slot[s].job /\ p.members = slot[s].members
      BY <1>0 DEF Progress
  <2> HIDE DEF p
  <2>2. slot'[s] = p /\ \A r \in Slot \ {s} : slot'[r] = slot[r]
      BY <1>0, <1>2, SlotIs
  <2>3. RebuildMoves(s)
      BY <1>0, <1>2, <2>1, <2>2 DEF RebuildMoves
  <2>q. QED
      BY <2>1, <2>2, <2>3 DEF Moves, GoesOn
<1>q. QED
    BY <1>1, <1>2 DEF PersistHistory

\* However the system moves, each slot moves in one of these ways.
LEMMA SlotMoves == ASSUME Types, Next PROVE \A r \in Slot : Moves(r)
<1>0. SlotTypes
    BY DEF Types
<1>1. CASE UNCHANGED slot
    BY <1>1 DEF Moves
<1>2. ASSUME NEW s \in Slot, Crash(s) PROVE \A r \in Slot : Moves(r)
    BY <1>0, <1>2, EndsMoves DEF Crash
<1>3. ASSUME NEW s \in Slot, Fails(s) PROVE \A r \in Slot : Moves(r)
    BY <1>0, <1>3, ThrowsMoves DEF Fails
<1>4. ASSUME NEW s \in Slot, MarkSyncing(s) PROVE \A r \in Slot : Moves(r)
  <2>1. slot[s].at = "sync" /\ Goes(s, "cover")
      BY <1>4 DEF MarkSyncing
  <2>q. QED
      BY <1>0, <2>1, GoesMoves DEF Moves
<1>5. ASSUME NEW s \in Slot, MarkBuilding(s) PROVE \A r \in Slot : Moves(r)
  <2>1. slot[s].at = "cover" /\ Goes(s, "generate")
      BY <1>5 DEF MarkBuilding
  <2>q. QED
      BY <1>0, <2>1, GoesMoves DEF Moves
<1>6. ASSUME NEW s \in Slot, WeeksDone(s) PROVE \A r \in Slot : Moves(r)
  <2>1. /\ slot[s].at = "weeks" /\ slot[s].todo = {}
        /\ Ends(s) \/ Goes(s, "resolve") \/ Goes(s, "available")
      BY <1>6 DEF WeeksDone
  <2>q. QED
      BY <1>0, <2>1, GoesMoves, EndsMoves DEF Moves, GeneratorMoves
<1>7. ASSUME NEW s \in Slot, RebuildDone(s) PROVE \A r \in Slot : Moves(r)
  <2>1. slot[s].at = "group" /\ (Ends(s) \/ Goes(s, "available"))
      BY <1>7 DEF RebuildDone
  <2>q. QED
      BY <1>0, <2>1, GoesMoves, EndsMoves DEF Moves, RebuildMoves
<1>8. ASSUME NEW s \in Slot, CheckVersion(s) PROVE \A r \in Slot : Moves(r)
  <2>1. /\ slot[s].at = "available"
        /\ Ends(s) \/ (exists /\ slot[s].job.version = latest /\ Goes(s, "final"))
      BY <1>8 DEF CheckVersion, Stale
  <2>q. QED
      BY <1>0, <2>1, GoesMoves, EndsMoves DEF Moves
<1>9. ASSUME NEW s \in Slot, CheckVersionAfterError(s) PROVE \A r \in Slot : Moves(r)
  <2>1. Ends(s) \/ Goes(s, "failed")
      BY <1>9 DEF CheckVersionAfterError
  <2>q. QED
      BY <1>0, <2>1, GoesMoves, EndsMoves DEF Moves
<1>10. ASSUME NEW s \in Slot, Conclude(s) \/ ConcludeFailed(s) PROVE \A r \in Slot : Moves(r)
    BY <1>0, <1>10, EndsMoves DEF Conclude, ConcludeFailed
<1>q. QED
    BY <1>1, <1>2, <1>3, <1>4, <1>5, <1>6, <1>7, <1>8, <1>9, <1>10, WhoMovesSlots, TakeMoves,
       OpenMoves, GenerateMoves, PersistWeekMoves, ResolveMoves, ReadGroupMoves,
       PersistHistoryMoves
       DEF WorkerStep, Work

\* And so does the sync.
SyncMoves ==
    \/ inc' = inc
    \/ inc'.at \in {"idle", "membership"}
    \/ inc'.at = "look" /\ inc'.universe = active
    \/ inc.at = "look" /\ inc'.at = "put" /\ inc'.universe = inc.universe
    \/ /\ inc'.at = "lookBack" /\ Resolved(LastWeek, inc'.version)
       /\ inc'.universe = versions[inc'.version].members
    \/ /\ inc.at = "lookBack" /\ inc'.at = "putBack" /\ inc'.version = inc.version
       /\ inc'.universe = inc.universe

\* However the system moves, the sync moves in one of these ways.
LEMMA IncMoves == ASSUME Types, Next PROVE SyncMoves
<1>0. inc \in Sync
    BY DEF Types, SyncTypes
<1>1. CASE UNCHANGED inc
    BY <1>1 DEF SyncMoves
<1>2. CASE inc' = Quiet
    BY <1>2 DEF SyncMoves, Quiet
<1>3. CASE IncOpen
  <2>1. inc'.at = "look" /\ inc'.universe = active
      BY <1>3 DEF IncOpen, Quiet
  <2>q. QED
      BY <2>1 DEF SyncMoves
<1>4. CASE IncLook
  <2>1. inc'.universe = inc.universe /\ inc.at = "look" /\ inc'.at \in {"put", "membership"}
      BY <1>0, <1>4 DEF IncLook, Sync
  <2>q. QED
      BY <2>1 DEF SyncMoves
<1>5. CASE IncPut
  <2>1. inc' = Quiet \/ inc'.at = "membership"
      BY <1>0, <1>5 DEF IncPut, IncEnds, Sync
  <2>q. QED
      BY <1>2, <2>1 DEF SyncMoves
<1>6. CASE IncMembership
    BY <1>2, <1>6 DEF IncMembership, IncEnds, SyncMoves, Resolved
<1>7. CASE IncLookBack
  <2>1. \/ inc' = Quiet
        \/ /\ inc.at = "lookBack" /\ inc'.at = "putBack" /\ inc'.version = inc.version
           /\ inc'.universe = inc.universe
      BY <1>0, <1>7 DEF IncLookBack, IncEnds, Sync
  <2>q. QED
      BY <1>2, <2>1 DEF SyncMoves
<1>8. CASE IncPutBack
    BY <1>2, <1>8 DEF IncPutBack, IncEnds
<1>q. QED
    BY <1>1, <1>3, <1>4, <1>5, <1>6, <1>7, <1>8, WhoMovesSync DEF SyncStep

-----------------------------------------------------------------------------
(* The runs of the current membership *)

\* An import that changes the members while no generator holds the former ones, or nothing.
LEMMA ImportOfMembers ==
    ASSUME Types, NEW a \in Admin, Import(a), "backfill" \notin overtaken'
    PROVE  /\ "backfill" \notin overtaken /\ UNCHANGED <<exists, slot, inc>>
           /\ \/ current' = [w \in Week |-> NoRun] /\ ~Generating
              \/ current' = current /\ active' = active
BY DEF Import, ImportCommits, Overtakes

\* Every step keeps the weeks on the members of now.
LEMMA NextMembersStand ==
    ASSUME Types, Next, MembersStand, WeeksShareTheActiveSet
    PROVE  MembersStand' /\ WeeksShareTheActiveSet'
<1> SUFFICES ASSUME "backfill" \notin overtaken'
             PROVE  MembersStand' /\ WeeksShareTheActiveSet'
    BY DEF MembersStand, WeeksShareTheActiveSet
<1>0. /\ "backfill" \notin overtaken
      /\ \A w \in Week : current[w] # NoRun => current[w] = active
      /\ exists => /\ \A s \in Slot : slot[s].at = "weeks" => slot[s].universe = active
                   /\ inc.at \in {"look", "put"} => inc.universe = active
    BY NextOvertakenTypes DEF MembersStand, WeeksShareTheActiveSet
<1>1. ASSUME NEW a \in Admin, Import(a) PROVE MembersStand' /\ WeeksShareTheActiveSet'
  <2>1. CASE current' = [w \in Week |-> NoRun] /\ ~Generating
      BY <1>1, <2>1, ImportOfMembers DEF Generating, MembersStand, WeeksShareTheActiveSet
  <2>2. CASE current' = current /\ active' = active
      BY <1>0, <1>1, <2>2, ImportOfMembers DEF MembersStand, WeeksShareTheActiveSet
  <2>q. QED
      BY <1>1, <2>1, <2>2, ImportOfMembers
<1>2. ASSUME NEW v \in DOMAIN versions, NEW file \in SUBSET Instrument, Replace(v, file)
      PROVE  MembersStand' /\ WeeksShareTheActiveSet'
    BY <1>0, <1>2 DEF Replace, MembersStand, WeeksShareTheActiveSet
<1>3. CASE Delete
  <2>1. exists' = FALSE /\ \A w \in Week : current'[w] = NoRun
      BY <1>3 DEF Delete
  <2>q. QED
      BY <2>1 DEF MembersStand, WeeksShareTheActiveSet
<1>4. CASE UNCHANGED <<rows, overtaken>>
  <2>0. active' = active /\ exists' = exists
      BY <1>4 DEF rows
  <2>1. ASSUME NEW s \in Slot, exists, slot'[s].at = "weeks" PROVE slot'[s].universe = active
      BY <1>0, <2>1, SlotMoves DEF Moves, GeneratorMoves, RebuildMoves
  <2>2. exists /\ inc'.at \in {"look", "put"} => inc'.universe = active
      BY <1>0, IncMoves DEF SyncMoves
  <2>3. CASE UNCHANGED current
      BY <1>0, <2>0, <2>1, <2>2, <2>3 DEF MembersStand, WeeksShareTheActiveSet
  <2>4. CASE IncPut
    <3>1. current' = [current EXCEPT ![LastWeek] = active] \/ current' = current
        BY <1>0, <2>4 DEF IncPut
    <3>2. \A w \in Week : current'[w] # NoRun => current'[w] = active
        BY <1>0, <3>1 DEF Types, RunTypes
    <3>q. QED
        BY <2>0, <2>1, <2>2, <3>2 DEF MembersStand, WeeksShareTheActiveSet
  <2>5. ASSUME NEW s \in Slot, PersistWeek(s) PROVE MembersStand' /\ WeeksShareTheActiveSet'
    <3>1. current' = [current EXCEPT ![Min(slot[s].todo)] = active] \/ current' = current
        BY <1>0, <2>5 DEF PersistWeek
    <3>2. \A w \in Week : current'[w] # NoRun => current'[w] = active
        BY <1>0, <3>1 DEF Types, RunTypes
    <3>q. QED
        BY <2>0, <2>1, <2>2, <3>2 DEF MembersStand, WeeksShareTheActiveSet
  <2>q. QED
      BY <1>1, <1>3, <2>3, <2>4, <2>5, WhoWritesCurrent
<1>q. QED
    BY <1>1, <1>2, <1>3, <1>4, WhoWritesRows

\* A step that writes nothing of this keeps it.
LEMMA MembersUnchanged ==
    MembersStand /\ WeeksShareTheActiveSet /\ UNCHANGED vars =>
        MembersStand' /\ WeeksShareTheActiveSet'
BY DEF vars, rows, runs, MembersStand, WeeksShareTheActiveSet

\* It holds of a collection that was just prepared.
LEMMA InitMembersStand == Init => MembersStand /\ WeeksShareTheActiveSet
BY DEF Init, Free, Quiet, MembersStand, WeeksShareTheActiveSet

-----------------------------------------------------------------------------
(* The runs of the versions *)

\* What an import appends is one more version; the others stay.
LEMMA AppendedVersions ==
    ASSUME Types, NEW a \in Admin, Import(a)
    PROVE  /\ Len(versions) \in Nat /\ DOMAIN versions = 1 .. Len(versions)
           /\ DOMAIN versions' = 1 .. (Len(versions) + 1)
           /\ \A u \in DOMAIN versions : versions'[u] = versions[u]
           /\ versions'[Len(versions) + 1].from = admin[a].from
<1> DEFINE r == [from |-> admin[a].from, members |-> admin[a].file]
<1>1. versions \in Seq(Version)
    BY DEF Types, RowTypes
<1>2. r \in Version
  <2>1. admin[a] \in Request /\ admin[a].from # 0
      BY DEF Types, RequestTypes, Import
  <2>q. QED
      BY <2>1, CollectionAssumption DEF Request, Version, Week
<1>3. versions' = Append(versions, r) /\ r.from = admin[a].from
    BY ImportAppends
<1> HIDE DEF r
<1>q. QED
    BY <1>1, <1>2, <1>3, AppendProperties

\* The dates of the versions still differ ...
LEMMA NextDatesDiffer == ASSUME Types, Next, DatesDiffer PROVE DatesDiffer'
<1>1. ASSUME NEW a \in Admin, Import(a) PROVE DatesDiffer'
  <2>1. \A u \in DOMAIN versions : versions[u].from # admin[a].from
      BY <1>1 DEF Import
  <2>q. QED
      BY <1>1, <2>1, AppendedVersions DEF DatesDiffer
<1>2. ASSUME NEW v \in DOMAIN versions, NEW file \in SUBSET Instrument, Replace(v, file)
      PROVE  DatesDiffer'
  <2>1. /\ DOMAIN versions' = DOMAIN versions
        /\ \A u \in DOMAIN versions : versions'[u].from = versions[u].from
    <3>1. \A u \in DOMAIN versions : versions[u] \in Version
        BY DEF Types, RowTypes
    <3>q. QED
        BY <1>2, <3>1 DEF Replace, Version
  <2>q. QED
      BY <2>1 DEF DatesDiffer
<1>3. CASE Delete
    BY <1>3 DEF Delete, DatesDiffer
<1>4. CASE UNCHANGED <<rows, overtaken>>
    BY <1>4 DEF rows, DatesDiffer
<1>q. QED
    BY <1>1, <1>2, <1>3, <1>4, WhoWritesRows

\* ... so that an import leaves the version in effect in the weeks outside its window, ...
LEMMA ImportKeepsOthers ==
    ASSUME Types, Next, DatesDiffer, NEW a \in Admin, Import(a),
           NEW w \in Week, w \notin Window(admin[a].from), NEW v, Resolved(w, v)
    PROVE  /\ v = Applicable(versions', w) /\ v # 0
           /\ versions'[v].members = versions[v].members
<1> DEFINE f == admin[a].from
<1>0. versions \in Seq(Version) /\ versions' \in Seq(Version) /\ w \in Nat /\ DatesDiffer'
  <2>1. versions \in Seq(Version) /\ w \in Nat
      BY CollectionAssumption DEF Types, RowTypes, Week
  <2>2. DatesDiffer'
      BY NextDatesDiffer
  <2>3. versions' \in Seq(Version)
      BY NextTypes DEF Types, RowTypes
  <2>q. QED
      BY <2>1, <2>2, <2>3
<1>1. InEffect(versions, w, v)
    BY <1>0, ApplicableIsInEffect DEF Resolved
<1>2. f \in Nat /\ \A u \in DOMAIN versions : versions[u].from \in Nat
    BY <1>0, DatesAreWeeks, CollectionAssumption DEF Types, RequestTypes, Request
<1>3. f <= w => f <= versions[v].from
  <2>1. ~(w >= f) \/ \E x \in DOMAIN versions : versions[x].from > f /\ ~(w < versions[x].from)
      BY DEF Window
  <2>2. ASSUME NEW x \in DOMAIN versions, versions[x].from > f, ~(w < versions[x].from)
        PROVE  f <= versions[v].from
      BY <1>0, <1>1, <1>2, <2>2 DEF InEffect
  <2>q. QED
      BY <1>0, <1>2, <2>1, <2>2
<1>4. InEffect(versions', w, v)
  <2>1. /\ Len(versions) \in Nat /\ DOMAIN versions = 1 .. Len(versions)
        /\ DOMAIN versions' = 1 .. (Len(versions) + 1)
        /\ \A u \in DOMAIN versions : versions'[u] = versions[u]
        /\ versions'[Len(versions) + 1].from = f
      BY AppendedVersions
  <2>2. v \in DOMAIN versions'
      BY <1>1, <2>1 DEF InEffect
  <2>3. \A u \in DOMAIN versions' : u \in DOMAIN versions \/ u = Len(versions) + 1
      BY <2>1
  <2> HIDE DEF f
  <2>q. QED
      BY <1>1, <1>3, <2>1, <2>2, <2>3 DEF InEffect
<1>5. v = Applicable(versions', w) /\ v # 0
    BY <1>0, <1>4, InEffectIsApplicable DEF DatesDiffer
<1>6. versions'[v] = versions[v]
    BY <1>1, AppendedVersions DEF InEffect
<1>q. QED
    BY <1>5, <1>6

\* ... and a correction leaves it in all weeks.
LEMMA ReplaceKeepsDates ==
    ASSUME Types, Next, DatesDiffer, NEW x \in DOMAIN versions, NEW file \in SUBSET Instrument,
           Replace(x, file), NEW w \in Week, NEW v, Resolved(w, v)
    PROVE  /\ v = Applicable(versions', w) /\ v # 0
           /\ v # x => versions'[v].members = versions[v].members
<1>0. versions \in Seq(Version) /\ versions' \in Seq(Version) /\ w \in Nat /\ DatesDiffer'
  <2>1. versions \in Seq(Version) /\ w \in Nat
      BY CollectionAssumption DEF Types, RowTypes, Week
  <2>2. DatesDiffer'
      BY NextDatesDiffer
  <2>3. versions' \in Seq(Version)
      BY NextTypes DEF Types, RowTypes
  <2>q. QED
      BY <2>1, <2>2, <2>3
<1>1. InEffect(versions, w, v)
    BY <1>0, ApplicableIsInEffect DEF Resolved
<1>2. /\ DOMAIN versions' = DOMAIN versions
      /\ \A u \in DOMAIN versions : /\ versions'[u].from = versions[u].from
                                    /\ u # x => versions'[u] = versions[u]
  <2>1. \A u \in DOMAIN versions : versions[u] \in Version
      BY <1>0
  <2>q. QED
      BY <2>1 DEF Replace, Version
<1>3. InEffect(versions', w, v)
    BY <1>1, <1>2 DEF InEffect
<1>4. v = Applicable(versions', w) /\ v # 0
    BY <1>0, <1>3, InEffectIsApplicable DEF DatesDiffer
<1>q. QED
    BY <1>1, <1>2, <1>4 DEF InEffect

\* The weeks of a version follow one another: after its first week the next one to do is of the
\* same version, if there is another one at all.
LEMMA GroupGoesOn ==
    ASSUME Types, DatesDiffer, NEW s \in Slot, slot[s].at = "history",
           \A w \in slot[s].todo : Resolved(w, slot[s].plan[w]),
           Group(s) # {Min(slot[s].todo)}
    PROVE  slot[s].plan[Min(slot[s].todo \ {Min(slot[s].todo)})] = slot[s].plan[Min(slot[s].todo)]
<1> DEFINE todo == slot[s].todo
           plan == slot[s].plan
           first == Min(todo)
           second == Min(todo \ {first})
<1>0. todo \in SUBSET Week /\ todo # {} /\ versions \in Seq(Version) /\ Week \subseteq Nat
    BY CollectionAssumption DEF Types, RowTypes, SlotTypes, Sound, Progress, Week
<1>1. first \in todo /\ \A w \in todo : first <= w
    BY <1>0, NextWeek
<1>2. PICK third \in todo : third # first /\ plan[third] = plan[first]
    BY <1>1 DEF Group
<1>3. second \in todo /\ second <= third
  <2>1. todo \ {first} \in SUBSET Week /\ third \in todo \ {first}
      BY <1>0, <1>2
  <2>q. QED
      BY <2>1, NextWeek
<1>4. first \in Nat /\ second \in Nat /\ third \in Nat /\ first <= second
    BY <1>0, <1>1, <1>2, <1>3
<1> HIDE DEF first, second
<1>5. \A w \in todo : InEffect(versions, w, plan[w])
  <2> SUFFICES ASSUME NEW w \in todo PROVE InEffect(versions, w, plan[w])
      OBVIOUS
  <2>1. Resolved(w, plan[w]) /\ w \in Nat
      BY <1>0
  <2>q. QED
      BY <1>0, <2>1, ApplicableIsInEffect DEF Resolved
<1> HIDE DEF todo, plan
<1>6. /\ InEffect(versions, first, plan[first]) /\ InEffect(versions, third, plan[first])
      /\ InEffect(versions, second, plan[second])
    BY <1>1, <1>2, <1>3, <1>5
<1>7. versions[plan[first]].from \in Nat /\ versions[plan[second]].from \in Nat
    BY <1>0, <1>6, DatesAreWeeks DEF InEffect
<1>8. versions[plan[first]].from <= versions[plan[second]].from
    BY <1>4, <1>6, <1>7 DEF InEffect
<1>9. versions[plan[second]].from <= versions[plan[first]].from
    BY <1>3, <1>4, <1>6, <1>7 DEF InEffect
<1>10. plan[second] = plan[first]
    BY <1>6, <1>7, <1>8, <1>9 DEF InEffect, DatesDiffer
<1>q. QED
    BY <1>10 DEF todo, plan, first, second

\* No rebuild and no sync holds versions while one commits, or nothing is said.
LEMMA NobodyRebuilds ==
    ASSUME Types, "rebuild" \notin overtaken',
           \/ \E a \in Admin : Import(a)
           \/ \E v \in DOMAIN versions, file \in SUBSET Instrument : Replace(v, file)
    PROVE  ~Rebuilding /\ slot' = slot /\ inc' = inc
BY DEF Import, ImportCommits, Replace, Overtakes

\* What a rebuilding slot holds is still so after a step that changes no version.
LEMMA SlotVersionsStand ==
    ASSUME Types, Next, DatesDiffer, versions' = versions, NEW s \in Slot,
           slot[s].at \in {"group", "history"} =>
               \A w \in slot[s].todo : Resolved(w, slot[s].plan[w]),
           slot[s].at = "history" =>
               slot[s].universe = versions[slot[s].plan[Min(slot[s].todo)]].members
    PROVE  /\ slot'[s].at \in {"group", "history"} =>
                  \A w \in slot'[s].todo : Resolved(w, slot'[s].plan[w])
           /\ slot'[s].at = "history" =>
                  slot'[s].universe = versions[slot'[s].plan[Min(slot'[s].todo)]].members
<1>1. CASE slot'[s] = slot[s]
    BY <1>1
<1>2. CASE slot'[s].at \notin {"group", "history"}
    BY <1>2
<1>3. CASE RebuildMoves(s)
  <2>1. CASE slot[s].at = "resolve" /\ slot'[s].at = "group"
      BY <1>3, <2>1 DEF RebuildMoves
  <2>2. CASE slot[s].at = "group" /\ slot'[s].at \in {"group", "history"}
      BY <1>3, <2>2 DEF RebuildMoves
  <2>3. CASE /\ slot[s].at = "history"
             /\ slot'[s].plan = slot[s].plan /\ slot'[s].universe = slot[s].universe
             /\ slot'[s].todo = slot[s].todo \ {Min(slot[s].todo)}
             /\ slot'[s].at = IF Group(s) = {Min(slot[s].todo)} THEN "group" ELSE "history"
    <3>1. slot'[s].at = "history" => Group(s) # {Min(slot[s].todo)}
        BY <2>3
    <3>2. slot'[s].at = "history" =>
              slot[s].plan[Min(slot[s].todo \ {Min(slot[s].todo)})] =
                  slot[s].plan[Min(slot[s].todo)]
        BY <2>3, <3>1, GroupGoesOn
    <3>q. QED
        BY <2>3, <3>2
  <2>4. CASE slot'[s].at = "available"
      BY <2>4
  <2>q. QED
      BY <1>3, <2>1, <2>2, <2>3, <2>4 DEF RebuildMoves
<1>4. Moves(s)
    BY SlotMoves
<1>q. QED
    BY <1>1, <1>2, <1>3, <1>4 DEF Moves, GeneratorMoves

\* Every step keeps the historical runs on the versions of now.
LEMMA NextVersionsStand ==
    ASSUME Types, Next, DatesDiffer, VersionsStand, HistoryFollowsVersions
    PROVE  VersionsStand' /\ HistoryFollowsVersions'
<1> SUFFICES ASSUME "rebuild" \notin overtaken'
             PROVE  VersionsStand' /\ HistoryFollowsVersions'
    BY DEF VersionsStand, HistoryFollowsVersions
<1> DEFINE Of(w, v, vs) == historical[w] = [version |-> v, universe |-> vs[v].members]
<1>0. /\ "rebuild" \notin overtaken
      /\ historical \in [Week -> Run \union {NoRun}]
    BY NextOvertakenTypes DEF Types, RunTypes
<1>a. \A w \in Week : historical[w] # NoRun =>
          Resolved(w, Applicable(versions, w)) /\ Of(w, Applicable(versions, w), versions)
    BY <1>0 DEF HistoryFollowsVersions, Resolved
<1>1. ASSUME NEW a \in Admin, Import(a) PROVE VersionsStand' /\ HistoryFollowsVersions'
  <2>1. ~Rebuilding /\ slot' = slot /\ inc' = inc
      BY <1>1, NobodyRebuilds
  <2>2. VersionsStand'
      BY <2>1 DEF Rebuilding, VersionsStand
  <2>3. ASSUME NEW w \in Week, historical'[w] # NoRun
        PROVE  /\ Applicable(versions', w) # 0
               /\ historical'[w] = [version |-> Applicable(versions', w),
                                    universe |-> versions'[Applicable(versions', w)].members]
    <3>1. w \notin Window(admin[a].from) /\ historical'[w] = historical[w]
        BY <1>1, <2>3 DEF Import, ImportCommits
    <3>2. Resolved(w, Applicable(versions, w)) /\ Of(w, Applicable(versions, w), versions)
        BY <1>a, <2>3, <3>1
    <3>3. /\ Applicable(versions, w) = Applicable(versions', w) /\ Applicable(versions, w) # 0
          /\ versions'[Applicable(versions, w)].members = versions[Applicable(versions, w)].members
        BY <1>1, <3>1, <3>2, ImportKeepsOthers
    <3>q. QED
        BY <3>1, <3>2, <3>3
  <2>q. QED
      BY <2>2, <2>3 DEF HistoryFollowsVersions
<1>2. ASSUME NEW x \in DOMAIN versions, NEW file \in SUBSET Instrument, Replace(x, file)
      PROVE  VersionsStand' /\ HistoryFollowsVersions'
  <2>1. ~Rebuilding /\ slot' = slot /\ inc' = inc
      BY <1>2, NobodyRebuilds
  <2>2. VersionsStand'
      BY <2>1 DEF Rebuilding, VersionsStand
  <2>3. ASSUME NEW w \in Week, historical'[w] # NoRun
        PROVE  /\ Applicable(versions', w) # 0
               /\ historical'[w] = [version |-> Applicable(versions', w),
                                    universe |-> versions'[Applicable(versions', w)].members]
    <3>1. historical'[w] = historical[w] /\ historical[w].version # x
        BY <1>2, <2>3 DEF Replace, Without
    <3>2. Resolved(w, Applicable(versions, w)) /\ Of(w, Applicable(versions, w), versions)
        BY <1>a, <2>3, <3>1
    <3>3. Applicable(versions, w) # x
        BY <3>1, <3>2
    <3>4. /\ Applicable(versions, w) = Applicable(versions', w) /\ Applicable(versions, w) # 0
          /\ versions'[Applicable(versions, w)].members = versions[Applicable(versions, w)].members
        BY <1>2, <3>2, <3>3, ReplaceKeepsDates
    <3>q. QED
        BY <3>1, <3>2, <3>4
  <2>q. QED
      BY <2>2, <2>3 DEF HistoryFollowsVersions
<1>3. CASE Delete
  <2>1. exists' = FALSE /\ \A w \in Week : historical'[w] = NoRun
      BY <1>3 DEF Delete
  <2>q. QED
      BY <2>1 DEF VersionsStand, HistoryFollowsVersions
<1>4. CASE UNCHANGED <<rows, overtaken>>
  <2>0. versions' = versions /\ exists' = exists
      BY <1>4 DEF rows
  <2>1. ASSUME NEW s \in Slot, exists
        PROVE  /\ slot'[s].at \in {"group", "history"} =>
                      \A w \in slot'[s].todo : Resolved(w, slot'[s].plan[w])
               /\ slot'[s].at = "history" =>
                      slot'[s].universe = versions[slot'[s].plan[Min(slot'[s].todo)]].members
    <3>1. /\ slot[s].at \in {"group", "history"} =>
                 \A w \in slot[s].todo : Resolved(w, slot[s].plan[w])
          /\ slot[s].at = "history" =>
                 slot[s].universe = versions[slot[s].plan[Min(slot[s].todo)]].members
        BY <1>0, <2>1 DEF VersionsStand
    <3>q. QED
        BY <2>0, <3>1, SlotVersionsStand
  <2>2. exists /\ inc'.at \in {"lookBack", "putBack"} =>
            Resolved(LastWeek, inc'.version) /\ inc'.universe = versions[inc'.version].members
      BY <1>0, IncMoves DEF SyncMoves, VersionsStand
  <2>3. VersionsStand'
      BY <2>0, <2>1, <2>2 DEF VersionsStand, Resolved
  <2>4. ASSUME \A w \in Week : historical'[w] # NoRun =>
                   \/ historical'[w] = historical[w]
                   \/ \E v : Resolved(w, v) /\ historical'[w] = [version |-> v,
                                                                 universe |-> versions[v].members]
        PROVE  HistoryFollowsVersions'
      BY <1>a, <2>0, <2>4 DEF HistoryFollowsVersions, Resolved
  <2>5. CASE UNCHANGED historical
      BY <2>3, <2>4, <2>5
  <2>6. CASE IncPutBack
    <3>1. exists /\ historical' # historical =>
              /\ historical' = [historical EXCEPT ![LastWeek] =
                                    [version |-> inc.version, universe |-> inc.universe]]
              /\ Resolved(LastWeek, inc.version) /\ inc.universe = versions[inc.version].members
        BY <1>0, <2>6 DEF IncPutBack, VersionsStand
    <3>2. historical' # historical => exists
        BY <2>6 DEF IncPutBack
    <3>q. QED
        BY <1>0, <2>3, <2>4, <3>1, <3>2
  <2>7. ASSUME NEW s \in Slot, PersistHistory(s) PROVE HistoryFollowsVersions'
    <3> DEFINE first == Min(slot[s].todo)
               v == slot[s].plan[first]
    <3>1. first \in slot[s].todo /\ first \in Week
        BY <2>7, RebuiltVersion DEF PersistHistory
    <3>2. CASE exists
      <4>1. Resolved(first, v) /\ slot[s].universe = versions[v].members
          BY <1>0, <2>7, <3>1, <3>2 DEF VersionsStand, PersistHistory
      <4>2. historical' = [historical EXCEPT ![first] = [version |-> v,
                                                         universe |-> slot[s].universe]]
          BY <2>7, <3>2 DEF PersistHistory
      <4> HIDE DEF v, first
      <4>q. QED
          BY <1>0, <2>4, <4>1, <4>2
    <3>3. CASE ~exists
        BY <2>5, <2>7, <3>3 DEF PersistHistory
    <3>q. QED
        BY <3>2, <3>3
  <2>q. QED
      BY <1>1, <1>2, <1>3, <2>3, <2>5, <2>6, <2>7, WhoWritesHistory
<1>q. QED
    BY <1>1, <1>2, <1>3, <1>4, WhoWritesRows

\* A step that writes nothing of this keeps it.
LEMMA VersionsUnchanged ==
    DatesDiffer /\ VersionsStand /\ HistoryFollowsVersions /\ UNCHANGED vars =>
        DatesDiffer' /\ VersionsStand' /\ HistoryFollowsVersions'
BY DEF vars, rows, runs, DatesDiffer, VersionsStand, HistoryFollowsVersions, Resolved

\* It holds of a collection that was just prepared.
LEMMA InitVersionsStand == Init => DatesDiffer /\ VersionsStand /\ HistoryFollowsVersions
<1> SUFFICES ASSUME Init PROVE DatesDiffer /\ VersionsStand /\ HistoryFollowsVersions
    OBVIOUS
<1>1. PICK file \in (SUBSET Instrument) \ {{}}, from \in Week :
          /\ versions = <<[from |-> from, members |-> file]>>
          /\ historical = [w \in Week |-> IF w < from THEN NoRun
                                                     ELSE [version |-> 1, universe |-> file]]
    BY DEF Init
<1>2. DOMAIN versions = {1} /\ versions[1].from = from /\ versions[1].members = file
    BY <1>1
<1>3. DatesDiffer
    BY <1>2 DEF DatesDiffer
<1>4. VersionsStand
    BY DEF Init, Free, Quiet, VersionsStand
<1>5. ASSUME NEW w \in Week, historical[w] # NoRun
      PROVE  Applicable(versions, w) = 1 /\ historical[w] = [version |-> 1, universe |-> file]
  <2>1. w \in Nat /\ from \in Nat /\ versions \in Seq(Version)
      BY CollectionAssumption, InitTypes DEF Week, Types, RowTypes
  <2>2. from <= w /\ historical[w] = [version |-> 1, universe |-> file]
      BY <1>1, <1>5, <2>1
  <2>3. InEffect(versions, w, 1)
      BY <1>2, <2>1, <2>2 DEF InEffect
  <2>q. QED
      BY <1>3, <2>1, <2>2, <2>3, InEffectIsApplicable DEF DatesDiffer
<1>q. QED
    BY <1>2, <1>3, <1>4, <1>5 DEF HistoryFollowsVersions

-----------------------------------------------------------------------------
(* The status of the preparation *)

\* The versions of jobs are numbers, and only those of preparations are above 0.
LEMMA JobVersions == \A j \in Job \union {NoJob} : j.version \in Nat
BY DEF Job, Prepare, Backfill, Rebuild, NoJob, VersionId

\* Asking a preparation of a version, an admin knows that version.
LEMMA AdminAsks ==
    ASSUME Types, Next, UNCHANGED rows, NEW a \in Admin, exists, admin'[a].at = "trigger"
    PROVE  \/ admin'[a].version = latest
           \/ admin[a].at = "trigger" /\ admin'[a].version = admin[a].version
<1>0. admin \in [Admin -> Request]
    BY DEF Types, RequestTypes
<1>1. CASE UNCHANGED admin
    BY <1>1
<1>2. ASSUME NEW b \in Admin,
             ImportRefused(b) \/ Trigger(b) \/ MarkQueueUnavailable(b) \/ TriggerLost(b)
      PROVE  admin'[a] = admin[a] \/ admin'[a].at = "idle"
    BY <1>0, <1>2 DEF ImportRefused, Trigger, MarkQueueUnavailable, TriggerLost, Waiting
<1>3. ASSUME NEW b \in Admin, Retry(b) \/ Sweep(b)
      PROVE  admin'[a] = admin[a] \/ admin'[a].version = latest
    BY <1>0, <1>3 DEF Retry, Sweep, Waiting
<1>4. ASSUME NEW b \in Admin, TriggerRejected(b)
      PROVE  admin'[a] = admin[a] \/ admin'[a].at = "refuse"
    BY <1>0, <1>4 DEF TriggerRejected, Request
<1>5. ASSUME NEW b \in Admin, NEW file \in SUBSET Instrument, NEW from \in Week,
             ImportClassify(b, file, from)
      PROVE  admin'[a] = admin[a] \/ admin'[a].at = "commit"
    BY <1>0, <1>5 DEF ImportClassify
<1>6. ~ \E b \in Admin : Import(b)
  <2>1. ASSUME NEW b \in Admin, Import(b) PROVE FALSE
    <3>1. latest = Len(versions) /\ latest \in Nat
        BY DEF Types, RowTypes
    <3>2. latest' = Len(versions) + 1
        BY <2>1, ImportAppends
    <3>q. QED
        BY <3>1, <3>2 DEF rows
  <2>q. QED
      BY <2>1
<1>7. UNCHANGED admin \/ admin'[a].at = "idle" \/ admin'[a] = admin[a]
      \/ admin'[a].version = latest \/ admin'[a].at \in {"refuse", "commit"}
    BY <1>2, <1>3, <1>4, <1>5, <1>6, WhoMovesAdmins
       DEF RequestStep, AdminSteps, RequestBacktest, Replace, Delete
<1>q. QED
    BY <1>1, <1>7

\* What is in the queue was there, or is a preparation some admin asked for, a job of no version,
\* or the job of a slot.
LEMMA QueueHolds ==
    ASSUME Types, Next, ~Delete, NEW i \in DOMAIN queue'
    PROVE  \/ \E k \in DOMAIN queue : queue'[i] = queue[k]
           \/ \E a \in Admin : admin[a].at = "trigger" /\ queue'[i].version = admin[a].version
           \/ queue'[i].version = 0
           \/ \E s \in Slot : queue'[i] = slot[s].job
<1>0. queue \in Seq(Job)
    BY DEF Types
<1>1. ASSUME NEW j \in Job, Queued(j)
      PROVE  queue'[i] = j \/ \E k \in DOMAIN queue : queue'[i] = queue[k]
    BY <1>0, <1>1, AppendProperties DEF Queued
<1>2. CASE UNCHANGED queue
    BY <1>2
<1>3. ASSUME NEW a \in Admin, Trigger(a) \/ TriggerRejected(a)
      PROVE  \/ \E k \in DOMAIN queue : queue'[i] = queue[k]
             \/ admin[a].at = "trigger" /\ queue'[i].version = admin[a].version
  <2>1. Prepare(admin[a].version) \in Job /\ Prepare(admin[a].version).version = admin[a].version
      BY <1>3 DEF Types, RequestTypes, Request, Trigger, TriggerRejected, Job, Prepare, VersionId
  <2>2. admin[a].at = "trigger" /\ (UNCHANGED queue \/ Queued(Prepare(admin[a].version)))
      BY <1>3 DEF Trigger, TriggerRejected
  <2>q. QED
      BY <1>1, <2>1, <2>2
<1>4. ASSUME NEW j \in {Backfill, Rebuild}, RequestBacktest(j)
      PROVE  queue'[i].version = 0 \/ \E k \in DOMAIN queue : queue'[i] = queue[k]
  <2>1. j \in Job /\ j.version = 0 /\ Queued(j)
      BY <1>4 DEF RequestBacktest, Job, Backfill, Rebuild
  <2>q. QED
      BY <1>1, <2>1
<1>5. ASSUME NEW s \in Slot, Take(s)
      PROVE  \E k \in DOMAIN queue : queue'[i] = queue[k]
  <2>1. queue # <<>> /\ queue' = Tail(queue)
      BY <1>5 DEF Take
  <2>q. QED
      BY <1>0, <2>1, HeadTailProperties
<1>6. ASSUME NEW s \in Slot, Crash(s)
      PROVE  queue'[i] = slot[s].job \/ \E k \in DOMAIN queue : queue'[i] = queue[k]
  <2>1. slot[s].job \in Job
      BY <1>6 DEF Types, SlotTypes, Sound, Crash
  <2>2. CASE queue' = Append(queue, slot[s].job)
      BY <1>0, <2>1, <2>2, AppendProperties
  <2>3. CASE queue' = <<slot[s].job>> \o queue
      BY <1>0, <2>1, <2>3
  <2>q. QED
      BY <1>6, <2>2, <2>3 DEF Crash
<1>q. QED
    BY <1>2, <1>3, <1>4, <1>5, <1>6, WhoWritesQueue

\* No job gets ahead of the versions.
LEMMA NextJobsInOrder == ASSUME Types, Next, JobsInOrder PROVE JobsInOrder'
<1>0. latest \in Nat /\ (exists <=> latest # 0)
    BY DEF Types, RowTypes
<1>1. ASSUME NEW a \in Admin, Import(a) PROVE JobsInOrder'
  <2>1. latest' = latest + 1 /\ exists /\ UNCHANGED <<exists, queue, slot>>
      BY <1>1, ImportAppends DEF Types, RowTypes
  <2>2. /\ \A s \in Slot : slot[s].job.version \in Nat
        /\ \A i \in DOMAIN queue : queue[i].version \in Nat
        /\ \A b \in Admin : admin[b].version \in Nat
      BY JobVersions DEF Types, SlotTypes, Progress, RequestTypes, Request
  <2>3. ASSUME NEW b \in Admin
        PROVE  admin'[b] = admin[b] \/ admin'[b].version = latest'
      BY <1>1 DEF Import, ImportCommits, Types, RequestTypes, Waiting
  <2>q. QED
      BY <1>0, <2>1, <2>2, <2>3 DEF JobsInOrder
<1>2. ASSUME NEW v \in DOMAIN versions, NEW file \in SUBSET Instrument, Replace(v, file)
      PROVE  JobsInOrder'
    BY <1>2 DEF Replace, JobsInOrder
<1>3. CASE Delete
    BY <1>3 DEF Delete, JobsInOrder
<1>4. ASSUME UNCHANGED <<rows, overtaken>>, ~Delete PROVE JobsInOrder'
  <2> SUFFICES ASSUME exists
               PROVE  /\ \A s \in Slot : slot'[s].job.version <= latest
                      /\ \A i \in DOMAIN queue' : queue'[i].version <= latest
                      /\ \A a \in Admin : admin'[a].at = "trigger" => admin'[a].version <= latest
      BY <1>4 DEF JobsInOrder, rows
  <2>0. /\ \A s \in Slot : slot[s].job.version <= latest
        /\ \A i \in DOMAIN queue : queue[i].version <= latest
        /\ \A a \in Admin : admin[a].at = "trigger" => admin[a].version <= latest
      BY DEF JobsInOrder
  <2>1. ASSUME NEW s \in Slot PROVE slot'[s].job.version <= latest
    <3>1. \/ slot'[s].job = slot[s].job \/ slot'[s].job = NoJob
          \/ Take(s) /\ slot'[s].job = Head(queue)
        BY SlotMoves DEF Moves, GoesOn
    <3>2. Take(s) => 1 \in DOMAIN queue /\ Head(queue) = queue[1]
        BY DEF Take, Types
    <3>q. QED
        BY <1>0, <2>0, <3>1, <3>2 DEF NoJob
  <2>2. ASSUME NEW i \in DOMAIN queue' PROVE queue'[i].version <= latest
      BY <1>0, <1>4, <2>0, <2>2, QueueHolds
  <2>3. ASSUME NEW a \in Admin, admin'[a].at = "trigger" PROVE admin'[a].version <= latest
      BY <1>0, <1>4, <2>0, <2>3, AdminAsks
  <2>q. QED
      BY <2>1, <2>2, <2>3
<1>q. QED
    BY <1>1, <1>2, <1>3, <1>4, WhoWritesRows

\* The stages from the reading of the members to the version check.
Working == {"sync", "cover", "generate", "weeks", "resolve", "group", "history", "available"}
Built == {"resolve", "group", "history", "available"}

\* An import makes every job that is there one of an older version.
LEMMA ImportSupersedes ==
    ASSUME Types, JobsInOrder, NEW a \in Admin, Import(a), NEW s \in Slot
    PROVE  slot'[s].job.version # latest'
<1>1. latest \in Nat /\ latest = Len(versions) /\ exists
    BY DEF Types, RowTypes, Import
<1>2. latest' = Len(versions) + 1 /\ slot' = slot
    BY ImportAppends
<1>3. slot[s].job.version \in Nat /\ slot[s].job.version <= latest
    BY <1>1, JobVersions DEF Types, SlotTypes, Progress, JobsInOrder
<1>q. QED
    BY <1>1, <1>2, <1>3

\* A collection that is there has a version, so that a backfill or rebuild is never of the latest.
LEMMA LatestIsAVersion == Types /\ exists => latest # 0
BY DEF Types, RowTypes

\* The preparation of the latest version still has the members of now.
LEMMA NextMembersOfNow ==
    ASSUME Types, Next, JobsInOrder, MembersOfNow PROVE MembersOfNow'
<1>1. ASSUME NEW a \in Admin, Import(a) PROVE MembersOfNow'
    BY <1>1, ImportSupersedes DEF MembersOfNow
<1>2. ASSUME NEW v \in DOMAIN versions, NEW file \in SUBSET Instrument, Replace(v, file)
      PROVE  MembersOfNow'
    BY <1>2 DEF Replace, MembersOfNow
<1>3. CASE Delete
    BY <1>3 DEF Delete, MembersOfNow
<1>4. CASE UNCHANGED <<rows, overtaken>>
  <2> SUFFICES ASSUME exists, NEW s \in Slot, slot'[s].job.version = latest,
                      slot'[s].at \in Working
               PROVE  slot'[s].members = active
      BY <1>4 DEF MembersOfNow, rows, Working
  <2>1. slot[s].job.version = latest /\ slot[s].at \in Working => slot[s].members = active
      BY DEF MembersOfNow, Working
  <2>2. \/ slot'[s] = slot[s]
        \/ slot'[s].members = active
        \/ slot[s].at \in Working /\ GoesOn(s)
      BY SlotMoves, LatestIsAVersion DEF Moves, GeneratorMoves, RebuildMoves, Working
  <2>q. QED
      BY <2>1, <2>2 DEF GoesOn
<1>q. QED
    BY <1>1, <1>2, <1>3, <1>4, WhoWritesRows

\* A run that is written beside an unchanged membership is of the members of now.
LEMMA RunsOfNow ==
    ASSUME Types, Next, MembersStand, UNCHANGED <<rows, overtaken>>, "backfill" \notin overtaken,
           NEW w \in Week
    PROVE  current'[w] = current[w] \/ current'[w] = active
<1>0. /\ current \in [Week -> (SUBSET Instrument) \union {NoRun}]
      /\ exists => /\ \A s \in Slot : slot[s].at = "weeks" => slot[s].universe = active
                   /\ inc.at \in {"look", "put"} => inc.universe = active
    BY DEF Types, RunTypes, MembersStand
<1>1. CASE UNCHANGED current
    BY <1>1
<1>2. CASE IncPut
    BY <1>0, <1>2 DEF IncPut
<1>3. ASSUME NEW s \in Slot, PersistWeek(s) PROVE current'[w] = current[w] \/ current'[w] = active
    BY <1>0, <1>3 DEF PersistWeek
<1>4. ASSUME NEW a \in Admin, Import(a) PROVE FALSE
  <2>1. latest = Len(versions) /\ latest \in Nat
      BY DEF Types, RowTypes
  <2>2. latest' = Len(versions) + 1
      BY <1>4, ImportAppends
  <2>q. QED
      BY <2>1, <2>2 DEF rows
<1>5. ~Delete
    BY DEF Delete, rows
<1>q. QED
    BY <1>1, <1>2, <1>3, <1>4, <1>5, WhoWritesCurrent

\* So the weeks stay complete.
LEMMA CompleteStands ==
    ASSUME Types, Next, MembersStand, UNCHANGED <<rows, overtaken>>, "backfill" \notin overtaken,
           Complete
    PROVE  Complete'
BY RunsOfNow DEF Complete, rows

\* An import after which the weeks still count has changed no members, or no generator is at work.
LEMMA ImportOfWeeks ==
    ASSUME Types, NEW a \in Admin, Import(a), "backfill" \notin overtaken'
    PROVE  \/ \A s \in Slot : slot'[s].at # "weeks"
           \/ UNCHANGED <<exists, active, current, slot>> /\ "backfill" \notin overtaken
BY ImportOfMembers DEF Generating

\* The weeks a generator has done are of the members of now ...
LEMMA NextWeeksDone ==
    ASSUME Types, Next, MembersStand, WeeksDoneStand PROVE WeeksDoneStand'
<1> SUFFICES ASSUME "backfill" \notin overtaken' PROVE WeeksDoneStand'
    BY DEF WeeksDoneStand
<1>0. "backfill" \notin overtaken
    BY NextOvertakenTypes
<1>1. ASSUME NEW a \in Admin, Import(a) PROVE WeeksDoneStand'
    BY <1>1, ImportOfWeeks DEF WeeksDoneStand
<1>2. ASSUME NEW v \in DOMAIN versions, NEW file \in SUBSET Instrument, Replace(v, file)
      PROVE  WeeksDoneStand'
    BY <1>0, <1>2 DEF Replace, WeeksDoneStand
<1>3. CASE Delete
    BY <1>3 DEF Delete, WeeksDoneStand
<1>4. CASE UNCHANGED <<rows, overtaken>>
  <2> SUFFICES ASSUME exists, NEW s \in Slot, slot'[s].at = "weeks", active # {},
                      NEW w \in Week, w \notin slot'[s].todo
               PROVE  current'[w] = active
      BY <1>4 DEF WeeksDoneStand, rows
  <2>1. current[w] = active => current'[w] = active
      BY <1>0, <1>4, RunsOfNow
  <2>2. slot[s].at = "weeks" /\ w \notin slot[s].todo => current[w] = active
      BY <1>0 DEF WeeksDoneStand
  <2>3. CASE slot'[s] = slot[s]
      BY <2>1, <2>2, <2>3
  <2>4. CASE /\ PersistWeek(s) /\ slot[s].at = "weeks"
             /\ slot'[s].todo = slot[s].todo \ {Min(slot[s].todo)}
    <3>1. slot[s].universe = active /\ current \in [Week -> (SUBSET Instrument) \union {NoRun}]
        BY <1>0, <2>4 DEF MembersStand, Types, RunTypes
    <3>2. current' = [current EXCEPT ![Min(slot[s].todo)] = slot[s].universe] \/ current' = current
        BY <2>4 DEF PersistWeek
    <3>3. w = Min(slot[s].todo) =>
              \/ exists /\ current' = [current EXCEPT ![w] = slot[s].universe]
              \/ w \notin slot[s].todo
      <4>1. PersistWeek(s) /\ exists =>
                current' = [current EXCEPT ![Min(slot[s].todo)] = slot[s].universe]
          BY DEF PersistWeek
      <4>q. QED
          BY <2>4, <4>1
    <3>q. QED
        BY <2>1, <2>2, <2>4, <3>1, <3>3
  <2>5. CASE slot'[s].todo = Week
      BY <2>5
  <2>6. Moves(s)
      BY SlotMoves
  <2>q. QED
      BY <2>3, <2>4, <2>5, <2>6 DEF Moves, GeneratorMoves, RebuildMoves
<1>q. QED
    BY <1>1, <1>2, <1>3, <1>4, WhoWritesRows

\* ... so that all are when the preparation goes on ...
LEMMA NextBuiltOfNow ==
    ASSUME Types, Next, JobsInOrder, MembersStand, WeeksDoneStand, BuiltOfNow PROVE BuiltOfNow'
<1> SUFFICES ASSUME "backfill" \notin overtaken' PROVE BuiltOfNow'
    BY DEF BuiltOfNow
<1>0. "backfill" \notin overtaken
    BY NextOvertakenTypes
<1>1. ASSUME NEW a \in Admin, Import(a) PROVE BuiltOfNow'
    BY <1>1, ImportSupersedes DEF BuiltOfNow
<1>2. ASSUME NEW v \in DOMAIN versions, NEW file \in SUBSET Instrument, Replace(v, file)
      PROVE  BuiltOfNow'
    BY <1>0, <1>2 DEF Replace, BuiltOfNow, Complete
<1>3. CASE Delete
    BY <1>3 DEF Delete, BuiltOfNow
<1>4. CASE UNCHANGED <<rows, overtaken>>
  <2> SUFFICES ASSUME exists, NEW s \in Slot, slot'[s].job.version = latest, slot'[s].at \in Built
               PROVE  Complete'
      BY <1>4 DEF BuiltOfNow, rows, Built
  <2>1. slot[s].job.version = latest /\ slot[s].at \in Built => Complete
      BY <1>0 DEF BuiltOfNow, Built
  <2>2. slot[s].at = "weeks" /\ slot[s].todo = {} => Complete
      BY <1>0 DEF WeeksDoneStand, Complete
  <2>3. \/ slot'[s] = slot[s]
        \/ slot[s].at \in Built /\ GoesOn(s)
        \/ slot[s].at = "weeks" /\ slot[s].todo = {}
      BY SlotMoves, LatestIsAVersion DEF Moves, GeneratorMoves, RebuildMoves, Built
  <2>q. QED
      BY <1>0, <1>4, <2>1, <2>2, <2>3, CompleteStands DEF GoesOn
<1>q. QED
    BY <1>1, <1>2, <1>3, <1>4, WhoWritesRows

\* ... and when it writes its conclusion.
LEMMA NextConclusionStands ==
    ASSUME Types, Next, MembersStand, MembersOfNow, BuiltOfNow, ConclusionStands
    PROVE  ConclusionStands'
<1> SUFFICES ASSUME "conclusion" \notin overtaken' PROVE ConclusionStands'
    BY DEF ConclusionStands
<1>0. "conclusion" \notin overtaken /\ ("backfill" \notin overtaken' => "backfill" \notin overtaken)
    BY NextOvertakenTypes
<1>1. ASSUME NEW a \in Admin, Import(a) PROVE ConclusionStands'
  <2>1. ~Concluding /\ slot' = slot
      BY <1>1 DEF Import, ImportCommits, Overtakes
  <2>q. QED
      BY <2>1 DEF Concluding, ConclusionStands
<1>2. ASSUME NEW v \in DOMAIN versions, NEW file \in SUBSET Instrument, Replace(v, file)
      PROVE  ConclusionStands'
    BY <1>0, <1>2 DEF Replace, ConclusionStands, Complete
<1>3. CASE Delete
    BY <1>3 DEF Delete, ConclusionStands
<1>4. CASE UNCHANGED <<rows, overtaken>>
  <2> SUFFICES ASSUME exists, NEW s \in Slot, slot'[s].at = "final"
               PROVE  slot'[s].members = active /\ ("backfill" \notin overtaken => Complete')
      BY <1>4 DEF ConclusionStands, rows
  <2>1. slot[s].at = "final" =>
            slot[s].members = active /\ ("backfill" \notin overtaken => Complete)
      BY <1>0 DEF ConclusionStands
  <2>2. slot[s].at = "available" /\ slot[s].job.version = latest =>
            slot[s].members = active /\ ("backfill" \notin overtaken => Complete)
      BY DEF MembersOfNow, BuiltOfNow
  <2>3. \/ slot'[s] = slot[s]
        \/ slot[s].at = "available" /\ slot[s].job.version = latest /\ GoesOn(s)
      BY SlotMoves DEF Moves, GeneratorMoves, RebuildMoves
  <2>q. QED
      BY <1>4, <2>1, <2>2, <2>3, CompleteStands DEF GoesOn
<1>q. QED
    BY <1>1, <1>2, <1>3, <1>4, WhoWritesRows

\* What is shown as prepared is.
LEMMA NextPrepared ==
    ASSUME Types, Next, MembersStand, ConclusionStands, PreparedMeansCurrent
    PROVE  PreparedMeansCurrent'
<1> SUFFICES ASSUME status' \in {"ready", "partial"},
                    "backfill" \notin overtaken', "conclusion" \notin overtaken'
             PROVE  counted' = active' /\ Complete'
    BY DEF PreparedMeansCurrent, Complete
<1>0. "backfill" \notin overtaken /\ "conclusion" \notin overtaken
    BY NextOvertakenTypes
<1>a. status \in {"ready", "partial"} => counted = active /\ Complete
    BY <1>0 DEF PreparedMeansCurrent, Complete
<1>1. ASSUME NEW a \in Admin, Import(a) PROVE FALSE
    BY <1>1 DEF Import, ImportCommits
<1>2. ASSUME NEW v \in DOMAIN versions, NEW file \in SUBSET Instrument, Replace(v, file)
      PROVE  counted' = active' /\ Complete'
    BY <1>a, <1>2 DEF Replace, prep, Complete
<1>3. CASE Delete
    BY <1>3 DEF Delete
<1>4. CASE UNCHANGED <<rows, overtaken>>
  <2>0. active' = active /\ (Complete => Complete')
      BY <1>0, <1>4, CompleteStands DEF rows
  <2>1. CASE UNCHANGED prep
      BY <1>a, <2>0, <2>1 DEF prep
  <2>2. ASSUME NEW a \in Admin, MarkQueueUnavailable(a) PROVE counted' = active' /\ Complete'
      BY <1>a, <2>0, <2>2 DEF MarkQueueUnavailable
  <2>3. ASSUME NEW s \in Slot, MarkSyncing(s) \/ MarkBuilding(s) \/ ConcludeFailed(s)
        PROVE  counted' = active' /\ Complete'
      BY <1>a, <2>0, <2>3 DEF MarkSyncing, MarkBuilding, ConcludeFailed, SetStatus
  <2>4. ASSUME NEW s \in Slot, Conclude(s) PROVE counted' = active' /\ Complete'
    <3>1. CASE exists
      <4>1. slot[s].members = active /\ Complete
          BY <1>0, <2>4, <3>1 DEF Conclude, ConclusionStands
      <4>q. QED
          BY <2>0, <2>4, <3>1, <4>1 DEF Conclude
    <3>2. CASE ~exists
        BY <1>a, <2>0, <2>4, <3>2 DEF Conclude, SetStatus
    <3>q. QED
        BY <3>1, <3>2
  <2>q. QED
      BY <1>1, <1>3, <2>1, <2>2, <2>3, <2>4, WhoWritesStatus
<1>q. QED
    BY <1>1, <1>2, <1>3, <1>4, WhoWritesRows

\* A step that writes nothing of this keeps it.
LEMMA PreparedUnchanged ==
    /\ JobsInOrder /\ MembersOfNow /\ WeeksDoneStand /\ BuiltOfNow /\ ConclusionStands
    /\ PreparedMeansCurrent /\ UNCHANGED vars
    => /\ JobsInOrder' /\ MembersOfNow' /\ WeeksDoneStand' /\ BuiltOfNow' /\ ConclusionStands'
       /\ PreparedMeansCurrent'
BY DEF vars, rows, runs, prep, JobsInOrder, MembersOfNow, WeeksDoneStand, BuiltOfNow,
       ConclusionStands, PreparedMeansCurrent, Complete

\* It holds of a collection that was just prepared.
LEMMA InitPrepared ==
    Init => /\ JobsInOrder /\ MembersOfNow /\ WeeksDoneStand /\ BuiltOfNow /\ ConclusionStands
            /\ PreparedMeansCurrent
<1> SUFFICES ASSUME Init
             PROVE  /\ JobsInOrder /\ MembersOfNow /\ WeeksDoneStand /\ BuiltOfNow
                    /\ ConclusionStands /\ PreparedMeansCurrent
    OBVIOUS
<1>1. /\ \A s \in Slot : slot[s].at = "idle" /\ slot[s].job.version = 0
      /\ \A a \in Admin : admin[a].at = "idle"
      /\ queue = <<>> /\ latest = 1
    BY DEF Init, Free, NoJob, Waiting
<1>2. JobsInOrder
    BY <1>1 DEF JobsInOrder
<1>3. MembersOfNow /\ WeeksDoneStand /\ BuiltOfNow /\ ConclusionStands
    BY <1>1 DEF MembersOfNow, WeeksDoneStand, BuiltOfNow, ConclusionStands
<1>4. PreparedMeansCurrent
    BY DEF Init, PreparedMeansCurrent
<1>q. QED
    BY <1>2, <1>3, <1>4

-----------------------------------------------------------------------------
(* The theorems *)

\* The invariant holds in every state of the system: no step breaks it.
LEMMA Inductive == Init /\ [][Next]_vars => []IInv
<1>1. Init => IInv
    BY InitTypes, InitMembersStand, InitVersionsStand, InitPrepared DEF IInv
<1>2. IInv /\ [Next]_vars => IInv'
  <2> SUFFICES ASSUME IInv, [Next]_vars PROVE IInv'
      OBVIOUS
  <2>0. Types'
      BY NextTypes DEF IInv
  <2>1. CASE Next
    <3>1. MembersStand' /\ WeeksShareTheActiveSet'
        BY <2>1, NextMembersStand DEF IInv
    <3>2. DatesDiffer'
        BY <2>1, NextDatesDiffer DEF IInv
    <3>3. VersionsStand' /\ HistoryFollowsVersions'
        BY <2>1, NextVersionsStand DEF IInv
    <3>4. JobsInOrder' /\ MembersOfNow'
        BY <2>1, NextJobsInOrder, NextMembersOfNow DEF IInv
    <3>5. WeeksDoneStand' /\ BuiltOfNow'
        BY <2>1, NextWeeksDone, NextBuiltOfNow DEF IInv
    <3>6. ConclusionStands' /\ PreparedMeansCurrent'
        BY <2>1, NextConclusionStands, NextPrepared DEF IInv
    <3>q. QED
        BY <2>0, <3>1, <3>2, <3>3, <3>4, <3>5, <3>6 DEF IInv
  <2>2. CASE UNCHANGED vars
      BY <2>0, <2>2, MembersUnchanged, VersionsUnchanged, PreparedUnchanged DEF IInv
  <2>q. QED
      BY <2>1, <2>2
<1>q. QED
    BY <1>1, <1>2, PTL

\* Whatever imports, corrections, deletions, preparations, rebuilds and syncs follow or overlap
\* each other, a historical run is of the version in effect in its week, with the members that
\* version has now, unless a rebuild or the sync held versions while one of them committed.
THEOREM HistoryFollows == Spec => []HistoryFollowsVersions
<1>1. IInv => HistoryFollowsVersions
    BY DEF IInv
<1>q. QED
    BY <1>1, Inductive, PTL DEF Spec

\* All weeks of the backtest of the current membership are of the members of now, unless an import
\* of other members committed while a generator held the former ones.
THEOREM WeeksShare == Spec => []WeeksShareTheActiveSet
<1>1. IInv => WeeksShareTheActiveSet
    BY DEF IInv
<1>q. QED
    BY <1>1, Inductive, PTL DEF Spec

\* A collection shown as ready or partial is: its counts and all its weeks are of the members of
\* now, unless an import committed between the version check of a preparation and its last write,
\* or over a generator.
THEOREM Prepared == Spec => []PreparedMeansCurrent
<1>1. IInv => PreparedMeansCurrent
    BY DEF IInv
<1>q. QED
    BY <1>1, Inductive, PTL DEF Spec

-----------------------------------------------------------------------------
(* The instruments: the invariant *)

Row == [symbol : Name, token : Token \union Name]

Rename == [id : Nat, pair : Pair]

CallState == [at : {"idle", "fetch", "match", "owners", "write", "missing", "fallback"},
              kind : {"full", "search", "ensure"}, name : Name, todo : SUBSET Pair,
              renames : SUBSET Rename, alone : BOOLEAN]

UniverseTypes ==
    /\ listed \in Listings /\ cached \in [Process -> Listings \union {NoList}]
    /\ table \in Seq(Row) /\ call \in [Process -> CallState] /\ calm \in Nat
    /\ \A p \in Process : \A r \in call[p].renames : r.id \in Ids

\* exchange with symbol, and exchange with token, are unique keys of the table.
KeysAreUnique ==
    \A i, j \in Ids : table[i].symbol = table[j].symbol \/ table[i].token = table[j].token => i = j

PairsOf(c) == c.todo \union {r.pair : r \in c.renames}

\* What a call that nobody disturbed knows is so: its pairs are listed, the rows it renames still
\* have the listed token, a row it is about to rename gets a symbol that no row has, and a token
\* that it writes belongs to no other symbol.
Knows(c) ==
    /\ c.at \in {"fetch", "match"} => c.renames = {}
    /\ c.alone /\ c.at \in {"match", "owners", "write"} => PairsOf(c) \subseteq listed
    /\ c.alone /\ c.at = "match" /\ c.kind = "full" => c.todo = listed
    /\ c.alone /\ c.at \in {"owners", "write"} =>
          /\ \A r \in c.renames : /\ table[r.id].token = r.pair.token /\ table[r.id].symbol # r.pair.symbol
                                  /\ r.pair \notin c.todo
          /\ \A q \in c.todo : \A i \in Held(q.token) : table[i].symbol = q.symbol
    /\ c.alone /\ c.at = "write" => \A r \in c.renames : IdOf(r.pair.symbol) = {}

CallsKnow == \A p \in Process : Knows(call[p])

\* Every listed symbol has a row.
Settled == \A q \in listed : IdOf(q.symbol) # {}

Taken == {q \in listed : Present(q)}

\* A whole sync that nobody has disturbed since it read the table.
Undisturbed(p) == call[p].alone /\ call[p].kind = "full" /\ call[p].at \in {"match", "owners", "write"}

\* It has a symbol to add that no row has.
Adds(p) == \E q \in PairsOf(call[p]) : IdOf(q.symbol) = {}

\* Each undisturbed sync takes one more listed pair, until every listed symbol has a row.
SyncsTakeMore ==
    /\ Settled \/ Cardinality(Taken) >= calm
    /\ \A p \in Process : Undisturbed(p) =>
          \/ Settled
          \/ Adds(p)
          \/ /\ Cardinality(Taken) >= calm + 1
             /\ \A o \in Process \ {p} : Undisturbed(o) => Adds(o)

UniverseInv == UniverseTypes /\ KeysAreUnique /\ CallsKnow /\ SyncsTakeMore

-----------------------------------------------------------------------------
(* Lists and rows *)

\* A provider's list has one pair of a symbol and one of a token.
LEMMA ListingIs ==
    ASSUME NEW list \in Listings
    PROVE  list \subseteq Pair /\ \A p, q \in list : p.symbol = q.symbol \/ p.token = q.token => p = q
BY DEF Listings

\* It is no longer than there are tokens.
LEMMA ListingIsShort ==
    ASSUME NEW list \in Listings
    PROVE  IsFiniteSet(list) /\ Cardinality(list) <= Cardinality(Token)
<1> DEFINE tokenOf == [q \in list |-> q.token]
<1>1. tokenOf \in Injection(list, Token)
    BY ListingIs DEF Pair, Injection, IsInjective
<1>2. IsFiniteSet(Token)
    BY UniverseAssumption
<1> HIDE DEF tokenOf
<1>q. QED
    BY <1>1, <1>2, FS_Injection

\* The rows that an earlier list left have different symbols and different tokens.
LEMMA InsertedIs ==
    ASSUME NEW list \in Listings
    PROVE  /\ Inserted(list) \in Seq(list)
           /\ \A i, j \in DOMAIN Inserted(list) : Inserted(list)[i] = Inserted(list)[j] => i = j
<1> DEFINE n == Cardinality(list)
           Orders == {f \in [1..n -> list] : {f[k] : k \in DOMAIN f} = list}
<1>1. IsFiniteSet(list) /\ n \in Nat /\ ExistsBijection(1..n, list)
    BY ListingIsShort, FS_CardinalityType
<1>2. PICK g : g \in Bijection(1..n, list)
    BY <1>1 DEF ExistsBijection
<1>3. g \in Orders
    BY <1>2 DEF Bijection, Injection, Surjection
<1>4. PICK f : f = Inserted(list)
    OBVIOUS
<1>5. f \in [1..n -> list] /\ {f[i] : i \in DOMAIN f} = list
    BY <1>3, <1>4 DEF Inserted
<1> HIDE DEF n
<1>6. f \in Surjection(1..n, list)
    BY <1>5 DEF Surjection
<1>7. IsFiniteSet(1..n) /\ Cardinality(1..n) = Cardinality(list)
    BY <1>1, FS_Interval DEF n
<1>8. f \in Injection(1..n, list)
    BY <1>6, <1>7, FS_SurjSameCardinalityImpliesInj
<1>9. f \in Seq(list)
    BY <1>1, <1>5
<1>q. QED
    BY <1>4, <1>5, <1>8, <1>9 DEF Injection, IsInjective

\* Rows by their ids.
LEMMA RowsAre ==
    ASSUME UniverseTypes
    PROVE  Len(table) \in Nat /\ Ids = 1..Len(table) /\ \A i \in Ids : table[i] \in Row
BY DEF UniverseTypes, Ids

\* A row is replaced.
LEMMA RowReplaced ==
    ASSUME UniverseTypes, NEW i \in Ids, NEW row \in Row, table' = [table EXCEPT ![i] = row]
    PROVE  /\ table' \in Seq(Row) /\ Ids' = Ids
           /\ table'[i] = row /\ \A j \in Ids \ {i} : table'[j] = table[j]
<1>1. table \in Seq(Row) /\ i \in 1..Len(table)
    BY RowsAre DEF UniverseTypes
<1>2. /\ table' \in Seq(Row) /\ Len(table') = Len(table)
      /\ \A j \in 1..Len(table) : table'[j] = IF j = i THEN row ELSE table[j]
    BY <1>1, ExceptSeq
<1>3. Ids' = 1..Len(table')
    BY <1>2 DEF Ids
<1>q. QED
    BY <1>1, <1>2, <1>3, RowsAre

\* A row is added.
LEMMA RowAdded ==
    ASSUME UniverseTypes, NEW row \in Row, table' = Append(table, row)
    PROVE  /\ table' \in Seq(Row) /\ Ids' = Ids \union {Len(table) + 1} /\ Len(table) + 1 \notin Ids
           /\ table'[Len(table) + 1] = row /\ \A j \in Ids : table'[j] = table[j]
<1>1. /\ table' \in Seq(Row) /\ Len(table') = Len(table) + 1
      /\ \A j \in 1..Len(table) : table'[j] = table[j]
      /\ table'[Len(table) + 1] = row
    BY AppendProperties DEF UniverseTypes
<1>2. Ids' = 1..Len(table')
    BY <1>1 DEF Ids
<1>q. QED
    BY <1>1, <1>2, RowsAre

-----------------------------------------------------------------------------
(* What every step of a call shares *)

\* Call p goes on as c; another call is disturbed by a table that changes.
CallGoes(p, c) ==
    /\ call' \in [Process -> CallState] /\ call'[p] = c
    /\ \A o \in Process \ {p} :
          /\ call'[o].at = call[o].at /\ call'[o].kind = call[o].kind
          /\ call'[o].todo = call[o].todo /\ call'[o].renames = call[o].renames
          /\ call'[o].alone => call[o].alone /\ (table' = table \/ call[o].at = "idle")

\* What `Writes' does.
LEMMA WritesGo ==
    ASSUME UniverseInv, NEW p \in Process, NEW c \in CallState, NEW T, Writes(p, c, T)
    PROVE  table' = T /\ CallGoes(p, c)
<1>1. table' = T /\ call \in [Process -> CallState]
    BY DEF Writes, UniverseInv, UniverseTypes
<1>2. call' = [q \in Process |->
                 IF q = p THEN c
                 ELSE [call[q] EXCEPT !.alone = call[q].alone /\ (T = table \/ call[q].at = "idle")]]
    BY <1>1 DEF Writes, CallState
<1>3. ASSUME NEW o \in Process \ {p}
      PROVE  /\ call'[o] \in CallState
             /\ call'[o].at = call[o].at /\ call'[o].kind = call[o].kind
             /\ call'[o].todo = call[o].todo /\ call'[o].renames = call[o].renames
             /\ call'[o].alone => call[o].alone /\ (table' = table \/ call[o].at = "idle")
  <2>1. call[o] \in CallState
      BY <1>1
  <2>2. PICK b \in BOOLEAN : b = (call[o].alone /\ (T = table \/ call[o].at = "idle"))
      OBVIOUS
  <2>3. call'[o] = [call[o] EXCEPT !.alone = b]
      BY <1>2, <2>2
  <2>q. QED
      BY <1>1, <2>1, <2>2, <2>3 DEF CallState
<1>4. call' \in [Process -> CallState] /\ call'[p] = c
    BY <1>2, <1>3
<1>q. QED
    BY <1>1, <1>3, <1>4 DEF CallGoes

\* What it knows, for every call, if the one that goes on knows it.
LEMMA CallsGoOn ==
    ASSUME UniverseInv, NEW p \in Process, NEW c \in CallState, CallGoes(p, c),
           listed' = listed, cached' \in [Process -> Listings \union {NoList}], calm' \in Nat,
           table' \in Seq(Row), Ids \subseteq Ids', KeysAreUnique',
           \A r \in c.renames : r.id \in Ids', Knows(c)'
    PROVE  UniverseTypes' /\ KeysAreUnique' /\ CallsKnow'
<1>1. UniverseTypes'
  <2>1. ASSUME NEW o \in Process, NEW r \in call'[o].renames PROVE r.id \in Ids'
      BY <2>1 DEF CallGoes, UniverseInv, UniverseTypes
  <2>q. QED
      BY <2>1 DEF CallGoes, UniverseInv, UniverseTypes
<1>2. ASSUME NEW o \in Process PROVE Knows(call[o])'
  <2>1. CASE o = p
    <3>1. c = call'[o]
        BY <2>1 DEF CallGoes
    <3>q. QED
        BY <3>1 DEF Knows, IdOf, Held, Ids, PairsOf
  <2>2. CASE o # p
    <3>1. Knows(call[o])
        BY DEF UniverseInv, CallsKnow
    <3>2. /\ call'[o].at = call[o].at /\ call'[o].kind = call[o].kind
          /\ call'[o].todo = call[o].todo /\ call'[o].renames = call[o].renames
          /\ call'[o].alone => call[o].alone /\ (table' = table \/ call[o].at = "idle")
        BY <2>2 DEF CallGoes
    <3>3. CASE table' = table
        BY <3>1, <3>2, <3>3 DEF Knows, IdOf, Held, Ids, PairsOf
    <3>4. CASE table' # table
        BY <3>1, <3>2, <3>4 DEF Knows
    <3>q. QED
        BY <3>3, <3>4
  <2>q. QED
      BY <2>1, <2>2
<1>q. QED
    BY <1>1, <1>2 DEF CallsKnow

\* A part of a list is finite.
LEMMA PartIsFinite ==
    ASSUME NEW list \in Listings, NEW part \in SUBSET list
    PROVE  IsFiniteSet(part) /\ Cardinality(part) \in Nat
BY ListingIsShort, FS_Subset, FS_CardinalityType

\* What is taken can be counted.
LEMMA TakenIsFinite ==
    /\ UniverseTypes => IsFiniteSet(Taken) /\ Cardinality(Taken) \in Nat
    /\ UniverseTypes' => IsFiniteSet(Taken') /\ Cardinality(Taken') \in Nat
<1>1. Taken \subseteq listed /\ Taken' \subseteq listed'
    BY DEF Taken
<1>q. QED
    BY <1>1, PartIsFinite DEF UniverseTypes

\* A step that leaves the table: the call finds its symbols, keeps them or is disturbed.
LEMMA QuietTakes ==
    ASSUME UniverseInv, NEW p \in Process, NEW c, CallGoes(p, c), UNCHANGED <<listed, table>>,
           calm' \in Nat, calm' <= calm,
           Undisturbed(p)' => Settled \/ Adds(p)' \/ (Undisturbed(p) /\ (Adds(p) => Adds(p)'))
    PROVE  SyncsTakeMore'
<1>1. Settled' = Settled /\ Taken' = Taken /\ Cardinality(Taken) \in Nat /\ calm \in Nat
    BY TakenIsFinite DEF Settled, Taken, Present, IdOf, Ids, UniverseInv, UniverseTypes
<1>2. \A o \in Process \ {p} : (Undisturbed(o)' => Undisturbed(o)) /\ (Adds(o)' <=> Adds(o))
    BY DEF CallGoes, Undisturbed, Adds, PairsOf, IdOf, Ids
<1>3. Settled \/ Cardinality(Taken) >= calm'
    BY <1>1 DEF UniverseInv, SyncsTakeMore
<1>4. ASSUME NEW o \in Process, Undisturbed(o)', ~Settled, ~Adds(o)'
      PROVE  /\ Cardinality(Taken) >= calm' + 1
             /\ \A u \in Process \ {o} : Undisturbed(u)' => Adds(u)'
  <2>1. Undisturbed(o) /\ ~Adds(o)
      BY <1>2, <1>4
  <2>2. /\ Cardinality(Taken) >= calm + 1
        /\ \A u \in Process \ {o} : Undisturbed(u) => Adds(u)
      BY <1>4, <2>1 DEF UniverseInv, SyncsTakeMore
  <2>3. ASSUME NEW u \in Process \ {o}, Undisturbed(u)' PROVE Adds(u)'
      BY <1>2, <1>4, <2>2, <2>3
  <2>q. QED
      BY <1>1, <2>2, <2>3
<1>q. QED
    BY <1>1, <1>3, <1>4 DEF SyncsTakeMore

\* The end of an undisturbed sync.
LEMMA EndTakes ==
    ASSUME UniverseInv, NEW p \in Process, NEW c, CallGoes(p, c), UNCHANGED <<listed, table>>,
           calm' = calm + 1, Undisturbed(p), ~Adds(p), ~Undisturbed(p)'
    PROVE  SyncsTakeMore'
<1>1. Settled' = Settled /\ Taken' = Taken /\ Cardinality(Taken) \in Nat /\ calm \in Nat
    BY TakenIsFinite DEF Settled, Taken, Present, IdOf, Ids, UniverseInv, UniverseTypes
<1>2. \A o \in Process \ {p} : (Undisturbed(o)' => Undisturbed(o)) /\ (Adds(o)' <=> Adds(o))
    BY DEF CallGoes, Undisturbed, Adds, PairsOf, IdOf, Ids
<1>3. \/ Settled
      \/ /\ Cardinality(Taken) >= calm + 1
         /\ \A o \in Process \ {p} : Undisturbed(o) => Adds(o)
    BY DEF UniverseInv, SyncsTakeMore
<1>q. QED
    BY <1>1, <1>2, <1>3 DEF SyncsTakeMore

\* A write of a call that was disturbed, or is no whole sync.
LEMMA NewStart ==
    ASSUME UniverseTypes', calm' = 0, \A o \in Process : ~Undisturbed(o)'
    PROVE  SyncsTakeMore'
<1>1. Cardinality(Taken') \in Nat
    BY TakenIsFinite
<1>q. QED
    BY <1>1 DEF SyncsTakeMore

-----------------------------------------------------------------------------
(* The steps that leave the table *)

\* Such a step, as a whole.
LEMMA QuietStep ==
    ASSUME UniverseInv, NEW p \in Process, NEW c \in CallState, CallGoes(p, c),
           UNCHANGED <<listed, table>>, cached' \in [Process -> Listings \union {NoList}],
           calm' \in Nat, \A r \in c.renames : r.id \in Ids, Knows(c)', SyncsTakeMore'
    PROVE  UniverseInv' /\ RowsStayThemselves
<1>1. Ids' = Ids /\ KeysAreUnique'
    BY DEF Ids, KeysAreUnique, UniverseInv
<1>2. UniverseTypes' /\ KeysAreUnique' /\ CallsKnow'
    BY <1>1, CallsGoOn DEF UniverseInv, UniverseTypes
<1>3. RowsStayThemselves
    BY DEF RowsStayThemselves
<1>q. QED
    BY <1>2, <1>3 DEF UniverseInv

\* What the invariant says of one call.
LEMMA CallOf ==
    ASSUME UniverseInv, NEW p \in Process
    PROVE  call[p] \in CallState /\ Knows(call[p]) /\ \A r \in call[p].renames : r.id \in Ids
BY DEF UniverseInv, UniverseTypes, CallsKnow

\* A call begins: it knows nothing yet.
LEMMA AsksKeeps ==
    ASSUME UniverseInv, NEW p \in Process, NEW kind \in {"full", "search", "ensure"}, NEW name \in Name,
           Asks(p, kind, name)
    PROVE  UniverseInv' /\ RowsStayThemselves
<1>1. PICK c : c = [Still EXCEPT !.at = "fetch", !.kind = kind, !.name = name]
    OBVIOUS
<1>2. c \in CallState /\ c.at = "fetch" /\ c.renames = {}
    BY <1>1, UniverseAssumption DEF Still, CallState
<1>3. CallGoes(p, c) /\ UNCHANGED <<listed, table, cached, calm>>
    BY <1>1, <1>2, WritesGo DEF Asks, Steps
<1>4. ~Undisturbed(p)'
    BY <1>2, <1>3 DEF CallGoes, Undisturbed
<1>5. calm \in Nat /\ cached \in [Process -> Listings \union {NoList}]
    BY DEF UniverseInv, UniverseTypes
<1>6. SyncsTakeMore'
    BY <1>3, <1>4, <1>5, QuietTakes
<1>7. Knows(c)'
    BY <1>2 DEF Knows
<1>q. QED
    BY <1>2, <1>3, <1>5, <1>6, <1>7, QuietStep

\* A call that ends.
LEMMA StopKeeps ==
    ASSUME UniverseInv, NEW p \in Process, Steps(p, Still), listed' = listed,
           cached' \in [Process -> Listings \union {NoList}], calm' \in Nat, calm' <= calm
    PROVE  UniverseInv' /\ RowsStayThemselves
<1>1. Still \in CallState /\ Still.at = "idle" /\ Still.renames = {}
    BY UniverseAssumption DEF Still, CallState
<1>2. CallGoes(p, Still) /\ UNCHANGED <<listed, table>>
    BY <1>1, WritesGo DEF Steps
<1>3. ~Undisturbed(p)'
    BY <1>1, <1>2 DEF CallGoes, Undisturbed
<1>4. SyncsTakeMore'
    BY <1>2, <1>3, QuietTakes
<1>5. Knows(Still)'
    BY <1>1 DEF Knows
<1>q. QED
    BY <1>1, <1>2, <1>4, <1>5, QuietStep

\* A process's list is one that the provider had.
LEMMA ListKnown ==
    ASSUME UniverseInv, NEW p \in Process
    PROVE  /\ List(p) \in Listings /\ List(p) \subseteq Pair
           /\ [cached EXCEPT ![p] = List(p)] \in [Process -> Listings \union {NoList}]
<1>1. List(p) \in Listings
    BY DEF UniverseInv, UniverseTypes, List
<1>q. QED
    BY <1>1, ListingIs DEF UniverseInv, UniverseTypes

\* The list is fetched: it is the provider's own, or the call counts as disturbed.
LEMMA FetchesKeeps ==
    ASSUME UniverseInv, NEW p \in Process, Fetches(p)
    PROVE  UniverseInv' /\ RowsStayThemselves
<1>1. PICK g : g = call[p]
    OBVIOUS
<1>2. PICK results : results = IF g.kind = "full" THEN List(p) ELSE Found(List(p), g.name)
    OBVIOUS
<1>3. PICK known \in BOOLEAN : known = (List(p) = listed)
    OBVIOUS
<1>4. PICK c : c = [g EXCEPT !.todo = results, !.alone = known,
                             !.at = IF g.kind # "full" /\ results = {} THEN "fallback" ELSE "match"]
    OBVIOUS
<1>5. /\ g \in CallState /\ Knows(g) /\ g.at = "fetch" /\ g.renames = {}
      /\ List(p) \subseteq Pair /\ cached' \in [Process -> Listings \union {NoList}]
    BY <1>1, CallOf, ListKnown DEF Fetches, Knows
<1>6. results \subseteq Pair /\ results \subseteq List(p) /\ (g.kind = "full" => results = List(p))
    BY <1>2, <1>5 DEF Found
<1>7. /\ c \in CallState /\ c.at \in {"match", "fallback"} /\ c.kind = g.kind /\ c.todo = results
      /\ c.renames = {} /\ c.alone = known /\ PairsOf(c) = results
    BY <1>4, <1>5, <1>6 DEF CallState, PairsOf
<1>8. Steps(p, c) /\ UNCHANGED <<listed, calm>>
    BY <1>1, <1>2, <1>3, <1>4 DEF Fetches, Others
<1>9. CallGoes(p, c) /\ UNCHANGED <<listed, table, calm>>
    BY <1>7, <1>8, WritesGo DEF Steps
<1>10. Knows(c)'
    BY <1>3, <1>6, <1>7, <1>9 DEF Knows
<1>11. Undisturbed(p)' => Settled \/ Adds(p)'
  <2> SUFFICES ASSUME Undisturbed(p)', ~Settled PROVE Adds(p)'
      OBVIOUS
  <2>1. call'[p] = c /\ c.kind = "full" /\ c.alone
      BY <1>9 DEF CallGoes, Undisturbed
  <2>2. PairsOf(c) = listed
      BY <1>3, <1>6, <1>7, <2>1
  <2>3. PICK q \in listed : IdOf(q.symbol) = {}
      BY DEF Settled
  <2>4. IdOf(q.symbol)' = IdOf(q.symbol)
      BY <1>9 DEF IdOf, Ids
  <2>q. QED
      BY <2>1, <2>2, <2>3, <2>4 DEF Adds
<1>12. calm \in Nat
    BY DEF UniverseInv, UniverseTypes
<1>13. SyncsTakeMore'
    BY <1>9, <1>11, <1>12, QuietTakes
<1>q. QED
    BY <1>5, <1>7, <1>9, <1>10, <1>12, <1>13, QuietStep

\* The rows are matched: every listed token under another symbol is a candidate.
LEMMA MatchesKeeps ==
    ASSUME UniverseInv, NEW p \in Process, Matches(p)
    PROVE  UniverseInv' /\ RowsStayThemselves
<1>1. PICK g : g = call[p]
    OBVIOUS
<1>2. PICK renames : renames = Candidates(g.todo)
    OBVIOUS
<1>3. PICK c : c = [g EXCEPT !.at = IF renames = {} THEN "write" ELSE "owners", !.renames = renames,
                             !.todo = g.todo \ {r.pair : r \in renames}]
    OBVIOUS
<1>4. g \in CallState /\ Knows(g) /\ g.at = "match" /\ g.renames = {}
    BY <1>1, CallOf DEF Matches, Knows
<1>5. /\ renames \subseteq [id : Ids, pair : g.todo] /\ renames \subseteq Rename
      /\ \A r \in renames : r.id \in Ids /\ r.pair \in g.todo
                            /\ table[r.id].token = r.pair.token /\ table[r.id].symbol # r.pair.symbol
      /\ \A i \in Ids, q \in g.todo : table[i].token = q.token /\ table[i].symbol # q.symbol =>
            q \in {r.pair : r \in renames}
  <2>1. Ids \subseteq Nat /\ g.todo \subseteq Pair
      BY <1>4, RowsAre DEF UniverseInv, CallState
  <2>2. renames \subseteq [id : Ids, pair : g.todo] /\ renames \subseteq Rename
      BY <1>2, <2>1 DEF Candidates, Rename
  <2>3. \A r \in renames : r.id \in Ids /\ r.pair \in g.todo
                           /\ table[r.id].token = r.pair.token /\ table[r.id].symbol # r.pair.symbol
      BY <1>2 DEF Candidates
  <2>4. ASSUME NEW i \in Ids, NEW q \in g.todo, table[i].token = q.token, table[i].symbol # q.symbol
        PROVE  q \in {r.pair : r \in renames}
    <3>1. [id |-> i, pair |-> q] \in renames
        BY <1>2, <2>4 DEF Candidates
    <3>q. QED
        BY <3>1
  <2>q. QED
      BY <2>2, <2>3, <2>4
<1>6. /\ c \in CallState /\ c.kind = g.kind /\ c.alone = g.alone /\ c.renames = renames
      /\ c.at \in {"write", "owners"} /\ (c.at = "write" => renames = {})
      /\ c.todo = g.todo \ {r.pair : r \in renames}
    BY <1>3, <1>4, <1>5 DEF CallState
<1>7. PairsOf(c) = g.todo /\ PairsOf(g) = g.todo
    BY <1>4, <1>5, <1>6 DEF PairsOf
<1>8. CallGoes(p, c) /\ UNCHANGED <<listed, table, calm, cached>>
    BY <1>1, <1>2, <1>3, <1>6, WritesGo DEF Matches, Steps, Others
<1>9. Knows(c)'
  <2>1. g.alone => g.todo \subseteq listed
      BY <1>4, <1>7 DEF Knows
  <2>q. QED
      BY <1>5, <1>6, <1>7, <1>8, <2>1 DEF Knows, Held, Ids, IdOf
<1>10. Undisturbed(p)' => Undisturbed(p) /\ (Adds(p) => Adds(p)')
    BY <1>1, <1>4, <1>6, <1>7, <1>8 DEF CallGoes, Undisturbed, Adds, IdOf, Ids
<1>11. calm \in Nat /\ cached \in [Process -> Listings \union {NoList}]
    BY DEF UniverseInv, UniverseTypes
<1>12. SyncsTakeMore'
    BY <1>8, <1>10, <1>11, QuietTakes
<1>13. \A r \in c.renames : r.id \in Ids
    BY <1>5, <1>6
<1>q. QED
    BY <1>6, <1>8, <1>9, <1>11, <1>12, <1>13, QuietStep

\* Conflicts are dropped: what is left goes to symbols that no row has.
LEMMA OwnersKeeps ==
    ASSUME UniverseInv, NEW p \in Process, Owners(p)
    PROVE  UniverseInv' /\ RowsStayThemselves
<1>1. PICK g : g = call[p]
    OBVIOUS
<1>2. PICK renames : renames = Unowned(g.renames)
    OBVIOUS
<1>3. PICK c : c = [g EXCEPT !.at = "write", !.renames = renames]
    OBVIOUS
<1>4. g \in CallState /\ Knows(g) /\ g.at = "owners" /\ \A r \in g.renames : r.id \in Ids
    BY <1>1, CallOf DEF Owners
<1>5. /\ renames \subseteq g.renames
      /\ \A r \in g.renames : IdOf(r.pair.symbol) \subseteq {r.id} <=> r \in renames
    BY <1>2 DEF Unowned
<1>6. /\ c \in CallState /\ c.kind = g.kind /\ c.alone = g.alone /\ c.renames = renames
      /\ c.at = "write" /\ c.todo = g.todo
    BY <1>3, <1>4, <1>5 DEF CallState
<1>7. CallGoes(p, c) /\ UNCHANGED <<listed, table, calm, cached>>
    BY <1>1, <1>2, <1>3, <1>6, WritesGo DEF Owners, Steps, Others
<1>8. g.alone => \A r \in renames : IdOf(r.pair.symbol) = {}
  <2> SUFFICES ASSUME g.alone, NEW r \in renames, NEW i \in IdOf(r.pair.symbol) PROVE FALSE
      OBVIOUS
  <2>1. i = r.id /\ table[r.id].symbol # r.pair.symbol
      BY <1>4, <1>5 DEF Knows
  <2>q. QED
      BY <2>1 DEF IdOf
<1>9. Knows(c)'
    BY <1>4, <1>5, <1>6, <1>7, <1>8 DEF Knows, PairsOf, Held, Ids, IdOf
<1>10. Undisturbed(p)' => Undisturbed(p) /\ (Adds(p) => Adds(p)')
  <2> SUFFICES ASSUME Undisturbed(p)' PROVE Undisturbed(p) /\ (Adds(p) => Adds(p)')
      OBVIOUS
  <2>1. Undisturbed(p)
      BY <1>1, <1>4, <1>6, <1>7 DEF CallGoes, Undisturbed
  <2>2. ASSUME NEW q \in PairsOf(g), IdOf(q.symbol) = {} PROVE q \in PairsOf(c)
      BY <1>5, <1>6, <2>2 DEF PairsOf
  <2>3. \A name : IdOf(name)' = IdOf(name)
      BY <1>7 DEF IdOf, Ids
  <2>q. QED
      BY <1>1, <1>7, <2>1, <2>2, <2>3 DEF CallGoes, Adds
<1>11. calm \in Nat /\ cached \in [Process -> Listings \union {NoList}]
    BY DEF UniverseInv, UniverseTypes
<1>12. SyncsTakeMore'
    BY <1>7, <1>10, <1>11, QuietTakes
<1>13. \A r \in c.renames : r.id \in Ids
    BY <1>4, <1>5, <1>6
<1>q. QED
    BY <1>6, <1>7, <1>9, <1>11, <1>12, <1>13, QuietStep

\* A call ends: an undisturbed sync had nothing to add, or added it.
LEMMA EndsKeeps ==
    ASSUME UniverseInv, NEW p \in Process, CallEnds(p)
    PROVE  UniverseInv' /\ RowsStayThemselves
<1>1. PICK g : g = call[p]
    OBVIOUS
<1>2. PICK c : c = IF g.kind = "ensure" THEN [g EXCEPT !.at = "missing"] ELSE Still
    OBVIOUS
<1>3. /\ g \in CallState /\ g.at = "write" /\ g.todo = {} /\ g.renames = {} /\ PairsOf(g) = {}
      /\ Steps(p, c) /\ UNCHANGED <<listed, cached>>
    BY <1>1, <1>2, CallOf DEF CallEnds, Written, Others, PairsOf
<1>4. c \in CallState /\ c.at \in {"missing", "idle"} /\ c.renames = {}
    BY <1>2, <1>3, UniverseAssumption DEF CallState, Still
<1>5. CallGoes(p, c) /\ UNCHANGED table
    BY <1>3, <1>4, WritesGo DEF Steps
<1>6. Knows(c)' /\ ~Undisturbed(p)' /\ ~Adds(p)
    BY <1>1, <1>3, <1>4, <1>5 DEF Knows, CallGoes, Undisturbed, Adds
<1>7. calm \in Nat /\ cached \in [Process -> Listings \union {NoList}]
    BY DEF UniverseInv, UniverseTypes
<1>8. calm' \in Nat /\ SyncsTakeMore'
  <2>1. CASE g.kind = "full" /\ g.alone /\ calm < Cardinality(Token)
    <3>1. calm' = calm + 1 /\ Undisturbed(p)
        BY <1>1, <1>3, <2>1 DEF CallEnds, Undisturbed
    <3>q. QED
        BY <1>3, <1>5, <1>6, <1>7, <3>1, EndTakes
  <2>2. CASE ~(g.kind = "full" /\ g.alone /\ calm < Cardinality(Token))
    <3>1. calm' = calm \/ calm' = 0
        BY <1>1, <2>2 DEF CallEnds, Lasts
    <3>q. QED
        BY <1>3, <1>5, <1>6, <1>7, <3>1, QuietTakes
  <2>q. QED
      BY <2>1, <2>2
<1>q. QED
    BY <1>3, <1>4, <1>5, <1>6, <1>7, <1>8, QuietStep

\* A call looks whether its symbol came.
LEMMA MissingKeeps ==
    ASSUME UniverseInv, NEW p \in Process, StillMissing(p)
    PROVE  UniverseInv' /\ RowsStayThemselves
<1>1. PICK g : g = call[p]
    OBVIOUS
<1>2. PICK c : c = IF IdOf(g.name) = {} THEN [g EXCEPT !.at = "fallback"] ELSE Still
    OBVIOUS
<1>3. /\ g \in CallState /\ (\A r \in g.renames : r.id \in Ids)
      /\ Steps(p, c) /\ UNCHANGED <<listed, cached, calm>>
    BY <1>1, <1>2, CallOf DEF StillMissing, Others
<1>4. c \in CallState /\ c.at \in {"fallback", "idle"} /\ \A r \in c.renames : r.id \in Ids
    BY <1>2, <1>3, UniverseAssumption DEF CallState, Still
<1>5. CallGoes(p, c) /\ UNCHANGED table
    BY <1>3, <1>4, WritesGo DEF Steps
<1>6. Knows(c)' /\ ~Undisturbed(p)'
    BY <1>4, <1>5 DEF Knows, CallGoes, Undisturbed
<1>7. calm \in Nat /\ cached \in [Process -> Listings \union {NoList}]
    BY DEF UniverseInv, UniverseTypes
<1>8. SyncsTakeMore'
    BY <1>3, <1>5, <1>6, <1>7, QuietTakes
<1>q. QED
    BY <1>3, <1>4, <1>5, <1>6, <1>7, <1>8, QuietStep

\* A call breaks.
LEMMA BreaksKeeps ==
    ASSUME UniverseInv, NEW p \in Process, Breaks(p)
    PROVE  UniverseInv' /\ RowsStayThemselves
BY StopKeeps DEF Breaks, UniverseInv, UniverseTypes

\* A cached list expires.
LEMMA ExpiresKeeps ==
    ASSUME UniverseInv, NEW p \in Process, Expires(p)
    PROVE  UniverseInv' /\ RowsStayThemselves
<1>1. UNCHANGED <<listed, table, call, calm>> /\ cached' \in [Process -> Listings \union {NoList}]
    BY DEF Expires, UniverseInv, UniverseTypes
<1>2. call[p] \in CallState /\ Knows(call[p]) /\ \A r \in call[p].renames : r.id \in Ids
    BY CallOf
<1>3. PICK c : c = call[p]
    OBVIOUS
<1>4. CallGoes(p, c)
    BY <1>1, <1>3 DEF CallGoes, UniverseInv, UniverseTypes
<1>5. Knows(c)'
    BY <1>1, <1>2, <1>3 DEF Knows, IdOf, Held, Ids
<1>6. Undisturbed(p)' => Undisturbed(p) /\ (Adds(p) => Adds(p)')
    BY <1>1 DEF Undisturbed, Adds, IdOf, Ids
<1>7. calm \in Nat
    BY DEF UniverseInv, UniverseTypes
<1>8. SyncsTakeMore'
    BY <1>1, <1>4, <1>6, <1>7, QuietTakes
<1>q. QED
    BY <1>1, <1>2, <1>3, <1>4, <1>5, <1>7, <1>8, QuietStep

\* Another list, or candles.
LEMMA ListsKeeps == ASSUME UniverseInv, Lists PROVE UniverseInv' /\ RowsStayThemselves
<1>1. /\ listed' \in Listings /\ UNCHANGED <<cached, table>> /\ calm' = 0
      /\ call' = [p \in Process |-> [call[p] EXCEPT !.alone = call[p].at = "idle"]]
    BY DEF Lists
<1>2. ASSUME NEW p \in Process
      PROVE  /\ call'[p] \in CallState /\ call'[p].renames = call[p].renames
             /\ call'[p].at = call[p].at
             /\ call'[p].alone => call[p].at = "idle"
  <2>1. PICK b \in BOOLEAN : b = (call[p].at = "idle")
      OBVIOUS
  <2>2. call'[p] = [call[p] EXCEPT !.alone = b] /\ call[p] \in CallState
      BY <1>1, <2>1, CallOf
  <2>q. QED
      BY <2>1, <2>2 DEF CallState
<1>3. UniverseTypes' /\ KeysAreUnique'
    BY <1>1, <1>2 DEF UniverseInv, UniverseTypes, KeysAreUnique, Ids
<1>4. CallsKnow'
  <2>1. ASSUME NEW p \in Process PROVE Knows(call[p])'
      BY <1>2, CallOf DEF Knows
  <2>q. QED
      BY <2>1 DEF CallsKnow
<1>5. SyncsTakeMore'
    BY <1>1, <1>2, <1>3, NewStart DEF Undisturbed
<1>6. RowsStayThemselves
    BY <1>1 DEF RowsStayThemselves
<1>q. QED
    BY <1>3, <1>4, <1>5, <1>6 DEF UniverseInv

\* Candles are stored, or nothing happens.
LEMMA SameUniverse ==
    ASSUME UniverseInv, UNCHANGED <<listed, cached, table, call, calm>>
    PROVE  UniverseInv' /\ RowsStayThemselves
<1>1. UniverseTypes' /\ KeysAreUnique'
    BY DEF UniverseInv, UniverseTypes, KeysAreUnique, Ids
<1>2. CallsKnow'
    BY DEF UniverseInv, CallsKnow, Knows, IdOf, Held, Ids
<1>3. SyncsTakeMore'
    BY DEF UniverseInv, SyncsTakeMore, Settled, Taken, Present, Undisturbed, Adds, IdOf, Ids
<1>4. RowsStayThemselves
    BY DEF RowsStayThemselves
<1>q. QED
    BY <1>1, <1>2, <1>3, <1>4 DEF UniverseInv

-----------------------------------------------------------------------------
(* The steps that write the table *)

\* An undisturbed sync that writes a row takes one more pair, or keeps what it has to add.
LEMMA WriteTakes ==
    ASSUME UniverseInv, UniverseTypes', NEW p \in Process, NEW c, CallGoes(p, c), table' # table,
           listed' = listed, calm' = Lasts(p), call[p].at = "write",
           c.kind = call[p].kind, c.alone = call[p].alone,
           Undisturbed(p) => /\ (Settled => Settled') /\ Taken \subseteq Taken'
                             /\ Adds(p) => Adds(p)' \/ \E q \in Taken' : q \notin Taken
    PROVE  SyncsTakeMore'
<1>1. \A o \in Process \ {p} : ~Undisturbed(o)'
    BY DEF CallGoes, Undisturbed
<1>2. CASE Undisturbed(p)
  <2>1. calm' = calm /\ calm \in Nat
      BY <1>2 DEF Lasts, Undisturbed, UniverseInv, UniverseTypes
  <2>2. /\ IsFiniteSet(Taken') /\ Cardinality(Taken') \in Nat /\ Cardinality(Taken) \in Nat
        /\ IsFiniteSet(Taken)
      BY TakenIsFinite DEF UniverseInv
  <2>3. Cardinality(Taken) <= Cardinality(Taken')
      BY <1>2, <2>2, FS_Subset
  <2>4. ASSUME NEW q \in Taken', q \notin Taken PROVE Cardinality(Taken') >= Cardinality(Taken) + 1
    <3>1. Taken \union {q} \subseteq Taken'
        BY <1>2, <2>4
    <3>2. IsFiniteSet(Taken \union {q}) /\ Cardinality(Taken \union {q}) = Cardinality(Taken) + 1
        BY <2>2, <2>4, FS_AddElement
    <3>3. Cardinality(Taken \union {q}) <= Cardinality(Taken')
        BY <2>2, <3>1, FS_Subset
    <3>q. QED
        BY <2>2, <3>2, <3>3
  <2>5. /\ Settled \/ Cardinality(Taken) >= calm
        /\ Settled \/ Adds(p) \/ Cardinality(Taken) >= calm + 1
      BY <1>2 DEF UniverseInv, SyncsTakeMore
  <2>6. Settled' \/ Cardinality(Taken') >= calm'
      BY <1>2, <2>1, <2>2, <2>3, <2>5
  <2>7. Settled' \/ Adds(p)' \/ Cardinality(Taken') >= calm' + 1
    <3>1. CASE Settled
        BY <1>2, <3>1
    <3>2. CASE ~Settled /\ Cardinality(Taken) >= calm + 1
        BY <2>1, <2>2, <2>3, <3>2
    <3>3. CASE ~Settled /\ Adds(p)
        BY <1>2, <2>1, <2>2, <2>4, <2>5, <3>3
    <3>q. QED
        BY <2>5, <3>1, <3>2, <3>3
  <2>q. QED
      BY <1>1, <2>6, <2>7 DEF SyncsTakeMore
<1>3. CASE ~Undisturbed(p)
  <2>1. calm' = 0
      BY <1>3 DEF Lasts, Undisturbed
  <2>2. ~Undisturbed(p)'
      BY <1>3 DEF CallGoes, Undisturbed
  <2>q. QED
      BY <1>1, <2>1, <2>2, NewStart
<1>q. QED
    BY <1>2, <1>3

\* The count of undisturbed syncs lasts or starts anew.
LEMMA LastsIs ==
    ASSUME UniverseInv, NEW p \in Process
    PROVE  Lasts(p) \in Nat /\ Lasts(p) <= calm
BY DEF UniverseInv, UniverseTypes, Lasts

\* A rename: an undisturbed one is never refused, and takes its pair.
LEMMA RenamesKeeps ==
    ASSUME UniverseInv, NEW p \in Process, Renames(p)
    PROVE  UniverseInv' /\ RowsStayThemselves
<1>1. PICK g : g = call[p]
    OBVIOUS
<1>2. PICK r \in g.renames : Writes(p, [g EXCEPT !.renames = g.renames \ {r}], Renamed(r))
    BY <1>1, CallOf DEF Renames, CallState
<1>3. PICK c : c = [g EXCEPT !.renames = g.renames \ {r}]
    OBVIOUS
<1>4. /\ g \in CallState /\ Knows(g) /\ g.at = "write" /\ (\A x \in g.renames : x.id \in Ids)
      /\ calm' = Lasts(p) /\ UNCHANGED <<listed, cached>> /\ r \in Rename /\ r.id \in Ids /\ r.pair \in Pair
    BY <1>1, CallOf DEF Renames, Others, CallState, Rename
<1>5. /\ c \in CallState /\ c.at = "write" /\ c.kind = g.kind /\ c.alone = g.alone /\ c.todo = g.todo
      /\ c.renames = g.renames \ {r}
    BY <1>3, <1>4 DEF CallState
<1>6. CallGoes(p, c) /\ table' = Renamed(r)
    BY <1>2, <1>3, <1>5, WritesGo
<1>7. cached \in [Process -> Listings \union {NoList}] /\ Lasts(p) \in Nat /\ Lasts(p) <= calm
    BY LastsIs DEF UniverseInv, UniverseTypes
<1>8. g.alone => /\ table[r.id].token = r.pair.token /\ table[r.id].symbol # r.pair.symbol
                 /\ IdOf(r.pair.symbol) = {} /\ r.pair \notin g.todo /\ PairsOf(g) \subseteq listed
                 /\ r.pair \in listed
    BY <1>4 DEF Knows, PairsOf
<1>9. g.alone => Admits(r.id, r.pair)
  <2> SUFFICES ASSUME g.alone, NEW j \in Ids \ {r.id}
               PROVE  table[j].symbol # r.pair.symbol /\ table[j].token # r.pair.token
      BY DEF Admits
  <2>q. QED
      BY <1>4, <1>8 DEF IdOf, UniverseInv, KeysAreUnique
<1>10. CASE ~Admits(r.id, r.pair)
  <2>1. table' = table
      BY <1>6, <1>10 DEF Renamed
  <2>2. ~c.alone
      BY <1>5, <1>9, <1>10
  <2>3. ~Undisturbed(p)' /\ Knows(c)'
      BY <1>5, <1>6, <2>2 DEF CallGoes, Undisturbed, Knows
  <2>4. SyncsTakeMore'
      BY <1>4, <1>6, <1>7, <2>1, <2>3, QuietTakes
  <2>q. QED
      BY <1>4, <1>5, <1>6, <1>7, <2>1, <2>3, <2>4, QuietStep
<1>11. CASE Admits(r.id, r.pair)
  <2>1. table' = [table EXCEPT ![r.id] = r.pair] /\ r.pair \in Row
      BY <1>4, <1>6, <1>11 DEF Renamed, Pair, Row
  <2>2. /\ table' \in Seq(Row) /\ Ids' = Ids
        /\ table'[r.id] = r.pair /\ \A j \in Ids \ {r.id} : table'[j] = table[j]
      BY <1>4, <2>1, RowReplaced DEF UniverseInv
  <2>3. KeysAreUnique'
      BY <1>11, <2>2 DEF UniverseInv, KeysAreUnique, Admits
  <2>4. c.alone => \A x \in c.renames : x.pair # r.pair /\ x.id # r.id
    <3> SUFFICES ASSUME c.alone, NEW x \in c.renames, x.pair = r.pair \/ x.id = r.id PROVE FALSE
        OBVIOUS
    <3>1. /\ x \in g.renames /\ x # r /\ x \in Rename /\ x.id \in Ids /\ g.alone
          /\ table[x.id].token = x.pair.token /\ x.pair \in listed
        BY <1>4, <1>5 DEF Knows, PairsOf, CallState
    <3>2. x.pair = r.pair /\ x.id = r.id
        BY <1>4, <1>8, <3>1, ListingIs DEF UniverseInv, UniverseTypes, KeysAreUnique
    <3>q. QED
        BY <1>4, <3>1, <3>2 DEF Rename
  <2>5. Knows(c)'
    <3> SUFFICES ASSUME c.alone PROVE Knows(c)'
        BY <1>5 DEF Knows
    <3>0. g.alone /\ PairsOf(c) \subseteq PairsOf(g)
        BY <1>5 DEF PairsOf
    <3>1. ASSUME NEW x \in c.renames
          PROVE  /\ table'[x.id].token = x.pair.token /\ table'[x.id].symbol # x.pair.symbol
                 /\ x.pair \notin c.todo /\ IdOf(x.pair.symbol)' = {}
      <4>1. /\ x \in g.renames /\ x.id \in Ids \ {r.id} /\ x.pair # r.pair /\ x.pair \in listed
            /\ table[x.id].token = x.pair.token /\ table[x.id].symbol # x.pair.symbol
            /\ x.pair \notin g.todo /\ IdOf(x.pair.symbol) = {}
          BY <1>4, <1>5, <2>4, <3>0 DEF Knows, PairsOf
      <4>2. x.pair.symbol # r.pair.symbol
          BY <1>8, <3>0, <4>1, ListingIs DEF UniverseInv, UniverseTypes
      <4>3. IdOf(x.pair.symbol)' = {}
          BY <2>2, <4>1, <4>2 DEF IdOf
      <4>q. QED
          BY <1>5, <2>2, <4>1, <4>3
    <3>2. ASSUME NEW q \in c.todo, NEW i \in Ids', table'[i].token = q.token
          PROVE  table'[i].symbol = q.symbol
      <4>1. CASE i = r.id
        <5>1. q \in listed /\ r.pair.token = q.token
            BY <1>5, <1>8, <2>2, <3>0, <3>2, <4>1 DEF PairsOf
        <5>q. QED
            BY <2>2, <1>8, <3>0, <4>1, <5>1, ListingIs DEF UniverseInv, UniverseTypes
      <4>2. CASE i # r.id
          BY <1>4, <1>5, <2>2, <3>0, <3>2, <4>2 DEF Knows, Held
      <4>q. QED
          BY <4>1, <4>2
    <3>q. QED
        BY <1>4, <1>5, <1>8, <3>0, <3>1, <3>2 DEF Knows, Held
  <2>6. UniverseTypes' /\ KeysAreUnique' /\ CallsKnow'
      BY <1>4, <1>5, <1>6, <1>7, <2>2, <2>3, <2>5, CallsGoOn
  <2>7. Undisturbed(p) => /\ (Settled => Settled') /\ Taken \subseteq Taken'
                          /\ \E q \in Taken' : q \notin Taken
    <3> SUFFICES ASSUME g.alone
                 PROVE  ~Settled /\ Taken \subseteq Taken' /\ r.pair \in Taken' /\ r.pair \notin Taken
        BY <1>1 DEF Undisturbed
    <3>1. ~Settled /\ r.pair \notin Taken
        BY <1>8 DEF Settled, Taken, Present, IdOf
    <3>2. r.pair \in Taken'
        BY <1>4, <1>8, <2>2 DEF Taken, Present
    <3>3. ASSUME NEW q \in Taken PROVE q \in Taken'
      <4>1. PICK i \in Ids : table[i] = q
          BY DEF Taken, Present
      <4>2. i # r.id
          BY <1>8, <4>1, ListingIs DEF UniverseInv, UniverseTypes, Taken
      <4>q. QED
          BY <1>4, <2>2, <4>1, <4>2 DEF Taken, Present
    <3>q. QED
        BY <3>1, <3>2, <3>3
  <2>8. SyncsTakeMore'
    <3>1. CASE table' = table
      <4>1. ~Undisturbed(p)
          BY <2>7, <3>1, <1>4 DEF Taken, Present, Ids
      <4>2. ~Undisturbed(p)'
          BY <1>1, <1>4, <1>5, <1>6, <4>1 DEF CallGoes, Undisturbed
      <4>q. QED
          BY <1>4, <1>6, <1>7, <3>1, <4>2, QuietTakes
    <3>2. CASE table' # table
        BY <1>1, <1>4, <1>5, <1>6, <2>6, <2>7, <3>2, WriteTakes
    <3>q. QED
        BY <3>1, <3>2
  <2>9. RowsStayThemselves
    <3>1. CASE g.alone
        BY <1>8, <2>2, <3>1 DEF RowsStayThemselves
    <3>2. CASE ~g.alone
        BY <1>1, <1>4, <3>2 DEF RowsStayThemselves
    <3>q. QED
        BY <3>1, <3>2
  <2>q. QED
      BY <2>6, <2>8, <2>9 DEF UniverseInv
<1>q. QED
    BY <1>10, <1>11

\* An upsert: the row of the symbol takes the token, or a row is added.
LEMMA UpsertsKeeps ==
    ASSUME UniverseInv, NEW p \in Process, Upserts(p)
    PROVE  UniverseInv' /\ RowsStayThemselves
<1>1. PICK g : g = call[p]
    OBVIOUS
<1>2. PICK q \in g.todo : LET d == [g EXCEPT !.todo = g.todo \ {q}] IN
          \/ \E i \in IdOf(q.symbol) :
                IF Admits(i, q) THEN Writes(p, d, [table EXCEPT ![i].token = q.token])
                ELSE Steps(p, Still)
          \/ /\ IdOf(q.symbol) = {}
             /\ IF Held(q.token) = {} THEN Writes(p, d, Append(table, q)) ELSE Steps(p, Still)
    BY <1>1, CallOf DEF Upserts, CallState
<1>3. PICK c : c = [g EXCEPT !.todo = g.todo \ {q}]
    OBVIOUS
<1>4. /\ g \in CallState /\ Knows(g) /\ g.at = "write" /\ g.renames = {} /\ q \in Pair
      /\ calm' = Lasts(p) /\ UNCHANGED <<listed, cached>>
    BY <1>1, CallOf DEF Upserts, Others, CallState
<1>5. /\ c \in CallState /\ c.at = "write" /\ c.kind = g.kind /\ c.alone = g.alone
      /\ c.todo = g.todo \ {q} /\ c.renames = {} /\ PairsOf(c) = c.todo /\ PairsOf(g) = g.todo
    BY <1>3, <1>4 DEF CallState, PairsOf
<1>6. cached \in [Process -> Listings \union {NoList}] /\ Lasts(p) \in Nat /\ Lasts(p) <= calm
    BY LastsIs DEF UniverseInv, UniverseTypes
<1>7. g.alone => /\ g.todo \subseteq listed
                 /\ \A x \in c.todo : x \in listed /\ x.symbol # q.symbol /\ x.token # q.token
                 /\ \A x \in c.todo : \A i \in Ids : table[i].token = x.token => table[i].symbol = x.symbol
  <2>1. g.alone => g.todo \subseteq listed
      BY <1>4, <1>5 DEF Knows
  <2>2. g.alone => \A x \in c.todo : x \in listed /\ x.symbol # q.symbol /\ x.token # q.token
      BY <1>5, <2>1, ListingIs DEF UniverseInv, UniverseTypes
  <2>3. g.alone => \A x \in c.todo : \A i \in Ids : table[i].token = x.token => table[i].symbol = x.symbol
      BY <1>4, <1>5 DEF Knows, Held
  <2>q. QED
      BY <2>1, <2>2, <2>3
<1>8. CASE Steps(p, Still)
    BY <1>4, <1>6, <1>8, StopKeeps
<1>9. ASSUME NEW i \in IdOf(q.symbol), Admits(i, q), Writes(p, c, [table EXCEPT ![i].token = q.token])
      PROVE  UniverseInv' /\ RowsStayThemselves
  <2>1. i \in Ids /\ table[i] \in Row /\ table[i].symbol = q.symbol
      BY <1>9, RowsAre DEF IdOf, UniverseInv
  <2>2. CallGoes(p, c) /\ table' = [table EXCEPT ![i].token = q.token]
      BY <1>5, <1>9, WritesGo
  <2>3. [table[i] EXCEPT !.token = q.token] = q /\ q \in Row
      BY <1>4, <2>1 DEF Row, Pair
  <2>4. table' = [table EXCEPT ![i] = q]
      BY <2>2, <2>3
  <2>5. /\ table' \in Seq(Row) /\ Ids' = Ids
        /\ table'[i] = q /\ \A j \in Ids \ {i} : table'[j] = table[j]
      BY <2>1, <2>3, <2>4, RowReplaced DEF UniverseInv
  <2>6. KeysAreUnique'
      BY <1>9, <2>1, <2>5 DEF UniverseInv, KeysAreUnique, Admits
  <2>7. \A name : IdOf(name)' = IdOf(name)
      BY <2>1, <2>5 DEF IdOf
  <2>8. Knows(c)'
    <3>1. ASSUME g.alone, NEW x \in c.todo, NEW j \in Ids, table'[j].token = x.token
          PROVE  table'[j].symbol = x.symbol
        BY <1>7, <2>5, <3>1
    <3>q. QED
        BY <1>4, <1>5, <1>7, <2>5, <3>1 DEF Knows, Held
  <2>9. UniverseTypes' /\ KeysAreUnique' /\ CallsKnow'
      BY <1>4, <1>5, <1>6, <2>2, <2>5, <2>6, <2>8, CallsGoOn
  <2>10. Settled <=> Settled'
      BY <1>4, <2>7 DEF Settled
  <2>11. ASSUME Adds(p) PROVE Adds(p)'
    <3>1. PICK x \in g.todo : IdOf(x.symbol) = {}
        BY <1>1, <1>5, <2>11 DEF Adds
    <3>2. x \in PairsOf(c) /\ IdOf(x.symbol)' = {}
        BY <1>5, <1>9, <2>7, <3>1
    <3>q. QED
        BY <2>2, <3>2 DEF Adds, CallGoes
  <2>12. ASSUME g.alone, NEW x \in Taken PROVE x \in Taken'
    <3>1. PICK j \in Ids : table[j] = x
        BY DEF Taken, Present
    <3>2. j = i => x = q
        BY <1>7, <2>1, <2>12, <3>1, ListingIs DEF UniverseInv, UniverseTypes, Taken
    <3>3. table'[j] = x
        BY <2>5, <3>1, <3>2
    <3>q. QED
        BY <1>4, <2>5, <3>3 DEF Taken, Present
  <2>13. SyncsTakeMore'
    <3>1. CASE table' = table
      <4>1. Undisturbed(p)' => Undisturbed(p)
          BY <1>1, <1>4, <1>5, <2>2 DEF CallGoes, Undisturbed
      <4>q. QED
          BY <1>4, <1>6, <2>2, <2>11, <3>1, <4>1, QuietTakes
    <3>2. CASE table' # table
      <4>1. Undisturbed(p) => g.alone
          BY <1>1 DEF Undisturbed
      <4>2. Undisturbed(p) => Taken \subseteq Taken'
          BY <2>12, <4>1
      <4>q. QED
          BY <1>1, <1>4, <1>5, <2>2, <2>9, <2>10, <2>11, <3>2, <4>2, WriteTakes
    <3>q. QED
        BY <3>1, <3>2
  <2>14. RowsStayThemselves
      BY <2>1, <2>5 DEF RowsStayThemselves
  <2>q. QED
      BY <2>9, <2>13, <2>14 DEF UniverseInv
<1>10. ASSUME IdOf(q.symbol) = {}, Held(q.token) = {}, Writes(p, c, Append(table, q))
       PROVE  UniverseInv' /\ RowsStayThemselves
  <2>1. PICK n : n = Len(table) + 1
      OBVIOUS
  <2>2. CallGoes(p, c) /\ table' = Append(table, q) /\ q \in Row
      BY <1>4, <1>5, <1>10, WritesGo DEF Row, Pair
  <2>3. /\ table' \in Seq(Row) /\ Ids' = Ids \union {n} /\ n \notin Ids
        /\ table'[n] = q /\ \A j \in Ids : table'[j] = table[j]
      BY <2>1, <2>2, RowAdded DEF UniverseInv
  <2>4. KeysAreUnique'
      BY <1>10, <2>3 DEF UniverseInv, KeysAreUnique, IdOf, Held
  <2>5. Knows(c)'
    <3>1. ASSUME g.alone, NEW x \in c.todo, NEW j \in Ids', table'[j].token = x.token
          PROVE  table'[j].symbol = x.symbol
        BY <1>7, <2>3, <3>1
    <3>q. QED
        BY <1>4, <1>5, <1>7, <2>3, <3>1 DEF Knows, Held
  <2>6. UniverseTypes' /\ KeysAreUnique' /\ CallsKnow'
      BY <1>4, <1>5, <1>6, <2>2, <2>3, <2>4, <2>5, CallsGoOn
  <2>7. Settled => Settled'
      BY <1>4, <2>3 DEF Settled, IdOf
  <2>8. Taken \subseteq Taken'
      BY <1>4, <2>3 DEF Taken, Present
  <2>9. Undisturbed(p) => \E x \in Taken' : x \notin Taken
    <3> SUFFICES ASSUME g.alone PROVE q \in Taken' /\ q \notin Taken
        BY <1>1 DEF Undisturbed
    <3>1. q \notin Taken
        BY <1>10 DEF Taken, Present, IdOf
    <3>2. q \in Taken'
        BY <1>4, <1>7, <2>3 DEF Taken, Present
    <3>q. QED
        BY <3>1, <3>2
  <2>10. table' # table
      BY <2>3 DEF Ids
  <2>11. SyncsTakeMore'
      BY <1>1, <1>4, <1>5, <2>2, <2>6, <2>7, <2>8, <2>9, <2>10, WriteTakes
  <2>12. RowsStayThemselves
      BY <2>3 DEF RowsStayThemselves
  <2>q. QED
      BY <2>6, <2>11, <2>12 DEF UniverseInv
<1>q. QED
    BY <1>2, <1>3, <1>8, <1>9, <1>10

\* A row for a symbol that the provider does not know.
LEMMA FallsBackKeeps ==
    ASSUME UniverseInv, NEW p \in Process, FallsBack(p)
    PROVE  UniverseInv' /\ RowsStayThemselves
<1>1. PICK name : name = call[p].name
    OBVIOUS
<1>2. PICK token \in TokensFor(List(p), name) :
          IF IdOf(name) # {} \/ Held(token) # {} THEN Steps(p, Still)
          ELSE Writes(p, Still, Append(table, [symbol |-> name, token |-> token]))
    BY <1>1 DEF FallsBack
<1>3. /\ name \in Name /\ listed' = listed /\ calm' = 0
      /\ cached' \in [Process -> Listings \union {NoList}] /\ List(p) \subseteq Pair
    BY <1>1, CallOf, ListKnown DEF FallsBack, Others, CallState
<1>4. token \in Token \union Name
    BY <1>2, <1>3 DEF TokensFor, Found, Pair
<1>5. calm \in Nat
    BY DEF UniverseInv, UniverseTypes
<1>6. CASE Steps(p, Still)
    BY <1>3, <1>5, <1>6, StopKeeps
<1>7. ASSUME IdOf(name) = {}, Held(token) = {},
             Writes(p, Still, Append(table, [symbol |-> name, token |-> token]))
      PROVE  UniverseInv' /\ RowsStayThemselves
  <2>1. PICK n : n = Len(table) + 1
      OBVIOUS
  <2>2. PICK row : row = [symbol |-> name, token |-> token]
      OBVIOUS
  <2>3. row \in Row /\ row.symbol = name /\ row.token = token
      BY <1>3, <1>4, <2>2 DEF Row
  <2>4. Still \in CallState /\ Still.at = "idle" /\ Still.renames = {}
      BY UniverseAssumption DEF Still, CallState
  <2>5. CallGoes(p, Still) /\ table' = Append(table, row)
      BY <1>7, <2>2, <2>4, WritesGo
  <2>6. /\ table' \in Seq(Row) /\ Ids' = Ids \union {n} /\ n \notin Ids
        /\ table'[n] = row /\ \A j \in Ids : table'[j] = table[j]
      BY <2>1, <2>3, <2>5, RowAdded DEF UniverseInv
  <2>7. KeysAreUnique'
      BY <1>7, <2>3, <2>6 DEF UniverseInv, KeysAreUnique, IdOf, Held
  <2>8. Knows(Still)'
      BY <2>4 DEF Knows
  <2>9. UniverseTypes' /\ KeysAreUnique' /\ CallsKnow'
      BY <1>3, <2>4, <2>5, <2>6, <2>7, <2>8, CallsGoOn
  <2>10. \A o \in Process : ~Undisturbed(o)'
    <3>1. table' # table
        BY <2>6 DEF Ids
    <3>q. QED
        BY <2>4, <2>5, <3>1 DEF CallGoes, Undisturbed
  <2>11. SyncsTakeMore'
      BY <1>3, <2>9, <2>10, NewStart
  <2>12. RowsStayThemselves
      BY <2>6 DEF RowsStayThemselves
  <2>q. QED
      BY <2>9, <2>11, <2>12 DEF UniverseInv
<1>q. QED
    BY <1>2, <1>6, <1>7

-----------------------------------------------------------------------------
(* The invariant, and the properties *)

\* It holds in the beginning.
LEMMA UniverseBegins == UniverseInit => UniverseInv
<1> SUFFICES ASSUME UniverseInit PROVE UniverseInv
    OBVIOUS
<1>1. PICK list \in Listings : table = Inserted(list)
    BY DEF UniverseInit
<1>2. Still \in CallState /\ Still.at = "idle" /\ Still.renames = {}
    BY UniverseAssumption DEF Still, CallState
<1>3. table \in Seq(list) /\ \A i, j \in Ids : table[i] = table[j] => i = j
    BY <1>1, InsertedIs DEF Ids
<1>4. table \in Seq(Row)
  <2>1. Len(table) \in Nat /\ table \in [1..Len(table) -> list] /\ list \subseteq Row
      BY <1>3, ListingIs DEF Row, Pair
  <2>2. table \in [1..Len(table) -> Row]
      BY <2>1
  <2>q. QED
      BY <2>1, <2>2
<1>5. UniverseTypes
    BY <1>2, <1>4 DEF UniverseInit, UniverseTypes
<1>6. KeysAreUnique
  <2>1. \A i \in Ids : table[i] \in list
      BY <1>3 DEF Ids
  <2>q. QED
      BY <1>3, <2>1, ListingIs DEF KeysAreUnique
<1>7. CallsKnow
    BY <1>2 DEF UniverseInit, CallsKnow, Knows
<1>8. SyncsTakeMore
    BY <1>2, <1>5, TakenIsFinite DEF UniverseInit, SyncsTakeMore, Undisturbed
<1>q. QED
    BY <1>5, <1>6, <1>7, <1>8 DEF UniverseInv

\* Every step keeps it, and turns no row into another instrument.
LEMMA UniverseStep ==
    UniverseInv /\ [UniverseNext]_universeVars => UniverseInv' /\ [RowsStayThemselves]_universeVars
<1> SUFFICES ASSUME UniverseInv, [UniverseNext]_universeVars PROVE UniverseInv' /\ RowsStayThemselves
    OBVIOUS
<1>1. CASE Lists
    BY <1>1, ListsKeeps
<1>2. ASSUME NEW i \in Ids, Stores(i) PROVE UniverseInv' /\ RowsStayThemselves
    BY <1>2, SameUniverse DEF Stores
<1>3. ASSUME NEW p \in Process, NEW kind \in {"full", "search", "ensure"}, NEW name \in Name,
             Asks(p, kind, name)
      PROVE  UniverseInv' /\ RowsStayThemselves
    BY <1>3, AsksKeeps
<1>4. ASSUME NEW p \in Process,
             \/ Expires(p) \/ Fetches(p) \/ Matches(p) \/ Owners(p) \/ Renames(p)
             \/ Upserts(p) \/ CallEnds(p) \/ StillMissing(p) \/ FallsBack(p) \/ Breaks(p)
      PROVE  UniverseInv' /\ RowsStayThemselves
    BY <1>4, ExpiresKeeps, FetchesKeeps, MatchesKeeps, OwnersKeeps, RenamesKeeps, UpsertsKeeps,
       EndsKeeps, MissingKeeps, FallsBackKeeps, BreaksKeeps
<1>5. CASE UNCHANGED universeVars
    BY <1>5, SameUniverse DEF universeVars
<1>q. QED
    BY <1>1, <1>2, <1>3, <1>4, <1>5 DEF UniverseNext

\* A listed pair whose symbol has a row is in the table, or the row is stuck.
LEMMA SettledMeansTaken ==
    ASSUME UniverseInv, Settled, NEW q \in listed
    PROVE  Present(q) \/ Stuck(q)
<1> SUFFICES ASSUME ~Present(q) PROVE Stuck(q)
    OBVIOUS
<1>1. PICK i \in IdOf(q.symbol) : i \in Ids /\ table[i].symbol = q.symbol
    BY DEF Settled, IdOf
<1>2. ASSUME NEW r \in listed, r.token = table[i].token, Present(r) PROVE FALSE
  <2>1. PICK k \in Ids : table[k] = r
      BY <1>2 DEF Present
  <2>2. k = i
      BY <1>1, <1>2, <2>1 DEF UniverseInv, KeysAreUnique
  <2>3. r = q
      BY <1>1, <2>1, <2>2, ListingIs DEF UniverseInv, UniverseTypes
  <2>q. QED
      BY <1>2, <2>3
<1>q. QED
    BY <1>2 DEF Stuck

\* After as many undisturbed syncs as there are tokens every listed pair is.
LEMMA CalmMeansTaken ==
    ASSUME UniverseInv, calm >= Cardinality(Token), NEW q \in listed
    PROVE  Present(q) \/ Stuck(q)
<1>1. CASE Settled
    BY <1>1, SettledMeansTaken
<1>2. CASE ~Settled
  <2>1. /\ IsFiniteSet(listed) /\ Cardinality(listed) <= Cardinality(Token) /\ IsFiniteSet(Token)
        /\ Taken \subseteq listed
      BY ListingIsShort, UniverseAssumption DEF UniverseInv, UniverseTypes, Taken
  <2>2. /\ Cardinality(listed) \in Nat /\ Cardinality(Token) \in Nat /\ Cardinality(Taken) \in Nat
        /\ calm \in Nat /\ Cardinality(Taken) >= calm
      BY <1>2, <2>1, FS_CardinalityType, TakenIsFinite DEF UniverseInv, UniverseTypes, SyncsTakeMore
  <2>3. Cardinality(Taken) <= Cardinality(listed)
      BY <2>1, FS_Subset
  <2>4. Cardinality(listed) = Cardinality(Taken)
      BY <2>1, <2>2, <2>3
  <2>5. listed = Taken
      BY <2>1, <2>4, FS_Subset
  <2>q. QED
      BY <2>5 DEF Taken
<1>q. QED
    BY <1>1, <1>2

\* What the number of undisturbed syncs means.
EnoughIsTaken == calm >= Cardinality(Token) => \A q \in listed : Present(q) \/ Stuck(q)

\* No row turns into another instrument unless calls overlap, and after as many undisturbed syncs as
\* there are tokens every listed pair has its row, or a row that cannot move has its symbol
\* (instrument-sync.ts, instruments.ts).
THEOREM TableFollowsTheList == UniverseSpec => UniverseFollowsTheList
<1>1. UniverseInit => UniverseInv
    BY UniverseBegins
<1>2. UniverseInv /\ [UniverseNext]_universeVars => UniverseInv' /\ [RowsStayThemselves]_universeVars
    BY UniverseStep
<1>3. UniverseInv => EnoughIsTaken
    BY CalmMeansTaken DEF EnoughIsTaken
<1>4. UniverseInv' => EnoughIsTaken'
    BY <1>3, PTL
<1>5. EnoughIsTaken' => (listed' = listed => ListIsTaken)
    BY DEF EnoughIsTaken, ListIsTaken
<1>6. UniverseInv /\ [UniverseNext]_universeVars =>
          UniverseInv' /\ [RowsStayThemselves /\ (listed' = listed => ListIsTaken)]_universeVars
    BY <1>2, <1>4, <1>5
<1>q. QED
    BY <1>1, <1>6, PTL DEF UniverseSpec, UniverseFollowsTheList
==============================================================================
