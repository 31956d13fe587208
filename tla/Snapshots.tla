----------------------------- MODULE Snapshots -----------------------------
(***************************************************************************)
(* The persisted dashboard snapshots: computed on a miss, deleted when the *)
(* data behind them has changed.  Readers and changers are in different    *)
(* processes; a reader computes for a while between its miss and its       *)
(* write, and nothing holds the two together.  Rows of different keys do   *)
(* not meet, so that a behaviour follows the row of one key.               *)
(***************************************************************************)
EXTENDS Naturals

CONSTANTS
    Viewing,      \* requests for a dashboard view
    Writing,      \* runs that change candles or members
    Tiers,        \* lookbacks of the weekly list, a row each
    MaxChanges,   \* bound: changes of the data by runs
    MaxReleases,  \* bound: releases with another formula, and changes of the taxonomy
    MaxWeeks      \* bound: weeks that end

ASSUME SnapshotsAssumption == {MaxChanges, MaxReleases, MaxWeeks} \subseteq Nat

VARIABLES
    week,       \* the latest completed week
    release,    \* version of the formulas the newest release computes
    taxonomy,   \* version of the instruments' sectors and industries
    data,       \* version of the candles and members, per scope
    told,       \* the version the last deletion was for, per scope
    key,        \* the key this behaviour follows
    snapshot,   \* its stored row
    viewing,    \* each request
    writing     \* each run

snapshotVars == <<week, release, taxonomy, data, told, key, snapshot, viewing, writing>>

Scope == {"collection", "index"}

\* A row is found by its key: one for relative strength and one for each
\* lookback of the weekly list in a collection, one for the indices.
Strength == [scope |-> "collection", tier |-> 0]
Weekly == [scope : {"collection"}, tier : Tiers]
Indices == [scope |-> "index", tier |-> 0]
SnapshotKey == {Strength, Indices} \union Weekly

NoSnapshot == [kind |-> "none"]

IdleView == [at |-> "idle"]

SnapshotsInit ==
    /\ week = 0 /\ release = 0 /\ taxonomy = 0
    /\ data = [s \in Scope |-> 0]
    /\ told = data
    /\ key \in SnapshotKey
    /\ snapshot = NoSnapshot
    /\ viewing = [v \in Viewing |-> IdleView]
    /\ writing = [w \in Writing |-> [at |-> "idle"]]

-----------------------------------------------------------------------------
\* Readers.

\* A hit has the request's own formula, and of the weekly list also the latest week.
Hit(r) ==
    /\ snapshot # NoSnapshot
    /\ snapshot.release = r
    /\ key \in Weekly => snapshot.week = week

\* The sectors of a hit are taken from the members read now; indices have none.
Projected == IF key = Indices THEN snapshot.taxonomy ELSE taxonomy

ViewAnswer(v, row) ==
    viewing' = [viewing EXCEPT ![v] =
        [at |-> "answered", release |-> @.release, asked |-> @.asked, got |-> row]]

\* A request of some release begins; its members are read.
ViewAsked(v, r) ==
    /\ viewing[v].at = "idle"
    /\ viewing' = [viewing EXCEPT ![v] =
           [at |-> "asked", release |-> r,
            asked |-> [week |-> week, taxonomy |-> taxonomy]]]
    /\ UNCHANGED <<week, release, taxonomy, data, told, snapshot, writing, key>>

ViewHit(v) ==
    /\ viewing[v].at = "asked"
    /\ Hit(viewing[v].release)
    /\ ViewAnswer(v, [snapshot EXCEPT !.taxonomy = Projected])
    /\ UNCHANGED <<week, release, taxonomy, data, told, snapshot, writing, key>>

\* A miss: the candles are read now, the row is written later.
ViewComputes(v) ==
    /\ viewing[v].at = "asked"
    /\ ~Hit(viewing[v].release)
    /\ viewing' = [viewing EXCEPT ![v] =
           [at |-> "computed", release |-> @.release, asked |-> @.asked,
            data |-> data[key.scope], taxonomy |-> taxonomy, late |-> FALSE]]
    /\ UNCHANGED <<week, release, taxonomy, data, told, snapshot, writing, key>>

\* The row takes the date of its write, over whatever stands there by now.
ViewWrites(v) ==
    LET view == viewing[v]
        row == [kind |-> "row", release |-> view.release, week |-> week,
                taxonomy |-> view.taxonomy, data |-> view.data, late |-> view.late]
    IN  /\ view.at = "computed"
        /\ snapshot' = row
        /\ ViewAnswer(v, row)
        /\ UNCHANGED <<week, release, taxonomy, data, told, writing, key>>

ViewEnds(v) ==
    /\ viewing[v].at = "answered"
    /\ viewing' = [viewing EXCEPT ![v] = IdleView]
    /\ UNCHANGED <<week, release, taxonomy, data, told, snapshot, writing, key>>

-----------------------------------------------------------------------------
\* Changers.

\* Mutant: only the collection's own key.
KeysOfExactly(s) == {k \in SnapshotKey : k.scope = s /\ k.tier = 0}

\* The keys one deletion covers: a collection's own and every key below it.
KeysOf(s) == {k \in SnapshotKey : k.scope = s}

\* Rows of a scope are deleted for the version w has stored.
Deletes(w, s) ==
    /\ snapshot' = IF key \in KeysOf(s) THEN NoSnapshot ELSE snapshot
    /\ told' = [told EXCEPT ![s] = IF writing[w].data[s] > @ THEN writing[w].data[s] ELSE @]
    /\ viewing' = [v \in Viewing |->
           IF viewing[v].at = "computed" /\ key.scope = s
           THEN [viewing[v] EXCEPT !.late = TRUE]
           ELSE viewing[v]]

\* A candle sync, an import of members or an index backfill stores its rows.
Changed(kind) == IF kind = "indices" THEN "index" ELSE "collection"

DataStored(w, kind) ==
    /\ writing[w].at = "idle"
    /\ data["collection"] + data["index"] < MaxChanges
    /\ data' = [data EXCEPT ![Changed(kind)] = @ + 1]
    /\ writing' = [writing EXCEPT ![w] = [at |-> "stored", kind |-> kind, data |-> data']]
    /\ UNCHANGED <<week, release, taxonomy, told, snapshot, viewing, key>>

\* The deletion follows, of the scope that changed.
ScopeInvalidated(w) ==
    /\ writing[w].at = "stored"
    /\ Deletes(w, Changed(writing[w].kind))
    /\ writing' = [writing EXCEPT ![w] =
           IF @.kind = "sync" THEN [@ EXCEPT !.at = "deleted"] ELSE [at |-> "idle"]]
    /\ UNCHANGED <<week, release, taxonomy, data, key>>

\* A sync deletes the row of the exchange's indices as well.
IndexInvalidated(w) ==
    /\ writing[w].at = "deleted"
    /\ Deletes(w, "index")
    /\ writing' = [writing EXCEPT ![w] = [at |-> "idle"]]
    /\ UNCHANGED <<week, release, taxonomy, data, key>>

\* The run's process stops before it has told.
WriterDies(w) ==
    /\ writing[w].at # "idle"
    /\ writing' = [writing EXCEPT ![w] = [at |-> "idle"]]
    /\ UNCHANGED <<week, release, taxonomy, data, told, snapshot, viewing, key>>

\* Sector classification changes the instruments and no snapshot ...
TaxonomyChanges(w) ==
    /\ writing[w].at = "idle"
    /\ taxonomy < MaxReleases
    /\ taxonomy' = taxonomy + 1
    /\ writing' = [writing EXCEPT ![w] = [at |-> "classified"]]
    /\ UNCHANGED <<week, release, data, told, snapshot, viewing, key>>

\* ... and then adds what it has classified to its own collection, telling nobody:
\* the preparation it asks for fetches candles.
MembersClassified(w) ==
    /\ writing[w].at = "classified"
    /\ data' = [data EXCEPT !["collection"] = @ + 1]
    /\ writing' = [writing EXCEPT ![w] = [at |-> "idle"]]
    /\ UNCHANGED <<week, release, taxonomy, told, snapshot, viewing, key>>

NewRelease ==
    /\ release < MaxReleases
    /\ release' = release + 1
    /\ UNCHANGED <<week, taxonomy, data, told, snapshot, viewing, writing, key>>

WeekEnds ==
    /\ week < MaxWeeks
    /\ week' = week + 1
    /\ UNCHANGED <<release, taxonomy, data, told, snapshot, viewing, writing, key>>

SnapshotsNext ==
    \/ \E v \in Viewing :
          \/ \E r \in 0..release : ViewAsked(v, r)
          \/ ViewHit(v) \/ ViewComputes(v) \/ ViewWrites(v) \/ ViewEnds(v)
    \/ \E w \in Writing :
          \/ \E kind \in {"sync", "import", "indices"} : DataStored(w, kind)
          \/ ScopeInvalidated(w) \/ IndexInvalidated(w) \/ WriterDies(w)
          \/ TaxonomyChanges(w) \/ MembersClassified(w)
    \/ NewRelease \/ WeekEnds

SnapshotsSpec == SnapshotsInit /\ [][SnapshotsNext]_snapshotVars

-----------------------------------------------------------------------------
\* What is promised.

\* A row older than what a change has been told for was computed before that
\* change and written after its deletion: every row that stood there, and every
\* one computed since, is of the new data.
OldRowsAreLate ==
    snapshot # NoSnapshot => snapshot.data >= told[key.scope] \/ snapshot.late

\* An answer is of the request's formula, of a week not before the request's,
\* and with sectors no older than the members the request has read.
AnswersSuitTheRequest ==
    \A v \in Viewing : viewing[v].at = "answered" =>
        LET a == viewing[v]
        IN  /\ a.got.release = a.release
            /\ key \in Weekly => a.got.week >= a.asked.week
            /\ key # Indices => a.got.taxonomy >= a.asked.taxonomy

SnapshotsFollowTheMarket == OldRowsAreLate /\ AnswersSuitTheRequest
=============================================================================
