--------------------------- MODULE ProvidersProofs ---------------------------
(***************************************************************************)
(* Proofs about what an API process knows of its providers and asks them   *)
(* to stream, for any number of processes, reads, updates, viewers and     *)
(* calls.  Settings: what a process goes by is as recent as its caches     *)
(* promise, failing open never overrides a row that was read, the list of  *)
(* exchanges follows the updates of its own process, and no field is lost  *)
(* while no two updates overlap.  Stream: the counts are those of the      *)
(* holders, the providers are subscribed to what is held, the limit is     *)
(* kept, and the far ends follow.                                          *)
(***************************************************************************)
EXTENDS ProviderSettings, MarketStream, Functions, SequenceTheorems, FiniteSetTheorems, TLAPS

Fields == [enabled : {0, 1}, priority : {0, 1}]

\* A cached value: the version of the row it was read from, or 0, and when it expires.
Entry == [version : Nat, until : Nat]

ReadState == [at : {"idle", "reading", "read"}, server : Server \union {0}, list : BOOLEAN,
              began : Nat, version : Nat]

UpdateState == [at : {"idle", "writing", "written"}, server : Server \union {Elsewhere},
                seen : Fields \union {0}, field : {"enabled", "priority"}, value : {0, 1}]

\* Every version of the row but the last has been replaced at some moment.
RowTypes ==
    /\ moment \in Nat
    /\ row \in [enabled : {0, 1}, priority : {0, 1}, version : Nat \ {0}]
    /\ replacedAt \in Seq(Nat) /\ Len(replacedAt) = row.version - 1
    /\ asked \in Fields /\ collided \in BOOLEAN

CacheTypes ==
    /\ cached \in [Server -> Entry] /\ exchanges \in [Server -> Entry]
    /\ lastGood \subseteq Server /\ unsure \subseteq Server

ReadTypes == read \in [Reader -> ReadState]

UpdateTypes ==
    /\ update \in [Admin -> UpdateState]
    /\ \A a \in Admin : update[a].at = "writing" => update[a].seen \in Fields

Types == RowTypes /\ CacheTypes /\ ReadTypes /\ UpdateTypes

\* A version that was the row's at some moment from since on: if it has been replaced, then not
\* before since.
Stood(version, since) ==
    /\ version \in 1..row.version
    /\ version < row.version => replacedAt[version] >= since

\* What is cached, or about to be, was the row's value when its time to live began, or later.
Recent ==
    /\ \A s \in Server : cached[s].version # 0 =>
          /\ cached[s].until >= Ttl /\ cached[s].until - Ttl <= moment
          /\ Stood(cached[s].version, cached[s].until - Ttl)
    /\ \A r \in Reader : read[r].at # "idle" =>
          /\ read[r].server \in Server /\ read[r].began <= moment
          /\ read[r].at = "reading" => ~read[r].list
          /\ read[r].at = "read" => read[r].version # 0
          /\ read[r].at = "read" /\ ~read[r].list => Stood(read[r].version, read[r].began)

\* Whoever has cached something, or computes a list from it, has read the settings once.
Known ==
    /\ \A s \in Server : cached[s].version # 0 \/ exchanges[s].version # 0 => s \in lastGood
    /\ \A r \in Reader : read[r].at = "read" /\ read[r].list => read[r].server \in lastGood

\* A process that cleared its caches after the last update, with no read under way, has
\* nothing older than the row: neither cached nor on its way into a cache.
Sure ==
    \A s \in Server \ unsure :
        /\ cached[s].version \in {0, row.version} /\ exchanges[s].version \in {0, row.version}
        /\ \A r \in Reader : read[r].at = "read" /\ read[r].server = s =>
              read[r].version = row.version

\* As long as no two updates overlapped, one at most is about to write, and what it has read
\* of the row still stands there.
Apart ==
    collided \/
        /\ row.enabled = asked.enabled /\ row.priority = asked.priority
        /\ \A a \in Admin : update[a].at = "writing" =>
              /\ update[a].seen.enabled = row.enabled /\ update[a].seen.priority = row.priority
              /\ \A b \in Admin : update[b].at = "writing" => a = b

IInv == Types /\ Recent /\ Known /\ Sure /\ Apart

-----------------------------------------------------------------------------
(* Initially *)

\* The initial state satisfies the invariant: nothing is cached, read or updated.
LEMMA InitIInv == SettingsInit => IInv
<1> SUFFICES ASSUME SettingsInit PROVE IInv
    OBVIOUS
<1>1. RowTypes
  <2>1. /\ moment = 0 /\ replacedAt = <<>> /\ asked \in Fields
        /\ row.version = 1 /\ row \in [enabled : {0, 1}, priority : {0, 1}, version : Nat \ {0}]
      BY DEF SettingsInit, Fields
  <2>2. <<>> \in Seq(Nat) /\ Len(<<>>) = 0
      OBVIOUS
  <2>3. replacedAt \in Seq(Nat) /\ Len(replacedAt) = row.version - 1
      BY <2>1, <2>2
  <2>4. collided \in BOOLEAN
      BY DEF SettingsInit
  <2>q. QED
      BY <2>1, <2>3, <2>4 DEF RowTypes
<1>2. CacheTypes
    BY DEF SettingsInit, CacheTypes, Entry, Absent
<1>3. ReadTypes
    BY DEF SettingsInit, ReadTypes, ReadState, NoRead
<1>4. UpdateTypes
    BY DEF SettingsInit, UpdateTypes, UpdateState, NoUpdate, Elsewhere
<1>5. Recent /\ Known /\ Sure
    BY DEF SettingsInit, Recent, Known, Sure, Absent, NoRead
<1>6. Apart
    BY DEF SettingsInit, Apart, NoUpdate
<1>q. QED
    BY <1>1, <1>2, <1>3, <1>4, <1>5, <1>6 DEF IInv, Types

-----------------------------------------------------------------------------
(* Reads *)

\* What one read may become without disturbing the invariant.
Sound(new) ==
    new.at # "idle" =>
        /\ new.server \in Server /\ new.began <= moment
        /\ new.at = "reading" => ~new.list
        /\ new.at = "read" =>
              /\ new.version # 0
              /\ IF new.list THEN new.server \in lastGood ELSE Stood(new.version, new.began)
              /\ new.server \notin unsure => new.version = row.version

\* A read moves on, and nothing else but perhaps the set of processes that have read once.
LEMMA ReadMoves ==
    ASSUME IInv, NEW r \in Reader, NEW new \in ReadState, Sound(new),
           read' = [read EXCEPT ![r] = new],
           lastGood \subseteq lastGood', lastGood' \subseteq Server,
           UNCHANGED <<moment, row, replacedAt, cached, exchanges, update, asked, collided, unsure>>
    PROVE  IInv'
<1> USE DEF IInv
<1>1. read'[r] = new /\ \A q \in Reader \ {r} : read'[q] = read[q]
    BY DEF Types, ReadTypes
<1>2. Types'
    BY DEF Types, RowTypes, CacheTypes, ReadTypes, UpdateTypes
<1>3. Recent'
    BY <1>1 DEF Recent, Stood, Sound
<1>4. Known'
    BY <1>1 DEF Known, Sound
<1>5. Sure'
    BY <1>1 DEF Sure, Sound
<1>6. Apart'
    BY DEF Apart
<1>q. QED
    BY <1>2, <1>3, <1>4, <1>5, <1>6

\* The cache answers, or a read begins.
LEMMA AskKeeps == ASSUME IInv, NEW r \in Reader, NEW s \in Server, Ask(r, s) PROVE IInv'
<1>1. CASE Valid(cached[s])
  <2>1. read' = [read EXCEPT ![r] = read[r]] /\ read[r] \in ReadState
      BY <1>1 DEF Ask, IInv, Types, ReadTypes
  <2>2. Sound(read[r])
      BY DEF Ask, Sound
  <2>3. lastGood' = lastGood \union {s} /\ lastGood \subseteq Server
      BY <1>1 DEF Ask, IInv, Types, CacheTypes
  <2>q. QED
      BY <2>1, <2>2, <2>3, ReadMoves DEF Ask
<1>2. CASE ~Valid(cached[s])
  <2> DEFINE new == [at |-> "reading", server |-> s, list |-> FALSE, began |-> moment,
                     version |-> 0]
  <2>1. read' = [read EXCEPT ![r] = new]
      BY <1>2 DEF Ask, NoRead
  <2>2. new \in ReadState
      BY DEF ReadState, IInv, Types, RowTypes
  <2>3. Sound(new)
      BY DEF Sound, IInv, Types, RowTypes
  <2>4. lastGood' = lastGood /\ lastGood \subseteq Server
      BY <1>2 DEF Ask, IInv, Types, CacheTypes
  <2> HIDE DEF new
  <2>q. QED
      BY <2>1, <2>2, <2>3, <2>4, ReadMoves DEF Ask
<1>q. QED
    BY <1>1, <1>2

\* The row is read: as it is now.
LEMMA RowReadKeeps == ASSUME IInv, NEW r \in Reader, RowRead(r) PROVE IInv'
<1> DEFINE new == [read[r] EXCEPT !.at = "read", !.version = row.version]
<1>1. read[r] \in ReadState /\ read[r].at = "reading" /\ row.version \in Nat \ {0}
    BY DEF RowRead, IInv, Types, ReadTypes, RowTypes
<1>2. read' = [read EXCEPT ![r] = new]
    BY DEF RowRead, IInv, Types, ReadTypes
<1>3. /\ new \in ReadState /\ new.at = "read" /\ new.version = row.version
      /\ new.server = read[r].server /\ new.list = read[r].list /\ new.began = read[r].began
    BY <1>1 DEF ReadState
<1> HIDE DEF new
<1>4. ~read[r].list
    BY <1>1 DEF IInv, Recent
<1>5. Sound(new)
    BY <1>1, <1>3, <1>4 DEF Sound, IInv, Recent, Stood
<1>6. lastGood' = lastGood /\ lastGood \subseteq Server
    BY DEF RowRead, IInv, Types, CacheTypes
<1>q. QED
    BY <1>2, <1>3, <1>5, <1>6, ReadMoves DEF RowRead

\* The database does not answer.
LEMMA ReadFailsKeeps == ASSUME IInv, NEW r \in Reader, ReadFails(r) PROVE IInv'
<1>1. NoRead \in ReadState /\ Sound(NoRead)
    BY DEF NoRead, ReadState, Sound
<1>2. lastGood' = lastGood /\ lastGood \subseteq Server
    BY DEF ReadFails, IInv, Types, CacheTypes
<1>q. QED
    BY <1>1, <1>2, ReadMoves DEF ReadFails

\* A list is begun, from the settings its process believes.
LEMMA ListBeginsKeeps ==
    ASSUME IInv, NEW r \in Reader, NEW s \in Server, ListBegins(r, s) PROVE IInv'
<1> DEFINE new == [at |-> "read", server |-> s, list |-> TRUE, began |-> moment,
                   version |-> cached[s].version]
<1>1. cached[s] \in Entry /\ cached[s].version # 0 /\ moment \in Nat
    BY DEF ListBegins, Valid, IInv, Types, CacheTypes, RowTypes
<1>2. new \in ReadState
    BY <1>1 DEF ReadState, Entry
<1>3. Sound(new)
    BY <1>1 DEF Sound, IInv, Known, Sure
<1>4. read' = [read EXCEPT ![r] = new] /\ lastGood' = lastGood /\ lastGood \subseteq Server
    BY DEF ListBegins, IInv, Types, CacheTypes
<1> HIDE DEF new
<1>q. QED
    BY <1>2, <1>3, <1>4, ReadMoves DEF ListBegins

\* The settings are stored: their time to live began before they were read.
LEMMA StoredKeeps == ASSUME IInv, NEW r \in Reader, Stored(r) PROVE IInv'
<1> USE SettingsAssumption DEF IInv
<1>1. ReadTypes' /\ RowTypes' /\ UpdateTypes'
    BY DEF Stored, Types, RowTypes, ReadTypes, UpdateTypes, ReadState, NoRead
<1>2. CacheTypes'
    BY DEF Stored, Types, CacheTypes, RowTypes, ReadTypes, ReadState, Recent, Entry, Filled
<1>3. Recent'
  <2> DEFINE s == read[r].server
  <2>1. /\ read[r] \in ReadState /\ s \in Server /\ read[r].began <= moment
        /\ read[r].version # 0 /\ Stood(read[r].version, read[r].began)
      BY DEF Stored, Types, ReadTypes, Recent
  <2>2. /\ cached'[s].version = read[r].version /\ cached'[s].until = read[r].began + Ttl
        /\ \A t \in Server \ {s} : cached'[t] = cached[t]
      BY <2>1 DEF Stored, Filled, Types, CacheTypes
  <2>3. read'[r].at = "idle" /\ \A q \in Reader \ {r} : read'[q] = read[q]
      BY DEF Stored, NoRead, Types, ReadTypes
  <2>4. UNCHANGED <<moment, row, replacedAt>> /\ moment \in Nat
      BY DEF Stored, Types, RowTypes
  <2>5. read[r].began \in Nat /\ read[r].began + Ttl - Ttl = read[r].began
      BY <2>1 DEF ReadState
  <2>6. /\ cached'[s].until >= Ttl /\ cached'[s].until - Ttl = read[r].began
        /\ Stood(cached'[s].version, cached'[s].until - Ttl)
      BY <2>1, <2>2, <2>5
  <2> HIDE DEF s
  <2>q. QED
      BY <2>1, <2>2, <2>3, <2>4, <2>6 DEF Recent, Stood
<1>4. Known'
    BY DEF Stored, Types, RowTypes, CacheTypes, ReadTypes, Entry, ReadState, Known, Recent,
       NoRead, Filled
<1>5. Sure'
    BY DEF Stored, Types, RowTypes, CacheTypes, ReadTypes, Entry, ReadState, Sure, NoRead, Filled
<1>6. Apart'
    BY DEF Stored, Apart
<1>q. QED
    BY <1>1, <1>2, <1>3, <1>4, <1>5, <1>6 DEF Types

\* The list is stored.
LEMMA ListStoredKeeps == ASSUME IInv, NEW r \in Reader, ListStored(r) PROVE IInv'
<1> USE SettingsAssumption DEF IInv
<1>1. ReadTypes' /\ RowTypes' /\ UpdateTypes'
    BY DEF ListStored, Types, RowTypes, ReadTypes, UpdateTypes, ReadState, NoRead
<1>2. CacheTypes'
    BY DEF ListStored, Types, CacheTypes, RowTypes, ReadTypes, ReadState, Recent, Entry, Filled
<1>3. Recent'
    BY DEF ListStored, Types, RowTypes, CacheTypes, ReadTypes, Entry, ReadState, Recent, Stood,
           NoRead, Filled
<1>4. Known'
    BY DEF ListStored, Types, RowTypes, CacheTypes, ReadTypes, Entry, ReadState, Known, Recent,
       NoRead, Filled
<1>5. Sure'
    BY DEF ListStored, Types, RowTypes, CacheTypes, ReadTypes, Entry, ReadState, Sure, NoRead,
       Filled
<1>6. Apart'
    BY DEF ListStored, Apart
<1>q. QED
    BY <1>1, <1>2, <1>3, <1>4, <1>5, <1>6 DEF Types

-----------------------------------------------------------------------------
(* Updates *)

\* The caches of a process are cleared.
LEMMA ClearedKeeps ==
    ASSUME IInv, NEW s \in Server, Cleared(s), UpdateTypes', Apart',
           UNCHANGED <<moment, row, replacedAt, lastGood, read, asked, collided>>
    PROVE  IInv'
<1> USE DEF IInv, Cleared, Invalidate
<1>1. /\ cached' = [cached EXCEPT ![s] = Absent] /\ exchanges' = [exchanges EXCEPT ![s] = Absent]
      /\ cached \in [Server -> Entry] /\ exchanges \in [Server -> Entry]
      /\ Absent \in Entry /\ Absent.version = 0
    BY DEF Types, CacheTypes, Absent, Entry
<1>2. RowTypes' /\ ReadTypes'
    BY DEF Types, RowTypes, ReadTypes
<1>3. CacheTypes'
    BY <1>1 DEF Types, CacheTypes
<1>4. Recent'
    BY <1>1 DEF Recent, Stood
<1>5. Known'
    BY <1>1 DEF Known
<1>6. Sure'
    BY <1>1 DEF Sure, Types, CacheTypes, ReadTypes, ReadState
<1>q. QED
    BY <1>2, <1>3, <1>4, <1>5, <1>6 DEF Types

\* The health is recorded.
LEMMA HealthKeeps == ASSUME IInv, NEW s \in Server, HealthRecorded(s) PROVE IInv'
<1>1. UpdateTypes' /\ Apart'
    BY DEF HealthRecorded, IInv, Types, UpdateTypes, Apart
<1>q. QED
    BY <1>1, ClearedKeeps DEF HealthRecorded

\* An update reads the row.
LEMMA UpdateReadsKeeps ==
    ASSUME IInv, NEW a \in Admin, NEW s \in Server \union {Elsewhere}, NEW value \in {0, 1},
           NEW field \in {"enabled", "priority"}, UpdateReads(a, s, field, value)
    PROVE  IInv'
<1> USE DEF IInv
<1> DEFINE new == [at |-> "writing", server |-> s, field |-> field, value |-> value,
                   seen |-> [enabled |-> row.enabled, priority |-> row.priority]]
<1>1. update' = [update EXCEPT ![a] = new] /\ update[a].at = "idle"
    BY DEF UpdateReads
<1>2. new.seen \in Fields /\ new \in UpdateState
    BY DEF Types, RowTypes, Fields, UpdateState
<1>3. /\ update'[a].at = "writing"
      /\ update'[a].seen.enabled = row.enabled /\ update'[a].seen.priority = row.priority
      /\ \A b \in Admin \ {a} : update'[b] = update[b]
    BY <1>1 DEF Types, UpdateTypes
<1>4. UpdateTypes'
  <2> HIDE DEF new
  <2>q. QED
      BY <1>1, <1>2 DEF Types, UpdateTypes
<1> HIDE DEF new
<1>5. RowTypes' /\ CacheTypes' /\ ReadTypes'
    BY DEF UpdateReads, Types, RowTypes, CacheTypes, ReadTypes
<1>6. Recent' /\ Known' /\ Sure'
    BY DEF UpdateReads, Recent, Stood, Known, Sure
<1>7. Apart'
  <2>1. CASE collided \/ \E b \in Admin : update[b].at = "writing"
    <3>1. collided'
        BY <2>1 DEF UpdateReads
    <3>q. QED
        BY <3>1 DEF Apart
  <2>2. CASE ~collided /\ \A b \in Admin : update[b].at # "writing"
    <3>1. \A b \in Admin : update'[b].at = "writing" => b = a
        BY <1>3, <2>2
    <3>2. row' = row /\ asked' = asked
        BY DEF UpdateReads
    <3>q. QED
        BY <1>3, <2>2, <3>1, <3>2 DEF Apart
  <2>q. QED
      BY <2>1, <2>2
<1>q. QED
    BY <1>4, <1>5, <1>6, <1>7 DEF Types

\* An update writes the row: the version that was the row's until now has stood until now.
LEMMA UpdateWritesKeeps == ASSUME IInv, NEW a \in Admin, UpdateWrites(a) PROVE IInv'
<1> USE DEF IInv
<1> DEFINE u == update[a]
           new == OtherFieldKept(a)
<1>1. /\ u \in UpdateState /\ u.at = "writing" /\ u.seen \in Fields
      /\ u.value \in {0, 1} /\ u.field \in {"enabled", "priority"}
      /\ row.version \in Nat \ {0} /\ moment \in Nat /\ asked \in Fields
    BY DEF UpdateWrites, Types, UpdateTypes, UpdateState, RowTypes
<1>2. /\ new \in Fields /\ asked' \in Fields
      /\ \/ /\ new.enabled = u.value /\ new.priority = u.seen.priority
            /\ asked'.enabled = u.value /\ asked'.priority = asked.priority
         \/ /\ new.priority = u.value /\ new.enabled = u.seen.enabled
            /\ asked'.priority = u.value /\ asked'.enabled = asked.enabled
  <2>1. asked' = [asked EXCEPT ![u.field] = u.value] /\ new = [u.seen EXCEPT ![u.field] = u.value]
      BY DEF UpdateWrites, OtherFieldKept
  <2> HIDE DEF u, new
  <2>2. CASE u.field = "enabled"
      BY <1>1, <2>1, <2>2 DEF Fields
  <2>3. CASE u.field = "priority"
      BY <1>1, <2>1, <2>3 DEF Fields
  <2>q. QED
      BY <1>1, <2>2, <2>3
<1>3. /\ row' = [enabled |-> new.enabled, priority |-> new.priority, version |-> row.version + 1]
      /\ replacedAt' = Append(replacedAt, moment)
      /\ update' = [update EXCEPT ![a].at = "written"] /\ unsure' = Server
      /\ UNCHANGED <<moment, cached, lastGood, exchanges, read, collided>>
    BY DEF UpdateWrites
<1> HIDE DEF new
<1>4. RowTypes'
    BY <1>1, <1>2, <1>3 DEF Types, RowTypes, Fields
<1>5. CacheTypes' /\ ReadTypes'
    BY <1>3 DEF Types, CacheTypes, ReadTypes
<1>6. /\ update' \in [Admin -> UpdateState] /\ update'[a].at = "written"
      /\ \A b \in Admin \ {a} : update'[b] = update[b]
    BY <1>1, <1>3 DEF Types, UpdateTypes, UpdateState
<1>7. UpdateTypes'
    BY <1>6 DEF Types, UpdateTypes
<1>8. ASSUME NEW version \in Nat \ {0}, NEW since \in Nat, since <= moment, Stood(version, since)
      PROVE  Stood(version, since)'
    BY <1>1, <1>3, <1>8 DEF Stood, Types, RowTypes
<1>9. Recent'
  <2>1. ASSUME NEW s \in Server, cached[s].version # 0
        PROVE  Stood(cached[s].version, cached[s].until - Ttl)'
    <3>1. cached[s] \in Entry
        BY DEF Types, CacheTypes
    <3>2. /\ cached[s].version \in Nat \ {0} /\ cached[s].until - Ttl \in Nat
          /\ cached[s].until - Ttl <= moment /\ Stood(cached[s].version, cached[s].until - Ttl)
        BY <2>1, <3>1, SettingsAssumption DEF Entry, Recent
    <3>3. Stood(cached[s].version, cached[s].until - Ttl)'
        BY <1>3, <1>8, <3>2 DEF Stood
    <3>q. QED
        BY <3>3
  <2>2. ASSUME NEW r \in Reader, read[r].at = "read", ~read[r].list
        PROVE  Stood(read[r].version, read[r].began)'
    <3>1. read[r] \in ReadState
        BY DEF Types, ReadTypes
    <3>2. /\ read[r].version \in Nat \ {0} /\ read[r].began \in Nat /\ read[r].began <= moment
          /\ Stood(read[r].version, read[r].began)
        BY <2>2, <3>1 DEF ReadState, Recent
    <3>q. QED
        BY <1>3, <1>8, <3>2 DEF Stood
  <2>q. QED
      BY <1>3, <2>1, <2>2 DEF Recent
<1>10. Known' /\ Sure'
    BY <1>3 DEF Known, Sure
<1>11. Apart'
  <2> SUFFICES ASSUME ~collided PROVE Apart'
      BY <1>3 DEF Apart
  <2>1. /\ u.seen.enabled = row.enabled /\ u.seen.priority = row.priority
        /\ row.enabled = asked.enabled /\ row.priority = asked.priority
        /\ \A b \in Admin \ {a} : update[b].at # "writing"
      BY <1>1 DEF Apart
  <2>2. \A b \in Admin : update'[b].at # "writing"
      BY <1>6, <2>1
  <2>q. QED
      BY <1>2, <1>3, <2>1, <2>2 DEF Apart
<1>q. QED
    BY <1>4, <1>5, <1>7, <1>9, <1>10, <1>11 DEF Types

\* The caches of the process that made the update are cleared.
LEMMA UpdateInvalidatesKeeps == ASSUME IInv, NEW a \in Admin, UpdateInvalidates(a) PROVE IInv'
<1>1. /\ update' = [update EXCEPT ![a] = NoUpdate] /\ NoUpdate \in UpdateState
      /\ NoUpdate.at = "idle"
    BY DEF UpdateInvalidates, NoUpdate, UpdateState, Elsewhere
<1>2. UpdateTypes'
    BY <1>1 DEF IInv, Types, UpdateTypes
<1>3. Apart'
    BY <1>1 DEF UpdateInvalidates, IInv, Types, UpdateTypes, Apart
<1>4. CASE update[a].server \in Server
    BY <1>2, <1>3, <1>4, ClearedKeeps DEF UpdateInvalidates
<1>5. CASE update[a].server \notin Server
  <2>1. UNCHANGED <<moment, row, replacedAt, cached, lastGood, exchanges, read, asked, collided,
                    unsure>>
      BY <1>5 DEF UpdateInvalidates
  <2>q. QED
      BY <1>2, <1>3, <2>1
         DEF IInv, Types, RowTypes, CacheTypes, ReadTypes, Recent, Stood, Known, Sure
<1>q. QED
    BY <1>4, <1>5

\* Time passes.
LEMMA PassKeeps == ASSUME IInv, Pass PROVE IInv'
<1> USE DEF IInv
<1>1. Types'
    BY DEF Pass, Types, RowTypes, CacheTypes, ReadTypes, UpdateTypes
<1>2. Recent'
    BY SettingsAssumption
       DEF Pass, Recent, Stood, Types, RowTypes, CacheTypes, ReadTypes, Entry, ReadState
<1>3. Known' /\ Sure' /\ Apart'
    BY DEF Pass, Known, Sure, Apart
<1>q. QED
    BY <1>1, <1>2, <1>3

-----------------------------------------------------------------------------
(* The theorem *)

\* Every step keeps the invariant.
LEMMA NextIInv == IInv /\ [SettingsNext]_settingsVars => IInv'
<1> SUFFICES ASSUME IInv, [SettingsNext]_settingsVars PROVE IInv'
    OBVIOUS
<1>1. CASE SettingsNext
    BY <1>1, AskKeeps, RowReadKeeps, StoredKeeps, ReadFailsKeeps, ListBeginsKeeps,
       ListStoredKeeps, HealthKeeps, UpdateReadsKeeps, UpdateWritesKeeps, UpdateInvalidatesKeeps,
       PassKeeps
       DEF SettingsNext
<1>2. CASE UNCHANGED settingsVars
    BY <1>2 DEF settingsVars, IInv, Types, RowTypes, CacheTypes, ReadTypes, UpdateTypes, Recent,
                Stood, Known, Sure, Apart
<1>q. QED
    BY <1>1, <1>2

\* What the invariant says of times to live gives what the readers are promised.
LEMMA KeptByInvariant == IInv => SettingsAreKept
<1> SUFFICES ASSUME IInv PROVE SettingsAreKept
    OBVIOUS
<1> USE DEF IInv
<1>1. BeliefsAreRecent
  <2> SUFFICES ASSUME NEW s \in Server, Valid(cached[s]), cached[s].version < row.version
               PROVE  moment - replacedAt[cached[s].version] < Ttl
      BY DEF BeliefsAreRecent
  <2>1. /\ cached[s] \in Entry /\ cached[s].version # 0 /\ moment < cached[s].until
        /\ replacedAt \in Seq(Nat) /\ Len(replacedAt) = row.version - 1 /\ moment \in Nat
        /\ row.version \in Nat
      BY DEF Valid, Types, CacheTypes, RowTypes
  <2>2. replacedAt[cached[s].version] >= cached[s].until - Ttl
      BY <2>1 DEF Recent, Stood
  <2>3. cached[s].version \in 1..Len(replacedAt)
      BY <2>1 DEF Entry
  <2>4. replacedAt[cached[s].version] \in Nat
      BY <2>1, <2>3
  <2>q. QED
      BY <2>1, <2>2, <2>4, SettingsAssumption DEF Entry
<1>2. FailOpenOnlyBeforeFirstRead
    BY DEF FailOpenOnlyBeforeFirstRead, Known
<1>3. ListFollowsUpdates
    BY DEF ListFollowsUpdates, Sure, Valid
<1>4. NoFieldLost
    BY DEF NoFieldLost, Apart
<1>q. QED
    BY <1>1, <1>2, <1>3, <1>4 DEF SettingsAreKept

\* What a process believes of the settings was the row's less than a time to live ago, its list of
\* exchanges follows its own updates, a row that was read is never overridden by failing open,
\* and no field is lost while no two updates overlap: for any number of processes, reads and
\* updates, in every order of reads, writes, fills and invalidations.
THEOREM SettingsKept == SettingsSpec => []SettingsAreKept
<1>q. QED
    BY InitIInv, NextIInv, KeptByInvariant, PTL DEF SettingsSpec

-----------------------------------------------------------------------------
(* The stream: the invariant *)

Provider == {"eodhd", "gdf"}
TaskRow == [at : {"idle", "settings", "instruments", "sending", "sent"}, todo : SUBSET Symbol,
            room : Nat]
Sending == [what : {"add", "drop"}, sym : OnGdf, by : Task \union {NoTask}]

Holders(s) == {v \in Viewer : s \in viewers[v]}

CountTypes ==
    /\ viewers \in [Viewer -> SUBSET Symbol] /\ refs \in [Symbol -> Nat] /\ ensured \subseteq Symbol
    /\ \A s \in Symbol : IsFiniteSet(Holders(s))
    /\ task \in [Task -> TaskRow]

\* What a call has still to do is held, unless it was let go.
CallsAreHeld ==
    \A t \in Task : \A s \in task[t].todo : refs[s] > 0 \/ s \in overtaken

\* The providers serve their own exchanges.
ProviderTypes ==
    /\ eodSubs \subseteq Symbol \ (OnGdf \union Retired)
    /\ gdfSubs \subseteq OnGdf /\ IsFiniteSet(gdfSubs)
    /\ outbox \in Seq(Sending)
    /\ eodOthers \in [closing : Nat, live : Nat]
    /\ \A t \in Task :
          task[t].at \in {"instruments", "sending", "sent"} => task[t].todo \subseteq OnGdf

\* A call that awaits a send has one on its way, and no other call has.
SendsAreAwaited ==
    /\ \A i \in DOMAIN outbox : outbox[i].by # NoTask => task[outbox[i].by].at = "sending"
    /\ \A i, j \in DOMAIN outbox : outbox[i].by = outbox[j].by /\ outbox[i].by # NoTask => i = j

\* While no two calls looped beside each other, the one that does has its room.
RoomIsLeft ==
    ~crowded => \A t \in Task : Looping(t) =>
        /\ Cardinality(gdfSubs) + task[t].room <= SymbolLimit
        /\ \A u \in Task : Looping(u) => u = t

\* The last send about a symbol says what is subscribed; without one, GDF has it.
LastSendTells ==
    ~disturbed => \A s \in OnGdf :
        \/ \E i \in DOMAIN outbox :
              /\ outbox[i].sym = s /\ (outbox[i].what = "add" <=> s \in gdfSubs)
              /\ \A j \in DOMAIN outbox : outbox[j].sym = s => j <= i
        \/ /\ \A i \in DOMAIN outbox : outbox[i].sym # s
           /\ s \in gdfServer <=> s \in gdfSubs

\* No socket closes behind the provider's back before it was disabled.
SocketsClose == "eodhd" \notin disabled => eodOthers.closing = 0

StreamInv ==
    /\ CountTypes /\ ProviderTypes
    /\ CountsMatchHolders /\ CallsAreHeld /\ NothingLeaks /\ HeldIsSubscribed
    /\ SendsAreAwaited /\ RoomIsLeft /\ WithinSymbolLimit
    /\ gdfServer \subseteq OnGdf /\ LastSendTells /\ EodKeepsUp /\ SocketsClose

-----------------------------------------------------------------------------
(* Sends, in order *)

\* Some sends were added behind those there are, one for each symbol.
Sends(S, kind, by) ==
    /\ outbox' \in Seq(Sending) /\ DOMAIN outbox \subseteq DOMAIN outbox'
    /\ \A i \in DOMAIN outbox : outbox'[i] = outbox[i]
    /\ \A i \in DOMAIN outbox' \ DOMAIN outbox :
          /\ \A j \in DOMAIN outbox : j <= i
          /\ outbox'[i].what = kind /\ outbox'[i].by = by /\ outbox'[i].sym \in S
    /\ \A i, j \in DOMAIN outbox' \ DOMAIN outbox : outbox'[i].sym = outbox'[j].sym => i = j
    /\ \A s \in S : \E i \in DOMAIN outbox' \ DOMAIN outbox : outbox'[i].sym = s

\* Whatever the order, each symbol of a finite set is sent once.
LEMMA SendsAdded ==
    ASSUME outbox \in Seq(Sending), NEW S \in SUBSET OnGdf, IsFiniteSet(S),
           NEW kind \in {"add", "drop"}, NEW by \in Task \union {NoTask}, SendInOrder(S, kind, by)
    PROVE  Sends(S, kind, by)
<1> DEFINE n == Cardinality(S)
<1>1. n \in Nat
    BY FS_CardinalityType
<1> HIDE DEF n
<1>2. PICK order \in [1..n -> S] :
        /\ \A i, j \in DOMAIN order : i # j => order[i] # order[j]
        /\ outbox' = outbox \o [i \in DOMAIN order |-> [what |-> kind, sym |-> order[i], by |-> by]]
    BY DEF SendInOrder, n
<1> DEFINE new == [i \in 1..n |-> [what |-> kind, sym |-> order[i], by |-> by]]
<1>3. /\ new \in Seq(Sending) /\ Len(new) = n
      /\ \A i \in 1..n : new[i].what = kind /\ new[i].sym = order[i] /\ new[i].by = by
  <2>1. \A i \in 1..n : [what |-> kind, sym |-> order[i], by |-> by] \in Sending
      BY DEF Sending
  <2>2. new \in [1..n -> Sending]
      BY <2>1
  <2>q. QED
      BY <1>1, <2>2, IsASeq
<1>4. outbox' = outbox \o new
    BY <1>2
<1> HIDE DEF new
<1>5. /\ outbox' \in Seq(Sending) /\ Len(outbox') = Len(outbox) + n
      /\ \A i \in 1 .. Len(outbox) + n :
            outbox'[i] = IF i <= Len(outbox) THEN outbox[i] ELSE new[i - Len(outbox)]
    BY <1>3, <1>4, ConcatProperties
<1>6. /\ Len(outbox) \in Nat /\ DOMAIN outbox = 1..Len(outbox)
      /\ DOMAIN outbox' = 1 .. Len(outbox) + n
    BY <1>5
<1>7. ASSUME NEW i \in DOMAIN outbox' \ DOMAIN outbox
      PROVE  /\ i - Len(outbox) \in 1..n /\ outbox'[i] = new[i - Len(outbox)]
             /\ \A j \in DOMAIN outbox : j <= i
    BY <1>1, <1>5, <1>6
<1>8. ASSUME NEW s \in S
      PROVE  \E i \in DOMAIN outbox' \ DOMAIN outbox : outbox'[i].sym = s
  <2>1. IsFiniteSet(1..n) /\ Cardinality(1..n) = n
      BY <1>1, FS_Interval
  <2>2. order \in Injection(1..n, S)
      BY <1>2 DEF Injection, IsInjective
  <2>3. order \in Surjection(1..n, S)
      BY <2>1, <2>2, FS_Injection DEF n
  <2>4. PICK k \in 1..n : order[k] = s
      BY <2>3 DEF Surjection
  <2>5. k + Len(outbox) \in DOMAIN outbox' \ DOMAIN outbox /\ (k + Len(outbox)) - Len(outbox) = k
      BY <1>1, <1>6
  <2>6. outbox'[k + Len(outbox)] = new[k]
      BY <1>7, <2>5
  <2>q. QED
      BY <1>3, <2>4, <2>5, <2>6
<1>9. \A i, j \in DOMAIN outbox' \ DOMAIN outbox : outbox'[i].sym = outbox'[j].sym => i = j
  <2> SUFFICES ASSUME NEW i \in DOMAIN outbox' \ DOMAIN outbox,
                      NEW j \in DOMAIN outbox' \ DOMAIN outbox, outbox'[i].sym = outbox'[j].sym
               PROVE  i = j
      OBVIOUS
  <2>1. order[i - Len(outbox)] = order[j - Len(outbox)]
      BY <1>3, <1>7
  <2>2. i - Len(outbox) = j - Len(outbox)
      BY <1>2, <1>7, <2>1
  <2>q. QED
      BY <1>1, <1>6, <2>2
<1>10. \A i \in DOMAIN outbox : outbox'[i] = outbox[i] /\ i \in DOMAIN outbox'
    BY <1>1, <1>5, <1>6
<1>11. \A i \in DOMAIN outbox' \ DOMAIN outbox :
          outbox'[i].what = kind /\ outbox'[i].by = by /\ outbox'[i].sym \in S
    BY <1>2, <1>3, <1>7
<1>q. QED
    BY <1>5, <1>7, <1>8, <1>9, <1>10, <1>11 DEF Sends

\* The first send has left: the others moved up.
FirstLeft ==
    /\ outbox \in Seq(Sending) /\ outbox' \in Seq(Sending)
    /\ 1 \in DOMAIN outbox /\ Head(outbox) = outbox[1]
    /\ DOMAIN outbox \subseteq Nat \ {0}
    /\ \A i \in DOMAIN outbox' : i \in Nat /\ i + 1 \in DOMAIN outbox /\ outbox'[i] = outbox[i + 1]
    /\ \A i \in DOMAIN outbox : i # 1 => i - 1 \in DOMAIN outbox'

\* What a queue is once its first entry has gone.
LEMMA SendLeft ==
    ASSUME outbox \in Seq(Sending), outbox # <<>>, outbox' = Tail(outbox)
    PROVE  FirstLeft
<1>1. /\ outbox' \in Seq(Sending) /\ Len(outbox') = Len(outbox) - 1 /\ Len(outbox) \in Nat
      /\ \A i \in 1 .. Len(outbox') : outbox'[i] = outbox[i + 1]
    BY HeadTailProperties
<1>2. DOMAIN outbox = 1..Len(outbox) /\ Len(outbox') \in Nat /\ DOMAIN outbox' = 1..Len(outbox')
    BY <1>1
<1>3. Len(outbox) # 0
    BY EmptySeq
<1>q. QED
    BY <1>1, <1>2, <1>3 DEF FirstLeft

-----------------------------------------------------------------------------
(* Counts *)

\* A call that begins has all of its symbols to do, and no other call changes.
Begun(S) ==
    \/ task' = task /\ Added(S) = {}
    \/ \E t \in Task :
          /\ task[t] = Free
          /\ task' = [task EXCEPT ![t] = [at |-> "settings", todo |-> Added(S), room |-> 0]]

\* A call that is suspended has begun.
LEMMA SuspendBegins ==
    ASSUME NEW S, Suspend(S)
    PROVE  Begun(S)
BY DEF Suspend, Begun

\* A new holder of symbols: a viewer, or an idle timer.
LEMMA SubscribeCounts ==
    ASSUME CountTypes, CountsMatchHolders, NEW v \in Viewer, NEW S \in Message, Subscribe(v, S)
    PROVE  CountTypes' /\ CountsMatchHolders'
<1> DEFINE new == S \ viewers[v]
<1>1. S \subseteq Symbol /\ new \subseteq Symbol
    BY StreamAssumption
<1>2. /\ viewers' = [viewers EXCEPT ![v] = @ \union S] /\ ensured' = ensured
      /\ refs' = Retained(new) /\ Suspend(new)
    BY DEF Subscribe
<1>3. \A s \in Symbol : Holders(s)' = IF s \in new THEN Holders(s) \union {v} ELSE Holders(s)
    BY <1>1, <1>2 DEF CountTypes, Holders
<1>4. \A s \in new : v \notin Holders(s)
    BY DEF Holders
<1>5. viewers' \in [Viewer -> SUBSET Symbol] /\ ensured' \subseteq Symbol
    BY <1>1, <1>2 DEF CountTypes
<1> HIDE DEF new
<1>6. /\ refs' \in [Symbol -> Nat]
      /\ \A s \in Symbol : refs'[s] = IF s \in new THEN refs[s] + 1 ELSE refs[s]
    BY <1>2 DEF Retained, CountTypes
<1>7. task' \in [Task -> TaskRow]
    BY <1>1, <1>2, SuspendBegins DEF Begun, CountTypes, TaskRow, Added
<1>8. ASSUME NEW s \in Symbol
      PROVE  /\ IsFiniteSet(Holders(s)')
             /\ refs'[s] = Cardinality(Holders(s)') + (IF s \in ensured' THEN 1 ELSE 0)
  <2>1. IsFiniteSet(Holders(s)) /\ Cardinality(Holders(s)) \in Nat
      BY FS_CardinalityType DEF CountTypes
  <2>2. refs[s] = Cardinality(Holders(s)) + (IF s \in ensured THEN 1 ELSE 0)
      BY DEF CountsMatchHolders, Holders
  <2>3. CASE s \in new
    <3>1. IsFiniteSet(Holders(s)') /\ Cardinality(Holders(s)') = Cardinality(Holders(s)) + 1
        BY <1>3, <1>4, <2>1, <2>3, FS_AddElement
    <3>q. QED
        BY <1>2, <1>6, <2>1, <2>2, <2>3, <3>1
  <2>4. CASE s \notin new
      BY <1>2, <1>3, <1>6, <2>1, <2>2, <2>4
  <2>q. QED
      BY <2>3, <2>4
<1>q. QED
    BY <1>5, <1>6, <1>7, <1>8 DEF CountTypes, CountsMatchHolders, Holders

\* An idle timer is one holder of its symbol.
LEMMA EnsureCounts ==
    ASSUME CountTypes, CountsMatchHolders, NEW e \in Symbol, Ensure(e)
    PROVE  CountTypes' /\ CountsMatchHolders'
<1>1. /\ e \notin ensured /\ ensured' = ensured \union {e} /\ viewers' = viewers
      /\ refs' = Retained({e}) /\ Suspend({e})
    BY DEF Ensure
<1>2. \A s \in Symbol : Holders(s)' = Holders(s)
    BY <1>1 DEF Holders
<1>3. /\ refs' \in [Symbol -> Nat]
      /\ \A s \in Symbol : refs'[s] = IF s = e THEN refs[s] + 1 ELSE refs[s]
    BY <1>1 DEF Retained, CountTypes
<1>4. task' \in [Task -> TaskRow]
    BY <1>1, SuspendBegins DEF Begun, CountTypes, TaskRow, Added
<1>5. ASSUME NEW s \in Symbol
      PROVE  refs'[s] = Cardinality(Holders(s)') + (IF s \in ensured' THEN 1 ELSE 0)
  <2>1. Cardinality(Holders(s)) \in Nat
      BY FS_CardinalityType DEF CountTypes
  <2>2. refs[s] = Cardinality(Holders(s)) + (IF s \in ensured THEN 1 ELSE 0)
      BY DEF CountsMatchHolders, Holders
  <2>q. QED
      BY <1>1, <1>2, <1>3, <2>1, <2>2
<1>q. QED
    BY <1>1, <1>2, <1>3, <1>4, <1>5 DEF CountTypes, CountsMatchHolders, Holders

\* Symbols are let go by a viewer that held them, or by their idle timer.
Lets(S) ==
    /\ S \subseteq Symbol /\ Release(S) /\ task' = task
    /\ \/ /\ ensured' = ensured
          /\ \E v \in Viewer : /\ S \subseteq viewers[v]
                               /\ viewers' = [viewers EXCEPT ![v] = @ \ S]
       \/ /\ viewers' = viewers /\ ensured' = ensured \ S
          /\ S \subseteq ensured

\* Whoever lets go no longer counts.
LEMMA LetsCount ==
    ASSUME CountTypes, CountsMatchHolders, NEW S, Lets(S)
    PROVE  CountTypes' /\ CountsMatchHolders'
<1>1. refs' = Released(S) /\ task' = task /\ S \subseteq Symbol
    BY DEF Lets, Release
<1>2. /\ refs' \in [Symbol -> Nat]
      /\ \A s \in Symbol : refs'[s] = IF s \in S /\ refs[s] > 0 THEN refs[s] - 1 ELSE refs[s]
    BY <1>1 DEF Released, CountTypes
<1>3. ASSUME NEW s \in Symbol
      PROVE  /\ IsFiniteSet(Holders(s)) /\ Cardinality(Holders(s)) \in Nat
             /\ refs[s] = Cardinality(Holders(s)) + (IF s \in ensured THEN 1 ELSE 0)
    BY FS_CardinalityType DEF CountTypes, CountsMatchHolders, Holders
<1>4. CASE /\ ensured' = ensured
           /\ \E v \in Viewer : S \subseteq viewers[v] /\ viewers' = [viewers EXCEPT ![v] = @ \ S]
  <2>1. PICK v \in Viewer : S \subseteq viewers[v] /\ viewers' = [viewers EXCEPT ![v] = @ \ S]
      BY <1>4
  <2>2. viewers' \in [Viewer -> SUBSET Symbol]
      BY <2>1 DEF CountTypes
  <2>3. \A s \in Symbol : /\ Holders(s)' = IF s \in S THEN Holders(s) \ {v} ELSE Holders(s)
                          /\ s \in S => v \in Holders(s)
      BY <2>1 DEF CountTypes, Holders
  <2>4. ASSUME NEW s \in Symbol
        PROVE  /\ IsFiniteSet(Holders(s)')
               /\ refs'[s] = Cardinality(Holders(s)') + (IF s \in ensured' THEN 1 ELSE 0)
    <3>1. CASE s \in S
      <4>1. IsFiniteSet(Holders(s)') /\ Cardinality(Holders(s)') = Cardinality(Holders(s)) - 1
          BY <1>3, <2>3, <3>1, FS_RemoveElement
      <4>2. Cardinality(Holders(s)) # 0
          BY <1>3, <2>3, <3>1, FS_EmptySet
      <4>q. QED
          BY <1>2, <1>3, <1>4, <3>1, <4>1, <4>2
    <3>2. CASE s \notin S
        BY <1>2, <1>3, <1>4, <2>3, <3>2
    <3>q. QED
        BY <3>1, <3>2
  <2>q. QED
      BY <1>1, <1>2, <1>4, <2>2, <2>4 DEF CountTypes, CountsMatchHolders, Holders
<1>5. CASE viewers' = viewers /\ ensured' = ensured \ S /\ S \subseteq ensured
  <2>1. \A s \in Symbol : Holders(s)' = Holders(s)
      BY <1>5 DEF Holders
  <2>2. ASSUME NEW s \in Symbol
        PROVE  refs'[s] = Cardinality(Holders(s)') + (IF s \in ensured' THEN 1 ELSE 0)
      BY <1>2, <1>3, <1>5, <2>1
  <2>q. QED
      BY <1>1, <1>2, <1>5, <2>1, <2>2 DEF CountTypes, CountsMatchHolders, Holders
<1>q. QED
    BY <1>4, <1>5 DEF Lets

\* The actions that let symbols go.
LEMMA LetGo ==
    ASSUME CountTypes,
           \/ \E v \in Viewer : Leave(v) \/ \E S \in Message : Unsubscribe(v, S)
           \/ \E s \in Symbol : EnsureExpires(s)
    PROVE  \E S : Lets(S) /\ UNCHANGED <<allowed, skipped, crowded, disturbed, disabled>>
<1>1. ASSUME NEW v \in Viewer, NEW S \in Message, Unsubscribe(v, S)
      PROVE  /\ Lets(S \intersect viewers[v])
             /\ UNCHANGED <<allowed, skipped, crowded, disturbed, disabled>>
  <2>1. viewers[v] \subseteq Symbol /\ viewers[v] \ S = viewers[v] \ (S \intersect viewers[v])
      BY DEF CountTypes
  <2>2. viewers' = [viewers EXCEPT ![v] = @ \ (S \intersect viewers[v])]
      BY <1>1, <2>1 DEF Unsubscribe
  <2>q. QED
      BY <1>1, <2>1, <2>2 DEF Unsubscribe, Lets
<1>2. ASSUME NEW v \in Viewer, Leave(v)
      PROVE  Lets(viewers[v]) /\ UNCHANGED <<allowed, skipped, crowded, disturbed, disabled>>
  <2>1. viewers[v] \subseteq Symbol /\ viewers[v] \ viewers[v] = {}
      BY DEF CountTypes
  <2>2. viewers' = [viewers EXCEPT ![v] = @ \ viewers[v]]
      BY <1>2, <2>1 DEF Leave
  <2>q. QED
      BY <1>2, <2>1, <2>2 DEF Leave, Lets
<1>3. ASSUME NEW s \in Symbol, EnsureExpires(s)
      PROVE  Lets({s}) /\ UNCHANGED <<allowed, skipped, crowded, disturbed, disabled>>
    BY <1>3 DEF EnsureExpires, Lets
<1>q. QED
    BY <1>1, <1>2, <1>3

-----------------------------------------------------------------------------
(* The calls and the providers *)

\* Calls go on: what one no longer has to do is subscribed, skipped or of a retired exchange.
Served ==
    /\ UNCHANGED <<viewers, refs, ensured, overtaken>>
    /\ task' \in [Task -> TaskRow]
    /\ eodSubs \subseteq eodSubs' /\ eodSubs' \subseteq Symbol \ (OnGdf \union Retired)
    /\ gdfSubs \subseteq gdfSubs' /\ gdfSubs' \subseteq OnGdf /\ IsFiniteSet(gdfSubs')
    /\ skipped \subseteq skipped'
    /\ \A t \in Task :
          /\ task'[t].todo \subseteq task[t].todo
          /\ task'[t].at \in {"instruments", "sending", "sent"} => task'[t].todo \subseteq OnGdf
          /\ task[t].todo \ task'[t].todo
                \subseteq eodSubs' \union gdfSubs' \union skipped' \union Retired
    /\ \A s \in (eodSubs' \union gdfSubs') \ (eodSubs \union gdfSubs) :
          \E t \in Task : s \in task[t].todo

\* A loop enters a symbol and begins its send, or ends.
Entered(t, s, todo, room) ==
    /\ s \in todo \ gdfSubs /\ gdfSubs' = gdfSubs \union {s} /\ room > 0
    /\ Sends({s}, "add", t)
    /\ \E rest \in SUBSET todo : /\ todo \ rest \subseteq gdfSubs'
                                 /\ task' = [task EXCEPT ![t] = [at |-> "sending", todo |-> rest,
                                                                 room |-> room - 1]]
    /\ skipped' = skipped

LoopEnded(t, todo) ==
    /\ task' = [task EXCEPT ![t] = Free]
    /\ skipped' = skipped \union (todo \ gdfSubs)
    /\ gdfSubs' = gdfSubs /\ outbox' = outbox

\* The two outcomes of the loop.
LEMMA LoopSteps ==
    ASSUME ProviderTypes, NEW t \in Task, NEW todo \in SUBSET OnGdf, NEW room \in Nat,
           Loop(t, todo, room)
    PROVE  (\E s \in OnGdf : Entered(t, s, todo, room)) \/ LoopEnded(t, todo)
<1>1. ASSUME NEW s \in todo \ gdfSubs, NEW known \in SUBSET (todo \intersect gdfSubs),
             room > 0, gdfSubs' = gdfSubs \union {s}, SendInOrder({s}, "add", t),
             Becomes(t, "sending", todo \ ({s} \union known), room - 1), skipped' = skipped
      PROVE  Entered(t, s, todo, room)
  <2>1. IsFiniteSet({s}) /\ {s} \in SUBSET OnGdf
      BY FS_Singleton
  <2>2. Sends({s}, "add", t)
      BY <1>1, <2>1, SendsAdded DEF ProviderTypes
  <2>3. /\ todo \ ({s} \union known) \in SUBSET todo
        /\ todo \ (todo \ ({s} \union known)) \subseteq gdfSubs'
      BY <1>1
  <2>q. QED
      BY <1>1, <2>2, <2>3 DEF Entered, Becomes
<1>2. CASE UNCHANGED <<gdfSubs, outbox>> /\ task' = [task EXCEPT ![t] = Free]
           /\ skipped' = skipped \union (todo \ gdfSubs)
    BY <1>2 DEF LoopEnded
<1>q. QED
    BY <1>1, <1>2 DEF Loop

\* The symbols that the provider can still take.
Capacity ==
    IF Cardinality(gdfSubs) < SymbolLimit THEN SymbolLimit - Cardinality(gdfSubs) ELSE 0

\* The two steps that loop.
LEMMA Loops ==
    ASSUME CountTypes, ProviderTypes, NEW t \in Task, InstrumentsKnown(t) \/ GoOn(t)
    PROVE  \E room \in Nat :
              /\ room = IF task[t].at = "sent" THEN task[t].room ELSE Capacity
              /\ (\E s \in OnGdf : Entered(t, s, task[t].todo, room)) \/ LoopEnded(t, task[t].todo)
<1>1. task[t].at \in {"instruments", "sent"} /\ task[t] \in TaskRow
    BY DEF InstrumentsKnown, GoOn, CountTypes
<1>2. task[t].todo \in SUBSET OnGdf /\ task[t].room \in Nat
    BY <1>1 DEF ProviderTypes, TaskRow
<1>3. Cardinality(gdfSubs) \in Nat /\ SymbolLimit \in Nat
    BY FS_CardinalityType, StreamAssumption DEF ProviderTypes
<1>4. ASSUME InstrumentsKnown(t), NEW room,
             room = Capacity
      PROVE  room \in Nat /\ task[t].at = "instruments" /\ Loop(t, task[t].todo, room)
  <2> DEFINE free == SymbolLimit - Cardinality(gdfSubs)
  <2>1. task[t].at = "instruments" /\ Loop(t, task[t].todo, IF free > 0 THEN free ELSE 0)
      BY <1>4 DEF InstrumentsKnown
  <2>2. room \in Nat /\ room = IF free > 0 THEN free ELSE 0
      BY <1>3, <1>4 DEF Capacity
  <2>q. QED
      BY <2>1, <2>2
<1>5. CASE InstrumentsKnown(t)
    BY <1>2, <1>4, <1>5, LoopSteps
<1>6. CASE GoOn(t)
    BY <1>2, <1>6, LoopSteps DEF GoOn
<1>q. QED
    BY <1>5, <1>6

\* The steps of calls, sends, sockets and the administrator.
LEMMA StepsServe ==
    ASSUME CountTypes, ProviderTypes, SendsAreAwaited,
           \/ \E t \in Task :
                 SettingsKnown(t) \/ InstrumentsKnown(t) \/ InstrumentsFail(t) \/ GoOn(t)
           \/ EodOpens \/ EodCloses \/ EodReconnects \/ EodOtherCloses
           \/ SendLeaves \/ SendFails \/ GdfReconnects \/ CoolDown \/ CooledDown
           \/ \E p \in Provider : Disable(p) \/ Enable(p)
    PROVE  Served
<1>0. /\ task \in [Task -> TaskRow] /\ gdfSubs \subseteq OnGdf /\ IsFiniteSet(gdfSubs)
      /\ eodSubs \subseteq Symbol \ (OnGdf \union Retired)
      /\ \A t \in Task :
          task[t].at \in {"instruments", "sending", "sent"} => task[t].todo \subseteq OnGdf
    BY DEF CountTypes, ProviderTypes
<1>f. Free \in TaskRow /\ Free.at = "idle" /\ Free.todo = {}
    BY DEF Free, TaskRow
<1>1. ASSUME NEW t \in Task, SettingsKnown(t) PROVE Served
  <2> DEFINE S == task[t].todo
             others == S \ OnGdf
             ours == Ours(S)
             goOn == ours # {} /\ allowed["gdf"] /\ ~cooling
  <2>1. S \subseteq Symbol /\ ours = S \intersect OnGdf
      BY <1>0 DEF Ours, TaskRow
  <2>2. /\ IF goOn
           THEN task' = [task EXCEPT ![t] = [at |-> "instruments", todo |-> ours, room |-> 0]]
           ELSE task' = [task EXCEPT ![t] = Free]
        /\ skipped' = skipped \union (IF allowed["eodhd"] THEN {} ELSE others)
                              \union (IF goOn THEN {} ELSE ours)
        /\ UNCHANGED <<viewers, refs, ensured, overtaken, gdfSubs>>
      BY <1>1 DEF SettingsKnown, Becomes, gdf
  <2>3. /\ eodSubs' = eodSubs \union (IF allowed["eodhd"] THEN Eod(others) ELSE {})
        /\ Eod(others) = others \ Retired
      BY <1>1 DEF SettingsKnown, EodSubscribe, Eod, eod
  <2>4. /\ task' \in [Task -> TaskRow]
        /\ \A u \in Task : u # t => task'[u] = task[u]
        /\ task'[t].todo = (IF goOn THEN ours ELSE {})
    <3> DEFINE next == [at |-> "instruments", todo |-> ours, room |-> 0]
    <3>1. next \in TaskRow /\ next.todo = ours
        BY <2>1 DEF TaskRow
    <3>2. task' = [task EXCEPT ![t] = IF goOn THEN next ELSE Free]
        BY <2>2
    <3> HIDE DEF next, goOn, ours
    <3>3. (IF goOn THEN next ELSE Free) \in TaskRow
        BY <1>f, <3>1
    <3>4. /\ task' \in [Task -> TaskRow]
          /\ \A u \in Task : u # t => task'[u] = task[u]
          /\ task'[t] = IF goOn THEN next ELSE Free
        BY <1>0, <3>2, <3>3
    <3>q. QED
        BY <1>f, <3>1, <3>4
  <2>5. S \ task'[t].todo \subseteq eodSubs' \union gdfSubs' \union skipped' \union Retired
      BY <2>1, <2>2, <2>3, <2>4
  <2>6. eodSubs \subseteq eodSubs' /\ eodSubs' \subseteq Symbol \ (OnGdf \union Retired)
      BY <1>0, <2>1, <2>3
  <2>7. \A s \in (eodSubs' \union gdfSubs') \ (eodSubs \union gdfSubs) : s \in task[t].todo
      BY <2>2, <2>3
  <2>8. task'[t].todo \subseteq OnGdf /\ task'[t].todo \subseteq S
      BY <2>1, <2>4
  <2>9. UNCHANGED <<viewers, refs, ensured, overtaken, gdfSubs>> /\ skipped \subseteq skipped'
      BY <2>2
  <2> HIDE DEF goOn, ours, others
  <2>q. QED
      BY <1>0, <2>4, <2>5, <2>6, <2>7, <2>8, <2>9 DEF Served
<1>2. ASSUME NEW t \in Task, InstrumentsKnown(t) \/ GoOn(t) PROVE Served
  <2> DEFINE S == task[t].todo
  <2>1. UNCHANGED <<viewers, refs, ensured, overtaken, eodSubs>> /\ S \subseteq OnGdf
      BY <1>0, <1>2 DEF InstrumentsKnown, GoOn, eod
  <2>2. PICK room \in Nat : (\E s \in OnGdf : Entered(t, s, S, room)) \/ LoopEnded(t, S)
      BY <1>2, Loops
  <2>3. ASSUME NEW s \in OnGdf, Entered(t, s, S, room) PROVE Served
    <3>1. PICK rest \in SUBSET S :
            /\ S \ rest \subseteq gdfSubs'
            /\ task' = [task EXCEPT ![t] = [at |-> "sending", todo |-> rest, room |-> room - 1]]
        BY <2>3 DEF Entered
    <3>2. /\ s \in S /\ gdfSubs' = gdfSubs \union {s} /\ skipped' = skipped /\ room - 1 \in Nat
        BY <2>3 DEF Entered
    <3>3. /\ task' \in [Task -> TaskRow] /\ task'[t].todo = rest
          /\ \A u \in Task : u # t => task'[u] = task[u]
        BY <1>0, <3>1, <3>2 DEF TaskRow
    <3>4. IsFiniteSet(gdfSubs')
        BY <1>0, <3>2, FS_AddElement
    <3>q. QED
        BY <1>0, <2>1, <3>1, <3>2, <3>3, <3>4 DEF Served
  <2>4. CASE LoopEnded(t, S)
    <3>1. /\ task' \in [Task -> TaskRow] /\ task'[t] = Free
          /\ \A u \in Task : u # t => task'[u] = task[u]
        BY <1>0, <1>f, <2>4 DEF LoopEnded
    <3>q. QED
        BY <1>0, <1>f, <2>1, <2>4, <3>1 DEF Served, LoopEnded
  <2>q. QED
      BY <2>2, <2>3, <2>4
<1>3. ASSUME NEW t \in Task, InstrumentsFail(t) PROVE Served
  <2>1. /\ task' \in [Task -> TaskRow] /\ task'[t] = Free
        /\ \A u \in Task : u # t => task'[u] = task[u]
        /\ skipped' = skipped \union task[t].todo
        /\ UNCHANGED <<viewers, refs, ensured, overtaken, eodSubs, gdfSubs>>
      BY <1>0, <1>f, <1>3 DEF InstrumentsFail, eod, gdf
  <2>q. QED
      BY <1>0, <1>f, <2>1 DEF Served
<1>4. ASSUME task' = task,
             UNCHANGED <<viewers, refs, ensured, overtaken, eodSubs, gdfSubs, skipped>>
      PROVE  Served
    BY <1>0, <1>4 DEF Served
<1>5. CASE SendLeaves \/ SendFails
  <2>1. outbox # <<>> /\ task' = Awaited(Head(outbox).by)
      BY <1>5 DEF SendLeaves, SendFails
  <2>2. UNCHANGED <<viewers, refs, ensured, overtaken, eodSubs, gdfSubs, skipped>>
      BY <1>5 DEF SendLeaves, SendFails, eod, streamHistory
  <2>3. Head(outbox).by \in Task \union {NoTask}
    <3>1. outbox \in Seq(Sending)
        BY DEF ProviderTypes
    <3>2. Head(outbox) \in Sending
        BY <2>1, <3>1, HeadTailProperties
    <3>q. QED
        BY <3>2 DEF Sending
  <2>4. /\ task' \in [Task -> TaskRow]
        /\ \A t \in Task : /\ task'[t].todo = task[t].todo
                           /\ task'[t].at = task[t].at \/ (Head(outbox).by = t /\ t # NoTask)
      BY <1>0, <2>1, <2>3 DEF Awaited, TaskRow
  <2>5. Head(outbox).by # NoTask => task[Head(outbox).by].at = "sending"
    <3>1. Head(outbox) = outbox[1] /\ 1 \in DOMAIN outbox
        BY <2>1, EmptySeq DEF ProviderTypes
    <3>q. QED
        BY <3>1 DEF SendsAreAwaited
  <2>q. QED
      BY <1>0, <2>2, <2>4, <2>5 DEF Served
<1>6. CASE \/ EodOpens \/ EodCloses \/ EodReconnects \/ EodOtherCloses
           \/ GdfReconnects \/ CoolDown \/ CooledDown \/ \E p \in Provider : Disable(p) \/ Enable(p)
    BY <1>4, <1>6
       DEF EodOpens, EodCloses, EodReconnects, EodOtherCloses, GdfReconnects, CoolDown,
           CooledDown, Disable, Enable, eod, gdf, streamHistory, EodDisabled
<1>q. QED
    BY <1>1, <1>2, <1>3, <1>5, <1>6

\* What is served stays held, and what is held is served.
LEMMA ServedKeeps ==
    ASSUME CountTypes, CallsAreHeld, NothingLeaks, HeldIsSubscribed, Served
    PROVE  CallsAreHeld' /\ NothingLeaks' /\ HeldIsSubscribed'
<1>1. CallsAreHeld'
    BY DEF Served, CallsAreHeld
<1>2. NothingLeaks'
    BY DEF Served, CallsAreHeld, NothingLeaks
<1>3. HeldIsSubscribed'
    BY DEF Served, HeldIsSubscribed, UnderWay
<1>q. QED
    BY <1>1, <1>2, <1>3

\* New references: what was not held is to be done by the call that begins.
LEMMA RetainedKeeps ==
    ASSUME CountTypes, ProviderTypes, CallsAreHeld, NothingLeaks, HeldIsSubscribed,
           NEW S \in SUBSET Symbol,
           refs' = Retained(S), Begun(S), UNCHANGED <<eodSubs, gdfSubs, skipped, overtaken>>
    PROVE  CallsAreHeld' /\ NothingLeaks' /\ HeldIsSubscribed'
<1>1. \A s \in Symbol : refs[s] \in Nat /\ refs'[s] = IF s \in S THEN refs[s] + 1 ELSE refs[s]
    BY DEF Retained, CountTypes
<1>2. \A t \in Task : /\ task[t].todo \subseteq task'[t].todo /\ task[t].todo \subseteq Symbol
                      /\ task'[t].todo \subseteq task[t].todo \union Added(S)
    BY DEF Begun, CountTypes, TaskRow, Free
<1>3. Added(S) # {} => \E t \in Task : task'[t].todo = Added(S)
    BY DEF Begun, CountTypes
<1>4. CallsAreHeld'
    BY <1>1, <1>2 DEF CallsAreHeld, Added
<1>5. NothingLeaks'
  <2> SUFFICES ASSUME NEW s \in (eodSubs \union gdfSubs) \ overtaken PROVE refs'[s] > 0
      BY DEF NothingLeaks
  <2>1. refs[s] > 0
      BY DEF NothingLeaks
  <2>2. s \in Symbol
      BY StreamAssumption DEF ProviderTypes
  <2>q. QED
      BY <1>1, <2>1, <2>2
<1>6. HeldIsSubscribed'
  <2> SUFFICES ASSUME NEW s \in Symbol \ (Retired \union skipped \union overtaken), refs'[s] > 0
               PROVE  s \in eodSubs \union gdfSubs \/ UnderWay(s)'
      BY DEF HeldIsSubscribed
  <2>1. CASE refs[s] > 0
      BY <1>2, <2>1 DEF HeldIsSubscribed, UnderWay
  <2>2. CASE ~(refs[s] > 0)
      BY <1>1, <1>3, <2>2 DEF Added, UnderWay
  <2>q. QED
      BY <2>1, <2>2
<1>q. QED
    BY <1>4, <1>5, <1>6

\* Symbols let go: what loses its last holder is unsubscribed, and the calls for it are overtaken.
LEMMA LetsKeep ==
    ASSUME CountTypes, ProviderTypes, CallsAreHeld, NothingLeaks, HeldIsSubscribed, NEW S, Lets(S),
           skipped' = skipped
    PROVE  /\ CallsAreHeld' /\ NothingLeaks' /\ HeldIsSubscribed'
           /\ gdfSubs' = gdfSubs \ Removed(S) /\ eodSubs' = eodSubs \ Removed(S)
<1>0. Symbol \intersect OnGdf = OnGdf
    BY StreamAssumption
<1>1. /\ S \subseteq Symbol /\ task' = task /\ refs' = Released(S)
      /\ overtaken' = overtaken \union {s \in Removed(S) : \E t \in Task : s \in task[t].todo}
    BY DEF Lets, Release
<1>2. /\ \A s \in Symbol :
            refs[s] \in Nat /\ refs'[s] = IF s \in S /\ refs[s] > 0 THEN refs[s] - 1 ELSE refs[s]
      /\ Removed(S) = {s \in S : refs[s] = 1}
    BY <1>1 DEF Released, Removed, CountTypes
<1>3. gdfSubs' = gdfSubs \ Removed(S)
  <2>1. CASE Ours(Removed(S)) = {}
    <3>1. gdfSubs' = gdfSubs
        BY <2>1 DEF Lets, Release, gdf
    <3>q. QED
        BY <2>1, <3>1 DEF Ours, ProviderTypes
  <2>2. CASE Ours(Removed(S)) # {}
    <3>1. gdfSubs' = gdfSubs \ Ours(Removed(S))
        BY <2>2 DEF Lets, Release, GdfUnsubscribe
    <3>q. QED
        BY <3>1 DEF Ours, ProviderTypes
  <2>q. QED
      BY <2>1, <2>2
<1>4. eodSubs' = eodSubs \ Removed(S)
  <2>1. CASE Removed(S) \ OnGdf = {}
    <3>1. eodSubs' = eodSubs
        BY <2>1 DEF Lets, Release, eod
    <3>q. QED
        BY <2>1, <3>1 DEF ProviderTypes
  <2>2. CASE Removed(S) \ OnGdf # {}
    <3>1. eodSubs' = eodSubs \ (Removed(S) \ OnGdf)
        BY <2>2 DEF Lets, Release, EodUnsubscribe
    <3>q. QED
        BY <3>1 DEF ProviderTypes
  <2>q. QED
      BY <2>1, <2>2
<1>5. \A s \in Symbol : refs'[s] > 0 => refs[s] > 0 /\ s \notin Removed(S)
    BY <1>2
<1>6. \A s \in Symbol : refs[s] > 0 => refs'[s] > 0 \/ s \in Removed(S)
    BY <1>2
<1>7. \A t \in Task : task[t].todo \subseteq Symbol
    BY DEF CountTypes, TaskRow
<1>8. eodSubs \union gdfSubs \subseteq Symbol
    BY <1>0 DEF ProviderTypes
<1>9. CallsAreHeld'
    BY <1>1, <1>6, <1>7 DEF CallsAreHeld
<1>10. NothingLeaks'
    BY <1>1, <1>3, <1>4, <1>6, <1>8 DEF NothingLeaks
<1>11. HeldIsSubscribed'
    BY <1>1, <1>3, <1>4, <1>5 DEF HeldIsSubscribed, UnderWay
<1>q. QED
    BY <1>3, <1>4, <1>9, <1>10, <1>11

\* The sends that a release begins, if any.
LEMMA LetsSend ==
    ASSUME ProviderTypes, NEW S, Lets(S)
    PROVE  \/ outbox' = outbox /\ gdfSubs \intersect Removed(S) = {}
           \/ Sends(gdfSubs \intersect Removed(S), "drop", NoTask)
<1>1. CASE Ours(Removed(S)) = {}
    BY <1>1 DEF Lets, Release, gdf, Ours, ProviderTypes
<1>2. CASE Ours(Removed(S)) # {}
  <2>1. SendInOrder(gdfSubs \intersect Ours(Removed(S)), "drop", NoTask)
      BY <1>2 DEF Lets, Release, GdfUnsubscribe
  <2>2. gdfSubs \intersect Ours(Removed(S)) = gdfSubs \intersect Removed(S)
      BY DEF Ours, ProviderTypes
  <2>3. IsFiniteSet(gdfSubs \intersect Removed(S)) /\ gdfSubs \intersect Removed(S) \in SUBSET OnGdf
      BY FS_Subset DEF ProviderTypes
  <2>q. QED
      BY <2>1, <2>2, <2>3, SendsAdded DEF ProviderTypes
<1>q. QED
    BY <1>1, <1>2

-----------------------------------------------------------------------------
(* Types of the providers *)

\* The outbox, the sockets and the sets of both providers keep their types.
LEMMA NextProviderTypes ==
    ASSUME StreamInv, [StreamNext]_streamVars
    PROVE  ProviderTypes'
<1>0. CountTypes /\ ProviderTypes /\ SendsAreAwaited
    BY DEF StreamInv
<1>o. eodOthers' \in [closing : Nat, live : Nat]
  <2>1. /\ eodOthers.closing \in Nat /\ eodOthers.live \in Nat
        /\ eodOthers \in [closing : Nat, live : Nat]
      BY <1>0 DEF ProviderTypes
  <2>2. CASE EodOtherCloses
      BY <2>1, <2>2 DEF EodOtherCloses
  <2>3. CASE \E p \in Provider : Disable(p)
      BY <2>1, <2>3 DEF Disable, EodDisabled, eod
  <2>4. eodOthers' = eodOthers \/ EodOtherCloses \/ \E p \in Provider : Disable(p)
      BY DEF StreamNext, streamVars, eod, Subscribe, Ensure, Unsubscribe, Leave, EnsureExpires,
             Release, EodUnsubscribe, EodSubscribe, Quote, EodOpens, EodCloses, EodReconnects,
             SettingsKnown, InstrumentsKnown, InstrumentsFail, GoOn, SendLeaves, SendFails,
             GdfReconnects, CoolDown, CooledDown, Enable, Provider
  <2>q. QED
      BY <2>1, <2>2, <2>3, <2>4
<1>b. outbox' \in Seq(Sending)
  <2>1. CASE outbox # <<>> /\ outbox' = Tail(outbox)
      BY <1>0, <2>1, SendLeft DEF ProviderTypes, FirstLeft
  <2>2. ASSUME NEW t \in Task, InstrumentsKnown(t) \/ GoOn(t) PROVE outbox' \in Seq(Sending)
      BY <1>0, <2>2, Loops DEF Entered, LoopEnded, Sends, ProviderTypes
  <2>3. ASSUME NEW S, Lets(S) PROVE outbox' \in Seq(Sending)
      BY <1>0, <2>3, LetsSend DEF Sends, ProviderTypes
  <2>4. \/ outbox' = outbox \/ (outbox # <<>> /\ outbox' = Tail(outbox))
        \/ \E t \in Task : InstrumentsKnown(t) \/ GoOn(t)
        \/ \E v \in Viewer : Leave(v) \/ \E S \in Message : Unsubscribe(v, S)
        \/ \E s \in Symbol : EnsureExpires(s)
      BY DEF StreamNext, streamVars, gdf, Subscribe, Ensure, Quote, EodOpens, EodCloses,
             EodReconnects, EodOtherCloses, SettingsKnown, InstrumentsFail, SendLeaves, SendFails,
             GdfReconnects, CoolDown, CooledDown, Enable, Disable
  <2>q. QED
      BY <1>0, <2>1, <2>2, <2>3, <2>4, LetGo DEF ProviderTypes
<1>1. ASSUME NEW S, Lets(S), skipped' = skipped PROVE ProviderTypes'
  <2>1. gdfSubs' = gdfSubs \ Removed(S) /\ eodSubs' = eodSubs \ Removed(S) /\ task' = task
      BY <1>1, LetsKeep DEF Lets, StreamInv
  <2>2. gdfSubs' \in SUBSET gdfSubs /\ IsFiniteSet(gdfSubs)
      BY <2>1 DEF StreamInv, ProviderTypes
  <2>3. IsFiniteSet(gdfSubs')
      BY <2>2, FS_Subset
  <2>q. QED
      BY <1>0, <1>o, <1>b, <2>1, <2>3 DEF ProviderTypes
<1>2. ASSUME Served PROVE ProviderTypes'
    BY <1>o, <1>b, <1>2 DEF ProviderTypes, Served
<1>3. ASSUME NEW S, Begun(S), eodSubs' = eodSubs, gdfSubs' = gdfSubs PROVE ProviderTypes'
  <2>1. \A t \in Task : task'[t] = task[t] \/ task'[t].at = "settings"
      BY <1>0, <1>3 DEF Begun, CountTypes
  <2>q. QED
      BY <1>0, <1>3, <1>o, <1>b, <2>1 DEF ProviderTypes
<1>4. CASE streamVars' = streamVars \/ \E s \in Symbol : Quote(s)
  <2>1. task' = task /\ eodSubs' = eodSubs /\ gdfSubs' = gdfSubs
      BY <1>4 DEF streamVars, Quote, CooledDown, eod, gdf
  <2>q. QED
      BY <1>0, <1>o, <1>b, <2>1 DEF ProviderTypes
<1>5. CASE \/ \E v \in Viewer, S \in Message : Subscribe(v, S)
           \/ \E s \in Symbol : Ensure(s)
  <2>1. \E S : Begun(S) /\ eodSubs' = eodSubs /\ gdfSubs' = gdfSubs
      BY <1>5, SuspendBegins DEF Subscribe, Ensure, eod, gdf
  <2>q. QED
      BY <1>3, <2>1
<1>q. QED
    BY <1>0, <1>1, <1>2, <1>4, <1>5, LetGo, StepsServe DEF StreamNext, Provider

-----------------------------------------------------------------------------
(* Every step keeps the invariant *)

\* Who holds what does not change when the calls go on.
LEMMA StreamCounts ==
    ASSUME StreamInv, [StreamNext]_streamVars
    PROVE  CountTypes' /\ CountsMatchHolders'
<1>0. CountTypes /\ ProviderTypes /\ SendsAreAwaited /\ CountsMatchHolders
    BY DEF StreamInv
<1>1. ASSUME UNCHANGED <<viewers, refs, ensured>>, task' \in [Task -> TaskRow]
      PROVE  CountTypes' /\ CountsMatchHolders'
    BY <1>0, <1>1 DEF CountTypes, CountsMatchHolders, Holders
<1>2. CASE streamVars' = streamVars
    BY <1>0, <1>1, <1>2 DEF streamVars, CountTypes
<1>3. CASE Served
    BY <1>1, <1>3 DEF Served
<1>4. ASSUME NEW s \in Symbol, Quote(s) PROVE CooledDown
    BY <1>4 DEF Quote
<1>q. QED
    BY <1>0, <1>2, <1>3, <1>4, SubscribeCounts, EnsureCounts, LetGo, LetsCount, StepsServe
       DEF StreamNext, Provider

\* What is held is subscribed or being served, and what is subscribed is held.
LEMMA StreamKeeps ==
    ASSUME StreamInv, [StreamNext]_streamVars
    PROVE  CallsAreHeld' /\ NothingLeaks' /\ HeldIsSubscribed'
<1>0. /\ CountTypes /\ ProviderTypes /\ SendsAreAwaited
      /\ CallsAreHeld /\ NothingLeaks /\ HeldIsSubscribed
    BY DEF StreamInv
<1>1. CASE streamVars' = streamVars
    BY <1>0, <1>1
       DEF streamVars, eod, gdf, streamHistory, CallsAreHeld, NothingLeaks, HeldIsSubscribed,
           UnderWay
<1>2. ASSUME NEW v \in Viewer, NEW S \in Message, Subscribe(v, S)
      PROVE  CallsAreHeld' /\ NothingLeaks' /\ HeldIsSubscribed'
  <2>1. S \ viewers[v] \in SUBSET Symbol
      BY StreamAssumption
  <2>2. /\ refs' = Retained(S \ viewers[v]) /\ Begun(S \ viewers[v])
        /\ UNCHANGED <<eodSubs, gdfSubs, skipped, overtaken>>
      BY <1>2, SuspendBegins DEF Subscribe, eod, gdf, streamHistory
  <2>q. QED
      BY <1>0, <2>1, <2>2, RetainedKeeps
<1>3. ASSUME NEW s \in Symbol, Ensure(s)
      PROVE  CallsAreHeld' /\ NothingLeaks' /\ HeldIsSubscribed'
  <2>1. /\ refs' = Retained({s}) /\ Begun({s})
        /\ UNCHANGED <<eodSubs, gdfSubs, skipped, overtaken>>
      BY <1>3, SuspendBegins DEF Ensure, eod, gdf, streamHistory
  <2>q. QED
      BY <1>0, <2>1, RetainedKeeps
<1>4. ASSUME NEW S, Lets(S), skipped' = skipped
      PROVE  CallsAreHeld' /\ NothingLeaks' /\ HeldIsSubscribed'
    BY <1>0, <1>4, LetsKeep
<1>5. ASSUME NEW s \in Symbol, Quote(s) PROVE CooledDown
    BY <1>5 DEF Quote
<1>q. QED
    BY <1>0, <1>1, <1>2, <1>3, <1>4, <1>5, LetGo, StepsServe, ServedKeeps DEF StreamNext, Provider

\* Neither the outbox nor a call that awaits a send changes.
Undisturbed ==
    /\ outbox' = outbox /\ crowded' = crowded /\ gdfSubs' = gdfSubs /\ task' \in [Task -> TaskRow]
    /\ \A t \in Task : /\ task[t].at = "sending" => task'[t].at = "sending"
                       /\ task'[t].at \in {"sending", "sent"} => task'[t] = task[t]

\* The kinds of steps, seen from the outbox.
LEMMA SendKinds ==
    ASSUME StreamInv, [StreamNext]_streamVars
    PROVE  \/ Undisturbed
           \/ \E t \in Task : InstrumentsKnown(t) \/ GoOn(t)
           \/ outbox # <<>> /\ (SendLeaves \/ SendFails)
           \/ \E S : Lets(S) /\ UNCHANGED <<allowed, skipped, crowded, disturbed, disabled>>
<1>0. CountTypes /\ ProviderTypes /\ SendsAreAwaited
    BY DEF StreamInv
<1>f. Free \in TaskRow /\ Free.at = "idle"
    BY DEF Free, TaskRow
<1>t. task \in [Task -> TaskRow] /\ task' \in [Task -> TaskRow]
    BY <1>0, StreamCounts DEF CountTypes
<1>1. ASSUME task' = task, UNCHANGED <<outbox, crowded, gdfSubs>> PROVE Undisturbed
    BY <1>1, <1>t DEF Undisturbed
<1>2. ASSUME NEW S, Begun(S), UNCHANGED <<outbox, crowded, gdfSubs>> PROVE Undisturbed
  <2>1. CASE task' = task
      BY <1>1, <1>2, <2>1
  <2>2. ASSUME NEW t \in Task, task[t] = Free,
               task' = [task EXCEPT ![t] = [at |-> "settings", todo |-> Added(S), room |-> 0]]
        PROVE  Undisturbed
    <3>1. task'[t].at = "settings" /\ \A u \in Task : u # t => task'[u] = task[u]
        BY <1>t, <2>2
    <3>q. QED
        BY <1>2, <1>f, <1>t, <2>2, <3>1 DEF Undisturbed
  <2>q. QED
      BY <1>2, <2>1, <2>2 DEF Begun
<1>3. ASSUME NEW t \in Task, SettingsKnown(t) \/ InstrumentsFail(t) PROVE Undisturbed
  <2>1. /\ task[t].at \in {"settings", "instruments"}
        /\ UNCHANGED <<outbox, crowded, gdfSubs>>
        /\ task' = [task EXCEPT ![t] = Free] \/ Becomes(t, "instruments", Ours(task[t].todo), 0)
      BY <1>3 DEF SettingsKnown, InstrumentsFail, gdf
  <2>2. task'[t].at \in {"idle", "instruments"} /\ \A u \in Task : u # t => task'[u] = task[u]
      BY <1>f, <1>t, <2>1 DEF Becomes
  <2>q. QED
      BY <1>t, <2>1, <2>2 DEF Undisturbed
<1>4. CASE \/ streamVars' = streamVars \/ \E s \in Symbol : Quote(s)
           \/ EodOpens \/ EodCloses \/ EodReconnects \/ EodOtherCloses
           \/ GdfReconnects \/ CoolDown \/ CooledDown \/ \E p \in Provider : Disable(p) \/ Enable(p)
    BY <1>1, <1>4
       DEF streamVars, Quote, EodOpens, EodCloses, EodReconnects, EodOtherCloses, GdfReconnects,
           CoolDown, CooledDown, Disable, Enable, eod, gdf, streamHistory
<1>5. CASE \/ \E v \in Viewer, S \in Message : Subscribe(v, S)
           \/ \E s \in Symbol : Ensure(s)
  <2>1. \E S : Begun(S) /\ UNCHANGED <<outbox, crowded, gdfSubs>>
      BY <1>5, SuspendBegins DEF Subscribe, Ensure, gdf, streamHistory
  <2>q. QED
      BY <1>2, <2>1
<1>6. (SendLeaves \/ SendFails) => outbox # <<>>
    BY DEF SendLeaves, SendFails
<1>q. QED
    BY <1>0, <1>3, <1>4, <1>5, <1>6, LetGo DEF StreamNext, Provider

\* A call awaits the one send that it began.
LEMMA StreamAwaits ==
    ASSUME StreamInv, [StreamNext]_streamVars
    PROVE  SendsAreAwaited'
<1>0. CountTypes /\ ProviderTypes /\ SendsAreAwaited /\ ProviderTypes'
    BY NextProviderTypes DEF StreamInv
<1>t. task \in [Task -> TaskRow] /\ task' \in [Task -> TaskRow] /\ Free.at = "idle"
    BY <1>0, StreamCounts DEF CountTypes, Free
<1>b. \A i \in DOMAIN outbox : outbox[i].by \in Task \union {NoTask}
  <2>1. outbox \in Seq(Sending)
      BY <1>0 DEF ProviderTypes
  <2>2. \A i \in DOMAIN outbox : outbox[i] \in Sending
      BY <2>1, ElementOfSeq
  <2>q. QED
      BY <2>2 DEF Sending
<1>1. CASE Undisturbed
    BY <1>0, <1>b, <1>1 DEF Undisturbed, SendsAreAwaited
<1>2. ASSUME NEW t \in Task, InstrumentsKnown(t) \/ GoOn(t) PROVE SendsAreAwaited'
  <2>1. task[t].at # "sending"
      BY <1>2 DEF InstrumentsKnown, GoOn
  <2>2. \A i \in DOMAIN outbox : outbox[i].by # t \/ t = NoTask
      BY <1>0, <2>1 DEF SendsAreAwaited
  <2>3. ASSUME NEW s \in OnGdf, NEW room \in Nat, Entered(t, s, task[t].todo, room)
        PROVE  SendsAreAwaited'
    <3>1. Sends({s}, "add", t)
        BY <2>3 DEF Entered
    <3>2. task'[t].at = "sending" /\ \A u \in Task : u # t => task'[u] = task[u]
        BY <1>t, <2>3 DEF Entered
    <3>3. /\ \A i \in DOMAIN outbox' :
                (i \in DOMAIN outbox /\ outbox'[i] = outbox[i]) \/ outbox'[i].by = t
          /\ \A i, j \in DOMAIN outbox' \ DOMAIN outbox : i = j
        BY <3>1 DEF Sends
    <3>4. ASSUME NEW i \in DOMAIN outbox', outbox'[i].by # NoTask
          PROVE  task'[outbox'[i].by].at = "sending"
        BY <1>0, <1>b, <3>2, <3>3, <3>4 DEF SendsAreAwaited
    <3>5. ASSUME NEW i \in DOMAIN outbox', NEW j \in DOMAIN outbox',
                 outbox'[i].by = outbox'[j].by, outbox'[i].by # NoTask
          PROVE  i = j
        BY <1>0, <2>2, <3>1, <3>3, <3>5 DEF SendsAreAwaited, Sends
    <3>q. QED
        BY <3>4, <3>5 DEF SendsAreAwaited
  <2>4. CASE LoopEnded(t, task[t].todo)
    <3>1. outbox' = outbox /\ \A u \in Task : u # t => task'[u] = task[u]
        BY <1>t, <2>4 DEF LoopEnded
    <3>q. QED
        BY <1>0, <1>b, <2>2, <3>1 DEF SendsAreAwaited
  <2>q. QED
      BY <1>0, <1>2, <2>3, <2>4, Loops
<1>3. CASE outbox # <<>> /\ (SendLeaves \/ SendFails)
  <2>1. FirstLeft /\ task' = Awaited(Head(outbox).by)
      BY <1>0, <1>3, SendLeft DEF SendLeaves, SendFails, ProviderTypes
  <2>2. \A u \in Task : u # Head(outbox).by \/ u = NoTask => task'[u] = task[u]
      BY <1>t, <2>1 DEF Awaited
  <2>3. \A i \in DOMAIN outbox' : /\ i \in Nat /\ i + 1 \in DOMAIN outbox /\ i + 1 # 1
                                  /\ outbox'[i] = outbox[i + 1]
    <3>1. \A i \in DOMAIN outbox' :
             i \in Nat /\ i + 1 \in DOMAIN outbox /\ outbox'[i] = outbox[i + 1]
        BY <2>1 DEF FirstLeft
    <3>2. \A i \in DOMAIN outbox' : i # 0
        BY <2>1 DEF FirstLeft
    <3>q. QED
        BY <3>1, <3>2
  <2>4. ASSUME NEW i \in DOMAIN outbox', outbox'[i].by # NoTask
        PROVE  task'[outbox'[i].by].at = "sending"
    <3>1. outbox'[i].by # Head(outbox).by
        BY <1>0, <2>1, <2>3, <2>4 DEF SendsAreAwaited, FirstLeft
    <3>q. QED
        BY <1>0, <1>b, <2>2, <2>3, <2>4, <3>1 DEF SendsAreAwaited
  <2>5. ASSUME NEW i \in DOMAIN outbox', NEW j \in DOMAIN outbox',
               outbox'[i].by = outbox'[j].by, outbox'[i].by # NoTask
        PROVE  i = j
    <3>1. i + 1 = j + 1
        BY <1>0, <2>3, <2>5 DEF SendsAreAwaited
    <3>q. QED
        BY <2>3, <3>1
  <2>q. QED
      BY <2>4, <2>5 DEF SendsAreAwaited
<1>4. ASSUME NEW S, Lets(S) PROVE SendsAreAwaited'
  <2>1. task' = task
      BY <1>4 DEF Lets
  <2>2. CASE outbox' = outbox
      BY <1>0, <2>1, <2>2 DEF SendsAreAwaited
  <2>3. CASE Sends(gdfSubs \intersect Removed(S), "drop", NoTask)
    <3>1. \A i \in DOMAIN outbox' :
             outbox'[i].by # NoTask => i \in DOMAIN outbox /\ outbox'[i] = outbox[i]
        BY <2>3 DEF Sends
    <3>q. QED
        BY <1>0, <2>1, <3>1 DEF SendsAreAwaited
  <2>q. QED
      BY <1>0, <1>4, <2>2, <2>3, LetsSend
<1>q. QED
    BY <1>1, <1>2, <1>3, <1>4, SendKinds

\* A step in which nothing is entered: no room is lost, and no call begins to loop.
Calm ==
    /\ crowded => crowded'
    /\ gdfSubs' \subseteq gdfSubs
    /\ \A t \in Task : Looping(t)' => Looping(t) /\ task'[t].room = task[t].room

\* Where nothing is entered the limit holds as before.
LEMMA CalmKeepsRoom ==
    ASSUME ProviderTypes, CountTypes, CountTypes', RoomIsLeft, WithinSymbolLimit, Calm
    PROVE  RoomIsLeft' /\ WithinSymbolLimit'
<1>1. IsFiniteSet(gdfSubs) /\ gdfSubs' \in SUBSET gdfSubs
    BY DEF ProviderTypes, Calm
<1>2. /\ Cardinality(gdfSubs) \in Nat /\ Cardinality(gdfSubs') \in Nat
      /\ Cardinality(gdfSubs') <= Cardinality(gdfSubs)
    BY <1>1, FS_Subset, FS_CardinalityType
<1>3. SymbolLimit \in Nat /\ \A t \in Task : task[t].room \in Nat
    BY StreamAssumption DEF CountTypes, TaskRow
<1>4. WithinSymbolLimit'
    BY <1>2, <1>3 DEF WithinSymbolLimit, Calm
<1>5. ASSUME NEW t \in Task, ~crowded', Looping(t)'
      PROVE  /\ Cardinality(gdfSubs') + task'[t].room <= SymbolLimit
             /\ \A u \in Task : Looping(u)' => u = t
  <2>1. Looping(t) /\ ~crowded /\ task'[t].room = task[t].room
      BY <1>5 DEF Calm
  <2>2. /\ Cardinality(gdfSubs) + task[t].room <= SymbolLimit
        /\ \A u \in Task : Looping(u) => u = t
      BY <2>1 DEF RoomIsLeft
  <2>3. \A u \in Task : Looping(u)' => u = t
      BY <2>2 DEF Calm
  <2>4. Cardinality(gdfSubs') + task'[t].room <= SymbolLimit
      BY <1>2, <1>3, <2>1, <2>2
  <2>q. QED
      BY <2>3, <2>4
<1>q. QED
    BY <1>4, <1>5 DEF RoomIsLeft

\* A symbol is entered only while there is room for it, unless two calls loop beside each other.
LEMMA StreamHasRoom ==
    ASSUME StreamInv, [StreamNext]_streamVars
    PROVE  RoomIsLeft' /\ WithinSymbolLimit'
<1>0. /\ CountTypes /\ ProviderTypes /\ SendsAreAwaited /\ CountTypes'
      /\ RoomIsLeft /\ WithinSymbolLimit
    BY StreamCounts DEF StreamInv
<1>t. /\ task \in [Task -> TaskRow] /\ task' \in [Task -> TaskRow]
      /\ \A t \in Task : task[t].room \in Nat
      /\ Free.at = "idle" /\ SymbolLimit \in Nat
    BY <1>0, StreamAssumption DEF CountTypes, Free, TaskRow
<1>1. CASE Undisturbed
  <2>1. Calm
      BY <1>1 DEF Undisturbed, Calm, Looping
  <2>q. QED
      BY <1>0, <2>1, CalmKeepsRoom
<1>2. ASSUME NEW t \in Task, InstrumentsKnown(t) \/ GoOn(t) PROVE RoomIsLeft' /\ WithinSymbolLimit'
  <2>1. task[t].at \in {"instruments", "sent"}
      BY <1>2 DEF InstrumentsKnown, GoOn
  <2>2. /\ crowded => crowded'
        /\ task[t].at = "instruments" /\ ~crowded' => \A u \in Task \ {t} : ~Looping(u)
    <3>1. CASE InstrumentsKnown(t)
      <4>1. crowded' = (crowded \/ \E u \in Task \ {t} : Looping(u))
          BY <3>1 DEF InstrumentsKnown
      <4>q. QED
          BY <4>1
    <3>2. CASE GoOn(t)
      <4>1. crowded' = crowded /\ task[t].at = "sent"
          BY <3>2 DEF GoOn
      <4>q. QED
          BY <4>1
    <3>q. QED
        BY <1>2, <3>1, <3>2
  <2>3. PICK room \in Nat :
              /\ room = IF task[t].at = "sent" THEN task[t].room ELSE Capacity
              /\ (\E s \in OnGdf : Entered(t, s, task[t].todo, room)) \/ LoopEnded(t, task[t].todo)
      BY <1>0, <1>2, Loops
  <2>4. CASE LoopEnded(t, task[t].todo)
    <3>1. /\ task'[t] = Free /\ \A u \in Task : u # t => task'[u] = task[u]
          /\ gdfSubs' = gdfSubs
        BY <1>t, <2>4 DEF LoopEnded
    <3>2. \A u \in Task : Looping(u)' => Looping(u) /\ task'[u].room = task[u].room
        BY <1>t, <3>1 DEF Looping
    <3>3. Calm
        BY <2>2, <3>1, <3>2 DEF Calm
    <3>q. QED
        BY <1>0, <3>3, CalmKeepsRoom
  <2>5. ASSUME NEW s \in OnGdf, Entered(t, s, task[t].todo, room)
        PROVE  RoomIsLeft' /\ WithinSymbolLimit'
    <3>1. /\ s \notin gdfSubs /\ gdfSubs' = gdfSubs \union {s} /\ room > 0
          /\ task'[t].at = "sending" /\ task'[t].room = room - 1
          /\ \A u \in Task : u # t => task'[u] = task[u]
        BY <1>t, <2>5 DEF Entered
    <3>2. Cardinality(gdfSubs) \in Nat /\ Cardinality(gdfSubs') = Cardinality(gdfSubs) + 1
        BY <1>0, <3>1, FS_AddElement, FS_CardinalityType DEF ProviderTypes
    <3>3. ASSUME ~crowded'
          PROVE  /\ Cardinality(gdfSubs) + room <= SymbolLimit
                 /\ \A u \in Task : Looping(u) => u = t
      <4>1. CASE task[t].at = "sent"
          BY <1>0, <2>2, <2>3, <3>3, <4>1 DEF RoomIsLeft, Looping
      <4>2. CASE task[t].at = "instruments"
        <5>1. Cardinality(gdfSubs) + room = SymbolLimit
            BY <1>t, <2>3, <3>1, <3>2, <4>2 DEF Capacity
        <5>2. \A u \in Task \ {t} : ~Looping(u)
            BY <2>2, <3>3, <4>2
        <5>q. QED
            BY <1>t, <5>1, <5>2
      <4>q. QED
          BY <2>1, <4>1, <4>2
    <3>4. ~crowded' => Cardinality(gdfSubs') + (room - 1) <= SymbolLimit
        BY <1>t, <3>2, <3>3
    <3>5. ~crowded' => \A u \in Task : Looping(u)' => u = t
        BY <3>1, <3>3 DEF Looping
    <3>6. RoomIsLeft'
        BY <3>1, <3>4, <3>5 DEF RoomIsLeft
    <3>7. WithinSymbolLimit'
        BY <1>t, <3>1, <3>2, <3>4 DEF WithinSymbolLimit
    <3>q. QED
        BY <3>6, <3>7
  <2>q. QED
      BY <2>3, <2>4, <2>5
<1>3. CASE outbox # <<>> /\ (SendLeaves \/ SendFails)
  <2>1. FirstLeft /\ task' = Awaited(Head(outbox).by) /\ gdfSubs' = gdfSubs /\ crowded' = crowded
      BY <1>0, <1>3, SendLeft DEF SendLeaves, SendFails, ProviderTypes, streamHistory
  <2>2. Head(outbox).by # NoTask => task[Head(outbox).by].at = "sending"
      BY <1>0, <2>1 DEF SendsAreAwaited, FirstLeft
  <2>3. \A u \in Task : /\ Looping(u)' => Looping(u)
                        /\ task'[u].room = task[u].room
      BY <1>t, <2>1, <2>2 DEF Awaited, Looping, TaskRow
  <2>4. Calm
      BY <2>1, <2>3 DEF Calm
  <2>q. QED
      BY <1>0, <2>4, CalmKeepsRoom
<1>4. ASSUME NEW S, Lets(S), UNCHANGED <<skipped, crowded>> PROVE RoomIsLeft' /\ WithinSymbolLimit'
  <2>1. task' = task /\ gdfSubs' \subseteq gdfSubs /\ crowded' = crowded
      BY <1>4, LetsKeep DEF Lets, StreamInv
  <2>2. Calm
      BY <2>1 DEF Calm, Looping
  <2>q. QED
      BY <1>0, <2>2, CalmKeepsRoom
<1>q. QED
    BY <1>1, <1>2, <1>3, <1>4, SendKinds

\* What GDF has and what is on its way to it, for one symbol.
Told(s) ==
    \/ \E i \in DOMAIN outbox :
          /\ outbox[i].sym = s /\ (outbox[i].what = "add" <=> s \in gdfSubs)
          /\ \A j \in DOMAIN outbox : outbox[j].sym = s => j <= i
    \/ /\ \A i \in DOMAIN outbox : outbox[i].sym # s
       /\ s \in gdfServer <=> s \in gdfSubs

\* Sends behind the others tell GDF what became of their symbols.
LEMMA NewSendsTell ==
    ASSUME NEW S, NEW kind \in {"add", "drop"}, NEW by, Sends(S, kind, by), LastSendTells,
           outbox \in Seq(Sending),
           gdfSubs' = IF kind = "add" THEN gdfSubs \union S ELSE gdfSubs \ S,
           gdfServer' = gdfServer, disturbed' = disturbed
    PROVE  LastSendTells'
<1>0. DOMAIN outbox \subseteq Nat /\ DOMAIN outbox' \subseteq Nat
  <2>1. outbox' \in Seq(Sending)
      BY DEF Sends
  <2>q. QED
      BY <2>1
<1>1. ASSUME NEW s \in OnGdf, s \in S PROVE Told(s)'
  <2>1. PICK i \in DOMAIN outbox' \ DOMAIN outbox : outbox'[i].sym = s
      BY <1>1 DEF Sends
  <2>2. outbox'[i].what = kind /\ (kind = "add" <=> s \in gdfSubs')
      BY <1>1 DEF Sends
  <2>3. \A j \in DOMAIN outbox' : outbox'[j].sym = s => j <= i
      BY <1>0, <2>1 DEF Sends
  <2>q. QED
      BY <2>1, <2>2, <2>3 DEF Told
<1>2. ASSUME NEW s \in OnGdf, s \notin S, Told(s) PROVE Told(s)'
  <2>1. s \in gdfSubs' <=> s \in gdfSubs
      BY <1>2
  <2>2. \A i \in DOMAIN outbox' : outbox'[i].sym = s => i \in DOMAIN outbox
      BY <1>2 DEF Sends
  <2>3. \A i \in DOMAIN outbox : i \in DOMAIN outbox' /\ outbox'[i] = outbox[i]
      BY DEF Sends
  <2>q. QED
      BY <1>2, <2>1, <2>2, <2>3 DEF Told
<1>q. QED
    BY <1>1, <1>2 DEF LastSendTells, Told

\* GDF does what the first send says.
LEMMA FirstSendTells ==
    ASSUME FirstLeft, LastSendTells, gdfSubs' = gdfSubs, disturbed' = disturbed,
           gdfServer' = IF Head(outbox).what = "add" THEN gdfServer \union {Head(outbox).sym}
                        ELSE gdfServer \ {Head(outbox).sym}
    PROVE  LastSendTells'
<1>1. /\ 1 \in DOMAIN outbox /\ Head(outbox) = outbox[1]
      /\ \A i \in DOMAIN outbox : i \in Nat /\ i # 0
      /\ \A i \in DOMAIN outbox' :
            i \in Nat /\ i + 1 \in DOMAIN outbox /\ outbox'[i] = outbox[i + 1]
      /\ \A i \in DOMAIN outbox' : i # 0
      /\ \A i \in DOMAIN outbox : i # 1 => i - 1 \in DOMAIN outbox'
    BY DEF FirstLeft
<1>2. \A i \in DOMAIN outbox : i # 1 => outbox'[i - 1] = outbox[i]
    BY <1>1
<1>3. ASSUME NEW s \in OnGdf, Told(s) PROVE Told(s)'
  <2>1. CASE \E i \in DOMAIN outbox' : outbox'[i].sym = s
    <3>1. PICK k \in DOMAIN outbox' : outbox'[k].sym = s
        BY <2>1
    <3>2. k + 1 \in DOMAIN outbox /\ outbox[k + 1].sym = s /\ k + 1 # 1
        BY <1>1, <3>1
    <3>3. PICK i \in DOMAIN outbox :
            /\ outbox[i].sym = s /\ (outbox[i].what = "add" <=> s \in gdfSubs)
            /\ \A j \in DOMAIN outbox : outbox[j].sym = s => j <= i
        BY <1>3, <3>2 DEF Told
    <3>4. i # 1
        BY <1>1, <3>2, <3>3
    <3>5. i - 1 \in DOMAIN outbox' /\ outbox'[i - 1] = outbox[i]
        BY <1>1, <1>2, <3>4
    <3>6. \A j \in DOMAIN outbox' : outbox'[j].sym = s => j <= i - 1
        BY <1>1, <3>3
    <3>q. QED
        BY <3>3, <3>5, <3>6 DEF Told
  <2>2. CASE \A i \in DOMAIN outbox' : outbox'[i].sym # s
    <3>1. \A i \in DOMAIN outbox : outbox[i].sym = s => i = 1
        BY <1>1, <1>2, <2>2
    <3>2. s \in gdfServer' <=> s \in gdfSubs
        BY <1>1, <1>3, <3>1 DEF Told
    <3>q. QED
        BY <2>2, <3>2 DEF Told
  <2>q. QED
      BY <2>1, <2>2
<1>q. QED
    BY <1>3 DEF LastSendTells, Told

\* The provider's list and what GDF has stay in step, send by send.
LEMMA StreamTells ==
    ASSUME StreamInv, [StreamNext]_streamVars
    PROVE  gdfServer' \subseteq OnGdf /\ LastSendTells'
<1>0. /\ CountTypes /\ ProviderTypes /\ SendsAreAwaited
      /\ LastSendTells /\ gdfServer \subseteq OnGdf /\ outbox \in Seq(Sending)
    BY DEF StreamInv, ProviderTypes
<1>1. CASE disturbed' = TRUE /\ (gdfServer' = gdfServer \/ gdfServer' = {})
    BY <1>0, <1>1 DEF LastSendTells
<1>2. CASE UNCHANGED <<outbox, gdfServer, gdfSubs, disturbed>>
    BY <1>0, <1>2 DEF LastSendTells
<1>3. ASSUME NEW t \in Task, InstrumentsKnown(t) \/ GoOn(t)
      PROVE  gdfServer' \subseteq OnGdf /\ LastSendTells'
  <2>1. gdfServer' = gdfServer /\ disturbed' = disturbed
      BY <1>3 DEF InstrumentsKnown, GoOn
  <2>2. PICK room \in Nat :
           (\E s \in OnGdf : Entered(t, s, task[t].todo, room)) \/ LoopEnded(t, task[t].todo)
      BY <1>0, <1>3, Loops
  <2>3. CASE LoopEnded(t, task[t].todo)
      BY <1>2, <2>1, <2>3 DEF LoopEnded
  <2>4. ASSUME NEW s \in OnGdf, Entered(t, s, task[t].todo, room)
        PROVE  LastSendTells'
    <3>1. Sends({s}, "add", t) /\ gdfSubs' = gdfSubs \union {s}
        BY <2>4 DEF Entered
    <3>q. QED
        BY <1>0, <2>1, <3>1, NewSendsTell
  <2>q. QED
      BY <1>0, <2>1, <2>2, <2>3, <2>4
<1>4. CASE SendLeaves
  <2>1. FirstLeft
      BY <1>0, <1>4, SendLeft DEF SendLeaves
  <2>2. /\ gdfServer' = IF Head(outbox).what = "add" THEN gdfServer \union {Head(outbox).sym}
                        ELSE gdfServer \ {Head(outbox).sym}
        /\ gdfSubs' = gdfSubs /\ disturbed' = disturbed
      BY <1>4 DEF SendLeaves, streamHistory
  <2>3. Head(outbox).sym \in OnGdf
    <3>1. Head(outbox) \in Sending
        BY <1>0, <1>4, HeadTailProperties DEF SendLeaves
    <3>q. QED
        BY <3>1 DEF Sending
  <2>q. QED
      BY <1>0, <2>1, <2>2, <2>3, FirstSendTells
<1>5. ASSUME NEW S, Lets(S), UNCHANGED <<skipped, disturbed>>
      PROVE  gdfServer' \subseteq OnGdf /\ LastSendTells'
  <2>1. gdfServer' = gdfServer
      BY <1>5 DEF Lets, Release, gdf, GdfUnsubscribe
  <2>2. gdfSubs' = gdfSubs \ Removed(S)
      BY <1>5, LetsKeep DEF StreamInv
  <2>3. CASE outbox' = outbox /\ gdfSubs \intersect Removed(S) = {}
    <3>1. gdfSubs' = gdfSubs
        BY <2>2, <2>3
    <3>q. QED
        BY <1>2, <1>5, <2>1, <2>3, <3>1
  <2>4. CASE Sends(gdfSubs \intersect Removed(S), "drop", NoTask)
    <3>1. gdfSubs' = gdfSubs \ (gdfSubs \intersect Removed(S))
        BY <2>2
    <3>q. QED
        BY <1>0, <1>5, <2>1, <2>4, <3>1, NewSendsTell
  <2>q. QED
      BY <1>0, <1>5, <2>3, <2>4, LetsSend
<1>6. (GdfReconnects \/ SendFails \/ \E p \in Provider : Disable(p))
         => \/ disturbed' = TRUE /\ (gdfServer' = gdfServer \/ gdfServer' = {})
            \/ UNCHANGED <<outbox, gdfServer, gdfSubs, disturbed>>
    BY DEF GdfReconnects, SendFails, Disable, gdf
<1>7. (\/ streamVars' = streamVars
       \/ \E v \in Viewer, S \in Message : Subscribe(v, S)
       \/ \E s \in Symbol : Ensure(s) \/ Quote(s)
       \/ EodOpens \/ EodCloses \/ EodReconnects \/ EodOtherCloses \/ CoolDown \/ CooledDown
       \/ \E t \in Task : SettingsKnown(t) \/ InstrumentsFail(t)
       \/ \E p \in Provider : Enable(p))
         => UNCHANGED <<outbox, gdfServer, gdfSubs, disturbed>>
    BY DEF streamVars, Quote, EodOpens, EodCloses, EodReconnects, EodOtherCloses, CoolDown,
           CooledDown, Enable, SettingsKnown, InstrumentsFail, Subscribe, Ensure, gdf,
           streamHistory
<1>q. QED
    BY <1>0, <1>1, <1>2, <1>3, <1>4, <1>5, <1>6, <1>7, LetGo DEF StreamNext, Provider

\* The EODHD provider has a socket or a timer for what it lists, and an open socket has it all.
LEMMA StreamConnects ==
    ASSUME StreamInv, [StreamNext]_streamVars
    PROVE  EodKeepsUp' /\ SocketsClose'
<1>0. /\ EodKeepsUp /\ SocketsClose /\ ProviderTypes
      /\ eodOthers.closing \in Nat /\ eodOthers.live \in Nat
      /\ eodOthers \in [closing : Nat, live : Nat]
    BY DEF StreamInv, ProviderTypes
<1>1. CASE /\ UNCHANGED <<eodSubs, eodSocket, eodTimer, eodServer, eodOthers>>
           /\ disabled \subseteq disabled'
    BY <1>0, <1>1 DEF EodKeepsUp, SocketsClose
<1>2. ASSUME NEW S, EodSubscribe(S), disabled' = disabled
      PROVE  EodKeepsUp' /\ SocketsClose'
    BY <1>0, <1>2 DEF EodSubscribe, EodSend, EodKeepsUp, SocketsClose
<1>3. ASSUME NEW S, EodUnsubscribe(S), disabled' = disabled
      PROVE  EodKeepsUp' /\ SocketsClose'
    BY <1>0, <1>3 DEF EodUnsubscribe, EodSend, EodKeepsUp, SocketsClose
<1>4. CASE EodOpens \/ EodCloses \/ EodReconnects
    BY <1>0, <1>4 DEF EodOpens, EodCloses, EodReconnects, EodKeepsUp, SocketsClose, streamHistory
<1>5. CASE EodOtherCloses
    BY <1>0, <1>5 DEF EodOtherCloses, EodKeepsUp, SocketsClose, streamHistory
<1>6. ASSUME NEW p \in Provider, Disable(p) PROVE EodKeepsUp' /\ SocketsClose'
  <2>1. CASE p = "eodhd"
      BY <1>0, <1>6, <2>1 DEF Disable, EodDisabled, EodKeepsUp, SocketsClose
  <2>2. CASE p # "eodhd"
      BY <1>1, <1>6, <2>2 DEF Disable, eod
  <2>q. QED
      BY <2>1, <2>2
<1>7. ASSUME NEW t \in Task, SettingsKnown(t) PROVE EodKeepsUp' /\ SocketsClose'
  <2>1. \/ EodSubscribe(task[t].todo \ OnGdf)
        \/ UNCHANGED <<eodSubs, eodSocket, eodTimer, eodServer, eodOthers>>
      BY <1>7 DEF SettingsKnown, eod
  <2>2. disabled' = disabled
      BY <1>7 DEF SettingsKnown
  <2>q. QED
      BY <1>1, <1>2, <2>1, <2>2
<1>8. ASSUME NEW S, Lets(S), disabled' = disabled PROVE EodKeepsUp' /\ SocketsClose'
  <2>1. \/ EodUnsubscribe(Removed(S) \ OnGdf)
        \/ UNCHANGED <<eodSubs, eodSocket, eodTimer, eodServer, eodOthers>>
      BY <1>8 DEF Lets, Release, eod
  <2>q. QED
      BY <1>1, <1>3, <1>8, <2>1
<1>9. (\/ streamVars' = streamVars
       \/ \E v \in Viewer, S \in Message : Subscribe(v, S)
       \/ \E s \in Symbol : Ensure(s) \/ Quote(s)
       \/ \E t \in Task : InstrumentsKnown(t) \/ InstrumentsFail(t) \/ GoOn(t)
       \/ SendLeaves \/ SendFails \/ GdfReconnects \/ CoolDown \/ CooledDown
       \/ \E p \in Provider : Enable(p))
         => /\ UNCHANGED <<eodSubs, eodSocket, eodTimer, eodServer, eodOthers>>
            /\ disabled \subseteq disabled'
    BY DEF streamVars, Subscribe, Ensure, Quote, InstrumentsKnown, InstrumentsFail, GoOn,
           SendLeaves, SendFails, GdfReconnects, CoolDown, CooledDown, Enable, eod, streamHistory
<1>q. QED
    BY <1>0, <1>1, <1>4, <1>5, <1>6, <1>7, <1>8, <1>9, LetGo DEF StreamNext, Provider, StreamInv

\* Initially nobody holds anything, and nothing is subscribed or under way.
LEMMA InitStreamInv ==
    ASSUME StreamInit
    PROVE  StreamInv
<1>1. /\ viewers = [v \in Viewer |-> {}] /\ refs = [s \in Symbol |-> 0] /\ ensured = {}
      /\ task = [t \in Task |-> Free] /\ eodSubs = {} /\ gdfSubs = {} /\ gdfServer = {}
      /\ outbox = <<>> /\ eodOthers = [closing |-> 0, live |-> 0] /\ overtaken = {}
      /\ eodSocket = "none" /\ eodServer = {} /\ SymbolLimit \in Nat
    BY StreamAssumption DEF StreamInit
<1>2. IsFiniteSet({}) /\ Cardinality({}) = 0
    BY FS_EmptySet
<1>3. Free \in TaskRow /\ Free.at = "idle" /\ Free.todo = {}
    BY DEF Free, TaskRow
<1>4. \A s \in Symbol : Holders(s) = {}
    BY <1>1 DEF Holders
<1>5. CountTypes
    BY <1>1, <1>2, <1>3, <1>4 DEF CountTypes
<1>6. CountsMatchHolders
  <2>1. \A s \in Symbol : refs[s] = 0 /\ Cardinality(Holders(s)) = 0 /\ s \notin ensured
      BY <1>1, <1>2, <1>4
  <2>q. QED
      BY <2>1 DEF CountsMatchHolders, Holders
<1>7. ProviderTypes
    BY <1>1, <1>2, <1>3 DEF ProviderTypes
<1>8. CallsAreHeld /\ NothingLeaks /\ HeldIsSubscribed
    BY <1>1, <1>3 DEF CallsAreHeld, NothingLeaks, HeldIsSubscribed
<1>9. DOMAIN outbox = {}
    BY <1>1
<1>10. SendsAreAwaited /\ LastSendTells
    BY <1>1, <1>9 DEF SendsAreAwaited, LastSendTells
<1>11. RoomIsLeft /\ WithinSymbolLimit
    BY <1>1, <1>2, <1>3 DEF RoomIsLeft, WithinSymbolLimit, Looping
<1>12. EodKeepsUp /\ SocketsClose /\ gdfServer \subseteq OnGdf
    BY <1>1 DEF EodKeepsUp, SocketsClose
<1>q. QED
    BY <1>5, <1>6, <1>7, <1>8, <1>10, <1>11, <1>12 DEF StreamInv

\* The invariant behind the three theorems.
LEMMA StreamInvariant == StreamSpec => []StreamInv
<1>1. StreamInit => StreamInv
    BY InitStreamInv
<1>2. StreamInv /\ [StreamNext]_streamVars => StreamInv'
    BY StreamCounts, NextProviderTypes, StreamKeeps, StreamAwaits, StreamHasRoom, StreamTells,
       StreamConnects
       DEF StreamInv
<1>q. QED
    BY <1>1, <1>2, PTL DEF StreamSpec

\* However calls, releases, timers and the administrator interleave, the counts are those of the
\* holders, and the providers are subscribed to what is held
\* (MarketStreamService.retainSymbols, releaseSymbols, subscribeSymbolsToProviders).
THEOREM HoldersFollowed == StreamSpec => []ProvidersFollowHolders
<1>1. StreamInv => ProvidersFollowHolders
    BY DEF StreamInv, ProvidersFollowHolders
<1>q. QED
    BY <1>1, StreamInvariant, PTL

\* GlobalDatafeedsMarketStreamProvider.subscribe fills the capacity it read and no more, while no
\* second call reads it during the loop.
THEOREM LimitKept == StreamSpec => []WithinSymbolLimit
<1>1. StreamInv => WithinSymbolLimit
    BY DEF StreamInv
<1>q. QED
    BY <1>1, StreamInvariant, PTL

\* What GDF and EODHD stream is what their providers list, once every send has left and the
\* socket is open; EODHD always has a socket or a timer for what is listed.
THEOREM FeedsFollow == StreamSpec => []FeedsKeepUp
<1>1. ASSUME StreamInv PROVE FeedsKeepUp
  <2>1. /\ LastSendTells /\ EodKeepsUp /\ gdfServer \subseteq OnGdf /\ gdfSubs \subseteq OnGdf
      BY <1>1 DEF StreamInv, ProviderTypes
  <2>2. ASSUME outbox = <<>>, ~disturbed PROVE gdfServer = gdfSubs
    <3>1. DOMAIN outbox = {}
        BY <2>2
    <3>2. \A s \in OnGdf : s \in gdfServer <=> s \in gdfSubs
        BY <2>1, <2>2, <3>1 DEF LastSendTells
    <3>q. QED
        BY <2>1, <3>2
  <2>q. QED
      BY <2>1, <2>2 DEF FeedsKeepUp, GdfFollows
<1>q. QED
    BY <1>1, StreamInvariant, PTL

=============================================================================
