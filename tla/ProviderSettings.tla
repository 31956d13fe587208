--------------------------- MODULE ProviderSettings ---------------------------
(***************************************************************************)
(* The settings of the data providers (modules/data-provider): rows in the *)
(* database, read by every process through a cache of its own            *)
(* (shared/cache.ts), with the last map read as a fallback; above it, the  *)
(* list of supported exchanges, cached for a day.  The administrator's     *)
(* update clears the caches of the process that made it.                   *)
(***************************************************************************)
EXTENDS Integers, FiniteSets, Sequences

CONSTANTS
    Server,         \* processes, each with its caches
    Reader,         \* bound: reads of the settings under way at a time, of any process
    Admin,          \* bound: updates under way at a time
    Ttl,            \* SETTINGS_CACHE_TTL_MS
    DayTtl,         \* SUPPORTED_EXCHANGES_CACHE_TTL_MS
    ReadBound,      \* bound: how long a read takes
    MaxUpdates, LastMoment      \* bounds: updates, and the clock

ASSUME SettingsAssumption ==
    /\ Ttl \in Nat /\ DayTtl \in Nat /\ ReadBound \in Nat
    /\ MaxUpdates \in Nat /\ LastMoment \in Nat

VARIABLES
    moment,
    row,            \* the provider's row: whether it is enabled, its priority, and its version
    replacedAt,     \* history: when each version was replaced
    cached,         \* per process: the cached row and when it expires
    lastGood,       \* processes whose lastKnownGoodSettingsMap is set
    exchanges,      \* per process: the cached list, by the row it was computed from
    read,           \* reads under way
    update,         \* updates under way: the row read, and what is to change
    asked,          \* history: the last value asked of each field
    collided,       \* history: two updates were under way at a time
    unsure          \* history: processes whose caches were not cleared since the row changed, or
                    \* were cleared beside a read

settingsVars == <<moment, row, replacedAt, cached, lastGood, exchanges, read, update, asked, collided,
                  unsure>>

Absent == [version |-> 0, until |-> 0]
NoRead == [at |-> "idle", server |-> 0, list |-> FALSE, began |-> 0, version |-> 0]
Elsewhere == 0
NoUpdate == [at |-> "idle", server |-> 0, seen |-> 0, field |-> "enabled", value |-> 0]

SettingsInit ==
    /\ moment = 0
    /\ row = [enabled |-> 1, priority |-> 1, version |-> 1]
    /\ replacedAt = <<>>
    /\ cached = [s \in Server |-> Absent] /\ lastGood = {}
    /\ exchanges = [s \in Server |-> Absent]
    /\ read = [r \in Reader |-> NoRead] /\ update = [a \in Admin |-> NoUpdate]
    /\ asked = [enabled |-> 1, priority |-> 1] /\ collided = FALSE /\ unsure = {}

-------------------------------------------------------------------------------
(* shared/cache.ts *)

Valid(entry) == entry.version # 0 /\ moment < entry.until

\* The time to live begins before the value is computed.
Filled(began, version, ttl) == [version |-> version, until |-> began + ttl]

\* getProviderSettingsMap, getOrSetCache: the cache answers, or a read begins.
Ask(r, s) ==
    /\ read[r].at = "idle"
    /\ IF Valid(cached[s])
       THEN lastGood' = lastGood \union {s} /\ UNCHANGED read
       ELSE /\ read' = [read EXCEPT ![r] = [NoRead EXCEPT !.at = "reading", !.server = s,
                                                           !.began = moment]]
            /\ UNCHANGED lastGood
    /\ UNCHANGED <<moment, row, replacedAt, cached, exchanges, update, asked, collided, unsure>>

RowRead(r) ==
    /\ read[r].at = "reading"
    /\ read' = [read EXCEPT ![r].at = "read", ![r].version = row.version]
    /\ UNCHANGED <<moment, row, replacedAt, cached, lastGood, exchanges, update, asked, collided, unsure>>

\* The value is stored over whatever is there by now.
Stored(r) ==
    LET s == read[r].server IN
    /\ read[r].at = "read" /\ ~read[r].list
    /\ cached' = [cached EXCEPT ![s] = Filled(read[r].began, read[r].version, Ttl)]
    /\ lastGood' = lastGood \union {s}
    /\ read' = [read EXCEPT ![r] = NoRead]
    /\ UNCHANGED <<moment, row, replacedAt, exchanges, update, asked, collided, unsure>>

\* The database does not answer: the caller gets the last good map, or "enabled" without one.
ReadFails(r) ==
    /\ read[r].at = "reading"
    /\ read' = [read EXCEPT ![r] = NoRead]
    /\ UNCHANGED <<moment, row, replacedAt, cached, lastGood, exchanges, update, asked, collided,
                   unsure>>

\* listSupportedExchanges: the list is computed from the settings that its process believes,
\* and EODHD takes its time to name its exchanges.
ListBegins(r, s) ==
    /\ read[r].at = "idle"
    /\ ~Valid(exchanges[s]) /\ Valid(cached[s])
    /\ read' = [read EXCEPT ![r] = [at |-> "read", server |-> s, list |-> TRUE, began |-> moment,
                                    version |-> cached[s].version]]
    /\ UNCHANGED <<moment, row, replacedAt, cached, lastGood, exchanges, update, asked, collided, unsure>>

ListStored(r) ==
    LET s == read[r].server IN
    /\ read[r].at = "read" /\ read[r].list
    /\ exchanges' = [exchanges EXCEPT ![s] = Filled(read[r].began, read[r].version, DayTtl)]
    /\ read' = [read EXCEPT ![r] = NoRead]
    /\ UNCHANGED <<moment, row, replacedAt, cached, lastGood, update, asked, collided, unsure>>

-------------------------------------------------------------------------------
(* The administrator *)

\* Mutant: the list of exchanges keeps its entry.
InvalidateSettings(s) == cached' = [cached EXCEPT ![s] = Absent] /\ UNCHANGED exchanges

\* invalidateProviderSettingsCache
Invalidate(s) ==
    /\ cached' = [cached EXCEPT ![s] = Absent]
    /\ exchanges' = [exchanges EXCEPT ![s] = Absent]

Cleared(s) ==
    /\ Invalidate(s)
    /\ unsure' = IF \E r \in Reader : read[r].at # "idle" /\ read[r].server = s
                 THEN unsure ELSE unsure \ {s}

\* updateProviderSettings: the read.
UpdateReads(a, s, field, value) ==
    /\ update[a].at = "idle" /\ value # row[field]
    /\ Len(replacedAt) + Cardinality({b \in Admin : update[b].at = "writing"}) < MaxUpdates
    /\ update' = [update EXCEPT ![a] = [at |-> "writing", server |-> s, field |-> field, value |-> value,
                                        seen |-> [enabled |-> row.enabled, priority |-> row.priority]]]
    /\ collided' = (collided \/ \E b \in Admin : update[b].at = "writing")
    /\ UNCHANGED <<moment, row, replacedAt, cached, lastGood, exchanges, read, asked, unsure>>

\* All fields are written, those not named with what was read.
OtherFieldKept(a) == [update[a].seen EXCEPT ![update[a].field] = update[a].value]

UpdateWrites(a) ==
    LET new == OtherFieldKept(a) IN
    /\ update[a].at = "writing"
    /\ row' = [enabled |-> new.enabled, priority |-> new.priority, version |-> row.version + 1]
    /\ replacedAt' = Append(replacedAt, moment)
    /\ asked' = [asked EXCEPT ![update[a].field] = update[a].value]
    /\ update' = [update EXCEPT ![a].at = "written"]
    /\ unsure' = Server
    /\ UNCHANGED <<moment, cached, lastGood, exchanges, read, collided>>

\* After the audit log, the caches of the process that made the update are cleared.
UpdateInvalidates(a) ==
    /\ update[a].at = "written"
    /\ IF update[a].server \in Server THEN Cleared(update[a].server)
       ELSE UNCHANGED <<cached, exchanges, unsure>>
    /\ update' = [update EXCEPT ![a] = NoUpdate]
    /\ UNCHANGED <<moment, row, replacedAt, lastGood, read, asked, collided>>

\* recordHealth: the health is written to the row, and the caches of the process are cleared.
HealthRecorded(s) ==
    /\ Valid(cached[s])
    /\ Cleared(s)
    /\ UNCHANGED <<moment, row, replacedAt, lastGood, read, update, asked, collided>>

\* Reads take no longer than ReadBound.
Pass ==
    /\ moment < LastMoment
    /\ \A r \in Reader : read[r].at = "idle" \/ moment < read[r].began + ReadBound
    /\ moment' = moment + 1
    /\ UNCHANGED <<row, replacedAt, cached, lastGood, exchanges, read, update, asked, collided, unsure>>

SettingsNext ==
    \/ Pass
    \/ \E r \in Reader :
          \/ \E s \in Server : Ask(r, s) \/ ListBegins(r, s)
          \/ RowRead(r) \/ Stored(r) \/ ReadFails(r) \/ ListStored(r)
    \/ \E s \in Server : HealthRecorded(s)
    \/ \E a \in Admin :
          \/ \E s \in Server \union {Elsewhere}, value \in {0, 1}, field \in {"enabled", "priority"} :
                UpdateReads(a, s, field, value)
          \/ UpdateWrites(a) \/ UpdateInvalidates(a)

SettingsSpec == SettingsInit /\ [][SettingsNext]_settingsVars

-------------------------------------------------------------------------------
(* Properties *)

\* What a process believes of the settings was the row's value less than Ttl ago, whatever fills
\* race whatever invalidations; so does what it believes of another process's update (cache.ts:10-17).
BeliefsAreRecent ==
    \A s \in Server :
        Valid(cached[s]) /\ cached[s].version < row.version =>
            moment - replacedAt[cached[s].version] < Ttl

\* "Fail open" answers only in a process that never read the settings: it never overrides a row
\* that was read (data-provider-settings.service.ts:66).
FailOpenOnlyBeforeFirstRead ==
    \A s \in Server : (cached[s].version # 0 \/ exchanges[s].version # 0) => s \in lastGood

\* Each field has the value last asked for, unless two updates of the row overlapped
\* (data-provider-settings.service.ts:87-103).
NoFieldLost == collided \/ (row.enabled = asked.enabled /\ row.priority = asked.priority)

\* A process lists exchanges by the row as it is, from the moment it cleared its caches after an
\* update; a process that made no update, or was reading when it cleared them, may not for a day
\* (data-provider-settings.service.ts:124).
ListFollowsUpdates ==
    \A s \in Server \ unsure : Valid(exchanges[s]) => exchanges[s].version = row.version

\* What a process goes by is as recent as its caches promise, and what an admin asked for is kept.
SettingsAreKept ==
    BeliefsAreRecent /\ FailOpenOnlyBeforeFirstRead /\ ListFollowsUpdates /\ NoFieldLost

==============================================================================
