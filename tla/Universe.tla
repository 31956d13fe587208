----------------------------- MODULE Universe -----------------------------
(***************************************************************************)
(* The instruments of one exchange, as GlobalDataFeeds lists them and as   *)
(* the table holds them: full syncs and searches in the API and the worker *)
(* (market-data.instrument-sync.ts), each with the provider list its own   *)
(* process caches, the matching of listed rows with stored ones by token,  *)
(* renames in place, conflicts, the upsert, the fallback row for a symbol  *)
(* the provider does not know (market-data.instruments.ts), and the        *)
(* candles the metrics read back.  Bootstrap jobs only decide when candles *)
(* are stored, which happens here at any time.                             *)
(*                                                                         *)
(* Each statement is an action of its own.  One chunk holds one row, so    *)
(* that a sync can stop between any two of them.                           *)
(***************************************************************************)
EXTENDS Naturals, Sequences, FiniteSets

CONSTANTS
    Name,           \* symbols
    Token,          \* provider tokens
    Vague,          \* a text other symbols contain, a symbol itself
    Process,        \* processes, each with a call at a time
    NoList,
    MaxSyncs,       \* bound: calls
    MaxEvents       \* bound: changes of the list, broken calls, candles stored

ASSUME UniverseAssumption ==
    /\ Vague \in Name /\ Name \intersect Token = {} /\ IsFiniteSet(Token)
    /\ MaxSyncs \in Nat /\ MaxEvents \in Nat

VARIABLES
    listed,     \* what the provider lists: pairs of symbol and token
    cached,     \* instrumentCache of each process
    table,      \* instruments, by id, in the order of insertion
    call,       \* what each process is doing
    stored,     \* the candles: instrument id and the symbol written with them
    calm,       \* history: whole syncs since the list or the table last changed otherwise
    syncs, events

universeVars == <<listed, cached, table, call, stored, calm, syncs, events>>

Pair == [symbol : Name, token : Token]

\* dedupeInstrumentUpsertInputs leaves one row of a symbol and one of a token.
Listings == {list \in SUBSET Pair :
                \A p, q \in list : p.symbol = q.symbol \/ p.token = q.token => p = q}

Still == [at |-> "idle", kind |-> "full", name |-> Vague, todo |-> {}, renames |-> {},
          alone |-> TRUE]

Ids == DOMAIN table
IdOf(name) == {i \in Ids : table[i].symbol = name}
Held(token) == {i \in Ids : table[i].token = token}

\* Ids are never compared, so that one order of the rows stands for all.
Inserted(list) == CHOOSE f \in [1..Cardinality(list) -> list] : {f[i] : i \in DOMAIN f} = list

\* The table as the sync of an earlier list left it.
UniverseInit ==
    /\ listed \in Listings
    /\ \E list \in Listings : table = Inserted(list)
    /\ cached = [p \in Process |-> NoList]
    /\ call = [p \in Process |-> Still]
    /\ stored = {}
    /\ calm = 0 /\ syncs = 0 /\ events = 0

-------------------------------------------------------------------------------
(* The provider and its list in a process *)

Happens == events < MaxEvents /\ events' = events + 1

Lists ==
    /\ Happens
    /\ listed' \in Listings \ {listed}
    /\ call' = [p \in Process |-> [call[p] EXCEPT !.alone = call[p].at = "idle"]]
    /\ calm' = 0
    /\ UNCHANGED <<cached, table, stored, syncs>>

\* The cached list expires after half an hour.
Expires(p) ==
    /\ cached[p] # NoList
    /\ cached' = [cached EXCEPT ![p] = NoList]
    /\ UNCHANGED <<listed, table, call, stored, calm, syncs, events>>

-------------------------------------------------------------------------------
(* Calls: a full sync, a search, and ensureInstrumentsForSymbols *)

\* Process p does what c says from here on; a table it wrote is news to the others.
Writes(p, c, newTable) ==
    /\ table' = newTable
    /\ call' = [q \in Process |->
          IF q = p THEN c
          ELSE [call[q] EXCEPT !.alone = @ /\ (newTable = table \/ call[q].at = "idle")]]

Steps(p, c) == Writes(p, c, table)

Others == UNCHANGED <<listed, stored, syncs, events>>

Asks(p, kind, name) ==
    /\ call[p].at = "idle" /\ syncs < MaxSyncs /\ syncs' = syncs + 1
    /\ kind = "ensure" => IdOf(name) = {}
    /\ Steps(p, [Still EXCEPT !.at = "fetch", !.kind = kind, !.name = name])
    /\ UNCHANGED <<listed, cached, stored, calm, events>>

\* fetchInstruments.
List(p) == IF cached[p] = NoList THEN listed ELSE cached[p]

\* searchInstruments: the symbol itself, then those that contain the text.
Found(list, text) == {q \in list : q.symbol = text \/ text = Vague}

\* A search without a result makes its own row.
Fetches(p) ==
    /\ call[p].at = "fetch"
    /\ cached' = [cached EXCEPT ![p] = List(p)]
    /\ LET c == call[p]
           results == IF c.kind = "full" THEN List(p) ELSE Found(List(p), c.name)
       IN Steps(p, [c EXCEPT !.todo = results,
                             !.alone = List(p) = listed,
                             !.at = IF c.kind # "full" /\ results = {} THEN "fallback" ELSE "match"])
    /\ UNCHANGED calm /\ Others

\* partitionInstrumentUpserts: the row that holds a listed token under another symbol
\* is a candidate for a rename.
Candidates(list) ==
    {r \in [id : Ids, pair : list] : /\ table[r.id].token = r.pair.token
                                    /\ table[r.id].symbol # r.pair.symbol}

Matches(p) ==
    /\ call[p].at = "match"
    /\ LET renames == Candidates(call[p].todo)
       IN Steps(p, [call[p] EXCEPT !.at = IF renames = {} THEN "write" ELSE "owners",
                                   !.renames = renames,
                                   !.todo = @ \ {r.pair : r \in renames}])
    /\ UNCHANGED <<cached, calm>> /\ Others

\* A symbol that belongs to another instrument is a conflict, and left alone.
Unowned(renames) == {r \in renames : IdOf(r.pair.symbol) \subseteq {r.id}}

Owners(p) ==
    /\ call[p].at = "owners"
    /\ Steps(p, [call[p] EXCEPT !.at = "write", !.renames = Unowned(@)])
    /\ UNCHANGED <<cached, calm>> /\ Others

\* The table refuses a symbol or a token that another row has.
Admits(i, pair) == \A j \in Ids \ {i} : table[j].symbol # pair.symbol /\ table[j].token # pair.token

\* What an undisturbed full sync writes belongs to it; any other write starts anew.
Lasts(p) == IF call[p].kind = "full" /\ call[p].alone THEN calm ELSE 0

\* Mutant: the symbol is left out of the update.
RenamedInNameOnly(r) == IF Admits(r.id, r.pair) THEN [table EXCEPT ![r.id].token = r.pair.token] ELSE table

\* applyInstrumentRenames: a refusal is one more conflict.
Renamed(r) == IF Admits(r.id, r.pair) THEN [table EXCEPT ![r.id] = r.pair] ELSE table

Renames(p) ==
    /\ call[p].at = "write" /\ call[p].renames # {}
    /\ \E r \in call[p].renames :
          Writes(p, [call[p] EXCEPT !.renames = @ \ {r}], Renamed(r))
    /\ calm' = Lasts(p)
    /\ UNCHANGED cached /\ Others

\* ON CONFLICT (exchange, symbol) the row takes the token; else a row is inserted.
Upserts(p) ==
    /\ call[p].at = "write" /\ call[p].renames = {} /\ call[p].todo # {}
    /\ \E q \in call[p].todo :
          LET c == [call[p] EXCEPT !.todo = @ \ {q}] IN
          \/ \E i \in IdOf(q.symbol) :
                IF Admits(i, q) THEN Writes(p, c, [table EXCEPT ![i].token = q.token])
                ELSE Steps(p, Still)
          \/ /\ IdOf(q.symbol) = {}
             /\ IF Held(q.token) = {} THEN Writes(p, c, Append(table, q)) ELSE Steps(p, Still)
    /\ calm' = Lasts(p)
    /\ UNCHANGED cached /\ Others

Written(p) == call[p].at = "write" /\ call[p].renames = {} /\ call[p].todo = {}

\* The new symbols get bootstrap jobs and the call ends, or looks whether it was enough.
CallEnds(p) ==
    /\ Written(p)
    /\ Steps(p, IF call[p].kind = "ensure" THEN [call[p] EXCEPT !.at = "missing"] ELSE Still)
    /\ calm' = IF call[p].kind # "full" THEN calm
               ELSE IF call[p].alone /\ calm < Cardinality(Token) THEN calm + 1 ELSE Lasts(p)
    /\ UNCHANGED cached /\ Others

StillMissing(p) ==
    /\ call[p].at = "missing"
    /\ Steps(p, IF IdOf(call[p].name) = {} THEN [call[p] EXCEPT !.at = "fallback"] ELSE Still)
    /\ UNCHANGED <<cached, calm>> /\ Others

\* getInstrumentToken: the token of the first search result, else the text itself.
TokensFor(list, text) ==
    IF \E q \in list : q.symbol = text THEN {q.token : q \in {r \in list : r.symbol = text}}
    ELSE IF Found(list, text) # {} THEN {q.token : q \in Found(list, text)}
    ELSE {text}

\* createFallbackInstrument.
FallsBack(p) ==
    /\ call[p].at = "fallback"
    /\ cached' = [cached EXCEPT ![p] = List(p)]
    /\ \E token \in TokensFor(List(p), call[p].name) :
          IF IdOf(call[p].name) # {} \/ Held(token) # {} THEN Steps(p, Still)
          ELSE
               /\ Writes(p, Still, Append(table, [symbol |-> call[p].name, token |-> token]))
    /\ calm' = 0
    /\ Others

\* The provider or the database fails, the fallback is not allowed, or the process dies.
Breaks(p) ==
    /\ call[p].at # "idle" /\ Happens
    /\ Steps(p, Still)
    /\ calm' = 0
    /\ UNCHANGED <<listed, cached, stored, syncs>>

-------------------------------------------------------------------------------
(* Candles *)

\* A bootstrap job, or a sync, stores candles of an instrument under its symbol.
Stores(i) ==
    /\ <<i, table[i].symbol>> \notin stored
    /\ Happens
    /\ stored' = stored \union {<<i, table[i].symbol>>}
    /\ UNCHANGED <<listed, cached, table, call, calm, syncs>>

\* groupMetricCandlesBySymbol: candles found by id, told apart by their symbol.
Series(i) == {c \in stored : c[2] = table[i].symbol}

UniverseNext ==
    \/ Lists
    \/ \E i \in Ids : Stores(i)
    \/ \E p \in Process :
          \/ Expires(p) \/ Fetches(p) \/ Matches(p) \/ Owners(p) \/ Renames(p)
          \/ Upserts(p) \/ CallEnds(p) \/ StillMissing(p) \/ FallsBack(p) \/ Breaks(p)
          \/ \E kind \in {"full", "search", "ensure"}, name \in Name :
                (kind = "full" => name = Vague) /\ Asks(p, kind, name)

UniverseSpec == UniverseInit /\ [][UniverseNext]_universeVars

-------------------------------------------------------------------------------
(* Properties *)

\* A row that changes its symbol keeps its token and one that changes its token keeps
\* its symbol, so that no row turns into another instrument, unless calls overlap.
RowsStayThemselves ==
    \A i \in Ids :
        \/ table'[i].symbol = table[i].symbol \/ table'[i].token = table[i].token
        \/ \E p \in Process : call[p].at # "idle" /\ ~ call[p].alone

Present(q) == \E i \in Ids : table[i] = q

\* The row that has the symbol of a pair does not move either.
Stuck(q) ==
    \E i \in IdOf(q.symbol) : \A r \in listed : r.token = table[i].token => ~ Present(r)

\* After as many undisturbed syncs of an unchanged list as there are tokens every listed
\* instrument has its row, unless the listed symbol is held by an instrument that is
\* delisted or stuck itself.
ListIsTaken == calm' >= Cardinality(Token) => \A q \in listed : Present(q)' \/ Stuck(q)'

\* What a sync does to the rows: the two above.
UniverseFollowsTheList ==
    [][RowsStayThemselves /\ (listed' = listed => ListIsTaken)]_universeVars

\* The candles the metrics take for an instrument are those stored for its id, whatever
\* it was called when they were stored.
RenamesKeepTheHistory ==
    \A i \in Ids : Series(i) = {c \in stored : c[1] = i}
=============================================================================
