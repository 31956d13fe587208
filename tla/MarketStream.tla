---------------------------- MODULE MarketStream ----------------------------
(***************************************************************************)
(* Live market data in one API process (modules/market-stream): viewers    *)
(* hold symbols, the service counts the holders of each symbol, and the    *)
(* two providers are subscribed to what is held.  Between the count and    *)
(* the subscription lie three awaits: the settings, the instruments, and   *)
(* each send.                                                              *)
(***************************************************************************)
EXTENDS Integers, FiniteSets, Sequences

CONSTANTS
    Viewer,         \* websocket clients
    Symbol,         \* exchange and symbol, as streamSymbolKey joins them
    OnGdf,          \* symbols of BSE and BSE_IDX
    Retired,        \* symbols of NSE, which no provider serves
    Message,        \* bound: the sets of symbols that a message names
    SymbolLimit,    \* GLOBAL_DATAFEEDS_SYMBOL_LIMIT
    Task,           \* bound: subscribe calls under way at a time
    MaxUpsets,      \* bound: failed sends and lookups, lost connections, and times the
                    \* administrator disables or enables a provider
    MaxPosts        \* bound: messages of viewers and chart requests

ASSUME StreamAssumption ==
    /\ OnGdf \subseteq Symbol /\ Retired \subseteq Symbol \ OnGdf
    /\ Message \subseteq SUBSET Symbol /\ SymbolLimit \in Nat
    /\ MaxUpsets \in Nat /\ MaxPosts \in Nat

VARIABLES
    viewers,        \* clients of the hub: the symbols each has subscribed to
    refs,           \* subscriptionRefs: the count of each symbol, 0 when absent
    ensured,        \* ensuredSymbols: symbols with an idle timer
    task,           \* where each subscribe call is suspended
    allowed,        \* isProviderEnabled, per provider
    eodSubs, eodSocket, eodTimer, eodServer,    \* EodhdMarketStreamProvider, and what EODHD has
    eodOthers,      \* sockets the provider no longer points at: closing ones, and live ones
    gdfSubs, listening, cooling, outbox, gdfServer,
                    \* GlobalDatafeedsMarketStreamProvider, its capability, sends in order, and
                    \* what GDF has
    skipped,        \* history: symbols some call did not pass on to a provider
    overtaken,      \* history: symbols released while a call for them was suspended
    crowded,        \* history: two calls were in the provider's loop at a time
    disturbed,      \* history: a send failed or a connection was lost
    disabled,       \* history: providers that were disabled once
    upsets, posts

eod == <<eodSubs, eodSocket, eodTimer, eodServer, eodOthers>>
gdf == <<gdfSubs, listening, cooling, outbox, gdfServer>>
streamHistory == <<skipped, overtaken, crowded, disturbed, disabled>>
streamBounds == <<upsets, posts>>
streamVars == <<viewers, refs, ensured, task, allowed, eod, gdf, streamHistory, streamBounds>>

Free == [at |-> "idle", todo |-> {}, room |-> 0]

StreamInit ==
    /\ viewers = [v \in Viewer |-> {}]
    /\ refs = [s \in Symbol |-> 0]
    /\ ensured = {}
    /\ task = [t \in Task |-> Free]
    /\ allowed = [p \in {"eodhd", "gdf"} |-> TRUE]
    /\ eodSubs = {} /\ eodSocket = "none" /\ eodTimer = FALSE /\ eodServer = {}
    /\ eodOthers = [closing |-> 0, live |-> 0]
    /\ gdfSubs = {} /\ listening = TRUE /\ cooling = FALSE /\ outbox = <<>> /\ gdfServer = {}
    /\ skipped = {} /\ overtaken = {} /\ crowded = FALSE /\ disturbed = FALSE
    /\ disabled = {} /\ upsets = 0 /\ posts = 0

-------------------------------------------------------------------------------
(* Counting holders *)

Retained(S) == [s \in Symbol |-> IF s \in S THEN refs[s] + 1 ELSE refs[s]]
Added(S) == {s \in S : refs[s] = 0}

Released(S) == [s \in Symbol |-> IF s \in S /\ refs[s] > 0 THEN refs[s] - 1 ELSE refs[s]]

\* Mutant: whoever lets go, the provider is told.
RemovedAlways(S) == S

Removed(S) == {s \in S : refs[s] = 1}

\* splitByProvider
Ours(S) == S \intersect OnGdf

\* A call that adds nothing awaits the settings and returns: it needs no task.
Suspend(S) ==
    IF Added(S) = {} THEN UNCHANGED task
    ELSE \E t \in Task :
            /\ task[t] = Free
            /\ task' = [task EXCEPT ![t] = [at |-> "settings", todo |-> Added(S), room |-> 0]]

Post == posts < MaxPosts /\ posts' = posts + 1
Upset == upsets < MaxUpsets /\ upsets' = upsets + 1

\* A subscribe message: the hub adds what is new to the client, the service counts it.
Subscribe(v, S) ==
    /\ ~S \subseteq viewers[v] /\ Post
    /\ LET new == S \ viewers[v] IN
       /\ viewers' = [viewers EXCEPT ![v] = @ \union S]
       /\ refs' = Retained(new)
       /\ Suspend(new)
    /\ UNCHANGED <<ensured, allowed, eod, gdf, streamHistory, upsets>>

\* A chart asks for today's candle.  For an ensured symbol this only restarts the idle timer.
Ensure(s) ==
    /\ s \notin ensured /\ Post
    /\ cooling => s \notin OnGdf
    /\ ensured' = ensured \union {s}
    /\ refs' = Retained({s})
    /\ Suspend({s})
    /\ UNCHANGED <<viewers, allowed, eod, gdf, streamHistory, upsets>>

-------------------------------------------------------------------------------
(* The EODHD provider: one socket, all symbols sent again after each change *)

Eod(S) == S \ (OnGdf \union Retired)

\* sendSubscriptions names what is subscribed; EODHD is never told to drop anything.
EodSend(subs) ==
    eodServer' = IF eodSocket = "open" /\ subs # {} THEN eodServer \union subs ELSE eodServer

EodSubscribe(S) ==
    /\ eodSubs' = eodSubs \union Eod(S)
    /\ eodSocket' = IF eodSocket = "none" THEN "connecting" ELSE eodSocket
    /\ EodSend(eodSubs \union Eod(S))
    /\ UNCHANGED <<eodTimer, eodOthers>>

EodUnsubscribe(S) ==
    /\ eodSubs' = eodSubs \ S
    /\ EodSend(eodSubs \ S)
    /\ UNCHANGED <<eodSocket, eodTimer, eodOthers>>

\* The open handler.
EodOpens ==
    /\ eodSocket = "connecting"
    /\ eodSocket' = "open"
    /\ eodServer' = eodSubs
    /\ UNCHANGED <<viewers, refs, ensured, task, allowed, eodSubs, eodTimer, eodOthers, gdf, streamHistory,
                   streamBounds>>

\* Mutant: the close handler does not reconnect.
EodClosedForGood ==
    /\ eodSocket # "none"
    /\ Upset
    /\ eodSocket' = "none" /\ eodServer' = {}
    /\ UNCHANGED <<viewers, refs, ensured, task, allowed, eodSubs, eodTimer, eodOthers, gdf, streamHistory,
                   posts>>

\* The close handler, after the connection was lost or refused.
EodCloses ==
    /\ eodSocket # "none"
    /\ Upset
    /\ eodSocket' = "none" /\ eodServer' = {}
    /\ eodTimer' = (eodTimer \/ eodSubs # {})
    /\ UNCHANGED <<viewers, refs, ensured, task, allowed, eodSubs, eodOthers, gdf, streamHistory,
                   posts>>

\* The reconnect timer: connect() leaves an existing socket alone.
EodReconnects ==
    /\ eodTimer
    /\ eodTimer' = FALSE
    /\ eodSocket' = IF eodSocket = "none" THEN "connecting" ELSE eodSocket
    /\ UNCHANGED <<viewers, refs, ensured, task, allowed, eodSubs, eodServer, eodOthers, gdf, streamHistory,
                   streamBounds>>

\* The close event of a socket that close() has left behind, or that lost its place: it takes
\* the place of the current socket all the same, and starts the timer that close() had cleared.
EodOtherCloses ==
    /\ \/ /\ eodOthers.closing > 0
          /\ eodOthers' = [closing |-> eodOthers.closing - 1,
                           live |-> eodOthers.live + (IF eodSocket = "none" THEN 0 ELSE 1)]
       \/ /\ eodOthers.live > 0
          /\ eodOthers' = [eodOthers EXCEPT !.live = IF eodSocket = "none" THEN @ - 1 ELSE @]
    /\ eodSocket' = "none" /\ eodServer' = {}
    /\ eodTimer' = (eodTimer \/ eodSubs # {})
    /\ UNCHANGED <<viewers, refs, ensured, task, allowed, eodSubs, gdf, streamHistory,
                   streamBounds>>

\* close() when the provider is disabled.
EodDisabled ==
    /\ eodSocket' = "none" /\ eodServer' = {} /\ eodTimer' = FALSE
    /\ eodOthers' = [eodOthers EXCEPT !.closing = IF eodSocket = "none" THEN @ ELSE @ + 1]
    /\ UNCHANGED eodSubs

-------------------------------------------------------------------------------
(* The GlobalDataFeeds provider *)

\* send(): calls leave in the order of the slots of the call gate.
SendInOrder(S, kind, t) ==
    \E order \in [1..Cardinality(S) -> S] :
        /\ \A i, j \in DOMAIN order : i # j => order[i] # order[j]
        /\ outbox' = outbox \o [i \in DOMAIN order |-> [what |-> kind, sym |-> order[i], by |-> t]]

NoTask == "no task"

GdfUnsubscribe(S) ==
    /\ gdfSubs' = gdfSubs \ S
    /\ SendInOrder(gdfSubs \intersect S, "drop", NoTask)
    /\ UNCHANGED <<listening, cooling, gdfServer>>

\* releaseSymbols, then each provider is told of what has no holder left.
Release(S) ==
    /\ refs' = Released(S)
    /\ IF Removed(S) \ OnGdf = {} THEN UNCHANGED eod ELSE EodUnsubscribe(Removed(S) \ OnGdf)
    /\ IF Ours(Removed(S)) = {} THEN UNCHANGED gdf
       ELSE GdfUnsubscribe(Ours(Removed(S)))
    /\ overtaken' = overtaken \union {s \in Removed(S) : \E t \in Task : s \in task[t].todo}

Unsubscribe(v, S) ==
    /\ S \intersect viewers[v] # {} /\ Post
    /\ viewers' = [viewers EXCEPT ![v] = @ \ S]
    /\ Release(S \intersect viewers[v])
    /\ UNCHANGED <<ensured, task, allowed, skipped, crowded, disturbed, disabled, upsets>>

\* The close event of a viewer's socket; the viewer may connect again as a new client.
Leave(v) ==
    /\ viewers[v] # {}
    /\ viewers' = [viewers EXCEPT ![v] = {}]
    /\ Release(viewers[v])
    /\ UNCHANGED <<ensured, task, allowed, skipped, crowded, disturbed, disabled, streamBounds>>

\* The idle timer of an ensured symbol.
EnsureExpires(s) ==
    /\ s \in ensured
    /\ ensured' = ensured \ {s}
    /\ Release({s})
    /\ UNCHANGED <<viewers, task, allowed, skipped, crowded, disturbed, disabled, streamBounds>>

Becomes(t, at, todo, room) == task' = [task EXCEPT ![t] = [at |-> at, todo |-> todo, room |-> room]]

\* The settings are known.  NSE symbols connect EODHD without being subscribed.
SettingsKnown(t) ==
    /\ task[t].at = "settings"
    /\ LET S == task[t].todo
           others == S \ OnGdf
           ours == Ours(S)
           goOn == ours # {} /\ allowed["gdf"] /\ ~cooling
       IN /\ IF others # {} /\ allowed["eodhd"] THEN EodSubscribe(others) ELSE UNCHANGED eod
          /\ IF goOn THEN Becomes(t, "instruments", ours, 0) ELSE task' = [task EXCEPT ![t] = Free]
          /\ skipped' = skipped \union (IF allowed["eodhd"] THEN {} ELSE others)
                                \union (IF goOn THEN {} ELSE ours)
    /\ UNCHANGED <<viewers, refs, ensured, allowed, gdf, overtaken, crowded, disturbed,
                   disabled, streamBounds>>

\* The provider's loop up to its next await: one symbol is entered and its send begins, those
\* passed over are subscribed already; or the loop ends.
Loop(t, todo, room) ==
    \/ \E s \in todo \ gdfSubs, known \in SUBSET (todo \intersect gdfSubs) :
          /\ room > 0
          /\ gdfSubs' = gdfSubs \union {s}
          /\ SendInOrder({s}, "add", t)
          /\ Becomes(t, "sending", todo \ ({s} \union known), room - 1)
          /\ UNCHANGED skipped
    \/ /\ room = 0 \/ todo \subseteq gdfSubs
       /\ task' = [task EXCEPT ![t] = Free]
       /\ skipped' = skipped \union (todo \ gdfSubs)
       /\ UNCHANGED <<gdfSubs, outbox>>

Looping(t) == task[t].at \in {"sending", "sent"}

\* Mutant: the capacity is not limited to what is free.
LimitIgnored(t) ==
    /\ task[t].at = "instruments"
    /\ Loop(t, task[t].todo, SymbolLimit)
    /\ UNCHANGED <<viewers, refs, ensured, allowed, eod, listening, cooling, gdfServer, overtaken,
                   crowded, disturbed, disabled, streamBounds>>

\* The instruments are resolved: the capacity is computed once, for the whole loop.
InstrumentsKnown(t) ==
    /\ task[t].at = "instruments"
    /\ LET free == SymbolLimit - Cardinality(gdfSubs)
       IN Loop(t, task[t].todo, IF free > 0 THEN free ELSE 0)
    /\ crowded' = (crowded \/ \E u \in Task \ {t} : Looping(u))
    /\ UNCHANGED <<viewers, refs, ensured, allowed, eod, listening, cooling, gdfServer, overtaken,
                   disturbed, disabled, streamBounds>>

\* The lookup failed: the warning is all that is left of the call.
InstrumentsFail(t) ==
    /\ task[t].at = "instruments"
    /\ Upset
    /\ task' = [task EXCEPT ![t] = Free]
    /\ skipped' = skipped \union task[t].todo
    /\ UNCHANGED <<viewers, refs, ensured, allowed, eod, gdf, overtaken, crowded, disturbed,
                   disabled, posts>>

\* A send was awaited; its outcome does not matter to the loop.
GoOn(t) ==
    /\ task[t].at = "sent"
    /\ Loop(t, task[t].todo, task[t].room)
    /\ UNCHANGED <<viewers, refs, ensured, allowed, eod, listening, cooling, gdfServer, overtaken,
                   crowded, disturbed, disabled, streamBounds>>

Awaited(by) == IF by = NoTask THEN task ELSE [task EXCEPT ![by].at = "sent"]

\* The next send leaves: GDF hears it, or the call fails and is only logged.
SendLeaves ==
    /\ outbox # <<>>
    /\ LET m == Head(outbox) IN
       /\ gdfServer' = IF m.what = "add" THEN gdfServer \union {m.sym} ELSE gdfServer \ {m.sym}
       /\ task' = Awaited(m.by)
    /\ outbox' = Tail(outbox)
    /\ UNCHANGED <<viewers, refs, ensured, allowed, eod, gdfSubs, listening, cooling, streamHistory,
                   streamBounds>>

SendFails ==
    /\ outbox # <<>>
    /\ Upset
    /\ task' = Awaited(Head(outbox).by)
    /\ outbox' = Tail(outbox)
    /\ disturbed' = TRUE
    /\ UNCHANGED <<viewers, refs, ensured, allowed, eod, gdfSubs, listening, cooling, gdfServer,
                   skipped, overtaken, crowded, disabled, posts>>

\* The client reconnects by itself, but nobody subscribes again.
GdfReconnects ==
    /\ gdfServer # {}
    /\ Upset
    /\ gdfServer' = {} /\ disturbed' = TRUE
    /\ UNCHANGED <<viewers, refs, ensured, task, allowed, eod, gdfSubs, listening, cooling, outbox,
                   skipped, overtaken, crowded, disabled, posts>>

\* GDF answers that the function is not enabled; the capability cools down, until it is time
\* again or a quote of a subscribed symbol arrives.
CoolDown ==
    /\ listening /\ ~cooling
    /\ Upset
    /\ cooling' = TRUE
    /\ UNCHANGED <<viewers, refs, ensured, task, allowed, eod, gdfSubs, listening, outbox,
                   gdfServer, streamHistory, posts>>

CooledDown ==
    /\ cooling
    /\ cooling' = FALSE
    /\ UNCHANGED <<viewers, refs, ensured, task, allowed, eod, gdfSubs, listening, outbox,
                   gdfServer, streamHistory, streamBounds>>

Quote(s) == listening /\ s \in gdfServer \intersect gdfSubs /\ CooledDown

\* The administrator disables a provider: its connection is closed.  The GDF provider also
\* removes its listeners, which nothing adds again.
Disable(p) ==
    /\ Upset
    /\ allowed[p]
    /\ allowed' = [allowed EXCEPT ![p] = FALSE]
    /\ disabled' = disabled \union {p}
    /\ IF p = "eodhd" THEN EodDisabled /\ UNCHANGED <<gdf, disturbed>>
       ELSE /\ listening' = FALSE /\ gdfServer' = {} /\ disturbed' = TRUE
            /\ UNCHANGED <<eod, gdfSubs, cooling, outbox>>
    /\ UNCHANGED <<viewers, refs, ensured, task, skipped, overtaken, crowded, posts>>

Enable(p) ==
    /\ ~allowed[p]
    /\ allowed' = [allowed EXCEPT ![p] = TRUE]
    /\ UNCHANGED <<viewers, refs, ensured, task, eod, gdf, streamHistory, streamBounds>>

StreamNext ==
    \/ \E v \in Viewer :
          \/ \E S \in Message : Subscribe(v, S) \/ Unsubscribe(v, S)
          \/ Leave(v)
    \/ \E s \in Symbol : Ensure(s) \/ EnsureExpires(s) \/ Quote(s)
    \/ EodOpens \/ EodCloses \/ EodReconnects \/ EodOtherCloses
    \/ \E t \in Task : SettingsKnown(t) \/ InstrumentsKnown(t) \/ InstrumentsFail(t) \/ GoOn(t)
    \/ SendLeaves \/ SendFails \/ GdfReconnects \/ CoolDown \/ CooledDown
    \/ \E p \in {"eodhd", "gdf"} : Disable(p) \/ Enable(p)

StreamSpec == StreamInit /\ [][StreamNext]_streamVars

-------------------------------------------------------------------------------
(* Properties *)

\* Types of the service's maps and of both providers (market-stream.service.ts:12-13).
StreamTypeOK ==
    /\ viewers \in [Viewer -> SUBSET Symbol]
    /\ refs \in [Symbol -> Nat] /\ ensured \in SUBSET Symbol
    /\ task \in [Task -> [at : {"idle", "settings", "instruments", "sending", "sent"},
                          todo : SUBSET Symbol, room : Nat]]
    /\ allowed \in [{"eodhd", "gdf"} -> BOOLEAN]
    /\ eodSubs \in SUBSET Symbol /\ eodServer \in SUBSET Symbol
    /\ eodOthers \in [closing : Nat, live : Nat]
    /\ eodSocket \in {"none", "connecting", "open"} /\ eodTimer \in BOOLEAN
    /\ gdfSubs \in SUBSET OnGdf /\ gdfServer \in SUBSET OnGdf
    /\ listening \in BOOLEAN /\ cooling \in BOOLEAN
    /\ outbox \in Seq([what : {"add", "drop"}, sym : OnGdf, by : Task \union {NoTask}])
    /\ skipped \in SUBSET Symbol /\ overtaken \in SUBSET Symbol
    /\ crowded \in BOOLEAN /\ disturbed \in BOOLEAN
    /\ disabled \in SUBSET {"eodhd", "gdf"}
    /\ upsets \in 0..MaxUpsets /\ posts \in 0..MaxPosts

\* However subscribe, unsubscribe, close and the idle timers interleave, the count of a symbol is
\* the number of its holders: open viewers that subscribed to it, and its idle timer.
CountsMatchHolders ==
    \A s \in Symbol :
        refs[s] = Cardinality({v \in Viewer : s \in viewers[v]}) + (IF s \in ensured THEN 1 ELSE 0)

UnderWay(s) == \E t \in Task : s \in task[t].todo

\* A symbol that nobody holds is subscribed at no provider, unless its last holder let go while
\* the subscription was still waiting for the settings, the instruments or an earlier send.
NothingLeaks ==
    \A s \in (eodSubs \union gdfSubs) \ overtaken : refs[s] > 0

\* A symbol that somebody holds is subscribed at its provider as soon as no call for it is under
\* way, unless its provider was disabled, cooling down, full or out of reach when it was asked.
HeldIsSubscribed ==
    \A s \in Symbol \ (Retired \union skipped \union overtaken) :
        refs[s] > 0 => s \in eodSubs \union gdfSubs \/ UnderWay(s)

\* The three together: counts follow the holders, and the providers follow the counts.
ProvidersFollowHolders == CountsMatchHolders /\ NothingLeaks /\ HeldIsSubscribed

\* What is subscribed never exceeds the provider's limit, unless two calls computed what is free
\* beside each other.
WithinSymbolLimit == Cardinality(gdfSubs) <= SymbolLimit \/ crowded

\* With no send under way and none lost, GDF streams exactly what the provider lists.
GdfFollows == outbox = <<>> /\ ~disturbed => gdfServer = gdfSubs

\* EODHD streams all that is subscribed as soon as the socket is open; while the provider was
\* never disabled there is a socket or a timer for what is subscribed, and never a second socket.
EodKeepsUp ==
    /\ eodSocket = "open" => eodSubs \subseteq eodServer
    /\ "eodhd" \notin disabled =>
          /\ eodSubs # {} => eodSocket # "none" \/ eodTimer
          /\ eodOthers.live = 0

\* Both at once: what the providers send is what is subscribed.
FeedsKeepUp == GdfFollows /\ EodKeepsUp

==============================================================================
