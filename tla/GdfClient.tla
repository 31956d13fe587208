------------------------------ MODULE GdfClient ------------------------------
(***************************************************************************)
(* The provider socket of one process (global-datafeeds.websocket-client.ts*)
(* and requestWithRetry of the adapter): requests take turns, the one whose*)
(* turn it is connects if need be, sends, and waits for an answer, a       *)
(* timeout or the end of a socket.                                         *)
(*                                                                         *)
(* One action is one event of the JavaScript event loop with the promise   *)
(* continuations it runs.  The pacing and refusals of the call gate are in *)
(* GdfCallGate; startup gate and remote transport are in GdfSession.       *)
(***************************************************************************)
EXTENDS Naturals, Sequences, FiniteSets, SequencesExt

CONSTANTS
    Request,    \* response-bearing calls of this process's adapter, retried once
    History,    \* those of them whose timeout makes the adapter close the socket
    Served,     \* response-bearing calls the broker executes for other processes
    Sender,     \* fire-and-forget calls: send()
    Sock,       \* bound: sockets existing at a time
    Attempts,   \* attempts of requestWithRetry
    MaxDrops,   \* bound: sockets the other side closes
    MaxCloses,  \* bound: calls of close() by the broker or the stream provider
    Trouble,    \* what the provider may do: "late", "early", "refuse", "limit"
    None, Failed

Call == Request \union Served

ASSUME AttemptsAssumption == Attempts \in Nat \ {0}
ASSUME BoundAssumption == MaxDrops \in Nat /\ MaxCloses \in Nat
ASSUME CallAssumption ==
    /\ History \subseteq Request /\ Request \intersect Served = {} /\ Call \intersect Sender = {}
    /\ {None, Failed} \intersect (Call \union Sender \union Sock) = {}

VARIABLES
    conn,           \* state of each socket, as the two ends see it
    cur,            \* this.socket
    dialing,        \* the socket of this.connectPromise
    authenticated,  \* this.authenticated
    shouldReconnect,
    timer,          \* this.reconnectTimer is armed
    tail,           \* localRequestTail: the calls in the order they take turns
    stage,          \* how far each call has come
    waitsOn,        \* the socket whose connectPromise a connecting call awaits
    attempt,        \* attempts left to each call
    pending,        \* this.pending
    wire,           \* <<socket, call>>: answers the provider has yet to send
    outcome,        \* whose answer a call settled with
    drops, closes

sockets == <<conn, cur, dialing, authenticated, shouldReconnect, timer>>
callers == <<tail, stage, waitsOn, attempt, pending, wire, outcome>>
clientVars == <<sockets, callers, drops, closes>>

ClientInit ==
    /\ conn = [s \in Sock |-> "free"]
    /\ cur = None /\ dialing = None
    /\ authenticated = FALSE /\ shouldReconnect = FALSE /\ timer = FALSE
    /\ tail = <<>>
    /\ stage = [c \in Call \union Sender |-> "idle"]
    /\ waitsOn = [c \in Call \union Sender |-> None]
    /\ attempt = [c \in Call |-> IF c \in Request THEN Attempts ELSE 1]
    /\ pending = {}
    /\ wire = {}
    /\ outcome = [c \in Call |-> None]
    /\ drops = 0 /\ closes = 0

\* readyState OPEN, which a socket has before and after the provider's verdict.
Open(s) == s # None /\ conn[s] \in {"open", "authed", "refused"}

Waiting(s) == {c \in Call \union Sender : stage[c] = "connecting" /\ waitsOn[c] = s}

\* A history timeout is being handled: the next call may already have taken its turn.
Expired == {c \in Call : stage[c] = "expired"}

-------------------------------------------------------------------------------
(* How a call ends an attempt *)

\* requestWithRetry: sleep and try again while attempts are left.
Retry(c) == IF attempt[c] > 1 THEN "idle" ELSE "settled"

\* release(): the queue moves on if the call whose turn it is has ended.
Released(cs) == IF tail # <<>> /\ Head(tail) \in cs THEN Tail(tail) ELSE tail

\* Attempts of the calls cs fail; the queue moves on if its head is among them.
Fail(cs) ==
    /\ stage' = [c \in DOMAIN stage |->
                    IF c \in cs THEN IF c \in Sender THEN "idle" ELSE Retry(c) ELSE stage[c]]
    /\ outcome' = [c \in Call |-> IF c \in cs /\ attempt[c] = 1 THEN Failed ELSE outcome[c]]
    /\ attempt' = [c \in Call |-> IF c \in cs THEN attempt[c] - 1 ELSE attempt[c]]
    /\ waitsOn' = [c \in DOMAIN waitsOn |-> IF c \in cs THEN None ELSE waitsOn[c]]
    /\ tail' = Released(cs)
    /\ pending' = pending \ cs

\* After connect(): the calls cs send on this.socket if it is open, else they fail.
Transmit(cs, s) ==
    IF Open(s)
    THEN /\ stage' = [c \in DOMAIN stage |->
                        IF c \in cs THEN IF c \in Sender THEN "idle" ELSE "sent" ELSE stage[c]]
         /\ waitsOn' = [c \in DOMAIN waitsOn |-> IF c \in cs THEN None ELSE waitsOn[c]]
         /\ pending' = pending \union (cs \intersect Call)
         /\ wire' = wire \union ({s} \X cs)
         /\ UNCHANGED <<tail, attempt, outcome>>
    ELSE Fail(cs) /\ UNCHANGED wire

-------------------------------------------------------------------------------
(* connect() and close() *)

Ready == Open(cur) /\ authenticated

\* connect() with neither a ready socket nor a connectPromise makes a socket.
Dial(s) ==
    /\ conn[s] = "free"
    /\ conn' = [conn EXCEPT ![s] = "connecting"]
    /\ cur' = s
    /\ dialing' = s
    /\ shouldReconnect' = TRUE
    /\ UNCHANGED <<authenticated, timer>>

Await(c, s) ==
    /\ stage' = [stage EXCEPT ![c] = "connecting"]
    /\ waitsOn' = [waitsOn EXCEPT ![c] = s]
    /\ UNCHANGED <<tail, attempt, pending, wire, outcome>>

\* A call reaches connect(): it sends, awaits a connectPromise, or fails with a rejected one.
CallConnects(c) ==
    \/ Ready /\ Transmit({c}, cur) /\ UNCHANGED sockets
    \/ ~Ready /\ dialing # None /\ conn[dialing] # "closing"
        /\ Await(c, dialing) /\ UNCHANGED sockets
    \/ ~Ready /\ dialing # None /\ conn[dialing] = "closing"
        /\ Fail({c}) /\ UNCHANGED <<wire, sockets>>
    \/ ~Ready /\ dialing = None /\ \E s \in Sock : Dial(s) /\ Await(c, s)

\* close(): the socket starts its closing handshake and is forgotten at once.
HangUp ==
    /\ conn' = [s \in Sock |->
                  IF s = cur /\ conn[s] # "free"
                  THEN IF conn[s] = "open" THEN "closing unanswered" ELSE "closing"
                  ELSE conn[s]]
    /\ cur' = None /\ dialing' = None
    /\ authenticated' = FALSE /\ shouldReconnect' = FALSE /\ timer' = FALSE

-------------------------------------------------------------------------------
(* Calls *)

\* request(): the call takes its place behind localRequestTail.
Enqueue(c) ==
    /\ c \in Call /\ stage[c] = "idle"
    /\ stage' = [stage EXCEPT ![c] = "queued"]
    /\ tail' = Append(tail, c)
    /\ UNCHANGED <<sockets, waitsOn, attempt, pending, wire, outcome, drops, closes>>

\* Mutant: requests do not wait for their predecessor.
TurnAtOnce(c) ==
    /\ stage[c] = "queued"
    /\ CallConnects(c)
    /\ UNCHANGED <<drops, closes>>

\* runSerializedLocalRequest: previous is settled, requestOnLocalSocket begins.
Turn(c) ==
    /\ tail # <<>> /\ c = Head(tail) /\ stage[c] = "queued"
    /\ CallConnects(c)
    /\ UNCHANGED <<drops, closes>>

\* send(): connects like a request, but takes no turn and expects no answer.
Send(c) ==
    /\ c \in Sender /\ stage[c] = "idle"
    /\ CallConnects(c)
    /\ UNCHANGED <<drops, closes>>

\* Mutant: a call that times out does not release the queue.
TimeoutKeepsTurn(c) ==
    /\ c \in pending
    /\ stage' = [stage EXCEPT ![c] = Retry(c)]
    /\ attempt' = [attempt EXCEPT ![c] = @ - 1]
    /\ pending' = pending \ {c}
    /\ wire' = {m \in wire : m[2] # c}
    /\ UNCHANGED <<tail, outcome, waitsOn, sockets, drops, closes>>

\* The timeout of a call: an adapter's history call with an attempt left is to close the socket,
\* and the release of the queue runs before that.
Timeout(c) ==
    /\ c \in pending
    /\ IF c \in History /\ attempt[c] > 1
       THEN /\ stage' = [stage EXCEPT ![c] = "expired"]
            /\ tail' = Released({c})
            /\ pending' = pending \ {c}
            /\ UNCHANGED <<attempt, outcome, waitsOn>>
       ELSE Fail({c})
    /\ wire' = IF "late" \in Trouble THEN wire ELSE {m \in wire : m[2] # c}
    /\ UNCHANGED <<sockets, drops, closes>>

\* requestWithRetry after a history timeout.
Discard(c) ==
    /\ stage[c] = "expired"
    /\ stage' = [stage EXCEPT ![c] = "idle"]
    /\ attempt' = [attempt EXCEPT ![c] = @ - 1]
    /\ HangUp
    /\ UNCHANGED <<tail, waitsOn, pending, wire, outcome, drops, closes>>

\* close() by becomeProxy or by the stream provider when its last subscriber leaves.
CloseCalled ==
    /\ closes < MaxCloses
    /\ closes' = closes + 1
    /\ HangUp
    /\ UNCHANGED <<callers, drops>>

\* The reconnect timer: connect() with nobody waiting for it.
TimedReconnect ==
    /\ timer
    /\ IF Ready \/ dialing # None
       THEN timer' = FALSE /\ UNCHANGED <<conn, cur, dialing, authenticated, shouldReconnect>>
       ELSE \E s \in Sock :
              /\ conn[s] = "free"
              /\ conn' = [conn EXCEPT ![s] = "connecting"]
              /\ cur' = s /\ dialing' = s /\ shouldReconnect' = TRUE /\ timer' = FALSE
              /\ UNCHANGED authenticated
    /\ UNCHANGED <<callers, drops, closes>>

-------------------------------------------------------------------------------
(* Events of a socket *)

\* "open": Authenticate is sent.
SocketOpens(s) ==
    /\ conn[s] = "connecting"
    /\ conn' = [conn EXCEPT ![s] = "open"]
    /\ UNCHANGED <<cur, dialing, authenticated, shouldReconnect, timer, callers, drops, closes>>

\* AuthenticateResult with Complete: whoever awaited this socket goes on with this.socket.
AuthSucceeds(s) ==
    /\ conn[s] \in {"open", "closing unanswered"}
    /\ \A t \in Sock \ {s} : conn[t] # "authed"
    /\ conn' = [conn EXCEPT ![s] = IF @ = "open" THEN "authed" ELSE "closing"]
    /\ authenticated' = TRUE
    /\ dialing' = None
    /\ Transmit(Waiting(s), IF cur = s /\ conn[s] # "open" THEN None ELSE cur)
    /\ UNCHANGED <<cur, shouldReconnect, timer, drops, closes>>

\* AuthenticateResult without Complete, for one: "Key already in use".  The socket stays open.
AuthRefused(s) ==
    /\ conn[s] \in {"open", "closing unanswered"}
    /\ "refuse" \in Trouble \/ \E t \in Sock \ {s} : conn[t] \in {"authed", "closing"}
    /\ conn' = [conn EXCEPT ![s] = IF @ = "open" THEN "refused" ELSE "closing"]
    /\ dialing' = None
    /\ Fail(Waiting(s))
    /\ UNCHANGED <<cur, authenticated, shouldReconnect, timer, wire, drops, closes>>

\* The authentication timer.
AuthTimeout(s) ==
    /\ conn[s] \in {"connecting", "open", "closing unanswered"}
    /\ conn' = [conn EXCEPT ![s] = "closing"]
    /\ Fail(Waiting(s))
    /\ UNCHANGED <<cur, dialing, authenticated, shouldReconnect, timer, wire, drops, closes>>

\* Mutant: only a session that had been opened is restored.
RearmedIfAuthenticated == timer \/ (shouldReconnect /\ authenticated)

\* scheduleReconnect, which keeps a timer that is already armed.
Rearmed == timer \/ shouldReconnect

\* The close handler, of whichever socket.  It settles no connectPromise.
CloseHandler(s) ==
    /\ conn' = [conn EXCEPT ![s] = "free"]
    /\ cur' = None /\ dialing' = None /\ authenticated' = FALSE
    /\ timer' = Rearmed
    /\ wire' = {m \in wire : m[1] # s}
    /\ UNCHANGED <<shouldReconnect, closes>>
    /\ LET cs == pending IN
        /\ stage' = [c \in DOMAIN stage |-> IF c \in cs THEN Retry(c) ELSE stage[c]]
        /\ outcome' = [c \in Call |-> IF c \in cs /\ attempt[c] = 1 THEN Failed ELSE outcome[c]]
        /\ attempt' = [c \in Call |-> IF c \in cs THEN attempt[c] - 1 ELSE attempt[c]]
        /\ tail' = Released(cs)
        /\ pending' = {}
        \* A promise that can no longer settle: its waiters wait on no socket.
        /\ waitsOn' = [c \in DOMAIN waitsOn |-> IF waitsOn[c] = s THEN None ELSE waitsOn[c]]

\* The handshake that close() began ends.
SocketCloses(s) ==
    /\ conn[s] \in {"closing", "closing unanswered"}
    /\ CloseHandler(s)
    /\ UNCHANGED drops

\* The provider or the network ends the connection.
ConnectionDrops(s) ==
    /\ conn[s] \in {"authed", "refused"} \/ (conn[s] \in {"connecting", "open"} /\ "early" \in Trouble)
    /\ drops < MaxDrops
    /\ drops' = drops + 1
    /\ CloseHandler(s)

-------------------------------------------------------------------------------
(* Messages: handleMessage *)

\* The provider may omit the tag.  An answer without one, or with that of a call no longer
\* pending, goes to a pending call of its type (all calls of the model are of one type); the
\* error that answers a send() goes to the one pending call.
Answer(s, c) ==
    /\ <<s, c>> \in wire
    /\ wire' = wire \ {<<s, c>>}
    /\ IF pending = {}
       THEN UNCHANGED <<stage, outcome, tail, pending>>
       ELSE \E d \in pending :
              /\ outcome' = [outcome EXCEPT ![d] = c]
              /\ stage' = [stage EXCEPT ![d] = "settled"]
              /\ tail' = Released({d})
              /\ pending' = pending \ {d}
    /\ UNCHANGED <<sockets, waitsOn, attempt, drops, closes>>

\* The provider accepts a subscription without a word, or never answers.
Silence(s, c) ==
    /\ <<s, c>> \in wire /\ c \in Sender
    /\ wire' = wire \ {<<s, c>>}
    /\ UNCHANGED <<sockets, tail, stage, waitsOn, attempt, pending, outcome, drops, closes>>

\* A rate-limit message rejects every pending call; the adapter does not retry those.
RateLimited(s) ==
    /\ "limit" \in Trouble
    /\ Open(s) /\ pending # {}
    /\ stage' = [c \in DOMAIN stage |-> IF c \in pending THEN "settled" ELSE stage[c]]
    /\ outcome' = [c \in Call |-> IF c \in pending THEN Failed ELSE outcome[c]]
    /\ tail' = Released(pending)
    /\ pending' = {}
    /\ wire' = {m \in wire : m[2] \notin pending}
    /\ UNCHANGED <<sockets, waitsOn, attempt, drops, closes>>

-------------------------------------------------------------------------------
SocketEvent(s) ==
    \/ SocketOpens(s) \/ AuthSucceeds(s) \/ AuthRefused(s) \/ AuthTimeout(s)
    \/ SocketCloses(s) \/ ConnectionDrops(s) \/ RateLimited(s)

Message(s) == \E c \in Call \union Sender : Answer(s, c) \/ Silence(s, c)

\* Continuations run before the next event of the loop.
ClientNext ==
    \/ \E c \in Call : Turn(c) \/ Discard(c)
    \/ /\ Expired = {}
       /\ \/ \E c \in Call : Enqueue(c) \/ Timeout(c)
          \/ \E c \in Sender : Send(c)
          \/ \E s \in Sock : SocketEvent(s) \/ Message(s)
          \/ CloseCalled \/ TimedReconnect

ClientSpec == ClientInit /\ [][ClientNext]_clientVars

\* Timers fire, a handshake ends and a retry is made; the provider owes nothing.
Fairness ==
    /\ \A c \in Call : WF_clientVars(Turn(c)) /\ WF_clientVars(Discard(c)) /\ WF_clientVars(Timeout(c))
    /\ \A c \in Request : WF_clientVars(attempt[c] < Attempts /\ Enqueue(c))
    /\ \A s \in Sock : WF_clientVars(SocketCloses(s)) /\ WF_clientVars(AuthTimeout(s))
    /\ WF_clientVars(TimedReconnect)

ClientFairSpec == ClientSpec /\ Fairness

-------------------------------------------------------------------------------
(* Properties *)

ConnState == {"free", "connecting", "open", "authed", "refused", "closing", "closing unanswered"}

\* Types of the state (websocket-client.ts:134-149).
ClientTypeOK ==
    /\ conn \in [Sock -> ConnState]
    /\ cur \in Sock \union {None} /\ dialing \in Sock \union {None}
    /\ authenticated \in BOOLEAN /\ shouldReconnect \in BOOLEAN /\ timer \in BOOLEAN
    /\ IsInjective(tail) /\ ToSet(tail) \subseteq Call
    /\ stage \in [Call \union Sender ->
                    {"idle", "queued", "connecting", "sent", "expired", "settled"}]
    /\ waitsOn \in [Call \union Sender -> Sock \union {None}]
    /\ attempt \in [Call -> 0..Attempts]
    /\ pending \subseteq Call
    /\ wire \subseteq Sock \X (Call \union Sender)
    /\ outcome \in [Call -> Call \union Sender \union {None, Failed}]

\* Exactly one response-bearing call is in flight, whatever sockets come and go underneath
\* (websocket-client.ts:197-199).
OneInFlight == Cardinality(pending) <= 1

\* The answer to one request never settles another one, although answers carry no usable tag:
\* one request at a time, and the socket is discarded when it times out
\* (websocket-client.ts:198-199).
NoForeignAnswer == \A c \in Call : outcome[c] \notin Call \ {c}

\* While the client wants a connection and has no socket, a reconnect is on its way.
NeverSilentlyDisconnected == shouldReconnect /\ cur = None => timer \/ dialing # None

\* Every call that takes its place in the queue ends, with an answer, a timeout or a refusal
\* (websocket-client.ts:200-212).
EveryCallSettles == \A c \in Call : (stage[c] = "queued") ~> (stage[c] = "settled")

==============================================================================
