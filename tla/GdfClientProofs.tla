--------------------------- MODULE GdfClientProofs ---------------------------
(***************************************************************************)
(* Proofs about the provider socket of one process, for any number of      *)
(* calls, sockets, attempts and faults of the provider: the types of its   *)
(* state, that at most one response-bearing call is in flight, and that a  *)
(* client that wants a connection has a way to one.                        *)
(***************************************************************************)
EXTENDS GdfClient, SequenceTheorems, FiniteSetTheorems, TLAPS

Stage == {"idle", "queued", "connecting", "sent", "expired", "settled"}

SocketTypes ==
    /\ conn \in [Sock -> ConnState]
    /\ cur \in Sock \union {None} /\ dialing \in Sock \union {None}
    /\ authenticated \in BOOLEAN /\ shouldReconnect \in BOOLEAN /\ timer \in BOOLEAN
    /\ wire \subseteq Sock \X (Call \union Sender)

CallTypes ==
    /\ stage \in [Call \union Sender -> Stage]
    /\ waitsOn \in [Call \union Sender -> Sock \union {None}]
    /\ attempt \in [Call -> 0 .. Attempts]
    /\ outcome \in [Call -> Call \union Sender \union {None, Failed}]

\* Who has an attempt left: every call that has not ended, and more than one if it is to be made
\* again.
AttemptsLeft ==
    \A c \in Call : /\ stage[c] # "settled" => attempt[c] > 0
                    /\ stage[c] = "expired" => attempt[c] > 1

\* The queue holds each call once, and none that has ended its attempt.
Queue ==
    /\ tail \in Seq(Call)
    /\ \A i, k \in DOMAIN tail : tail[i] = tail[k] => i = k
    /\ \A i \in DOMAIN tail : stage[tail[i]] \in {"queued", "connecting", "sent"}

\* Only the call at its head has begun.
Turns ==
    /\ \A c \in Call : stage[c] \in {"connecting", "sent"} => tail # <<>> /\ c = Head(tail)
    /\ pending = {c \in Call : stage[c] = "sent"}

\* A connection attempt is of the socket the client has; without one, a timer is armed.
WayBack ==
    /\ dialing \in {None, cur}
    /\ shouldReconnect /\ cur = None => timer

IInv == SocketTypes /\ CallTypes /\ AttemptsLeft /\ Queue /\ Turns /\ WayBack

CallInv == CallTypes /\ AttemptsLeft /\ Queue /\ Turns

-----------------------------------------------------------------------------
(* The queue of calls *)

\* The head of a queue that holds each call once is not in the rest of it.
LEMMA HeadLeaves ==
    ASSUME Queue, tail # <<>>
    PROVE  /\ Head(tail) = tail[1] /\ 1 \in DOMAIN tail /\ Tail(tail) \in Seq(Call)
           /\ \A i \in DOMAIN Tail(tail) : /\ i + 1 \in DOMAIN tail /\ Tail(tail)[i] = tail[i + 1]
                                           /\ Tail(tail)[i] # Head(tail)
           /\ \A i, k \in DOMAIN Tail(tail) : Tail(tail)[i] = Tail(tail)[k] => i = k
<1>1. tail \in Seq(Call) /\ Len(tail) \in Nat /\ DOMAIN tail = 1 .. Len(tail) /\ Len(tail) > 0
    BY DEF Queue
<1>2. /\ Tail(tail) \in Seq(Call) /\ DOMAIN Tail(tail) = 1 .. (Len(tail) - 1)
      /\ \A i \in 1 .. (Len(tail) - 1) : Tail(tail)[i] = tail[i + 1]
    BY <1>1, HeadTailProperties
<1>3. Head(tail) = tail[1]
    BY <1>1
<1>4. \A i \in DOMAIN Tail(tail) : i + 1 \in DOMAIN tail /\ i + 1 # 1
    BY <1>1, <1>2
<1>5. \A i \in DOMAIN Tail(tail) : Tail(tail)[i] # Head(tail)
    BY <1>1, <1>2, <1>3, <1>4 DEF Queue
<1>6. \A i, k \in DOMAIN Tail(tail) : Tail(tail)[i] = Tail(tail)[k] => i = k
  <2> SUFFICES ASSUME NEW i \in DOMAIN Tail(tail), NEW k \in DOMAIN Tail(tail),
                      Tail(tail)[i] = Tail(tail)[k]
               PROVE  i = k
      OBVIOUS
  <2>1. tail[i + 1] = tail[k + 1] /\ i \in Nat /\ k \in Nat
      BY <1>1, <1>2
  <2>2. i + 1 = k + 1
      BY <1>4, <2>1 DEF Queue
  <2>q. QED
      BY <2>1, <2>2
<1>q. QED
    BY <1>1, <1>2, <1>3, <1>4, <1>5, <1>6

\* When calls that have begun end their attempt, the queue moves on.
LEMMA QueueMovesOn ==
    ASSUME CallInv, NEW cs, \A c \in cs \intersect Call : stage[c] \in {"connecting", "sent"} \/
                                                         (tail # <<>> /\ c = Head(tail)),
           \A c \in Call \ cs : stage'[c] = stage[c],
           \A c \in Call \intersect cs : stage'[c] \in {"idle", "settled", "expired"},
           tail' = Released(cs), pending' = pending \ cs
    PROVE  Queue' /\ Turns'
<1>1. \A c \in cs \intersect Call : tail # <<>> /\ c = Head(tail)
    BY DEF CallInv, Turns
<1>2. CASE tail # <<>> /\ Head(tail) \in cs
  <2>1. tail' = Tail(tail)
      BY <1>2 DEF Released
   <2>2. \A i \in DOMAIN tail' : /\ tail'[i] \in Call \ cs
                                /\ stage[tail'[i]] \in {"queued", "connecting", "sent"}
      BY <1>1, <1>2, <2>1, HeadLeaves DEF CallInv, Queue
  <2>3. Queue'
      BY <1>2, <2>1, <2>2, HeadLeaves DEF CallInv, Queue
  <2>4. Turns'
      BY <1>2 DEF CallInv, Turns
  <2>q. QED
      BY <2>3, <2>4
<1>3. CASE ~(tail # <<>> /\ Head(tail) \in cs)
  <2>1. tail' = tail /\ cs \intersect Call = {}
      BY <1>1, <1>3 DEF Released
  <2>2. \A i \in DOMAIN tail : tail[i] \in Call
      BY DEF CallInv, Queue
  <2>3. Queue'
      BY <2>1, <2>2 DEF CallInv, Queue
  <2>4. Turns'
      BY <2>1 DEF CallInv, Turns
  <2>q. QED
      BY <2>3, <2>4
<1>q. QED
    BY <1>2, <1>3

\* Whoever is answered or given up has begun: calls in flight, and those waiting for a socket.
LEMMA Begun ==
    ASSUME CallInv
    PROVE  /\ \A c \in pending : c \in Call /\ stage[c] = "sent"
           /\ \A s, c : c \in Waiting(s) /\ c \in Call => stage[c] = "connecting"
           /\ \A s : Waiting(s) \subseteq Call \union Sender
BY DEF CallInv, Turns, Waiting

\* Calls whose attempt fails leave the queue in order.
LEMMA FailKeeps ==
    ASSUME CallInv, NEW cs \in SUBSET (Call \union Sender), Fail(cs),
           \A c \in cs \intersect Call : /\ stage[c] \in {"queued", "connecting", "sent"}
                                         /\ tail # <<>> /\ c = Head(tail)
    PROVE  CallInv'
<1>0. CallTypes /\ AttemptsLeft
    BY DEF CallInv
<1>1. \A c \in Call : attempt[c] \in 0 .. Attempts /\ Attempts \in Nat /\ c \notin Sender
    BY <1>0, AttemptsAssumption, CallAssumption DEF CallTypes
<1>2. \A c \in cs \intersect Call : attempt[c] > 0
    BY <1>0 DEF AttemptsLeft
<1>3. attempt' \in [Call -> 0 .. Attempts]
    BY <1>0, <1>1, <1>2 DEF CallTypes, Fail
<1>4. /\ stage' \in [Call \union Sender -> Stage]
      /\ \A c \in Call \ cs : stage'[c] = stage[c] /\ attempt'[c] = attempt[c]
      /\ \A c \in Call \intersect cs : /\ stage'[c] = Retry(c)
                                       /\ attempt'[c] = attempt[c] - 1
    BY <1>0, <1>1 DEF CallTypes, Fail, Stage, Retry
<1>5. /\ waitsOn' \in [Call \union Sender -> Sock \union {None}]
      /\ outcome' \in [Call -> Call \union Sender \union {None, Failed}]
    BY <1>0 DEF CallTypes, Fail
<1>6. AttemptsLeft'
    BY <1>0, <1>1, <1>4 DEF AttemptsLeft, Retry
<1>7. Queue' /\ Turns'
    BY <1>4, QueueMovesOn DEF Fail, Retry
<1>q. QED
    BY <1>3, <1>4, <1>5, <1>6, <1>7 DEF CallInv, CallTypes

\* Calls whose turn it is send on an open socket, or fail.
LEMMA TransmitKeeps ==
    ASSUME CallInv, NEW cs \in SUBSET (Call \union Sender), NEW s, Transmit(cs, s),
           \A c \in cs \intersect Call : /\ stage[c] \in {"queued", "connecting"}
                                         /\ tail # <<>> /\ c = Head(tail)
    PROVE  CallInv'
<1>0. CallTypes /\ AttemptsLeft /\ Queue /\ Turns
    BY DEF CallInv
<1>1. CASE Open(s)
  <2>1. /\ stage' \in [Call \union Sender -> Stage]
        /\ \A c \in Call \ cs : stage'[c] = stage[c]
        /\ \A c \in Call \intersect cs : stage'[c] = "sent"
      BY <1>0, <1>1, CallAssumption DEF CallTypes, Transmit, Stage
  <2>2. waitsOn' \in [Call \union Sender -> Sock \union {None}]
      BY <1>0, <1>1 DEF CallTypes, Transmit
  <2>3. UNCHANGED <<tail, attempt, outcome>> /\ pending' = pending \union (cs \intersect Call)
      BY <1>1 DEF Transmit
  <2>4. AttemptsLeft'
      BY <1>0, <2>1, <2>3 DEF AttemptsLeft
  <2>5. \A i \in DOMAIN tail : tail[i] \in Call
      BY <1>0 DEF Queue
  <2>6. Queue'
      BY <1>0, <2>1, <2>3, <2>5 DEF Queue
  <2>7. Turns'
      BY <1>0, <2>1, <2>3 DEF Turns
  <2>q. QED
      BY <1>0, <2>1, <2>2, <2>3, <2>4, <2>6, <2>7 DEF CallInv, CallTypes
<1>2. CASE ~Open(s)
    BY <1>2, FailKeeps DEF Transmit
<1>q. QED
    BY <1>1, <1>2

\* A call reaches connect() in its turn, or is one of the sends, which take none.
LEMMA ConnectKeeps ==
    ASSUME CallInv, SocketTypes, NEW c \in Call \union Sender, CallConnects(c),
           c \in Call => stage[c] = "queued" /\ tail # <<>> /\ c = Head(tail)
    PROVE  CallInv'
<1>0. CallTypes /\ AttemptsLeft /\ Queue /\ Turns
    BY DEF CallInv
<1>1. ASSUME NEW s, Transmit({c}, s) PROVE CallInv'
    BY <1>1, TransmitKeeps
<1>2. ASSUME Fail({c}) PROVE CallInv'
    BY <1>2, FailKeeps
<1>3. ASSUME NEW s \in Sock, Await(c, s) PROVE CallInv'
  <2>1. /\ stage' \in [Call \union Sender -> Stage] /\ stage'[c] = "connecting"
        /\ \A d \in (Call \union Sender) \ {c} : stage'[d] = stage[d]
      BY <1>0, <1>3 DEF CallTypes, Await, Stage
  <2>2. waitsOn' \in [Call \union Sender -> Sock \union {None}]
      BY <1>0, <1>3 DEF CallTypes, Await
  <2>3. UNCHANGED <<tail, attempt, pending, outcome>>
      BY <1>3 DEF Await
  <2>4. AttemptsLeft'
      BY <1>0, <2>1, <2>3 DEF AttemptsLeft
  <2>5. \A i \in DOMAIN tail : tail[i] \in Call
      BY <1>0 DEF Queue
  <2>6. Queue'
      BY <1>0, <2>1, <2>3, <2>5 DEF Queue
  <2>7. Turns'
      BY <1>0, <2>1, <2>3 DEF Turns
  <2>q. QED
      BY <1>0, <2>1, <2>2, <2>3, <2>4, <2>6, <2>7 DEF CallInv, CallTypes
<1>q. QED
    BY <1>1, <1>2, <1>3 DEF CallConnects, SocketTypes

\* An answered or rejected call leaves the queue for good.
LEMMA SettleKeeps ==
    ASSUME CallInv, NEW cs \in SUBSET pending,
           stage' \in [Call \union Sender -> Stage],
           \A c \in Call \ cs : stage'[c] = stage[c],
           \A c \in cs : stage'[c] = "settled",
           outcome' \in [Call -> Call \union Sender \union {None, Failed}],
           tail' = Released(cs), pending' = pending \ cs, UNCHANGED <<waitsOn, attempt>>
    PROVE  CallInv'
<1>1. \A c \in cs : c \in Call /\ stage[c] = "sent"
    BY Begun
<1>2. Queue' /\ Turns'
    BY <1>1, QueueMovesOn
<1>q. QED
    BY <1>1, <1>2 DEF CallInv, CallTypes, AttemptsLeft

-----------------------------------------------------------------------------
(* Every step keeps the invariant *)

\* The calls move by one action at a time.
LEMMA NextCalls ==
    ASSUME SocketTypes, CallInv, ClientNext PROVE CallInv'
<1>0. CallTypes /\ AttemptsLeft /\ Queue /\ Turns
    BY DEF CallInv
<1>1. ASSUME NEW c \in Call, Turn(c) PROVE CallInv'
    BY <1>1, ConnectKeeps DEF Turn
<1>2. ASSUME NEW c \in Sender, Send(c) PROVE CallInv'
    BY <1>2, ConnectKeeps, CallAssumption DEF Send
<1>3. ASSUME NEW c \in Call, Discard(c) PROVE CallInv'
  <2>1. /\ stage' \in [Call \union Sender -> Stage] /\ stage'[c] = "idle"
        /\ \A d \in Call \ {c} : stage'[d] = stage[d] /\ attempt'[d] = attempt[d]
      BY <1>0, <1>3 DEF CallTypes, Discard, Stage
  <2>2. attempt[c] \in 0 .. Attempts /\ attempt[c] > 1 /\ Attempts \in Nat
      BY <1>0, <1>3, AttemptsAssumption DEF CallTypes, Discard, AttemptsLeft
  <2>3. attempt' \in [Call -> 0 .. Attempts] /\ attempt'[c] = attempt[c] - 1
    <3>1. attempt[c] - 1 \in 0 .. Attempts
        BY <2>2
    <3>q. QED
        BY <1>0, <1>3, <3>1 DEF CallTypes, Discard
  <2>4. UNCHANGED <<tail, waitsOn, pending, outcome>> /\ stage[c] = "expired"
      BY <1>3 DEF Discard
  <2>5. AttemptsLeft'
      BY <1>0, <2>1, <2>2, <2>3 DEF AttemptsLeft
  <2>6. Queue'
      BY <1>0, <2>1, <2>4 DEF Queue
  <2>7. Turns'
      BY <1>0, <2>1, <2>4 DEF Turns
  <2>q. QED
      BY <1>0, <2>1, <2>3, <2>4, <2>5, <2>6, <2>7 DEF CallInv, CallTypes
<1>4. ASSUME NEW c \in Call, Enqueue(c) PROVE CallInv'
  <2>1. /\ stage' \in [Call \union Sender -> Stage] /\ stage'[c] = "queued" /\ stage[c] = "idle"
        /\ \A d \in Call \ {c} : stage'[d] = stage[d]
      BY <1>0, <1>4 DEF CallTypes, Enqueue, Stage
  <2>2. tail' = Append(tail, c) /\ UNCHANGED <<waitsOn, attempt, pending, outcome>>
      BY <1>4 DEF Enqueue
  <2>3. /\ tail' \in Seq(Call) /\ Len(tail) \in Nat
        /\ DOMAIN tail = 1 .. Len(tail) /\ DOMAIN tail' = 1 .. (Len(tail) + 1)
        /\ tail'[Len(tail) + 1] = c
        /\ \A i \in DOMAIN tail : tail'[i] = tail[i] /\ tail[i] \in Call /\ tail[i] # c
    <3>1. tail \in Seq(Call) /\ \A i \in DOMAIN tail : tail[i] # c
        BY <1>0, <2>1 DEF Queue
    <3>q. QED
        BY <2>2, <3>1, AppendProperties
  <2>4. AttemptsLeft'
      BY <1>0, <2>1, <2>2 DEF AttemptsLeft
  <2>5. Queue'
    <3>1. \A i \in DOMAIN tail' : i = Len(tail) + 1 \/ i \in DOMAIN tail
        BY <2>3
    <3>q. QED
        BY <1>0, <2>1, <2>3, <3>1 DEF Queue
  <2>6. tail # <<>> => tail' # <<>> /\ Head(tail') = Head(tail)
    <3>1. tail # <<>> => 1 \in DOMAIN tail
        BY <1>0 DEF Queue
    <3>q. QED
        BY <1>0, <2>3, <3>1 DEF Queue
  <2>7. Turns'
      BY <1>0, <2>1, <2>2, <2>6 DEF Turns
  <2>q. QED
      BY <1>0, <2>1, <2>2, <2>4, <2>5, <2>7 DEF CallInv, CallTypes
<1>5. ASSUME NEW c \in Call, Timeout(c) PROVE CallInv'
  <2>1. stage[c] = "sent" /\ tail # <<>> /\ c = Head(tail)
      BY <1>0, <1>5 DEF Turns, Timeout
  <2>2. CASE Fail({c})
      BY <2>1, <2>2, FailKeeps
  <2>3. CASE c \in History /\ attempt[c] > 1
    <3>1. /\ stage' \in [Call \union Sender -> Stage] /\ stage'[c] = "expired"
          /\ \A d \in Call \ {c} : stage'[d] = stage[d]
        BY <1>0, <1>5, <2>3 DEF CallTypes, Timeout, Stage
    <3>2. /\ tail' = Released({c}) /\ pending' = pending \ {c}
          /\ UNCHANGED <<attempt, outcome, waitsOn>>
        BY <1>5, <2>3 DEF Timeout
    <3>3. Queue' /\ Turns'
        BY <2>1, <3>1, <3>2, QueueMovesOn
    <3>4. AttemptsLeft'
      <4>1. attempt[c] > 0
          BY <1>0, <2>1 DEF AttemptsLeft
      <4>q. QED
          BY <1>0, <2>3, <3>1, <3>2, <4>1 DEF AttemptsLeft
    <3>q. QED
        BY <1>0, <3>1, <3>2, <3>3, <3>4 DEF CallInv, CallTypes
  <2>q. QED
      BY <1>5, <2>2, <2>3 DEF Timeout
<1>6. ASSUME NEW s \in Sock, AuthSucceeds(s) PROVE CallInv'
    BY <1>6, Begun, TransmitKeeps, <1>0 DEF AuthSucceeds, Turns
<1>7. ASSUME NEW s \in Sock, AuthRefused(s) \/ AuthTimeout(s) PROVE CallInv'
    BY <1>7, Begun, FailKeeps, <1>0 DEF AuthRefused, AuthTimeout, Turns
<1>8. ASSUME NEW s \in Sock, SocketCloses(s) \/ ConnectionDrops(s) PROVE CallInv'
  <2>1. CloseHandler(s)
      BY <1>8 DEF SocketCloses, ConnectionDrops
  <2>2. \A c \in Call : attempt[c] \in 0 .. Attempts /\ Attempts \in Nat
      BY <1>0, AttemptsAssumption DEF CallTypes
  <2>3. \A c \in pending : c \in Call /\ stage[c] = "sent" /\ attempt[c] > 0
      BY <1>0, Begun DEF AttemptsLeft
  <2>4. /\ stage' \in [Call \union Sender -> Stage]
        /\ \A c \in Call \ pending : stage'[c] = stage[c] /\ attempt'[c] = attempt[c]
        /\ \A c \in pending : stage'[c] = Retry(c) /\ attempt'[c] = attempt[c] - 1
      BY <1>0, <2>1, <2>3 DEF CallTypes, CloseHandler, Stage, Retry
  <2>5. attempt' \in [Call -> 0 .. Attempts]
    <3>1. \A c \in Call : (IF c \in pending THEN attempt[c] - 1 ELSE attempt[c]) \in 0 .. Attempts
        BY <2>2, <2>3
    <3>q. QED
        BY <2>1, <3>1 DEF CloseHandler
  <2>6. /\ waitsOn' \in [Call \union Sender -> Sock \union {None}]
        /\ outcome' \in [Call -> Call \union Sender \union {None, Failed}]
        /\ tail' = Released(pending) /\ pending' = pending \ pending
      BY <1>0, <2>1 DEF CallTypes, CloseHandler
  <2>7. AttemptsLeft'
      BY <1>0, <2>2, <2>3, <2>4 DEF AttemptsLeft, Retry
  <2>8. Queue' /\ Turns'
      BY <2>3, <2>4, <2>6, QueueMovesOn DEF Retry
  <2>q. QED
      BY <2>4, <2>5, <2>6, <2>7, <2>8 DEF CallInv, CallTypes
<1>9. ASSUME NEW s \in Sock, RateLimited(s) PROVE CallInv'
  <2>1. /\ stage' \in [Call \union Sender -> Stage]
        /\ \A c \in Call \ pending : stage'[c] = stage[c]
        /\ \A c \in pending : stage'[c] = "settled"
      BY <1>0, <1>9, Begun DEF CallTypes, RateLimited, Stage
  <2>2. outcome' \in [Call -> Call \union Sender \union {None, Failed}]
      BY <1>0, <1>9 DEF CallTypes, RateLimited
  <2>3. /\ tail' = Released(pending) /\ pending' = pending \ pending
        /\ UNCHANGED <<waitsOn, attempt>>
      BY <1>9 DEF RateLimited
  <2>q. QED
      BY <2>1, <2>2, <2>3, SettleKeeps
<1>10. ASSUME NEW s \in Sock, NEW c \in Call \union Sender, Answer(s, c) PROVE CallInv'
  <2>1. CASE pending = {}
      BY <1>0, <1>10, <2>1 DEF Answer, CallInv, CallTypes, AttemptsLeft, Queue, Turns
  <2>2. ASSUME NEW d \in pending,
               /\ outcome' = [outcome EXCEPT ![d] = c]
               /\ stage' = [stage EXCEPT ![d] = "settled"]
               /\ tail' = Released({d})
               /\ pending' = pending \ {d}
        PROVE  CallInv'
    <3>1. /\ stage' \in [Call \union Sender -> Stage] /\ stage'[d] = "settled"
          /\ \A e \in Call \ {d} : stage'[e] = stage[e]
        BY <1>0, <2>2, Begun DEF CallTypes, Stage
    <3>2. outcome' \in [Call -> Call \union Sender \union {None, Failed}]
        BY <1>0, <2>2, Begun DEF CallTypes
    <3>3. UNCHANGED <<waitsOn, attempt>>
        BY <1>10 DEF Answer
    <3>q. QED
        BY <2>2, <3>1, <3>2, <3>3, SettleKeeps
  <2>q. QED
      BY <1>10, <2>1, <2>2 DEF Answer
<1>11. ASSUME UNCHANGED <<tail, stage, waitsOn, attempt, pending, outcome>> PROVE CallInv'
    BY <1>11 DEF CallInv, CallTypes, AttemptsLeft, Queue, Turns
<1>q. QED
    BY <1>1, <1>2, <1>3, <1>4, <1>5, <1>6, <1>7, <1>8, <1>9, <1>10, <1>11
       DEF ClientNext, SocketEvent, Message, SocketOpens, Silence, CloseCalled, TimedReconnect,
             callers

\* The answers under way are those of calls that were sent on a socket.
LEMMA NextWire ==
    ASSUME SocketTypes, CallInv, ClientNext PROVE wire' \subseteq Sock \X (Call \union Sender)
<1>0. wire \subseteq Sock \X (Call \union Sender) /\ cur \in Sock \union {None}
    BY DEF SocketTypes
<1>1. ASSUME NEW cs \in SUBSET (Call \union Sender), NEW s \in Sock \union {None}, Transmit(cs, s)
      PROVE  wire' \subseteq Sock \X (Call \union Sender)
    BY <1>0, <1>1 DEF Transmit, Open
<1>2. ASSUME NEW c \in Call \union Sender, CallConnects(c)
      PROVE  wire' \subseteq Sock \X (Call \union Sender)
    BY <1>0, <1>1, <1>2 DEF CallConnects, Await
<1>3. ASSUME NEW s \in Sock, AuthSucceeds(s) PROVE wire' \subseteq Sock \X (Call \union Sender)
    BY <1>0, <1>1, <1>3, Begun DEF AuthSucceeds
<1>4. CASE wire' \subseteq wire
    BY <1>0, <1>4
<1>q. QED
    BY <1>2, <1>3, <1>4
       DEF ClientNext, SocketEvent, Message, Turn, Discard, Enqueue, Timeout, Send, SocketOpens,
           AuthRefused, AuthTimeout, SocketCloses, ConnectionDrops, CloseHandler, RateLimited,
           Answer, Silence, CloseCalled, TimedReconnect, callers

\* The client's socket is the one it is connecting, if it is connecting one.
LEMMA NextSockets ==
    ASSUME SocketTypes, WayBack, CallInv, ClientNext PROVE SocketTypes' /\ WayBack'
<1>0. /\ conn \in [Sock -> ConnState]
      /\ cur \in Sock \union {None} /\ dialing \in Sock \union {None}
      /\ authenticated \in BOOLEAN /\ shouldReconnect \in BOOLEAN /\ timer \in BOOLEAN
      /\ None \notin Sock
    BY CallAssumption DEF SocketTypes
<1> DEFINE Sound ==
               /\ conn' \in [Sock -> ConnState]
               /\ cur' \in Sock \union {None} /\ dialing' \in Sock \union {None}
               /\ authenticated' \in BOOLEAN /\ shouldReconnect' \in BOOLEAN /\ timer' \in BOOLEAN
               /\ dialing' \in {None, cur'}
               /\ shouldReconnect' /\ cur' = None => timer'
<1>1. ASSUME UNCHANGED sockets PROVE Sound
    BY <1>0, <1>1 DEF sockets, WayBack
<1>2. ASSUME NEW s \in Sock, Dial(s) PROVE Sound
    BY <1>0, <1>2 DEF Dial, ConnState
<1>3. ASSUME NEW c \in Call \union Sender, CallConnects(c) PROVE Sound
    BY <1>1, <1>2, <1>3 DEF CallConnects
<1>4. ASSUME HangUp PROVE Sound
    BY <1>0, <1>4 DEF HangUp, ConnState
<1>5. ASSUME TimedReconnect PROVE Sound
    BY <1>0, <1>5 DEF TimedReconnect, WayBack, Ready, Open, ConnState
<1>6. ASSUME NEW s \in Sock, SocketOpens(s) \/ AuthSucceeds(s) \/ AuthRefused(s) \/ AuthTimeout(s)
      PROVE  Sound
  <2>1. conn' \in [Sock -> ConnState]
      BY <1>0, <1>6 DEF SocketOpens, AuthSucceeds, AuthRefused, AuthTimeout, ConnState
  <2>2. /\ cur' = cur /\ dialing' \in {None, dialing} /\ shouldReconnect' = shouldReconnect
        /\ timer' = timer /\ (authenticated' = TRUE \/ authenticated' = authenticated)
      BY <1>6 DEF SocketOpens, AuthSucceeds, AuthRefused, AuthTimeout
  <2>q. QED
      BY <1>0, <2>1, <2>2 DEF WayBack
<1>7. ASSUME NEW s \in Sock, SocketCloses(s) \/ ConnectionDrops(s) PROVE Sound
  <2>1. conn' \in [Sock -> ConnState]
      BY <1>0, <1>7 DEF SocketCloses, ConnectionDrops, CloseHandler, ConnState
  <2>2. /\ cur' = None /\ dialing' = None /\ authenticated' = FALSE
        /\ shouldReconnect' = shouldReconnect /\ timer' = (timer \/ shouldReconnect)
      BY <1>7 DEF SocketCloses, ConnectionDrops, CloseHandler, Rearmed
  <2>q. QED
      BY <1>0, <2>1, <2>2
<1>8. Sound
    BY <1>1, <1>3, <1>4, <1>5, <1>6, <1>7
       DEF ClientNext, SocketEvent, Message, Turn, Discard, Enqueue, Timeout, Send, RateLimited,
           Answer, Silence, CloseCalled
<1>q. QED
    BY <1>8, NextWire DEF SocketTypes, WayBack

\* The initial state.
LEMMA InitIInv == ClientInit => IInv
<1> SUFFICES ASSUME ClientInit PROVE IInv
    OBVIOUS
<1>1. SocketTypes /\ WayBack
    BY DEF ClientInit, SocketTypes, WayBack, ConnState
<1>2. CallTypes
    BY AttemptsAssumption DEF ClientInit, CallTypes, Stage
<1>3. AttemptsLeft
    BY AttemptsAssumption DEF ClientInit, AttemptsLeft
<1>4. Queue /\ Turns
    BY DEF ClientInit, Queue, Turns
<1>q. QED
    BY <1>1, <1>2, <1>3, <1>4 DEF IInv

-----------------------------------------------------------------------------
(* The theorems *)

\* The invariant holds in every state, whether or not the environment is fair.
LEMMA Inductive == ClientSpec => []IInv
<1>1. IInv /\ [ClientNext]_clientVars => IInv'
  <2>1. IInv /\ ClientNext => IInv'
      BY NextSockets, NextCalls DEF IInv, CallInv
  <2>2. IInv /\ UNCHANGED clientVars => IInv'
      BY DEF clientVars, sockets, callers, IInv, SocketTypes, CallTypes, AttemptsLeft, Queue, Turns,
             WayBack
  <2>q. QED
      BY <2>1, <2>2
<1>q. QED
    BY <1>1, InitIInv, PTL DEF ClientSpec

\* Sockets, calls and the provider's debts keep their types, whatever the provider does and
\* however often sockets are closed.
THEOREM ClientTypesHold == ClientSpec => []ClientTypeOK
<1>1. IInv => ClientTypeOK
  <2> SUFFICES ASSUME IInv PROVE ClientTypeOK
      OBVIOUS
  <2>1. IsInjective(tail) /\ ToSet(tail) \subseteq Call /\ pending \subseteq Call
      BY DEF IInv, Queue, Turns, IsInjective, ToSet
  <2>q. QED
      BY <2>1 DEF IInv, SocketTypes, CallTypes, Stage, ClientTypeOK
<1>q. QED
    BY <1>1, Inductive, PTL

\* At most one response-bearing call is in flight, whatever sockets come and go underneath and
\* however calls fail: only the head of the queue has begun.
THEOREM TurnsExclude == ClientSpec => []OneInFlight
<1>1. IInv => OneInFlight
  <2> SUFFICES ASSUME IInv PROVE OneInFlight
      OBVIOUS
  <2>1. pending = {} \/ pending = {Head(tail)}
      BY DEF IInv, Turns
  <2>2. Cardinality(pending) = 0 \/ Cardinality(pending) = 1
      BY <2>1, FS_EmptySet, FS_Singleton
  <2>q. QED
      BY <2>2 DEF OneInFlight
<1>q. QED
    BY <1>1, Inductive, PTL

\* While the client wants a connection and has no socket, the timer of a reconnect is armed.
THEOREM WayBackStands == ClientSpec => []NeverSilentlyDisconnected
<1>1. IInv => NeverSilentlyDisconnected
    BY DEF IInv, WayBack, NeverSilentlyDisconnected
<1>q. QED
    BY <1>1, Inductive, PTL
=============================================================================
