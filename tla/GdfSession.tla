------------------------------ MODULE GdfSession ------------------------------
(***************************************************************************)
(* The GlobalDataFeeds session broker (global-datafeeds.session-broker.ts):*)
(* the provider accepts one session per API key, so the worker processes   *)
(* compete for a Redis lease, the winner opens the socket, and every other *)
(* process sends its requests to the winner over Redis publish/subscribe.  *)
(*                                                                         *)
(* One unit of time is a renewal interval (GDF_LEASE_RENEW_INTERVAL_MS,    *)
(* 5 s), so the 15 s lease of the code is LeaseTtl = 3.  A command is      *)
(* executed by Redis at one moment and its reply is handled by the process *)
(* at a later one: every await of the broker is a separate action here.    *)
(***************************************************************************)
EXTENDS Naturals, FiniteSets

CONSTANTS
    Candidate,      \* processes started with role "owner-candidate": workers
    Proxy,          \* processes started with role "proxy": API servers
    LeaseTtl,       \* GDF_LEASE_TTL_SECONDS in renewal intervals
    MaxLate,        \* bound: most intervals an owner goes without a renewal
    Faults,         \* the faults that may happen: "crash", "stop", "subscribe"
    MaxFaults,      \* bound: how many of them
    Caller,         \* processes whose own code makes provider requests
    Asker,          \* processes that make requests over Redis, one at a time (bound)
    NoOwner         \* the lease key does not exist

Process == Candidate \union Proxy

\* An instance of p that has ended and may still hold the lease: a restarted process has a
\* new instance id.
Dead(p) == <<"dead", p>>

ASSUME TtlAssumption == LeaseTtl \in Nat \ {0}
ASSUME LateAssumption == MaxLate \in Nat
ASSUME FaultAssumption == MaxFaults \in Nat
ASSUME RoleAssumption == Candidate \intersect Proxy = {}
ASSUME MarkerAssumption ==
    \A p \in Process : p # NoOwner /\ Dead(p) # NoOwner /\ \A q \in Process : Dead(p) # q

VARIABLES
    holder,     \* value of the Redis key gdf:session:owner
    ttl,        \* intervals until that key expires
    phase,      \* how far start() or stop() of each process has come
    owner,      \* this.owner
    granted,    \* Redis has answered OK to a SET NX whose reply is still to be handled
    lost,       \* Redis has answered 0 to a renewal whose reply is still to be handled
    promo,      \* the await at which becomeOwner is suspended
    channels,   \* the broker's Redis subscriptions
    listening,  \* detachOwnerListeners is not empty
    late,       \* intervals since Redis last granted or renewed the process's lease
    waited,     \* intervals start() has waited for a predecessor's lease
    remote,     \* client.remoteTransport is set
    admitted,   \* a local request is past the transport check and has not connected yet
    socket,     \* the client's socket
    rearm,      \* the client's reconnect timer is armed
    rpc,        \* state of the process's remote request
    bus,        \* <<to, from>>: request messages on their way
    serving,    \* <<by, for>>: requests being executed for another process
    faultsLeft

lease  == <<holder, ttl, late>>
broker == <<phase, owner, granted, lost, promo, channels, listening, waited>>
client == <<remote, admitted, socket, rearm>>
calls  == <<rpc, bus, serving>>
vars   == <<lease, broker, client, calls, faultsLeft>>

Phase  == {"down", "starting", "electing", "running", "failed", "stopping", "stopped"}
Up     == {"starting", "electing", "running", "failed", "stopping", "stopped"}
\* setStartupGate: requests wait until start() has settled.
GateOpen(p) == phase[p] \in {"running", "failed", "stopping", "stopped"}

-------------------------------------------------------------------------------
Init ==
    /\ holder = NoOwner
    /\ ttl = 0
    /\ late = [p \in Process |-> 0]
    /\ phase = [p \in Process |-> "down"]
    /\ owner = [p \in Process |-> FALSE]
    /\ granted = [p \in Process |-> FALSE]
    /\ lost = [p \in Process |-> FALSE]
    /\ promo = [p \in Process |-> "none"]
    /\ channels = [p \in Process |-> {}]
    /\ listening = [p \in Process |-> FALSE]
    /\ waited = [p \in Process |-> 0]
    /\ remote = [p \in Process |-> FALSE]
    /\ admitted = [p \in Process |-> FALSE]
    /\ socket = [p \in Process |-> "none"]
    /\ rearm = [p \in Process |-> FALSE]
    /\ rpc = [p \in Process |-> "idle"]
    /\ bus = {}
    /\ serving = {}
    /\ faultsLeft = MaxFaults

Fault(kind) ==
    /\ kind \in Faults
    /\ faultsLeft > 0
    /\ faultsLeft' = faultsLeft - 1

-------------------------------------------------------------------------------
(* start() *)

\* startGdfSessionBroker: the startup gate is set before start() first awaits.
Boot(p) ==
    /\ phase[p] = "down"
    /\ phase' = [phase EXCEPT ![p] = "starting"]
    /\ UNCHANGED <<lease, owner, granted, lost, promo, channels, listening, waited,
                   client, calls, faultsLeft>>

\* The response channel is subscribed: becomeProxy, and a proxy is done.
StartSubscribed(p) ==
    /\ phase[p] = "starting"
    /\ phase' = [phase EXCEPT ![p] = IF p \in Candidate THEN "electing" ELSE "running"]
    /\ remote' = [remote EXCEPT ![p] = TRUE]
    /\ channels' = [channels EXCEPT ![p] = {"quotes"}]
    /\ UNCHANGED <<lease, owner, granted, lost, promo, listening, waited,
                   admitted, socket, rearm, calls, faultsLeft>>

\* start() rejects: a proxy gets the transport that always fails, a candidate a direct socket.
StartFails(p) ==
    /\ phase[p] = "starting"
    /\ Fault("subscribe")
    /\ phase' = [phase EXCEPT ![p] = "failed"]
    /\ remote' = [remote EXCEPT ![p] = p \in Proxy]
    /\ UNCHANGED <<lease, owner, granted, lost, promo, channels, listening, waited,
                   admitted, socket, rearm, calls>>

\* Mutant: start() gives up an interval before the predecessor's lease runs out.
ElectionEndsEarly(p) ==
    /\ phase[p] = "electing"
    /\ ~granted[p] /\ promo[p] = "none"
    /\ owner[p] \/ (waited[p] >= LeaseTtl - 1 /\ holder # NoOwner)
    /\ phase' = [phase EXCEPT ![p] = "running"]
    /\ waited' = [waited EXCEPT ![p] = 0]
    /\ UNCHANGED <<lease, owner, granted, lost, promo, channels, listening,
                   client, calls, faultsLeft>>

\* The wait for the lease ends once it is won, or when the attempt after one TTL and a
\* second fails too.
ElectionEnds(p) ==
    /\ phase[p] = "electing"
    /\ ~granted[p] /\ promo[p] = "none"
    /\ owner[p] \/ (waited[p] >= LeaseTtl /\ holder # NoOwner)
    /\ phase' = [phase EXCEPT ![p] = "running"]
    /\ waited' = [waited EXCEPT ![p] = 0]
    /\ UNCHANGED <<lease, owner, granted, lost, promo, channels, listening,
                   client, calls, faultsLeft>>

-------------------------------------------------------------------------------
(* tryLease, becomeOwner, becomeProxy *)

Granted(p) ==
    /\ ~owner[p] /\ ~granted[p] /\ promo[p] = "none"
    /\ holder' = p
    /\ late' = [late EXCEPT ![p] = 0]
    /\ granted' = [granted EXCEPT ![p] = TRUE]
    /\ UNCHANGED <<phase, owner, lost, promo, channels, listening, waited,
                   client, calls, faultsLeft>>

\* Mutants: every role competes; SET without NX; EX in units of one renewal interval.
AcquireByAnyRole(p) == phase[p] = "running" /\ holder = NoOwner /\ ttl' = LeaseTtl /\ Granted(p)
AcquireByForce(p) ==
    p \in Candidate /\ phase[p] \in {"electing", "running"} /\ ttl' = LeaseTtl /\ Granted(p)
AcquireBriefly(p) ==
    /\ p \in Candidate /\ phase[p] \in {"electing", "running"}
    /\ holder = NoOwner /\ ttl' = 1 /\ Granted(p)

\* SET owner NX EX, while not the owner.  One promotion at a time (bound).
Acquire(p) ==
    /\ p \in Candidate
    /\ phase[p] \in {"electing", "running"}
    /\ holder = NoOwner
    /\ ttl' = LeaseTtl
    /\ Granted(p)

\* becomeOwner up to its first await.  The reply is handled even if stop() ran meanwhile.
BecomeOwner(p) ==
    /\ granted[p]
    /\ granted' = [granted EXCEPT ![p] = FALSE]
    /\ owner' = [owner EXCEPT ![p] = TRUE]
    /\ remote' = [remote EXCEPT ![p] = FALSE]
    /\ channels' = [channels EXCEPT ![p] = @ \ {"quotes"}]
    /\ promo' = [promo EXCEPT ![p] = "unsubscribing"]
    /\ UNCHANGED <<lease, phase, lost, listening, waited, admitted, socket, rearm,
                   calls, faultsLeft>>

\* Mutant: the request channel is not subscribed.
PromotionSkipsChannel(p) ==
    /\ promo[p] = "unsubscribing"
    /\ phase[p] \in {"electing", "running"}
    /\ promo' = [promo EXCEPT ![p] = "subscribing"]
    /\ UNCHANGED <<lease, phase, owner, granted, lost, channels, listening, waited,
                   client, calls, faultsLeft>>

\* The second await of becomeOwner: subscribe(REQUEST_CHANNEL) is issued.
PromotionSubscribes(p) ==
    /\ promo[p] = "unsubscribing"
    /\ phase[p] \in {"electing", "running"}
    /\ promo' = [promo EXCEPT ![p] = "subscribing"]
    /\ channels' = [channels EXCEPT ![p] = @ \union {"request"}]
    /\ UNCHANGED <<lease, phase, owner, granted, lost, listening, waited,
                   client, calls, faultsLeft>>

\* The end of becomeOwner: the owner's quote and status listeners are attached.
PromotionAttaches(p) ==
    /\ promo[p] = "subscribing"
    /\ promo' = [promo EXCEPT ![p] = "none"]
    /\ listening' = [listening EXCEPT ![p] = TRUE]
    /\ UNCHANGED <<lease, phase, owner, granted, lost, channels, waited,
                   client, calls, faultsLeft>>

\* subscribe(REQUEST_CHANNEL) rejects: tryLease logs it and this.owner stays set.
PromotionAbandoned(p) ==
    /\ promo' = [promo EXCEPT ![p] = "none"]
    /\ channels' = [channels EXCEPT ![p] = @ \ {"request"}]
    /\ UNCHANGED <<lease, phase, owner, granted, lost, listening, waited, client, calls>>

PromotionFails(p) ==
    \/ promo[p] = "subscribing" /\ Fault("subscribe") /\ PromotionAbandoned(p)
    \/ /\ promo[p] = "unsubscribing" /\ phase[p] = "stopped"
       /\ faultsLeft' = faultsLeft
       /\ PromotionAbandoned(p)

\* Mutant: the script compares and forgets to extend the expiry.
RenewWithoutExpire(p) ==
    /\ phase[p] = "running" /\ owner[p] /\ ~lost[p]
    /\ holder = p
    /\ late' = [late EXCEPT ![p] = 0]
    /\ UNCHANGED <<holder, ttl, broker, client, calls, faultsLeft>>

\* RENEW_SCRIPT succeeds: the key still holds this instance.
Renew(p) ==
    /\ phase[p] = "running" /\ owner[p] /\ ~lost[p]
    /\ holder = p
    /\ ttl' = LeaseTtl
    /\ late' = [late EXCEPT ![p] = 0]
    /\ UNCHANGED <<holder, broker, client, calls, faultsLeft>>

\* RENEW_SCRIPT answers 0: the key expired, and may already name another instance.
RenewRefused(p) ==
    /\ phase[p] = "running" /\ owner[p] /\ ~lost[p]
    /\ holder # p
    /\ lost' = [lost EXCEPT ![p] = TRUE]
    /\ UNCHANGED <<lease, phase, owner, granted, promo, channels, listening, waited,
                   client, calls, faultsLeft>>

\* Mutant: the refusal is handled, and this.owner stays set.
BecomeProxyInName(p) ==
    /\ lost[p]
    /\ lost' = [lost EXCEPT ![p] = FALSE]
    /\ remote' = [remote EXCEPT ![p] = TRUE]
    /\ UNCHANGED <<lease, phase, owner, granted, promo, channels, listening, waited,
                   admitted, socket, rearm, calls, faultsLeft>>

\* becomeProxy of a process that was the owner: client.close() gives the session back.
BecomeProxy(p) ==
    /\ lost[p]
    /\ lost' = [lost EXCEPT ![p] = FALSE]
    /\ owner' = [owner EXCEPT ![p] = FALSE]
    /\ listening' = [listening EXCEPT ![p] = FALSE]
    /\ socket' = [socket EXCEPT ![p] = IF owner[p] THEN "none" ELSE @]
    /\ rearm' = [rearm EXCEPT ![p] = IF owner[p] THEN FALSE ELSE @]
    /\ remote' = [remote EXCEPT ![p] = TRUE]
    /\ channels' = [channels EXCEPT ![p] = IF phase[p] = "stopped" THEN {} ELSE {"quotes"}]
    /\ UNCHANGED <<lease, phase, granted, promo, waited, admitted, calls, faultsLeft>>

\* Time: the key expires by itself.  An owner renews before MaxLate + 1 intervals pass.
Tick ==
    /\ \A p \in Process : (owner[p] \/ granted[p]) /\ phase[p] \in {"electing", "running"}
                             => late[p] < MaxLate
    /\ ttl' = IF ttl = 0 THEN 0 ELSE ttl - 1
    /\ holder' = IF ttl <= 1 THEN NoOwner ELSE holder
    /\ late' = [p \in Process |-> IF owner[p] \/ granted[p]
                                    THEN IF late[p] < MaxLate THEN late[p] + 1 ELSE late[p]
                                    ELSE 0]
    /\ waited' = [p \in Process |-> IF phase[p] = "electing" /\ waited[p] < LeaseTtl
                                      THEN waited[p] + 1 ELSE waited[p]]
    /\ UNCHANGED <<phase, owner, granted, lost, promo, channels, listening,
                   client, calls, faultsLeft>>

-------------------------------------------------------------------------------
(* stop(), process exit and crash *)

\* stop() up to its first await: the release script has run at Redis, its reply has not come.
StopBegin(p) ==
    /\ phase[p] \in {"electing", "running"}
    /\ Fault("stop")
    /\ phase' = [phase EXCEPT ![p] = "stopping"]
    /\ waited' = [waited EXCEPT ![p] = 0]
    /\ holder' = IF owner[p] /\ holder = p THEN NoOwner ELSE holder
    /\ ttl' = IF owner[p] /\ holder = p THEN 0 ELSE ttl
    /\ UNCHANGED <<late, owner, granted, lost, promo, channels, listening, client, calls>>

\* The rest of stop(): pending requests are forgotten, the provider socket is not closed.
StopFinish(p) ==
    /\ phase[p] = "stopping"
    /\ phase' = [phase EXCEPT ![p] = "stopped"]
    /\ owner' = [owner EXCEPT ![p] = FALSE]
    /\ listening' = [listening EXCEPT ![p] = FALSE]
    /\ remote' = [remote EXCEPT ![p] = FALSE]
    /\ channels' = [channels EXCEPT ![p] = {}]
    /\ rpc' = [rpc EXCEPT ![p] = "idle"]
    /\ UNCHANGED <<lease, granted, lost, promo, waited, admitted, socket, rearm,
                   bus, serving, faultsLeft>>

\* The process ends: its memory, its subscriptions and, by the system, its socket go.
Vanish(p) ==
    /\ phase' = [phase EXCEPT ![p] = "down"]
    /\ owner' = [owner EXCEPT ![p] = FALSE]
    /\ granted' = [granted EXCEPT ![p] = FALSE]
    /\ lost' = [lost EXCEPT ![p] = FALSE]
    /\ promo' = [promo EXCEPT ![p] = "none"]
    /\ channels' = [channels EXCEPT ![p] = {}]
    /\ listening' = [listening EXCEPT ![p] = FALSE]
    /\ waited' = [waited EXCEPT ![p] = 0]
    /\ remote' = [remote EXCEPT ![p] = FALSE]
    /\ admitted' = [admitted EXCEPT ![p] = FALSE]
    /\ socket' = [socket EXCEPT ![p] = "none"]
    /\ rearm' = [rearm EXCEPT ![p] = FALSE]
    /\ rpc' = [rpc EXCEPT ![p] = "idle"]
    /\ bus' = {m \in bus : m[1] # p}
    /\ serving' = {m \in serving : m[1] # p}
    /\ late' = [late EXCEPT ![p] = 0]
    /\ holder' = IF holder = p THEN Dead(p) ELSE holder
    /\ ttl' = ttl

Exit(p) ==
    /\ phase[p] = "stopped"
    /\ Vanish(p)
    /\ UNCHANGED faultsLeft

Crash(p) ==
    /\ phase[p] # "down"
    /\ Fault("crash")
    /\ Vanish(p)

-------------------------------------------------------------------------------
(* The client of each process: global-datafeeds.websocket-client.ts *)

Admits(p) ==
    /\ p \in Caller \/ \E r \in Process : <<p, r>> \in serving
    /\ ~admitted[p] /\ socket[p] # "session"
    /\ admitted' = [admitted EXCEPT ![p] = TRUE]
    /\ UNCHANGED <<lease, broker, remote, socket, rearm, calls, faultsLeft>>

\* Mutants: the startup gate is not awaited; the remote transport is ignored.
RequestBeforeGate(p) == phase[p] # "down" /\ ~remote[p] /\ Admits(p)
RequestIgnoresTransport(p) == GateOpen(p) /\ Admits(p)

\* request() or send() of the process's own code, or of serve(), chooses the local socket.
LocalRequest(p) ==
    /\ GateOpen(p)
    /\ ~remote[p]
    /\ Admits(p)

SessionInUse(p) == \E q \in Process \ {p} : socket[q] = "session"

\* The provider gives the session to the first socket and refuses any other.
Opens(p) == socket' = [socket EXCEPT ![p] = IF SessionInUse(p) THEN "refused" ELSE "session"]

\* After the queue and the pacing delay the request connects without looking at the transport again.
Connect(p) ==
    /\ admitted[p]
    /\ admitted' = [admitted EXCEPT ![p] = FALSE]
    /\ Opens(p)
    /\ UNCHANGED <<lease, broker, remote, rearm, calls, faultsLeft>>

\* The provider or the network closes the socket: the close handler arms the timer.
SocketDrops(p) ==
    /\ socket[p] # "none"
    /\ socket' = [socket EXCEPT ![p] = "none"]
    /\ rearm' = [rearm EXCEPT ![p] = TRUE]
    /\ UNCHANGED <<lease, broker, remote, admitted, calls, faultsLeft>>

Reconnect(p) ==
    /\ rearm[p]
    /\ rearm' = [rearm EXCEPT ![p] = FALSE]
    /\ IF socket[p] = "session" THEN UNCHANGED socket ELSE Opens(p)
    /\ UNCHANGED <<lease, broker, remote, admitted, calls, faultsLeft>>

-------------------------------------------------------------------------------
(* Requests over Redis *)

\* rpc() finds an owner's key (assertOwnerPresent); without one the request fails at once.
RpcAsk(p) ==
    /\ p \in Asker
    /\ GateOpen(p) /\ remote[p] /\ phase[p] = "running" /\ rpc[p] = "idle"
    /\ \A m \in bus \union serving : m[2] # p
    /\ holder # NoOwner
    /\ rpc' = [rpc EXCEPT ![p] = "asked"]
    /\ UNCHANGED <<lease, broker, client, bus, serving, faultsLeft>>

\* PUBLISH reaches the processes subscribed at that moment.
RpcPublish(p) ==
    /\ rpc[p] = "asked"
    /\ rpc' = [rpc EXCEPT ![p] = "waiting"]
    /\ bus' = bus \union {<<q, p>> : q \in {q \in Process : "request" \in channels[q]}}
    /\ UNCHANGED <<lease, broker, client, serving, faultsLeft>>

\* onMessage: the owner serves the request, a former owner ignores it.
Deliver(q, p) ==
    /\ <<q, p>> \in bus
    /\ bus' = bus \ {<<q, p>>}
    /\ serving' = IF owner[q] THEN serving \union {<<q, p>>} ELSE serving
    /\ UNCHANGED <<lease, broker, client, rpc, faultsLeft>>

\* serve() publishes its reply; a reply whose request has timed out finds no pending entry.
ServeDone(q, p) ==
    /\ <<q, p>> \in serving
    /\ GateOpen(q)
    /\ serving' = serving \ {<<q, p>>}
    /\ rpc' = [rpc EXCEPT ![p] = IF @ = "waiting" THEN "idle" ELSE @]
    /\ UNCHANGED <<lease, broker, client, bus, faultsLeft>>

RpcTimeout(p) ==
    /\ rpc[p] = "waiting"
    /\ rpc' = [rpc EXCEPT ![p] = "idle"]
    /\ UNCHANGED <<lease, broker, client, bus, serving, faultsLeft>>

-------------------------------------------------------------------------------
Lifecycle(p) == Boot(p) \/ StartSubscribed(p) \/ StartFails(p) \/ ElectionEnds(p)
                \/ StopBegin(p) \/ StopFinish(p) \/ Exit(p) \/ Crash(p)

Leadership(p) == Acquire(p) \/ BecomeOwner(p) \/ PromotionSubscribes(p) \/ PromotionAttaches(p)
                 \/ PromotionFails(p) \/ Renew(p) \/ RenewRefused(p) \/ BecomeProxy(p)

ClientStep(p) == LocalRequest(p) \/ Connect(p) \/ SocketDrops(p) \/ Reconnect(p)

RpcStep(p) == \/ RpcAsk(p) \/ RpcPublish(p) \/ RpcTimeout(p)
              \/ \E q \in Process : Deliver(q, p) \/ ServeDone(q, p)

Next == Tick \/ \E p \in Process : Lifecycle(p) \/ Leadership(p) \/ ClientStep(p) \/ RpcStep(p)

Spec == Init /\ [][Next]_vars

\* Timers fire, awaited commands answer and a supervisor restarts a process that has ended.
\* Nothing obliges a fault, a request or a dropped socket to happen.
GoesOn ==
    /\ WF_vars(Tick)
    /\ \A p \in Process :
        /\ WF_vars(StartSubscribed(p)) /\ WF_vars(ElectionEnds(p))
        /\ WF_vars(StopFinish(p)) /\ WF_vars(Exit(p))
        /\ WF_vars(Acquire(p)) /\ WF_vars(BecomeOwner(p)) /\ WF_vars(PromotionSubscribes(p))
        /\ WF_vars(PromotionAttaches(p)) /\ WF_vars(PromotionFails(p)) /\ WF_vars(Renew(p))
        /\ WF_vars(RenewRefused(p)) /\ WF_vars(BecomeProxy(p))

FairSpec == Spec /\ GoesOn /\ \A p \in Process : WF_vars(Boot(p))

-------------------------------------------------------------------------------
(* Properties *)

\* Types of the state, and that nobody but candidates is ever elected (session-broker.ts:107-211).
TypeOK ==
    /\ holder \in Process \union {Dead(p) : p \in Process} \union {NoOwner}
    /\ ttl \in 0..LeaseTtl
    /\ late \in [Process -> 0..MaxLate]
    /\ phase \in [Process -> Phase]
    /\ owner \in [Process -> BOOLEAN]
    /\ granted \in [Process -> BOOLEAN]
    /\ lost \in [Process -> BOOLEAN]
    /\ promo \in [Process -> {"none", "unsubscribing", "subscribing"}]
    /\ channels \in [Process -> SUBSET {"quotes", "request"}]
    /\ listening \in [Process -> BOOLEAN]
    /\ waited \in [Process -> 0..LeaseTtl]
    /\ remote \in [Process -> BOOLEAN]
    /\ admitted \in [Process -> BOOLEAN]
    /\ socket \in [Process -> {"none", "session", "refused"}]
    /\ rearm \in [Process -> BOOLEAN]
    /\ rpc \in [Process -> {"idle", "asked", "waiting"}]
    /\ bus \subseteq Process \X Process
    /\ serving \subseteq Process \X Process
    /\ faultsLeft \in 0..MaxFaults
    /\ \A p \in Proxy : ~owner[p] /\ ~granted[p]

\* A process that acts as the owner and has not begun to stop.
Reigns(p) == owner[p] /\ phase[p] \in {"electing", "running"}

\* The broker makes exactly one process the session owner (session-broker.ts:16-22).
AtMostOneOwner == \A p, q \in Process : Reigns(p) /\ Reigns(q) => p = q

\* Ownership, seen from outside, is a lock: it changes hands only through nobody
\* (SET NX, the compare-and-expire and the compare-and-delete scripts together).
Reigning == {p \in Process : Reigns(p)}
Right == IF Reigning = {} THEN NoOwner ELSE CHOOSE p \in Reigning : TRUE
Lock == INSTANCE SessionLock WITH Nobody <- NoOwner, right <- Right
ImplementsLock == Lock!Spec

\* start() waits one TTL and a second, so a worker never begins its jobs as a proxy of its own
\* dead predecessor, which nothing would then serve (session-broker.ts:127-134).
ElectionOutlivesDeadOwner ==
    [][\A p \in Candidate : ElectionEnds(p) /\ ~owner[p] => holder # Dead(p)]_vars

\* A running process opens the provider socket only while it is the owner: the startup gate
\* and the transport check keep everybody else off it (websocket-client.ts:151-153, 192-194).
OnlyOwnerOpensSocket ==
    [][\A p \in Process : phase[p] \in {"starting", "electing", "running"}
            /\ socket[p] # socket'[p] /\ socket'[p] # "none" => owner[p]]_vars

\* A process left to itself: start() failed and the client dials directly, or stop() has begun
\* and nothing closes the client's socket.
Unbrokered(p) == phase[p] \in {"failed", "stopping", "stopped"}

\* A socket of this program is refused for the sake of another one of it only through a process
\* whose broker has failed to start or is stopping; the others never contend for the key's
\* session (session-broker.ts:16-22).
RefusedOnlyByUnbrokered ==
    [][\A p \in Process : socket[p] # "refused" /\ socket'[p] = "refused" =>
            Unbrokered(p) \/ \E q \in Process : socket[q] = "session" /\ Unbrokered(q)]_vars

\* A request sent over Redis is executed by one process: the second one to take it up, if any,
\* does so because the first is stopping and its subscription outlives its lease.
ExecutedOnce ==
    \A m, n \in serving : m[2] = n[2] /\ m # n => Unbrokered(m[1]) \/ Unbrokered(n[1])

\* An owner whose lease is gone learns it and steps down (session-broker.ts:163-172).
StaleOwnerStepsDown ==
    \A p \in Process : Reigns(p) /\ holder # p ~> ~Reigns(p)

\* However often the lease is lost, some process comes to own the session and to hear the
\* requests of the others.
SomeoneServes ==
    []<>(\E p \in Process : Reigns(p) /\ "request" \in channels[p] /\ listening[p])

===============================================================================
