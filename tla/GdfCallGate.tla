----------------------------- MODULE GdfCallGate -----------------------------
(***************************************************************************)
(* The call gate of the GlobalDataFeeds client (global-datafeeds.          *)
(* rate-limit.ts): calls are paced into evenly spaced slots, capped per    *)
(* rolling hour, and all refused for a while after the provider says that  *)
(* the hourly quota is used up.  Several calls pass the gate at a time:    *)
(* one request and any number of send()s, each asleep until its slot.      *)
(***************************************************************************)
EXTENDS Integers, Sequences, FiniteSets

CONSTANTS
    Caller,         \* calls that may be at the gate or in flight at a time
    MaxCallsPerHour,\* GLOBAL_DATAFEEDS_MAX_CALLS_PER_HOUR; 0: no pacing, no cap
    Hour,           \* HOUR_MS
    BaseCooldown,   \* GDF_RATE_LIMIT_BASE_COOLDOWN_MS
    MaxCooldown,    \* GDF_RATE_LIMIT_MAX_COOLDOWN_MS
    Slack,          \* bound: how late a timer fires
    ReplyBound,     \* bound: how long the provider takes to answer
    Horizon         \* bound: the clock stops here

ASSUME GateAssumption ==
    /\ MaxCallsPerHour \in Nat /\ Hour \in Nat \ {0}
    /\ BaseCooldown \in Nat \ {0} /\ MaxCooldown \in Nat /\ MaxCooldown >= BaseCooldown
    /\ Slack \in Nat /\ ReplyBound \in Nat /\ Horizon \in Nat

VARIABLES
    now,
    blockedUntil, hits, calls, nextCallAt,  \* the fields of GdfCallGate; calls: places in sends
    slot,       \* the time until which each caller sleeps, or its place
    sentAt,     \* when the caller's call was sent
    sends,      \* history: the times of all calls sent under a quota
    blockedAt,  \* history: when the current or last block began
    burst       \* history: a block was begun by the answer to a call from before the last block

gate == <<blockedUntil, hits, calls, nextCallAt>>
history == <<sends, blockedAt, burst>>
vars == <<now, gate, slot, sentAt, history>>

Idle == -1
InFlight == -2

Init ==
    /\ now = 0
    /\ blockedUntil = 0 /\ hits = 0 /\ calls = {} /\ nextCallAt = 0
    /\ slot = [c \in Caller |-> Idle]
    /\ sentAt = [c \in Caller |-> 0]
    /\ sends = <<>> /\ blockedAt = 0 /\ burst = FALSE

Blocked == now < blockedUntil

\* Math.ceil(HOUR_MS / maxCallsPerHour)
Interval == (Hour + MaxCallsPerHour - 1) \div MaxCallsPerHour

Later(a, b) == IF a > b THEN a ELSE b

\* Mutant: the next slot is reckoned from now, not from the slot just given out.
ReserveFromNow(c) ==
    /\ slot[c] = Idle /\ ~Blocked
    /\ MaxCallsPerHour > 0
    /\ slot' = [slot EXCEPT ![c] = Later(now, nextCallAt)]
    /\ nextCallAt' = now + Interval
    /\ UNCHANGED <<now, blockedUntil, hits, calls, sentAt, history>>

\* assertAllowed, reserveDelayMs.  A refused call leaves no trace.
Reserve(c) ==
    /\ slot[c] = Idle /\ ~Blocked
    /\ IF MaxCallsPerHour = 0
       THEN slot' = [slot EXCEPT ![c] = now] /\ UNCHANGED nextCallAt
       ELSE /\ slot' = [slot EXCEPT ![c] = Later(now, nextCallAt)]
            /\ nextCallAt' = Later(now, nextCallAt) + Interval
    /\ UNCHANGED <<now, blockedUntil, hits, calls, sentAt, history>>

Recent == {i \in calls : now - sends[i] < Hour}

\* The sleep is over: assertAllowed again, then registerCall, then the call is sent.
Awake(c) == slot[c] >= 0 /\ slot[c] <= now

RefusedByBlock(c) ==
    /\ Awake(c) /\ Blocked
    /\ slot' = [slot EXCEPT ![c] = Idle]
    /\ UNCHANGED <<now, gate, sentAt, history>>

RefusedByCap(c) ==
    /\ Awake(c) /\ ~Blocked
    /\ MaxCallsPerHour > 0 /\ Cardinality(Recent) >= MaxCallsPerHour
    /\ calls' = Recent
    /\ slot' = [slot EXCEPT ![c] = Idle]
    /\ UNCHANGED <<now, blockedUntil, hits, nextCallAt, sentAt, history>>

Sent(c) ==
    /\ Awake(c) /\ ~Blocked
    /\ calls' = IF MaxCallsPerHour = 0 THEN calls ELSE Recent \union {Len(sends) + 1}
    /\ slot' = [slot EXCEPT ![c] = InFlight]
    /\ sentAt' = [sentAt EXCEPT ![c] = now]
    /\ sends' = IF MaxCallsPerHour = 0 THEN sends ELSE Append(sends, now)
    /\ UNCHANGED <<now, blockedUntil, hits, nextCallAt, blockedAt, burst>>

\* Mutant: the cap is not looked at after the sleep.
SendUncapped(c) == Sent(c)

SendCall(c) == Sent(c) /\ (MaxCallsPerHour = 0 \/ Cardinality(Recent) < MaxCallsPerHour)

\* The answer settles a pending call: onSuccess.
Succeeds(c) ==
    /\ slot[c] = InFlight
    /\ slot' = [slot EXCEPT ![c] = Idle]
    /\ hits' = 0
    /\ UNCHANGED <<now, blockedUntil, calls, nextCallAt, sentAt, history>>

\* No answer, or one that settles no call, such as that to a send().
GoesUnanswered(c) ==
    /\ slot[c] = InFlight
    /\ slot' = [slot EXCEPT ![c] = Idle]
    /\ UNCHANGED <<now, gate, sentAt, history>>

Least(a, b) == IF a < b THEN a ELSE b
\* The cooldown doubles with each refusal that is not followed by an answer.
Doubled[n \in Nat] == IF n = 0 THEN BaseCooldown ELSE 2 * Doubled[n - 1]
Cooldown(n) == Least(Doubled[n - 1], MaxCooldown)

Block(c) ==
    /\ hits' = hits + 1
    /\ blockedUntil' = now + Cooldown(hits + 1)
    /\ blockedAt' = now
    /\ burst' = (burst \/ (blockedUntil > 0 /\ sentAt[c] < blockedAt))

Refused(c) ==
    /\ slot[c] = InFlight
    /\ slot' = [slot EXCEPT ![c] = Idle]
    /\ UNCHANGED <<now, calls, nextCallAt, sentAt, sends>>

\* Mutant: every refusal in a burst blocks anew.
RateLimitedAnew(c) == Refused(c) /\ Block(c)

\* onRateLimited: the provider refuses the call of c.
RateLimited(c) ==
    /\ Refused(c)
    /\ IF Blocked THEN UNCHANGED <<hits, blockedUntil, blockedAt, burst>> ELSE Block(c)

\* Timers fire at most Slack late, and an answer comes within ReplyBound or not at all.
Tick ==
    /\ now < Horizon
    /\ \A c \in Caller : /\ slot[c] >= 0 => now < slot[c] + Slack
                         /\ slot[c] = InFlight => now < sentAt[c] + ReplyBound
    /\ now' = now + 1
    /\ UNCHANGED <<gate, slot, sentAt, history>>

Next == \/ Tick
        \/ \E c \in Caller :
              \/ Reserve(c) \/ RefusedByBlock(c) \/ RefusedByCap(c) \/ SendCall(c)
              \/ Succeeds(c) \/ GoesUnanswered(c) \/ RateLimited(c)

Spec == Init /\ [][Next]_vars

-------------------------------------------------------------------------------
(* Properties *)

\* Types of the gate's fields (rate-limit.ts:20-23); the call log never outgrows the quota.
TypeOK ==
    /\ now \in Nat
    /\ blockedUntil \in Nat /\ hits \in Nat /\ nextCallAt \in Nat
    /\ MaxCallsPerHour > 0 => Cardinality(calls) <= MaxCallsPerHour
    /\ sends \in Seq(Nat) /\ calls \subseteq DOMAIN sends
    /\ slot \in [Caller -> Nat \union {Idle, InFlight}]
    /\ sentAt \in [Caller -> Nat]
    /\ blockedAt \in Nat /\ burst \in BOOLEAN

\* However the calls interleave with blocks, no rolling hour holds more calls than the quota
\* (rate-limit.ts:16-18).
HourlyCap ==
    MaxCallsPerHour > 0 =>
        \A i \in DOMAIN sends :
            Cardinality({j \in DOMAIN sends : sends[j] >= sends[i] /\ sends[j] - sends[i] < Hour})
                <= MaxCallsPerHour

\* Two callers never sleep until slots closer than the interval, refused ones included.
SlotsApart ==
    MaxCallsPerHour > 0 =>
        \A c, d \in Caller : c # d /\ slot[c] >= 0 /\ slot[d] >= 0 =>
            slot[c] - slot[d] >= Interval \/ slot[d] - slot[c] >= Interval

\* Both at once: the calls that are sent and the slots that are given out keep the quota.
CallsKeepTheQuota == HourlyCap /\ SlotsApart

\* A block is begun only by a call sent after the last one: the replies to the calls that were
\* in flight when it began do not lengthen it or double its successor (rate-limit.ts:51-52).
OneBlockPerBurst == ReplyBound < BaseCooldown => ~burst

==============================================================================
