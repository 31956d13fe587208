-------------------------- MODULE GdfSessionProofs --------------------------
(***************************************************************************)
(* Proofs about the session broker for any number of workers, API servers  *)
(* and faults: the types of its state and the wait for a dead predecessor; *)
(* and, as long as a renewal is never late by a whole lease, that at most  *)
(* one process acts as the owner, that ownership is a lock, that only the  *)
(* owner and processes left to themselves touch the provider's session,    *)
(* and that a request over Redis is executed once.                         *)
(***************************************************************************)
EXTENDS GdfSession, TLAPS

\* A process that has been elected, from Redis's answer on, and has not begun to stop.
Holds(p) == (owner[p] \/ granted[p]) /\ phase[p] \in {"electing", "running"}

\* Before its election and after its end a process has neither the role nor a grant.
Unelected(p) == phase[p] \in {"down", "starting", "failed"} => ~owner[p] /\ ~granted[p]

\* Whoever has been elected is named by the key, and the key outlives the time its owner may
\* go without renewing it.
LeaseOutlivesLateness(p) == Holds(p) => holder = p /\ ttl + late[p] >= LeaseTtl

LeaseInv == \A p \in Process : Unelected(p) /\ LeaseOutlivesLateness(p)

IInv == TypeOK /\ LeaseInv

-----------------------------------------------------------------------------
\* The initial state is well typed.
LEMMA InitTypeOK == Init => TypeOK
BY TtlAssumption, LateAssumption, FaultAssumption
   DEF Init, TypeOK, Phase, Process

\* Every step keeps the types.
LEMMA NextTypeOK == TypeOK /\ [Next]_vars => TypeOK'
<1> SUFFICES ASSUME TypeOK, [Next]_vars PROVE TypeOK'
    OBVIOUS
<1> USE TtlAssumption, LateAssumption, FaultAssumption, RoleAssumption
        DEF TypeOK, Phase, Process, lease, broker, client, calls
<1>1. CASE Tick
    BY <1>1 DEF Tick
<1>2. ASSUME NEW p \in Process, Boot(p) PROVE TypeOK'
    BY <1>2 DEF Boot
<1>3. ASSUME NEW p \in Process, StartSubscribed(p) PROVE TypeOK'
    BY <1>3 DEF StartSubscribed
<1>4. ASSUME NEW p \in Process, StartFails(p) PROVE TypeOK'
    BY <1>4 DEF StartFails, Fault
<1>5. ASSUME NEW p \in Process, ElectionEnds(p) PROVE TypeOK'
    BY <1>5 DEF ElectionEnds
<1>6. ASSUME NEW p \in Process, StopBegin(p) PROVE TypeOK'
    BY <1>6 DEF StopBegin, Fault
<1>7. ASSUME NEW p \in Process, StopFinish(p) PROVE TypeOK'
    BY <1>7 DEF StopFinish
<1>8. ASSUME NEW p \in Process, Exit(p) PROVE TypeOK'
    BY <1>8 DEF Exit, Vanish
<1>9. ASSUME NEW p \in Process, Crash(p) PROVE TypeOK'
    BY <1>9 DEF Crash, Vanish, Fault
<1>10. ASSUME NEW p \in Process, Acquire(p) PROVE TypeOK'
    BY <1>10 DEF Acquire, Granted
<1>11. ASSUME NEW p \in Process, BecomeOwner(p) PROVE TypeOK'
    BY <1>11 DEF BecomeOwner
<1>12. ASSUME NEW p \in Process, PromotionSubscribes(p) PROVE TypeOK'
    BY <1>12 DEF PromotionSubscribes
<1>13. ASSUME NEW p \in Process, PromotionAttaches(p) PROVE TypeOK'
    BY <1>13 DEF PromotionAttaches
<1>14. ASSUME NEW p \in Process, PromotionFails(p) PROVE TypeOK'
    BY <1>14 DEF PromotionFails, PromotionAbandoned, Fault
<1>15. ASSUME NEW p \in Process, Renew(p) PROVE TypeOK'
    BY <1>15 DEF Renew
<1>16. ASSUME NEW p \in Process, RenewRefused(p) PROVE TypeOK'
    BY <1>16 DEF RenewRefused
<1>17. ASSUME NEW p \in Process, BecomeProxy(p) PROVE TypeOK'
    BY <1>17 DEF BecomeProxy
<1>18. ASSUME NEW p \in Process, LocalRequest(p) PROVE TypeOK'
    BY <1>18 DEF LocalRequest, Admits
<1>19. ASSUME NEW p \in Process, Connect(p) PROVE TypeOK'
    BY <1>19 DEF Connect, Opens
<1>20. ASSUME NEW p \in Process, SocketDrops(p) PROVE TypeOK'
    BY <1>20 DEF SocketDrops
<1>21. ASSUME NEW p \in Process, Reconnect(p) PROVE TypeOK'
    BY <1>21 DEF Reconnect, Opens
<1>22. ASSUME NEW p \in Process, RpcAsk(p) PROVE TypeOK'
    BY <1>22 DEF RpcAsk
<1>23. ASSUME NEW p \in Process, RpcPublish(p) PROVE TypeOK'
    BY <1>23 DEF RpcPublish
<1>24. ASSUME NEW p \in Process, RpcTimeout(p) PROVE TypeOK'
    BY <1>24 DEF RpcTimeout
<1>25. ASSUME NEW p \in Process, NEW q \in Process, Deliver(q, p) PROVE TypeOK'
    BY <1>25 DEF Deliver
<1>26. ASSUME NEW p \in Process, NEW q \in Process, ServeDone(q, p) PROVE TypeOK'
    BY <1>26 DEF ServeDone
<1>27. CASE UNCHANGED vars
    BY <1>27 DEF vars
<1>q. QED
    BY <1>1, <1>2, <1>3, <1>4, <1>5, <1>6, <1>7, <1>8, <1>9, <1>10, <1>11, <1>12, <1>13, <1>14,
       <1>15, <1>16, <1>17, <1>18, <1>19, <1>20, <1>21, <1>22, <1>23, <1>24, <1>25, <1>26, <1>27
       DEF Next, Lifecycle, Leadership, ClientStep, RpcStep

-----------------------------------------------------------------------------
(* Mutual exclusion *)

\* What LeaseInv speaks of.
Tenure == <<lease, phase, owner, granted>>

\* Steps of the client, of the requests over Redis and of a promotion leave it alone.
LEMMA TenureUnchanged == LeaseInv /\ UNCHANGED Tenure => LeaseInv'
BY DEF LeaseInv, Unelected, LeaseOutlivesLateness, Holds, Tenure, lease

\* Initially nobody is elected.
LEMMA InitLeaseInv == Init => LeaseInv
BY DEF Init, LeaseInv, Unelected, LeaseOutlivesLateness, Holds

\* Time passes: an elected process is not late by MaxLate yet, so two intervals of its lease
\* are left.
LEMMA TickLeaseInv ==
    ASSUME MaxLate < LeaseTtl, IInv, Tick
    PROVE  LeaseInv'
<1> SUFFICES ASSUME NEW p \in Process
             PROVE  Unelected(p)' /\ LeaseOutlivesLateness(p)'
    BY DEF LeaseInv
<1> USE TtlAssumption, LateAssumption DEF IInv, LeaseInv
<1>1. Unelected(p)'
    BY DEF Tick, Unelected
<1>2. ASSUME Holds(p)'
      PROVE  holder' = p /\ ttl' + late'[p] >= LeaseTtl
  <2>1. Holds(p) /\ holder = p /\ ttl + late[p] >= LeaseTtl
      BY <1>2 DEF Tick, Holds, LeaseOutlivesLateness
  <2>2. ttl \in Nat /\ late[p] \in Nat /\ late[p] < MaxLate
      BY <2>1 DEF Tick, Holds, TypeOK
  <2>3. ttl > 1
      BY <2>1, <2>2
  <2>4. ttl' = ttl - 1 /\ holder' = holder /\ late'[p] = late[p] + 1
      BY <2>1, <2>2, <2>3 DEF Tick, Holds
  <2>q. QED
      BY <2>1, <2>2, <2>4
<1>q. QED
    BY <1>1, <1>2 DEF LeaseOutlivesLateness

\* Every step keeps the invariant.
LEMMA NextLeaseInv == MaxLate < LeaseTtl /\ IInv /\ [Next]_vars => LeaseInv'
<1> SUFFICES ASSUME MaxLate < LeaseTtl, IInv, [Next]_vars PROVE LeaseInv'
    OBVIOUS
<1>1. CASE Tick
    BY <1>1, TickLeaseInv
<1>2. ASSUME NEW p \in Process, Boot(p) PROVE LeaseInv'
    BY <1>2, TtlAssumption, LateAssumption, MarkerAssumption
       DEF Boot, IInv, TypeOK, LeaseInv, Unelected, LeaseOutlivesLateness, Holds, lease
<1>3. ASSUME NEW p \in Process, StartSubscribed(p) PROVE LeaseInv'
    BY <1>3, TtlAssumption, LateAssumption, MarkerAssumption
       DEF StartSubscribed, IInv, TypeOK, LeaseInv, Unelected, LeaseOutlivesLateness, Holds, lease
<1>4. ASSUME NEW p \in Process, StartFails(p) PROVE LeaseInv'
    BY <1>4, TtlAssumption, LateAssumption, MarkerAssumption
       DEF StartFails, Fault, IInv, TypeOK, LeaseInv, Unelected, LeaseOutlivesLateness, Holds,
           lease
<1>5. ASSUME NEW p \in Process, ElectionEnds(p) PROVE LeaseInv'
    BY <1>5, TtlAssumption, LateAssumption, MarkerAssumption
       DEF ElectionEnds, IInv, TypeOK, LeaseInv, Unelected, LeaseOutlivesLateness, Holds, lease
<1>6. ASSUME NEW p \in Process, StopBegin(p) PROVE LeaseInv'
    BY <1>6, TtlAssumption, LateAssumption, MarkerAssumption
       DEF StopBegin, Fault, IInv, TypeOK, LeaseInv, Unelected, LeaseOutlivesLateness, Holds,
           lease
<1>7. ASSUME NEW p \in Process, StopFinish(p) PROVE LeaseInv'
    BY <1>7, TtlAssumption, LateAssumption, MarkerAssumption
       DEF StopFinish, IInv, TypeOK, LeaseInv, Unelected, LeaseOutlivesLateness, Holds, lease
<1>8. ASSUME NEW p \in Process, Exit(p) PROVE LeaseInv'
    BY <1>8, TtlAssumption, LateAssumption, MarkerAssumption
       DEF Exit, Vanish, IInv, TypeOK, LeaseInv, Unelected, LeaseOutlivesLateness, Holds, lease
<1>9. ASSUME NEW p \in Process, Crash(p) PROVE LeaseInv'
    BY <1>9, TtlAssumption, LateAssumption, MarkerAssumption
       DEF Crash, Vanish, Fault, IInv, TypeOK, LeaseInv, Unelected, LeaseOutlivesLateness,
           Holds, lease
<1>10. ASSUME NEW p \in Process, Acquire(p) PROVE LeaseInv'
  <2>1. \A q \in Process : ~Holds(q)
      BY <1>10, MarkerAssumption DEF Acquire, IInv, LeaseInv, LeaseOutlivesLateness
  <2>2. \A q \in Process \ {p} : owner'[q] = owner[q] /\ granted'[q] = granted[q]
      BY <1>10 DEF Acquire, Granted, IInv, TypeOK
  <2>3. holder' = p /\ ttl' = LeaseTtl /\ late'[p] = 0 /\ phase' = phase
      BY <1>10 DEF Acquire, Granted, IInv, TypeOK
  <2>4. \A q \in Process : LeaseOutlivesLateness(q)'
      BY <2>1, <2>2, <2>3, TtlAssumption DEF LeaseOutlivesLateness, Holds
  <2>5. \A q \in Process : Unelected(q)'
      BY <1>10, <2>2, <2>3 DEF Acquire, IInv, LeaseInv, Unelected
  <2>q. QED
      BY <2>4, <2>5 DEF LeaseInv
<1>11. ASSUME NEW p \in Process, BecomeOwner(p) PROVE LeaseInv'
  <2>1. \A q \in Process : owner'[q] \/ granted'[q] => owner[q] \/ granted[q]
      BY <1>11 DEF BecomeOwner, IInv, TypeOK
  <2>2. UNCHANGED <<holder, ttl, late, phase>>
      BY <1>11 DEF BecomeOwner, lease
  <2>3. \A q \in Process : Unelected(q)' /\ LeaseOutlivesLateness(q)'
      BY <2>1, <2>2 DEF IInv, TypeOK, LeaseInv, Unelected, LeaseOutlivesLateness, Holds
  <2>q. QED
      BY <2>3 DEF LeaseInv
<1>12. ASSUME NEW p \in Process, Renew(p) PROVE LeaseInv'
  <2>1. UNCHANGED <<holder, phase, owner, granted>> /\ ttl' = LeaseTtl
      BY <1>12 DEF Renew, broker
  <2>2. late' \in [Process -> Nat]
      BY <1>12, LateAssumption DEF Renew, IInv, TypeOK
  <2>3. \A q \in Process : Unelected(q)' /\ LeaseOutlivesLateness(q)'
      BY <2>1, <2>2, TtlAssumption
         DEF IInv, LeaseInv, Unelected, LeaseOutlivesLateness, Holds
  <2>q. QED
      BY <2>3 DEF LeaseInv
<1>13. ASSUME NEW p \in Process, BecomeProxy(p) PROVE LeaseInv'
    BY <1>13, TtlAssumption, LateAssumption, MarkerAssumption
       DEF BecomeProxy, IInv, TypeOK, LeaseInv, Unelected, LeaseOutlivesLateness, Holds, lease
<1>14. ASSUME NEW p \in Process, PromotionSubscribes(p) PROVE LeaseInv'
    BY <1>14, TenureUnchanged DEF PromotionSubscribes, Tenure, lease, broker, IInv
<1>15. ASSUME NEW p \in Process, PromotionAttaches(p) PROVE LeaseInv'
    BY <1>15, TenureUnchanged DEF PromotionAttaches, Tenure, lease, broker, IInv
<1>16. ASSUME NEW p \in Process, PromotionFails(p) PROVE LeaseInv'
    BY <1>16, TenureUnchanged
       DEF PromotionFails, PromotionAbandoned, Fault, Tenure, lease, broker, IInv
<1>17. ASSUME NEW p \in Process, RenewRefused(p) PROVE LeaseInv'
    BY <1>17, TenureUnchanged DEF RenewRefused, Tenure, lease, broker, IInv
<1>18. ASSUME NEW p \in Process, LocalRequest(p) PROVE LeaseInv'
    BY <1>18, TenureUnchanged DEF LocalRequest, Admits, Tenure, lease, broker, IInv
<1>19. ASSUME NEW p \in Process, Connect(p) PROVE LeaseInv'
    BY <1>19, TenureUnchanged DEF Connect, Tenure, lease, broker, IInv
<1>20. ASSUME NEW p \in Process, SocketDrops(p) PROVE LeaseInv'
    BY <1>20, TenureUnchanged DEF SocketDrops, Tenure, lease, broker, IInv
<1>21. ASSUME NEW p \in Process, Reconnect(p) PROVE LeaseInv'
    BY <1>21, TenureUnchanged DEF Reconnect, Tenure, lease, broker, IInv
<1>22. ASSUME NEW p \in Process, RpcAsk(p) PROVE LeaseInv'
    BY <1>22, TenureUnchanged DEF RpcAsk, Tenure, lease, broker, IInv
<1>23. ASSUME NEW p \in Process, RpcPublish(p) PROVE LeaseInv'
    BY <1>23, TenureUnchanged DEF RpcPublish, Tenure, lease, broker, IInv
<1>24. ASSUME NEW p \in Process, RpcTimeout(p) PROVE LeaseInv'
    BY <1>24, TenureUnchanged DEF RpcTimeout, Tenure, lease, broker, IInv
<1>25. ASSUME NEW p \in Process, NEW q \in Process, Deliver(q, p) PROVE LeaseInv'
    BY <1>25, TenureUnchanged DEF Deliver, Tenure, lease, broker, IInv
<1>26. ASSUME NEW p \in Process, NEW q \in Process, ServeDone(q, p) PROVE LeaseInv'
    BY <1>26, TenureUnchanged DEF ServeDone, Tenure, lease, broker, IInv
<1>27. CASE UNCHANGED vars
    BY <1>27, TenureUnchanged DEF Tenure, vars, lease, broker, IInv
<1>q. QED
    BY <1>1, <1>2, <1>3, <1>4, <1>5, <1>6, <1>7, <1>8, <1>9, <1>10, <1>11, <1>12, <1>13, <1>14,
       <1>15, <1>16, <1>17, <1>18, <1>19, <1>20, <1>21, <1>22, <1>23, <1>24, <1>25, <1>26, <1>27
       DEF Next, Lifecycle, Leadership, ClientStep, RpcStep

-----------------------------------------------------------------------------
(* The theorems *)

\* The state of every process keeps its types, and no API server is ever elected, whatever
\* crashes, stops and failed subscriptions happen.
THEOREM TypeCorrect == Spec => []TypeOK
<1>1. Init => TypeOK
    BY InitTypeOK
<1>2. TypeOK /\ [Next]_vars => TypeOK'
    BY NextTypeOK
<1>q. QED
    BY <1>1, <1>2, PTL DEF Spec

\* With renewals in time the key names whoever acts as the owner.
LEMMA Inductive == ASSUME MaxLate < LeaseTtl PROVE Spec => []IInv
<1>1. Init => IInv
    BY InitTypeOK, InitLeaseInv DEF IInv
<1>2. IInv /\ [Next]_vars => IInv'
    BY NextTypeOK, NextLeaseInv DEF IInv
<1>q. QED
    BY <1>1, <1>2, PTL DEF Spec

\* Two processes the key would both have to name are one.
LEMMA OneTenant == IInv => AtMostOneOwner
BY DEF IInv, LeaseInv, LeaseOutlivesLateness, Holds, AtMostOneOwner, Reigns

\* As long as an owner never goes a whole lease without a renewal, at most one process acts as
\* the session owner, for any number of processes, crashes, stops and failed subscriptions.
THEOREM ExclusiveOwner == ASSUME MaxLate < LeaseTtl PROVE Spec => []AtMostOneOwner
<1>1. Spec => []IInv
    BY Inductive
<1>q. QED
    BY <1>1, OneTenant, PTL

-----------------------------------------------------------------------------
(* Ownership is a lock *)

\* Right names whoever reigns.
RightIsTheOwner ==
    /\ \A p \in Process : Reigns(p) <=> Right = p
    /\ Right \in Process \union {NoOwner}

LEMMA RightNames == IInv => RightIsTheOwner
<1> SUFFICES ASSUME IInv PROVE RightIsTheOwner
    OBVIOUS
<1> USE DEF RightIsTheOwner
<1>1. AtMostOneOwner
    BY OneTenant
<1>2. CASE Reigning = {}
    BY <1>2, MarkerAssumption DEF Reigning, Right
<1>3. CASE Reigning # {}
  <2>1. PICK p \in Process : Reigns(p)
      BY <1>3 DEF Reigning
  <2>2. Reigning = {p}
      BY <1>1, <2>1 DEF Reigning, AtMostOneOwner
  <2>3. Right = p
      BY <2>2 DEF Right
  <2>q. QED
      BY <2>2, <2>3 DEF Reigning
<1>q. QED
    BY <1>2, <1>3

\* A process comes to reign only when nobody does: it is the one the key names.
LEMMA ReignBeginsFromNobody ==
    ASSUME IInv, [Next]_vars, NEW r \in Process, ~Reigns(r), Reigns(r)', NEW q \in Process
    PROVE  ~Reigns(q)
<1>1. Holds(r) => ~Reigns(q)
    BY DEF IInv, LeaseInv, LeaseOutlivesLateness, Holds, Reigns
<1>2. CASE Tick
    BY <1>2 DEF Tick, Reigns
<1>3. ASSUME NEW p \in Process, Boot(p) PROVE ~Reigns(q)
    BY <1>1, <1>3 DEF Boot, IInv, TypeOK, LeaseInv, Unelected, Holds, Reigns, broker
<1>4. ASSUME NEW p \in Process, StartSubscribed(p) PROVE ~Reigns(q)
    BY <1>1, <1>4 DEF StartSubscribed, IInv, TypeOK, LeaseInv, Unelected, Holds, Reigns, broker
<1>5. ASSUME NEW p \in Process, StartFails(p) PROVE ~Reigns(q)
    BY <1>1, <1>5 DEF StartFails, Fault, IInv, TypeOK, LeaseInv, Unelected, Holds, Reigns, broker
<1>6. ASSUME NEW p \in Process, ElectionEnds(p) PROVE ~Reigns(q)
    BY <1>1, <1>6 DEF ElectionEnds, IInv, TypeOK, LeaseInv, Unelected, Holds, Reigns, broker
<1>7. ASSUME NEW p \in Process, StopBegin(p) PROVE ~Reigns(q)
    BY <1>1, <1>7 DEF StopBegin, Fault, IInv, TypeOK, LeaseInv, Unelected, Holds, Reigns, broker
<1>8. ASSUME NEW p \in Process, StopFinish(p) PROVE ~Reigns(q)
    BY <1>1, <1>8 DEF StopFinish, IInv, TypeOK, LeaseInv, Unelected, Holds, Reigns, broker
<1>9. ASSUME NEW p \in Process, Exit(p) PROVE ~Reigns(q)
    BY <1>1, <1>9 DEF Exit, Vanish, IInv, TypeOK, LeaseInv, Unelected, Holds, Reigns, broker
<1>10. ASSUME NEW p \in Process, Crash(p) PROVE ~Reigns(q)
    BY <1>1, <1>10
       DEF Crash, Vanish, Fault, IInv, TypeOK, LeaseInv, Unelected, Holds, Reigns, broker
<1>11. ASSUME NEW p \in Process, BecomeOwner(p) PROVE ~Reigns(q)
    BY <1>1, <1>11 DEF BecomeOwner, IInv, TypeOK, LeaseInv, Unelected, Holds, Reigns, broker
<1>12. ASSUME NEW p \in Process, BecomeProxy(p) PROVE ~Reigns(q)
    BY <1>1, <1>12 DEF BecomeProxy, IInv, TypeOK, LeaseInv, Unelected, Holds, Reigns, broker
<1>13. ASSUME NEW p \in Process, Acquire(p) PROVE ~Reigns(q)
    BY <1>1, <1>13 DEF Acquire, Granted, IInv, TypeOK, LeaseInv, Unelected, Holds, Reigns, broker
<1>14. ASSUME NEW p \in Process, Renew(p) PROVE ~Reigns(q)
    BY <1>1, <1>14 DEF Renew, IInv, TypeOK, LeaseInv, Unelected, Holds, Reigns, broker
<1>15. ASSUME NEW p \in Process, PromotionSubscribes(p) PROVE ~Reigns(q)
    BY <1>1, <1>15
       DEF PromotionSubscribes, IInv, TypeOK, LeaseInv, Unelected, Holds, Reigns, broker
<1>16. ASSUME NEW p \in Process, PromotionAttaches(p) PROVE ~Reigns(q)
    BY <1>1, <1>16 DEF PromotionAttaches, IInv, TypeOK, LeaseInv, Unelected, Holds, Reigns, broker
<1>17. ASSUME NEW p \in Process, PromotionFails(p) PROVE ~Reigns(q)
    BY <1>1, <1>17
       DEF PromotionFails, PromotionAbandoned, Fault, IInv, TypeOK, LeaseInv, Unelected, Holds,
           Reigns, broker
<1>18. ASSUME NEW p \in Process, RenewRefused(p) PROVE ~Reigns(q)
    BY <1>1, <1>18 DEF RenewRefused, IInv, TypeOK, LeaseInv, Unelected, Holds, Reigns, broker
<1>19. ASSUME NEW p \in Process, LocalRequest(p) PROVE ~Reigns(q)
    BY <1>1, <1>19
       DEF LocalRequest, Admits, IInv, TypeOK, LeaseInv, Unelected, Holds, Reigns, broker
<1>20. ASSUME NEW p \in Process, Connect(p) PROVE ~Reigns(q)
    BY <1>1, <1>20 DEF Connect, IInv, TypeOK, LeaseInv, Unelected, Holds, Reigns, broker
<1>21. ASSUME NEW p \in Process, SocketDrops(p) PROVE ~Reigns(q)
    BY <1>1, <1>21 DEF SocketDrops, IInv, TypeOK, LeaseInv, Unelected, Holds, Reigns, broker
<1>22. ASSUME NEW p \in Process, Reconnect(p) PROVE ~Reigns(q)
    BY <1>1, <1>22 DEF Reconnect, IInv, TypeOK, LeaseInv, Unelected, Holds, Reigns, broker
<1>23. ASSUME NEW p \in Process, RpcAsk(p) PROVE ~Reigns(q)
    BY <1>1, <1>23 DEF RpcAsk, IInv, TypeOK, LeaseInv, Unelected, Holds, Reigns, broker
<1>24. ASSUME NEW p \in Process, RpcPublish(p) PROVE ~Reigns(q)
    BY <1>1, <1>24 DEF RpcPublish, IInv, TypeOK, LeaseInv, Unelected, Holds, Reigns, broker
<1>25. ASSUME NEW p \in Process, RpcTimeout(p) PROVE ~Reigns(q)
    BY <1>1, <1>25 DEF RpcTimeout, IInv, TypeOK, LeaseInv, Unelected, Holds, Reigns, broker
<1>26. ASSUME NEW p \in Process, NEW s \in Process, Deliver(s, p) PROVE ~Reigns(q)
    BY <1>26 DEF Deliver, Reigns, broker
<1>27. ASSUME NEW p \in Process, NEW s \in Process, ServeDone(s, p) PROVE ~Reigns(q)
    BY <1>27 DEF ServeDone, Reigns, broker
<1>28. CASE UNCHANGED vars
    BY <1>28 DEF vars, Reigns, broker
<1>q. QED
    BY <1>2, <1>3, <1>4, <1>5, <1>6, <1>7, <1>8, <1>9, <1>10, <1>11, <1>12, <1>13, <1>14, <1>15,
       <1>16, <1>17, <1>18, <1>19, <1>20, <1>21, <1>22, <1>23, <1>24, <1>25, <1>26, <1>27, <1>28
       DEF Next, Lifecycle, Leadership, ClientStep, RpcStep

\* The broker implements SessionLock: seen from outside, ownership passes from one process to
\* another only through a moment at which nobody has it.
THEOREM OwnershipIsALock == ASSUME MaxLate < LeaseTtl PROVE Spec => ImplementsLock
<1>1. Init => Lock!Init
    BY DEF Init, Lock!Init, Right, Reigning, Reigns
<1>2. IInv /\ IInv' /\ [Next]_vars => [Lock!Next]_Right
  <2> SUFFICES ASSUME IInv, IInv', [Next]_vars, Right' # Right
               PROVE  Lock!Next
      BY DEF Lock!Next
  <2>1. RightIsTheOwner /\ RightIsTheOwner'
      BY RightNames, PTL
  <2>2. CASE Right = NoOwner
      BY <2>1, <2>2 DEF RightIsTheOwner, Lock!Next, Lock!Take
  <2>3. CASE Right # NoOwner
    <3>1. Right \in Process /\ Reigns(Right)
        BY <2>1, <2>3 DEF RightIsTheOwner
    <3>2. Right' = NoOwner
      <4> SUFFICES ASSUME NEW r \in Process, Right' = r PROVE FALSE
          BY <2>1 DEF RightIsTheOwner
      <4>1. ~Reigns(r) /\ Reigns(r)'
          BY <2>1 DEF RightIsTheOwner
      <4>q. QED
          BY <3>1, <4>1, ReignBeginsFromNobody
    <3>q. QED
        BY <2>3, <3>2 DEF Lock!Next, Lock!GiveUp
  <2>q. QED
      BY <2>2, <2>3
<1>q. QED
    BY <1>1, <1>2, Inductive, PTL DEF Spec, ImplementsLock, Lock!Spec
-----------------------------------------------------------------------------
(* The wait for a predecessor's lease *)

\* A key that exists has time left, and what is left of a dead predecessor's lease and what
\* its successor has waited never exceed one lease together.
Patience ==
    /\ holder # NoOwner => ttl > 0
    /\ \A p \in Process :
        /\ phase[p] # "electing" => waited[p] = 0
        /\ phase[p] = "electing" /\ holder = Dead(p) => ttl + waited[p] <= LeaseTtl

Waits == <<holder, ttl, phase, waited>>

LEMMA PatienceUnchanged == Patience /\ UNCHANGED Waits => Patience'
BY DEF Patience, Waits

LEMMA NextPatience == TypeOK /\ Patience /\ [Next]_vars => Patience'
<1> SUFFICES ASSUME TypeOK, Patience, [Next]_vars PROVE Patience'
    OBVIOUS
<1>1. CASE Tick
  <2>1. ttl \in Nat /\ waited \in [Process -> Nat] /\ LeaseTtl \in Nat
      BY TtlAssumption DEF TypeOK
  <2>2. holder' # NoOwner => holder' = holder /\ ttl > 1 /\ ttl' = ttl - 1
      BY <1>1, <2>1 DEF Tick, Patience
  <2>3. \A p \in Process :
          waited'[p] = IF phase[p] = "electing" /\ waited[p] < LeaseTtl
                       THEN waited[p] + 1 ELSE waited[p]
      BY <1>1 DEF Tick
  <2>4. phase' = phase
      BY <1>1 DEF Tick
  <2>5. ASSUME NEW p \in Process, phase'[p] = "electing", holder' = Dead(p)
        PROVE  ttl' + waited'[p] <= LeaseTtl
    <3>1. holder = Dead(p) /\ ttl' = ttl - 1
        BY <2>2, <2>5, MarkerAssumption
    <3>2. ttl + waited[p] <= LeaseTtl
        BY <2>4, <2>5, <3>1 DEF Patience
    <3>3. waited[p] \in Nat /\ waited'[p] <= waited[p] + 1
        BY <2>1, <2>3
    <3>4. waited'[p] \in Nat
        BY <2>1, <2>3
    <3>q. QED
        BY <2>1, <3>1, <3>2, <3>3, <3>4
  <2>6. \A p \in Process : phase'[p] # "electing" => waited'[p] = 0
      BY <2>3, <2>4 DEF Patience
  <2>q. QED
      BY <2>1, <2>2, <2>5, <2>6 DEF Patience
<1>2. ASSUME NEW p \in Process, Boot(p) PROVE Patience'
    BY <1>2, TtlAssumption, MarkerAssumption DEF Boot, TypeOK, Patience, lease, broker
<1>3. ASSUME NEW p \in Process, StartSubscribed(p) PROVE Patience'
    BY <1>3, TtlAssumption, MarkerAssumption DEF StartSubscribed, TypeOK, Patience, lease, broker
<1>4. ASSUME NEW p \in Process, StartFails(p) PROVE Patience'
    BY <1>4, TtlAssumption, MarkerAssumption
       DEF StartFails, Fault, TypeOK, Patience, lease, broker
<1>5. ASSUME NEW p \in Process, ElectionEnds(p) PROVE Patience'
    BY <1>5, TtlAssumption, MarkerAssumption DEF ElectionEnds, TypeOK, Patience, lease, broker
<1>6. ASSUME NEW p \in Process, StopBegin(p) PROVE Patience'
    BY <1>6, TtlAssumption, MarkerAssumption DEF StopBegin, Fault, TypeOK, Patience, lease, broker
<1>7. ASSUME NEW p \in Process, StopFinish(p) PROVE Patience'
    BY <1>7, TtlAssumption, MarkerAssumption DEF StopFinish, TypeOK, Patience, lease, broker
<1>8. ASSUME NEW p \in Process, Exit(p) PROVE Patience'
    BY <1>8, TtlAssumption, MarkerAssumption
       DEF Exit, Vanish, Dead, TypeOK, Patience, lease, broker
<1>9. ASSUME NEW p \in Process, Crash(p) PROVE Patience'
    BY <1>9, TtlAssumption, MarkerAssumption
       DEF Crash, Vanish, Fault, Dead, TypeOK, Patience, lease, broker
<1>10. ASSUME NEW p \in Process, Acquire(p) PROVE Patience'
    BY <1>10, TtlAssumption, MarkerAssumption
       DEF Acquire, Granted, TypeOK, Patience, lease, broker
<1>11. ASSUME NEW p \in Process, Renew(p) PROVE Patience'
    BY <1>11, TtlAssumption, MarkerAssumption DEF Renew, TypeOK, Patience, lease, broker
<1>12. ASSUME NEW p \in Process, BecomeOwner(p) PROVE Patience'
    BY <1>12, PatienceUnchanged DEF BecomeOwner, Waits, lease, broker
<1>13. ASSUME NEW p \in Process, BecomeProxy(p) PROVE Patience'
    BY <1>13, PatienceUnchanged DEF BecomeProxy, Waits, lease, broker
<1>14. ASSUME NEW p \in Process, PromotionSubscribes(p) PROVE Patience'
    BY <1>14, PatienceUnchanged DEF PromotionSubscribes, Waits, lease, broker
<1>15. ASSUME NEW p \in Process, PromotionAttaches(p) PROVE Patience'
    BY <1>15, PatienceUnchanged DEF PromotionAttaches, Waits, lease, broker
<1>16. ASSUME NEW p \in Process, PromotionFails(p) PROVE Patience'
    BY <1>16, PatienceUnchanged
       DEF PromotionFails, PromotionAbandoned, Fault, Waits, lease, broker
<1>17. ASSUME NEW p \in Process, RenewRefused(p) PROVE Patience'
    BY <1>17, PatienceUnchanged DEF RenewRefused, Waits, lease, broker
<1>18. ASSUME NEW p \in Process, LocalRequest(p) PROVE Patience'
    BY <1>18, PatienceUnchanged DEF LocalRequest, Admits, Waits, lease, broker
<1>19. ASSUME NEW p \in Process, Connect(p) PROVE Patience'
    BY <1>19, PatienceUnchanged DEF Connect, Waits, lease, broker
<1>20. ASSUME NEW p \in Process, SocketDrops(p) PROVE Patience'
    BY <1>20, PatienceUnchanged DEF SocketDrops, Waits, lease, broker
<1>21. ASSUME NEW p \in Process, Reconnect(p) PROVE Patience'
    BY <1>21, PatienceUnchanged DEF Reconnect, Waits, lease, broker
<1>22. ASSUME NEW p \in Process, RpcAsk(p) PROVE Patience'
    BY <1>22, PatienceUnchanged DEF RpcAsk, Waits, lease, broker
<1>23. ASSUME NEW p \in Process, RpcPublish(p) PROVE Patience'
    BY <1>23, PatienceUnchanged DEF RpcPublish, Waits, lease, broker
<1>24. ASSUME NEW p \in Process, RpcTimeout(p) PROVE Patience'
    BY <1>24, PatienceUnchanged DEF RpcTimeout, Waits, lease, broker
<1>25. ASSUME NEW p \in Process, NEW q \in Process, Deliver(q, p) PROVE Patience'
    BY <1>25, PatienceUnchanged DEF Deliver, Waits, lease, broker
<1>26. ASSUME NEW p \in Process, NEW q \in Process, ServeDone(q, p) PROVE Patience'
    BY <1>26, PatienceUnchanged DEF ServeDone, Waits, lease, broker
<1>27. CASE UNCHANGED vars
    BY <1>27, PatienceUnchanged DEF Waits, vars, lease, broker
<1>q. QED
    BY <1>1, <1>2, <1>3, <1>4, <1>5, <1>6, <1>7, <1>8, <1>9, <1>10, <1>11, <1>12, <1>13, <1>14,
       <1>15, <1>16, <1>17, <1>18, <1>19, <1>20, <1>21, <1>22, <1>23, <1>24, <1>25, <1>26, <1>27
       DEF Next, Lifecycle, Leadership, ClientStep, RpcStep

\* A worker that ends its wait without the lease does not leave it to its own dead
\* predecessor, for any length of the lease and however late renewals are.
THEOREM ElectionIsPatient == Spec => ElectionOutlivesDeadOwner
<1>1. Init => TypeOK /\ Patience
    BY InitTypeOK DEF Init, Patience
<1>2. TypeOK /\ Patience /\ [Next]_vars => TypeOK' /\ Patience'
    BY NextTypeOK, NextPatience
<1>3. TypeOK /\ Patience =>
        \A p \in Candidate : ElectionEnds(p) /\ ~owner[p] => holder # Dead(p)
  <2> SUFFICES ASSUME TypeOK, Patience, NEW p \in Candidate, ElectionEnds(p), ~owner[p],
                      holder = Dead(p)
               PROVE  FALSE
      OBVIOUS
  <2>1. p \in Process
      BY DEF Process
  <2>2. waited[p] >= LeaseTtl /\ phase[p] = "electing" /\ holder # NoOwner
      BY DEF ElectionEnds
  <2>3. ttl > 0 /\ ttl + waited[p] <= LeaseTtl
      BY <2>1, <2>2 DEF Patience
  <2>4. ttl \in Nat /\ waited[p] \in Nat /\ LeaseTtl \in Nat
      BY <2>1, TtlAssumption DEF TypeOK
  <2>q. QED
      BY <2>2, <2>3, <2>4
<1>4. TypeOK /\ Patience /\ [Next]_vars =>
        [\A p \in Candidate : ElectionEnds(p) /\ ~owner[p] => holder # Dead(p)]_vars
    BY <1>3
<1>q. QED
    BY <1>1, <1>2, <1>4, PTL DEF Spec, ElectionOutlivesDeadOwner
-----------------------------------------------------------------------------
(* The provider session and the requests of other processes *)

\* A process touches the provider's session: it has a socket or may open one, or it executes a
\* request of another process.
Acts(p) == \/ admitted[p] \/ rearm[p] \/ socket[p] # "none"
           \/ phase[p] \in {"electing", "running"} /\ ~remote[p]
           \/ \E r \in Process : <<p, r>> \in serving

\* Only the owner does, and a process left to itself; and no owner that renews in time is refused.
OwnersAct == \A p \in Process : ~lost[p] /\ (Acts(p) => Reigns(p) \/ Unbrokered(p))

ActInv == IInv /\ OwnersAct

\* Initially nobody acts.
LEMMA InitOwnersAct == Init => OwnersAct
BY DEF Init, OwnersAct, Acts

\* What a step of one process leaves as it was for another one.
ActsOf(q) == <<admitted[q], rearm[q], socket[q], phase[q], remote[q], lost[q], owner[q]>>

LEMMA ActsUnchanged ==
    ASSUME OwnersAct, NEW q \in Process, UNCHANGED ActsOf(q),
           \A r \in Process : <<q, r>> \in serving' => <<q, r>> \in serving
    PROVE  ~lost'[q] /\ (Acts(q)' => Reigns(q)' \/ Unbrokered(q)')
BY DEF OwnersAct, ActsOf, Acts, Reigns, Unbrokered

\* A process that ends touches nothing more, and leaves the others as they were.
LEMMA VanishedActs ==
    ASSUME TypeOK, OwnersAct, NEW p \in Process, NEW q \in Process, Vanish(p)
    PROVE  ~lost'[q] /\ (Acts(q)' => Reigns(q)' \/ Unbrokered(q)')
<1>1. \A r \in Process : <<q, r>> \in serving' => <<q, r>> \in serving /\ q # p
    BY DEF Vanish
<1>2. CASE q = p
  <2>1. /\ phase'[q] = "down" /\ ~lost'[q] /\ ~admitted'[q] /\ ~rearm'[q] /\ socket'[q] = "none"
      BY <1>2 DEF Vanish, TypeOK
  <2>q. QED
      BY <1>1, <1>2, <2>1 DEF Acts
<1>3. CASE q # p
  <2>1. UNCHANGED ActsOf(q)
      BY <1>3 DEF Vanish, TypeOK, ActsOf
  <2>q. QED
      BY <1>1, <2>1, ActsUnchanged
<1>q. QED
    BY <1>2, <1>3

\* Every step keeps the invariant.
LEMMA NextOwnersAct == ActInv /\ [Next]_vars => OwnersAct'
<1> SUFFICES ASSUME ActInv, [Next]_vars, NEW q \in Process
             PROVE  ~lost'[q] /\ (Acts(q)' => Reigns(q)' \/ Unbrokered(q)')
    BY DEF OwnersAct
<1> DEFINE Kept == ~lost'[q] /\ (Acts(q)' => Reigns(q)' \/ Unbrokered(q)')
<1>0. TypeOK /\ LeaseInv /\ OwnersAct
    BY DEF ActInv, IInv
<1>1. CASE Tick
    BY <1>0, <1>1, ActsUnchanged DEF Tick, ActsOf, client, calls
<1>2. ASSUME NEW p \in Process, Boot(p) PROVE Kept
    BY <1>0, <1>2, ActsUnchanged
       DEF Boot, ActsOf, Acts, Reigns, Unbrokered, TypeOK, OwnersAct, lease, broker, client, calls
<1>3. ASSUME NEW p \in Process, StartSubscribed(p) PROVE Kept
    BY <1>0, <1>3, ActsUnchanged
       DEF StartSubscribed, ActsOf, Acts, Reigns, Unbrokered, TypeOK, OwnersAct, lease, broker,
           client, calls
<1>4. ASSUME NEW p \in Process, StartFails(p) PROVE Kept
    BY <1>0, <1>4, ActsUnchanged
       DEF StartFails, Fault, ActsOf, Acts, Reigns, Unbrokered, TypeOK, OwnersAct, lease,
           broker, client, calls
<1>5. ASSUME NEW p \in Process, ElectionEnds(p) PROVE Kept
    BY <1>0, <1>5, ActsUnchanged
       DEF ElectionEnds, ActsOf, Acts, Reigns, Unbrokered, TypeOK, OwnersAct, lease, broker,
           client, calls
<1>6. ASSUME NEW p \in Process, StopBegin(p) PROVE Kept
    BY <1>0, <1>6, ActsUnchanged
       DEF StopBegin, Fault, ActsOf, Acts, Reigns, Unbrokered, TypeOK, OwnersAct, lease, broker,
           client, calls
<1>7. ASSUME NEW p \in Process, StopFinish(p) PROVE Kept
    BY <1>0, <1>7, ActsUnchanged
       DEF StopFinish, ActsOf, Acts, Reigns, Unbrokered, TypeOK, OwnersAct, lease, broker,
           client, calls
<1>8. ASSUME NEW p \in Process, Exit(p) PROVE Kept
    BY <1>0, <1>8, VanishedActs DEF Exit
<1>9. ASSUME NEW p \in Process, Crash(p) PROVE Kept
    BY <1>0, <1>9, VanishedActs DEF Crash
<1>10. ASSUME NEW p \in Process, Acquire(p) PROVE Kept
    BY <1>0, <1>10, ActsUnchanged
       DEF Acquire, Granted, ActsOf, Acts, Reigns, Unbrokered, TypeOK, OwnersAct, lease, broker,
           client, calls
<1>11. ASSUME NEW p \in Process, BecomeOwner(p) PROVE Kept
    BY <1>0, <1>11, ActsUnchanged
       DEF BecomeOwner, ActsOf, Acts, Reigns, Unbrokered, TypeOK, OwnersAct, lease, broker,
           client, calls
<1>12. ASSUME NEW p \in Process, PromotionSubscribes(p) PROVE Kept
    BY <1>0, <1>12, ActsUnchanged
       DEF PromotionSubscribes, ActsOf, Acts, Reigns, Unbrokered, TypeOK, OwnersAct, lease,
           broker, client, calls
<1>13. ASSUME NEW p \in Process, PromotionAttaches(p) PROVE Kept
    BY <1>0, <1>13, ActsUnchanged
       DEF PromotionAttaches, ActsOf, Acts, Reigns, Unbrokered, TypeOK, OwnersAct, lease,
           broker, client, calls
<1>14. ASSUME NEW p \in Process, PromotionFails(p) PROVE Kept
    BY <1>0, <1>14, ActsUnchanged
       DEF PromotionFails, PromotionAbandoned, Fault, ActsOf, Acts, Reigns, Unbrokered, TypeOK,
           OwnersAct, lease, broker, client, calls
<1>15. ASSUME NEW p \in Process, Renew(p) PROVE Kept
    BY <1>0, <1>15, ActsUnchanged
       DEF Renew, ActsOf, Acts, Reigns, Unbrokered, TypeOK, OwnersAct, lease, broker, client,
           calls
<1>16. ASSUME NEW p \in Process, LocalRequest(p) PROVE Kept
    BY <1>0, <1>16, ActsUnchanged
       DEF LocalRequest, Admits, GateOpen, ActsOf, Acts, Reigns, Unbrokered, TypeOK, OwnersAct,
           lease, broker, client, calls
<1>17. ASSUME NEW p \in Process, Connect(p) PROVE Kept
  <2>1. /\ Acts(p) /\ UNCHANGED broker /\ UNCHANGED calls
        /\ q # p => UNCHANGED ActsOf(q)
      BY <1>0, <1>17 DEF Connect, Opens, Acts, ActsOf, TypeOK, broker
  <2>q. QED
      BY <1>0, <2>1, ActsUnchanged DEF OwnersAct, Reigns, Unbrokered, broker, calls
<1>18. ASSUME NEW p \in Process, SocketDrops(p) PROVE Kept
    BY <1>0, <1>18, ActsUnchanged
       DEF SocketDrops, ActsOf, Acts, Reigns, Unbrokered, TypeOK, OwnersAct, lease, broker,
           client, calls
<1>19. ASSUME NEW p \in Process, Reconnect(p) PROVE Kept
  <2>1. Acts(p) /\ UNCHANGED broker /\ UNCHANGED calls
      BY <1>19 DEF Reconnect, Acts
  <2>2. q # p => UNCHANGED ActsOf(q)
      BY <1>0, <1>19 DEF Reconnect, Opens, ActsOf, TypeOK, broker
  <2>q. QED
      BY <1>0, <2>1, <2>2, ActsUnchanged DEF OwnersAct, Reigns, Unbrokered, broker, calls
<1>20. ASSUME NEW p \in Process, RpcAsk(p) PROVE Kept
    BY <1>0, <1>20, ActsUnchanged
       DEF RpcAsk, ActsOf, Acts, Reigns, Unbrokered, TypeOK, OwnersAct, lease, broker, client,
           calls
<1>21. ASSUME NEW p \in Process, RpcPublish(p) PROVE Kept
    BY <1>0, <1>21, ActsUnchanged
       DEF RpcPublish, ActsOf, Acts, Reigns, Unbrokered, TypeOK, OwnersAct, lease, broker,
           client, calls
<1>22. ASSUME NEW p \in Process, RpcTimeout(p) PROVE Kept
    BY <1>0, <1>22, ActsUnchanged
       DEF RpcTimeout, ActsOf, Acts, Reigns, Unbrokered, TypeOK, OwnersAct, lease, broker,
           client, calls
<1>23. ASSUME NEW p \in Process, RenewRefused(p) PROVE Kept
    BY <1>0, <1>23 DEF RenewRefused, LeaseInv, LeaseOutlivesLateness, Holds
<1>24. ASSUME NEW p \in Process, BecomeProxy(p) PROVE Kept
    BY <1>0, <1>24 DEF BecomeProxy, OwnersAct
<1>25. ASSUME NEW p \in Process, NEW s \in Process, Deliver(s, p) PROVE Kept
  <2>1. CASE s = q /\ owner[q]
      BY <1>0, <1>25, <2>1
         DEF Deliver, LeaseInv, Unelected, OwnersAct, Reigns, Unbrokered, TypeOK, Phase, broker
  <2>2. CASE s # q \/ ~owner[q]
      BY <1>0, <1>25, <2>2, ActsUnchanged DEF Deliver, ActsOf, broker, client
  <2>q. QED
      BY <2>1, <2>2
<1>26. ASSUME NEW p \in Process, NEW s \in Process, ServeDone(s, p) PROVE Kept
    BY <1>0, <1>26, ActsUnchanged DEF ServeDone, ActsOf, broker, client
<1>27. CASE UNCHANGED vars
    BY <1>0, <1>27, ActsUnchanged DEF ActsOf, vars, broker, client, calls
<1>q. QED
    BY <1>1, <1>2, <1>3, <1>4, <1>5, <1>6, <1>7, <1>8, <1>9, <1>10, <1>11, <1>12, <1>13, <1>14,
       <1>15, <1>16, <1>17, <1>18, <1>19, <1>20, <1>21, <1>22, <1>23, <1>24, <1>25, <1>26, <1>27
       DEF Next, Lifecycle, Leadership, ClientStep, RpcStep

LEMMA ActInductive == ASSUME MaxLate < LeaseTtl PROVE Spec => []ActInv
<1>1. Init => OwnersAct
    BY InitOwnersAct
<1>2. ActInv /\ [Next]_vars /\ IInv' => ActInv'
    BY NextOwnersAct DEF ActInv
<1>3. ActInv <=> IInv /\ OwnersAct
    BY DEF ActInv
<1>q. QED
    BY <1>1, <1>2, <1>3, Inductive, PTL DEF Spec

\* Only a connect and a reconnect of the process itself open its socket.
LEMMA WhoOpens ==
    ASSUME TypeOK, [Next]_vars, NEW p \in Process, socket[p] # socket'[p], socket'[p] # "none"
    PROVE  Connect(p) \/ Reconnect(p)
<1>1. CASE Tick
    BY <1>1 DEF Tick, client
<1>2. ASSUME NEW q \in Process, Lifecycle(q) PROVE FALSE
  <2>1. ASSUME Vanish(q) PROVE FALSE
      BY <2>1 DEF Vanish, TypeOK
  <2>2. ASSUME Boot(q) \/ StartSubscribed(q) PROVE FALSE
      BY <2>2 DEF Boot, StartSubscribed, client
  <2>3. ASSUME StartFails(q) \/ ElectionEnds(q) PROVE FALSE
      BY <2>3 DEF StartFails, ElectionEnds, client
  <2>4. ASSUME StopBegin(q) \/ StopFinish(q) PROVE FALSE
      BY <2>4 DEF StopBegin, StopFinish, client
  <2>q. QED
      BY <1>2, <2>1, <2>2, <2>3, <2>4 DEF Lifecycle, Exit, Crash
<1>3. ASSUME NEW q \in Process, Leadership(q) PROVE FALSE
  <2>1. ASSUME Acquire(q) PROVE FALSE
      BY <2>1 DEF Acquire, Granted, client
  <2>2. ASSUME BecomeOwner(q) PROVE FALSE
      BY <2>2 DEF BecomeOwner, client
  <2>3. ASSUME PromotionSubscribes(q) \/ PromotionAttaches(q) PROVE FALSE
      BY <2>3 DEF PromotionSubscribes, PromotionAttaches, client
  <2>4. ASSUME PromotionFails(q) PROVE FALSE
      BY <2>4 DEF PromotionFails, PromotionAbandoned, client
  <2>5. ASSUME Renew(q) \/ RenewRefused(q) PROVE FALSE
      BY <2>5 DEF Renew, RenewRefused, client
  <2>6. ASSUME BecomeProxy(q) PROVE FALSE
      BY <2>6 DEF BecomeProxy
  <2>q. QED
      BY <1>3, <2>1, <2>2, <2>3, <2>4, <2>5, <2>6 DEF Leadership
<1>4. ASSUME NEW q \in Process, ClientStep(q) PROVE Connect(p) \/ Reconnect(p)
  <2>1. CASE q = p
      BY <1>4, <2>1 DEF ClientStep, LocalRequest, Admits, SocketDrops, TypeOK
  <2>2. CASE q # p
      BY <1>4, <2>2
         DEF ClientStep, LocalRequest, Admits, Connect, SocketDrops, Reconnect, Opens, TypeOK
  <2>q. QED
      BY <2>1, <2>2
<1>5. ASSUME NEW q \in Process, RpcStep(q) PROVE FALSE
    BY <1>5 DEF RpcStep, RpcAsk, RpcPublish, RpcTimeout, Deliver, ServeDone, client
<1>6. CASE UNCHANGED vars
    BY <1>6 DEF vars, client
<1>q. QED
    BY <1>1, <1>2, <1>3, <1>4, <1>5, <1>6 DEF Next

\* A process whose socket opens acts, and is refused only while another one has the session.
LEMMA OpensByActing ==
    ASSUME ActInv, [Next]_vars, NEW p \in Process, socket[p] # socket'[p], socket'[p] # "none"
    PROVE  /\ Reigns(p) \/ Unbrokered(p)
           /\ socket'[p] = "refused" => SessionInUse(p)
<1>0. TypeOK /\ OwnersAct
    BY DEF ActInv, IInv
<1>1. Connect(p) \/ Reconnect(p)
    BY <1>0, WhoOpens
<1>2. admitted[p] \/ rearm[p]
    BY <1>1 DEF Connect, Reconnect
<1>3. socket'[p] = IF SessionInUse(p) THEN "refused" ELSE "session"
    BY <1>0, <1>1 DEF Connect, Reconnect, Opens, TypeOK
<1>q. QED
    BY <1>0, <1>2, <1>3 DEF OwnersAct, Acts

\* As long as no renewal is late by a whole lease, a running process opens the provider socket
\* only while it is the owner, for any interleaving of requests, reconnects and elections.
THEOREM OwnersOpenSockets == ASSUME MaxLate < LeaseTtl PROVE Spec => OnlyOwnerOpensSocket
<1>1. ActInv /\ [Next]_vars =>
        [\A p \in Process : phase[p] \in {"starting", "electing", "running"}
            /\ socket[p] # socket'[p] /\ socket'[p] # "none" => owner[p]]_vars
  <2> SUFFICES ASSUME ActInv, [Next]_vars, NEW p \in Process,
                      phase[p] \in {"starting", "electing", "running"},
                      socket[p] # socket'[p], socket'[p] # "none"
               PROVE  owner[p]
      OBVIOUS
  <2>q. QED
      BY OpensByActing DEF Reigns, Unbrokered
<1>q. QED
    BY <1>1, ActInductive, PTL DEF Spec, OnlyOwnerOpensSocket

\* Under the same condition two sockets of the program contend for the provider's session only
\* through a process whose broker has failed to start or is stopping.
THEOREM OthersAreNotRefused == ASSUME MaxLate < LeaseTtl PROVE Spec => RefusedOnlyByUnbrokered
<1>1. ActInv /\ [Next]_vars =>
        [\A p \in Process : socket[p] # "refused" /\ socket'[p] = "refused" =>
            Unbrokered(p) \/ \E q \in Process : socket[q] = "session" /\ Unbrokered(q)]_vars
  <2> SUFFICES ASSUME ActInv, [Next]_vars, NEW p \in Process,
                      socket[p] # "refused", socket'[p] = "refused", ~Unbrokered(p)
               PROVE  \E q \in Process : socket[q] = "session" /\ Unbrokered(q)
      OBVIOUS
  <2>1. Reigns(p) /\ SessionInUse(p)
      BY OpensByActing
  <2>2. PICK q \in Process \ {p} : socket[q] = "session"
      BY <2>1 DEF SessionInUse
  <2>3. Reigns(q) \/ Unbrokered(q)
      BY <2>2 DEF ActInv, OwnersAct, Acts
  <2>4. ~Reigns(q)
      BY <2>1, <2>2, OneTenant DEF ActInv, AtMostOneOwner
  <2>q. QED
      BY <2>2, <2>3, <2>4
<1>q. QED
    BY <1>1, ActInductive, PTL DEF Spec, RefusedOnlyByUnbrokered

\* Under the same condition a request over Redis is executed by two processes at once only when
\* one of them is stopping: whoever takes a request up is the owner at that moment.
THEOREM RequestsExecuteOnce == ASSUME MaxLate < LeaseTtl PROVE Spec => []ExecutedOnce
<1>1. ActInv => ExecutedOnce
  <2> SUFFICES ASSUME ActInv, NEW m \in serving, NEW n \in serving, m[2] = n[2], m # n,
                      ~Unbrokered(m[1]), ~Unbrokered(n[1])
               PROVE  FALSE
      BY DEF ExecutedOnce
  <2>1. serving \subseteq Process \X Process
      BY DEF ActInv, IInv, TypeOK
  <2>2. PICK p \in Process, q \in Process, r \in Process : m = <<p, r>> /\ n = <<q, r>>
      BY <2>1
  <2>3. Reigns(p) /\ Reigns(q)
      BY <2>2 DEF ActInv, OwnersAct, Acts
  <2>4. p = q
      BY <2>3, OneTenant DEF ActInv, AtMostOneOwner
  <2>q. QED
      BY <2>2, <2>4
<1>q. QED
    BY <1>1, ActInductive, PTL
=============================================================================
