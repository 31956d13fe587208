--------------------------- MODULE MCProviderLive ---------------------------
(***************************************************************************)
(* What must happen on the way to the provider: some worker serves, and    *)
(* every call of a client ends.  The two share no state, and one of them   *)
(* moves in a behaviour.  Nothing that fairness is stated of is enabled in *)
(* their initial states but the first start of a process, so that the      *)
(* fairness of the one at rest holds as well.                              *)
(***************************************************************************)
EXTENDS GdfClient, TLC

CONSTANTS worker1, worker2, NoOwner, call1, call2, s1, s2, s3, s4

Calls == {call1, call2}
CallWithHistory == {call1}
NoCalls == {}
Socks == {s1, s2, s3, s4}
LimitOnly == {"limit"}

VARIABLES
    \* of GdfSession
    holder, ttl, late, phase, owner, granted, lost, promo, channels, listening, waited,
    remote, admitted, socket, rearm, rpc, bus, serving, faultsLeft,
    part

sessionVars == <<holder, ttl, late, phase, owner, granted, lost, promo, channels, listening,
                 waited, remote, admitted, socket, rearm, rpc, bus, serving, faultsLeft>>

Session == INSTANCE GdfSession WITH
    Candidate <- {worker1, worker2}, Proxy <- {}, LeaseTtl <- 3, MaxLate <- 3,
    Faults <- {"crash", "stop"}, MaxFaults <- 2, Caller <- {}, Asker <- {}

ProviderLiveInit ==
    /\ part \in {"session", "client"}
    /\ ClientInit /\ Session!Init

ProviderLiveNext ==
    /\ UNCHANGED part
    /\ \/ part = "session" /\ Session!Next /\ UNCHANGED clientVars
       \/ part = "client" /\ ClientNext /\ UNCHANGED sessionVars

ProviderLiveSpec ==
    /\ ProviderLiveInit /\ [][ProviderLiveNext]_<<part, clientVars, sessionVars>>
    /\ Fairness /\ Session!GoesOn
    /\ \A p \in {worker1, worker2} : WF_sessionVars(part = "session" /\ Session!Boot(p))

\* Again and again a worker owns the session and hears requests (GdfSession.SomeoneServes).
SomebodyServes == part = "session" => Session!SomeoneServes

\* An owner whose lease has gone steps down (GdfSession.StaleOwnerStepsDown).
LosersStepDown == Session!StaleOwnerStepsDown
=============================================================================
