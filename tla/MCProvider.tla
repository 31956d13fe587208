----------------------------- MODULE MCProvider -----------------------------
(***************************************************************************)
(* What processes ask of each other, in components that share no state:    *)
(* the provider session one of them owns, the queue of a process's         *)
(* provider calls, and the operations that rows of sync_jobs tell of.  One *)
(* of them moves in a behaviour: what holds of each alone holds of them    *)
(* together.                                                               *)
(***************************************************************************)
EXTENDS GdfSession, GdfClient, SyncJobs, TLC

\* The same model values serve every component, so that two swaps reduce all of them.
CONSTANTS x1, x2, y1, y2, api

X == {x1, x2}
Y == {y1, y2}
Alike == Permutations(X) \union Permutations(Y)

Api == {api}
Everyone == X \union Api

VARIABLE part

ProviderInit ==
    /\ part \in {"session", "client", "jobs"}
    /\ part = "jobs" \/ setup = "production"
    /\ Init /\ ClientInit /\ SyncInit

ProviderNext ==
    /\ UNCHANGED part
    /\ \/ part = "session" /\ Next /\ UNCHANGED <<clientVars, syncVars>>
       \/ part = "client" /\ ClientNext /\ UNCHANGED <<vars, syncVars>>
       \/ part = "jobs" /\ SyncNext /\ UNCHANGED <<vars, clientVars>>

ProviderSpec == ProviderInit /\ [][ProviderNext]_<<part, vars, clientVars, syncVars>>
=============================================================================
