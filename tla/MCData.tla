------------------------------- MODULE MCData -------------------------------
(***************************************************************************)
(* The stored records, in components that share no state: the preparation  *)
(* of a collection, the instruments of an exchange and the signals made of *)
(* a stock's closes.  One of them moves in a behaviour: what holds of each *)
(* alone holds of them together.                                           *)
(***************************************************************************)
EXTENDS Collections, Universe, WeeklySignals, TLC

\* The same model values serve every component, so that three swaps reduce all of them.
CONSTANTS x1, x2, y1, y2, z1, z2, vague, one

X == {x1, x2}
Y == {y1, y2}
Z == {z1, z2}
Alike == Permutations(X) \union Permutations(Y) \union Permutations(Z)

Names == X \union {vague}
OneOfThem == {one}
Both == {one, vague}
Days == {0, 4, 7, 11, 14, 18, 21}
Closes == {80, 90, 100}
Tiers == {1, 2}

VARIABLE part

DataInit ==
    /\ part \in {"collection", "universe", "signals"}
    /\ Init /\ UniverseInit /\ SignalsInit
    /\ part = "collection" \/ (versions[1].from = 1 /\ active = Instrument)
    /\ part = "universe" \/ (listed = {} /\ table = <<>>)
    /\ part = "signals" \/ (today = 0 /\ closed)

DataNext ==
    /\ UNCHANGED part
    /\ \/ part = "collection" /\ Next /\ UNCHANGED <<universeVars, signalVars>>
       \/ part = "universe" /\ UniverseNext /\ UNCHANGED <<vars, signalVars>>
       \/ part = "signals" /\ SignalsNext /\ UNCHANGED <<vars, universeVars>>

DataSpec == DataInit /\ [][DataNext]_<<part, vars, universeVars, signalVars>>
=============================================================================
