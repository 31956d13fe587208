------------------------------- MODULE MCApi -------------------------------
(***************************************************************************)
(* The components of the API process that share no state.  One of them     *)
(* moves in a behaviour: what holds of each alone holds of them together.  *)
(***************************************************************************)
EXTENDS GdfCallGate, MarketStream, Accounts, PriceAlerts, ProviderSettings, TLC

\* The same model values serve every component, so that three swaps reduce all of them.
CONSTANTS x1, x2, y1, y2, z1, z2, one, other

X == {x1, x2}
Y == {y1, y2}
Z == {z1, z2}
Alike == Permutations(X) \union Permutations(Y) \union Permutations(Z)

Callers == X \union {one}
Symbols == Y \union {one, other}
Others == {other}
Messages == {{y1}, {y2}, Y, {one}, {other}}
Single == {one}
Prices == 1..2

VARIABLE part

ApiInit ==
    /\ part \in {"gate", "stream", "accounts", "alerts", "settings"}
    /\ part = "alerts" \/ market = 1
    /\ Init /\ StreamInit /\ AccountsInit /\ AlertsInit /\ SettingsInit

ApiNext ==
    /\ UNCHANGED part
    /\ \/ part = "gate" /\ Next /\ UNCHANGED <<streamVars, accountsVars, alertVars, settingsVars>>
       \/ part = "stream" /\ StreamNext /\ UNCHANGED <<vars, accountsVars, alertVars, settingsVars>>
       \/ part = "accounts" /\ AccountsNext /\ UNCHANGED <<vars, streamVars, alertVars, settingsVars>>
       \/ part = "alerts" /\ AlertsNext /\ UNCHANGED <<vars, streamVars, accountsVars, settingsVars>>
       \/ part = "settings" /\ SettingsNext /\ UNCHANGED <<vars, streamVars, accountsVars, alertVars>>

ApiSpec == ApiInit /\ [][ApiNext]_<<part, vars, streamVars, accountsVars, alertVars, settingsVars>>

\* Types of every component that moves here.
ApiTypeOK == TypeOK /\ StreamTypeOK /\ AccountsTypeOK
=============================================================================
