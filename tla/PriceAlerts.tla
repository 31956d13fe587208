----------------------------- MODULE PriceAlerts -----------------------------
(***************************************************************************)
(* Price alerts: an evaluation of one quote reads the active alerts of a   *)
(* symbol and takes them one by one, while their owners edit them.  The    *)
(* evaluation is modelled for any caller that has a quote; the code        *)
(* exports it and has none at this commit.                                 *)
(***************************************************************************)
EXTENDS Integers

CONSTANTS
    Alert,          \* ids of price_alerts, all of one symbol
    Device,         \* push subscriptions of their owner
    Price,          \* bound: prices and targets
    Evaluation,     \* bound: evaluations under way at a time
    MaxEdits, MaxQuotes     \* bounds: requests of the owner, and evaluations

ASSUME AlertsAssumption == Price \subseteq Int /\ MaxEdits \in Nat /\ MaxQuotes \in Nat

VARIABLES
    alert,          \* the row of each alert
    market,         \* instruments.latestClose
    evaluation,     \* the price, and the rows read and not yet taken
    device,         \* endpoints registered
    armed, notified,    \* history: times an alert was made active, and was notified of
    retargeted,     \* history: by evaluation, alerts edited between its read and its update
    edits, quotes

alertHistory == <<armed, notified, retargeted>>
alertVars == <<alert, market, evaluation, device, alertHistory, edits, quotes>>

NoAlert == [status |-> "none", above |-> TRUE, target |-> 0]
Resting == [busy |-> FALSE, price |-> 0, todo |-> {}]

AlertsInit ==
    /\ alert = [a \in Alert |-> NoAlert]
    /\ market \in Price
    /\ evaluation = [e \in Evaluation |-> Resting]
    /\ device = {}
    /\ armed = [a \in Alert |-> 0] /\ notified = [a \in Alert |-> 0]
    /\ retargeted = [e \in Evaluation |-> {}]
    /\ edits = 0 /\ quotes = 0

\* isPriceAlertTriggered
Reaches(row, price) == IF row.above THEN price >= row.target ELSE price <= row.target

\* getInvalidPriceAlertTargetMessage
ValidTarget(above, target) == IF above THEN target > market ELSE target < market

Edit == edits < MaxEdits /\ edits' = edits + 1
OnRecord(a) == alert[a].status \notin {"none", "deleted"}
ReadBy(e, a) == \E row \in evaluation[e].todo : row.a = a
Edited(a) ==
    retargeted' = [e \in Evaluation |-> IF ReadBy(e, a) THEN retargeted[e] \union {a}
                                        ELSE retargeted[e]]

CreateAlert(a, above, target) ==
    /\ alert[a].status = "none" /\ Edit
    /\ ValidTarget(above, target)
    /\ alert' = [alert EXCEPT ![a] = [status |-> "ACTIVE", above |-> above, target |-> target]]
    /\ armed' = [armed EXCEPT ![a] = @ + 1]
    /\ UNCHANGED <<market, evaluation, device, notified, retargeted, quotes>>

\* updatePriceAlert: status and target, whatever the row says by now.
UpdateAlert(a, status, target) ==
    /\ OnRecord(a) /\ Edit
    /\ alert' = [alert EXCEPT ![a] = [@ EXCEPT !.status = status, !.target = target]]
    /\ armed' = IF status = "ACTIVE" /\ alert[a].status # "ACTIVE"
                THEN [armed EXCEPT ![a] = @ + 1] ELSE armed
    /\ Edited(a)
    /\ UNCHANGED <<market, evaluation, device, notified, quotes>>

DeleteAlert(a) ==
    /\ OnRecord(a) /\ Edit
    /\ alert' = [alert EXCEPT ![a].status = "deleted"]
    /\ UNCHANGED <<market, evaluation, device, alertHistory, quotes>>

\* evaluatePriceAlertsForQuote: the read.
Quoted(e, price) ==
    /\ ~evaluation[e].busy
    /\ quotes < MaxQuotes /\ quotes' = quotes + 1
    /\ market' = price
    /\ evaluation' = [evaluation EXCEPT ![e] =
            [busy |-> TRUE, price |-> price,
             todo |-> {[a |-> a, above |-> alert[a].above, target |-> alert[a].target] :
                          a \in {b \in Alert : alert[b].status = "ACTIVE"}}]]
    /\ retargeted' = [retargeted EXCEPT ![e] = {}]
    /\ UNCHANGED <<alert, device, armed, notified, edits>>

\* Mutant: the update does not ask whether the alert is still active.
StillThere(row) == alert[row.a].status # "deleted"

StillActive(row) == alert[row.a].status = "ACTIVE"

\* sendPriceAlertNotification: each device is tried; those that are gone are removed.
Notify(a) ==
    /\ notified' = [notified EXCEPT ![a] = @ + 1]
    /\ \E gone \in SUBSET device : device' = device \ gone

\* The next row that was read.
Take(e, row) ==
    /\ row \in evaluation[e].todo
    /\ evaluation' = [evaluation EXCEPT ![e].todo = @ \ {row}]
    /\ IF Reaches(row, evaluation[e].price) /\ StillActive(row)
       THEN alert' = [alert EXCEPT ![row.a].status = "TRIGGERED"] /\ Notify(row.a)
       ELSE UNCHANGED <<alert, notified, device>>
    /\ UNCHANGED <<market, armed, retargeted, edits, quotes>>

Evaluated(e) ==
    /\ evaluation[e].busy /\ evaluation[e].todo = {}
    /\ evaluation' = [evaluation EXCEPT ![e] = Resting]
    /\ UNCHANGED <<alert, market, device, alertHistory, edits, quotes>>

\* upsertPushSubscription, deletePushSubscription
Register(d) ==
    /\ device' = device \union {d} /\ Edit
    /\ UNCHANGED <<alert, market, evaluation, alertHistory, quotes>>
Unregister(d) ==
    /\ d \in device /\ device' = device \ {d} /\ Edit
    /\ UNCHANGED <<alert, market, evaluation, alertHistory, quotes>>

AlertsNext ==
    \/ \E a \in Alert :
          \/ \E target \in Price :
                \/ \E above \in BOOLEAN : CreateAlert(a, above, target)
                \/ \E status \in {"ACTIVE", "TRIGGERED", "DISABLED"} : UpdateAlert(a, status, target)
          \/ DeleteAlert(a)
    \/ \E e \in Evaluation :
          \/ \E price \in Price : Quoted(e, price)
          \/ \E row \in evaluation[e].todo : Take(e, row)
          \/ Evaluated(e)
    \/ \E d \in Device : Register(d) \/ Unregister(d)

AlertsSpec == AlertsInit /\ [][AlertsNext]_alertVars

-------------------------------------------------------------------------------
(* Properties *)

\* However many quotes are evaluated beside each other, an alert is notified of at most once
\* for each time it was made active (price-alerts.service.ts:162-168).
OneNoticePerActivation == \A a \in Alert : notified[a] <= armed[a]

\* An alert is triggered only by a price that reaches the target its row then has, unless it
\* was edited between that evaluation's read and its guarded update
\* (price-alerts.service.ts:153-165).
TriggersAtItsTarget ==
    \A a \in Alert, e \in Evaluation :
        alert[a].status = "ACTIVE" /\ alert'[a].status = "TRIGGERED" /\ edits' = edits
        /\ evaluation'[e] # evaluation[e] /\ a \notin retargeted[e]
           => IF alert[a].above THEN alert[a].target <= evaluation[e].price
              ELSE evaluation[e].price <= alert[a].target

\* Both, of every step: one notice per activation, at the row's target.
AlertsTriggerRightly == [][OneNoticePerActivation' /\ TriggersAtItsTarget]_alertVars

==============================================================================
