---------------------------- MODULE MCGrafanaSync ---------------------------
(***************************************************************************)
(* Four dashboards (so that a pass can lose two, reach Grafana, and lose   *)
(* one more; or lose three and skip one), two rules in one file, checkouts *)
(* with each kind of mistake, and the calls CI and operators make.         *)
(***************************************************************************)
EXTENDS GrafanaSync

OneFile == <<1, 1>>

Good == [dashboardsDir |-> TRUE, alertsDir |-> TRUE, present |-> Resources, bad |-> {},
         name |-> "email",
         receiver |-> [r \in Alerts \ {ContactPoint} |->
                          IF r = <<"rule", 2>> THEN Inherit ELSE "email"],
         cloudwatch |-> {<<"dashboard", 1>>, <<"rule", 1>>}]

Renamed == [Good EXCEPT !.name = "pager",
                        !.receiver = [r \in Alerts \ {ContactPoint} |-> "pager"]]
HalfRenamed == [Good EXCEPT !.name = "pager", !.receiver[Policy] = "pager"]
NoRulesInUse == [Good EXCEPT !.present = Resources \ Rules, !.cloudwatch = {}]
BadFiles == [Good EXCEPT !.bad = {<<"dashboard", 2>>, <<"rules", 1>>}]
NoContact == [Good EXCEPT !.bad = {ContactPoint}]
NoDirectories == [Good EXCEPT !.dashboardsDir = FALSE, !.alertsDir = FALSE]
AlertsOnly == [Good EXCEPT !.present = Alerts, !.cloudwatch = {<<"rule", 1>>}]
MCCheckouts == {Good, Renamed, HalfRenamed, NoRulesInUse, BadFiles, NoContact, NoDirectories, AlertsOnly}

CI == [targets |-> "all", dry |-> FALSE, key |-> TRUE, url |-> "https",
       recipients |-> "given", cloudwatchUid |-> TRUE]
MCCalls == {CI, [CI EXCEPT !.dry = TRUE], [CI EXCEPT !.targets = "dashboards"],
            [CI EXCEPT !.targets = "alerts"], [CI EXCEPT !.recipients = "unset"],
            [CI EXCEPT !.cloudwatchUid = FALSE], [CI EXCEPT !.url = "http"],
            [CI EXCEPT !.targets = "alerts", !.cloudwatchUid = FALSE]}

\* The first checkout is sound; every other one may be committed before or after a run.
FromGood == Init /\ checkout = Good
GoodSpec == FromGood /\ [][Next]_vars

=============================================================================
