---------------------------- MODULE GrafanaSync ----------------------------
(***************************************************************************)
(* scripts/sync_grafana_cloud_dashboards.py: publishes the dashboards and  *)
(* the alerting resources of a checkout to one Grafana Cloud stack, one    *)
(* HTTP request after the other, and is run again and again by CI (whose   *)
(* jobs queue) or an operator.  A file is either loaded or malformed; what *)
(* is inside a resource is its revision, the receiver it routes to and     *)
(* whether it still names the one datasource without a default (the        *)
(* CloudWatch placeholder).  Grafana itself is external: it may refuse,    *)
(* apply and then report an error, be unreachable, or never answer.        *)
(***************************************************************************)
EXTENDS Naturals, Sequences, FiniteSets

CONSTANTS NDash, NRules,   \* dashboard files and alert rules that ever existed
          RuleFile,        \* the rule file each rule is written in
          Receivers,       \* names of contact points
          Inherit,         \* a rule without a receiver of its own
          Checkouts,       \* contents the working tree may have
          Calls,           \* command lines with their environment
          FailLimit,       \* _CONSECUTIVE_TRANSPORT_FAIL_LIMIT
          MaxRev, MaxRuns  \* bounds: commits and runs explored

Dashboards == {<<"dashboard", i>> : i \in 1..NDash}
Rules == {<<"rule", i>> : i \in 1..NRules}
ContactPoint == <<"contact-point", 0>>
Policy == <<"policy", 0>>
Alerts == {ContactPoint, Policy} \cup Rules
Resources == Dashboards \cup Alerts

\* One rule without a uid costs the rules of its whole file.
FileOf(r) == IF r \in Rules THEN <<"rules", RuleFile[r[2]]>> ELSE r
Files == {FileOf(r) : r \in Resources}

Checkout == [dashboardsDir : BOOLEAN, alertsDir : BOOLEAN,
             present : SUBSET Resources,  \* the two required files always count
             bad : SUBSET Files,          \* malformed, or required and missing
             name : Receivers,            \* of the contact point
             receiver : [Alerts \ {ContactPoint} -> Receivers \cup {Inherit}],
             cloudwatch : SUBSET (Dashboards \cup Rules)]
Call == [targets : {"dashboards", "alerts", "all"}, dry : BOOLEAN,
         key : BOOLEAN, url : {"unset", "http", "https"},
         recipients : {"unset", "invalid", "given"}, cloudwatchUid : BOOLEAN]

ASSUME SyncAssumption ==
    /\ {NDash, NRules, MaxRev, MaxRuns} \subseteq Nat /\ FailLimit \in Nat \ {0}
    /\ MaxRev # 0 /\ Calls # {}
    /\ RuleFile \in [1..NRules -> Nat]
    /\ Inherit \notin Receivers
    /\ Checkouts \subseteq Checkout /\ Calls \subseteq Call
    /\ \A c \in Checkouts : {ContactPoint, Policy} \subseteq c.present

VARIABLES checkout, rev,   \* the working tree and how often it was committed
          remote,          \* the Grafana stack
          call, runs,      \* the current command line, and how many there were
          pc, pass,        \* where main() is, and in which pass
          plan, verb,      \* resources still to publish; method of the next request
          failed, skipped, consecutive, aborted,   \* locals of the publish loop
          passed,          \* dashboards_exit_ok and alerts_exit_ok
          exit,            \* the exit status
          lines,           \* what the loop saw, one status per publication
          faults           \* whether Grafana or the network failed during this run

loop == <<plan, verb, failed, skipped, consecutive, aborted, lines>>
vars == <<checkout, rev, remote, call, runs, pc, pass, loop, passed, exit, faults>>

Content == [rev : 0..MaxRev, receiver : Receivers \cup {Inherit},
            uid : {"fixed", "placeholder", "real"}]
Missing == [rev |-> 0, receiver |-> Inherit, uid |-> "fixed"]
Statuses == {"ok", "refused", "unreachable"}

-----------------------------------------------------------------------------
\* What a pass loads, checks and would send.

Loaded(S) == {r \in S \cap checkout.present : FileOf(r) \notin checkout.bad}
Malformed(S) == {FileOf(r) : r \in S \cap checkout.present} \cap checkout.bad
RequiredPresent == {ContactPoint, Policy} \subseteq Loaded(Alerts)

\* Slip: a rule may route wherever it likes.
PolicyBindingErrors ==
    {r \in Loaded({Policy}) : ContactPoint \in Loaded(Alerts) /\ checkout.receiver[r] # checkout.name}

\* The policy must name the contact point; a rule may also leave that to the policy.
BindingErrors ==
    {r \in Loaded(Alerts) \ {ContactPoint} :
        /\ ContactPoint \in Loaded(Alerts)
        /\ checkout.receiver[r] # checkout.name
        /\ r = Policy \/ checkout.receiver[r] # Inherit}

\* Slip: only dashboards are searched for placeholders.
UnresolvedDashboards(S) ==
    ~call.cloudwatchUid /\ Loaded(S) \cap Dashboards \cap checkout.cloudwatch # {}

\* A placeholder without a datasource: every one but cloudwatch has a default.
Unresolved(S) == ~call.cloudwatchUid /\ Loaded(S) \cap checkout.cloudwatch # {}

Body(r) ==
    [rev |-> rev,
     receiver |-> IF r = ContactPoint THEN checkout.name
                  ELSE IF r \in Alerts THEN checkout.receiver[r] ELSE Inherit,
     uid |-> IF r \notin checkout.cloudwatch THEN "fixed"
             ELSE IF call.cloudwatchUid THEN "real" ELSE "placeholder"]

\* Files are published in the order of their names, the contact point before what needs it.
Rank(r) == CASE r = ContactPoint -> 0 [] r = Policy -> 1 [] OTHER -> 1 + r[2]
First(r) == r \in plan /\ \A q \in plan : Rank(r) <= Rank(q)

-----------------------------------------------------------------------------

\* The locals of a publish loop before its first iteration, and once it is over.
StartLoop(p) ==
    /\ plan' = p /\ verb' = "POST"
    /\ failed' = {} /\ skipped' = {}
    /\ consecutive' = 0 /\ aborted' = FALSE
    /\ lines' = <<>>

Init ==
    /\ checkout \in Checkouts /\ rev = 1
    /\ remote = [r \in Resources |-> Missing]
    /\ call = (CHOOSE c \in Calls : TRUE) /\ runs = 0
    /\ pc = "idle" /\ pass = Dashboards
    /\ plan = {} /\ verb = "POST" /\ failed = {} /\ skipped = {}
    /\ consecutive = 0 /\ aborted = FALSE /\ lines = <<>>
    /\ passed = TRUE /\ exit = 0 /\ faults = FALSE

\* Somebody changes the files between two runs.
Commit ==
    /\ pc \in {"idle", "ended", "died"} /\ rev < MaxRev
    /\ checkout' \in Checkouts
    /\ rev' = rev + 1
    /\ pc' = "idle"
    /\ UNCHANGED <<remote, call, runs, pass, loop, passed, exit, faults>>

Ends(status) ==
    /\ pc' = "ended" /\ exit' = status
    /\ UNCHANGED <<checkout, rev, remote, call, runs, pass, loop, passed, faults>>

Invoke ==
    /\ pc \in {"idle", "ended", "died"} /\ runs < MaxRuns
    /\ call' \in Calls
    /\ runs' = runs + 1
    /\ pc' = "preflight"
    /\ pass' = Dashboards /\ StartLoop({}) /\ passed' = TRUE /\ exit' = 0 /\ faults' = FALSE
    /\ UNCHANGED <<checkout, rev, remote>>

RunDashboards == call.targets # "alerts" /\ checkout.dashboardsDir
RunAlerts == call.targets # "dashboards" /\ checkout.alertsDir
UsageError ==
    \/ call.targets # "all" /\ ~RunDashboards /\ ~RunAlerts
    \/ /\ RunDashboards \/ RunAlerts
       /\ ~call.dry /\ (~call.key \/ call.url # "https")

\* A missing directory is an error only where it was asked for by name.
Preflight ==
    /\ pc = "preflight"
    /\ \/ UsageError /\ Ends(2)
       \/ ~UsageError /\ ~RunDashboards /\ ~RunAlerts /\ Ends(1)
       \/ /\ ~UsageError /\ (RunDashboards \/ RunAlerts)
          /\ pass' = IF RunDashboards THEN Dashboards ELSE Alerts
          /\ pc' = "load"
          /\ UNCHANGED <<checkout, rev, remote, call, runs, loop, passed, exit, faults>>

\* The second pass runs whatever the first one came to.
FinishPass(ok) ==
    /\ passed' = (passed /\ ok)
    /\ IF pass = Dashboards /\ RunAlerts
       THEN pass' = Alerts /\ pc' = "load" /\ UNCHANGED exit
       ELSE pass' = pass /\ pc' = "ended" /\ exit' = IF passed' THEN 0 ELSE 1
    /\ StartLoop({})
    /\ UNCHANGED <<checkout, rev, remote, call, runs, faults>>

\* Reasons for a pass to stop before anything is published.
NothingToDo ==
    \/ pass = Dashboards /\ Loaded(pass) = {} /\ Malformed(pass) = {}
    \/ pass = Alerts /\ (BindingErrors # {} \/ (~call.dry /\ ~RequiredPresent))
Misconfigured ==
    /\ ~call.dry
    /\ \/ pass = Alerts /\ call.recipients # "given"
       \/ Unresolved(pass)

Load ==
    /\ pc = "load"
    /\ \/ NothingToDo /\ FinishPass(FALSE)
       \/ ~NothingToDo /\ call.dry /\ FinishPass(Malformed(pass) = {})
       \/ ~NothingToDo /\ Misconfigured /\ Ends(2)
       \/ /\ ~NothingToDo /\ ~call.dry /\ ~Misconfigured
          /\ pc' = "publish"
          /\ StartLoop(Loaded(pass))
          /\ UNCHANGED <<checkout, rev, remote, call, runs, pass, passed, exit, faults>>

\* Slip: an answer other than 599 leaves the counter alone.
CountForGood(status) ==
    consecutive' = IF status = "unreachable" THEN consecutive + 1
                   ELSE IF status = "ok" THEN 0 ELSE consecutive

\* Any real HTTP status shows that Grafana is reachable.
Count(status) == consecutive' = IF status = "unreachable" THEN consecutive + 1 ELSE 0

\* Slip: one failure more than the limit.
ReturnsLate(r, status) ==
    /\ failed' = IF status = "ok" THEN failed ELSE failed \cup {r}
    /\ Count(status)
    /\ aborted' = (consecutive' > FailLimit)
    /\ lines' = Append(lines, status)
    /\ plan' = plan \ {r}
    /\ verb' = "POST"
    /\ UNCHANGED <<skipped, pc, exit>>

\* post_*() returned: one iteration of the publish loop.
Returns(r, status) ==
    /\ failed' = IF status = "ok" THEN failed ELSE failed \cup {r}
    /\ Count(status)
    /\ aborted' = (consecutive' >= FailLimit)
    /\ lines' = Append(lines, status)
    /\ plan' = plan \ {r}
    /\ verb' = "POST"
    /\ UNCHANGED <<skipped, pc, exit>>

\* Grafana overwrites dashboards and its one policy (always PUT); any other resource that
\* exists cannot be created.
Conflict(r) == verb = "POST" /\ r \in Alerts \ {Policy} /\ remote[r] # Missing
Applied(r) == remote' = [remote EXCEPT ![r] = Body(r)]

Accepted(r) ==
    /\ ~Conflict(r)
    /\ Applied(r) /\ Returns(r, "ok")
    /\ UNCHANGED faults

\* Slip: 409 is a failure like any other.
NoFallback(r) == Conflict(r) /\ Returns(r, "refused") /\ UNCHANGED <<remote, faults>>

\* 409: the resource is there from an earlier run, so it is updated instead.
FallBackToPut(r) ==
    /\ Conflict(r)
    /\ verb' = "PUT"
    /\ UNCHANGED <<remote, plan, failed, skipped, consecutive, aborted, lines, pc, exit, faults>>

\* An error status; a gateway may answer one although Grafana applied the request.
Refused(r) ==
    /\ UNCHANGED remote \/ (~Conflict(r) /\ Applied(r))
    /\ Returns(r, "refused")
    /\ faults' = TRUE

\* urllib could not send the request: 599.
Unreachable(r) ==
    /\ Returns(r, "unreachable")
    /\ faults' = TRUE
    /\ UNCHANGED remote

\* The request was sent and no answer came: urllib passes the TimeoutError (or
\* RemoteDisconnected) on, which is no URLError, and nothing catches it.
NoAnswer(r) ==
    /\ UNCHANGED remote \/ (~Conflict(r) /\ Applied(r))
    /\ pc' = "died" /\ exit' = 1
    /\ faults' = TRUE
    /\ StartLoop({})

Publish ==
    /\ pc = "publish" /\ ~aborted
    /\ \E r \in plan : First(r) /\
          (Accepted(r) \/ FallBackToPut(r) \/ Refused(r) \/ Unreachable(r) \/ NoAnswer(r))
    /\ UNCHANGED <<checkout, rev, call, runs, pass, passed>>

\* Slip: the loop is left at once.
BreakOff ==
    /\ pc = "publish" /\ plan # {} /\ aborted
    /\ plan' = {}
    /\ UNCHANGED <<checkout, rev, remote, call, runs, pc, pass, verb, failed, skipped,
                   consecutive, aborted, lines, passed, exit, faults>>

\* After an abort the loop goes on only to note what it leaves out.
SkipRest ==
    /\ pc = "publish" /\ plan # {} /\ aborted
    /\ skipped' = skipped \cup plan
    /\ plan' = {}
    /\ UNCHANGED <<checkout, rev, remote, call, runs, pc, pass, verb, failed,
                   consecutive, aborted, lines, passed, exit, faults>>

\* Slip: files that could not be read are reported and forgotten.
PassedReadable == failed \cup skipped = {}

\* Slip: the contact point is published on its own, and only the loop over the rest counts.
PassedWithoutContactPoint == (failed \ {ContactPoint}) \cup skipped \cup Malformed(pass) = {}

Passed == failed \cup skipped \cup Malformed(pass) = {}

Summary ==
    /\ pc = "publish" /\ plan = {}
    /\ FinishPass(Passed)

Next == Commit \/ Invoke \/ Preflight \/ Load \/ Publish \/ SkipRest \/ Summary

Spec == Init /\ [][Next]_vars

-----------------------------------------------------------------------------

\* Every variable holds a value of its kind.
TypeOK ==
    /\ checkout \in Checkouts /\ call \in Calls
    /\ rev \in 1..MaxRev /\ runs \in 0..MaxRuns /\ exit \in 0..2
    /\ remote \in [Resources -> Content]
    /\ pc \in {"idle", "preflight", "load", "publish", "ended", "died"}
    /\ pass \in {Dashboards, Alerts}
    /\ plan \subseteq Resources /\ verb \in {"POST", "PUT"}
    /\ failed \subseteq Resources /\ skipped \subseteq Resources
    /\ consecutive \in 0..FailLimit /\ aborted \in BOOLEAN
    /\ lines \in Seq(Statuses)
    /\ passed \in BOOLEAN /\ faults \in BOOLEAN

Selected == (IF RunDashboards THEN Dashboards ELSE {}) \cup (IF RunAlerts THEN Alerts ELSE {})

\* Exit status 0 of a live run is what CI and the operator go by: every file of the passes
\* that ran was readable, and the stack holds this revision of every resource in them,
\* whatever earlier runs had left there.
SuccessMeansSynced ==
    pc = "ended" /\ exit = 0 /\ ~call.dry =>
        /\ Malformed(Selected) = {}
        /\ \A r \in Selected \cap checkout.present : remote[r] = Body(r)

\* "Fires but emails nobody": after a run that published the alerts and succeeded, every
\* alert of the checkout that names a receiver of its own names the contact point that is
\* really in the stack (find_receiver_binding_errors).
AlertsAreDelivered ==
    pc = "ended" /\ exit = 0 /\ ~call.dry /\ RunAlerts =>
        \A r \in (Alerts \cap checkout.present) \ {ContactPoint} :
            remote[r].receiver \in {remote[ContactPoint].receiver, Inherit}

\* No run, however it ended, has put a resource into the stack whose CloudWatch queries
\* point at nothing: placeholders are resolved before the first request of a pass.
NoPlaceholderPublished == \A r \in Resources : remote[r].uid # "placeholder"

\* A pass gives up exactly when its last FailLimit publications in a row could not reach
\* Grafana: isolated failures and error answers never make it skip a resource.
GivesUpOnlyWhenUnreachable ==
    pc = "publish" =>
        (aborted <=> /\ Len(lines) >= FailLimit
                     /\ \A i \in (Len(lines) - FailLimit + 1)..Len(lines) : lines[i] = "unreachable")

\* When the summary of a pass is written, each resource of the pass is in it once, as
\* published, failed or skipped: the numbers it prints add up to what the loop saw.
SummaryIsComplete ==
    pc = "publish" /\ plan = {} =>
        LET Lines(S) == Cardinality({i \in 1..Len(lines) : lines[i] \in S}) IN
        /\ failed \cap skipped = {} /\ failed \cup skipped \subseteq Loaded(pass)
        /\ Lines({"refused", "unreachable"}) = Cardinality(failed)
        /\ Lines({"ok"}) = Cardinality(Loaded(pass) \ (failed \cup skipped))

\* Whatever an earlier run left half done, or failed to hear of, the next run that meets
\* no fault and has a sound configuration succeeds: 409 is answered by an update.
NextRunRepairs ==
    /\ pc = "ended" /\ ~faults /\ ~call.dry /\ exit # 0
    => \/ Malformed(Selected) # {} \/ UsageError \/ Selected = {}
       \/ RunDashboards /\ Loaded(Dashboards) = {}
       \/ RunAlerts /\ (BindingErrors # {} \/ call.recipients # "given")
       \/ Unresolved(Selected)

\* The loops never leave the stack half published because one answer is late: a run stops
\* only at a summary or at an error found before the first request of a pass
\* (docstring of post_dashboard).
NeverAbandonsAPass == pc # "died"

=============================================================================
