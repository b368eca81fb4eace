------------------------- MODULE GrafanaSyncProofs --------------------------
(***************************************************************************)
(* For every number of dashboards, rules, runs and commits, every working  *)
(* tree and every command line, and whatever Grafana and the network do:   *)
(* what exit status 0, a summary and an aborted pass mean, and that a run  *)
(* without faults repairs what earlier ones left.                          *)
(***************************************************************************)
EXTENDS GrafanaSync, FiniteSetTheorems, TLAPS

Running == pc \in {"load", "publish"}

\* The stack holds this revision of all that these passes should publish.
Synced(S) == Malformed(S) = {} /\ \A r \in Loaded(S) : remote[r] = Body(r)

\* A pass runs only where it was asked for and its directory is there.
PassInv ==
    /\ pc = "preflight" => passed
    /\ Running => /\ ~UsageError
                  /\ pass = Dashboards => RunDashboards /\ passed
                  /\ pass = Alerts => RunAlerts

\* What was found in order before the first request of a pass.
CheckedInv ==
    pc = "publish" =>
        /\ ~call.dry /\ ~Unresolved(pass)
        /\ pass = Alerts => BindingErrors = {} /\ RequiredPresent

\* A resource of the pass is yet to come, failed, skipped, or in the stack.
Done == Loaded(pass) \ (plan \cup failed \cup skipped)
LoopInv ==
    pc = "publish" =>
        /\ plan \cup failed \cup skipped \subseteq Loaded(pass)
        /\ plan \cap failed = {} /\ plan \cap skipped = {} /\ failed \cap skipped = {}
        /\ \A r \in Done : remote[r] = Body(r)

\* The first pass is not forgotten in the second, nor both at the end.
FirstInv ==
    Running /\ pass = Alerts /\ RunDashboards /\ passed /\ ~call.dry => Synced(Dashboards)
EndInv ==
    pc = "ended" /\ exit = 0 /\ ~call.dry =>
        /\ Synced(Selected)
        /\ RunAlerts => BindingErrors = {} /\ RequiredPresent

LimitInv == aborted <=> consecutive >= FailLimit

\* consecutive counts the unreachable answers at the end of lines.
CountInv ==
    pc = "publish" =>
        /\ consecutive <= Len(lines)
        /\ \A i \in (Len(lines) - consecutive + 1)..Len(lines) : lines[i] = "unreachable"
        /\ consecutive < Len(lines) => lines[Len(lines) - consecutive] # "unreachable"

LineNumbers(S) == {i \in 1..Len(lines) : lines[i] \in S}
LinesInv ==
    pc = "publish" =>
        /\ IsFiniteSet(failed) /\ IsFiniteSet(Done)
        /\ Cardinality(LineNumbers({"refused", "unreachable"})) = Cardinality(failed)
        /\ Cardinality(LineNumbers({"ok"})) = Cardinality(Done)

\* Without a fault in this run nothing fails but what the checkout and the command line
\* get wrong.
QuietInv ==
    ~faults =>
        /\ pc = "publish" => failed = {} /\ skipped = {} /\ ~aborted
        /\ pc # "died"
        /\ Running /\ ~call.dry /\ ~passed =>
              /\ pass = Alerts /\ RunDashboards
              /\ Malformed(Dashboards) # {} \/ Loaded(Dashboards) = {}

IInv == /\ TypeOK /\ LimitInv /\ PassInv /\ CheckedInv /\ LoopInv /\ FirstInv /\ EndInv
        /\ CountInv /\ LinesInv /\ QuietInv /\ NoPlaceholderPublished

-----------------------------------------------------------------------------

LEMMA Apart ==
    /\ Dashboards \cap Alerts = {} /\ Dashboards # Alerts
    /\ ContactPoint \in Alerts /\ Policy \in Alerts /\ ContactPoint # Policy
    /\ Rules \subseteq Alerts
    /\ Resources = Dashboards \cup Alerts
<1>1. ASSUME NEW r \in Dashboards PROVE r[1] = "dashboard"
  BY <1>1 DEF Dashboards
<1>2. ASSUME NEW r \in Rules PROVE r[1] = "rule"
  BY <1>2 DEF Rules
<1>3. /\ ContactPoint[1] = "contact-point" /\ Policy[1] = "policy"
  BY DEF ContactPoint, Policy
<1>4. "dashboard" # "rule" /\ "dashboard" # "contact-point" /\ "dashboard" # "policy"
      /\ "contact-point" # "policy"
  OBVIOUS
<1>5. Dashboards \cap Alerts = {} /\ ContactPoint # Policy
  BY <1>1, <1>2, <1>3, <1>4 DEF Alerts
<1> QED
  BY <1>5 DEF Alerts, Resources

LEMMA BodyTyped ==
    ASSUME TypeOK, NEW r \in Resources
    PROVE  Body(r) \in Content
<1>1. checkout \in Checkout
  BY SyncAssumption DEF TypeOK
<1>2. checkout.name \in Receivers /\ \A a \in Alerts \ {ContactPoint} :
         checkout.receiver[a] \in Receivers \cup {Inherit}
  BY <1>1 DEF Checkout
<1>3. rev \in 0..MaxRev
  BY DEF TypeOK
<1> QED
  BY <1>2, <1>3 DEF Body, Content

\* A publication that may have changed the stack.
LEMMA StackTyped ==
    ASSUME TypeOK, NEW r \in Resources, UNCHANGED remote \/ Applied(r)
    PROVE  remote' \in [Resources -> Content]
BY BodyTyped DEF TypeOK, Applied

LEMMA ReturnsTyped ==
    ASSUME TypeOK, LimitInv, ~aborted,
           NEW r \in Resources, NEW status \in Statuses, Returns(r, status)
    PROVE  /\ plan' \subseteq Resources /\ verb' \in {"POST", "PUT"}
           /\ failed' \subseteq Resources /\ skipped' = skipped /\ pc' = pc /\ exit' = exit
           /\ consecutive' \in 0..FailLimit /\ aborted' \in BOOLEAN
           /\ lines' \in Seq(Statuses)
           /\ LimitInv'
<1>1. consecutive' \in 0..FailLimit
  BY SyncAssumption DEF Returns, Count, TypeOK, LimitInv
<1>2. lines' \in Seq(Statuses)
  BY DEF Returns, TypeOK
<1>3. aborted' \in BOOLEAN
  BY <1>1, SyncAssumption, SMT DEF Returns
<1>4. LimitInv'
  BY Zenon DEF Returns, LimitInv
<1>5. /\ plan' \subseteq Resources /\ verb' \in {"POST", "PUT"}
      /\ failed' \subseteq Resources /\ skipped' = skipped /\ pc' = pc /\ exit' = exit
  BY DEF Returns, TypeOK
<1> QED
  BY <1>1, <1>2, <1>3, <1>4, <1>5

\* The locals of a loop that starts afresh.
LEMMA StartTyped ==
    ASSUME NEW p \in SUBSET Resources, StartLoop(p)
    PROVE  /\ plan' \subseteq Resources /\ verb' \in {"POST", "PUT"}
           /\ failed' \subseteq Resources /\ skipped' \subseteq Resources
           /\ consecutive' \in 0..FailLimit /\ aborted' \in BOOLEAN
           /\ lines' \in Seq(Statuses)
           /\ LimitInv'
<1>1. aborted' = FALSE /\ consecutive' = 0 /\ lines' = <<>>
  BY DEF StartLoop
<1>2. LimitInv' /\ consecutive' \in 0..FailLimit
  BY <1>1, SyncAssumption DEF LimitInv
<1>3. aborted' \in BOOLEAN
  BY <1>1
<1>4. lines' \in Seq(Statuses)
  BY <1>1
<1>5. /\ plan' \subseteq Resources /\ verb' \in {"POST", "PUT"}
      /\ failed' \subseteq Resources /\ skipped' \subseteq Resources
  BY DEF StartLoop
<1> QED
  BY <1>2, <1>3, <1>4, <1>5

LEMMA PublishTyped == TypeOK /\ LimitInv /\ Publish => TypeOK' /\ LimitInv'
<1> SUFFICES ASSUME TypeOK, LimitInv, Publish PROVE TypeOK' /\ LimitInv'
  OBVIOUS
<1>1. PICK r \in plan :
         Accepted(r) \/ FallBackToPut(r) \/ Refused(r) \/ Unreachable(r) \/ NoAnswer(r)
  BY DEF Publish
<1>2. /\ r \in Resources /\ ~aborted
      /\ UNCHANGED <<checkout, rev, call, runs, pass, passed>>
  BY DEF Publish, TypeOK
<1>3. {"ok", "refused", "unreachable"} \subseteq Statuses
  BY DEF Statuses
<1>4. CASE Accepted(r)
  <2>1. Returns(r, "ok") /\ Applied(r) /\ faults' = faults
    BY <1>4 DEF Accepted
  <2> QED
    BY <2>1, <1>2, <1>3, ReturnsTyped, StackTyped DEF TypeOK
<1>5. CASE FallBackToPut(r)
  BY <1>5, <1>2 DEF FallBackToPut, TypeOK, LimitInv
<1>6. CASE Refused(r)
  <2>1. Returns(r, "refused") /\ (UNCHANGED remote \/ Applied(r)) /\ faults' = TRUE
    BY <1>6 DEF Refused
  <2> QED
    BY <2>1, <1>2, <1>3, ReturnsTyped, StackTyped DEF TypeOK
<1>7. CASE Unreachable(r)
  <2>1. Returns(r, "unreachable") /\ UNCHANGED remote /\ faults' = TRUE
    BY <1>7 DEF Unreachable
  <2> QED
    BY <2>1, <1>2, <1>3, ReturnsTyped, StackTyped DEF TypeOK
<1>8. CASE NoAnswer(r)
  <2>1. /\ StartLoop({}) /\ (UNCHANGED remote \/ Applied(r))
        /\ faults' = TRUE /\ pc' = "died" /\ exit' = 1
    BY <1>8 DEF NoAnswer
  <2> QED
    BY <2>1, <1>2, StartTyped, StackTyped DEF TypeOK
<1> QED
  BY <1>1, <1>4, <1>5, <1>6, <1>7, <1>8

LEMMA TypeStep == TypeOK /\ LimitInv /\ [Next]_vars => TypeOK' /\ LimitInv'
<1> SUFFICES ASSUME TypeOK, LimitInv, [Next]_vars PROVE TypeOK' /\ LimitInv'
  OBVIOUS
<1>1. CASE Commit
  BY <1>1, SyncAssumption DEF Commit, TypeOK, LimitInv, loop
<1>2. CASE Invoke
  <2>1. StartLoop({})
    BY <1>2 DEF Invoke
  <2>2. /\ call' \in Calls /\ runs' \in 0..MaxRuns /\ exit' \in 0..2
        /\ pass' \in {Dashboards, Alerts}
    BY <1>2, SyncAssumption DEF Invoke, TypeOK
  <2>3. /\ passed' \in BOOLEAN /\ faults' \in BOOLEAN
        /\ pc' \in {"idle", "preflight", "load", "publish", "ended", "died"}
        /\ UNCHANGED <<checkout, rev, remote>>
    BY <1>2 DEF Invoke
  <2> QED
    BY <2>1, <2>2, <2>3, StartTyped DEF TypeOK
<1>3. CASE Preflight
  BY <1>3 DEF Preflight, Ends, TypeOK, LimitInv, loop
<1>4. ASSUME NEW ok \in BOOLEAN, FinishPass(ok) PROVE TypeOK' /\ LimitInv'
  <2>1. passed' \in BOOLEAN /\ pass' \in {Dashboards, Alerts} /\ exit' \in 0..2
        /\ pc' \in {"load", "ended"}
    BY <1>4 DEF FinishPass, TypeOK
  <2> QED
    BY <2>1, <1>4, StartTyped DEF FinishPass, TypeOK
<1>5. CASE Load
  <2>1. ASSUME NEW s \in 0..2, Ends(s) PROVE TypeOK' /\ LimitInv'
    BY <2>1 DEF Ends, TypeOK, LimitInv, loop
  <2>2. Loaded(pass) \subseteq Resources
    BY DEF Loaded, TypeOK, Resources
  <2>3. ASSUME pc' = "publish", StartLoop(Loaded(pass)),
               UNCHANGED <<checkout, rev, remote, call, runs, pass, passed, exit, faults>>
        PROVE  TypeOK' /\ LimitInv'
    BY <2>2, <2>3, StartTyped DEF TypeOK
  <2>4. (Malformed(pass) = {}) \in BOOLEAN
    OBVIOUS
  <2>5. \/ \E ok \in BOOLEAN : FinishPass(ok)
        \/ Ends(2)
        \/ /\ pc' = "publish" /\ StartLoop(Loaded(pass))
           /\ UNCHANGED <<checkout, rev, remote, call, runs, pass, passed, exit, faults>>
    BY <1>5, <2>4 DEF Load
  <2> QED
    BY <2>5, <1>4, <2>1, <2>3
<1>6. CASE Publish
  BY <1>6, PublishTyped
<1>7. CASE SkipRest
  BY <1>7 DEF SkipRest, TypeOK, LimitInv
<1>8. CASE Summary
  <2>1. Passed \in BOOLEAN
    BY DEF Passed
  <2> QED
    BY <1>8, <2>1, <1>4 DEF Summary
<1>9. CASE UNCHANGED vars
  BY <1>9 DEF vars, loop, TypeOK, LimitInv
<1> QED
  BY <1>1, <1>2, <1>3, <1>5, <1>6, <1>7, <1>8, <1>9 DEF Next

-----------------------------------------------------------------------------
\* What the definitions about a checkout and a command line depend on.

LEMMA Frame ==
    ASSUME UNCHANGED <<checkout, rev, call>>
    PROVE  /\ \A S : Loaded(S)' = Loaded(S) /\ Malformed(S)' = Malformed(S)
           /\ \A S : Unresolved(S)' <=> Unresolved(S)
           /\ \A r : Body(r)' = Body(r)
           /\ BindingErrors' = BindingErrors /\ (RequiredPresent' <=> RequiredPresent)
           /\ (RunDashboards' <=> RunDashboards) /\ (RunAlerts' <=> RunAlerts)
           /\ (UsageError' <=> UsageError) /\ Selected' = Selected
<1>1. \A S : Loaded(S)' = Loaded(S) /\ Malformed(S)' = Malformed(S)
  BY DEF Loaded, Malformed
<1>2. \A r : Body(r)' = Body(r)
  BY DEF Body
<1>3. (RunDashboards' <=> RunDashboards) /\ (RunAlerts' <=> RunAlerts)
  BY DEF RunDashboards, RunAlerts
<1>4. \A S : Unresolved(S)' <=> Unresolved(S)
  BY <1>1 DEF Unresolved
<1>5. BindingErrors' = BindingErrors /\ (RequiredPresent' <=> RequiredPresent)
  BY <1>1 DEF BindingErrors, RequiredPresent
<1>6. (UsageError' <=> UsageError) /\ Selected' = Selected
  BY <1>3 DEF UsageError, Selected
<1> QED
  BY <1>1, <1>2, <1>3, <1>4, <1>5, <1>6

\* The five ways a publication goes on.
LEMMA PublishCases ==
    ASSUME TypeOK, Publish
    PROVE  /\ pc = "publish" /\ UNCHANGED <<checkout, rev, call, runs, pass, passed>>
           /\ \E r \in plan :
                 /\ UNCHANGED remote \/ Applied(r)
                 /\ \/ FallBackToPut(r)
                    \/ Returns(r, "ok") /\ Applied(r) /\ UNCHANGED faults
                    \/ Returns(r, "refused") /\ faults' = TRUE
                    \/ Returns(r, "unreachable") /\ faults' = TRUE
                    \/ pc' = "died" /\ exit' = 1 /\ faults' = TRUE /\ StartLoop({})
BY DEF Publish, Accepted, FallBackToPut, Refused, Unreachable, NoAnswer

LEMMA PassStep == IInv /\ [Next]_vars => PassInv'
<1> SUFFICES ASSUME IInv, [Next]_vars PROVE PassInv'
  OBVIOUS
<1> USE DEF IInv, PassInv, Running
<1>1. CASE Commit \/ Invoke
  BY <1>1 DEF Commit, Invoke
<1>2. CASE Preflight
  BY <1>2, Frame, Apart DEF Preflight, Ends
<1>3. ASSUME NEW ok \in BOOLEAN, Running, FinishPass(ok) PROVE PassInv'
  BY <1>3, Frame, Apart DEF FinishPass
<1>4. CASE Load
  <2>1. (Malformed(pass) = {}) \in BOOLEAN /\ Running
    BY <1>4 DEF Load
  <2>2. ASSUME Ends(2) PROVE PassInv'
    BY <2>2 DEF Ends
  <2>3. ASSUME pc' = "publish", UNCHANGED <<checkout, rev, call, pass, passed>> PROVE PassInv'
    BY <2>1, <2>3, Frame
  <2> QED
    BY <1>4, <1>3, <2>1, <2>2, <2>3 DEF Load
<1>5. CASE Publish
  BY <1>5, PublishCases, Frame DEF Returns, FallBackToPut
<1>6. CASE SkipRest
  BY <1>6, Frame DEF SkipRest
<1>7. CASE Summary
  BY <1>7, <1>3 DEF Summary, Passed
<1>8. CASE UNCHANGED vars
  BY <1>8, Frame DEF vars, loop
<1> QED
  BY <1>1, <1>2, <1>4, <1>5, <1>6, <1>7, <1>8 DEF Next

LEMMA CheckedStep == IInv /\ [Next]_vars => CheckedInv'
<1> SUFFICES ASSUME IInv, [Next]_vars PROVE CheckedInv'
  OBVIOUS
<1> USE DEF IInv, CheckedInv
<1>1. CASE Commit \/ Invoke \/ Preflight
  BY <1>1 DEF Commit, Invoke, Preflight, Ends
<1>2. ASSUME NEW ok \in BOOLEAN, FinishPass(ok) PROVE CheckedInv'
  BY <1>2 DEF FinishPass
<1>3. CASE Load
  <2>1. (Malformed(pass) = {}) \in BOOLEAN
    OBVIOUS
  <2>2. ASSUME Ends(2) PROVE CheckedInv'
    BY <2>2 DEF Ends
  <2>3. ASSUME ~NothingToDo, ~call.dry, ~Misconfigured,
               UNCHANGED <<checkout, rev, call, pass>>
        PROVE  CheckedInv'
    BY <2>3, Frame DEF NothingToDo, Misconfigured
  <2> QED
    BY <1>3, <1>2, <2>1, <2>2, <2>3 DEF Load
<1>4. CASE Publish
  BY <1>4, PublishCases, Frame
<1>5. CASE SkipRest
  BY <1>5, Frame DEF SkipRest
<1>6. CASE Summary
  BY <1>6, <1>2 DEF Summary, Passed
<1>7. CASE UNCHANGED vars
  BY <1>7, Frame DEF vars, loop
<1> QED
  BY <1>1, <1>3, <1>4, <1>5, <1>6, <1>7 DEF Next

-----------------------------------------------------------------------------
\* How a step changes the loop, if the loop is still there afterwards.

LEMMA LoopCases ==
    ASSUME IInv, [Next]_vars, pc' = "publish"
    PROVE  \/ /\ StartLoop(Loaded(pass)) /\ pc = "load"
              /\ UNCHANGED <<checkout, rev, call, pass, faults>>
           \/ /\ pc = "publish" /\ UNCHANGED <<checkout, rev, call, pass>>
              /\ \/ UNCHANGED <<plan, failed, skipped, consecutive, aborted, lines, remote, faults>>
                 \/ /\ aborted /\ plan' = {} /\ skipped' = skipped \cup plan
                    /\ UNCHANGED <<failed, consecutive, aborted, lines, remote, faults>>
                 \/ /\ ~aborted
                    /\ \E r \in plan : /\ UNCHANGED remote \/ Applied(r)
                                       /\ \/ Returns(r, "ok") /\ Applied(r) /\ UNCHANGED faults
                                          \/ Returns(r, "refused") /\ faults' = TRUE
                                          \/ Returns(r, "unreachable") /\ faults' = TRUE
<1>1. ~Commit /\ ~Invoke /\ ~Preflight /\ \A ok \in BOOLEAN : ~FinishPass(ok)
  BY DEF Commit, Invoke, Preflight, Ends, FinishPass
<1>2. ~Summary
  BY <1>1 DEF Summary, Passed
<1>3. CASE Load
  <2>1. (Malformed(pass) = {}) \in BOOLEAN /\ ~Ends(2)
    BY DEF Ends
  <2> QED
    BY <1>1, <1>3, <2>1 DEF Load
<1>4. CASE Publish
  BY <1>4, PublishCases DEF Publish, FallBackToPut, IInv
<1>5. CASE SkipRest
  BY <1>5 DEF SkipRest
<1>6. CASE UNCHANGED vars
  BY <1>6 DEF vars, loop
<1> QED
  BY <1>1, <1>2, <1>3, <1>4, <1>5, <1>6 DEF Next

LEMMA LoopStep == IInv /\ [Next]_vars => LoopInv'
<1> SUFFICES ASSUME IInv, [Next]_vars, pc' = "publish" PROVE LoopInv'
  BY DEF LoopInv
<1> USE DEF IInv, LoopInv, Done
<1>1. CASE StartLoop(Loaded(pass)) /\ UNCHANGED <<checkout, rev, call, pass>>
  BY <1>1, Frame DEF StartLoop
<1>2. CASE /\ pc = "publish" /\ UNCHANGED <<checkout, rev, call, pass>>
           /\ UNCHANGED <<plan, failed, skipped, remote>>
  BY <1>2, Frame
<1>3. CASE /\ pc = "publish" /\ UNCHANGED <<checkout, rev, call, pass>>
           /\ plan' = {} /\ skipped' = skipped \cup plan /\ UNCHANGED <<failed, remote>>
  BY <1>3, Frame
<1>4. ASSUME pc = "publish", UNCHANGED <<checkout, rev, call, pass>>, NEW r \in plan,
             \/ Returns(r, "ok") /\ Applied(r)
             \/ /\ UNCHANGED remote \/ Applied(r)
                /\ Returns(r, "refused") \/ Returns(r, "unreachable")
      PROVE  LoopInv'
  <2>1. /\ plan' = plan \ {r} /\ skipped' = skipped
        /\ \/ failed' = failed /\ Applied(r)
           \/ failed' = failed \cup {r} /\ (UNCHANGED remote \/ Applied(r))
    BY <1>4 DEF Returns
  <2>2. /\ \A q \in Resources \ {r} : remote'[q] = remote[q]
        /\ Applied(r) => remote'[r] = Body(r)
    BY <2>1, <1>4 DEF Applied, TypeOK
  <2>3. Loaded(pass) \subseteq Resources
    BY DEF Loaded, TypeOK, Resources
  <2> QED
    BY <1>4, <2>1, <2>2, <2>3, Frame
<1> QED
  BY <1>1, <1>2, <1>3, <1>4, LoopCases

LEMMA PlaceStep == IInv /\ [Next]_vars => NoPlaceholderPublished'
<1> SUFFICES ASSUME IInv, [Next]_vars PROVE NoPlaceholderPublished'
  OBVIOUS
<1> USE DEF IInv, NoPlaceholderPublished
<1>1. CASE Publish
  <2>1. PICK r \in plan : UNCHANGED remote \/ Applied(r)
    BY <1>1, PublishCases
  <2>2. r \in Loaded(pass) /\ ~Unresolved(pass)
    BY <1>1 DEF Publish, LoopInv, CheckedInv
  <2>3. Body(r).uid # "placeholder"
    BY <2>2 DEF Body, Unresolved
  <2> QED
    BY <2>1, <2>3 DEF Applied, TypeOK
<1>2. CASE ~Publish
  BY <1>2 DEF Next, Commit, Invoke, Preflight, Ends, Load, FinishPass, SkipRest, Summary, vars
<1> QED
  BY <1>1, <1>2

\* A pass that is summed up as passed has put everything into the stack.
LEMMA PassedIsSynced ==
    ASSUME IInv, pc = "publish", plan = {}, Passed
    PROVE  Synced(pass)
BY DEF IInv, LoopInv, Done, Passed, Synced

LEMMA SyncedKept ==
    ASSUME NEW S, Synced(S), UNCHANGED <<checkout, rev, call>>,
           \A r \in Loaded(S) : remote'[r] = remote[r]
    PROVE  Synced(S)'
BY Frame DEF Synced

LEMMA FirstStep == IInv /\ [Next]_vars => FirstInv'
<1> SUFFICES ASSUME IInv, [Next]_vars,
                    Running', pass' = Alerts, RunDashboards', passed', ~call'.dry
             PROVE  Synced(Dashboards)'
  BY DEF FirstInv
<1> USE DEF IInv
<1>1. ~Commit /\ ~Invoke
  BY DEF Commit, Invoke, Running
<1>2. CASE Preflight
  BY <1>2, Frame, Apart DEF Preflight, Ends, Running
<1>3. ASSUME Running, pass = Alerts, passed, UNCHANGED <<checkout, rev, call, remote>>
      PROVE  Synced(Dashboards)'
  BY <1>3, Frame, SyncedKept DEF FirstInv
<1>4. ASSUME Running, NEW ok \in BOOLEAN, FinishPass(ok)
      PROVE  pass = Dashboards /\ ok /\ passed /\ UNCHANGED <<checkout, rev, call, remote>>
  BY <1>4, Apart DEF FinishPass, Running, TypeOK
<1>5. CASE Load
  <2>1. ~FinishPass(FALSE) /\ ~Ends(2) /\ Running
    BY <1>5, <1>4 DEF Ends, Running, Load
  <2>2. ~(call.dry /\ FinishPass(Malformed(pass) = {}))
    BY DEF FinishPass
  <2> QED
    BY <1>5, <2>1, <2>2, <1>3 DEF Load
<1>6. CASE Publish
  <2>1. PICK r \in plan : UNCHANGED remote \/ Applied(r)
    BY <1>6, PublishCases
  <2>2. /\ Running /\ pass = Alerts /\ passed /\ pc = "publish"
        /\ UNCHANGED <<checkout, rev, call>>
    BY <1>6, PublishCases DEF Running
  <2>3. r \in Alerts
    BY <2>2 DEF LoopInv, Loaded
  <2>4. \A q \in Loaded(Dashboards) : remote'[q] = remote[q]
    BY <2>1, <2>3, Apart DEF Applied, TypeOK, Loaded
  <2> QED
    BY <2>2, <2>4, Frame, SyncedKept DEF FirstInv
<1>7. CASE SkipRest
  BY <1>7, <1>3 DEF SkipRest, Running
<1>8. CASE Summary
  <2>1. pass = Dashboards /\ Passed /\ UNCHANGED <<checkout, rev, call, remote>>
    BY <1>8, <1>4 DEF Summary, Passed, Running
  <2> QED
    BY <1>8, <2>1, PassedIsSynced, SyncedKept DEF Summary
<1>9. CASE UNCHANGED vars
  BY <1>9, <1>3 DEF vars, Running
<1> QED
  BY <1>1, <1>2, <1>5, <1>6, <1>7, <1>8, <1>9 DEF Next

LEMMA EndStep == IInv /\ [Next]_vars => EndInv'
<1> SUFFICES ASSUME IInv, [Next]_vars, pc' = "ended", exit' = 0, ~call'.dry
             PROVE  Synced(Selected)' /\ (RunAlerts => BindingErrors = {} /\ RequiredPresent)'
  BY DEF EndInv
<1> USE DEF IInv
<1>1. ~Commit /\ ~Invoke /\ ~Preflight /\ ~SkipRest /\ ~Ends(2)
  BY DEF Commit, Invoke, Preflight, Ends, SkipRest
<1>2. ASSUME NEW ok \in BOOLEAN, FinishPass(ok)
      PROVE  /\ ok /\ passed /\ ~(pass = Dashboards /\ RunAlerts)
             /\ UNCHANGED <<checkout, rev, call, remote>>
  <2>1. ~(pass = Dashboards /\ RunAlerts) /\ UNCHANGED <<checkout, rev, call, remote>>
    BY <1>2 DEF FinishPass
  <2>2. passed' = (passed /\ ok) /\ exit' = (IF passed' THEN 0 ELSE 1)
    BY <1>2, <2>1 DEF FinishPass
  <2>3. passed'
    BY <2>2
  <2> QED
    BY <2>1, <2>2, <2>3, Zenon
<1>3. ~Load
  BY <1>1, <1>2 DEF Load, FinishPass
<1>4. CASE Publish
  BY <1>4, PublishCases DEF FallBackToPut, Returns
<1>5. CASE Summary
  <2>1. /\ Passed /\ passed /\ ~(pass = Dashboards /\ RunAlerts)
        /\ UNCHANGED <<checkout, rev, call, remote>>
    BY <1>5, <1>2 DEF Summary, Passed
  <2>2. /\ Synced(pass) /\ pc = "publish" /\ Running
    BY <1>5, <2>1, PassedIsSynced DEF Summary, Running
  <2>3. CASE pass = Dashboards
    <3>1. Selected = Dashboards /\ ~RunAlerts
      BY <2>1, <2>2, <2>3 DEF PassInv, Selected
    <3>2. Synced(Selected)
      BY <2>2, <2>3, <3>1
    <3> QED
      BY <2>1, <3>1, <3>2, Frame DEF Synced
  <2>4. CASE pass = Alerts
    <3>1. RunAlerts /\ BindingErrors = {} /\ RequiredPresent
      BY <2>2, <2>4 DEF PassInv, CheckedInv
    <3>2. RunDashboards => Synced(Dashboards)
      BY <2>1, <2>2, <2>4, Frame DEF FirstInv
    <3>3. Synced(Selected)
      BY <2>2, <2>4, <3>1, <3>2 DEF Selected, Synced, Loaded, Malformed
    <3> QED
      BY <2>1, <3>1, <3>3, Frame DEF Synced
  <2> QED
    BY <2>3, <2>4 DEF TypeOK
<1>6. CASE UNCHANGED vars
  BY <1>6, Frame DEF vars, EndInv, Synced
<1> QED
  BY <1>1, <1>3, <1>4, <1>5, <1>6 DEF Next

-----------------------------------------------------------------------------

\* One line more.
LEMMA OneLine ==
    ASSUME TypeOK, NEW status \in Statuses, lines' = Append(lines, status)
    PROVE  /\ Len(lines) \in Nat /\ Len(lines)' = Len(lines) + 1
           /\ \A i \in 1..Len(lines) : lines'[i] = lines[i]
           /\ lines'[Len(lines) + 1] = status
BY DEF TypeOK

LEMMA CountStep == IInv /\ [Next]_vars => CountInv'
<1> SUFFICES ASSUME IInv, [Next]_vars, pc' = "publish" PROVE CountInv'
  BY DEF CountInv
<1> USE DEF IInv, CountInv
<1>1. CASE StartLoop(Loaded(pass))
  BY <1>1 DEF StartLoop
<1>2. CASE pc = "publish" /\ UNCHANGED <<consecutive, lines>>
  BY <1>2
<1>3. ASSUME pc = "publish", NEW r \in plan, NEW status \in Statuses, Returns(r, status)
      PROVE  CountInv'
  <2>1. lines' = Append(lines, status) /\ Count(status)
    BY <1>3 DEF Returns
  <2>2. consecutive \in Nat
    BY SyncAssumption DEF TypeOK
  <2>3. CASE status = "unreachable"
    <3>1. consecutive' = consecutive + 1
      BY <2>1, <2>3 DEF Count
    <3> QED
      BY <1>3, <2>1, <2>2, <2>3, <3>1, OneLine
  <2>4. CASE status # "unreachable"
    <3>1. consecutive' = 0
      BY <2>1, <2>4 DEF Count
    <3> QED
      BY <1>3, <2>1, <2>2, <2>4, <3>1, OneLine
  <2> QED
    BY <2>3, <2>4
<1>4. {"ok", "refused", "unreachable"} \subseteq Statuses
  BY DEF Statuses
<1> QED
  BY <1>1, <1>2, <1>3, <1>4, LoopCases

LEMMA CountLine ==
    ASSUME TypeOK, NEW status \in Statuses, lines' = Append(lines, status), NEW S
    PROVE  /\ Cardinality(LineNumbers(S)) \in Nat
           /\ Cardinality(LineNumbers(S)') =
                 IF status \in S THEN Cardinality(LineNumbers(S)) + 1
                 ELSE Cardinality(LineNumbers(S))
<1>1. Len(lines) \in Nat /\ IsFiniteSet(1..Len(lines))
  BY OneLine, FS_Interval
<1>2. IsFiniteSet(LineNumbers(S))
  BY <1>1, FS_Subset DEF LineNumbers
<1>3. LineNumbers(S)' = IF status \in S THEN LineNumbers(S) \cup {Len(lines) + 1}
                        ELSE LineNumbers(S)
  BY OneLine DEF LineNumbers
<1>4. Len(lines) + 1 \notin LineNumbers(S)
  BY <1>1 DEF LineNumbers
<1> QED
  BY <1>2, <1>3, <1>4, FS_AddElement, FS_CardinalityType

LEMMA LinesStep == IInv /\ [Next]_vars => LinesInv'
<1> SUFFICES ASSUME IInv, [Next]_vars, pc' = "publish" PROVE LinesInv'
  BY DEF LinesInv
<1> USE DEF IInv, LinesInv
<1>1. CASE StartLoop(Loaded(pass)) /\ UNCHANGED <<checkout, rev, call, pass>>
  <2>1. failed' = {} /\ Done' = {} /\ lines' = <<>>
    BY <1>1, Frame DEF StartLoop, Done
  <2>2. \A S : LineNumbers(S)' = {}
    BY <2>1 DEF LineNumbers
  <2> QED
    BY <2>1, <2>2, FS_EmptySet
<1>2. CASE /\ pc = "publish" /\ UNCHANGED <<checkout, rev, call, pass, lines, failed>>
           /\ \/ UNCHANGED <<plan, skipped>>
              \/ plan' = {} /\ skipped' = skipped \cup plan
  <2>1. Done' = Done
    BY <1>2, Frame DEF Done
  <2>2. \A S : LineNumbers(S)' = LineNumbers(S)
    BY <1>2 DEF LineNumbers
  <2> QED
    BY <1>2, <2>1, <2>2
<1>3. ASSUME pc = "publish", UNCHANGED <<checkout, rev, call, pass>>, NEW r \in plan,
             NEW status \in Statuses, Returns(r, status)
      PROVE  LinesInv'
  <2>1. /\ lines' = Append(lines, status) /\ plan' = plan \ {r} /\ skipped' = skipped
        /\ failed' = IF status = "ok" THEN failed ELSE failed \cup {r}
    BY <1>3 DEF Returns
  <2>2. /\ r \in Loaded(pass) /\ r \notin failed /\ r \notin skipped /\ r \notin Done
    BY <1>3 DEF LoopInv, Done
  <2>3. Done' = IF status = "ok" THEN Done \cup {r} ELSE Done
    BY <1>3, <2>1, <2>2, Frame DEF Done
  <2>4. CASE status = "ok"
    <3>1. /\ Cardinality(LineNumbers({"ok"})') = Cardinality(LineNumbers({"ok"})) + 1
          /\ Cardinality(LineNumbers({"refused", "unreachable"})')
                = Cardinality(LineNumbers({"refused", "unreachable"}))
      BY <2>1, <2>4, CountLine
    <3>2. IsFiniteSet(Done \cup {r}) /\ Cardinality(Done \cup {r}) = Cardinality(Done) + 1
      BY <1>3, <2>2, FS_AddElement
    <3> QED
      BY <1>3, <2>1, <2>3, <2>4, <3>1, <3>2
  <2>5. CASE status \in {"refused", "unreachable"}
    <3>1. /\ Cardinality(LineNumbers({"ok"})') = Cardinality(LineNumbers({"ok"}))
          /\ Cardinality(LineNumbers({"refused", "unreachable"})')
                = Cardinality(LineNumbers({"refused", "unreachable"})) + 1
      BY <2>1, <2>5, CountLine
    <3>2. IsFiniteSet(failed \cup {r}) /\ Cardinality(failed \cup {r}) = Cardinality(failed) + 1
      BY <1>3, <2>2, FS_AddElement
    <3> QED
      BY <1>3, <2>1, <2>3, <2>5, <3>1, <3>2
  <2> QED
    BY <2>4, <2>5 DEF Statuses
<1>4. {"ok", "refused", "unreachable"} \subseteq Statuses
  BY DEF Statuses
<1> QED
  BY <1>1, <1>2, <1>3, <1>4, LoopCases

\* What a run without faults can fail of.
LEMMA QuietStep == IInv /\ [Next]_vars => QuietInv'
<1> SUFFICES ASSUME IInv, [Next]_vars, ~faults' PROVE QuietInv'
  BY DEF QuietInv
<1> USE DEF IInv, QuietInv
<1>1. pc' = "publish" => failed' = {} /\ skipped' = {} /\ ~aborted'
  <2>1. CASE StartLoop(Loaded(pass))
    BY <2>1 DEF StartLoop
  <2>2. ASSUME pc = "publish", ~faults, ~aborted, NEW r \in plan, Returns(r, "ok")
        PROVE  failed' = {} /\ skipped' = {} /\ ~aborted'
    <3>1. consecutive' = 0 /\ failed' = failed /\ skipped' = skipped
      BY <2>2 DEF Returns, Count
    <3>2. aborted' = (consecutive' >= FailLimit)
      BY <2>2 DEF Returns
    <3>3. ~(consecutive' >= FailLimit)
      BY <3>1, SyncAssumption
    <3>4. ~aborted'
      BY <3>2, <3>3, Zenon
    <3> QED
      BY <2>2, <3>1, <3>4
  <2> QED
    BY <2>1, <2>2, LoopCases
<1>2. pc' # "died"
  BY PublishCases DEF Next, Commit, Invoke, Preflight, Ends, Load, FinishPass, SkipRest,
                      Summary, vars, FallBackToPut, Returns
<1>3. ASSUME Running', ~call'.dry, ~passed'
      PROVE  /\ pass' = Alerts /\ RunDashboards'
             /\ (Malformed(Dashboards) # {} \/ Loaded(Dashboards) = {})'
  <2>1. ~Commit /\ ~Invoke /\ ~Ends(1) /\ ~Ends(2)
    BY <1>3 DEF Commit, Invoke, Ends, Running
  <2>2. ~Preflight
    BY <2>1, <1>3 DEF Preflight, PassInv
  <2>3. ASSUME Running, ~faults, UNCHANGED <<checkout, rev, call, pass, passed>>
        PROVE  /\ pass' = Alerts /\ RunDashboards'
               /\ (Malformed(Dashboards) # {} \/ Loaded(Dashboards) = {})'
    BY <1>3, <2>3, Frame
  <2>4. ASSUME Running, NEW ok \in BOOLEAN, FinishPass(ok)
        PROVE  /\ pass = Dashboards /\ pass' = Alerts /\ RunDashboards /\ ~ok /\ ~faults
               /\ UNCHANGED <<checkout, rev, call>>
    <3>1. /\ pass = Dashboards /\ pass' = Alerts /\ ~faults
          /\ UNCHANGED <<checkout, rev, call>>
      BY <1>3, <2>4 DEF FinishPass, Running
    <3>2. RunDashboards /\ passed
      BY <2>4, <3>1 DEF PassInv
    <3>3. passed' = (passed /\ ok)
      BY <2>4 DEF FinishPass
    <3>4. ~ok
      BY <1>3, <3>2, <3>3, Zenon
    <3> QED
      BY <3>1, <3>2, <3>4
  <2>5. CASE Load
    <3>1. (Malformed(pass) = {}) \in BOOLEAN /\ Running
      BY <2>5 DEF Load, Running
    <3>2. ASSUME NothingToDo, FinishPass(FALSE)
          PROVE  /\ pass' = Alerts /\ RunDashboards'
                 /\ (Malformed(Dashboards) # {} \/ Loaded(Dashboards) = {})'
      <4>1. /\ pass = Dashboards /\ pass' = Alerts /\ RunDashboards
            /\ UNCHANGED <<checkout, rev, call>>
        BY <3>1, <3>2, <2>4
      <4> QED
        BY <4>1, <3>2, Apart, Frame DEF NothingToDo
    <3>3. ~(call.dry /\ FinishPass(Malformed(pass) = {}))
      BY <1>3 DEF FinishPass
    <3>4. ASSUME StartLoop(Loaded(pass)),
                 UNCHANGED <<checkout, rev, remote, call, runs, pass, passed, exit, faults>>
          PROVE  /\ pass' = Alerts /\ RunDashboards'
                 /\ (Malformed(Dashboards) # {} \/ Loaded(Dashboards) = {})'
      BY <3>1, <3>4, <2>3
    <3> QED
      BY <2>5, <2>1, <3>2, <3>3, <3>4 DEF Load
  <2>6. CASE Publish
    <3>1. ~faults
      BY <2>6, PublishCases DEF FallBackToPut
    <3> QED
      BY <2>6, <3>1, <2>3, PublishCases DEF Running
  <2>7. CASE SkipRest
    BY <2>7, <2>3 DEF SkipRest, Running
  <2>8. CASE Summary
    <3>1. /\ pass = Dashboards /\ pass' = Alerts /\ RunDashboards /\ ~Passed /\ ~faults
          /\ UNCHANGED <<checkout, rev, call>>
      BY <2>8, <2>4 DEF Summary, Passed, Running
    <3>2. failed = {} /\ skipped = {}
      BY <2>8, <3>1 DEF Summary
    <3> QED
      BY <3>1, <3>2, Frame DEF Passed
  <2>9. CASE UNCHANGED vars
    BY <1>3, <2>9, <2>3 DEF vars, Running
  <2> QED
    BY <2>1, <2>2, <2>5, <2>6, <2>7, <2>8, <2>9 DEF Next
<1> QED
  BY <1>1, <1>2, <1>3, Zenon DEF QuietInv

\* Reasons of one pass are reasons of the run.
LEMMA PassOfRun ==
    ASSUME IInv, Running
    PROVE  /\ Malformed(pass) # {} => Malformed(Selected) # {}
           /\ Unresolved(pass) => Unresolved(Selected)
           /\ pass = Alerts /\ ~RequiredPresent => Malformed(Selected) # {}
<1>1. pass \subseteq Selected
  BY DEF IInv, PassInv, TypeOK, Selected
<1>2. {ContactPoint, Policy} \subseteq Alerts \cap checkout.present
  BY Apart, SyncAssumption DEF IInv, TypeOK
<1>3. ~RequiredPresent => Malformed(Alerts) # {}
  BY <1>2 DEF RequiredPresent, Loaded, Malformed
<1> QED
  BY <1>1, <1>3 DEF Malformed, Unresolved, Loaded

LEMMA RepairStep == IInv /\ NextRunRepairs /\ [Next]_vars => NextRunRepairs'
<1> DEFINE Excuse == \/ Malformed(Selected) # {} \/ UsageError \/ Selected = {}
                     \/ RunDashboards /\ Loaded(Dashboards) = {}
                     \/ RunAlerts /\ (BindingErrors # {} \/ call.recipients # "given")
                     \/ Unresolved(Selected)
<1> SUFFICES ASSUME IInv, NextRunRepairs, [Next]_vars,
                    pc' = "ended", ~faults', ~call'.dry, exit' # 0
             PROVE  Excuse'
  BY Zenon DEF NextRunRepairs
<1>1. ~Commit /\ ~Invoke /\ ~SkipRest
  BY DEF Commit, Invoke, SkipRest, IInv
<1>2. ASSUME Excuse, UNCHANGED <<checkout, rev, call>> PROVE Excuse'
  BY <1>2, Frame
<1>3. CASE Preflight
  <2>1. UNCHANGED <<checkout, rev, call>> /\ (UsageError \/ (~RunDashboards /\ ~RunAlerts))
    BY <1>3 DEF Preflight, Ends
  <2> QED
    BY <2>1, <1>2 DEF Selected
<1>4. ASSUME Running, NEW ok \in BOOLEAN, FinishPass(ok)
      PROVE  (~ok \/ ~passed) /\ ~faults /\ UNCHANGED <<checkout, rev, call>>
  <2>1. /\ ~faults /\ UNCHANGED <<checkout, rev, call>>
        /\ passed' = (passed /\ ok) /\ exit' = (IF passed' THEN 0 ELSE 1)
    BY <1>4 DEF FinishPass
  <2>2. ~passed'
    BY <2>1
  <2> QED
    BY <2>1, <2>2, Zenon
<1>5. CASE Load
  <2>1. (Malformed(pass) = {}) \in BOOLEAN /\ Running
    BY <1>5 DEF Load, Running
  <2>2. ASSUME NothingToDo, FinishPass(FALSE) PROVE Excuse'
    <3>1. UNCHANGED <<checkout, rev, call>> /\ ~call.dry
      BY <2>2, <1>4, <2>1
    <3>2. Excuse
      BY <2>1, <2>2, PassOfRun DEF NothingToDo, IInv, PassInv
    <3> QED
      BY <3>1, <3>2, <1>2
  <2>3. ASSUME Misconfigured, Ends(2) PROVE Excuse'
    <3>1. UNCHANGED <<checkout, rev, call>>
      BY <2>3 DEF Ends
    <3>2. Excuse
      BY <2>1, <2>3, PassOfRun DEF Misconfigured, IInv, PassInv
    <3> QED
      BY <3>1, <3>2, <1>2
  <2>4. ~(call.dry /\ FinishPass(Malformed(pass) = {}))
    BY DEF FinishPass
  <2> QED
    BY <1>5, <2>2, <2>3, <2>4 DEF Load
<1>6. ~Publish
  BY PublishCases DEF IInv, FallBackToPut, Returns
<1>7. CASE Summary
  <2>1. /\ ~Passed \/ ~passed
        /\ ~faults /\ Running /\ ~call.dry
        /\ UNCHANGED <<checkout, rev, call>>
    BY <1>7, <1>4 DEF Summary, Running, Passed, FinishPass
  <2>2. failed = {} /\ skipped = {}
    BY <1>7, <2>1 DEF Summary, IInv, QuietInv
  <2>3. ~Passed => Malformed(Selected) # {}
    BY <2>1, <2>2, PassOfRun DEF Passed
  <2>4. ~passed => Excuse
    <3>1. ASSUME ~passed
          PROVE  /\ pass = Alerts /\ RunDashboards
                 /\ Malformed(Dashboards) # {} \/ Loaded(Dashboards) = {}
      BY <2>1, <3>1 DEF IInv, QuietInv
    <3> QED
      BY <3>1 DEF Malformed, Selected
  <2> QED
    BY <2>1, <2>3, <2>4, <1>2
<1>8. CASE UNCHANGED vars
  <2>1. UNCHANGED <<checkout, rev, call, pc, exit, faults>>
    BY <1>8 DEF vars
  <2> QED
    BY <2>1, <1>2 DEF NextRunRepairs
<1> QED
  BY <1>1, <1>3, <1>5, <1>6, <1>7, <1>8 DEF Next

LEMMA InitInvariant == Init => IInv
<1> SUFFICES ASSUME Init PROVE IInv
  OBVIOUS
<1>1. TypeOK
  <2>1. call \in Calls
    BY SyncAssumption DEF Init
  <2>2. Missing \in Content
    BY SyncAssumption DEF Missing, Content
  <2>3. /\ rev \in 1..MaxRev /\ runs \in 0..MaxRuns /\ consecutive \in 0..FailLimit
    BY SyncAssumption DEF Init
  <2>4. remote \in [Resources -> Content]
    BY <2>2 DEF Init
  <2>5. aborted \in BOOLEAN /\ passed \in BOOLEAN /\ faults \in BOOLEAN
    BY DEF Init
  <2>6. lines \in Seq(Statuses) /\ exit \in 0..2
    BY DEF Init
  <2> QED
    BY <2>1, <2>3, <2>4, <2>5, <2>6 DEF Init, TypeOK
<1>2. LimitInv
  BY SyncAssumption DEF Init, LimitInv
<1>3. /\ PassInv /\ CheckedInv /\ LoopInv /\ FirstInv /\ EndInv /\ CountInv /\ LinesInv
      /\ QuietInv
  BY DEF Init, PassInv, CheckedInv, LoopInv, FirstInv, EndInv, CountInv, LinesInv, QuietInv, Running
<1>4. NoPlaceholderPublished
  BY DEF Init, NoPlaceholderPublished, Missing
<1> QED
  BY <1>1, <1>2, <1>3, <1>4 DEF IInv

-----------------------------------------------------------------------------

LEMMA Invariant == Spec => []IInv
<1>1. IInv /\ [Next]_vars => IInv'
  <2> SUFFICES ASSUME IInv, [Next]_vars PROVE IInv'
    OBVIOUS
  <2>1. TypeOK' /\ LimitInv'
    BY TypeStep DEF IInv
  <2> QED
    BY <2>1, PassStep, CheckedStep, LoopStep, FirstStep, EndStep, CountStep, LinesStep,
       QuietStep, PlaceStep DEF IInv
<1> QED
  BY InitInvariant, <1>1, PTL DEF Spec

\* Every variable keeps its type; the counter of failures never passes its limit.
THEOREM TypeCorrect == Spec => []TypeOK
<1>1. IInv => TypeOK
  BY DEF IInv
<1> QED
  BY Invariant, <1>1, PTL

\* Whatever Grafana answers, no placeholder for a data source is ever published.
THEOREM PlaceholdersStayHome == Spec => []NoPlaceholderPublished
<1>1. IInv => NoPlaceholderPublished
  BY DEF IInv
<1> QED
  BY Invariant, <1>1, PTL

\* Exit status 0 of a live run: every file was readable and is in the stack as it is here.
THEOREM SuccessIsSync == Spec => []SuccessMeansSynced
<1>1. IInv => SuccessMeansSynced
  <2> SUFFICES ASSUME IInv, pc = "ended", exit = 0, ~call.dry
               PROVE  /\ Malformed(Selected) = {}
                      /\ \A r \in Selected \cap checkout.present : remote[r] = Body(r)
    BY DEF SuccessMeansSynced
  <2>1. Synced(Selected)
    BY DEF IInv, EndInv
  <2> QED
    BY <2>1 DEF Synced, Malformed, Loaded
<1> QED
  BY Invariant, <1>1, PTL

\* After a successful run with alerts, no alert in the stack routes past the contact point.
THEOREM AlertsReachSomebody == Spec => []AlertsAreDelivered
<1>1. IInv => AlertsAreDelivered
  <2> SUFFICES ASSUME IInv, pc = "ended", exit = 0, ~call.dry, RunAlerts,
                      NEW r \in (Alerts \cap checkout.present) \ {ContactPoint}
               PROVE  remote[r].receiver \in {remote[ContactPoint].receiver, Inherit}
    BY DEF AlertsAreDelivered
  <2>1. Synced(Selected) /\ BindingErrors = {} /\ RequiredPresent
    BY DEF IInv, EndInv
  <2>2. r \in Loaded(Alerts) /\ ContactPoint \in Loaded(Alerts)
    BY <2>1, Apart DEF Synced, Malformed, Loaded, Selected, RequiredPresent
  <2>3. remote[r] = Body(r) /\ remote[ContactPoint] = Body(ContactPoint)
    BY <2>1, <2>2 DEF Synced, Loaded, Selected
  <2>4. checkout.receiver[r] \in {checkout.name, Inherit}
    BY <2>1, <2>2 DEF BindingErrors
  <2> QED
    BY <2>3, <2>4 DEF Body
<1> QED
  BY Invariant, <1>1, PTL

\* A pass gives up exactly after FailLimit publications in a row that reached nobody.
THEOREM GivesUpForCause == Spec => []GivesUpOnlyWhenUnreachable
<1>1. IInv => GivesUpOnlyWhenUnreachable
  <2> SUFFICES ASSUME IInv, pc = "publish"
               PROVE  aborted <=>
                        /\ Len(lines) >= FailLimit
                        /\ \A i \in (Len(lines) - FailLimit + 1)..Len(lines) : lines[i] = "unreachable"
    BY DEF GivesUpOnlyWhenUnreachable
  <2>1. /\ consecutive \in 0..FailLimit /\ Len(lines) \in Nat /\ FailLimit \in Nat \ {0}
    BY SyncAssumption DEF IInv, TypeOK
  <2>2. aborted <=> consecutive >= FailLimit
    BY DEF IInv, LimitInv
  <2>3. /\ consecutive <= Len(lines)
        /\ \A i \in (Len(lines) - consecutive + 1)..Len(lines) : lines[i] = "unreachable"
        /\ consecutive < Len(lines) => lines[Len(lines) - consecutive] # "unreachable"
    BY DEF IInv, CountInv
  <2>4. consecutive >= FailLimit <=>
           /\ Len(lines) >= FailLimit
           /\ \A i \in (Len(lines) - FailLimit + 1)..Len(lines) : lines[i] = "unreachable"
    <3>1. CASE consecutive = FailLimit
      BY <2>1, <2>3, <3>1
    <3>2. CASE consecutive < FailLimit
      <4>1. Len(lines) >= FailLimit =>
               Len(lines) - consecutive \in (Len(lines) - FailLimit + 1)..Len(lines)
        BY <2>1, <3>2
      <4> QED
        BY <2>1, <2>3, <3>2, <4>1
    <3> QED
      BY <2>1, <3>1, <3>2
  <2> QED
    BY <2>2, <2>4, Zenon
<1> QED
  BY Invariant, <1>1, PTL

\* The numbers of a summary account for every resource of the pass.
THEOREM SummaryAddsUp == Spec => []SummaryIsComplete
<1>1. IInv => SummaryIsComplete
  <2> SUFFICES ASSUME IInv, pc = "publish", plan = {}
               PROVE  /\ failed \cap skipped = {} /\ failed \cup skipped \subseteq Loaded(pass)
                      /\ Cardinality(LineNumbers({"refused", "unreachable"})) = Cardinality(failed)
                      /\ Cardinality(LineNumbers({"ok"}))
                            = Cardinality(Loaded(pass) \ (failed \cup skipped))
    BY DEF SummaryIsComplete, LineNumbers
  <2>1. Done = Loaded(pass) \ (failed \cup skipped)
    BY DEF Done
  <2> QED
    BY <2>1 DEF IInv, LoopInv, LinesInv
<1> QED
  BY Invariant, <1>1, PTL

\* A run that meets no fault fails only of what its own checkout and command line get wrong,
\* never of what earlier runs left behind.
THEOREM NextRunSucceeds == Spec => []NextRunRepairs
<1>1. Init => NextRunRepairs
  BY DEF Init, NextRunRepairs
<1> QED
  BY Invariant, RepairStep, <1>1, PTL DEF Spec

=============================================================================
