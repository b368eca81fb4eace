-------------------------- MODULE MCRepairWorkflow --------------------------
(***************************************************************************)
(* Small instances of RepairWorkflow.  Assets, holders and sessions are    *)
(* interchangeable, so safety is checked up to their permutations.         *)
(***************************************************************************)
EXTENDS RepairWorkflow, TLC

Symmetry == Permutations(Assets) \cup Permutations(Holders) \cup Permutations(Sessions)

\* Liveness is checked from states in which an interesting step is near.  In the first, every
\* asset was taken back and handed out again: two writes of each are left within the bound,
\* so that submissions collide and are decided.
Log(action, from, to) == [action |-> action, from |-> from, to |-> to]
Reassigned == <<Log("unassign", "in_use", "in_stock"), Log("assign", "in_stock", "in_use")>>

HandedOut ==
    /\ asset \in [Assets -> [status : {"in_use"}, holder : Holders, version : {3}]]
    /\ request = [c \in Codes |-> NoRequest]
    /\ history = [a \in Assets |-> Reassigned]

\* In the second, one asset came from the store, and its request has been approved and given
\* details once: the next step is to complete it or to change the details, while others act
\* on assets that have one write left.
UnderRepair == CHOOSE a \in Assets : TRUE
Repaired == <<Log("assign", "in_stock", "in_use"), Log("submit", "in_use", "pending_repair"),
              Log("approve", "pending_repair", "under_repair")>>

HalfRepaired ==
    /\ \E h \in Holders :
          /\ asset = [a \in Assets |->
                [status |-> IF a = UnderRepair THEN "under_repair" ELSE "in_use",
                 holder |-> h, version |-> 4]]
          /\ request = [c \in Codes |->
                IF c = 1 THEN [status |-> "under_repair", asset |-> UnderRepair,
                               requester |-> h, version |-> 3]
                         ELSE NoRequest]
    /\ history = [a \in Assets |-> IF a = UnderRepair THEN Repaired
                                   ELSE <<Log("assign", "in_stock", "in_use")>> \o Reassigned]

InUseInit == (HandedOut \/ HalfRepaired) /\ tx = [s \in Sessions |-> Idle]
InUseSpec == InUseInit /\ [][Next]_vars /\ \A s \in Sessions : SF_vars(Progress(s))

\* Behaviours in which a submission is repeated only while the asset is in use by its
\* submitter (RetriesGuarded).
GuardedSpec == Init /\ [][Next /\ GuardedRetry]_vars

=============================================================================
