--------------------------- MODULE AssetLifecycle ---------------------------
(***************************************************************************)
(* What the asset-management API promises: every lifecycle transition of   *)
(* an asset (T2-T8 of the handlers in assets.py and repair_requests.py)    *)
(* happens in one indivisible step, on the state the asset is really in,   *)
(* together with its repair request and its audit row.  Sessions, locks,   *)
(* row versions, identifiers that collide and failures are absent here;    *)
(* RepairWorkflow has them and is checked to implement this module.        *)
(***************************************************************************)
EXTENDS Naturals, Sequences

CONSTANTS Assets,    \* registered assets
          Holders,   \* users with role holder
          Codes,     \* identities a repair request may get
          NoOne      \* a NULL user or asset reference

ASSUME NoOneAssumption == NoOne \notin Assets \cup Holders

VARIABLES status,    \* assets.status
          holder,    \* assets.responsible_person_id
          request,   \* repair_requests: status, asset and requester
          history    \* asset_action_histories of each asset, oldest first

vars == <<status, holder, request, history>>

AssetStatus == {"in_stock", "in_use", "pending_repair", "under_repair", "disposed"}
ActiveStatus == {"pending_review", "under_repair"}
RequestStatus == {"absent", "completed", "rejected"} \cup ActiveStatus
AssetAction == {"assign", "unassign", "dispose", "submit", "approve", "reject", "complete"}

AuditRow == [action : AssetAction, from : AssetStatus, to : AssetStatus]
RequestRow == [status : RequestStatus, asset : Assets \cup {NoOne}, requester : Holders \cup {NoOne}]
NoRequest == [status |-> "absent", asset |-> NoOne, requester |-> NoOne]

Active(a, c) == request[c].asset = a /\ request[c].status \in ActiveStatus
HasActive(a) == \E c \in Codes : Active(a, c)

-----------------------------------------------------------------------------

\* A fleet as it stands after registration and assignment: rows of either kind.
Init ==
    /\ status \in [Assets -> {"in_stock", "in_use"}]
    /\ holder \in {h \in [Assets -> Holders \cup {NoOne}] :
                      \A a \in Assets : h[a] = NoOne <=> status[a] = "in_stock"}
    /\ request = [c \in Codes |-> NoRequest]
    /\ history = [a \in Assets |-> <<>>]

\* The asset changes status and its audit row lands in the same step.
Transition(a, action, to) ==
    /\ status' = [status EXCEPT ![a] = to]
    /\ history' = [history EXCEPT ![a] =
                      Append(@, [action |-> action, from |-> status[a], to |-> to])]

\* Slip: the request row is given the asset's new status.
DecideAsAsset(c, decision) == request' = [request EXCEPT ![c].status = "in_use"]

Decide(c, decision) == request' = [request EXCEPT ![c].status = decision]

Assign(a, h) ==
    /\ status[a] = "in_stock" /\ holder[a] = NoOne
    /\ Transition(a, "assign", "in_use")
    /\ holder' = [holder EXCEPT ![a] = h]
    /\ UNCHANGED request

\* Slip: the responsible person is not cleared.
UnassignKeepsHolder(a) ==
    /\ status[a] = "in_use" /\ ~HasActive(a)
    /\ Transition(a, "unassign", "in_stock")
    /\ UNCHANGED <<holder, request>>

Unassign(a) ==
    /\ status[a] = "in_use" /\ ~HasActive(a)
    /\ Transition(a, "unassign", "in_stock")
    /\ holder' = [holder EXCEPT ![a] = NoOne]
    /\ UNCHANGED request

Dispose(a) ==
    /\ status[a] = "in_stock" /\ holder[a] = NoOne /\ ~HasActive(a)
    /\ Transition(a, "dispose", "disposed")
    /\ UNCHANGED <<holder, request>>

\* Slip: only custody is checked before a submission.
SubmitByHolder(a, c) ==
    /\ holder[a] # NoOne /\ request[c].status = "absent"
    /\ Transition(a, "submit", "pending_repair")
    /\ request' = [request EXCEPT ![c] =
                      [status |-> "pending_review", asset |-> a, requester |-> holder[a]]]
    /\ UNCHANGED holder

Submit(a, c) ==
    /\ status[a] = "in_use" /\ holder[a] # NoOne /\ ~HasActive(a)
    /\ request[c].status = "absent"
    /\ Transition(a, "submit", "pending_repair")
    /\ request' = [request EXCEPT ![c] =
                      [status |-> "pending_review", asset |-> a, requester |-> holder[a]]]
    /\ UNCHANGED holder

Approve(a, c) ==
    /\ request[c].asset = a /\ request[c].status = "pending_review"
    /\ status[a] = "pending_repair"
    /\ Transition(a, "approve", "under_repair")
    /\ Decide(c, "under_repair")
    /\ UNCHANGED holder

Reject(a, c) ==
    /\ request[c].asset = a /\ request[c].status = "pending_review"
    /\ status[a] = "pending_repair"
    /\ Transition(a, "reject", "in_use")
    /\ Decide(c, "rejected")
    /\ UNCHANGED holder

\* Slip: the asset returns to use and its request stays under repair.
CompleteAssetOnly(a, c) ==
    /\ request[c].asset = a /\ request[c].status = "under_repair"
    /\ status[a] = "under_repair"
    /\ Transition(a, "complete", "in_use")
    /\ UNCHANGED <<holder, request>>

Complete(a, c) ==
    /\ request[c].asset = a /\ request[c].status = "under_repair"
    /\ status[a] = "under_repair"
    /\ Transition(a, "complete", "in_use")
    /\ Decide(c, "completed")
    /\ UNCHANGED holder

Next ==
    \E a \in Assets :
        \/ \E h \in Holders : Assign(a, h)
        \/ Unassign(a)
        \/ Dispose(a)
        \/ \E c \in Codes : Submit(a, c) \/ Approve(a, c) \/ Reject(a, c) \/ Complete(a, c)

Spec == Init /\ [][Next]_vars

-----------------------------------------------------------------------------

\* Every column holds a value of its declared type.
TypeOK ==
    /\ status \in [Assets -> AssetStatus]
    /\ holder \in [Assets -> Holders \cup {NoOne}]
    /\ request \in [Codes -> RequestRow]
    /\ history \in [Assets -> Seq(AuditRow)]

\* An asset never has two repair requests that still want a decision or a repair
\* (the duplicate_request guard of _load_asset_for_submit).
OneActiveRequest ==
    \A a \in Assets : \A c, d \in Codes : Active(a, c) /\ Active(a, d) => c = d

\* The two tables agree: an asset waits for a decision exactly while some request for
\* it does, and is in repair exactly while some request for it is.
AssetFollowsRequest ==
    \A a \in Assets :
        /\ status[a] = "pending_repair" <=>
              \E c \in Codes : request[c].asset = a /\ request[c].status = "pending_review"
        /\ status[a] = "under_repair" <=>
              \E c \in Codes : request[c].asset = a /\ request[c].status = "under_repair"

\* Custody: only stocked and disposed assets lack a responsible person, and an asset
\* stays with the person who asked for its repair until the repair is settled (T8).
CustodyHeld ==
    \A a \in Assets :
        /\ holder[a] = NoOne <=> status[a] \in {"in_stock", "disposed"}
        /\ \A c \in Codes : Active(a, c) => request[c].requester = holder[a]

=============================================================================
