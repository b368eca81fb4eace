------------------------------ MODULE DemoSeed ------------------------------
(***************************************************************************)
(* backend/scripts/seed_demo_data.py, run against a database in use: one   *)
(* transaction wipes every table and builds a demo fleet, statement by     *)
(* statement, while the image files it refers to are written to the upload *)
(* directory, which no rollback touches.  Its DELETEs lock every row, so   *)
(* the lifecycle handlers (AssetLifecycle) wait until it is over; readers  *)
(* do not.  Assets and Codes are numbers here, as in the script, whose     *)
(* loops give asset i a holder, a request and an audit trail by index.     *)
(***************************************************************************)
EXTENDS AssetLifecycle, FiniteSets

CONSTANTS Fleet,          \* assets 0..Fleet-1 are in service, the others disposed (60 and 3)
          HolderOrder,    \* the holders in the order they were built
          PlanLength,     \* how many assets get a repair request (12)
          SeedImages,     \* how many requests get an image at most (6)
          MaxSeeds        \* bound: seedings explored

ASSUME SeedAssumption ==
    /\ Fleet \in Nat /\ PlanLength \in Nat /\ SeedImages \in Nat /\ MaxSeeds \in Nat
    /\ \A a \in Assets : a \in Nat /\ 0..a \subseteq Assets
    /\ 1..PlanLength \subseteq Codes
    /\ HolderOrder \in Seq(Holders) /\ HolderOrder # <<>>

VARIABLES seeding,   \* statement of the script that comes next
          seeds,     \* seedings so far: every one names its images afresh
          draft,     \* the rows of the script's own transaction
          images,    \* committed repair_images rows: <<seeding, request>>
          files      \* files under the upload directory

seedVars == <<seeding, seeds, draft, images, files>>
tables == <<status, holder, request, history>>

PlanStatus == RequestStatus \ {"absent"}
Statements == {"none", "assets", "requests", "images", "commit"}
Empty == [status |-> [a \in Assets |-> "in_stock"], holder |-> [a \in Assets |-> NoOne],
          request |-> [c \in Codes |-> NoRequest], history |-> [a \in Assets |-> <<>>],
          images |-> {}]

SeedInit ==
    /\ seeding = "none" /\ seeds = 0
    /\ draft = Empty
    /\ images = {} /\ files = {}

-----------------------------------------------------------------------------
\* What the script builds.

SeedHolder(a) ==
    IF a < Fleet /\ a % 3 # 0 THEN HolderOrder[(a % Len(HolderOrder)) + 1] ELSE NoOne

SeedStatus(a) ==
    IF a >= Fleet THEN "disposed" ELSE IF SeedHolder(a) = NoOne THEN "in_stock" ELSE "in_use"

\* The n-th asset in use gets the n-th request.
InUseRank(a) == Cardinality({b \in Assets : b <= a /\ SeedStatus(b) = "in_use"})
HasPlan(a) == SeedStatus(a) = "in_use" /\ InUseRank(a) <= PlanLength
AssetOfCode(c) == CHOOSE a \in Assets : HasPlan(a) /\ InUseRank(a) = c
Planned(c) == \E a \in Assets : HasPlan(a) /\ InUseRank(a) = c

AfterRequest(s) ==
    CASE s = "pending_review" -> "pending_repair"
      [] s = "under_repair" -> "under_repair"
      [] OTHER -> "in_use"

Row(action, from, to) == [action |-> action, from |-> from, to |-> to]

\* Slip: a completed repair has no approval.
RepairTrailShort(s) ==
    CASE s = "pending_review" -> <<Row("submit", "in_use", "pending_repair")>>
      [] s = "rejected" -> <<Row("submit", "in_use", "pending_repair"),
                             Row("reject", "pending_repair", "in_use")>>
      [] s = "under_repair" -> <<Row("submit", "in_use", "pending_repair"),
                                 Row("approve", "pending_repair", "under_repair")>>
      [] OTHER -> <<Row("submit", "in_use", "pending_repair"),
                    Row("complete", "under_repair", "in_use")>>

RepairTrail(s) ==
    <<Row("submit", "in_use", "pending_repair")>> \o
    CASE s = "pending_review" -> <<>>
      [] s = "rejected" -> <<Row("reject", "pending_repair", "in_use")>>
      [] s = "under_repair" -> <<Row("approve", "pending_repair", "under_repair")>>
      [] OTHER -> <<Row("approve", "pending_repair", "under_repair"),
                    Row("complete", "under_repair", "in_use")>>

Trail(a) ==
    CASE draft.status[a] = "in_stock" -> <<>>
      [] draft.status[a] = "disposed" -> <<Row("dispose", "in_stock", "disposed")>>
      [] OTHER -> <<Row("assign", "in_stock", "in_use")>> \o
                  IF HasPlan(a) THEN RepairTrail(draft.request[InUseRank(a)].status) ELSE <<>>

-----------------------------------------------------------------------------
\* The transaction.

\* AMS_SEED_CONFIRM is set: five DELETEs, then the users.
Wipe ==
    /\ seeding = "none" /\ seeds < MaxSeeds
    /\ seeding' = "assets" /\ seeds' = seeds + 1
    /\ draft' = Empty
    /\ UNCHANGED <<images, files, tables>>

BuildAssets ==
    /\ seeding = "assets"
    /\ draft' = [draft EXCEPT !.status = [a \in Assets |-> SeedStatus(a)],
                              !.holder = [a \in Assets |-> SeedHolder(a)]]
    /\ seeding' = "requests"
    /\ UNCHANGED <<seeds, images, files, tables>>

\* The script's plan is one fixed list of statuses, longer than the fleets explored here:
\* whatever statuses the first requests have.
BuildRequests ==
    /\ seeding = "requests"
    /\ \E plan \in [1..PlanLength -> PlanStatus] :
          draft' = [draft EXCEPT
              !.request = [c \in Codes |->
                  IF Planned(c)
                  THEN [status |-> plan[c], asset |-> AssetOfCode(c),
                        requester |-> draft.holder[AssetOfCode(c)]]
                  ELSE NoRequest],
              !.status = [a \in Assets |->
                  IF HasPlan(a) THEN AfterRequest(plan[InUseRank(a)]) ELSE draft.status[a]]]
    /\ seeding' = "images"
    /\ UNCHANGED <<seeds, images, files, tables>>

\* Requests in or after repair get an image; if there is none, any request does.
Repaired == {c \in Codes : draft.request[c].status \in {"under_repair", "completed"}}
Eligible == IF Repaired # {} THEN Repaired ELSE {c \in Codes : draft.request[c] # NoRequest}
ToWrite == {c \in Eligible : /\ <<seeds, c>> \notin draft.images
                             /\ Cardinality({d \in Eligible : d <= c}) <= SeedImages}

\* Slip: the row is added and the file forgotten.
BuildImageRow ==
    /\ seeding = "images" /\ ToWrite # {}
    /\ LET c == CHOOSE d \in ToWrite : \A e \in ToWrite : d <= e
       IN draft' = [draft EXCEPT !.images = @ \cup {<<seeds, c>>}]
    /\ UNCHANGED <<seeding, seeds, images, files, tables>>

\* write_bytes, and the row for it.
BuildImage ==
    /\ seeding = "images" /\ ToWrite # {}
    /\ LET c == CHOOSE d \in ToWrite : \A e \in ToWrite : d <= e
       IN /\ files' = files \cup {<<seeds, c>>}
          /\ draft' = [draft EXCEPT !.images = @ \cup {<<seeds, c>>}]
    /\ UNCHANGED <<seeding, seeds, images, tables>>

BuildHistories ==
    /\ seeding = "images" /\ ToWrite = {}
    /\ draft' = [draft EXCEPT !.history = [a \in Assets |-> Trail(a)]]
    /\ seeding' = "commit"
    /\ UNCHANGED <<seeds, images, files, tables>>

CommitSeed ==
    /\ seeding = "commit"
    /\ status' = draft.status /\ holder' = draft.holder
    /\ request' = draft.request /\ history' = draft.history
    /\ images' = draft.images
    /\ seeding' = "none"
    /\ draft' = Empty
    /\ UNCHANGED <<seeds, files>>

\* Slip: what has been flushed stays.
SeedFailsPartly ==
    /\ seeding \notin {"none", "assets"}
    /\ status' = draft.status /\ holder' = draft.holder
    /\ request' = draft.request /\ history' = draft.history
    /\ images' = draft.images
    /\ seeding' = "none"
    /\ draft' = Empty
    /\ UNCHANGED <<seeds, files>>

\* Any exception, or the end of the process: the database forgets, the directory does not.
SeedFails ==
    /\ seeding # "none"
    /\ seeding' = "none"
    /\ draft' = Empty
    /\ UNCHANGED <<seeds, images, files, tables>>

SeedNext == Wipe \/ BuildAssets \/ BuildRequests \/ BuildImage \/ BuildHistories
            \/ CommitSeed \/ SeedFails

\* A handler's write waits for the row locks of the script.
HandlerNext == seeding = "none" /\ Next /\ UNCHANGED seedVars

-----------------------------------------------------------------------------

\* The audit trail of an asset reads as one walk through the lifecycle that ends where the
\* asset is now, whether its rows come from the handlers or from build_action_histories.
TrailLeadsHere ==
    \A a \in Assets :
        LET h == history[a] IN
        h # <<>> =>
            /\ h[Len(h)].to = status[a]
            /\ \A i \in 1..(Len(h) - 1) : h[i].to = h[i + 1].from
            /\ h[1].from \in {"in_stock", "in_use"}

\* No committed image row points at a file that was never written: a request's images can
\* be fetched after every seeding, however the seedings before it ended.
SeededImagesExist == images \subseteq files

\* Clients see a seeding happen at once and entirely: in the step in which the images change,
\* no image and no request of the old fleet is left over, and every asset of the plan has
\* the request that its images and its audit trail belong to (main()'s single commit).
SeedReplacesAll ==
    [][ images' # images =>
          /\ {i[1] : i \in images'} \subseteq {seeds}
          /\ {c \in Codes : request'[c] # NoRequest} = {c \in Codes : Planned(c)}
          /\ \A a \in Assets : HasPlan(a) <=> \E c \in Codes : request'[c].asset = a
      ]_<<seedVars, tables>>

=============================================================================
