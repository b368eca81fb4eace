--------------------------- MODULE RepairWorkflow ---------------------------
(***************************************************************************)
(* The lifecycle endpoints of assets.py and repair_requests.py as they run *)
(* against MySQL: every HTTP request is a session with one transaction.    *)
(* Its reads, the authentication query first, come from one REPEATABLE     *)
(* READ snapshot, so all guards of a handler are evaluated at once, at     *)
(* Load.  Writes happen at flush, the asset row before the request row,    *)
(* each under a row lock and with WHERE version = <the version read>, and  *)
(* become visible together at Commit.                                      *)
(***************************************************************************)
EXTENDS Integers, Sequences

CONSTANTS Assets, Holders, NoOne,
          Sessions,    \* HTTP requests in progress at the same time
          LastCode,    \* the largest sequence number a repair_id can carry (99999)
          Attempts,    \* _REPAIR_ID_CREATE_ATTEMPTS
          MaxVersion   \* bound: rows are not written past this version

ASSUME ConstantsAssumption ==
    /\ NoOne \notin Assets \cup Holders
    /\ LastCode \in Nat
    /\ Attempts \in Nat \ {0}
    /\ MaxVersion \in Nat \ {0}

\* A row of repair_requests is named by its unique repair_id, REP-<year>-<code>.
Codes == 1 .. LastCode

VARIABLES asset,     \* committed rows of assets
          request,   \* committed rows of repair_requests
          history,   \* committed rows of asset_action_histories, oldest first
          tx         \* what each session is doing

vars == <<asset, request, history, tx>>

AssetStatus == {"in_stock", "in_use", "pending_repair", "under_repair", "disposed"}
ActiveStatus == {"pending_review", "under_repair"}
RequestStatus == {"absent", "completed", "rejected"} \cup ActiveStatus

AssetOps == {"assign", "unassign", "dispose", "update"}
ReviewOps == {"approve", "reject", "details", "complete"}
Ops == AssetOps \cup ReviewOps \cup {"submit"}

\* The status each transition gives its asset, and its repair request.
NextStatus == [assign |-> "in_use", unassign |-> "in_stock", dispose |-> "disposed",
               submit |-> "pending_repair", approve |-> "under_repair",
               reject |-> "in_use", complete |-> "in_use"]
Decision == [submit |-> "pending_review", approve |-> "under_repair",
             reject |-> "rejected", complete |-> "completed"]
Transitions == DOMAIN NextStatus

NoRequest == [status |-> "absent", asset |-> NoOne, requester |-> NoOne, version |-> 0]

\* seen: the version the client sent; from, version: the asset row as this attempt read it;
\* who: the assignee of an assign, the submitter of a submit.
Idle == [pc |-> "idle", op |-> "update", asset |-> NoOne, code |-> 0, who |-> NoOne,
         seen |-> 0, from |-> "in_stock", version |-> 0, attempt |-> 1]

Init ==
    /\ asset \in [Assets ->
          [status : {"in_stock"}, holder : {NoOne}, version : {1}]
             \cup [status : {"in_use"}, holder : Holders, version : {1}]]
    /\ request = [c \in Codes |-> NoRequest]
    /\ history = [a \in Assets |-> <<>>]
    /\ tx = [s \in Sessions |-> Idle]

Goto(s, pc) == tx' = [tx EXCEPT ![s].pc = pc]
Leave(s) == tx' = [tx EXCEPT ![s] = Idle]
NothingCommitted == UNCHANGED <<asset, request, history>>

-----------------------------------------------------------------------------
(* A client that was shown a row sends a request that names its version.   *)

Called(op, a, c, h, seen) ==
    [pc |-> "called", op |-> op, asset |-> a, code |-> c, who |-> h, seen |-> seen,
     from |-> "in_stock", version |-> 0, attempt |-> 1]

CallAsset(s, op, a, h) ==
    /\ tx[s].pc = "idle"
    /\ op = "assign" <=> h # NoOne
    /\ tx' = [tx EXCEPT ![s] = Called(op, a, 0, h, asset[a].version)]
    /\ NothingCommitted

\* payload.version is optional in a submission; 0 stands for a version left out.
CallSubmit(s, a, h, seen) ==
    /\ tx[s].pc = "idle"
    /\ seen \in {0, asset[a].version}
    /\ tx' = [tx EXCEPT ![s] = Called("submit", a, 0, h, seen)]
    /\ NothingCommitted

CallReview(s, op, c) ==
    /\ tx[s].pc = "idle"
    /\ request[c].status # "absent"
    /\ tx' = [tx EXCEPT ![s] = Called(op, request[c].asset, c, NoOne, request[c].version)]
    /\ NothingCommitted

-----------------------------------------------------------------------------
(* Load: the snapshot is taken and the handler's guards are evaluated.     *)

HasActive(a) == \E c \in Codes : request[c].asset = a /\ request[c].status \in ActiveStatus

\* _next_repair_id: one past the largest committed code; 500 when the year is full.
UsedCodes == {c \in Codes : request[c].status # "absent"}
NextCode == CHOOSE c \in 1 .. LastCode + 1 :
                /\ \A d \in UsedCodes : d < c
                /\ c = 1 \/ c - 1 \in UsedCodes

\* PATCH /assets/{id} that changes a column; one that changes none writes nothing.
UpdateGuard(t) == asset[t.asset].version = t.seen

AssignGuard(t) ==
    /\ asset[t.asset].status = "in_stock"
    /\ asset[t.asset].holder = NoOne
    /\ asset[t.asset].version = t.seen

UnassignGuard(t) ==
    /\ asset[t.asset].status = "in_use"
    /\ ~HasActive(t.asset)
    /\ asset[t.asset].version = t.seen

DisposeGuard(t) ==
    /\ asset[t.asset].status = "in_stock"
    /\ asset[t.asset].holder = NoOne
    /\ ~HasActive(t.asset)
    /\ asset[t.asset].version = t.seen

SubmitGuard(t) ==
    /\ asset[t.asset].holder = t.who
    /\ t.seen # 0 => asset[t.asset].version = t.seen
    /\ asset[t.asset].status = "in_use"
    /\ ~HasActive(t.asset)
    /\ NextCode \in Codes

\* Slip: a request of the right version is decided in whatever status it is.
ReviewGuardVersionOnly(t, requestStatus, assetStatus) == request[t.code].version = t.seen

ReviewGuard(t, requestStatus, assetStatus) ==
    /\ request[t.code].version = t.seen
    /\ request[t.code].status = requestStatus
    /\ asset[t.asset].status = assetStatus

\* One conjunct per handler: what it checks before it writes anything.
Passes(t) ==
    /\ t.op = "update" => UpdateGuard(t)
    /\ t.op = "assign" => AssignGuard(t)
    /\ t.op = "unassign" => UnassignGuard(t)
    /\ t.op = "dispose" => DisposeGuard(t)
    /\ t.op = "submit" => SubmitGuard(t)
    /\ t.op \in {"approve", "reject"} => ReviewGuard(t, "pending_review", "pending_repair")
    /\ t.op \in {"details", "complete"} => ReviewGuard(t, "under_repair", "under_repair")

\* Bound: a write to a row that has reached MaxVersion is answered with an error.
InBounds(t) ==
    /\ asset[t.asset].version < MaxVersion
    /\ t.op \in ReviewOps => request[t.code].version < MaxVersion

Read(t) == [t EXCEPT !.pc = "loaded",
                     !.from = asset[t.asset].status,
                     !.version = asset[t.asset].version,
                     !.code = IF t.op = "submit" THEN NextCode ELSE t.code]

Load(s) ==
    /\ tx[s].pc = "called"
    /\ Passes(tx[s]) /\ InBounds(tx[s])
    /\ tx' = [tx EXCEPT ![s] = Read(tx[s])]
    /\ NothingCommitted

\* 403, 409 or 500 before any write.
Refuse(s) ==
    /\ tx[s].pc = "called"
    /\ ~(Passes(tx[s]) /\ InBounds(tx[s]))
    /\ Leave(s)
    /\ NothingCommitted

-----------------------------------------------------------------------------
(* Flush.  A row written and not yet committed is locked by its session.   *)

\* Slip: completion forgets the asset.
ChangesAssetNotOnCompletion(t) ==
    t.op \notin {"details", "complete"} /\ ~(t.op = "submit" /\ t.from = "pending_repair")

\* An UPDATE is sent only when a column changes: details touches no asset column, and a
\* resubmission of an asset that was already pending_repair assigns it the same status.
ChangesAsset(t) == t.op # "details" /\ ~(t.op = "submit" /\ t.from = "pending_repair")

\* Slip: rows are locked when they are read, by every reader, and not when written.
LocksAssetFromRead(t, a) ==
    t.asset = a /\ t.op # "details" /\ t.pc \in {"loaded", "asset_written", "written"}
LocksCodeFromRead(t, c) == t.code = c /\ t.pc \in {"loaded", "asset_written", "written"}

LocksAsset(t, a) == t.asset = a /\ t.op # "details" /\ t.pc \in {"asset_written", "written"}
LocksCode(t, c) == t.code = c /\ t.pc = "written"
AssetFree(s) == \A t \in Sessions \ {s} : ~LocksAsset(tx[t], tx[s].asset)
\* Slip: a request row is written without its lock.
CodeUnlocked(s) == tx[s].pc # "idle"

CodeFree(s) == \A t \in Sessions \ {s} : ~LocksCode(tx[t], tx[s].code)

\* Slip: the UPDATE of the asset does not name the version that was read.
WriteAssetAnyVersion(s) ==
    /\ tx[s].pc = "loaded" /\ ChangesAsset(tx[s])
    /\ AssetFree(s)
    /\ Goto(s, IF tx[s].op \in AssetOps THEN "written" ELSE "asset_written")
    /\ NothingCommitted

WriteAsset(s) ==
    /\ tx[s].pc = "loaded" /\ ChangesAsset(tx[s])
    /\ AssetFree(s)
    /\ asset[tx[s].asset].version = tx[s].version
    /\ Goto(s, IF tx[s].op \in AssetOps THEN "written" ELSE "asset_written")
    /\ NothingCommitted

\* No row has the version that was read: StaleDataError, rollback, 409.
StaleAsset(s) ==
    /\ tx[s].pc = "loaded" /\ ChangesAsset(tx[s])
    /\ AssetFree(s)
    /\ asset[tx[s].asset].version # tx[s].version
    /\ Leave(s)
    /\ NothingCommitted

AssetDone(t) == t.pc = "asset_written" \/ (t.pc = "loaded" /\ ~ChangesAsset(t))

WriteRequest(s) ==
    /\ tx[s].op \in ReviewOps /\ AssetDone(tx[s])
    /\ CodeFree(s)
    /\ request[tx[s].code].version = tx[s].seen
    /\ Goto(s, "written")
    /\ NothingCommitted

StaleRequest(s) ==
    /\ tx[s].op \in ReviewOps /\ AssetDone(tx[s])
    /\ CodeFree(s)
    /\ request[tx[s].code].version # tx[s].seen
    /\ Leave(s)
    /\ NothingCommitted

\* Slip: repair_id has no unique index.
InsertRequestAnyCode(s) ==
    /\ tx[s].op = "submit" /\ AssetDone(tx[s])
    /\ AssetFree(s)
    /\ Goto(s, "written")
    /\ NothingCommitted

\* The unique index lets one uncommitted row claim a repair_id; the foreign key to assets
\* needs a lock on the asset row as well.
InsertRequest(s) ==
    /\ tx[s].op = "submit" /\ AssetDone(tx[s])
    /\ CodeFree(s) /\ AssetFree(s)
    /\ request[tx[s].code].status = "absent"
    /\ Goto(s, "written")
    /\ NothingCommitted

NextAttempt(t) == [t EXCEPT !.pc = "retry", !.attempt = t.attempt + 1]

\* The repair_id was committed by someone else: rollback, then the next attempt, or 409.
DuplicateId(s) ==
    /\ tx[s].op = "submit" /\ AssetDone(tx[s])
    /\ CodeFree(s)
    /\ request[tx[s].code].status # "absent"
    /\ IF tx[s].attempt < Attempts
         THEN tx' = [tx EXCEPT ![s] = NextAttempt(tx[s])]
         ELSE Leave(s)
    /\ NothingCommitted

\* Slip: a retry does not ask whether the year has a code left.
ReloadEndless(s) ==
    /\ tx[s].pc = "retry"
    /\ IF InBounds(tx[s]) THEN tx' = [tx EXCEPT ![s] = Read(tx[s])] ELSE Leave(s)
    /\ NothingCommitted

\* The next attempt reads the expired asset again and picks a new code.  The guards of
\* _load_asset_for_submit are not evaluated again.
Reload(s) ==
    /\ tx[s].pc = "retry"
    /\ IF NextCode \in Codes /\ InBounds(tx[s])
         THEN tx' = [tx EXCEPT ![s] = Read(tx[s])]
         ELSE Leave(s)
    /\ NothingCommitted

-----------------------------------------------------------------------------
(* Commit: the session's rows, the audit row among them, become visible.   *)

AssetAfter(t) ==
    LET row == asset[t.asset]
    IN  [status  |-> IF t.op \in Transitions THEN NextStatus[t.op] ELSE row.status,
         holder  |-> CASE t.op = "assign" -> t.who
                       [] t.op = "unassign" -> NoOne
                       [] OTHER -> row.holder,
         version |-> row.version + 1]

RequestAfter(t) ==
    LET row == request[t.code]
    IN  IF t.op = "submit"
          THEN [status |-> Decision[t.op], asset |-> t.asset, requester |-> t.who, version |-> 1]
          ELSE [status |-> IF t.op \in DOMAIN Decision THEN Decision[t.op] ELSE row.status,
                asset |-> row.asset, requester |-> row.requester, version |-> row.version + 1]

AuditRowOf(t) == [action |-> t.op, from |-> t.from, to |-> NextStatus[t.op]]

Commit(s) ==
    LET t == tx[s]
    IN  /\ t.pc = "written"
        /\ asset' = IF ChangesAsset(t) THEN [asset EXCEPT ![t.asset] = AssetAfter(t)] ELSE asset
        /\ request' = IF t.op \in AssetOps THEN request
                        ELSE [request EXCEPT ![t.code] = RequestAfter(t)]
        /\ history' = IF t.op \in Transitions
                        THEN [history EXCEPT ![t.asset] = Append(@, AuditRowOf(t))]
                        ELSE history
        /\ Leave(s)

\* A lost connection, a crash of the worker, a lock timeout or a deadlock victim: the
\* database rolls the transaction back.
Fail(s) == tx[s].pc # "idle" /\ Leave(s) /\ NothingCommitted

Call(s) ==
    \/ \E a \in Assets, op \in AssetOps, h \in Holders \cup {NoOne} : CallAsset(s, op, a, h)
    \/ \E a \in Assets, h \in Holders, seen \in 0 .. MaxVersion : CallSubmit(s, a, h, seen)
    \/ \E c \in Codes, op \in ReviewOps : CallReview(s, op, c)

Progress(s) ==
    \/ Load(s) \/ Refuse(s)
    \/ WriteAsset(s) \/ StaleAsset(s)
    \/ WriteRequest(s) \/ StaleRequest(s)
    \/ InsertRequest(s) \/ DuplicateId(s) \/ Reload(s)
    \/ Commit(s)

Next == \E s \in Sessions : Call(s) \/ Progress(s) \/ Fail(s)

Spec == Init /\ [][Next]_vars

\* InnoDB grants row locks in order, so a session that waits is granted its lock as long
\* as the holders finish.  Nothing makes a client call, or a session fail.
FairSpec == Spec /\ \A s \in Sessions : SF_vars(Progress(s))

-----------------------------------------------------------------------------

Lifecycle == INSTANCE AssetLifecycle WITH
    status <- [a \in Assets |-> asset[a].status],
    holder <- [a \in Assets |-> asset[a].holder],
    request <- [c \in Codes |-> [status |-> request[c].status,
                                 asset |-> request[c].asset,
                                 requester |-> request[c].requester]]

AssetRow == [status : AssetStatus, holder : Holders \cup {NoOne}, version : 1 .. MaxVersion]
RequestRow == [status : RequestStatus, asset : Assets \cup {NoOne},
               requester : Holders \cup {NoOne}, version : 0 .. MaxVersion]
AuditRow == [action : Transitions, from : AssetStatus, to : AssetStatus]
Session == [pc : {"idle", "called", "loaded", "asset_written", "written", "retry"},
            op : Ops, asset : Assets \cup {NoOne}, code : 0 .. LastCode,
            who : Holders \cup {NoOne}, seen : 0 .. MaxVersion, from : AssetStatus,
            version : 0 .. MaxVersion, attempt : 1 .. Attempts]

\* Every row and every session record has its declared shape and stays within the bounds.
TypeOK ==
    /\ asset \in [Assets -> AssetRow]
    /\ request \in [Codes -> RequestRow]
    /\ history \in [Assets -> Seq(AuditRow)]
    /\ tx \in [Sessions -> Session]

\* First write wins (FR-29): a session that has written a row and may commit works on the
\* row's latest committed version, in the status it read, however long ago it read it.
WritesCurrent(t) ==
    /\ t.pc \in {"asset_written", "written"} /\ ChangesAsset(t) =>
          /\ asset[t.asset].version = t.version
          /\ asset[t.asset].status = t.from
    /\ t.pc = "written" /\ t.op \in ReviewOps => request[t.code].version = t.seen
WriterIsCurrent == \A s \in Sessions : WritesCurrent(tx[s])

\* What a repair request may do: it appears in pending_review, is decided once, completes
\* only after approval, and never changes its asset or its requester.
RequestMoves == {<<"absent", "pending_review">>, <<"pending_review", "under_repair">>,
                 <<"pending_review", "rejected">>, <<"under_repair", "completed">>}
RequestLifecycle ==
    [][\A c \in Codes :
          /\ request'[c].status # request[c].status =>
                <<request[c].status, request'[c].status>> \in RequestMoves
          /\ request[c].status # "absent" =>
                /\ request'[c].asset = request[c].asset
                /\ request'[c].requester = request[c].requester]_vars

\* T6-T8: a decision moves the request and its asset in one step, and the asset was in the
\* status that matches the request when the decision took effect.
Moves(c, before, after, from, to) ==
    request[c].status = before /\ request'[c].status = after =>
        /\ asset[request[c].asset].status = from
        /\ asset'[request[c].asset].status = to
DecisionsMoveBoth ==
    [][\A c \in Codes :
          /\ Moves(c, "pending_review", "under_repair", "pending_repair", "under_repair")
          /\ Moves(c, "pending_review", "rejected", "pending_repair", "in_use")
          /\ Moves(c, "under_repair", "completed", "under_repair", "in_use")]_vars

\* "No transition without log" (record_asset_action): whenever an asset's status changes,
\* the same commit adds one audit row, and the row tells the change that really happened.
LoggedTransitions ==
    [][\A a \in Assets :
          asset'[a].status # asset[a].status =>
              \E action \in Transitions :
                  history'[a] = Append(history[a], [action |-> action,
                                                    from |-> asset[a].status,
                                                    to |-> asset'[a].status])]_vars

\* Sessions never wait for each other in a circle: every call is answered.
EveryCallAnswered == \A s \in Sessions : tx[s].pc # "idle" ~> tx[s].pc = "idle"

\* The concurrent endpoints implement the atomic lifecycle.
ImplementsLifecycle == Lifecycle!Spec

\* Where they do: whoever begins another attempt finds what _load_asset_for_submit asked for.
GuardedRetry ==
    \A s \in Sessions : Reload(s) /\ tx'[s] # Idle =>
        /\ asset[tx[s].asset].status = "in_use"
        /\ asset[tx[s].asset].holder = tx[s].who
RetriesGuarded == [][GuardedRetry]_vars

-----------------------------------------------------------------------------
(* Claims of the documents.                                                 *)

\* 11-asset-fsm.md: the asset moves only along the state diagram.
DiagramMoves == {<<"in_stock", "in_use">>, <<"in_stock", "disposed">>, <<"in_use", "in_stock">>,
                 <<"in_use", "pending_repair">>, <<"pending_repair", "under_repair">>,
                 <<"pending_repair", "in_use">>, <<"under_repair", "in_use">>}
OnlyDiagramMoves ==
    [][\A a \in Assets : asset'[a].status # asset[a].status =>
          <<asset[a].status, asset'[a].status>> \in DiagramMoves]_vars

=============================================================================
