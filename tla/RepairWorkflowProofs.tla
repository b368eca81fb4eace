------------------------ MODULE RepairWorkflowProofs ------------------------
(***************************************************************************)
(* Proofs about RepairWorkflow for every number of assets, sessions, codes *)
(* and attempts: optimistic locking makes each session that writes a row   *)
(* the only one that does, on the version it read; the handlers implement  *)
(* AssetLifecycle; their waiting ends and their calls are short.           *)
(***************************************************************************)
EXTENDS RepairWorkflow, TLAPS

\* A request row that exists belongs to an asset.
RowsOK == \A c \in Codes : request[c].status # "absent" => request[c].asset \in Assets

\* The status in which a handler found its request, and the asset of that request.
ReviewedFrom(op) == IF op \in {"approve", "reject"} THEN "pending_review" ELSE "under_repair"
AssetFrom(op) == IF op \in {"approve", "reject"} THEN "pending_repair" ELSE "under_repair"

HasRead(t) == t.pc \in {"loaded", "asset_written", "written"}

\* What a session read is older than the row, or is the row.
AssetReadOK(t) ==
    /\ t.version < MaxVersion
    /\ t.version <= asset[t.asset].version
    /\ t.version = asset[t.asset].version => asset[t.asset].status = t.from

ReviewOK(t) ==
    /\ t.code \in Codes
    /\ request[t.code].status # "absent"
    /\ request[t.code].asset = t.asset
    /\ t.seen <= request[t.code].version
    /\ HasRead(t) =>
          /\ t.seen < MaxVersion
          /\ t.from = AssetFrom(t.op)
          /\ t.seen = request[t.code].version => request[t.code].status = ReviewedFrom(t.op)

SubmitOK(t) ==
    /\ HasRead(t) => t.code \in Codes
    /\ t.pc = "written" => request[t.code].status = "absent"

SessionOK(t) ==
    /\ t.pc # "idle" => t.asset \in Assets
    /\ t.pc = "retry" => t.op = "submit"
    /\ t.pc = "asset_written" => t.op \notin AssetOps
    /\ t.op \in AssetOps => t.code = 0
    /\ HasRead(t) => AssetReadOK(t)
    /\ t.op \in ReviewOps => ReviewOK(t)
    /\ t.op = "submit" => SubmitOK(t)

\* No two sessions hold the lock of one row.
Exclusive ==
    \A s, t \in Sessions : s # t =>
        /\ \A a \in Assets : ~(LocksAsset(tx[s], a) /\ LocksAsset(tx[t], a))
        /\ \A c \in Codes : ~(LocksCode(tx[s], c) /\ LocksCode(tx[t], c))

\* The inductive invariant.
IInv ==
    /\ TypeOK
    /\ RowsOK
    /\ Exclusive
    /\ \A s \in Sessions : SessionOK(tx[s])
    /\ WriterIsCurrent

-----------------------------------------------------------------------------

LEMMA InitInvariant == Init => IInv
<1> SUFFICES ASSUME Init PROVE IInv
  OBVIOUS
<1> USE ConstantsAssumption DEF Init
<1>1. TypeOK
  <2>1. asset \in [Assets -> AssetRow]
    BY DEF AssetRow, AssetStatus
  <2>2. NoRequest \in RequestRow
    BY DEF NoRequest, RequestRow, RequestStatus
  <2>3. request \in [Codes -> RequestRow]
    BY <2>2
  <2>4. Idle \in Session
    BY DEF Idle, Session, Ops, AssetOps, AssetStatus
  <2>5. tx \in [Sessions -> Session]
    BY <2>4
  <2>6. history \in [Assets -> Seq(AuditRow)]
    OBVIOUS
  <2> QED
    BY <2>1, <2>3, <2>5, <2>6 DEF TypeOK
<1>2. \A s \in Sessions : tx[s] = Idle
  OBVIOUS
<1>3. RowsOK
  BY DEF RowsOK, NoRequest
<1>4. Exclusive
  BY <1>2 DEF Exclusive, LocksAsset, LocksCode, Idle
<1>5. \A s \in Sessions : SessionOK(tx[s])
  BY <1>2 DEF SessionOK, Idle, HasRead, ReviewOps
<1>6. WriterIsCurrent
  BY <1>2 DEF WriterIsCurrent, WritesCurrent, Idle
<1> QED
  BY <1>1, <1>3, <1>4, <1>5, <1>6 DEF IInv

\* A step that commits nothing keeps the invariant if the session that takes it is left in a
\* good state and holds no lock another session holds.
LEMMA QuietStep ==
    ASSUME IInv, NEW s \in Sessions, NEW r \in Session,
           NothingCommitted, tx' = [tx EXCEPT ![s] = r],
           SessionOK(r), WritesCurrent(r),
           \A t \in Sessions \ {s} :
               /\ \A a \in Assets : LocksAsset(r, a) => ~LocksAsset(tx[t], a)
               /\ \A c \in Codes : LocksCode(r, c) => ~LocksCode(tx[t], c)
    PROVE  IInv'
<1> USE DEF NothingCommitted
<1>1. \A t \in Sessions : tx'[t] = IF t = s THEN r ELSE tx[t]
  BY DEF IInv, TypeOK
<1>2. TypeOK'
  BY DEF IInv, TypeOK
<1>3. RowsOK'
  BY DEF IInv, RowsOK
<1>4. Exclusive'
  BY <1>1 DEF IInv, Exclusive, LocksAsset, LocksCode
<1>5. \A t \in Sessions : SessionOK(tx[t])'
  BY <1>1 DEF IInv, SessionOK, AssetReadOK, ReviewOK, SubmitOK
<1>6. WriterIsCurrent'
  BY <1>1 DEF IInv, WriterIsCurrent, WritesCurrent
<1> QED
  BY <1>2, <1>3, <1>4, <1>5, <1>6 DEF IInv

\* Every way out that commits nothing: an error answer, a rollback, a crash.
LEMMA LeaveStep ==
    ASSUME IInv, NEW s \in Sessions, Leave(s), NothingCommitted
    PROVE  IInv'
<1>1. Idle \in Session
  BY ConstantsAssumption DEF Idle, Session, Ops, AssetOps, AssetStatus
<1>2. SessionOK(Idle) /\ WritesCurrent(Idle)
  BY DEF Idle, SessionOK, WritesCurrent, HasRead, ReviewOps
<1>3. /\ \A a : ~LocksAsset(Idle, a)
      /\ \A c : ~LocksCode(Idle, c)
  BY DEF Idle, LocksAsset, LocksCode
<1> QED
  BY <1>1, <1>2, <1>3, QuietStep DEF Leave

\* A session whose record changed to one that has written nothing.
LEMMA UnwrittenStep ==
    ASSUME IInv, NEW s \in Sessions, NEW r \in Session,
           NothingCommitted, tx' = [tx EXCEPT ![s] = r],
           SessionOK(r), r.pc \in {"called", "loaded", "retry"}
    PROVE  IInv'
<1>1. WritesCurrent(r)
  BY DEF WritesCurrent
<1>2. /\ \A a : ~LocksAsset(r, a)
      /\ \A c : ~LocksCode(r, c)
  BY DEF LocksAsset, LocksCode
<1> QED
  BY <1>1, <1>2, QuietStep

LEMMA CallStep ==
    ASSUME IInv, NEW s \in Sessions, Call(s)
    PROVE  IInv'
<1> USE ConstantsAssumption
<1>1. ASSUME NEW a \in Assets, NEW op \in AssetOps, NEW h \in Holders \cup {NoOne},
             CallAsset(s, op, a, h)
      PROVE  IInv'
  <2> DEFINE r == Called(op, a, 0, h, asset[a].version)
  <2>1. asset[a].version \in 0 .. MaxVersion
    BY DEF IInv, TypeOK, AssetRow
  <2>2. r \in Session
    BY <2>1 DEF Called, Session, Ops, AssetStatus
  <2>3. SessionOK(r) /\ r.pc = "called"
    BY DEF Called, SessionOK, HasRead, ReviewOps, AssetOps
  <2> QED
    BY <1>1, <2>2, <2>3, UnwrittenStep DEF CallAsset
<1>2. ASSUME NEW a \in Assets, NEW h \in Holders, NEW seen \in 0 .. MaxVersion,
             CallSubmit(s, a, h, seen)
      PROVE  IInv'
  <2> DEFINE r == Called("submit", a, 0, h, seen)
  <2>1. r \in Session
    BY DEF Called, Session, Ops, AssetStatus
  <2>2. SessionOK(r) /\ r.pc = "called"
    BY DEF Called, SessionOK, SubmitOK, HasRead, ReviewOps
  <2> QED
    BY <1>2, <2>1, <2>2, UnwrittenStep DEF CallSubmit
<1>3. ASSUME NEW c \in Codes, NEW op \in ReviewOps, CallReview(s, op, c)
      PROVE  IInv'
  <2> DEFINE r == Called(op, request[c].asset, c, NoOne, request[c].version)
  <2>1. request[c] \in RequestRow /\ request[c].asset \in Assets
    BY <1>3 DEF IInv, TypeOK, RowsOK, CallReview
  <2>2. r \in Session
    BY <2>1 DEF Called, Session, Ops, AssetStatus, RequestRow, Codes
  <2>3. SessionOK(r) /\ r.pc = "called"
    BY <1>3, <2>1 DEF CallReview, Called, SessionOK, ReviewOK, HasRead, ReviewOps, AssetOps,
                      RequestRow
  <2> QED
    BY <1>3, <2>2, <2>3, UnwrittenStep DEF CallReview
<1> QED
  BY <1>1, <1>2, <1>3 DEF Call

\* What a snapshot brings into a session, at Load and at every Reload.
LEMMA ReadIsOK ==
    ASSUME IInv, NEW s \in Sessions, tx[s].pc \in {"called", "retry"},
           InBounds(tx[s]), tx[s].op = "submit" => NextCode \in Codes
    PROVE  /\ Read(tx[s]) \in Session
           /\ Read(tx[s]).pc = "loaded"
           /\ Read(tx[s]).op = tx[s].op /\ Read(tx[s]).asset = tx[s].asset
           /\ Read(tx[s]).seen = tx[s].seen
           /\ Read(tx[s]).from = asset[tx[s].asset].status
           /\ tx[s].op # "submit" => Read(tx[s]).code = tx[s].code
           /\ tx[s].op = "submit" => Read(tx[s]).code \in Codes
           /\ AssetReadOK(Read(tx[s]))
<1>1. tx[s] \in Session /\ SessionOK(tx[s])
  BY DEF IInv, TypeOK
<1>2. asset[tx[s].asset] \in AssetRow
  BY <1>1 DEF IInv, TypeOK, SessionOK
<1>3. Read(tx[s]) \in Session
  <2>1. ASSUME NEW t \in Session, NEW st \in AssetStatus, NEW v \in 0 .. MaxVersion,
               NEW c \in 0 .. LastCode
        PROVE  [t EXCEPT !.pc = "loaded", !.from = st, !.version = v, !.code = c] \in Session
    BY DEF Session
  <2>2. asset[tx[s].asset].status \in AssetStatus /\ asset[tx[s].asset].version \in 0 .. MaxVersion
    BY <1>2, ConstantsAssumption DEF AssetRow
  <2>3. (IF tx[s].op = "submit" THEN NextCode ELSE tx[s].code) \in 0 .. LastCode
    BY <1>1, ConstantsAssumption DEF Session, Codes
  <2> QED
    BY <1>1, <2>1, <2>2, <2>3 DEF Read
<1>4. AssetReadOK(Read(tx[s]))
  BY <1>1, <1>2, ConstantsAssumption DEF Read, Session, AssetRow, AssetReadOK, InBounds
<1> QED
  BY <1>1, <1>3, <1>4 DEF Read, Session

LEMMA LoadStep ==
    ASSUME IInv, NEW s \in Sessions, Load(s)
    PROVE  IInv'
<1> DEFINE t == tx[s]
           r == Read(tx[s])
<1>1. t.pc = "called" /\ Passes(t) /\ InBounds(t) /\ NothingCommitted /\ tx' = [tx EXCEPT ![s] = r]
  BY DEF Load
<1>2. t.op = "submit" => NextCode \in Codes
  BY <1>1 DEF Passes, SubmitGuard
<1>3. t \in Session /\ SessionOK(t)
  BY DEF IInv, TypeOK
<1>4. /\ r \in Session /\ r.pc = "loaded" /\ r.op = t.op /\ r.asset = t.asset
      /\ r.seen = t.seen /\ r.from = asset[t.asset].status /\ AssetReadOK(r)
      /\ t.op # "submit" => r.code = t.code
      /\ t.op = "submit" => r.code \in Codes
  BY <1>1, <1>2, ReadIsOK
<1>5. t.op \in ReviewOps => ReviewOK(r)
  <2> SUFFICES ASSUME t.op \in ReviewOps PROVE ReviewOK(r)
    OBVIOUS
  <2>1. ReviewOK(t)
    BY <1>3 DEF SessionOK
  <2>2. ReviewGuard(t, ReviewedFrom(t.op), AssetFrom(t.op))
    BY <1>1 DEF Passes, ReviewOps, ReviewedFrom, AssetFrom
  <2>3. r.code = t.code
    BY <1>4 DEF ReviewOps
  <2> HIDE DEF t, r
  <2> QED
    BY <1>1, <1>4, <2>1, <2>2, <2>3 DEF ReviewOK, ReviewGuard, HasRead, InBounds
<1>6. SessionOK(r)
  <2> HIDE DEF t, r
  <2> QED
    BY <1>1, <1>3, <1>4, <1>5 DEF SessionOK, SubmitOK, AssetOps
<1> QED
  BY <1>1, <1>4, <1>6, UnwrittenStep

LEMMA ReloadStep ==
    ASSUME IInv, NEW s \in Sessions, Reload(s)
    PROVE  IInv'
<1> DEFINE t == tx[s]
           r == Read(tx[s])
<1>1. t.pc = "retry" /\ NothingCommitted
  BY DEF Reload
<1>2. t \in Session /\ SessionOK(t) /\ t.op = "submit"
  BY <1>1 DEF IInv, TypeOK, SessionOK
<1>3. CASE NextCode \in Codes /\ InBounds(t)
  <2>1. /\ r \in Session /\ r.pc = "loaded" /\ r.op = t.op /\ r.asset = t.asset
        /\ r.code \in Codes /\ AssetReadOK(r)
    BY <1>1, <1>2, <1>3, ReadIsOK
  <2>2. SessionOK(r)
    BY <1>1, <1>2, <2>1 DEF SessionOK, SubmitOK, ReviewOps, HasRead, AssetOps
  <2> QED
    BY <1>1, <1>3, <2>1, <2>2, UnwrittenStep DEF Reload
<1>4. CASE ~(NextCode \in Codes /\ InBounds(t))
  BY <1>1, <1>4, LeaveStep DEF Reload
<1> QED
  BY <1>3, <1>4

LEMMA DuplicateStep ==
    ASSUME IInv, NEW s \in Sessions, DuplicateId(s)
    PROVE  IInv'
<1> DEFINE t == tx[s]
           r == NextAttempt(tx[s])
<1>1. NothingCommitted /\ t.op = "submit" /\ AssetDone(t)
  BY DEF DuplicateId
<1>2. t \in Session /\ SessionOK(t)
  BY DEF IInv, TypeOK
<1>3. CASE t.attempt < Attempts
  <2>1. tx' = [tx EXCEPT ![s] = r]
    BY <1>3 DEF DuplicateId, IInv, TypeOK
  <2>2. /\ r \in Session /\ r.pc = "retry" /\ r.op = t.op /\ r.asset = t.asset
        /\ r.version = t.version
    <3>1. ASSUME NEW u \in Session, NEW n \in 1 .. Attempts
          PROVE  LET v == [u EXCEPT !.pc = "retry", !.attempt = n]
                 IN  v \in Session /\ v.pc = "retry" /\ v.op = u.op /\ v.asset = u.asset
                     /\ v.version = u.version
      BY DEF Session
    <3>2. t.attempt + 1 \in 1 .. Attempts
      BY <1>2, <1>3, ConstantsAssumption DEF Session
    <3> QED
      BY <1>2, <3>1, <3>2 DEF NextAttempt
  <2>3. SessionOK(r)
    <3> HIDE DEF r
    <3> QED
      BY <1>1, <1>2, <2>2 DEF SessionOK, SubmitOK, HasRead, ReviewOps, AssetDone, AssetOps
  <2> QED
    BY <1>1, <1>2, <2>1, <2>2, <2>3, UnwrittenStep
<1>4. CASE ~(t.attempt < Attempts)
  BY <1>1, <1>4, LeaveStep DEF DuplicateId
<1> QED
  BY <1>3, <1>4

\* A flush under a free lock moves the session on and leaves the rows as they are.
LEMMA GotoStep ==
    ASSUME IInv, NEW s \in Sessions, NothingCommitted,
           NEW pc \in {"asset_written", "written"}, Goto(s, pc),
           HasRead(tx[s]),
           pc = "asset_written" => tx[s].op \notin AssetOps,
           ChangesAsset(tx[s]) => asset[tx[s].asset].version = tx[s].version,
           pc = "written" /\ tx[s].op \in ReviewOps => request[tx[s].code].version = tx[s].seen,
           pc = "written" /\ tx[s].op = "submit" => request[tx[s].code].status = "absent",
           tx[s].op # "details" => AssetFree(s),
           pc = "written" /\ tx[s].op \notin AssetOps => CodeFree(s)
    PROVE  IInv'
<1> DEFINE t == tx[s]
           r == [tx[s] EXCEPT !.pc = pc]
<1>1. t \in Session /\ SessionOK(t) /\ tx' = [tx EXCEPT ![s] = r]
  BY DEF IInv, TypeOK, Goto
<1>2. /\ r \in Session /\ r.pc = pc /\ r.op = t.op /\ r.asset = t.asset /\ r.code = t.code
      /\ r.seen = t.seen /\ r.from = t.from /\ r.version = t.version
  <2>1. ASSUME NEW u \in Session, NEW p \in {"asset_written", "written"}
        PROVE  LET v == [u EXCEPT !.pc = p]
               IN  v \in Session /\ v.pc = p /\ v.op = u.op /\ v.asset = u.asset /\ v.code = u.code
                   /\ v.seen = u.seen /\ v.from = u.from /\ v.version = u.version
    BY DEF Session
  <2> QED
    BY <1>1, <2>1
<1> HIDE DEF r
<1>3. SessionOK(r)
  BY <1>1, <1>2 DEF SessionOK, AssetReadOK, ReviewOK, SubmitOK, HasRead
<1>4. WritesCurrent(r)
  BY <1>1, <1>2 DEF WritesCurrent, ChangesAsset, SessionOK, AssetReadOK
<1>5. \A u \in Sessions \ {s} :
         /\ \A a \in Assets : LocksAsset(r, a) => ~LocksAsset(tx[u], a)
         /\ \A c \in Codes : LocksCode(r, c) => ~LocksCode(tx[u], c)
  BY <1>1, <1>2 DEF LocksAsset, LocksCode, AssetFree, CodeFree, SessionOK, Codes
<1> QED
  BY <1>1, <1>2, <1>3, <1>4, <1>5, QuietStep

LEMMA FlushStep ==
    ASSUME IInv, NEW s \in Sessions, WriteAsset(s) \/ WriteRequest(s) \/ InsertRequest(s)
    PROVE  IInv'
<1> DEFINE t == tx[s]
<1>1. t \in Session /\ SessionOK(t) /\ WritesCurrent(t)
  BY DEF IInv, TypeOK, WriterIsCurrent
<1>2. t.pc = "asset_written" /\ t.op # "details" => AssetFree(s)
  BY DEF IInv, Exclusive, TypeOK, Session, SessionOK, LocksAsset, AssetFree, ReviewOK
<1>3. CASE WriteAsset(s)
  <2>1. t.op \in AssetOps => t.op \notin ReviewOps /\ t.op # "submit"
    BY DEF AssetOps, ReviewOps
  <2>2. /\ HasRead(t) /\ NothingCommitted /\ AssetFree(s)
        /\ asset[t.asset].version = t.version
    BY <1>3 DEF WriteAsset, HasRead
  <2>3. CASE t.op \in AssetOps
    <3>1. Goto(s, "written")
      BY <1>3, <2>3 DEF WriteAsset
    <3> QED
      BY <2>1, <2>2, <2>3, <3>1, GotoStep
  <2>4. CASE t.op \notin AssetOps
    <3>1. Goto(s, "asset_written")
      BY <1>3, <2>4 DEF WriteAsset
    <3> QED
      BY <2>2, <2>4, <3>1, GotoStep
  <2> QED
    BY <2>3, <2>4
<1>4. CASE WriteRequest(s)
  <2>1. t.op # "submit" /\ t.op \notin AssetOps
    BY <1>4 DEF WriteRequest, ReviewOps, AssetOps
  <2>2. ChangesAsset(t) <=> t.op # "details"
    BY <2>1 DEF ChangesAsset
  <2>3. HasRead(t) /\ (t.op # "details" => t.pc = "asset_written")
    BY <1>4, <2>2 DEF WriteRequest, AssetDone, HasRead
  <2>4. ChangesAsset(t) => asset[t.asset].version = t.version
    BY <1>1, <2>2, <2>3 DEF WritesCurrent
  <2> QED
    BY <1>2, <1>4, <2>1, <2>3, <2>4, GotoStep DEF WriteRequest
<1>5. CASE InsertRequest(s)
  <2>1. HasRead(t) /\ t.op \notin ReviewOps /\ t.op # "details"
    BY <1>5 DEF InsertRequest, AssetDone, HasRead, ReviewOps
  <2>2. ChangesAsset(t) => t.pc = "asset_written"
    BY <1>5 DEF InsertRequest, AssetDone
  <2>3. ChangesAsset(t) => asset[t.asset].version = t.version
    BY <1>1, <2>2 DEF WritesCurrent
  <2> QED
    BY <1>5, <2>1, <2>3, GotoStep DEF InsertRequest
<1> QED
  BY <1>3, <1>4, <1>5

\* What a commit does to the asset rows: it replaces at most the row its session holds,
\* by one with the next version.
LEMMA CommitAsset ==
    ASSUME IInv, NEW s \in Sessions, Commit(s)
    PROVE  /\ asset' \in [Assets -> AssetRow]
           /\ \A a \in Assets :
                 \/ asset'[a] = asset[a]
                 \/ /\ LocksAsset(tx[s], a) /\ ChangesAsset(tx[s])
                    /\ asset'[a] = AssetAfter(tx[s])
                    /\ asset'[a].version = asset[a].version + 1
<1> DEFINE t == tx[s]
<1>1. t \in Session /\ SessionOK(t) /\ WritesCurrent(t) /\ t.pc = "written"
  BY DEF Commit, IInv, TypeOK, WriterIsCurrent
<1>2. t.asset \in Assets /\ AssetReadOK(t) /\ asset[t.asset] \in AssetRow
  BY <1>1 DEF SessionOK, HasRead, IInv, TypeOK
<1>3. CASE ChangesAsset(t)
  <2>1. asset[t.asset].version + 1 \in 1 .. MaxVersion
    BY <1>1, <1>2, <1>3, ConstantsAssumption DEF WritesCurrent, AssetReadOK, AssetRow
  <2>2. \A op \in Transitions : NextStatus[op] \in AssetStatus
    BY DEF Transitions, NextStatus, AssetStatus
  <2>3. AssetAfter(t) \in AssetRow
    BY <1>1, <1>2, <2>1, <2>2 DEF AssetAfter, AssetRow, Session
  <2>4. asset' = [asset EXCEPT ![t.asset] = AssetAfter(t)]
    BY <1>3 DEF Commit
  <2>5. LocksAsset(t, t.asset) /\ AssetAfter(t).version = asset[t.asset].version + 1
    BY <1>1, <1>3 DEF LocksAsset, ChangesAsset, AssetAfter
  <2> QED
    BY <1>2, <1>3, <2>3, <2>4, <2>5 DEF IInv, TypeOK, LocksAsset
<1>4. CASE ~ChangesAsset(t)
  BY <1>4 DEF Commit, IInv, TypeOK
<1> QED
  BY <1>3, <1>4

\* What a commit does to the request rows: it adds an absent row, or it replaces the row
\* its session holds by one with the next version and the same asset and requester.
LEMMA CommitRequest ==
    ASSUME IInv, NEW s \in Sessions, Commit(s)
    PROVE  /\ request' \in [Codes -> RequestRow]
           /\ \A c \in Codes :
                 \/ request'[c] = request[c]
                 \/ /\ LocksCode(tx[s], c)
                    /\ \/ /\ tx[s].op = "submit" /\ request[c].status = "absent"
                          /\ request'[c].status = "pending_review"
                          /\ request'[c].asset \in Assets
                       \/ /\ tx[s].op \in ReviewOps
                          /\ request[c].status = ReviewedFrom(tx[s].op)
                          /\ request'[c].status = IF tx[s].op = "details" THEN request[c].status
                                                   ELSE Decision[tx[s].op]
                          /\ request'[c].asset = request[c].asset
                          /\ request'[c].asset = tx[s].asset
                          /\ request'[c].requester = request[c].requester
                          /\ request'[c].version = request[c].version + 1
<1> DEFINE t == tx[s]
<1>1. t \in Session /\ SessionOK(t) /\ WritesCurrent(t) /\ t.pc = "written"
  BY DEF Commit, IInv, TypeOK, WriterIsCurrent
<1>2. CASE t.op \in AssetOps
  BY <1>2 DEF Commit, IInv, TypeOK
<1>3. CASE t.op = "submit"
  <2>1. t.code \in Codes /\ request[t.code].status = "absent" /\ t.asset \in Assets
    BY <1>1, <1>3 DEF SessionOK, SubmitOK, HasRead
  <2>2. RequestAfter(t) = [status |-> "pending_review", asset |-> t.asset,
                           requester |-> t.who, version |-> 1]
    BY <1>3 DEF RequestAfter, Decision
  <2>3. RequestAfter(t) \in RequestRow
    BY <1>1, <2>1, <2>2, ConstantsAssumption DEF RequestRow, RequestStatus, ActiveStatus, Session
  <2>4. request' = [request EXCEPT ![t.code] = RequestAfter(t)]
    BY <1>3 DEF Commit, AssetOps
  <2> QED
    BY <1>1, <1>3, <2>1, <2>2, <2>3, <2>4 DEF IInv, TypeOK, LocksCode
<1>4. CASE t.op \in ReviewOps
  <2>1. /\ t.code \in Codes /\ request[t.code].asset = t.asset
        /\ request[t.code].version = t.seen /\ t.seen < MaxVersion
        /\ request[t.code].status = ReviewedFrom(t.op)
    BY <1>1, <1>4 DEF SessionOK, ReviewOK, HasRead, WritesCurrent
  <2>2. request[t.code] \in RequestRow
    BY <2>1 DEF IInv, TypeOK
  <2>3. RequestAfter(t) = [status |-> IF t.op = "details" THEN request[t.code].status
                                      ELSE Decision[t.op],
                           asset |-> request[t.code].asset,
                           requester |-> request[t.code].requester,
                           version |-> request[t.code].version + 1]
    BY <1>4 DEF RequestAfter, Decision, ReviewOps
  <2>4. t.op # "details" => Decision[t.op] \in RequestStatus
    BY <1>4 DEF Decision, ReviewOps, RequestStatus, ActiveStatus
  <2>5. RequestAfter(t) \in RequestRow
    BY <2>1, <2>2, <2>3, <2>4, ConstantsAssumption DEF RequestRow
  <2>6. request' = [request EXCEPT ![t.code] = RequestAfter(t)]
    BY <1>4 DEF Commit, AssetOps, ReviewOps
  <2> QED
    BY <1>1, <1>4, <2>1, <2>3, <2>5, <2>6, SMTT(30) DEF IInv, TypeOK, LocksCode
<1> QED
  BY <1>1, <1>2, <1>3, <1>4 DEF Session, Ops

LEMMA CommitHistory ==
    ASSUME IInv, NEW s \in Sessions, Commit(s)
    PROVE  history' \in [Assets -> Seq(AuditRow)]
<1> DEFINE t == tx[s]
<1>1. CASE t.op \in Transitions
  <2>1. t \in Session /\ t.asset \in Assets
    BY DEF IInv, TypeOK, SessionOK, Commit
  <2>2. NextStatus[t.op] \in AssetStatus
    BY <1>1 DEF Transitions, NextStatus, AssetStatus
  <2>3. AuditRowOf(t) \in AuditRow
    BY <1>1, <2>1, <2>2 DEF AuditRowOf, AuditRow, Session
  <2>4. history' = [history EXCEPT ![t.asset] = Append(history[t.asset], AuditRowOf(t))]
    BY <1>1 DEF Commit
  <2>5. Append(history[t.asset], AuditRowOf(t)) \in Seq(AuditRow)
    BY <2>1, <2>3 DEF IInv, TypeOK
  <2> QED
    BY <2>4, <2>5 DEF IInv, TypeOK
<1>2. CASE t.op \notin Transitions
  BY <1>2 DEF Commit, IInv, TypeOK
<1> QED
  BY <1>1, <1>2

LEMMA CommitStep ==
    ASSUME IInv, NEW s \in Sessions, Commit(s)
    PROVE  IInv'
<1>1. \A a \in Assets :
         \/ asset'[a] = asset[a]
         \/ LocksAsset(tx[s], a) /\ asset'[a].version = asset[a].version + 1
  BY CommitAsset
<1>2. \A c \in Codes :
         \/ request'[c] = request[c]
         \/ /\ LocksCode(tx[s], c) /\ request[c].status = "absent"
            /\ request'[c].asset \in Assets
         \/ /\ LocksCode(tx[s], c) /\ request[c].status # "absent"
            /\ request'[c].status # "absent"
            /\ request'[c].asset = request[c].asset
            /\ request'[c].version = request[c].version + 1
  <2>1. \A op \in ReviewOps : ReviewedFrom(op) # "absent"
                             /\ (op # "details" => Decision[op] # "absent")
    BY DEF ReviewOps, ReviewedFrom, Decision
  <2> QED
    BY <2>1, CommitRequest
<1>3. \A u \in Sessions : tx'[u] = IF u = s THEN Idle ELSE tx[u]
  BY DEF Commit, Leave, IInv, TypeOK
<1>4. /\ Idle \in Session
      /\ SessionOK(Idle)' /\ WritesCurrent(Idle)'
      /\ \A a : ~LocksAsset(Idle, a)
      /\ \A c : ~LocksCode(Idle, c)
  BY ConstantsAssumption DEF Idle, Session, Ops, AssetOps, AssetStatus, SessionOK, WritesCurrent,
                             HasRead, ReviewOps, LocksAsset, LocksCode
<1>5. TypeOK'
  <2>1. tx' \in [Sessions -> Session]
    BY <1>4 DEF Commit, Leave, IInv, TypeOK
  <2> QED
    BY <2>1, CommitAsset, CommitRequest, CommitHistory DEF TypeOK
<1>6. RowsOK'
  BY <1>2 DEF IInv, RowsOK
<1>7. Exclusive'
  BY <1>3, <1>4 DEF IInv, Exclusive, LocksAsset, LocksCode
<1>8. ASSUME NEW u \in Sessions, u # s
      PROVE  SessionOK(tx[u])' /\ WritesCurrent(tx[u])'
  <2> DEFINE t == tx[u]
  <2>1. t \in Session /\ SessionOK(t) /\ WritesCurrent(t) /\ t' = t
    BY <1>3, <1>8 DEF IInv, TypeOK, WriterIsCurrent
  <2>2. /\ \A a \in Assets : LocksAsset(t, a) => asset'[a] = asset[a]
        /\ \A c \in Codes : LocksCode(t, c) => request'[c] = request[c]
    BY <1>1, <1>2, <1>8 DEF IInv, Exclusive
  <2>3. HasRead(t) => AssetReadOK(t)'
    <3> SUFFICES ASSUME HasRead(t) PROVE AssetReadOK(t)'
      OBVIOUS
    <3>1. t.asset \in Assets /\ AssetReadOK(t) /\ asset[t.asset] \in AssetRow
      BY <2>1 DEF HasRead, SessionOK, IInv, TypeOK
    <3> QED
      BY <1>1, <2>1, <3>1 DEF AssetReadOK, AssetRow, Session
  <2>4. t.op \in ReviewOps => ReviewOK(t)'
    <3> SUFFICES ASSUME t.op \in ReviewOps PROVE ReviewOK(t)'
      OBVIOUS
    <3>1. ReviewOK(t) /\ request[t.code] \in RequestRow
      BY <2>1 DEF SessionOK, ReviewOK, IInv, TypeOK
    <3> QED
      BY <1>2, <2>1, <3>1 DEF ReviewOK, RequestRow, Session, HasRead
  <2>5. t.op = "submit" => SubmitOK(t)'
    BY <2>1, <2>2 DEF SessionOK, SubmitOK, HasRead, LocksCode
  <2>6. SessionOK(t)'
    BY <2>1, <2>3, <2>4, <2>5 DEF SessionOK, HasRead
  <2>7. WritesCurrent(t)'
    BY <2>1, <2>2 DEF WritesCurrent, ChangesAsset, LocksAsset, LocksCode, SessionOK, ReviewOK
  <2> QED
    BY <2>1, <2>6, <2>7
<1>9. /\ \A u \in Sessions : SessionOK(tx[u])'
      /\ WriterIsCurrent'
  BY <1>3, <1>4, <1>8 DEF WriterIsCurrent
<1> QED
  BY <1>5, <1>6, <1>7, <1>9 DEF IInv

LEMMA NextStep == IInv /\ [Next]_vars => IInv'
<1> SUFFICES ASSUME IInv, [Next]_vars PROVE IInv'
  OBVIOUS
<1>1. CASE UNCHANGED vars
  BY <1>1 DEF vars, IInv, TypeOK, RowsOK, Exclusive, SessionOK, AssetReadOK, ReviewOK, SubmitOK,
              WriterIsCurrent, WritesCurrent
<1>2. ASSUME NEW s \in Sessions, Call(s) \/ Progress(s) \/ Fail(s)
      PROVE  IInv'
  <2>1. CASE Call(s)
    BY <2>1, CallStep
  <2>2. CASE Load(s)
    BY <2>2, LoadStep
  <2>3. CASE Refuse(s) \/ StaleAsset(s) \/ StaleRequest(s) \/ Fail(s)
    BY <2>3, LeaveStep DEF Refuse, StaleAsset, StaleRequest, Fail
  <2>4. CASE WriteAsset(s) \/ WriteRequest(s) \/ InsertRequest(s)
    BY <2>4, FlushStep
  <2>5. CASE DuplicateId(s)
    BY <2>5, DuplicateStep
  <2>6. CASE Reload(s)
    BY <2>6, ReloadStep
  <2>7. CASE Commit(s)
    BY <2>7, CommitStep
  <2> QED
    BY <1>2, <2>1, <2>2, <2>3, <2>4, <2>5, <2>6, <2>7 DEF Progress
<1> QED
  BY <1>1, <1>2 DEF Next

LEMMA Invariant == Spec => []IInv
<1> QED
  BY InitInvariant, NextStep, PTL DEF Spec

\* Rows and sessions keep their shape, and no version passes the bound.
THEOREM TypeCorrect == Spec => []TypeOK
<1>1. IInv => TypeOK
  BY DEF IInv
<1> QED
  BY <1>1, Invariant, PTL

\* A session that has written a row holds the row's latest version (version_id_col and the
\* row lock together): of several that read the same version, one commits.
THEOREM FirstWriteWins == Spec => []WriterIsCurrent
<1>1. IInv => WriterIsCurrent
  BY DEF IInv
<1> QED
  BY <1>1, Invariant, PTL

-----------------------------------------------------------------------------

LEMMA OnlyCommitsChangeRows ==
    ASSUME [Next]_vars
    PROVE  NothingCommitted \/ \E s \in Sessions : Commit(s)
BY DEF Next, vars, Call, CallAsset, CallSubmit, CallReview, Progress, Load, Refuse, WriteAsset,
       StaleAsset, WriteRequest, StaleRequest, InsertRequest, DuplicateId, Reload, Fail,
       NothingCommitted

\* A repair request is decided at most once and stays with its asset and its requester,
\* whatever the interleaving and however often an identifier collides.
THEOREM RequestsKeepToLifecycle == Spec => RequestLifecycle
<1> DEFINE Step ==
      \A c \in Codes :
          /\ request'[c].status # request[c].status =>
                <<request[c].status, request'[c].status>> \in RequestMoves
          /\ request[c].status # "absent" =>
                /\ request'[c].asset = request[c].asset
                /\ request'[c].requester = request[c].requester
<1>1. IInv /\ [Next]_vars => Step
  <2> SUFFICES ASSUME IInv, [Next]_vars, NEW c \in Codes
               PROVE  /\ request'[c].status # request[c].status =>
                            <<request[c].status, request'[c].status>> \in RequestMoves
                      /\ request[c].status # "absent" =>
                            /\ request'[c].asset = request[c].asset
                            /\ request'[c].requester = request[c].requester
    OBVIOUS
  <2>1. CASE NothingCommitted
    BY <2>1 DEF NothingCommitted
  <2>2. ASSUME NEW s \in Sessions, Commit(s)
        PROVE  /\ request'[c].status # request[c].status =>
                     <<request[c].status, request'[c].status>> \in RequestMoves
               /\ request[c].status # "absent" =>
                     /\ request'[c].asset = request[c].asset
                     /\ request'[c].requester = request[c].requester
    <3>1. \A op \in ReviewOps :
             op # "details" => <<ReviewedFrom(op), Decision[op]>> \in RequestMoves
      BY DEF ReviewOps, ReviewedFrom, Decision, RequestMoves
    <3>2. <<"absent", "pending_review">> \in RequestMoves
      BY DEF RequestMoves
    <3> QED
      BY <2>2, <3>1, <3>2, CommitRequest
  <2> QED
    BY <2>1, <2>2, OnlyCommitsChangeRows
<1>2. [Next]_vars /\ IInv => [Step]_vars
  BY <1>1
<1> QED
  BY <1>2, Invariant, PTL DEF Spec, RequestLifecycle

\* T6-T8: approval, rejection and completion move the request and its asset together, and
\* find the asset in the status that matches the request.
THEOREM DecisionsMoveBothTables == Spec => DecisionsMoveBoth
<1> DEFINE Step ==
      \A c \in Codes :
          /\ Moves(c, "pending_review", "under_repair", "pending_repair", "under_repair")
          /\ Moves(c, "pending_review", "rejected", "pending_repair", "in_use")
          /\ Moves(c, "under_repair", "completed", "under_repair", "in_use")
<1>1. ASSUME IInv, [Next]_vars, NEW c \in Codes, request[c].status \in ActiveStatus,
             request'[c].status # request[c].status
      PROVE  \E op \in {"approve", "reject", "complete"} :
                /\ request[c].status = ReviewedFrom(op) /\ request'[c].status = Decision[op]
                /\ asset[request[c].asset].status = AssetFrom(op)
                /\ asset'[request[c].asset].status = NextStatus[op]
  <2>1. PICK s \in Sessions : Commit(s)
    BY <1>1, OnlyCommitsChangeRows DEF NothingCommitted
  <2> DEFINE t == tx[s]
  <2>2. /\ LocksCode(t, c) /\ t.op \in ReviewOps /\ t.op # "details"
        /\ request[c].status = ReviewedFrom(t.op) /\ request'[c].status = Decision[t.op]
    BY <1>1, <2>1, CommitRequest DEF ActiveStatus
  <2>3. t.op \in {"approve", "reject", "complete"} /\ t.code = c /\ t.pc = "written"
    BY <2>2 DEF ReviewOps, LocksCode
  <2>4. /\ t.asset \in Assets /\ request[c].asset = t.asset /\ t.from = AssetFrom(t.op)
    BY <1>1, <2>2, <2>3 DEF IInv, SessionOK, ReviewOK, HasRead
  <2>5. ChangesAsset(t) /\ t.op \in Transitions
    BY <2>3 DEF ChangesAsset, Transitions, NextStatus
  <2>6. asset[t.asset].status = t.from
    BY <1>1, <2>3, <2>5 DEF IInv, WriterIsCurrent, WritesCurrent
  <2>7. asset'[t.asset].status = NextStatus[t.op]
    BY <1>1, <2>1, <2>4, <2>5 DEF Commit, AssetAfter, IInv, TypeOK
  <2> QED
    BY <2>2, <2>3, <2>4, <2>6, <2>7
<1>2. IInv /\ [Next]_vars => Step
  BY <1>1 DEF Moves, ActiveStatus, ReviewedFrom, AssetFrom, Decision, NextStatus
<1>3. [Next]_vars /\ IInv => [Step]_vars
  BY <1>2
<1> QED
  BY <1>3, Invariant, PTL DEF Spec, DecisionsMoveBoth

\* "No transition without log" (record_asset_action): every change of an asset's status is
\* committed with an audit row that tells the status the asset left and the one it got.
THEOREM TransitionsAreLogged == Spec => LoggedTransitions
<1> DEFINE Logged(a) ==
      \E action \in Transitions :
          history'[a] = Append(history[a], [action |-> action, from |-> asset[a].status,
                                            to |-> asset'[a].status])
<1>1. ASSUME IInv, [Next]_vars, NEW a \in Assets, asset'[a].status # asset[a].status
      PROVE  Logged(a)
  <2>1. PICK s \in Sessions : Commit(s)
    BY <1>1, OnlyCommitsChangeRows DEF NothingCommitted
  <2> DEFINE t == tx[s]
  <2>2. LocksAsset(t, a) /\ ChangesAsset(t) /\ asset'[a] = AssetAfter(t)
    BY <1>1, <2>1, CommitAsset
  <2>3. t.asset = a /\ t.op \in Transitions /\ asset'[a].status = NextStatus[t.op]
    BY <1>1, <2>2 DEF LocksAsset, AssetAfter
  <2>4. asset[a].status = t.from
    BY <1>1, <2>2, <2>3 DEF IInv, WriterIsCurrent, WritesCurrent, LocksAsset
  <2>5. history'[a] = Append(history[a], AuditRowOf(t))
    BY <1>1, <2>1, <2>3 DEF Commit, IInv, TypeOK
  <2> QED
    BY <2>3, <2>4, <2>5 DEF AuditRowOf
<1>2. [Next]_vars /\ IInv => [\A a \in Assets : asset'[a].status # asset[a].status => Logged(a)]_vars
  BY <1>1
<1> QED
  BY <1>2, Invariant, PTL DEF Spec, LoggedTransitions

-----------------------------------------------------------------------------
(* Why every call is answered (EveryCallAnswered), for any number of        *)
(* sessions: nobody waits in a circle, and every step of a call brings it   *)
(* nearer to its end.                                                       *)

\* s needs a row that t has written and not yet committed: what AssetFree and CodeFree ask.
WaitsFor(s, t) ==
    /\ t # s
    /\ \/ /\ tx[s].pc = "loaded" /\ ChangesAsset(tx[s])
          /\ LocksAsset(tx[t], tx[s].asset)
       \/ /\ tx[s].op \notin AssetOps /\ AssetDone(tx[s])
          /\ LocksCode(tx[t], tx[s].code)
       \/ /\ tx[s].op = "submit" /\ AssetDone(tx[s])
          /\ LocksAsset(tx[t], tx[s].asset)

\* Who is waited for waits, if at all, for a session that has only to commit.
WaitsEnd ==
    \A s, t, u \in Sessions : WaitsFor(s, t) /\ WaitsFor(t, u) =>
        tx[u].pc = "written" /\ \A v \in Sessions : ~WaitsFor(u, v)

\* No circle of row locks, identifiers and foreign keys can form, whatever the handlers and
\* their number: the order in which a flush takes its rows is the same for all.
THEOREM NoCircularWait == Spec => []WaitsEnd
<1>1. ASSUME IInv, NEW s \in Sessions, NEW t \in Sessions, NEW u \in Sessions,
             WaitsFor(s, t), WaitsFor(t, u)
      PROVE  tx[u].pc = "written" /\ \A v \in Sessions : ~WaitsFor(u, v)
  <2>1. tx[t].pc \in {"asset_written", "written"}
    BY <1>1 DEF WaitsFor, LocksAsset, LocksCode
  <2>2. tx[t].pc = "asset_written"
    BY <1>1, <2>1 DEF WaitsFor, AssetDone
  <2>3. tx[t].op = "submit" => LocksAsset(tx[t], tx[t].asset)
    BY <2>2 DEF LocksAsset
  <2>4. tx[t].op = "submit" => ~LocksAsset(tx[u], tx[t].asset)
    <3>1. tx[t].asset \in Assets
      BY <1>1, <2>2 DEF IInv, SessionOK
    <3> QED
      BY <1>1, <2>3, <3>1 DEF IInv, Exclusive, WaitsFor
  <2>5. LocksCode(tx[u], tx[t].code)
    BY <1>1, <2>2, <2>4 DEF WaitsFor
  <2> QED
    BY <2>5 DEF LocksCode, WaitsFor, AssetDone
<1>2. IInv => WaitsEnd
  BY <1>1 DEF WaitsEnd
<1> QED
  BY <1>2, Invariant, PTL

\* How many steps a call may still take: four of each attempt.
Place == [called |-> 4, retry |-> 4, loaded |-> 3, asset_written |-> 2, written |-> 1]
StepsLeft(t) == IF t.pc = "idle" THEN 0 ELSE 4 * (Attempts - t.attempt) + Place[t.pc]

\* What happens to a session in a call: it comes nearer to the end.
Advances ==
    \A s \in Sessions : tx[s].pc # "idle" /\ tx'[s] # tx[s] =>
        /\ StepsLeft(tx[s]) \in 1 .. 4 * Attempts
        /\ StepsLeft(tx'[s]) < StepsLeft(tx[s])

\* However often an identifier collides and whatever fails, a call ends after at most four
\* steps per attempt, and the steps of other sessions do not set it back.
THEOREM CallsAreShort == Spec => [][Advances]_vars
<1> DEFINE Nears(t, r) ==
        \/ r.pc = "idle"
        \/ /\ r.attempt = t.attempt
           /\ \/ t.pc \in {"called", "retry"} /\ r.pc = "loaded"
              \/ t.pc = "loaded" /\ r.pc \in {"asset_written", "written"}
              \/ t.pc = "asset_written" /\ r.pc = "written"
        \/ r.attempt = t.attempt + 1 /\ t.pc \in {"loaded", "asset_written"} /\ r.pc = "retry"
<1>1. ASSUME NEW t \in Session, t.pc # "idle"
      PROVE  StepsLeft(t) \in 1 .. 4 * Attempts
  <2>1. Place[t.pc] \in 1 .. 4
    BY <1>1 DEF Session, Place
  <2>2. Attempts - t.attempt \in 0 .. Attempts - 1
    BY ConstantsAssumption DEF Session
  <2> HIDE DEF Place
  <2> QED
    BY <1>1, <2>1, <2>2, ConstantsAssumption DEF StepsLeft
<1>2. ASSUME NEW t \in Session, NEW r \in Session, t.pc # "idle",
             Nears(t, r)
      PROVE  StepsLeft(r) < StepsLeft(t)
  <2>1. CASE r.pc = "idle"
    BY <1>1, <1>2, <2>1, ConstantsAssumption DEF StepsLeft
  <2>2. CASE r.pc # "idle"
    <3>1. t.attempt \in Nat /\ r.attempt \in Nat /\ Attempts \in Nat
      BY ConstantsAssumption DEF Session
    <3> QED
      BY <1>2, <2>2, <3>1 DEF StepsLeft, Place
  <2> QED
    BY <2>1, <2>2
<1>3. ASSUME IInv, NEW u \in Sessions, Progress(u) \/ Fail(u)
      PROVE  /\ \A s \in Sessions \ {u} : tx'[s] = tx[s]
             /\ Nears(tx[u], tx'[u])
  <2> USE DEF IInv, TypeOK
  <2>1. CASE Leave(u)
    BY <1>3, <2>1 DEF Leave, Idle
  <2>2. ASSUME NEW p, Goto(u, p)
        PROVE  /\ \A s \in Sessions \ {u} : tx'[s] = tx[s]
               /\ tx'[u].pc = p /\ tx'[u].attempt = tx[u].attempt
    BY <1>3, <2>2 DEF Goto, Session
  <2>3. CASE WriteAsset(u) \/ WriteRequest(u) \/ InsertRequest(u)
    BY <1>3, <2>2, <2>3 DEF WriteAsset, WriteRequest, InsertRequest, AssetDone
  <2>4. CASE Load(u) \/ (Reload(u) /\ ~Leave(u))
    <3>1. tx' = [tx EXCEPT ![u] = Read(tx[u])] /\ tx[u].pc \in {"called", "retry"}
      BY <2>4 DEF Load, Reload
    <3>2. Read(tx[u]).pc = "loaded" /\ Read(tx[u]).attempt = tx[u].attempt
      BY <1>3 DEF Read, Session
    <3> QED
      BY <1>3, <3>1, <3>2
  <2>5. CASE DuplicateId(u) /\ ~Leave(u)
    <3>1. /\ tx' = [tx EXCEPT ![u] = NextAttempt(tx[u])]
          /\ tx[u].pc \in {"loaded", "asset_written"}
      BY <2>5 DEF DuplicateId, AssetDone
    <3>2. NextAttempt(tx[u]).pc = "retry" /\ NextAttempt(tx[u]).attempt = tx[u].attempt + 1
      BY <1>3 DEF NextAttempt, Session
    <3> QED
      BY <1>3, <3>1, <3>2
  <2> QED
    BY <1>3, <2>1, <2>3, <2>4, <2>5
       DEF Progress, Refuse, StaleAsset, StaleRequest, Commit, Fail
<1>4. ASSUME IInv, NEW u \in Sessions, Call(u)
      PROVE  tx[u].pc = "idle" /\ \A s \in Sessions \ {u} : tx'[s] = tx[s]
  BY <1>4 DEF Call, CallAsset, CallSubmit, CallReview, IInv, TypeOK
<1>5. ASSUME IInv, IInv', [Next]_vars, NEW s \in Sessions, tx[s].pc # "idle", tx'[s] # tx[s]
      PROVE  StepsLeft(tx[s]) \in 1 .. 4 * Attempts /\ StepsLeft(tx'[s]) < StepsLeft(tx[s])
  <2>1. tx[s] \in Session /\ tx'[s] \in Session
    BY <1>5 DEF IInv, TypeOK
  <2>2. PICK u \in Sessions : Call(u) \/ Progress(u) \/ Fail(u)
    BY <1>5 DEF Next, vars
  <2>3. u = s /\ (Progress(s) \/ Fail(s))
    BY <1>3, <1>4, <1>5, <2>2
  <2> QED
    BY <1>1, <1>2, <1>3, <1>5, <2>1, <2>3
<1>6. IInv /\ [Next]_vars => IInv'
  BY NextStep
<1>7. IInv /\ IInv' /\ [Next]_vars => [Advances]_vars
  BY <1>5 DEF Advances
<1> QED
  BY <1>6, <1>7, Invariant, PTL DEF Spec

-----------------------------------------------------------------------------
(* Refinement: the handlers as transactions implement the atomic lifecycle, for *)
(* every number of assets, holders, sessions, codes and attempts, unless a  *)
(* submission that met a taken repair_id goes on with an asset that is no longer *)
(* in use by its submitter.  (Such a retry is possible, and then it is false: *)
(* OnlyDiagramMoves.)  What the guards saw at Load still holds at Commit, because *)
(* the versions that the commit checks did not move.                        *)

\* What a session that has read its rows knows of them.
GuardOK(t) ==
    /\ t.pc # "idle" /\ t.op \in {"assign", "submit"} => t.who \in Holders
    /\ HasRead(t) =>
          /\ t.op \in {"assign", "dispose"} => t.from = "in_stock"
          /\ t.op \in {"unassign", "submit"} => t.from = "in_use"
          /\ t.op = "submit" /\ t.version = asset[t.asset].version =>
                asset[t.asset].holder = t.who

Active(c) == request[c].status \in ActiveStatus

\* What the rows say of each other between commits.
RowsAgree ==
    /\ \A a \in Assets : asset[a].holder = NoOne <=> asset[a].status \in {"in_stock", "disposed"}
    /\ \A c \in Codes : Active(c) =>
          asset[request[c].asset].status \in {"pending_repair", "under_repair"}
    /\ \A c, d \in Codes : Active(c) /\ Active(d) /\ request[c].asset = request[d].asset => c = d

RInv == IInv /\ (\A s \in Sessions : GuardOK(tx[s])) /\ RowsAgree

-----------------------------------------------------------------------------

LEMMA GuardsStep ==
    ASSUME IInv, \A s \in Sessions : GuardOK(tx[s]), [Next]_vars, [GuardedRetry]_vars
    PROVE  \A s \in Sessions : GuardOK(tx[s])'
<1> USE DEF IInv, TypeOK
<1>1. ASSUME NEW s \in Sessions, NEW r, tx' = [tx EXCEPT ![s] = r], NothingCommitted, GuardOK(r)
      PROVE  \A u \in Sessions : GuardOK(tx[u])'
  <2>1. \A u \in Sessions : tx'[u] = IF u = s THEN r ELSE tx[u]
    BY <1>1
  <2> QED
    BY <1>1, <2>1 DEF NothingCommitted, GuardOK, HasRead
<1>2. GuardOK(Idle)
  BY DEF GuardOK, Idle, HasRead
<1>3. ASSUME NEW s \in Sessions, Leave(s), NothingCommitted
      PROVE  \A u \in Sessions : GuardOK(tx[u])'
  BY <1>1, <1>2, <1>3 DEF Leave
<1>4. ASSUME NEW s \in Sessions, Call(s)
      PROVE  \A u \in Sessions : GuardOK(tx[u])'
  <2>1. ASSUME NEW a \in Assets, NEW op \in AssetOps, NEW h \in Holders \cup {NoOne},
               CallAsset(s, op, a, h)
        PROVE  GuardOK(Called(op, a, 0, h, asset[a].version))
    BY <2>1, ConstantsAssumption DEF CallAsset, Called, GuardOK, HasRead, AssetOps
  <2>2. ASSUME NEW a \in Assets, NEW h \in Holders, NEW seen \in 0 .. MaxVersion
        PROVE  GuardOK(Called("submit", a, 0, h, seen))
    BY DEF Called, GuardOK, HasRead
  <2>3. ASSUME NEW c \in Codes, NEW op \in ReviewOps
        PROVE  GuardOK(Called(op, request[c].asset, c, NoOne, request[c].version))
    BY DEF Called, GuardOK, HasRead, ReviewOps
  <2> QED
    BY <1>1, <1>4, <2>1, <2>2, <2>3 DEF Call, CallAsset, CallSubmit, CallReview
<1>5. ASSUME NEW s \in Sessions, Load(s)
      PROVE  \A u \in Sessions : GuardOK(tx[u])'
  <2> DEFINE t == tx[s]
             r == Read(tx[s])
  <2>1. t.pc = "called" /\ Passes(t) /\ InBounds(t) /\ NothingCommitted /\ tx' = [tx EXCEPT ![s] = r]
    BY <1>5 DEF Load
  <2>2. /\ r.pc = "loaded" /\ r.op = t.op /\ r.asset = t.asset /\ r.from = asset[t.asset].status
    BY <2>1, ReadIsOK DEF Passes, SubmitGuard
  <2>3. r.who = t.who
    BY DEF Read, Session
  <2>4. GuardOK(r)
    <3>1. GuardOK(t)
      OBVIOUS
    <3> HIDE DEF t, r
    <3> QED
      BY <2>1, <2>2, <2>3, <3>1
         DEF GuardOK, HasRead, Passes, AssignGuard, UnassignGuard, DisposeGuard, SubmitGuard
  <2> QED
    BY <1>1, <2>1, <2>4
<1>6. ASSUME NEW s \in Sessions, NEW p \in {"asset_written", "written"}, Goto(s, p),
             NothingCommitted, tx[s].pc \in {"loaded", "asset_written"}
      PROVE  \A u \in Sessions : GuardOK(tx[u])'
  <2>1. ASSUME NEW t \in Session, GuardOK(t), t.pc \in {"loaded", "asset_written"}
        PROVE  GuardOK([t EXCEPT !.pc = p])
    BY <2>1 DEF GuardOK, HasRead, Session
  <2>2. GuardOK([tx[s] EXCEPT !.pc = p])
    BY <1>6, <2>1
  <2>3. tx' = [tx EXCEPT ![s] = [tx[s] EXCEPT !.pc = p]]
    BY <1>6 DEF Goto
  <2> QED
    BY <1>1, <1>6, <2>2, <2>3
<1>7. ASSUME NEW s \in Sessions, WriteAsset(s) \/ WriteRequest(s) \/ InsertRequest(s)
      PROVE  \A u \in Sessions : GuardOK(tx[u])'
  BY <1>6, <1>7 DEF WriteAsset, WriteRequest, InsertRequest, AssetDone
<1>8. ASSUME NEW s \in Sessions, DuplicateId(s)
      PROVE  \A u \in Sessions : GuardOK(tx[u])'
  <2>1. CASE tx[s].attempt < Attempts
    <3>1. GuardOK(NextAttempt(tx[s]))
      <4>1. ASSUME NEW t \in Session, GuardOK(t), t.pc # "idle", NEW n
            PROVE  GuardOK([t EXCEPT !.pc = "retry", !.attempt = n])
        BY <4>1 DEF GuardOK, HasRead, Session
      <4> QED
        BY <1>8, <4>1 DEF NextAttempt, DuplicateId, AssetDone
    <3> QED
      BY <1>1, <1>8, <2>1, <3>1 DEF DuplicateId
  <2> QED
    BY <1>3, <1>8, <2>1 DEF DuplicateId
<1>9. ASSUME NEW s \in Sessions, Reload(s)
      PROVE  \A u \in Sessions : GuardOK(tx[u])'
  <2> DEFINE t == tx[s]
             r == Read(tx[s])
  <2>1. CASE NextCode \in Codes /\ InBounds(t)
    <3>1. t.pc = "retry" /\ NothingCommitted /\ tx' = [tx EXCEPT ![s] = r] /\ tx'[s] = r
      BY <1>9, <2>1 DEF Reload
    <3>2. t.op = "submit" /\ GuardOK(t)
      BY <3>1 DEF SessionOK
    <3>3. /\ r.pc = "loaded" /\ r.op = t.op /\ r.asset = t.asset
          /\ r.from = asset[t.asset].status /\ r.who = t.who
      <4>1. r.who = t.who
        BY DEF Read, Session
      <4> QED
        BY <2>1, <3>1, <3>2, <4>1, ReadIsOK
    <3>4. asset[t.asset].status = "in_use" /\ asset[t.asset].holder = t.who
      <4>1. r # Idle /\ tx' # tx
        BY <3>1, <3>3 DEF Idle
      <4> QED
        BY <1>9, <3>1, <4>1 DEF GuardedRetry, vars
    <3>5. GuardOK(r)
      <4> HIDE DEF t, r
      <4> QED
        BY <3>1, <3>2, <3>3, <3>4 DEF GuardOK, HasRead
    <3> QED
      BY <1>1, <3>1, <3>5
  <2>2. CASE ~(NextCode \in Codes /\ InBounds(t))
    BY <1>3, <1>9, <2>2 DEF Reload
  <2> QED
    BY <2>1, <2>2
<1>10. ASSUME NEW s \in Sessions, Commit(s)
       PROVE  \A u \in Sessions : GuardOK(tx[u])'
  <2>1. \A u \in Sessions : tx'[u] = IF u = s THEN Idle ELSE tx[u]
    BY <1>10 DEF Commit, Leave
  <2>2. GuardOK(Idle)'
    BY DEF GuardOK, Idle, HasRead
  <2>3. ASSUME NEW u \in Sessions, u # s PROVE GuardOK(tx[u])'
    <3> DEFINE t == tx[u]
    <3>1. t' = t /\ GuardOK(t) /\ t \in Session /\ SessionOK(t)
      BY <2>1, <2>3
    <3>2. HasRead(t) => /\ t.asset \in Assets /\ asset[t.asset] \in AssetRow
                        /\ t.version <= asset[t.asset].version
      BY <3>1 DEF SessionOK, AssetReadOK, HasRead
    <3>3. HasRead(t) /\ t.version = asset'[t.asset].version => asset'[t.asset] = asset[t.asset]
      <4>1. \A a \in Assets : asset'[a] = asset[a] \/ asset'[a].version = asset[a].version + 1
        BY <1>10, CommitAsset
      <4> QED
        BY <3>1, <3>2, <4>1 DEF AssetRow, Session
    <3>4. tx'[u] = tx[u] /\ GuardOK(tx[u])
      BY <3>1
    <3>5. HasRead(tx[u]) /\ tx[u].version = asset'[tx[u].asset].version =>
              asset'[tx[u].asset] = asset[tx[u].asset]
      BY <3>3
    <3> HIDE DEF t
    <3> QED
      BY <3>4, <3>5 DEF GuardOK, HasRead
  <2> QED
    BY <2>1, <2>2, <2>3
<1>11. CASE UNCHANGED vars
  BY <1>11 DEF vars, GuardOK, HasRead
<1> QED
  BY <1>3, <1>4, <1>5, <1>7, <1>8, <1>9, <1>10, <1>11
     DEF Next, Progress, Refuse, StaleAsset, StaleRequest, Fail

-----------------------------------------------------------------------------

\* What a session that commits knows of its rows.
LEMMA WrittenRows ==
    ASSUME RInv, NEW s \in Sessions, Commit(s)
    PROVE  /\ tx[s].asset \in Assets /\ tx[s].op \in Ops
           /\ ChangesAsset(tx[s]) <=> tx[s].op # "details"
           /\ tx[s].op # "details" => asset[tx[s].asset].status = tx[s].from
           /\ tx[s].op \in {"assign", "dispose"} => tx[s].from = "in_stock"
           /\ tx[s].op \in {"unassign", "submit"} => tx[s].from = "in_use"
           /\ tx[s].op \in {"assign", "submit"} => tx[s].who \in Holders
           /\ tx[s].op = "submit" =>
                 /\ tx[s].code \in Codes /\ request[tx[s].code].status = "absent"
                 /\ asset[tx[s].asset].holder = tx[s].who
           /\ tx[s].op \in ReviewOps =>
                 /\ tx[s].code \in Codes /\ request[tx[s].code].asset = tx[s].asset
                 /\ request[tx[s].code].status = ReviewedFrom(tx[s].op)
                 /\ tx[s].from = AssetFrom(tx[s].op)
<1> DEFINE t == tx[s]
<1>1. t \in Session /\ SessionOK(t) /\ WritesCurrent(t) /\ t.pc = "written" /\ GuardOK(t)
  BY DEF Commit, RInv, IInv, TypeOK, WriterIsCurrent
<1>2. t.asset \in Assets /\ t.op \in Ops
  BY <1>1 DEF SessionOK, Session
<1>3. /\ t.op \in {"assign", "dispose"} => t.from = "in_stock"
      /\ t.op \in {"unassign", "submit"} => t.from = "in_use"
      /\ t.op \in {"assign", "submit"} => t.who \in Holders
  BY <1>1 DEF GuardOK, HasRead
<1>4. ChangesAsset(t) <=> t.op # "details"
  BY <1>3 DEF ChangesAsset
<1>5. t.op # "details" => asset[t.asset].version = t.version /\ asset[t.asset].status = t.from
  BY <1>1, <1>4 DEF WritesCurrent
<1>6. t.op = "submit" =>
         /\ t.code \in Codes /\ request[t.code].status = "absent"
         /\ asset[t.asset].holder = t.who
  BY <1>1, <1>5 DEF SessionOK, SubmitOK, GuardOK, HasRead
<1>7. t.op \in ReviewOps =>
         /\ t.code \in Codes /\ request[t.code].asset = t.asset
         /\ request[t.code].status = ReviewedFrom(t.op)
         /\ t.from = AssetFrom(t.op)
  BY <1>1 DEF SessionOK, ReviewOK, WritesCurrent, HasRead
<1> QED
  BY <1>2, <1>3, <1>4, <1>5, <1>6, <1>7

\* The asset rows after the commit of each transition.
LEMMA AssetsWritten ==
    ASSUME RInv, NEW s \in Sessions, Commit(s)
    PROVE  /\ \A a \in Assets : a # tx[s].asset => asset'[a] = asset[a]
           /\ tx[s].op = "details" => asset' = asset
           /\ asset'[tx[s].asset].status =
                 IF tx[s].op \in Transitions THEN NextStatus[tx[s].op]
                 ELSE asset[tx[s].asset].status
           /\ asset'[tx[s].asset].holder =
                 IF tx[s].op = "assign" THEN tx[s].who
                 ELSE IF tx[s].op = "unassign" THEN NoOne
                 ELSE asset[tx[s].asset].holder
<1>1. CASE tx[s].op = "details"
  <2>1. tx[s].op \notin Transitions
    BY <1>1 DEF Transitions, NextStatus
  <2> QED
    BY <1>1, <2>1, WrittenRows DEF Commit
<1>2. CASE tx[s].op # "details"
  <2>1. asset' = [asset EXCEPT ![tx[s].asset] = AssetAfter(tx[s])] /\ tx[s].asset \in Assets
    BY <1>2, WrittenRows DEF Commit
  <2> QED
    BY <1>2, <2>1 DEF AssetAfter, RInv, IInv, TypeOK
<1> QED
  BY <1>1, <1>2

\* The request rows after the commit of each transition.
LEMMA RequestsWritten ==
    ASSUME RInv, NEW s \in Sessions, Commit(s)
    PROVE  /\ \A c \in Codes : tx[s].op \in AssetOps \/ c # tx[s].code => request'[c] = request[c]
           /\ tx[s].op = "submit" =>
                 /\ request'[tx[s].code].status = "pending_review"
                 /\ request'[tx[s].code].asset = tx[s].asset
                 /\ request'[tx[s].code].requester = tx[s].who
           /\ tx[s].op \in ReviewOps =>
                 /\ request'[tx[s].code].status =
                       IF tx[s].op = "details" THEN request[tx[s].code].status
                       ELSE Decision[tx[s].op]
                 /\ request'[tx[s].code].asset = request[tx[s].code].asset
                 /\ request'[tx[s].code].requester = request[tx[s].code].requester
<1>1. CASE tx[s].op \in AssetOps
  BY <1>1 DEF Commit, AssetOps, ReviewOps
<1>2. CASE tx[s].op \notin AssetOps
  <2>1. request' = [request EXCEPT ![tx[s].code] = RequestAfter(tx[s])] /\ tx[s].code \in Codes
    BY <1>2, WrittenRows DEF Commit, Ops
  <2>2. tx[s].op \in ReviewOps => (tx[s].op \in DOMAIN Decision <=> tx[s].op # "details")
    BY DEF ReviewOps, Decision
  <2> QED
    BY <1>2, <2>1, <2>2 DEF RequestAfter, Decision, ReviewOps, RInv, IInv, TypeOK
<1> QED
  BY <1>1, <1>2

LEMMA RowsAgreeStep ==
    ASSUME RInv, [Next]_vars
    PROVE  RowsAgree'
<1>1. CASE NothingCommitted
  BY <1>1 DEF RInv, RowsAgree, Active, NothingCommitted
<1>2. ASSUME NEW s \in Sessions, Commit(s) PROVE RowsAgree'
  <2> DEFINE t == tx[s]
  <2>1. t.asset \in Assets /\ t.op \in Ops
    BY <1>2, WrittenRows
  <2>2. ASSUME NEW a \in Assets
        PROVE  asset'[a].holder = NoOne <=> asset'[a].status \in {"in_stock", "disposed"}
    <3>1. asset[a].holder = NoOne <=> asset[a].status \in {"in_stock", "disposed"}
      BY DEF RInv, RowsAgree
    <3>2. CASE a # t.asset \/ t.op \notin Transitions
      <4>1. asset'[a].status = asset[a].status
        BY <1>2, <3>2, AssetsWritten
      <4>2. asset'[a].holder = asset[a].holder
        BY <1>2, <3>2, AssetsWritten DEF Transitions, NextStatus
      <4> QED
        BY <3>1, <4>1, <4>2
    <3>3. CASE a = t.asset /\ t.op \in Transitions
      <4>1. asset'[a].status = NextStatus[t.op] /\ asset[a].status = t.from /\ t.op # "details"
        BY <1>2, <3>3, AssetsWritten, WrittenRows DEF Transitions, NextStatus
      <4>2. asset'[a].holder = IF t.op = "assign" THEN t.who
                               ELSE IF t.op = "unassign" THEN NoOne ELSE asset[a].holder
        BY <1>2, <3>3, AssetsWritten
      <4>3. t.op = "assign" => t.who \in Holders
        BY <1>2, WrittenRows
      <4>4. CASE t.op \in {"assign", "unassign", "dispose", "submit"}
        BY <1>2, <3>1, <4>1, <4>2, <4>3, <4>4, WrittenRows, ConstantsAssumption DEF NextStatus
      <4>5. CASE t.op \in {"approve", "reject", "complete"}
        BY <1>2, <3>1, <4>1, <4>2, <4>5, WrittenRows DEF NextStatus, AssetFrom, ReviewOps
      <4> QED
        BY <3>3, <4>4, <4>5 DEF Transitions, NextStatus
    <3> QED
      BY <3>2, <3>3
  <2>3. ASSUME NEW c \in Codes, Active(c)'
        PROVE  /\ request'[c].asset \in Assets
               /\ \/ /\ Active(c) /\ request'[c].asset = request[c].asset
                     /\ c = t.code /\ t.op \in ReviewOps => t.op \in {"details", "approve"}
                  \/ /\ t.op = "submit" /\ c = t.code /\ request'[c].asset = t.asset
    <3>1. CASE request'[c] = request[c] /\ ~(c = t.code /\ t.op \in ReviewOps)
      BY <2>3, <3>1 DEF Active, ActiveStatus, RInv, IInv, RowsOK
    <3>2. CASE c = t.code /\ t.op = "submit"
      BY <1>2, <2>1, <3>2, RequestsWritten
    <3>3. CASE c = t.code /\ t.op \in ReviewOps
      <4>1. request'[c].asset = request[c].asset /\ request[c].asset = t.asset
        BY <1>2, <3>3, RequestsWritten, WrittenRows
      <4>2. request[c].status = ReviewedFrom(t.op) /\ Active(c)
        BY <1>2, <3>3, WrittenRows DEF Active, ActiveStatus, ReviewedFrom
      <4>3. request'[c].status = IF t.op = "details" THEN request[c].status ELSE Decision[t.op]
        BY <1>2, <3>3, RequestsWritten
      <4>4. t.op \in {"details", "approve"}
        BY <2>3, <3>3, <4>3 DEF Active, ActiveStatus, Decision, ReviewOps
      <4> QED
        BY <2>1, <4>1, <4>2, <4>4
    <3> QED
      BY <1>2, <2>1, <3>1, <3>2, <3>3, RequestsWritten DEF Ops, AssetOps, ReviewOps
  <2>4. ASSUME NEW c \in Codes, Active(c), request[c].asset = t.asset, t.op # "details"
        PROVE  /\ t.op \in ReviewOps \cup {"update"}
               /\ t.op \in ReviewOps => c = t.code
    <3>1. t.from \in {"pending_repair", "under_repair"}
      BY <1>2, <2>4, WrittenRows DEF RInv, RowsAgree
    <3>2. t.op \in ReviewOps \cup {"update"}
      BY <1>2, <2>1, <3>1, WrittenRows DEF Ops, AssetOps
    <3>3. t.op \in ReviewOps => /\ t.code \in Codes /\ Active(t.code)
                                /\ request[t.code].asset = t.asset
      BY <1>2, WrittenRows DEF Active, ActiveStatus, ReviewedFrom
    <3> QED
      BY <2>4, <3>2, <3>3 DEF RInv, RowsAgree
  <2>5. ASSUME NEW c \in Codes, Active(c)'
        PROVE  asset'[request'[c].asset].status \in {"pending_repair", "under_repair"}
    <3>1. CASE t.op = "submit" /\ c = t.code /\ request'[c].asset = t.asset
      BY <1>2, <3>1, AssetsWritten DEF Transitions, NextStatus
    <3>2. CASE /\ Active(c) /\ request'[c].asset = request[c].asset
               /\ c = t.code /\ t.op \in ReviewOps => t.op \in {"details", "approve"}
      <4>1. /\ request[c].asset \in Assets
            /\ asset[request[c].asset].status \in {"pending_repair", "under_repair"}
        BY <2>3, <2>5, <3>2 DEF RInv, RowsAgree
      <4>2. CASE request[c].asset # t.asset \/ t.op = "details"
        BY <1>2, <3>2, <4>1, <4>2, AssetsWritten
      <4>3. CASE request[c].asset = t.asset /\ t.op # "details"
        <5>1. t.op = "update" \/ t.op = "approve"
          BY <2>4, <3>2, <4>3 DEF ReviewOps
        <5> QED
          BY <1>2, <3>2, <4>1, <4>3, <5>1, AssetsWritten DEF Transitions, NextStatus
      <4> QED
        BY <4>2, <4>3
    <3> QED
      BY <2>3, <2>5, <3>1, <3>2
  <2>6. ASSUME NEW c \in Codes, NEW d \in Codes, Active(c)', Active(d)',
               request'[c].asset = request'[d].asset
        PROVE  c = d
    <3>1. \A e \in Codes : t.op = "submit" => ~(Active(e) /\ request[e].asset = t.asset)
      BY <2>4 DEF ReviewOps
    <3> QED
      BY <2>3, <2>6, <3>1 DEF RInv, RowsAgree
  <2> QED
    BY <2>2, <2>5, <2>6 DEF RowsAgree
<1> QED
  BY <1>1, <1>2, OnlyCommitsChangeRows

-----------------------------------------------------------------------------
(* The rows as the lifecycle sees them, without versions.                  *)

StatusOf == [a \in Assets |-> asset[a].status]
HolderOf == [a \in Assets |-> asset[a].holder]
RequestOf == [c \in Codes |-> [status |-> request[c].status,
                               asset |-> request[c].asset,
                               requester |-> request[c].requester]]

LEMMA InitMaps == Init => Lifecycle!Init
<1> SUFFICES ASSUME Init PROVE Lifecycle!Init
  OBVIOUS
<1>1. \A a \in Assets : /\ asset[a].status \in {"in_stock", "in_use"}
                        /\ asset[a].holder \in Holders \cup {NoOne}
                        /\ asset[a].holder = NoOne <=> asset[a].status = "in_stock"
  BY ConstantsAssumption DEF Init
<1>2. StatusOf \in [Assets -> {"in_stock", "in_use"}]
  BY <1>1 DEF StatusOf
<1>3. HolderOf \in [Assets -> Holders \cup {NoOne}]
  BY <1>1 DEF HolderOf
<1>4. \A a \in Assets : HolderOf[a] = NoOne <=> StatusOf[a] = "in_stock"
  BY <1>1 DEF HolderOf, StatusOf
<1>5. RequestOf = [c \in Codes |-> Lifecycle!NoRequest]
  BY DEF RequestOf, Init, NoRequest, Lifecycle!NoRequest
<1> QED
  BY <1>2, <1>3, <1>4, <1>5 DEF Lifecycle!Init, StatusOf, HolderOf, RequestOf, Init

\* A transition of one asset, seen without versions.
LEMMA TransitionMaps ==
    ASSUME RInv, NEW s \in Sessions, Commit(s),
           NEW a, NEW op \in Transitions, NEW to,
           a = tx[s].asset, op = tx[s].op, to = NextStatus[op]
    PROVE  Lifecycle!Transition(a, op, to)
<1> DEFINE t == tx[s]
<1>1. t.asset \in Assets /\ t.op # "details" /\ asset[t.asset].status = t.from
  BY WrittenRows DEF Transitions, NextStatus
<1>2. StatusOf' = [StatusOf EXCEPT ![t.asset] = NextStatus[t.op]]
  BY <1>1, AssetsWritten DEF StatusOf
<1>3. history' = [history EXCEPT ![t.asset] =
                     Append(@, [action |-> t.op, from |-> StatusOf[t.asset],
                                to |-> NextStatus[t.op]])]
  BY <1>1 DEF Commit, AuditRowOf, StatusOf
<1> QED
  BY <1>2, <1>3 DEF Lifecycle!Transition, StatusOf

LEMMA HoldersMap ==
    ASSUME RInv, NEW s \in Sessions, Commit(s)
    PROVE  HolderOf' = IF tx[s].op = "assign" THEN [HolderOf EXCEPT ![tx[s].asset] = tx[s].who]
                       ELSE IF tx[s].op = "unassign"
                              THEN [HolderOf EXCEPT ![tx[s].asset] = NoOne]
                       ELSE HolderOf
BY WrittenRows, AssetsWritten DEF HolderOf

LEMMA RequestsMap ==
    ASSUME RInv, NEW s \in Sessions, Commit(s)
    PROVE  /\ tx[s].op \in AssetOps \cup {"details"} => RequestOf' = RequestOf
           /\ tx[s].op = "submit" =>
                RequestOf' = [RequestOf EXCEPT ![tx[s].code] =
                    [status |-> "pending_review", asset |-> tx[s].asset,
                     requester |-> HolderOf[tx[s].asset]]]
           /\ tx[s].op \in {"approve", "reject", "complete"} =>
                RequestOf' = [RequestOf EXCEPT ![tx[s].code].status = Decision[tx[s].op]]
<1> DEFINE t == tx[s]
           RowOf(r) == [status |-> r.status, asset |-> r.asset, requester |-> r.requester]
<1>1. RequestOf = [c \in Codes |-> RowOf(request[c])]
      /\ RequestOf' = [c \in Codes |-> RowOf(request'[c])]
  BY DEF RequestOf
<1>2. \A c \in Codes : t.op \in AssetOps \/ c # t.code => request'[c] = request[c]
  BY RequestsWritten
<1>3. CASE t.op \in AssetOps
  BY <1>1, <1>2, <1>3 DEF AssetOps
<1>4. CASE t.op = "submit"
  <2>1. RowOf(request'[t.code]) =
           [status |-> "pending_review", asset |-> t.asset, requester |-> HolderOf[t.asset]]
    BY <1>4, RequestsWritten, WrittenRows DEF HolderOf
  <2> QED
    BY <1>1, <1>2, <1>4, <2>1, WrittenRows DEF AssetOps
<1>5. CASE t.op \in ReviewOps
  <2>1. RowOf(request'[t.code]) =
           [status |-> IF t.op = "details" THEN request[t.code].status ELSE Decision[t.op],
            asset |-> request[t.code].asset, requester |-> request[t.code].requester]
    BY <1>5, RequestsWritten
  <2>2. t.code \in Codes
    BY <1>5, WrittenRows
  <2>3. CASE t.op = "details"
    BY <1>1, <1>2, <1>5, <2>1, <2>3
  <2>4. CASE t.op # "details"
    <3>1. ASSUME NEW r, NEW d
          PROVE  [RowOf(r) EXCEPT !.status = d] =
                    [status |-> d, asset |-> r.asset, requester |-> r.requester]
      OBVIOUS
    <3>2. [RequestOf[t.code] EXCEPT !.status = Decision[t.op]] = RowOf(request'[t.code])
      BY <1>1, <2>1, <2>2, <2>4, <3>1
    <3>3. RequestOf' = [RequestOf EXCEPT ![t.code] = RowOf(request'[t.code])]
      BY <1>1, <1>2, <2>2
    <3> QED
      BY <1>5, <2>4, <3>2, <3>3, Zenon DEF AssetOps, ReviewOps
  <2> QED
    BY <2>3, <2>4
<1> QED
  BY <1>3, <1>4, <1>5, WrittenRows DEF Ops

\* No request of the asset is open when the asset waits for none.
LEMMA NoneActive ==
    ASSUME RInv, NEW a \in Assets, asset[a].status \notin {"pending_repair", "under_repair"}
    PROVE  ~Lifecycle!HasActive(a)
BY DEF RInv, RowsAgree, Active, ActiveStatus, Lifecycle!HasActive, Lifecycle!Active,
       Lifecycle!ActiveStatus

\* Every commit is a step of the lifecycle, or changes nothing that the lifecycle sees.
LEMMA CommitMaps ==
    ASSUME RInv, NEW s \in Sessions, Commit(s)
    PROVE  Lifecycle!Next \/ UNCHANGED Lifecycle!vars
<1> DEFINE t == tx[s]
<1>1. PICK a \in Assets, c \in 0 .. LastCode, h \in Holders \cup {NoOne}, op \in Ops :
         a = t.asset /\ c = t.code /\ h = t.who /\ op = t.op
  BY WrittenRows DEF RInv, IInv, TypeOK, Session
<1>2. StatusOf[a] = asset[a].status /\ HolderOf[a] = asset[a].holder
  BY <1>1 DEF StatusOf, HolderOf
<1>3. asset[a].holder = NoOne <=> asset[a].status \in {"in_stock", "disposed"}
  BY <1>1 DEF RInv, RowsAgree
<1>4. CASE op = "assign"
  <2>1. h \in Holders /\ asset[a].status = "in_stock"
    BY <1>1, <1>4, WrittenRows
  <2>2. Lifecycle!Transition(a, "assign", "in_use")
    BY <1>1, <1>4, TransitionMaps DEF Transitions, NextStatus
  <2>3. HolderOf' = [HolderOf EXCEPT ![a] = h] /\ RequestOf' = RequestOf
    BY <1>1, <1>4, HoldersMap, RequestsMap DEF AssetOps
  <2>4. Lifecycle!Assign(a, h)
    BY <1>1, <1>2, <1>3, <2>1, <2>2, <2>3 DEF Lifecycle!Assign, StatusOf, HolderOf, RequestOf
  <2> QED
    BY <1>1, <2>1, <2>4 DEF Lifecycle!Next
<1>5. CASE op = "unassign"
  <2>1. asset[a].status = "in_use"
    BY <1>1, <1>5, WrittenRows
  <2>2. Lifecycle!Transition(a, "unassign", "in_stock")
    BY <1>1, <1>5, TransitionMaps DEF Transitions, NextStatus
  <2>3. HolderOf' = [HolderOf EXCEPT ![a] = NoOne] /\ RequestOf' = RequestOf
    BY <1>1, <1>5, HoldersMap, RequestsMap DEF AssetOps
  <2>4. Lifecycle!Unassign(a)
    BY <1>1, <1>2, <2>1, <2>2, <2>3, NoneActive, SMTT(30)
       DEF Lifecycle!Unassign, StatusOf, HolderOf, RequestOf
  <2> QED
    BY <1>1, <2>4 DEF Lifecycle!Next
<1>6. CASE op = "dispose"
  <2>1. asset[a].status = "in_stock"
    BY <1>1, <1>6, WrittenRows
  <2>2. Lifecycle!Transition(a, "dispose", "disposed")
    BY <1>1, <1>6, TransitionMaps DEF Transitions, NextStatus
  <2>3. HolderOf' = HolderOf /\ RequestOf' = RequestOf
    BY <1>1, <1>6, HoldersMap, RequestsMap DEF AssetOps
  <2>4. Lifecycle!Dispose(a)
    BY <1>1, <1>2, <1>3, <2>1, <2>2, <2>3, NoneActive, SMTT(30)
       DEF Lifecycle!Dispose, StatusOf, HolderOf, RequestOf
  <2> QED
    BY <1>1, <2>4 DEF Lifecycle!Next
<1>7. CASE op = "submit"
  <2>1. /\ asset[a].status = "in_use" /\ c \in Codes
        /\ request[c].status = "absent"
    BY <1>1, <1>7, WrittenRows
  <2>2. Lifecycle!Transition(a, "submit", "pending_repair")
    BY <1>1, <1>7, TransitionMaps DEF Transitions, NextStatus
  <2>3. /\ HolderOf' = HolderOf
        /\ RequestOf' = [RequestOf EXCEPT ![c] =
              [status |-> "pending_review", asset |-> a, requester |-> HolderOf[a]]]
    BY <1>1, <1>7, HoldersMap, RequestsMap
  <2>4. Lifecycle!Submit(a, c)
    BY <1>1, <1>2, <1>3, <2>1, <2>2, <2>3, NoneActive, SMTT(30)
       DEF Lifecycle!Submit, StatusOf, HolderOf, RequestOf
  <2> QED
    BY <1>1, <2>1, <2>4 DEF Lifecycle!Next
<1>8. CASE op \in {"approve", "reject", "complete"}
  <2>1. /\ c \in Codes /\ request[c].asset = a
        /\ request[c].status = ReviewedFrom(op)
        /\ asset[a].status = AssetFrom(op)
    BY <1>1, <1>8, WrittenRows DEF ReviewOps
  <2>2. Lifecycle!Transition(a, op, NextStatus[op])
    BY <1>1, <1>8, TransitionMaps DEF Transitions, NextStatus
  <2>3. HolderOf' = HolderOf
        /\ RequestOf' = [RequestOf EXCEPT ![c].status = Decision[op]]
    BY <1>1, <1>8, HoldersMap, RequestsMap
  <2>4. RequestOf[c].asset = a /\ RequestOf[c].status = ReviewedFrom(op)
    BY <2>1 DEF RequestOf
  <2>5. CASE op = "approve"
    <3>1. Lifecycle!Transition(a, "approve", "under_repair")
      BY <2>2, <2>5 DEF NextStatus
    <3>2. Lifecycle!Decide(c, "under_repair")
      BY <2>3, <2>5 DEF Lifecycle!Decide, RequestOf, Decision
    <3>3. RequestOf[c].asset = a /\ RequestOf[c].status = "pending_review" /\ StatusOf[a] = "pending_repair"
      BY <1>2, <2>1, <2>4, <2>5 DEF ReviewedFrom, AssetFrom
    <3>4. Lifecycle!Approve(a, c)
      BY <2>3, <3>1, <3>2, <3>3 DEF Lifecycle!Approve, StatusOf, HolderOf, RequestOf
    <3> QED
      BY <1>1, <2>1, <3>4 DEF Lifecycle!Next
  <2>6. CASE op = "reject"
    <3>1. Lifecycle!Transition(a, "reject", "in_use")
      BY <2>2, <2>6 DEF NextStatus
    <3>2. Lifecycle!Decide(c, "rejected")
      BY <2>3, <2>6 DEF Lifecycle!Decide, RequestOf, Decision
    <3>3. RequestOf[c].asset = a /\ RequestOf[c].status = "pending_review" /\ StatusOf[a] = "pending_repair"
      BY <1>2, <2>1, <2>4, <2>6 DEF ReviewedFrom, AssetFrom
    <3>4. Lifecycle!Reject(a, c)
      BY <2>3, <3>1, <3>2, <3>3 DEF Lifecycle!Reject, StatusOf, HolderOf, RequestOf
    <3> QED
      BY <1>1, <2>1, <3>4 DEF Lifecycle!Next
  <2>7. CASE op = "complete"
    <3>1. Lifecycle!Transition(a, "complete", "in_use")
      BY <2>2, <2>7 DEF NextStatus
    <3>2. Lifecycle!Decide(c, "completed")
      BY <2>3, <2>7 DEF Lifecycle!Decide, RequestOf, Decision
    <3>3. RequestOf[c].asset = a /\ RequestOf[c].status = "under_repair" /\ StatusOf[a] = "under_repair"
      BY <1>2, <2>1, <2>4, <2>7 DEF ReviewedFrom, AssetFrom
    <3>4. Lifecycle!Complete(a, c)
      BY <2>3, <3>1, <3>2, <3>3 DEF Lifecycle!Complete, StatusOf, HolderOf, RequestOf
    <3> QED
      BY <1>1, <2>1, <3>4 DEF Lifecycle!Next
  <2> QED
    BY <1>1, <1>8, <2>5, <2>6, <2>7
<1>9. CASE op \in {"update", "details"}
  <2>1. StatusOf' = StatusOf
    BY <1>1, <1>9, AssetsWritten DEF StatusOf, Transitions, NextStatus
  <2>2. HolderOf' = HolderOf /\ RequestOf' = RequestOf
    BY <1>1, <1>9, HoldersMap, RequestsMap DEF AssetOps
  <2>3. history' = history
    BY <1>1, <1>9 DEF Commit, Transitions, NextStatus
  <2> QED
    BY <2>1, <2>2, <2>3 DEF Lifecycle!vars, StatusOf, HolderOf, RequestOf
<1> QED
  BY <1>1, <1>4, <1>5, <1>6, <1>7, <1>8, <1>9 DEF Ops, AssetOps, ReviewOps

-----------------------------------------------------------------------------

LEMMA RefinementStep == RInv /\ [Next]_vars /\ [GuardedRetry]_vars => RInv'
<1> SUFFICES ASSUME RInv, [Next]_vars, [GuardedRetry]_vars PROVE RInv'
  OBVIOUS
<1>1. IInv'
  BY NextStep DEF RInv
<1>2. (\A s \in Sessions : GuardOK(tx[s]))'
  BY GuardsStep DEF RInv
<1>3. RowsAgree'
  BY RowsAgreeStep
<1> QED
  BY <1>1, <1>2, <1>3 DEF RInv

LEMMA InitRefinement == Init => RInv
<1> SUFFICES ASSUME Init PROVE RInv
  OBVIOUS
<1>1. \A s \in Sessions : GuardOK(tx[s])
  BY DEF Init, Idle, GuardOK, HasRead
<1>2. RowsAgree
  BY ConstantsAssumption DEF Init, RowsAgree, Active, ActiveStatus, NoRequest
<1> QED
  BY <1>1, <1>2, InitInvariant DEF RInv

LEMMA RefinementInvariant == Spec /\ RetriesGuarded => []RInv
<1> QED
  BY InitRefinement, RefinementStep, PTL DEF Spec, RetriesGuarded

\* Whatever the interleaving, the handlers of assets.py and repair_requests.py do to the rows
\* and to the audit trail what the lifecycle does in indivisible steps, in every run in which
\* a submission is repeated only while its asset is in use by its submitter.
THEOREM GuardedRetriesImplementLifecycle == Spec /\ RetriesGuarded => ImplementsLifecycle
<1>1. Init => Lifecycle!Init
  BY InitMaps
<1>2. RInv /\ [Next]_vars => [Lifecycle!Next]_(Lifecycle!vars)
  <2> SUFFICES ASSUME RInv, [Next]_vars PROVE Lifecycle!Next \/ UNCHANGED Lifecycle!vars
    OBVIOUS
  <2>1. CASE NothingCommitted
    BY <2>1 DEF NothingCommitted, Lifecycle!vars
  <2> QED
    BY <2>1, CommitMaps, OnlyCommitsChangeRows
<1>3. Spec /\ RetriesGuarded => []RInv
  BY RefinementInvariant
<1> QED
  BY <1>1, <1>2, <1>3, PTL DEF Spec, ImplementsLifecycle, Lifecycle!Spec

-----------------------------------------------------------------------------
(* Two kinds of service in which no submission is repeated at all.         *)

OneAttempt == Attempts = 1
OneAsset == \E a : Assets = {a}

NoRetry == \A s \in Sessions : tx[s].pc # "retry"

\* Who is about to try again collided just now.
LEMMA StepsToRetry ==
    ASSUME IInv, [Next]_vars, NEW s \in Sessions, tx[s].pc # "retry", tx'[s].pc = "retry"
    PROVE  DuplicateId(s) /\ ~Leave(s)
<1> USE DEF IInv, TypeOK
<1>1. ASSUME NEW u \in Sessions, Leave(u) PROVE FALSE
  BY <1>1 DEF Leave, Idle
<1>2. ASSUME NEW u \in Sessions, Call(u) PROVE FALSE
  <2>1. ASSUME NEW op, NEW a, NEW c, NEW h, NEW seen,
               tx' = [tx EXCEPT ![u] = Called(op, a, c, h, seen)]
        PROVE  FALSE
    BY <2>1 DEF Called
  <2>2. ASSUME NEW a, NEW op, NEW h, CallAsset(u, op, a, h) PROVE FALSE
    BY <2>1, <2>2 DEF CallAsset
  <2>3. ASSUME NEW a, NEW h, NEW seen, CallSubmit(u, a, h, seen) PROVE FALSE
    BY <2>1, <2>3 DEF CallSubmit
  <2>4. ASSUME NEW c, NEW op, CallReview(u, op, c) PROVE FALSE
    BY <2>1, <2>4 DEF CallReview
  <2> QED
    BY <1>2, <2>2, <2>3, <2>4, Zenon DEF Call
<1>3. ASSUME NEW u \in Sessions, Load(u) PROVE FALSE
  BY <1>3 DEF Load, Read, Session
<1>4. ASSUME NEW u \in Sessions, NEW p \in {"asset_written", "written"}, Goto(u, p) PROVE FALSE
  BY <1>4 DEF Goto, Session
<1>5. ASSUME NEW u \in Sessions, Reload(u) PROVE FALSE
  BY <1>1, <1>5 DEF Reload, Read, Session
<1>6. ASSUME NEW u \in Sessions, u # s, DuplicateId(u) PROVE FALSE
  BY <1>1, <1>6 DEF DuplicateId
<1> QED
  BY <1>1, <1>2, <1>3, <1>4, <1>5, <1>6
     DEF Next, vars, Progress, Refuse, WriteAsset, StaleAsset, WriteRequest, StaleRequest,
         InsertRequest, Commit, Fail

\* If a submission whose repair_id is taken ended with an error instead of trying again, the
\* handlers would implement the lifecycle.
THEOREM OneAttemptImplementsLifecycle ==
    ASSUME OneAttempt PROVE Spec => ImplementsLifecycle
<1>1. NoRetry /\ IInv /\ [Next]_vars => NoRetry' /\ [GuardedRetry]_vars
  <2> SUFFICES ASSUME NoRetry, IInv, [Next]_vars PROVE NoRetry' /\ GuardedRetry
    OBVIOUS
  <2>1. ASSUME NEW s \in Sessions PROVE ~DuplicateId(s) \/ Leave(s)
    BY DEF IInv, TypeOK, Session, OneAttempt, DuplicateId
  <2> QED
    BY <2>1, StepsToRetry DEF NoRetry, GuardedRetry, Reload
<1>2. Init => NoRetry
  BY DEF Init, NoRetry, Idle
<1> QED
  BY <1>1, <1>2, Invariant, GuardedRetriesImplementLifecycle, PTL DEF Spec, RetriesGuarded

-----------------------------------------------------------------------------
(* With one asset: to collide, another submission for that asset must have  *)
(* been committed since this one read it, and then the asset's version tells *)
(* before the identifier does.                                              *)

CodesDense == \E n \in 0 .. LastCode : UsedCodes = 1 .. n

PickOK(t) == t.op = "submit" /\ HasRead(t) =>
    /\ t.code = 1 \/ t.code - 1 \in UsedCodes
    /\ t.version = asset[t.asset].version => request[t.code].status = "absent"

OInv == RInv /\ NoRetry /\ CodesDense /\ \A s \in Sessions : PickOK(tx[s])

LEMMA NextCodeIs ==
    ASSUME NEW n \in 0 .. LastCode, UsedCodes = 1 .. n PROVE NextCode = n + 1
<1> DEFINE Fits(c) == (\A d \in UsedCodes : d < c) /\ (c = 1 \/ c - 1 \in UsedCodes)
<1>1. n + 1 \in 1 .. LastCode + 1 /\ Fits(n + 1)
  BY ConstantsAssumption
<1>2. ASSUME NEW c \in 1 .. LastCode + 1, Fits(c) PROVE c = n + 1
  BY <1>2, ConstantsAssumption
<1> HIDE DEF Fits
<1>3. NextCode = CHOOSE c \in 1 .. LastCode + 1 : Fits(c)
  BY DEF NextCode, Fits
<1> QED
  BY <1>1, <1>2, <1>3

LEMMA NoCollision ==
    ASSUME OInv, NEW s \in Sessions, DuplicateId(s) PROVE FALSE
<1> DEFINE t == tx[s]
<1>1. t.op = "submit" /\ AssetDone(t) /\ request[t.code].status # "absent"
  BY DEF DuplicateId
<1>2. GuardOK(t) /\ WritesCurrent(t) /\ PickOK(t)
  BY DEF OInv, RInv, IInv, WriterIsCurrent
<1>3. HasRead(t)
  BY <1>1 DEF AssetDone, HasRead
<1>4. t.from = "in_use"
  BY <1>1, <1>2, <1>3 DEF GuardOK
<1>5. t.pc = "asset_written" /\ ChangesAsset(t)
  BY <1>1, <1>4 DEF AssetDone, ChangesAsset
<1> HIDE DEF t
<1> QED
  BY <1>1, <1>2, <1>3, <1>5 DEF WritesCurrent, PickOK

LEMMA NoRetryStep == OInv /\ [Next]_vars => NoRetry' /\ [GuardedRetry]_vars
<1> SUFFICES ASSUME OInv, [Next]_vars PROVE NoRetry' /\ GuardedRetry
  OBVIOUS
<1>1. ASSUME NEW s \in Sessions, tx'[s].pc = "retry" PROVE FALSE
  BY <1>1, StepsToRetry, NoCollision DEF OInv, RInv, NoRetry
<1> QED
  BY <1>1 DEF OInv, NoRetry, GuardedRetry, Reload

\* The identifiers stay dense, and what a submission picked stays free as long as its
\* asset keeps its version.
LEMMA PicksStep ==
    ASSUME OneAsset, OInv, [Next]_vars
    PROVE  CodesDense' /\ \A s \in Sessions : PickOK(tx[s])'
<1> USE DEF OInv, RInv, IInv, TypeOK
<1>1. ASSUME NEW s \in Sessions, NEW r, tx' = [tx EXCEPT ![s] = r], NothingCommitted, PickOK(r)
      PROVE  CodesDense' /\ \A u \in Sessions : PickOK(tx[u])'
  <2>1. \A u \in Sessions : tx'[u] = IF u = s THEN r ELSE tx[u]
    BY <1>1
  <2>2. UsedCodes' = UsedCodes
    BY <1>1 DEF NothingCommitted, UsedCodes
  <2> QED
    BY <1>1, <2>1, <2>2 DEF NothingCommitted, PickOK, HasRead, CodesDense
<1>2. PickOK(Idle)
  BY DEF PickOK, Idle, HasRead
<1>3. ASSUME NEW s \in Sessions, Leave(s), NothingCommitted
      PROVE  CodesDense' /\ \A u \in Sessions : PickOK(tx[u])'
  BY <1>1, <1>2, <1>3 DEF Leave
<1>4. ASSUME NEW s \in Sessions, Call(s)
      PROVE  CodesDense' /\ \A u \in Sessions : PickOK(tx[u])'
  <2>1. ASSUME NEW op, NEW a, NEW c, NEW h, NEW seen PROVE PickOK(Called(op, a, c, h, seen))
    BY DEF Called, PickOK, HasRead
  <2> QED
    BY <1>1, <1>4, <2>1 DEF Call, CallAsset, CallSubmit, CallReview
<1>5. ASSUME NEW s \in Sessions, Load(s)
      PROVE  CodesDense' /\ \A u \in Sessions : PickOK(tx[u])'
  <2> DEFINE t == tx[s]
             r == Read(tx[s])
  <2>1. t.pc = "called" /\ Passes(t) /\ InBounds(t) /\ NothingCommitted /\ tx' = [tx EXCEPT ![s] = r]
    BY <1>5 DEF Load
  <2>2. r.op = t.op /\ (t.op = "submit" => NextCode \in Codes /\ r.code = NextCode)
    <3>1. t.op = "submit" => NextCode \in Codes
      BY <2>1 DEF Passes, SubmitGuard
    <3>2. t.op = "submit" => r.code = NextCode
      BY DEF Read, Session
    <3> QED
      BY <2>1, <3>1, <3>2, ReadIsOK
  <2>3. PICK n \in 0 .. LastCode : UsedCodes = 1 .. n
    BY DEF CodesDense
  <2>4. NextCode = n + 1
    BY <2>3, NextCodeIs
  <2>5. t.op = "submit" => /\ r.code = 1 \/ r.code - 1 \in UsedCodes
                           /\ request[r.code].status = "absent"
    <3>1. n + 1 \notin UsedCodes /\ (n + 1 = 1 \/ (n + 1) - 1 \in UsedCodes)
      BY <2>3
    <3>2. n + 1 \in Codes => request[n + 1].status = "absent"
      BY <3>1 DEF UsedCodes
    <3> QED
      BY <2>2, <2>4, <3>1, <3>2
  <2>6. PickOK(r)
    <3> HIDE DEF t, r
    <3> QED
      BY <2>2, <2>5 DEF PickOK
  <2> QED
    BY <1>1, <2>1, <2>6
<1>6. ASSUME NEW s \in Sessions, NEW p \in {"asset_written", "written"}, Goto(s, p),
             NothingCommitted, tx[s].pc \in {"loaded", "asset_written"}
      PROVE  CodesDense' /\ \A u \in Sessions : PickOK(tx[u])'
  <2>1. ASSUME NEW t \in Session, PickOK(t), t.pc \in {"loaded", "asset_written"}
        PROVE  PickOK([t EXCEPT !.pc = p])
    BY <2>1 DEF PickOK, HasRead, Session
  <2>2. PickOK([tx[s] EXCEPT !.pc = p])
    BY <1>6, <2>1
  <2>3. tx' = [tx EXCEPT ![s] = [tx[s] EXCEPT !.pc = p]]
    BY <1>6 DEF Goto
  <2> QED
    BY <1>1, <1>6, <2>2, <2>3
<1>7. ASSUME NEW s \in Sessions, WriteAsset(s) \/ WriteRequest(s) \/ InsertRequest(s)
      PROVE  CodesDense' /\ \A u \in Sessions : PickOK(tx[u])'
  BY <1>6, <1>7 DEF WriteAsset, WriteRequest, InsertRequest, AssetDone
<1>8. ASSUME NEW s \in Sessions, DuplicateId(s) \/ Reload(s) PROVE FALSE
  BY <1>8, NoCollision DEF Reload, NoRetry
<1>9. ASSUME NEW s \in Sessions, Commit(s)
      PROVE  CodesDense' /\ \A u \in Sessions : PickOK(tx[u])'
  <2> DEFINE t == tx[s]
  <2>1. \A u \in Sessions : tx'[u] = IF u = s THEN Idle ELSE tx[u]
    BY <1>9 DEF Commit, Leave
  <2>2. t.pc = "written" /\ SessionOK(t) /\ PickOK(t) /\ GuardOK(t) /\ WritesCurrent(t)
    BY <1>9 DEF Commit, WriterIsCurrent
  <2>3. \A c \in Codes :
           request'[c].status = "absent" <=>
               request[c].status = "absent" /\ ~(t.op = "submit" /\ c = t.code)
    <3>1. \A c \in Codes : t.op \in AssetOps \/ c # t.code => request'[c] = request[c]
      BY <1>9, RequestsWritten
    <3>2. t.op \in Ops
      BY <1>9, WrittenRows
    <3>3. t.op \in ReviewOps =>
             request[t.code].status # "absent" /\ request'[t.code].status # "absent"
      BY <1>9, WrittenRows, RequestsWritten DEF ReviewedFrom, Decision, ReviewOps
    <3>4. t.op = "submit" => request'[t.code].status # "absent"
      BY <1>9, RequestsWritten
    <3> QED
      BY <3>1, <3>2, <3>3, <3>4 DEF Ops, AssetOps, ReviewOps
  <2>4. t.op = "submit" => /\ t.code \in Codes /\ request[t.code].status = "absent"
                           /\ t.code = 1 \/ t.code - 1 \in UsedCodes
    BY <1>9, <2>2, WrittenRows DEF PickOK, HasRead
  <2>5. UsedCodes' = IF t.op = "submit" THEN UsedCodes \cup {t.code} ELSE UsedCodes
    BY <2>3, <2>4 DEF UsedCodes
  <2>6. CodesDense'
    <3>1. PICK n \in 0 .. LastCode : UsedCodes = 1 .. n
      BY DEF CodesDense
    <3>2. CASE t.op = "submit"
      <4>1. t.code \notin 1 .. n
        BY <2>4, <3>1, <3>2 DEF UsedCodes
      <4>2. t.code = n + 1 /\ n + 1 \in 0 .. LastCode
        BY <2>4, <3>1, <3>2, <4>1, ConstantsAssumption DEF Codes
      <4>3. UsedCodes' = 1 .. n + 1
        BY <2>5, <3>1, <3>2, <4>2
      <4> QED
        BY <4>2, <4>3 DEF CodesDense
    <3>3. CASE t.op # "submit"
      BY <2>5, <3>3 DEF CodesDense
    <3> QED
      BY <3>2, <3>3
  <2>7. ASSUME NEW u \in Sessions, u # s, tx[u].op = "submit", HasRead(tx[u])
        PROVE  PickOK(tx[u])'
    <3> DEFINE w == tx[u]
    <3>1. /\ w' = w /\ SessionOK(w) /\ PickOK(w) /\ w \in Session
          /\ w.asset \in Assets /\ w.code \in Codes /\ w.version <= asset[w.asset].version
      BY <2>1, <2>7 DEF SessionOK, SubmitOK, AssetReadOK, HasRead
    <3>2. w.code = 1 \/ w.code - 1 \in UsedCodes'
      BY <2>5, <2>7, <3>1 DEF PickOK
    <3>3. ASSUME w.version = asset'[w.asset].version PROVE request'[w.code].status = "absent"
      <4>1. asset'[w.asset] = asset[w.asset] \/ asset'[w.asset].version = asset[w.asset].version + 1
        BY <1>9, <3>1, CommitAsset
      <4>2. asset[w.asset] \in AssetRow
        BY <3>1
      <4>3. w.version = asset[w.asset].version /\ asset'[w.asset] = asset[w.asset]
        BY <3>1, <3>3, <4>1, <4>2 DEF AssetRow, Session
      <4>4. t.op # "submit"
        <5> SUFFICES ASSUME t.op = "submit" PROVE FALSE
          OBVIOUS
        <5>1. t.asset = w.asset
          BY <2>2, <3>1 DEF OneAsset, SessionOK
        <5>2. asset'[t.asset].status = "pending_repair" /\ asset[t.asset].status = "in_use"
          BY <1>9, AssetsWritten, WrittenRows DEF Transitions, NextStatus
        <5> QED
          BY <4>3, <5>1, <5>2
      <4> QED
        BY <2>3, <2>7, <3>1, <4>3, <4>4 DEF PickOK
    <3>4. tx'[u] = tx[u]
      BY <3>1
    <3>5. /\ tx[u].code = 1 \/ tx[u].code - 1 \in UsedCodes'
          /\ tx[u].version = asset'[tx[u].asset].version => request'[tx[u].code].status = "absent"
      BY <3>2, <3>3
    <3> HIDE DEF w
    <3> QED
      BY <3>4, <3>5 DEF PickOK
  <2>8. ASSUME NEW u \in Sessions PROVE PickOK(tx[u])'
    <3>1. CASE u = s
      BY <2>1, <3>1 DEF PickOK, Idle, HasRead
    <3>2. CASE u # s /\ ~(tx[u].op = "submit" /\ HasRead(tx[u]))
      BY <2>1, <3>2 DEF PickOK, HasRead
    <3> QED
      BY <2>7, <3>1, <3>2
  <2> QED
    BY <2>6, <2>8
<1>10. CASE UNCHANGED vars
  BY <1>10 DEF vars, PickOK, HasRead, CodesDense, UsedCodes
<1> QED
  BY <1>3, <1>4, <1>5, <1>7, <1>8, <1>9, <1>10
     DEF Next, Progress, Refuse, StaleAsset, StaleRequest, Fail

\* While a service has one asset, no submission is ever repeated, however many attempts it
\* may make: the handlers implement the lifecycle as they are.
THEOREM OneAssetImplementsLifecycle ==
    ASSUME OneAsset PROVE Spec => ImplementsLifecycle
<1>1. Init => OInv
  <2> SUFFICES ASSUME Init PROVE OInv
    OBVIOUS
  <2>1. RInv
    BY InitRefinement
  <2>2. \A s \in Sessions : tx[s] = Idle
    BY DEF Init
  <2>3. NoRetry /\ \A s \in Sessions : PickOK(tx[s])
    BY <2>2 DEF NoRetry, PickOK, Idle, HasRead
  <2>4. UsedCodes = 1 .. 0
    BY DEF Init, UsedCodes, NoRequest
  <2>5. CodesDense
    BY <2>4, ConstantsAssumption DEF CodesDense
  <2> QED
    BY <2>1, <2>3, <2>5 DEF OInv
<1>2. OInv /\ [Next]_vars => OInv' /\ [GuardedRetry]_vars
  BY NoRetryStep, RefinementStep, PicksStep DEF OInv
<1> QED
  BY <1>1, <1>2, GuardedRetriesImplementLifecycle, PTL DEF Spec, RetriesGuarded

=============================================================================
