----------------------------- MODULE FleetReads -----------------------------
(***************************************************************************)
(* The reading handlers: the manager dashboard and the paginated lists.    *)
(* Each runs several SELECTs, and InnoDB answers all of them from the      *)
(* snapshot the transaction took with its first one, the look-up of the    *)
(* user in get_current_user.  Writers go on meanwhile (AssetLifecycle).    *)
(* Rows carry no order: any sort column of the code may tie, so a page is  *)
(* some set of matching rows of the right size.                            *)
(***************************************************************************)
EXTENDS AssetLifecycle, FiniteSets

CONSTANTS Readers,         \* requests being answered
          Manager,         \* a user with role manager
          Filters,         \* statuses a client filters assets by, or "any"
          PerPage, Pages,  \* rows of a page, pages a client may ask for
          RecentLimit      \* _RECENT_PENDING_LIMIT

ASSUME ReadsAssumption ==
    /\ Manager \notin Holders
    /\ Filters \subseteq AssetStatus \cup {"any"}
    /\ PerPage \in Nat \ {0} /\ Pages \in Nat /\ RecentLimit \in Nat
    /\ IsFiniteSet(Assets) /\ IsFiniteSet(Codes)   \* a table has a number of rows

VARIABLE reader   \* per request: the question, its snapshot and what its SELECTs returned

rows == <<status, holder, request>>

\* kind, user, filter (assets: a status; otherwise none) and page of a request.
Asks ==
    [kind : {"dashboard"}, user : Holders \cup {Manager}, filter : {"any"}, page : {1}]
    \cup [kind : {"assets"}, user : Holders \cup {Manager}, filter : Filters, page : 1..Pages]
    \cup [kind : {"mine", "requests"}, user : Holders \cup {Manager}, filter : {"any"}, page : 1..Pages]

NoAsk == [kind |-> "none", user |-> Manager, filter |-> "any", page |-> 1]
Waiting == [ask |-> NoAsk, view |-> <<>>, got |-> <<>>, code |-> 0]

ReadsInit == reader = [r \in Readers |-> Waiting]

-----------------------------------------------------------------------------

\* require_manager, require_holder; both roles may list repair requests.
Allowed(ask) ==
    CASE ask.kind \in {"dashboard", "assets"} -> ask.user = Manager
      [] ask.kind = "mine" -> ask.user \in Holders
      [] OTHER -> TRUE

\* The first SELECT of a request finds its user and takes the snapshot.
Authenticate(r, ask) ==
    /\ reader[r] = Waiting
    /\ reader' = [reader EXCEPT ![r].ask = ask, ![r].view = rows,
                                ![r].code = IF Allowed(ask) THEN 0 ELSE 403]

\* Slip: every statement sees what is committed by then (READ COMMITTED).
SeesNow(r) == rows

Sees(r) == reader[r].view

StatusIn(r, s) == {a \in Assets : Sees(r)[1][a] = s}
RequestsIn(r, s) == {c \in Codes : Sees(r)[3][c].status = s}
NonDisposed(r) == Assets \ StatusIn(r, "disposed")

\* The rows a list is about; holders get their own only.
Matches(r) ==
    LET ask == reader[r].ask IN
    CASE ask.kind = "assets" -> {a \in Assets : ask.filter \in {"any", Sees(r)[1][a]}}
      [] ask.kind = "mine" -> {a \in Assets : Sees(r)[2][a] = ask.user}
      [] OTHER -> {c \in Codes : /\ Sees(r)[3][c].status # "absent"
                                 /\ ask.user \in {Manager, Sees(r)[3][c].requester}}

Smaller(m, n) == IF m <= n THEN m ELSE n
OnPage(n, page) ==
    IF n <= (page - 1) * PerPage THEN 0 ELSE Smaller(PerPage, n - (page - 1) * PerPage)

\* One SELECT: what it adds to the answer.
Returned(r, x) == reader' = [reader EXCEPT ![r].got = Append(@, x)]

Asking(r, kinds) == reader[r].ask.kind \in kinds /\ reader[r].code = 0
Got(r) == Len(reader[r].got)

SelectTotal(r) ==
    /\ Asking(r, {"assets", "mine", "requests"}) /\ Got(r) = 0
    /\ Returned(r, Cardinality(Matches(r)))

SelectPage(r) ==
    /\ Asking(r, {"assets", "mine", "requests"}) /\ Got(r) = 1
    /\ Returned(r, OnPage(Cardinality(Matches(r)), reader[r].ask.page))

SelectAssetKpis(r) ==
    /\ Asking(r, {"dashboard"}) /\ Got(r) = 0
    /\ Returned(r, [total |-> Cardinality(NonDisposed(r)),
                    in_stock |-> Cardinality(StatusIn(r, "in_stock")),
                    in_use |-> Cardinality(StatusIn(r, "in_use")),
                    pending_repair |-> Cardinality(StatusIn(r, "pending_repair")),
                    under_repair |-> Cardinality(StatusIn(r, "under_repair"))])

\* The counts by category add up to every asset that is not disposed.
SelectCategories(r) ==
    /\ Asking(r, {"dashboard"}) /\ Got(r) = 1
    /\ Returned(r, Cardinality(NonDisposed(r)))

SelectRepairSummary(r) ==
    /\ Asking(r, {"dashboard"}) /\ Got(r) = 2
    /\ Returned(r, [pending_review |-> Cardinality(RequestsIn(r, "pending_review")),
                    under_repair |-> Cardinality(RequestsIn(r, "under_repair"))])

\* The joins with asset and requester lose no row.
SelectRecentPending(r) ==
    /\ Asking(r, {"dashboard"}) /\ Got(r) = 3
    /\ Returned(r, Smaller(RecentLimit, Cardinality(RequestsIn(r, "pending_review"))))

LastSelect(r) == IF reader[r].ask.kind = "dashboard" THEN 4 ELSE 2

\* SQLAlchemyError: 503, nothing of what was read is sent.
ReadFails(r) ==
    /\ reader[r].ask # NoAsk /\ reader[r].code = 0
    /\ reader' = [reader EXCEPT ![r] = [@ EXCEPT !.code = 503, !.got = <<>>]]

Reply(r) ==
    /\ reader[r].ask # NoAsk /\ reader[r].code = 0 /\ Got(r) = LastSelect(r)
    /\ reader' = [reader EXCEPT ![r] = [@ EXCEPT !.code = 200, !.view = <<>>]]

\* The client has its answer.
Close(r) ==
    /\ reader[r].code # 0
    /\ reader' = [reader EXCEPT ![r] = Waiting]

ReadsNext ==
    \E r \in Readers :
        \/ \E ask \in Asks : Authenticate(r, ask)
        \/ SelectTotal(r) \/ SelectPage(r)
        \/ SelectAssetKpis(r) \/ SelectCategories(r)
        \/ SelectRepairSummary(r) \/ SelectRecentPending(r)
        \/ Reply(r) \/ ReadFails(r) \/ Close(r)

-----------------------------------------------------------------------------

Answered(r, kinds) == reader[r].ask.kind \in kinds /\ reader[r].code = 200

\* The cards of one dashboard answer agree with each other, although four statements and
\* two tables are behind them and writers were at work meanwhile: the buckets add up to the
\* total and to the categories, as many assets wait (or are in repair) as requests do, and
\* the list of recent requests is as long as the count says.
DashboardAgrees ==
    \A r \in Readers : Answered(r, {"dashboard"}) =>
        LET kpis == reader[r].got[1]
            summary == reader[r].got[3] IN
        /\ kpis.total = kpis.in_stock + kpis.in_use + kpis.pending_repair + kpis.under_repair
        /\ reader[r].got[2] = kpis.total
        /\ kpis.pending_repair = summary.pending_review
        /\ kpis.under_repair = summary.under_repair
        /\ reader[r].got[4] = Smaller(RecentLimit, summary.pending_review)

\* The page of a list answer has the length its meta.total promises: a client that counts
\* pages from the total never meets a short or an extra page within one answer.
PageFitsTotal ==
    \A r \in Readers : Answered(r, {"assets", "mine", "requests"}) =>
        reader[r].got[2] = OnPage(reader[r].got[1], reader[r].ask.page)

=============================================================================
