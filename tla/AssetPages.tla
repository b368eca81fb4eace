----------------------------- MODULE AssetPages -----------------------------
(***************************************************************************)
(* The two pages on which assets are read and changed: the list            *)
(* (useAssetList) and the detail page with its edit form (useSubmitAction, *)
(* useAssetActions; the review page of a repair request is built alike).   *)
(* Their calls run in the session of BrowserSession, may be answered in    *)
(* any order, and may fail after the server has acted.  The fleet is one   *)
(* number, the version of an asset, which other people raise too.          *)
(***************************************************************************)
EXTENDS BrowserSession

CONSTANTS Keywords, NoKeyword, Pages,
          MaxVersion, MaxOthers \* bounds: versions of the asset, and those others make

ASSUME PagesAssumption == NoKeyword \in Keywords /\ 1 \in Pages /\ MaxVersion \in Nat \ {0}
                           /\ MaxOthers \in 1..MaxVersion

VARIABLES version,   \* of the asset in the database
          list,      \* state of useAssetList, per tab
          detail,    \* state of AssetDetail and its edit form, per tab
          context    \* what the code that awaits a page's call knows
pages == <<version, list, detail, context>>
vars == <<session, pages>>

\* all: the client fetches every page and filters itself (shouldUseClientGlobalMode)
Query == [kw : Keywords, page : Pages, all : BOOLEAN]
NoList == [on |-> FALSE, kw |-> NoKeyword, deb |-> NoKeyword, page |-> 1, all |-> FALSE,
           load |-> None, rows |-> None]
QueryOf(l) == [kw |-> l.deb, page |-> l.page, all |-> l.all]
ListState == [on : BOOLEAN, kw : Keywords, deb : Keywords, page : Pages, all : BOOLEAN,
              load : Slots \cup {None}, rows : Query \cup {None}]
\* seen: version of the loaded asset (0: none); form: version its form was filled from (0: closed)
NoDetail == [on |-> FALSE, seen |-> 0, form |-> 0, busy |-> FALSE, told |-> "nothing",
             did |-> FALSE, lost |-> FALSE]
DetailState == [on : BOOLEAN, seen : 0..MaxVersion, form : 0..MaxVersion, busy : BOOLEAN,
                told : {"nothing", "success", "failure", "conflict"}, did : BOOLEAN,
                lost : BOOLEAN]
\* mine: the component that asked is still mounted and has not asked again
Context ==
    [kind : {"list"}, mine : BOOLEAN, query : Query, part : 1..2]
    \cup [kind : {"get"}, mine : BOOLEAN, then : {"nothing", "success"}, got : 0..MaxVersion]
    \cup [kind : {"act"}, mine : BOOLEAN, sent : 1..MaxVersion, basis : 1..MaxVersion, did : BOOLEAN]

ASSUME NobodyAssumption == None \notin Query \cup Context

\* Slip: the flag belongs to the component, and the clean-up of the last call has set it.
ListContextCancelled(q) == [kind |-> "list", mine |-> FALSE, query |-> q, part |-> 1]

ListContext(q) == [kind |-> "list", mine |-> TRUE, query |-> q, part |-> 1]
GetContext(then) == [kind |-> "get", mine |-> TRUE, then |-> then, got |-> 0]
ActContext(d) == [kind |-> "act", mine |-> TRUE, sent |-> d.seen, basis |-> d.form,
                  did |-> FALSE]

Init == /\ SessionInit
        /\ version = 1
        /\ list = [t \in Tabs |-> NoList] /\ detail = [t \in Tabs |-> NoDetail]
        /\ context = [c \in Slots |-> None]

\* The cleanup functions of the tab's effects: nobody waits for these calls any more, and
\* what they would have brought is forgotten.
Orphan(x) ==
    CASE x.kind = "list" ->
            [ListContext([kw |-> NoKeyword, page |-> 1, all |-> x.query.all /\ x.part = 1])
                EXCEPT !.mine = FALSE]
      [] x.kind = "get" -> [GetContext("nothing") EXCEPT !.mine = FALSE]
      [] x.kind = "act" -> [x EXCEPT !.mine = FALSE]
\* Slip: no cancelled flag.
NotCancelled(t, kinds) == context

Cancelled(t, kinds) ==
    [c \in Slots |-> IF context[c] # None /\ context[c].kind \in kinds /\ calls[c].tab = t
                     THEN Orphan(context[c]) ELSE context[c]]
Everything == {"list", "get", "act"}
Unmount(t) == /\ list' = [list EXCEPT ![t] = NoList]
              /\ detail' = [detail EXCEPT ![t] = NoDetail]

-----------------------------------------------------------------------------
(* useAssetList.ts                                                          *)

\* The effect that loads: runs after a render whose query differs, and on reload.  (The old
\* rows stay under the spinner; they are left out.)
RunEffect(c, t, l) ==
    /\ Free(c)
    /\ list' = [list EXCEPT ![t] = [l EXCEPT !.load = c, !.rows = None]]
    /\ context' = [Cancelled(t, {"list"}) EXCEPT ![c] = ListContext(QueryOf(l))]
    /\ Send(c, t, "page")
    /\ UNCHANGED <<memory, time, seeds, version, detail>>

Render(t, l) ==
    IF QueryOf(l) = QueryOf(list[t])
    THEN list' = [list EXCEPT ![t] = l] /\ UNCHANGED <<session, version, detail, context>>
    ELSE \E c \in Slots : RunEffect(c, t, l)

OpenList(c, t) ==
    /\ memory[t] # None /\ ~list[t].on /\ ~detail[t].on
    /\ RunEffect(c, t, [NoList EXCEPT !.on = TRUE])
TypeKeyword(t, k) ==
    /\ list[t].on /\ k # list[t].kw
    /\ Render(t, [list[t] EXCEPT !.kw = k, !.page = 1])
Debounce(t) ==
    /\ list[t].on /\ list[t].deb # list[t].kw
    /\ Render(t, [list[t] EXCEPT !.deb = list[t].kw])
\* A text filter on a column the server cannot search, or a sort it does not offer.
ChangeMode(t) ==
    /\ list[t].on
    /\ Render(t, [list[t] EXCEPT !.all = ~@, !.page = 1])
ChangePage(t, p) ==
    /\ list[t].on /\ p # list[t].page
    /\ Render(t, [list[t] EXCEPT !.page = p])
\* onResetFilters keeps the sort order, and with it the mode; resetQueryState clears both.
ResetFilters(t) ==
    /\ list[t].on
    /\ \E all \in {list[t].all, FALSE} :
          Render(t, [list[t] EXCEPT !.kw = NoKeyword, !.deb = NoKeyword, !.page = 1, !.all = all])
\* reload(), after an asset was registered; a change of language runs the effect too.
ReloadList(c, t) == list[t].on /\ RunEffect(c, t, list[t])

\* fetchAllAssets asks for the other pages when the first one has come, cancelled or not.
FetchRest(c) ==
    /\ Send(c, calls[c].tab, "page")
    /\ context' = [context EXCEPT ![c] = LET rest == [context[c] EXCEPT !.part = 2] IN
                                          IF context[c].mine THEN rest ELSE Orphan(rest)]
    /\ UNCHANGED <<memory, version, list, detail>>
HasMore(c) == context[c].query.all /\ context[c].part = 1 /\ calls[c].answer = "ok"

\* Slip: setLoading(false) only after a success.
ShowRowsKeepsLoading(c) ==
    /\ list' = IF context[c].mine /\ calls[c].answer = "ok"
               THEN [list EXCEPT ![calls[c].tab].load = None, ![calls[c].tab].rows = context[c].query]
               ELSE list
    /\ UNCHANGED detail

ShowRows(c) ==
    LET t == calls[c].tab
        ok == calls[c].answer = "ok" IN
    /\ list' = IF context[c].mine
               THEN [list EXCEPT ![t].load = None,
                                 ![t].rows = IF ok THEN context[c].query ELSE None]
               ELSE list
    /\ UNCHANGED detail

-----------------------------------------------------------------------------
(* AssetDetail/index.tsx and useSubmitAction.ts                             *)

\* loadAsset; then: what useSubmitAction does when it has returned
Load(c, t, then) ==
    /\ context' = [context EXCEPT ![c] = GetContext(then)]
    /\ Send(c, t, "page")
    /\ UNCHANGED <<memory, time, seeds, version, list>>

OpenDetail(c, t) ==
    /\ memory[t] # None /\ ~list[t].on /\ ~detail[t].on
    /\ Free(c) /\ Load(c, t, "nothing")
    /\ detail' = [detail EXCEPT ![t] = [NoDetail EXCEPT !.on = TRUE]]
\* loadAsset is a new function after a change of language; nobody cancels the older call.
LoadAgain(c, t) ==
    /\ detail[t].on
    /\ Free(c) /\ Load(c, t, "nothing")
    /\ UNCHANGED detail

OpenForm(t) ==
    /\ detail[t].seen # 0 /\ detail[t].form = 0
    /\ detail' = [detail EXCEPT ![t].form = detail[t].seen]
    /\ UNCHANGED <<session, version, list, context>>
CancelForm(t) ==
    /\ detail[t].form # 0
    /\ detail' = [detail EXCEPT ![t].form = 0]
    /\ UNCHANGED <<session, version, list, context>>

\* The button is disabled while a call is on its way, and a conflict must be confirmed first.
Save(c, t) ==
    /\ detail[t].form # 0 /\ ~detail[t].busy /\ detail[t].told # "conflict" /\ Free(c)
    /\ detail' = [detail EXCEPT ![t].busy = TRUE, ![t].told = "nothing", ![t].did = FALSE,
                                ![t].lost = FALSE]
    /\ context' = [context EXCEPT ![c] = ActContext(detail[t])]
    /\ Send(c, t, "page")
    /\ UNCHANGED <<memory, time, seeds, version, list>>

\* OK loads the asset again; the Escape key only closes the warning.
ConfirmConflict(c, t) ==
    /\ detail[t].told = "conflict"
    /\ Free(c) /\ Load(c, t, "nothing")
    /\ detail' = [detail EXCEPT ![t].told = "nothing"]
DismissConflict(t) ==
    /\ detail[t].told = "conflict"
    /\ detail' = [detail EXCEPT ![t].told = "nothing"]
    /\ UNCHANGED <<session, version, list, context>>

\* Slip: the form is filled when it opens, and never again.
ShowAssetKeepsForm(d, v) == [d EXCEPT !.seen = v]

\* setAsset: an open form is filled again from the asset that came.
ShowAsset(d, v) == [d EXCEPT !.seen = v, !.form = IF d.form = 0 THEN 0 ELSE v]
\* Slip: loadAsset passes its error on, and run() takes it for that of the action.
FinishFails(d, then, ok) ==
    IF then = "success"
    THEN [d EXCEPT !.told = IF ok THEN "success" ELSE "failure", !.busy = FALSE,
                   !.form = IF ok THEN 0 ELSE @]
    ELSE d

\* The rest of run() after reload(), which never fails: loadAsset catches its errors.
Finish(d, then, ok) ==
    IF then = "success" THEN [d EXCEPT !.told = "success", !.busy = FALSE, !.form = 0] ELSE d

ReturnGet(c) ==
    LET t == calls[c].tab
        ok == calls[c].answer = "ok"
        d == IF ok THEN ShowAsset(detail[t], context[c].got) ELSE detail[t] IN
    /\ detail' = IF context[c].mine
                 THEN [detail EXCEPT ![t] = Finish(d, context[c].then, ok)] ELSE detail
    /\ UNCHANGED list

\* run() awaits reload() when the action has succeeded, even on a page that is gone.
ActSucceeds(c) ==
    /\ Send(c, calls[c].tab, "page")
    /\ context' = [context EXCEPT ![c] = IF context[c].mine THEN GetContext("success")
                                                ELSE Orphan(GetContext("nothing"))]
    /\ detail' = IF context[c].mine THEN [detail EXCEPT ![calls[c].tab].did = TRUE] ELSE detail
    /\ UNCHANGED <<memory, version, list>>
ActFails(c) ==
    LET t == calls[c].tab IN
    /\ detail' = IF context[c].mine
                 THEN [detail EXCEPT ![t].busy = FALSE, ![t].did = context[c].did,
                          ![t].lost = context[c].did,
                          ![t].told = IF calls[c].answer = "conflict" THEN "conflict" ELSE "failure"]
                 ELSE detail
    /\ UNCHANGED list

-----------------------------------------------------------------------------
(* The server                                                               *)

Reply(c, a) == calls' = [calls EXCEPT ![c].answer = a]

RefuseOrFail(c) ==
    /\ Waiting(c) /\ calls[c].errand = "page"
    /\ \/ ~Accepts(calls[c].token) /\ Reply(c, "refused")
       \/ Reply(c, "failed")
    /\ UNCHANGED <<storage, memory, time, seeds, pages>>

ServeRead(c) ==
    /\ Waiting(c) /\ calls[c].errand = "page" /\ Accepts(calls[c].token)
    /\ context[c].kind \in {"list", "get"}
    /\ Reply(c, "ok")
    /\ context' = IF context[c].kind = "get" /\ context[c].mine
                  THEN [context EXCEPT ![c].got = version] ELSE context
    /\ UNCHANGED <<storage, memory, time, seeds, version, list, detail>>

\* The handler compares versions; the answer to an edit that was made may be lost.
ServeEdit(c) ==
    /\ Waiting(c) /\ calls[c].errand = "page" /\ Accepts(calls[c].token)
    /\ context[c].kind = "act"
    /\ IF context[c].sent = version
       THEN /\ version < MaxVersion /\ version' = version + 1
            /\ context' = [context EXCEPT ![c].did = TRUE]
            /\ \E a \in {"ok", "failed"} : Reply(c, a)
       ELSE /\ Reply(c, "conflict")
            /\ UNCHANGED <<version, context>>
    /\ UNCHANGED <<storage, memory, time, seeds, list, detail>>

OthersEdit ==
    /\ version < MaxOthers /\ version' = version + 1
    /\ UNCHANGED <<session, list, detail, context>>

-----------------------------------------------------------------------------

Drop(c) == /\ calls' = [calls EXCEPT ![c] = None]
           /\ context' = [context EXCEPT ![c] = None]

\* An answer arrives at the tab: first the interceptor, then the code that awaits it.
Deliver(c) ==
    /\ Answered(c)
    /\ UNCHANGED <<time, seeds>>
    /\ \/ \* a login, which navigates to the landing page
          /\ context[c] = None
          /\ Arrive(c) /\ calls' = [calls EXCEPT ![c] = None]
          /\ IF LoggedIn(c)
             THEN /\ Unmount(calls[c].tab) /\ context' = Cancelled(calls[c].tab, Everything)
                  /\ UNCHANGED version
             ELSE UNCHANGED pages
       \/ \* 401: ProtectedRoute leaves the page
          /\ context[c] # None /\ Unauthorized(c)
          /\ Arrive(c) /\ calls' = [calls EXCEPT ![c] = None]
          /\ Unmount(calls[c].tab)
          /\ context' = [Cancelled(calls[c].tab, Everything) EXCEPT ![c] = None]
          /\ UNCHANGED version
       \/ /\ context[c] # None /\ ~Unauthorized(c)
          /\ \/ /\ context[c].kind = "list"
                /\ \/ HasMore(c) /\ FetchRest(c)
                   \/ ShowRows(c) /\ Drop(c) /\ UNCHANGED <<storage, memory, version>>
             \/ /\ context[c].kind = "get"
                /\ ReturnGet(c) /\ Drop(c) /\ UNCHANGED <<storage, memory, version>>
             \/ /\ context[c].kind = "act"
                /\ IF calls[c].answer = "ok" THEN ActSucceeds(c)
                   ELSE ActFails(c) /\ Drop(c) /\ UNCHANGED <<storage, memory, version>>

\* Another route of the application, the login page after a logout, or a fresh start.
Leave(t) ==
    /\ list[t].on \/ detail[t].on
    /\ Unmount(t) /\ context' = Cancelled(t, Everything) /\ UNCHANGED <<session, version>>
LogoutLeaves(t) ==
    /\ Logout(t)
    /\ Unmount(t) /\ context' = Cancelled(t, Everything) /\ UNCHANGED version
StartAgain(t) ==
    /\ LoadApplication(t)
    /\ Unmount(t)
    /\ context' = [c \in Slots |-> IF calls[c] # None /\ calls[c].tab = t THEN None ELSE context[c]]
    /\ UNCHANGED version

UserActs ==
    \E t \in Tabs :
       \/ \E c \in Slots :
             \/ \E p \in People : SubmitLogin(c, t, p) /\ UNCHANGED pages
             \/ OpenList(c, t) \/ ReloadList(c, t)
             \/ OpenDetail(c, t) \/ LoadAgain(c, t) \/ Save(c, t) \/ ConfirmConflict(c, t)
       \/ \E k \in Keywords : TypeKeyword(t, k)
       \/ \E p \in Pages : ChangePage(t, p)
       \/ ChangeMode(t) \/ ResetFilters(t)
       \/ OpenForm(t) \/ CancelForm(t) \/ DismissConflict(t)
       \/ Leave(t) \/ LogoutLeaves(t) \/ StartAgain(t)

Serve(c) ==
    \/ AnswerLogin(c) /\ UNCHANGED pages
    \/ RefuseOrFail(c) \/ ServeRead(c) \/ ServeEdit(c)

System == \/ \E t \in Tabs : Debounce(t)
          \/ \E c \in Slots : Serve(c) \/ Deliver(c)

Next == \/ UserActs \/ System \/ OthersEdit
        \/ (LifetimePasses \/ Reseed) /\ UNCHANGED pages

\* Timers fire, calls are answered (or time out) and answers are delivered; in which order,
\* nobody says.
Spec == Init /\ [][Next]_vars /\ WF_vars(System)

-----------------------------------------------------------------------------

\* Somebody awaits exactly the calls of the pages; one load at most is waited for, by the
\* list that started it; a form is open only on a loaded asset and filled from what is shown.
TypeOK ==
    /\ SessionTypeOK
    /\ version \in 1..MaxVersion
    /\ list \in [Tabs -> ListState] /\ detail \in [Tabs -> DetailState]
    /\ context \in [Slots -> Context \cup {None}]
    /\ \A c \in Slots : context[c] # None <=> calls[c] # None /\ calls[c].errand = "page"
    /\ \A t \in Tabs :
          /\ list[t].load # None =>
                /\ list[t].on /\ context[list[t].load] # None
                /\ context[list[t].load].kind = "list"
          /\ detail[t].form \in {0, detail[t].seen}

\* When the list has stopped loading, its rows answer the filters and the page it shows:
\* late answers to earlier questions never win.
ListShowsLatest ==
    \A t \in Tabs : list[t].load = None /\ list[t].rows # None =>
        list[t].rows = QueryOf(list[t])

\* If the user stops asking, the list stops loading and what was typed has been searched for.
Asks == \E t \in Tabs : \/ list'[t].kw # list[t].kw \/ list'[t].on # list[t].on
                        \/ list'[t].load \notin {None, list[t].load}
Settled == \A t \in Tabs : list[t].on => list[t].load = None /\ list[t].deb = list[t].kw
ListSettles == []<><<Asks>>_list \/ <>[]Settled

\* An edit replaces exactly the version its form was filled from, however loads, conflicts
\* and repeated attempts overlap: nobody's change is overwritten unseen.
EditsWhatWasShown ==
    [][\A c \in Slots :
          context[c] # None /\ context[c].kind = "act" /\ ServeEdit(c) /\ version' # version =>
              context[c].basis = version]_vars

\* What the user is told about an edit is what happened to it: only when the answer of the
\* server was lost may "failed" stand for an edit that was made.
ReportsAreTrue ==
    \A t \in Tabs :
        /\ detail[t].told = "success" => detail[t].did
        /\ detail[t].told = "conflict" => ~detail[t].did
        /\ detail[t].told = "failure" /\ detail[t].did => detail[t].lost

=============================================================================
